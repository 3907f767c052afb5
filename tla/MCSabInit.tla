------------------------------ MODULE MCSabInit ------------------------------
(* Three workers racing through their first call of disk().               *)
EXTENDS SabInit

CONSTANTS wa, wb, wc

MCWorkers == {wa, wb, wc}
=============================================================================
