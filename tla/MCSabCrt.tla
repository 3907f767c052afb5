------------------------------ MODULE MCSabCrt ------------------------------
(* Two heap addresses, three-byte buffers over the bytes 0 .. 2.           *)
EXTENDS SabCrt

CONSTANTS wa, wb, a1, a2, null

OneWorker == {wa}
TwoWorkers == {wa, wb}
MCAddrs == {a1, a2}
=============================================================================
