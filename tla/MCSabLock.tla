------------------------------ MODULE MCSabLock ------------------------------
(* Two workers sharing at most two lock slots.                            *)
EXTENDS SabLock

CONSTANTS wa, wb

MCWorkers == {wa, wb}
=============================================================================
