------------------------------ MODULE MCSabKvBus ------------------------------
(* Two workers, two keys and two values, two subscribing buses.            *)
EXTENDS SabKvBus

CONSTANTS wa, wb, k1, k2, vx, vy, none

TwoWorkers == {wa, wb}
MCKeys == {k1, k2}
MCVals == {vx, vy}
MCChans == {0, 1}
=============================================================================
