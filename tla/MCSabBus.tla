------------------------------- MODULE MCSabBus -------------------------------
(* Two workers sharing at most two buses, sending one non-empty string or  *)
(* the empty string.                                                       *)
EXTENDS SabBus

CONSTANTS wa, wb

MCWorkers == {wa, wb}
MCValues == {"m", ""}
=============================================================================
