-------------------------------- MODULE SabBus --------------------------------
(***************************************************************************)
(* The bus registry of src/bus.rs.                                         *)
(*                                                                         *)
(* BUSES is a grow-only vector of slots in shared memory; a slot has a     *)
(* lock-free queue of strings (crossbeam SegQueue, whose push and pop are  *)
(* atomic and FIFO) and a `held` flag that sab_bus_new recycles on.        *)
(* sab_bus_new scans and then claims, like sab_lock_new; sab_bus_broadcast *)
(* and sab_bus_yeet push on one slot per step of their loop; Bus::dispose  *)
(* drains with receive until it gets "" and then frees.                    *)
(***************************************************************************)
EXTENDS Naturals, Sequences, FiniteSets

CONSTANTS
  Workers,   \* the workers sharing the memory
  Values,    \* message strings; Empty is the empty string
  Empty,
  MaxBuses,  \* bound on the length of BUSES
  MaxCalls,  \* bus calls each worker makes (model bound)
  MaxReboots \* sab_bus_reboot calls (model bound)

ASSUME Empty \in Values /\ MaxBuses \in Nat \ {0}

VARIABLES
  buses,     \* BUSES: sequence of [q, held]; the id of slot i is i-1
  gen,       \* history: how many times each slot has been handed out
  pc,        \* each worker's step
  target,    \* the id being claimed, drained, or the broadcast's `from`
  idx,       \* broadcast/yeet: the slot the loop is at
  lim,       \* broadcast/yeet: the length of BUSES when the loop began
  val,       \* broadcast/yeet: the value being sent
  owned,     \* ids sab_bus_new returned to each worker and not yet freed
  calls,     \* calls made so far by each worker
  reboots    \* sab_bus_reboot calls made so far

vars == <<buses, gen, pc, target, idx, lim, val, owned, calls, reboots>>

BusIds == 0 .. MaxBuses - 1
NoBus == MaxBuses
Allocated == 0 .. Len(buses) - 1
Slot(id) == buses[id + 1]

(* The queue BUSES.get(id) finds; an id past the end finds none, and       *)
(* receive on it gives "" as on an empty queue.                            *)
Queue(id) == IF id \in Allocated THEN Slot(id).q ELSE <<>>

(* BUSES.get_mut(id) and clear held: nothing for an id past the end.       *)
Unhold(id) == buses' = IF id \in Allocated THEN [buses EXCEPT ![id + 1].held = FALSE] ELSE buses

(* A message, tagged (history) with the generation of the slot it is       *)
(* pushed on.                                                              *)
Msg == [v : Values, gen : Nat]

TypeOK ==
  /\ buses \in Seq([q : Seq(Msg), held : BOOLEAN])
  /\ Len(buses) <= MaxBuses /\ gen \in Seq(Nat) /\ Len(gen) = Len(buses)
  /\ pc \in [Workers -> {"idle", "claim", "bcast", "drain", "free"}]
  /\ target \in [Workers -> BusIds \cup {NoBus}]
  /\ idx \in [Workers -> 0 .. MaxBuses] /\ lim \in [Workers -> 0 .. MaxBuses]
  /\ val \in [Workers -> Values]
  /\ owned \in [Workers -> SUBSET BusIds]
  /\ calls \in [Workers -> 0 .. MaxCalls]
  /\ reboots \in 0 .. MaxReboots

Init ==
  /\ buses = <<>>
  /\ gen = <<>>
  /\ pc = [w \in Workers |-> "idle"]
  /\ target = [w \in Workers |-> NoBus]
  /\ idx = [w \in Workers |-> 0]
  /\ lim = [w \in Workers |-> 0]
  /\ val = [w \in Workers |-> Empty]
  /\ owned = [w \in Workers |-> {}]
  /\ calls = [w \in Workers |-> 0]
  /\ reboots = 0

Begin(w) ==
  /\ pc[w] = "idle"
  /\ calls[w] < MaxCalls
  /\ calls' = [calls EXCEPT ![w] = @ + 1]

(* c.q.push(value) on slot `id`, if BUSES.get(id) finds it.                *)
Push(id, v) ==
  buses' = IF id \in Allocated
           THEN [buses EXCEPT ![id + 1].q = Append(@, [v |-> v, gen |-> gen[id + 1]])]
           ELSE buses

(* Workers between the scan and a push (model bound on BUSES).            *)
Pushing == {u \in Workers : pc[u] = "claim" /\ target[u] = NoBus}
-----------------------------------------------------------------------------
(* sab_bus_new, the find_map over BUSES for a slot that is not held.       *)
NewScan(w) ==
  LET free == {id \in Allocated : ~Slot(id).held}
  IN  /\ Begin(w)
      /\ free # {} \/ Len(buses) + Cardinality(Pushing) < MaxBuses
      /\ target' = [target EXCEPT ![w] =
                      IF free = {} THEN NoBus
                      ELSE CHOOSE id \in free : \A j \in free : id <= j]
      /\ pc' = [pc EXCEPT ![w] = "claim"]
      /\ UNCHANGED <<buses, gen, idx, lim, val, owned>>

(* sab_bus_new: set held on the slot found (its queue as it is), or push a *)
(* default slot and return the length read now.                            *)
NewClaim(w) ==
  /\ pc[w] = "claim"
  /\ \/ /\ target[w] # NoBus
        /\ buses' = [buses EXCEPT ![target[w] + 1].held = TRUE]
        /\ gen' = [gen EXCEPT ![target[w] + 1] = @ + 1]
        /\ owned' = [owned EXCEPT ![w] = @ \cup {target[w]}]
     \/ /\ target[w] = NoBus
        /\ Len(buses) < MaxBuses
        /\ buses' = Append(buses, [q |-> <<>>, held |-> TRUE])
        /\ gen' = Append(gen, 1)
        /\ owned' = [owned EXCEPT ![w] = @ \cup {Len(buses)}]
  /\ pc' = [pc EXCEPT ![w] = "idle"]
  /\ target' = [target EXCEPT ![w] = NoBus]
  /\ UNCHANGED <<idx, lim, val, calls>>

(* sab_bus_free: clear held; the queue is left as it is.                   *)
Free(w, id) ==
  /\ Begin(w)
  /\ id \in owned[w]
  /\ Unhold(id)
  /\ owned' = [owned EXCEPT ![w] = @ \ {id}]
  /\ UNCHANGED <<gen, pc, target, idx, lim, val>>

(* sab_bus_send(to, value).                                                *)
Send(w, to, v) ==
  /\ Begin(w)
  /\ Push(to, v)
  /\ UNCHANGED <<gen, pc, target, idx, lim, val, owned>>

(* sab_bus_broadcast(from, value), and sab_bus_yeet(value) as from = none: *)
(* the iterator over BUSES begins.                                         *)
BcastBegin(w, from, v) ==
  /\ Begin(w)
  /\ pc' = [pc EXCEPT ![w] = IF buses = <<>> THEN "idle" ELSE "bcast"]
  /\ target' = [target EXCEPT ![w] = from]
  /\ idx' = [idx EXCEPT ![w] = 0]
  /\ lim' = [lim EXCEPT ![w] = Len(buses)]
  /\ val' = [val EXCEPT ![w] = v]
  /\ UNCHANGED <<buses, gen, owned>>

(* One iteration: sab_bus_send(c.id, value) unless c.id is `from`.         *)
BcastStep(w) ==
  /\ pc[w] = "bcast"
  /\ IF idx[w] # target[w] THEN Push(idx[w], val[w]) ELSE UNCHANGED buses
  /\ idx' = [idx EXCEPT ![w] = @ + 1]
  /\ pc' = [pc EXCEPT ![w] = IF idx[w] + 1 = lim[w] THEN "idle" ELSE "bcast"]
  /\ UNCHANGED <<gen, target, lim, val, owned, calls>>

(* sab_bus_receive(channel): pop one message, or "" when none is pending.  *)
Receive(w, id) ==
  /\ Begin(w)
  /\ id \in owned[w]
  /\ buses' = IF Queue(id) = <<>> THEN buses ELSE [buses EXCEPT ![id + 1].q = Tail(@)]
  /\ UNCHANGED <<gen, pc, target, idx, lim, val, owned>>

(* Bus::dispose (also Bus::drop) begins.                                   *)
Dispose(w, id) ==
  /\ Begin(w)
  /\ id \in owned[w]
  /\ pc' = [pc EXCEPT ![w] = "drain"]
  /\ target' = [target EXCEPT ![w] = id]
  /\ UNCHANGED <<buses, gen, idx, lim, val, owned>>

(* `while self.receive() != ""`: one receive; the loop ends on "", which   *)
(* is both an empty queue and a popped empty string.                       *)
DrainStep(w) ==
  LET q == Queue(target[w])
  IN  /\ pc[w] = "drain"
      /\ buses' = IF q = <<>> THEN buses ELSE [buses EXCEPT ![target[w] + 1].q = Tail(@)]
      /\ pc' = [pc EXCEPT ![w] = IF q = <<>> \/ Head(q).v = Empty THEN "free" ELSE "drain"]
      /\ UNCHANGED <<gen, target, idx, lim, val, owned, calls>>

(* The sab_bus_free at the end of dispose.                                 *)
DisposeFree(w) ==
  /\ pc[w] = "free"
  /\ Unhold(target[w])
  /\ owned' = [owned EXCEPT ![w] = @ \ {target[w]}]
  /\ pc' = [pc EXCEPT ![w] = "idle"]
  /\ target' = [target EXCEPT ![w] = NoBus]
  /\ UNCHANGED <<gen, idx, lim, val, calls>>

Worker(w) ==
  /\ \/ NewScan(w) \/ NewClaim(w)
     \/ \E id \in BusIds : Free(w, id) \/ Receive(w, id) \/ Dispose(w, id)
     \/ \E to \in BusIds, v \in Values : Send(w, to, v)
     \/ \E from \in owned[w] \cup {NoBus}, v \in Values : BcastBegin(w, from, v)
     \/ BcastStep(w)
     \/ DrainStep(w)
     \/ DisposeFree(w)
  /\ UNCHANGED reboots

(* The BUSES half of sab_bus_reboot, run between calls: BUSES becomes an   *)
(* empty Vec, queues and all; the ids workers hold stay with them and name *)
(* the slots later sab_bus_new calls push.                                 *)
Reboot ==
  /\ reboots < MaxReboots
  /\ \A w \in Workers : pc[w] = "idle"
  /\ buses' = <<>> /\ gen' = <<>>
  /\ reboots' = reboots + 1
  /\ UNCHANGED <<pc, target, idx, lim, val, owned, calls>>

(* Every worker has made its calls.                                        *)
Finished ==
  /\ \A w \in Workers : pc[w] = "idle" /\ calls[w] = MaxCalls
  /\ UNCHANGED vars

Next == (\E w \in Workers : Worker(w)) \/ Reboot \/ Finished

(* Workers are scheduled by the host: weak fairness of each.               *)
Spec == Init /\ [][Next]_vars /\ \A w \in Workers : WF_vars(Worker(w))
-----------------------------------------------------------------------------
(* A bus sab_bus_new hands out holds no message sent before it was handed *)
(* out: spec.md says pending messages are discarded on free, and so does  *)
(* sab_bus_free's doc comment.  sab_bus_free only clears held, a send to a *)
(* freed bus still pushes, and Bus::dispose's drain stops at the first "" *)
(* it pops, so a recycled slot can come with an earlier owner's messages. *)
NoStaleMessages ==
  \A id \in Allocated :
    Slot(id).held => \A i \in DOMAIN Slot(id).q : Slot(id).q[i].gen = gen[id + 1]
=============================================================================
