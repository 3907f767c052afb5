-------------------------------- MODULE SabKv --------------------------------
(***************************************************************************)
(* The key-value store of src/kv.rs and the events it emits.               *)
(*                                                                         *)
(* STORE is one HashMap<String, String> in shared memory.  sab_kv_set      *)
(* inserts and then emits "set" on the "kv" emitter with the key, the old   *)
(* value if there was one and the new value; sab_kv_del removes and emits  *)
(* "del" with the key and the old value; sab_kv_clear empties the map and  *)
(* emits nothing.  sab_kv_get, sab_kv_key and sab_kv_length only read.     *)
(*                                                                         *)
(* No lock is taken.  HashMap::insert and remove from two workers at once  *)
(* are a data race; the outcome modelled is a read-modify-write of the map: *)
(* the call reads the map (and the old value it will report), then writes  *)
(* back the map it read with its own change.  The emit is a later step.    *)
(* The "kv" emitter is reduced to one subscriber bus that listens to the   *)
(* events in Subscribed; emit pushes the event onto that bus's queue       *)
(* (SabEmitter and SabBus model those parts themselves).                   *)
(***************************************************************************)
EXTENDS Naturals, Sequences, SequencesExt

CONSTANTS
  Workers,     \* workers calling the kv API
  Keys,        \* keys
  Vals,        \* values given to sab_kv_set
  None,        \* an absent key / a missing oldValue
  Subscribed,  \* events the subscriber bus listens to, within {"set", "del"}
  MaxCalls     \* calls each worker makes (model bound)

ASSUME None \notin Vals /\ Subscribed \subseteq {"set", "del"}

VARIABLES
  store,   \* STORE: key -> value, None if absent
  queue,   \* the subscriber bus: the events it has received, in order
  pc,      \* each worker's step: "idle", "write" or "emit"
  snap,    \* the map the worker read
  pend,    \* the mutation the worker is making, with the old value it read
  calls,   \* calls made so far by each worker
  log      \* history: mutations in the order they took effect

vars == <<store, queue, pc, snap, pend, calls, log>>

Value == Vals \cup {None}
Empty == [k \in Keys |-> None]
Entry == [kind : {"set", "del", "clear"}, key : Keys, old : Value, new : Value]
NoEntry == [kind |-> "clear", key |-> CHOOSE k \in Keys : TRUE, old |-> None, new |-> None]

TypeOK ==
  /\ store \in [Keys -> Value]
  /\ queue \in Seq(Entry)
  /\ pc \in [Workers -> {"idle", "write", "emit"}]
  /\ snap \in [Workers -> [Keys -> Value]]
  /\ pend \in [Workers -> Entry]
  /\ calls \in [Workers -> 0 .. MaxCalls]
  /\ log \in Seq(Entry)

(* STORE and EMITTER are Lazy: an empty map, an emitter with no events.    *)
Init ==
  /\ store = Empty
  /\ queue = <<>>
  /\ pc = [w \in Workers |-> "idle"]
  /\ snap = [w \in Workers |-> Empty]
  /\ pend = [w \in Workers |-> NoEntry]
  /\ calls = [w \in Workers |-> 0]
  /\ log = <<>>

Begin(w) ==
  /\ pc[w] = "idle"
  /\ calls[w] < MaxCalls
  /\ calls' = [calls EXCEPT ![w] = @ + 1]

(* The map after a set or del of pend's key, applied to map m.             *)
Applied(m, x) == [m EXCEPT ![x.key] = x.new]
-----------------------------------------------------------------------------
(* sab_kv_set, STORE.insert, first half: read the map and the old value.   *)
SetRead(w, k, v) ==
  /\ Begin(w)
  /\ snap' = [snap EXCEPT ![w] = store]
  /\ pend' = [pend EXCEPT ![w] = [kind |-> "set", key |-> k, old |-> store[k], new |-> v]]
  /\ pc' = [pc EXCEPT ![w] = "write"]
  /\ UNCHANGED <<store, queue, log>>

(* sab_kv_del, STORE.remove, first half: read the map and the old value.   *)
DelRead(w, k) ==
  /\ Begin(w)
  /\ snap' = [snap EXCEPT ![w] = store]
  /\ pend' = [pend EXCEPT ![w] = [kind |-> "del", key |-> k, old |-> store[k], new |-> None]]
  /\ pc' = [pc EXCEPT ![w] = "write"]
  /\ UNCHANGED <<store, queue, log>>

(* Second half of insert or remove: write back the map read with the       *)
(* change.  The history records the change against the map as it is now.  *)
MapWrite(w) ==
  LET x == pend[w]
  IN  /\ pc[w] = "write"
      /\ store' = Applied(snap[w], x)
      /\ log' = Append(log, [x EXCEPT !.old = store[x.key]])
      /\ pc' = [pc EXCEPT ![w] = "emit"]
      /\ UNCHANGED <<queue, snap, pend, calls>>

(* EMITTER.emit("set" or "del", ev): the event, with the old value the     *)
(* insert or remove returned, reaches the subscriber's bus if it listens.  *)
Emit(w) ==
  /\ pc[w] = "emit"
  /\ queue' = IF pend[w].kind \in Subscribed THEN Append(queue, pend[w]) ELSE queue
  /\ pc' = [pc EXCEPT ![w] = "idle"]
  /\ UNCHANGED <<store, snap, pend, calls, log>>

(* sab_kv_clear: STORE.clear(), no event.                                  *)
Clear(w) ==
  /\ Begin(w)
  /\ store' = Empty
  /\ log' = Append(log, NoEntry)
  /\ UNCHANGED <<queue, pc, snap, pend>>

Worker(w) ==
  \/ \E k \in Keys, v \in Vals : SetRead(w, k, v)
  \/ \E k \in Keys : DelRead(w, k)
  \/ MapWrite(w)
  \/ Emit(w)
  \/ Clear(w)

Finished ==
  /\ \A w \in Workers : pc[w] = "idle" /\ calls[w] = MaxCalls
  /\ UNCHANGED vars

Next == (\E w \in Workers : Worker(w)) \/ Finished

Spec == Init /\ [][Next]_vars
-----------------------------------------------------------------------------
Quiescent == \A w \in Workers : pc[w] = "idle"

(* The map the history of mutations produces from the empty map.           *)
Replay(l) ==
  FoldLeft(LAMBDA m, x : IF x.kind = "clear" THEN Empty ELSE Applied(m, x), Empty, l)

(* When no call is in progress, STORE holds what the sets, dels and clears *)
(* made so far produce in the order they took effect: no insert or remove  *)
(* of one worker undoes another's.  STORE is a HashMap shared by all       *)
(* workers with no lock, so two workers' calls can break this.             *)
StoreIsReplay == Quiescent => store = Replay(log)

=============================================================================
