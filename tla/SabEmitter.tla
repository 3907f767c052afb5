------------------------------ MODULE SabEmitter ------------------------------
(***************************************************************************)
(* The event emitters of src/bus.rs: EventEmitterInternal, reached from    *)
(* every worker through the EMITTERS map in shared memory.                 *)
(*                                                                         *)
(* For one emitter, each event name maps to an ordered list of             *)
(* subscriptions (once, channel).  on/once/prependListener/                *)
(* prependOnceListener add one, off removes a channel's, removeAllListeners *)
(* drops a list or all of them, and emit sends the payload to each        *)
(* subscriber's bus and drops the once subscriptions (Vec::retain).        *)
(*                                                                         *)
(* Nothing serialises these calls between workers: the lists are plain     *)
(* Vecs mutated in place.  Concurrent mutation is a data race; the outcome *)
(* modelled is the one a read-modify-write of the list allows: a call reads *)
(* the list, then writes back a list computed from what it read.  With one  *)
(* worker every call is atomic, which is the sequential semantics.         *)
(***************************************************************************)
EXTENDS Naturals, Sequences, FiniteSets, SequencesExt

CONSTANTS
  Workers,   \* workers calling into the emitter
  Events,    \* event names
  Chans,     \* bus ids that subscribe
  MaxLimit,  \* largest value given to setMaxListeners
  MaxCalls,  \* emitter calls each worker makes (model bound)
  MaxSubs    \* subscriptions created over a behaviour (model bound)

VARIABLES
  listeners, \* slots: event -> sequence of [once, ch, tag]
  limit,     \* limit (setMaxListeners); 0 is unlimited
  pc,        \* each worker's step within its current call
  call,      \* the arguments of the worker's current call
  snap,      \* the list the worker read
  next,      \* emit: index of the next subscriber to send to
  calls,     \* calls made so far by each worker
  made,      \* history: subscription tag -> [e, ch, once, fired]
  added,     \* history: tags whose add call has written the list
  removed    \* history: tags that an off or removeAllListeners removed

vars == <<listeners, limit, pc, call, snap, next, calls, made, added, removed>>

Tags == 1 .. MaxSubs
Sub == [once : BOOLEAN, ch : Chans, tag : Tags]
Call == [e : Events, ch : Chans, once : BOOLEAN, front : BOOLEAN, tag : 0 .. MaxSubs]
NoCall == [e |-> CHOOSE e \in Events : TRUE, ch |-> CHOOSE c \in Chans : TRUE,
           once |-> FALSE, front |-> FALSE, tag |-> 0]

TypeOK ==
  /\ listeners \in [Events -> Seq(Sub)]
  /\ limit \in 0 .. MaxLimit
  /\ pc \in [Workers -> {"idle", "add", "off", "send", "write"}]
  /\ call \in [Workers -> Call]
  /\ snap \in [Workers -> Seq(Sub)]
  /\ next \in [Workers -> Nat]
  /\ calls \in [Workers -> 0 .. MaxCalls]
  /\ made \in Seq([e : Events, ch : Chans, once : BOOLEAN, fired : Nat])
  /\ added \subseteq Tags /\ removed \subseteq Tags

(* ensureEmitterExists / EventEmitterInternal::new: no slots, no limit.     *)
(* An absent event and an empty list behave the same in every call.       *)
Init ==
  /\ listeners = [e \in Events |-> <<>>]
  /\ limit = 0
  /\ pc = [w \in Workers |-> "idle"]
  /\ call = [w \in Workers |-> NoCall]
  /\ snap = [w \in Workers |-> <<>>]
  /\ next = [w \in Workers |-> 0]
  /\ calls = [w \in Workers |-> 0]
  /\ made = <<>>
  /\ added = {}
  /\ removed = {}

TagsOf(s) == {s[i].tag : i \in DOMAIN s}

(* A worker starts a call.                                                 *)
Begin(w) ==
  /\ pc[w] = "idle"
  /\ calls[w] < MaxCalls
  /\ calls' = [calls EXCEPT ![w] = @ + 1]

Goto(w, to) == pc' = [pc EXCEPT ![w] = to]
-----------------------------------------------------------------------------
(* on/addListener (once = FALSE) and once (once = TRUE), front = FALSE,    *)
(* and prependListener/prependOnceListener, front = TRUE: read the list.   *)
(* on and once refuse with "Too many listeners" when a limit is set and   *)
(* the list is at it; the prepend calls do not check.                     *)
AddRead(w, e, ch, once, front) ==
  /\ Begin(w)
  /\ \/ /\ ~front /\ limit > 0 /\ Len(listeners[e]) >= limit
        /\ UNCHANGED <<pc, call, snap, made>>
     \/ /\ front \/ limit = 0 \/ Len(listeners[e]) < limit
        /\ Len(made) < MaxSubs
        /\ made' = Append(made, [e |-> e, ch |-> ch, once |-> once, fired |-> 0])
        /\ call' = [call EXCEPT ![w] = [e |-> e, ch |-> ch, once |-> once,
                                        front |-> front, tag |-> Len(made) + 1]]
        /\ snap' = [snap EXCEPT ![w] = listeners[e]]
        /\ Goto(w, "add")
  /\ UNCHANGED <<listeners, limit, next, added, removed>>

(* The push (or insert, or insert(0, ..)) of the new subscription.        *)
AddWrite(w) ==
  LET c   == call[w]
      sub == [once |-> c.once, ch |-> c.ch, tag |-> c.tag]
  IN  /\ pc[w] = "add"
      /\ listeners' = [listeners EXCEPT ![c.e] =
                         IF c.front THEN <<sub>> \o snap[w] ELSE Append(snap[w], sub)]
      /\ added' = added \cup {c.tag}
      /\ Goto(w, "idle")
      /\ UNCHANGED <<limit, call, snap, next, calls, made, removed>>

(* off/removeListener: read the list; an empty one is left alone.         *)
OffRead(w, e, ch) ==
  /\ Begin(w)
  /\ \/ /\ listeners[e] = <<>>
        /\ UNCHANGED <<pc, call, snap>>
     \/ /\ listeners[e] # <<>>
        /\ call' = [call EXCEPT ![w] = [NoCall EXCEPT !.e = e, !.ch = ch]]
        /\ snap' = [snap EXCEPT ![w] = listeners[e]]
        /\ Goto(w, "off")
  /\ UNCHANGED <<listeners, limit, next, made, added, removed>>

(* ch.retain(|(_, c)| *c != channel).                                      *)
OffWrite(w) ==
  LET c == call[w]
  IN  /\ pc[w] = "off"
      /\ listeners' = [listeners EXCEPT ![c.e] = SelectSeq(snap[w], LAMBDA s : s.ch # c.ch)]
      /\ removed' = removed \cup {t \in TagsOf(snap[w]) : made[t].ch = c.ch}
      /\ Goto(w, "idle")
      /\ UNCHANGED <<limit, call, snap, next, calls, made, added>>

(* removeAllListeners(Some(event)): slots.remove(&event).                  *)
RemoveAllOf(w, e) ==
  /\ Begin(w)
  /\ listeners' = [listeners EXCEPT ![e] = <<>>]
  /\ removed' = removed \cup TagsOf(listeners[e])
  /\ UNCHANGED <<limit, pc, call, snap, next, made, added>>

(* removeAllListeners(None): slots.clear().                                *)
RemoveAll(w) ==
  /\ Begin(w)
  /\ listeners' = [e \in Events |-> <<>>]
  /\ removed' = removed \cup UNION {TagsOf(listeners[e]) : e \in Events}
  /\ UNCHANGED <<limit, pc, call, snap, next, made, added>>

(* setMaxListeners(n).                                                     *)
SetMaxListeners(w, n) ==
  /\ Begin(w)
  /\ limit' = n
  /\ UNCHANGED <<listeners, pc, call, snap, next, made, added, removed>>

(* emit(event, value): read the list; Vec::retain returns at once on an   *)
(* empty list.                                                             *)
EmitRead(w, e) ==
  /\ Begin(w)
  /\ \/ /\ listeners[e] = <<>>
        /\ UNCHANGED <<pc, call, snap, next>>
     \/ /\ listeners[e] # <<>>
        /\ call' = [call EXCEPT ![w] = [NoCall EXCEPT !.e = e]]
        /\ snap' = [snap EXCEPT ![w] = listeners[e]]
        /\ next' = [next EXCEPT ![w] = 1]
        /\ Goto(w, "send")
  /\ UNCHANGED <<listeners, limit, made, added, removed>>

(* The retain closure on one subscriber: sab_bus_send(c, value).           *)
EmitSend(w) ==
  LET s == snap[w][next[w]]
  IN  /\ pc[w] = "send"
      /\ made' = [made EXCEPT ![s.tag].fired = @ + 1]
      /\ next' = [next EXCEPT ![w] = @ + 1]
      /\ Goto(w, IF next[w] = Len(snap[w]) THEN "write" ELSE "send")
      /\ UNCHANGED <<listeners, limit, call, snap, calls, added, removed>>

(* The end of retain: the list keeps the entries whose closure returned    *)
(* !once.                                                                  *)
EmitWrite(w) ==
  /\ pc[w] = "write"
  /\ listeners' = [listeners EXCEPT ![call[w].e] = SelectSeq(snap[w], LAMBDA s : ~s.once)]
  /\ Goto(w, "idle")
  /\ UNCHANGED <<limit, call, snap, next, calls, made, added, removed>>

Worker(w) ==
  \/ \E e \in Events, ch \in Chans, once, front \in BOOLEAN : AddRead(w, e, ch, once, front)
  \/ AddWrite(w)
  \/ \E e \in Events, ch \in Chans : OffRead(w, e, ch)
  \/ OffWrite(w)
  \/ \E e \in Events : RemoveAllOf(w, e)
  \/ RemoveAll(w)
  \/ \E n \in 0 .. MaxLimit : SetMaxListeners(w, n)
  \/ \E e \in Events : EmitRead(w, e)
  \/ EmitSend(w)
  \/ EmitWrite(w)

(* The EMITTERS half of sab_bus_reboot, run between calls: the map is      *)
(* replaced by an empty one, and the next call through the emitter's      *)
(* handle re-creates it (ensureEmitterExists) with no slots and no limit.  *)
(* The subscriptions it held are gone as if removed.                       *)
Reboot ==
  /\ \A w \in Workers : pc[w] = "idle"
  /\ listeners' = [e \in Events |-> <<>>]
  /\ limit' = 0
  /\ removed' = removed \cup UNION {TagsOf(listeners[e]) : e \in Events}
  /\ UNCHANGED <<pc, call, snap, next, calls, made, added>>

(* Every worker has made its calls.                                        *)
Finished ==
  /\ \A w \in Workers : pc[w] = "idle" /\ calls[w] = MaxCalls
  /\ UNCHANGED vars

Next == (\E w \in Workers : Worker(w)) \/ Finished

Spec == Init /\ [][Next]_vars
=============================================================================
