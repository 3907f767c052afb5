------------------------------ MODULE SabKvBus ------------------------------
(***************************************************************************)
(* The key-value store of src/kv.rs composed with the "kv" event emitter   *)
(* of src/bus.rs that it emits through.                                    *)
(*                                                                         *)
(* sab_kv_set and sab_kv_del end with EMITTER.emit("set" or "del", ev); in *)
(* this module that emit is the emitter's own emit, so the event reaches   *)
(* the buses subscribed to it at that moment and drops the once            *)
(* subscriptions.  Script code subscribes, unsubscribes and emits on the   *)
(* same "kv" emitter through the bus API.  The workers' calls interleave  *)
(* at every step of the two modules: the read and the write-back of an     *)
(* insert or remove, the emit after it, and each step of the emitter.      *)
(***************************************************************************)
EXTENDS Naturals, Sequences

CONSTANTS
  Workers, Keys, Vals, None,   \* as in SabKv
  Chans, MaxLimit, MaxSubs,    \* as in SabEmitter
  MaxKvCalls,                  \* kv calls each worker makes (model bound)
  MaxEmitCalls,                \* emitter calls each worker makes, the kv's emits included
  MaxReboots                   \* wasabio_reboot calls (model bound)

KvEvents == {"set", "del"}

VARIABLES
  store, queue, kpc, ksnap, pend, kcalls, log,
  listeners, limit, epc, call, esnap, next, ecalls, made, added, removed,
  reboots

kvars == <<store, queue, kpc, ksnap, pend, kcalls, log>>
evars == <<listeners, limit, epc, call, esnap, next, ecalls, made, added, removed>>
vars == <<kvars, evars, reboots>>

(* queue records every event handed to EMITTER.emit.                       *)
K == INSTANCE SabKv WITH Subscribed <- KvEvents, MaxCalls <- MaxKvCalls,
                         pc <- kpc, snap <- ksnap, calls <- kcalls
E == INSTANCE SabEmitter WITH Events <- KvEvents, MaxCalls <- MaxEmitCalls,
                              pc <- epc, snap <- esnap, calls <- ecalls

TypeOK == K!TypeOK /\ E!TypeOK /\ reboots \in 0 .. MaxReboots

Init == K!Init /\ E!Init /\ reboots = 0

(* Emitter calls the worker still owes its kv calls' emits.                *)
Reserved(w) == MaxKvCalls - kcalls[w] + (IF kpc[w] = "idle" THEN 0 ELSE 1)
-----------------------------------------------------------------------------
(* sab_kv_set, sab_kv_del (read and write of STORE) and sab_kv_clear.      *)
KvStep(w) ==
  /\ epc[w] = "idle"
  /\ \/ \E k \in Keys, v \in Vals : K!SetRead(w, k, v)
     \/ \E k \in Keys : K!DelRead(w, k)
     \/ K!MapWrite(w)
     \/ K!Clear(w)
  /\ UNCHANGED <<evars, reboots>>

(* The end of sab_kv_set and sab_kv_del: EMITTER.emit of the event, which  *)
(* reads the event's list and sends to each subscriber.                    *)
KvEmit(w) ==
  /\ K!Emit(w)
  /\ E!EmitRead(w, pend[w].kind)
  /\ UNCHANGED reboots

(* A call on the "kv" emitter from script code (on, once, prepend, off,    *)
(* removeAllListeners, setMaxListeners, emit), and the steps of an emit in *)
(* progress.                                                               *)
BusStep(w) ==
  /\ kpc[w] = "idle"
  /\ epc[w] = "idle" => ecalls[w] + Reserved(w) < MaxEmitCalls
  /\ E!Worker(w)
  /\ UNCHANGED kvars
  /\ UNCHANGED reboots

(* wasabio_reboot between calls: sab_bus_reboot empties EMITTERS, so the   *)
(* "kv" emitter starts again with no subscriptions and no limit, and      *)
(* sab_kv_reboot replaces the EMITTER handle, which names the same "kv"   *)
(* entry.  STORE is not reset.                                             *)
Reboot ==
  /\ reboots < MaxReboots
  /\ \A w \in Workers : kpc[w] = "idle"
  /\ E!Reboot
  /\ reboots' = reboots + 1
  /\ UNCHANGED kvars

Finished ==
  /\ \A w \in Workers : /\ kpc[w] = "idle" /\ epc[w] = "idle"
                        /\ kcalls[w] = MaxKvCalls /\ ecalls[w] = MaxEmitCalls
  /\ UNCHANGED vars

Next == (\E w \in Workers : KvStep(w) \/ KvEmit(w) \/ BusStep(w)) \/ Reboot \/ Finished

Spec == Init /\ [][Next]_vars
-----------------------------------------------------------------------------
(* STORE is what the sets, dels and clears made so far produce, in the     *)
(* order they took effect, whatever the emitter does in between: the       *)
(* insert or remove of one worker never undoes another worker's.           *)
StoreIsReplay == K!StoreIsReplay
=============================================================================
