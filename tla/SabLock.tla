------------------------------- MODULE SabLock -------------------------------
(***************************************************************************)
(* The cross-worker lock registry of src/lock.rs.                          *)
(*                                                                         *)
(* LOCKS is a grow-only vector of slots in memory shared by all workers.   *)
(* A slot has an atomic word (0 free, 1 poisoned) and an administrative    *)
(* `held` flag telling sab_lock_new whether the slot may be recycled.      *)
(*                                                                         *)
(* Every load and store the code makes on shared memory is its own step:   *)
(* sab_lock_new scans for a recyclable slot and then claims it, and        *)
(* sab_lock_acquire spins on a load of the word (AtomicLock::block) and    *)
(* then stores 1 (AtomicLock::poison).  Nothing makes either pair atomic.  *)
(***************************************************************************)
EXTENDS Naturals, Sequences, FiniteSets

CONSTANTS
  Workers,      \* the workers sharing the memory
  MaxLocks,     \* bound on the length of LOCKS
  MaxReboots    \* bound on the sab_lock_reboot calls

ASSUME MaxLocks \in Nat \ {0} /\ MaxReboots \in Nat

VARIABLES
  locks,     \* LOCKS: sequence of [word, held]; the lock id of slot i is i-1
  pc,        \* each worker's position in the lock API
  target,    \* the lock id the worker is allocating or acquiring
  issued,    \* ids sab_lock_new returned to each worker and it has not freed
  reboots    \* sab_lock_reboot calls made so far (model bound)

vars == <<locks, pc, target, issued, reboots>>

LockIds == 0 .. MaxLocks - 1
Allocated == 0 .. Len(locks) - 1
Slot(id) == locks[id + 1]

(* AtomicLock::default: a fresh slot is unpoisoned and held.               *)
DefaultLock == [word |-> 0, held |-> TRUE]

(* AtomicLock::poisoned / poison / unpoison on slot `id`; the store is    *)
(* made through LOCKS.get_mut(id), which does nothing for an id past the   *)
(* end of LOCKS.                                                           *)
Poisoned(id) == Slot(id).word # 0
SetWord(id, v) == locks' = IF id \in Allocated THEN [locks EXCEPT ![id + 1].word = v] ELSE locks

TypeOK ==
  /\ locks \in Seq([word : {0, 1}, held : BOOLEAN])
  /\ Len(locks) <= MaxLocks
  /\ pc \in [Workers -> {"idle", "claim", "spin", "poison", "cs"}]
  /\ target \in [Workers -> LockIds \cup {MaxLocks}]
  /\ issued \in [Workers -> SUBSET LockIds]
  /\ reboots \in 0 .. MaxReboots

Init ==
  /\ locks = <<>>
  /\ pc = [w \in Workers |-> "idle"]
  /\ target = [w \in Workers |-> MaxLocks]
  /\ issued = [w \in Workers |-> {}]
  /\ reboots = 0

(* Workers between the scan and a push (model bound on LOCKS).            *)
Pushing == {v \in Workers : pc[v] = "claim" /\ target[v] = MaxLocks}

(* sab_lock_new, first half: scan LOCKS for a slot whose held flag is      *)
(* clear.  If there is none the id will be the length of LOCKS at the      *)
(* time of the push, so `target` records MaxLocks for "none found".        *)
NewScan(w) ==
  LET free == {id \in Allocated : ~Slot(id).held}
  IN  /\ pc[w] = "idle"
      /\ free # {} \/ Len(locks) + Cardinality(Pushing) < MaxLocks
      /\ target' = [target EXCEPT ![w] =
                      IF free = {} THEN MaxLocks
                      ELSE CHOOSE id \in free : \A j \in free : id <= j]
      /\ pc' = [pc EXCEPT ![w] = "claim"]
      /\ UNCHANGED <<locks, issued>>

(* Mutant of NewClaim: the id returned is the length after the push.       *)
NewClaimAfterPush(w) ==
  /\ pc[w] = "claim"
  /\ \/ /\ target[w] < MaxLocks
        /\ locks' = [locks EXCEPT ![target[w] + 1].held = TRUE]
        /\ issued' = [issued EXCEPT ![w] = @ \cup {target[w]}]
     \/ /\ target[w] = MaxLocks
        /\ Len(locks) < MaxLocks
        /\ locks' = Append(locks, DefaultLock)
        /\ issued' = [issued EXCEPT ![w] = @ \cup {Len(locks')}]
  /\ pc' = [pc EXCEPT ![w] = "idle"]
  /\ target' = [target EXCEPT ![w] = MaxLocks]

(* sab_lock_new, second half: set held on the slot found, or push a        *)
(* default slot and return the length read now.                            *)
NewClaim(w) ==
  /\ pc[w] = "claim"
  /\ \/ /\ target[w] < MaxLocks
        /\ locks' = [locks EXCEPT ![target[w] + 1].held = TRUE]
        /\ issued' = [issued EXCEPT ![w] = @ \cup {target[w]}]
     \/ /\ target[w] = MaxLocks
        /\ Len(locks) < MaxLocks
        /\ locks' = Append(locks, DefaultLock)
        /\ issued' = [issued EXCEPT ![w] = @ \cup {Len(locks)}]
  /\ pc' = [pc EXCEPT ![w] = "idle"]
  /\ target' = [target EXCEPT ![w] = MaxLocks]

(* sab_lock_free (also Lock::drop): unpoison and clear held, through      *)
(* LOCKS.get_mut(id), a no-op for an id past the end.                      *)
Free(w, id) ==
  /\ pc[w] = "idle"
  /\ id \in issued[w]
  /\ locks' = IF id \in Allocated THEN [locks EXCEPT ![id + 1] = [word |-> 0, held |-> FALSE]]
              ELSE locks
  /\ issued' = [issued EXCEPT ![w] = @ \ {id}]
  /\ UNCHANGED <<pc, target>>

(* sab_lock_acquire on an id some worker was given by sab_lock_new, or on  *)
(* one the worker still holds from before a reboot: LOCKS.get_mut(id) is   *)
(* None past the end of LOCKS, and the call returns at once, the caller    *)
(* going on as if it held the lock.                                        *)
BeginAcquire(w, id) ==
  /\ pc[w] = "idle"
  /\ id \in Allocated \cup issued[w]
  /\ pc' = [pc EXCEPT ![w] = IF id \in Allocated THEN "spin" ELSE "cs"]
  /\ target' = [target EXCEPT ![w] = id]
  /\ UNCHANGED <<locks, issued>>

(* AtomicLock::block: one iteration of `while self.poisoned()`.  A load    *)
(* that sees 1 changes nothing; one that sees 0 leaves the loop.           *)
Spin(w) ==
  /\ pc[w] = "spin"
  /\ pc' = [pc EXCEPT ![w] = IF Poisoned(target[w]) THEN "spin" ELSE "poison"]
  /\ UNCHANGED <<locks, target, issued>>

(* AtomicLock::poison: the store of 1 after the loop.                      *)
Poison(w) ==
  /\ pc[w] = "poison"
  /\ SetWord(target[w], 1)
  /\ pc' = [pc EXCEPT ![w] = "cs"]
  /\ UNCHANGED <<target, issued>>

(* Mutant of Release: the word is left poisoned.                           *)
ReleaseKeepsWord(w) ==
  /\ pc[w] = "cs"
  /\ SetWord(target[w], 1)
  /\ pc' = [pc EXCEPT ![w] = "idle"]
  /\ target' = [target EXCEPT ![w] = MaxLocks]
  /\ UNCHANGED issued

(* sab_lock_release (also Guard::drop): unpoison.                          *)
Release(w) ==
  /\ pc[w] = "cs"
  /\ SetWord(target[w], 0)
  /\ pc' = [pc EXCEPT ![w] = "idle"]
  /\ target' = [target EXCEPT ![w] = MaxLocks]
  /\ UNCHANGED issued

Worker(w) ==
  /\ \/ NewScan(w)
     \/ NewClaim(w)
     \/ \E id \in LockIds : Free(w, id)
     \/ \E id \in LockIds : BeginAcquire(w, id)
     \/ Spin(w)
     \/ Poison(w)
     \/ Release(w)
  /\ UNCHANGED reboots

(* sab_lock_reboot, first of the steps of wasabio_reboot, which is "not    *)
(* thread-safe": it runs while no worker is inside a lock call, though a   *)
(* worker may hold a lock or a Lock id.  LOCKS becomes an empty Vec; the   *)
(* ids workers hold stay with them and now name the slots that later      *)
(* sab_lock_new calls push.                                                *)
Reboot ==
  /\ reboots < MaxReboots
  /\ \A w \in Workers : pc[w] \in {"idle", "cs"}
  /\ locks' = <<>>
  /\ reboots' = reboots + 1
  /\ UNCHANGED <<pc, target, issued>>

Next == (\E w \in Workers : Worker(w)) \/ Reboot

(* Workers are scheduled by the host; none stops for good while it can     *)
(* run, which is weak fairness of each worker.                             *)
Fairness == \A w \in Workers : WF_vars(Worker(w))

Spec == Init /\ [][Next]_vars /\ Fairness

-----------------------------------------------------------------------------
(* A worker is inside the critical section of lock `id`.                   *)
InCs(w, id) == pc[w] = "cs" /\ target[w] = id

(* Mutual exclusion, what sab_lock_acquire promises ("same as locking a    *)
(* mutex"): no two workers are ever inside the same lock at once.          *)
MutualExclusion ==
  \A w1, w2 \in Workers, id \in LockIds :
    w1 # w2 => ~(InCs(w1, id) /\ InCs(w2, id))

(* Deadlock freedom of sab_lock_acquire: while a worker spins in          *)
(* AtomicLock::block, some worker is eventually inside a lock.  It holds   *)
(* only if every release (and every free) leaves the word at 0, also when  *)
(* sab_lock_reboot has left ids naming slots that later sab_lock_new calls *)
(* push.  It says nothing of which worker gets in: block is a plain        *)
(* test-then-set spin, and a worker that keeps re-acquiring can starve     *)
(* another one for ever.                                                   *)
DeadlockFree ==
  (\E w \in Workers : pc[w] = "spin") ~> (\E w \in Workers : pc[w] = "cs")
=============================================================================
