------------------------------- MODULE SabInit -------------------------------
(***************************************************************************)
(* First-time mount of the shared disk, `disk()` in src/fs/lfs.rs.         *)
(*                                                                         *)
(* Every facade call starts with disk().  A worker that reads the shared   *)
(* INITIALIZED flag as false takes LFS_SYS_INIT_LOCK (a SabLock slot,      *)
(* taken with the same load-then-store acquire), reads the flag again and  *)
(* runs the mount inside INIT.call_once: mount the region, reset and patch *)
(* the root attributes, stamp the root's times, and set INITIALIZED.  The  *)
(* guard releases the lock when the block is left.                         *)
(*                                                                         *)
(* std::sync::Once makes late callers wait until the closure has finished. *)
(***************************************************************************)
EXTENDS Naturals, Sequences

CONSTANT Workers

VARIABLES
  locks,        \* LOCKS of src/lock.rs; slot 1 is LFS_SYS_INIT_LOCK
  pc,           \* each worker's position in disk()
  initialized,  \* INITIALIZED
  once,         \* state of INIT: "new", "running" or "done"
  mounted,      \* lfs_sys_mount has run
  rootReady,    \* the root's attribute record is patched and stamped
  mountCount    \* history: how many times lfs_sys_mount has run

vars == <<locks, pc, initialized, once, mounted, rootReady, mountCount>>

(* The lock registry, with the ownership bookkeeping it does not need here *)
(* held fixed: LFS_SYS_INIT_LOCK is created once by its Lazy cell.         *)
Lk == INSTANCE SabLock WITH
        MaxLocks <- 1,
        target <- [w \in Workers |-> 0], issued <- [w \in Workers |-> {}],
        MaxReboots <- 0, reboots <- 0

InitLock == 0

PcStates == {"start", "spin", "poison", "recheck", "once", "mount", "root",
             "birth", "flag", "release", "use", "done"}

TypeOK ==
  /\ locks \in Seq([word : {0, 1}, held : BOOLEAN])
  /\ pc \in [Workers -> PcStates]
  /\ initialized \in BOOLEAN
  /\ once \in {"new", "running", "done"}
  /\ mounted \in BOOLEAN
  /\ rootReady \in BOOLEAN
  /\ mountCount \in Nat

Init ==
  /\ locks = <<Lk!DefaultLock>>
  /\ pc = [w \in Workers |-> "start"]
  /\ initialized = FALSE
  /\ once = "new"
  /\ mounted = FALSE
  /\ rootReady = FALSE
  /\ mountCount = 0

Goto(w, from, to) ==
  /\ pc[w] = from
  /\ pc' = [pc EXCEPT ![w] = to]

(* `if !INITIALIZED`: the fast path skips the lock altogether.             *)
CheckInit(w) ==
  /\ Goto(w, "start", IF initialized THEN "use" ELSE "spin")
  /\ UNCHANGED <<locks, initialized, once, mounted, rootReady, mountCount>>

(* guard!(LFS_SYS_INIT_LOCK): AtomicLock::block, one load of the word.     *)
InitSpin(w) ==
  /\ Goto(w, "spin", IF Lk!Poisoned(InitLock) THEN "spin" ELSE "poison")
  /\ UNCHANGED <<locks, initialized, once, mounted, rootReady, mountCount>>

(* guard!(LFS_SYS_INIT_LOCK): AtomicLock::poison.                          *)
InitPoison(w) ==
  /\ Goto(w, "poison", "recheck")
  /\ Lk!SetWord(InitLock, 1)
  /\ UNCHANGED <<initialized, once, mounted, rootReady, mountCount>>

(* `if !INITIALIZED` again, under the lock.                                *)
Recheck(w) ==
  /\ Goto(w, "recheck", IF initialized THEN "release" ELSE "once")
  /\ UNCHANGED <<locks, initialized, once, mounted, rootReady, mountCount>>

(* Mutant of CallOnce: the closure runs for every caller that gets here.   *)
CallOnceUnguarded(w) ==
  /\ pc[w] = "once"
  /\ once # "running"
  /\ pc' = [pc EXCEPT ![w] = "mount"]
  /\ once' = "running"
  /\ UNCHANGED <<locks, initialized, mounted, rootReady, mountCount>>

(* INIT.call_once: the first caller runs the closure, a caller arriving    *)
(* while it runs waits, a later caller returns at once.                    *)
CallOnce(w) ==
  /\ pc[w] = "once"
  /\ once # "running"
  /\ pc' = [pc EXCEPT ![w] = IF once = "new" THEN "mount" ELSE "release"]
  /\ once' = IF once = "new" THEN "running" ELSE once
  /\ UNCHANGED <<locks, initialized, mounted, rootReady, mountCount>>

(* Mutant of Mount: INITIALIZED is published before the root is ready.     *)
MountPublishes(w) ==
  /\ Goto(w, "mount", "root")
  /\ mounted' = TRUE
  /\ mountCount' = mountCount + 1
  /\ initialized' = TRUE
  /\ UNCHANGED <<locks, once, rootReady>>

(* lfs_sys_mount(sizeMB, lock, unlock).                                    *)
Mount(w) ==
  /\ Goto(w, "mount", "root")
  /\ mounted' = TRUE
  /\ mountCount' = mountCount + 1
  /\ UNCHANGED <<locks, initialized, once, rootReady>>

(* lfs_sys_attr_reset("/") and the patch of mode, uid and gid.             *)
RootAttr(w) ==
  /\ Goto(w, "root", "birth")
  /\ UNCHANGED <<locks, initialized, once, mounted, rootReady, mountCount>>

(* Touch::birthtime("/", BUILD_TIME): the root record is complete.         *)
RootBirth(w) ==
  /\ Goto(w, "birth", "flag")
  /\ rootReady' = TRUE
  /\ UNCHANGED <<locks, initialized, once, mounted, mountCount>>

(* INITIALIZED = true, the last statement of the closure; call_once        *)
(* returns and marks INIT complete.                                        *)
SetInitialized(w) ==
  /\ Goto(w, "flag", "release")
  /\ initialized' = TRUE
  /\ once' = "done"
  /\ UNCHANGED <<locks, mounted, rootReady, mountCount>>

(* Mutant of ReleaseInit: the guard is leaked and the word stays 1.        *)
ReleaseInitLeaks(w) ==
  /\ Goto(w, "release", "use")
  /\ UNCHANGED <<locks, initialized, once, mounted, rootReady, mountCount>>

(* Guard::drop at the end of the block: sab_lock_release.                  *)
ReleaseInit(w) ==
  /\ Goto(w, "release", "use")
  /\ Lk!SetWord(InitLock, 0)
  /\ UNCHANGED <<initialized, once, mounted, rootReady, mountCount>>

(* lfs_sys_disk(): the caller goes on to use the disk.                     *)
UseDisk(w) ==
  /\ Goto(w, "use", "done")
  /\ UNCHANGED <<locks, initialized, once, mounted, rootReady, mountCount>>

Worker(w) ==
  \/ CheckInit(w) \/ InitSpin(w) \/ InitPoison(w) \/ Recheck(w)
  \/ CallOnce(w) \/ Mount(w) \/ RootAttr(w) \/ RootBirth(w)
  \/ SetInitialized(w) \/ ReleaseInit(w) \/ UseDisk(w)

Finished ==
  /\ \A w \in Workers : pc[w] = "done"
  /\ UNCHANGED vars

Next == (\E w \in Workers : Worker(w)) \/ Finished

(* Each worker runs its call to completion whenever it can move.           *)
Spec == Init /\ [][Next]_vars /\ \A w \in Workers : WF_vars(Worker(w))

-----------------------------------------------------------------------------
(* The region is formatted and mounted once, however many workers race     *)
(* through disk() and however the init lock behaves.                       *)
MountOnce == mountCount <= 1

(* No worker returns from disk() to use the disk before the mount and the  *)
(* root's attribute record are complete.                                   *)
NoUseBeforeMount ==
  \A w \in Workers : pc[w] \in {"use", "done"} => mounted /\ rootReady

(* Every call of disk() returns.                                           *)
EveryCallReturns == \A w \in Workers : <>(pc[w] = "done")
=============================================================================
