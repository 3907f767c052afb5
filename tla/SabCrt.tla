-------------------------------- MODULE SabCrt --------------------------------
(***************************************************************************)
(* The C runtime shims of src/fs/crt.rs: the allocator the C code          *)
(* (littlefs and its lfs_sys glue) calls, and the string functions.       *)
(*                                                                         *)
(* malloc/calloc/realloc allocate through Rust's allocator and push the    *)
(* pointer on ALLOCATED, a plain static Vec; free and realloc panic on a   *)
(* pointer not in ALLOCATED.  Nothing removes a pointer from ALLOCATED.   *)
(* lfs_sys_file_new and the other lfs_sys allocators are called from Rust *)
(* outside the disk lock, so workers allocate concurrently: the push is    *)
(* modelled as a read of the Vec and a later write-back of the Vec read   *)
(* with the pointer appended.  Rust code shares the allocator, so an       *)
(* address C has freed can be handed to Rust and back.                    *)
(*                                                                         *)
(* The string functions are pure: operators over byte sequences, the       *)
(* code's loops translated one for one, and beside them the C library's   *)
(* definition of each function as a reference.                            *)
(***************************************************************************)
EXTENDS Integers, Sequences, SequencesExt, FiniteSets

CONSTANTS
  Workers,    \* workers whose C code calls the shims
  Addrs,      \* heap addresses
  Null,       \* the null pointer
  MaxByte,    \* bytes are 0 .. MaxByte; 0 is the terminator
  BufLen,     \* length of a string buffer
  MaxAllocs,  \* bound on the length of ALLOCATED
  MaxCalls    \* shim calls each worker makes (model bound)

ASSUME Null \notin Addrs /\ MaxByte \in Nat \ {0} /\ BufLen \in Nat \ {0}

VARIABLES
  heap,       \* address -> "free", "c" (a block C owns) or "rust"
  allocated,  \* ALLOCATED
  pc,         \* each worker: "idle", or "push" between alloc and push
  got,        \* the address a worker's malloc/realloc is pushing
  snap,       \* ALLOCATED as that push read it
  trapped,    \* a panic has trapped the instance
  calls       \* calls made so far by each worker

vars == <<heap, allocated, pc, got, snap, trapped, calls>>

Bytes == 0 .. MaxByte
Bufs == {b \in [1 .. BufLen -> Bytes] : \E i \in 1 .. BufLen : b[i] = 0}

TypeOK ==
  /\ heap \in [Addrs -> {"free", "c", "rust"}]
  /\ allocated \in Seq(Addrs) /\ Len(allocated) <= MaxAllocs
  /\ pc \in [Workers -> {"idle", "push"}]
  /\ got \in [Workers -> Addrs \cup {Null}]
  /\ snap \in [Workers -> Seq(Addrs)]
  /\ trapped \in BOOLEAN
  /\ calls \in [Workers -> 0 .. MaxCalls]

Init ==
  /\ heap = [a \in Addrs |-> "free"]
  /\ allocated = <<>>
  /\ pc = [w \in Workers |-> "idle"]
  /\ got = [w \in Workers |-> Null]
  /\ snap = [w \in Workers |-> <<>>]
  /\ trapped = FALSE
  /\ calls = [w \in Workers |-> 0]

Begin(w) ==
  /\ ~trapped
  /\ pc[w] = "idle"
  /\ calls[w] < MaxCalls
  /\ calls' = [calls EXCEPT ![w] = @ + 1]

Registered(p) == p \in ToSet(allocated)
-----------------------------------------------------------------------------
(* malloc(size) and calloc(n, size): std::alloc::alloc hands out a free    *)
(* address; ALLOCATED.push(ptr) follows as its own step.                   *)
Malloc(w, a) ==
  /\ Begin(w)
  /\ heap[a] = "free"
  /\ Len(allocated) < MaxAllocs
  /\ heap' = [heap EXCEPT ![a] = "c"]
  /\ got' = [got EXCEPT ![w] = a]
  /\ snap' = [snap EXCEPT ![w] = allocated]
  /\ pc' = [pc EXCEPT ![w] = "push"]
  /\ UNCHANGED <<allocated, trapped>>

(* Mutant of Realloc: the moved block is not pushed on ALLOCATED.          *)
ReallocNoPush(w, p, a) ==
  /\ Begin(w)
  /\ heap[p] = "c"
  /\ a = p \/ heap[a] = "free"
  /\ IF ~Registered(p)
     THEN trapped' = TRUE /\ UNCHANGED <<heap, got, snap, pc>>
     ELSE /\ heap' = [heap EXCEPT ![p] = "free", ![a] = "c"]
          /\ UNCHANGED <<got, snap, pc, trapped>>
  /\ UNCHANGED <<allocated>>

(* realloc(ptr, size) on a block C owns (a null ptr is malloc): panic if   *)
(* ptr is not in ALLOCATED; std::alloc::realloc moves the block, in place *)
(* or to a free address; then ALLOCATED.push of the new pointer.  The old *)
(* pointer stays in ALLOCATED.                                             *)
Realloc(w, p, a) ==
  /\ Begin(w)
  /\ heap[p] = "c"
  /\ a = p \/ heap[a] = "free"
  /\ IF ~Registered(p)
     THEN trapped' = TRUE /\ UNCHANGED <<heap, got, snap, pc>>
     ELSE /\ Len(allocated) < MaxAllocs
          /\ heap' = [heap EXCEPT ![p] = "free", ![a] = "c"]
          /\ got' = [got EXCEPT ![w] = a]
          /\ snap' = [snap EXCEPT ![w] = allocated]
          /\ pc' = [pc EXCEPT ![w] = "push"]
          /\ UNCHANGED trapped
  /\ UNCHANGED <<allocated>>

(* Vec::push on ALLOCATED: the Vec the worker read, with its pointer.      *)
Push(w) ==
  /\ pc[w] = "push"
  /\ allocated' = Append(snap[w], got[w])
  /\ pc' = [pc EXCEPT ![w] = "idle"]
  /\ UNCHANGED <<heap, got, snap, trapped, calls>>

(* free(ptr) on a block C owns: panic if ptr is not in ALLOCATED, else     *)
(* std::alloc::dealloc.  ALLOCATED keeps the pointer.                      *)
Free(w, p) ==
  /\ Begin(w)
  /\ heap[p] = "c"
  /\ IF ~Registered(p)
     THEN trapped' = TRUE /\ UNCHANGED heap
     ELSE heap' = [heap EXCEPT ![p] = "free"] /\ UNCHANGED trapped
  /\ UNCHANGED <<allocated, pc, got, snap>>

(* __assert_fail: a failed C assert panics, which traps the instance.     *)
AssertFail(w) ==
  /\ Begin(w)
  /\ trapped' = TRUE
  /\ UNCHANGED <<heap, allocated, pc, got, snap>>

(* Rust code allocating and freeing through the same allocator.            *)
RustAlloc(w, a) ==
  /\ Begin(w)
  /\ heap[a] = "free"
  /\ heap' = [heap EXCEPT ![a] = "rust"]
  /\ UNCHANGED <<allocated, pc, got, snap, trapped>>

RustFree(w, a) ==
  /\ Begin(w)
  /\ heap[a] = "rust"
  /\ heap' = [heap EXCEPT ![a] = "free"]
  /\ UNCHANGED <<allocated, pc, got, snap, trapped>>
-----------------------------------------------------------------------------
(* The bytes CStr::from_ptr sees: those before the first terminator.       *)
CStr(b) == LET z == CHOOSE i \in DOMAIN b : b[i] = 0 /\ \A j \in 1 .. i - 1 : b[j] # 0
           IN  SubSeq(b, 1, z - 1)

(* to_bytes().iter().take_while(pred).count(), over a set of bytes.        *)
RECURSIVE TakeWhileIn(_, _, _)
TakeWhileIn(t, set, inside) ==
  IF t # <<>> /\ ((Head(t) \in set) = inside) THEN 1 + TakeWhileIn(Tail(t), set, inside) ELSE 0

(* strlen: len += 1 while *ptr != 0.                                       *)
RECURSIVE StrlenFrom(_, _)
StrlenFrom(b, i) == IF b[i] = 0 THEN i - 1 ELSE StrlenFrom(b, i + 1)
strlen(b) == StrlenFrom(b, 1)

(* strspn/strcspn: 0 when either string is empty, else the take_while.     *)
strspn(s, acc) == IF s[1] = 0 \/ acc[1] = 0 THEN 0 ELSE TakeWhileIn(CStr(s), ToSet(CStr(acc)), TRUE)
strcspn(s, rej) == IF s[1] = 0 \/ rej[1] = 0 THEN 0 ELSE TakeWhileIn(CStr(s), ToSet(CStr(rej)), FALSE)

(* strchr: null for an empty string, else the offset of the first byte     *)
(* equal to c as u8 among to_bytes(), which holds no terminator.           *)
strchr(s, c) ==
  LET t == CStr(s)
      hit == {i \in DOMAIN t : t[i] = c % 256}
  IN  IF s[1] = 0 \/ hit = {} THEN Null ELSE Min(hit) - 1

(* strcmp: advance both while the bytes are equal, terminators included;   *)
(* the difference of the first unequal bytes.  Equal bytes up to the end  *)
(* of the buffers read past them: any difference two bytes can have.      *)
RECURSIVE StrcmpFrom(_, _, _)
StrcmpFrom(s1, s2, i) ==
  IF i > BufLen THEN -MaxByte .. MaxByte
  ELSE IF s1[i] = s2[i] THEN StrcmpFrom(s1, s2, i + 1) ELSE {s1[i] - s2[i]}
strcmp(s1, s2) == StrcmpFrom(s1, s2, 1)

(* strcpy: copy bytes up to the terminator, then write the terminator.     *)
strcpy(dest, src) ==
  LET k == strlen(src)
  IN  [i \in 1 .. BufLen |-> IF i <= k THEN src[i] ELSE IF i = k + 1 THEN 0 ELSE dest[i]]

(* Mutant of strcat: the terminator after the copied bytes is not written. *)
strcatNoNul(dest, src) ==
  LET d == strlen(dest)
      k == strlen(src)
  IN  [i \in 1 .. BufLen |-> IF i > d /\ i <= d + k THEN src[i - d] ELSE dest[i]]

(* strcat: find the end of dest, copy src there, write the terminator.     *)
strcat(dest, src) ==
  LET d == strlen(dest)
      k == strlen(src)
  IN  [i \in 1 .. BufLen |-> IF i > d /\ i <= d + k THEN src[i - d]
                              ELSE IF i = d + k + 1 THEN 0 ELSE dest[i]]

(* strncpy: copy while i < n and *src != 0, then write 0 while i < n.      *)
strncpy(dest, src, n) ==
  LET k == IF strlen(src) < n THEN strlen(src) ELSE n
  IN  [i \in 1 .. BufLen |-> IF i <= k THEN src[i] ELSE IF i <= n THEN 0 ELSE dest[i]]
-----------------------------------------------------------------------------
(* The C library's definitions, for reference.                             *)
RefStrlen(b) == Len(CStr(b))
RefStrspn(s, acc) ==
  Max({k \in 0 .. Len(CStr(s)) : \A i \in 1 .. k : CStr(s)[i] \in ToSet(CStr(acc))})
RefStrcspn(s, rej) ==
  Max({k \in 0 .. Len(CStr(s)) : \A i \in 1 .. k : CStr(s)[i] \notin ToSet(CStr(rej))})
RefStrchr(s, c) ==
  LET t == CStr(s) \o <<0>>
  IN  IF \E i \in DOMAIN t : t[i] = c % 256
      THEN Min({i \in DOMAIN t : t[i] = c % 256}) - 1 ELSE Null
Sign(x) == IF x > 0 THEN 1 ELSE IF x < 0 THEN -1 ELSE 0
RECURSIVE LexCmp(_, _)
LexCmp(u, v) ==
  CASE u = <<>> /\ v = <<>> -> 0
    [] u = <<>>             -> -1
    [] v = <<>>             -> 1
    [] Head(u) # Head(v)    -> Sign(Head(u) - Head(v))
    [] OTHER                -> LexCmp(Tail(u), Tail(v))
RefStrcpy(dest, src) ==
  CStr(src) \o <<0>> \o SubSeq(dest, Len(CStr(src)) + 2, BufLen)
RefStrcat(dest, src) ==
  LET t == CStr(dest) \o CStr(src)
  IN  t \o <<0>> \o SubSeq(dest, Len(t) + 2, BufLen)
RefStrncpy(dest, src, n) ==
  LET k == IF Len(CStr(src)) < n THEN Len(CStr(src)) ELSE n
  IN  SubSeq(CStr(src), 1, k) \o [i \in 1 .. n - k |-> 0] \o SubSeq(dest, n + 1, BufLen)
-----------------------------------------------------------------------------
Chars == Bytes \cup {256 + 1}    \* strchr's c: an i32, taken as u8

Worker(w) ==
  \/ \E a \in Addrs : Malloc(w, a)
  \/ \E p, a \in Addrs : Realloc(w, p, a)
  \/ Push(w)
  \/ \E p \in Addrs : Free(w, p)
  \/ AssertFail(w)
  \/ \E a \in Addrs : RustAlloc(w, a) \/ RustFree(w, a)

(* Every worker has made its calls and pushed, or a panic trapped.        *)
Finished ==
  /\ \A w \in Workers : pc[w] = "idle" /\ (trapped \/ calls[w] = MaxCalls)
  /\ UNCHANGED vars

Next == (\E w \in Workers : Worker(w)) \/ Finished

Spec == Init /\ [][Next]_vars
-----------------------------------------------------------------------------
(* Between calls, every block C owns is in ALLOCATED, so free and realloc  *)
(* of C's own blocks never take the "memory belonging to Rust" panic: no  *)
(* push of malloc, calloc or realloc is lost.                              *)
OwnedRegistered ==
  (\A w \in Workers : pc[w] = "idle") => \A p \in Addrs : heap[p] = "c" => Registered(p)

(* Each string shim returns what the C library defines, on every pair of  *)
(* terminated buffers, the destinations of strcpy, strcat and strncpy     *)
(* included (when the destination has room).  Three cases where the code  *)
(* departs from C are left out and listed as hazards: strcspn with an    *)
(* empty reject set (0, not strlen), strchr of the terminator (null), and *)
(* strcmp of equal strings (it reads past them).  Checked in every state  *)
(* where no allocator call is in progress, where C may call them.         *)
StringShimsMatchC ==
  (\A w \in Workers : pc[w] = "idle") =>
  \A s, t \in Bufs :
    /\ strlen(s) = RefStrlen(s)
    /\ strspn(s, t) = RefStrspn(s, t)
    /\ t[1] # 0 => strcspn(s, t) = RefStrcspn(s, t)
    /\ \A c \in Chars : c % 256 # 0 => strchr(s, c) = RefStrchr(s, c)
    /\ CStr(s) # CStr(t) => \A r \in strcmp(s, t) : Sign(r) = LexCmp(CStr(s), CStr(t))
    /\ strlen(t) < BufLen => strcpy(s, t) = RefStrcpy(s, t)
    /\ strlen(s) + strlen(t) < BufLen => strcat(s, t) = RefStrcat(s, t)
    /\ \A n \in 0 .. BufLen : strncpy(s, t, n) = RefStrncpy(s, t, n)
=============================================================================
