-------------------------------- MODULE SabFs --------------------------------
(***************************************************************************)
(* The POSIX facade of src/fs.rs over src/fs/lfs.rs: paths, the handle     *)
(* table LFS_SYS_OPEN_FDS, the inode pool and the hardlink side table      *)
(* LFS_SYS_HARD_LINKS, for one caller at a time.                           *)
(*                                                                         *)
(* A path is a sequence of names; a name is a sequence of characters, so   *)
(* that the string conversions the code does (the text a link file holds,  *)
(* path_normalize, the starts_with test of is_open) are modelled by what   *)
(* they do.  The storage engine (littlefs, C code outside src/) is taken   *)
(* as atomic calls whose effect is visible when they return; each entry    *)
(* carries its attribute record, as littlefs custom attributes do.         *)
(*                                                                         *)
(* Every facade call is one action: the watch stats taken before the call, *)
(* the lfs.rs body, and the deferred stats after it.  A Rust panic (an     *)
(* unwrap, assert or the 100-hop cap of follow_link) traps the wasm        *)
(* instance; the model stops there.                                        *)
(***************************************************************************)
EXTENDS Naturals, Sequences, FiniteSets, SequencesExt, Bitwise

CONSTANTS
  Names,     \* file names, each a sequence of characters
  Paths,     \* the modelled namespace: paths, each a sequence of names
  Data,      \* strings written by writeSync and writeFileSync
  MaxLen,    \* longest file content
  MaxFds,    \* descriptors handed out over a behaviour
  MaxIno,    \* inode numbers handed out over a behaviour
  MaxAliases, \* length of a LFS_SYS_HARD_LINKS entry
  MaxNlink,   \* largest link count
  MaxReboots, \* wasabio_reboot calls over a behaviour
  Modes,      \* modes passed to mkdirSync and the chmod calls
  NameOrder,  \* the names in the order littlefs lists a directory
  NowEpoch,   \* Date.now() div 2^36 during a behaviour (2^36 ms is about 2 years)
  TempPrefixes, \* prefixes passed to mkdtempSync, as text
  Ops         \* the facade calls offered

Root == <<>>

ASSUME /\ Root \in Paths /\ Paths \subseteq Seq(Names)
       /\ \A p \in Paths : p = Root \/ SubSeq(p, 1, Len(p) - 1) \in Paths
       /\ NowEpoch \in 16 .. 31   \* Date.now() in [2^40, 2^41) ms: 2004 to 2039
Str == BoundedSeq({"/", "0"} \cup UNION {ToSet(n) : n \in Names}, MaxLen)

VARIABLES
  fsys,      \* littlefs: path -> entry with its attribute record
  fds,       \* LFS_SYS_OPEN_FDS: fd -> handle
  freed,     \* history: descriptors closed so far
  inoNext,   \* LFS_SYS_INO_POOL: next inode number
  hardLinks, \* LFS_SYS_HARD_LINKS: target path -> alias paths
  trapped,   \* a call has panicked and the instance has trapped
  closes,    \* history: lfs_file_close/lfs_dir_close calls on table handles
  issued,    \* history: descriptors handed out before the last reboot
  boots      \* wasabio_reboot calls so far

vars == <<fsys, fds, freed, inoNext, hardLinks, trapped, closes, issued, boots>>

(* The attribute record's mode is kept as its file-type bits (fmt: the    *)
(* S_IFDIR or S_IFREG chmod_sync puts there, or none in a reset record)    *)
(* and its permission bits (perm, 0 .. 0o777).                             *)
NoEntry ==
  [type |-> "none", data |-> <<>>, ino |-> 0, nlink |-> 0,
   link |-> FALSE, symlink |-> FALSE, fmt |-> "none", perm |-> 0]
Entry == [type : {"none", "file", "dir"}, data : Str, ino : 0 .. MaxIno,
          nlink : 0 .. MaxNlink, link : BOOLEAN, symlink : BOOLEAN,
          fmt : {"none", "reg", "dir"}, perm : 0 .. 511]
(* A handle's dirty flag and buf are the content littlefs holds for it and *)
(* has not committed (lfs_file_write and lfs_file_truncate leave the file  *)
(* LFS_F_DIRTY until lfs_file_sync or lfs_file_close).                     *)
Handle == [path : Paths, kind : {"file", "dir"}, pos : 0 .. MaxLen,
           write : BOOLEAN, ino : 0 .. MaxIno, dirty : BOOLEAN, buf : Str]

TypeOK ==
  /\ fsys \in [Paths -> Entry]
  /\ fsys[Root].type = "dir"
  /\ DOMAIN fds \subseteq 3 .. MaxFds + 2 /\ \A fd \in DOMAIN fds : fds[fd] \in Handle
  /\ freed \subseteq 3 .. MaxFds + 2
  /\ inoNext \in 1 .. MaxIno + 1
  /\ hardLinks \in [Paths -> Seq(Paths)]
  /\ trapped \in BOOLEAN
  /\ closes \in Nat /\ issued \in Nat /\ boots \in 0 .. MaxReboots

DEFAULT_PERM_DIR == 511    \* 0o777
DEFAULT_PERM_FILE == 438   \* 0o666

(* disk(): the mounted region holds the root with its attribute record,    *)
(* mode S_IFDIR | DEFAULT_PERM_DIR.                                        *)
Init ==
  /\ fsys = [p \in Paths |-> IF p = Root
                             THEN [NoEntry EXCEPT !.type = "dir", !.nlink = 1,
                                                  !.fmt = "dir", !.perm = DEFAULT_PERM_DIR]
                             ELSE NoEntry]
  /\ fds = <<>>
  /\ freed = {}
  /\ inoNext = 1
  /\ hardLinks = [p \in Paths |-> <<>>]
  /\ trapped = FALSE
  /\ closes = 0
  /\ issued = 0
  /\ boots = 0

-----------------------------------------------------------------------------
(* The text of a path, "/" for the root and "/n1/n2" otherwise.            *)
PathStr(p) ==
  IF p = Root THEN <<"/">> ELSE FlattenSeq([i \in DOMAIN p |-> <<"/">> \o p[i]])

(* path_normalize on the strings the model writes (no "." or ".."): the    *)
(* non-empty segments between slashes; "" and "/" give the root.           *)
RECURSIVE Segments(_)
Segments(s) ==
  LET i == SelectInSeq(s, LAMBDA c : c = "/")
  IN  IF s = <<>> THEN <<>>
      ELSE IF i = 0 THEN <<s>>
      ELSE (IF i = 1 THEN <<>> ELSE <<SubSeq(s, 1, i - 1)>>)
             \o Segments(SubSeq(s, i + 1, Len(s)))
path_normalize(s) == Segments(s)

(* path_dirname.                                                           *)
path_dirname(p) == IF p = Root THEN Root ELSE SubSeq(p, 1, Len(p) - 1)

Exists(fs, p) == p \in Paths /\ fs[p].type # "none"
IsDir(fs, p) == p = Root \/ (p \in Paths /\ fs[p].type = "dir")

(* is_link: an existing path other than "/" whose attribute says link.    *)
IsLink(fs, p) == p # Root /\ Exists(fs, p) /\ fs[p].link

(* follow_link: read the link file, normalize its text, and go on.  A path *)
(* met twice is a cycle, which goes on to the `attempt < 100` assert.      *)
RECURSIVE Follow(_, _, _)
Follow(fs, p, seen) ==
  IF ~IsLink(fs, p) THEN [ok |-> TRUE, path |-> p]
  ELSE IF p \in seen THEN [ok |-> FALSE, path |-> p]
  ELSE Follow(fs, path_normalize(fs[p].data), seen \cup {p})
follow_link(fs, p) == Follow(fs, p, {})

(* A resolution that ends inside the modelled namespace.                   *)
Resolves(fs, p) == follow_link(fs, p).ok => follow_link(fs, p).path \in Paths
Target(p) == follow_link(fsys, p).path

(* broadcast_watch!: stat_sync(path) follows the path; on a cycle the      *)
(* assert of follow_link panics.                                           *)
WatchOk(fs, ps) == \A p \in ps : follow_link(fs, p).ok

(* is_open: a handle on the path, on one of its recorded aliases, or, for  *)
(* a directory, a handle whose path text starts with the path's text.      *)
IsOpen(fs, hl, p) ==
  \/ \E fd \in DOMAIN fds : fds[fd].path = p
  \/ \E fd \in DOMAIN fds : fds[fd].path \in ToSet(hl[p])
  \/ IsDir(fs, p) /\ \E fd \in DOMAIN fds : IsPrefix(PathStr(p), PathStr(fds[fd].path))

Children(fs, p) == {q \in Paths : Len(q) = Len(p) + 1 /\ IsPrefix(p, q) /\ Exists(fs, q)}

(* Mutant of NewFile: the inode number is never patched into the record. *)
NewFileNoIno(data) ==
  [NoEntry EXCEPT !.type = "file", !.data = data, !.nlink = 1,
                  !.fmt = "reg", !.perm = DEFAULT_PERM_FILE]

(* FileHandle::open when the path did not exist: lfs_sys_attr_reset, a new *)
(* inode number from the pool, then chmod and the birth times.  The calls *)
(* pass no mode, so chmod_sync gets DEFAULT_PERM_FILE; the path is not a    *)
(* directory, so the type bits are S_IFREG.                                *)
NewFile(data) ==
  [NoEntry EXCEPT !.type = "file", !.data = data, !.ino = inoNext, !.nlink = 1,
                  !.fmt = "reg", !.perm = DEFAULT_PERM_FILE]

(* lfs_file_open with flags "w", "a" or "wx" creates the file when the    *)
(* parent is a directory; "r" needs an existing file.                      *)
CanOpenFile(p, flag) ==
  CASE flag = "r"  -> fsys[p].type = "file"
    [] flag \in {"w", "a"} -> fsys[p].type = "file" \/ (~Exists(fsys, p) /\ IsDir(fsys, path_dirname(p)))
    [] flag = "wx" -> ~Exists(fsys, p) /\ IsDir(fsys, path_dirname(p))

(* The end of a call: the deferred watch stats run on the new state.  The  *)
(* call's result (a value or an Err) is not recorded.                      *)
Finish(ps) == trapped' = ~WatchOk(fsys', ps)

(* A panic in the body of a call, after its effects so far.                *)
Panic == trapped' = TRUE

(* A panic in the watch stats taken before the call.                       *)
Trap ==
  /\ Panic
  /\ UNCHANGED <<fsys, fds, freed, inoNext, hardLinks>>
-----------------------------------------------------------------------------
(* The descriptor the pool hands out next.  LFS_SYS_FD_POOL never gets an  *)
(* id back (see CloseSync), so every new descriptor is fresh; the ids that *)
(* transient handles use up are not observable and are left out.          *)
NextFd == 3 + Cardinality(DOMAIN fds \cup freed)
FdRoom == Cardinality(DOMAIN fds \cup freed) < MaxFds

(* A handle still refers to the file it opened.                            *)
LiveIn(fs, h) == fs[h.path].type = h.kind /\ fs[h.path].ino = h.ino
Live(h) == LiveIn(fsys, h)

(* lfs_file_sync (FileHandle::sync, and lfs_file_close in Drop): the       *)
(* handle's uncommitted content becomes its file's.  The model keeps no    *)
(* content for a file whose entry is gone, so an orphan's commit is not    *)
(* visible.                                                                *)
SyncFs(fs, h) == IF h.dirty /\ LiveIn(fs, h) THEN [fs EXCEPT ![h.path].data = h.buf] ELSE fs
Clean(h) == [h EXCEPT !.dirty = FALSE, !.buf = <<>>]

(* The content lfs_file_read and lfs_file_size see through a handle: its  *)
(* own uncommitted content, else its file's.                               *)
View(h) == IF h.dirty THEN h.buf ELSE fsys[h.path].data

(* lfs_file_write of d at position k: zero fill up to k, then overwrite.   *)
Overwrite(s, k, d) ==
  LET head == IF k <= Len(s) THEN SubSeq(s, 1, k)
              ELSE s \o [i \in 1 .. k - Len(s) |-> "0"]
      tail == IF k + Len(d) < Len(s) THEN SubSeq(s, k + Len(d) + 1, Len(s))
              ELSE <<>>
  IN  head \o d \o tail

(* openSync: open_sync does not follow links.  A directory gets a          *)
(* DirHandle; otherwise FileHandle::open with the flag, creating the file  *)
(* (new inode) or truncating it for "w".  A failed open is ENOENT.         *)
OpenSync(p, flag) ==
  /\ ~trapped
  /\ IF ~WatchOk(fsys, {p}) THEN Trap
     ELSE
     \/ /\ IsDir(fsys, p) /\ FdRoom
        /\ fds' = fds @@ (NextFd :> [path |-> p, kind |-> "dir", pos |-> 0,
                                     write |-> FALSE, ino |-> fsys[p].ino,
                                     dirty |-> FALSE, buf |-> <<>>])
        /\ UNCHANGED <<fsys, freed, inoNext, hardLinks>>
        /\ Finish({p})
     \/ /\ ~IsDir(fsys, p) /\ CanOpenFile(p, flag) /\ FdRoom
        /\ ~Exists(fsys, p) => inoNext <= MaxIno
        /\ fsys' = [fsys EXCEPT ![p] = IF ~Exists(fsys, p) THEN NewFile(<<>>)
                                       ELSE IF flag = "r" THEN @ ELSE [@ EXCEPT !.data = <<>>]]
        /\ inoNext' = IF Exists(fsys, p) THEN inoNext ELSE inoNext + 1
        /\ fds' = fds @@ (NextFd :> [path |-> p, kind |-> "file", pos |-> 0,
                                     write |-> flag # "r", ino |-> fsys'[p].ino,
                                     dirty |-> FALSE, buf |-> <<>>])
        /\ UNCHANGED <<freed, hardLinks>>
        /\ Finish({p})
     \/ /\ ~IsDir(fsys, p) /\ ~CanOpenFile(p, flag)
        /\ UNCHANGED <<fsys, fds, freed, inoNext, hardLinks>>
        /\ Finish({p})

(* The lfs close calls of Drop for FileHandle and DirHandle, with the     *)
(* table t as LFS_SYS_OPEN_FDS reads during the drop: if t still holds fd, *)
(* return the id and remove the entry, and the removed handle, a copy of   *)
(* this one, is dropped at once; then lfs_file_close (lfs_dir_close) and   *)
(* the lfs_sys free of the handle's object.                                *)
RECURSIVE DropCloses(_, _)
DropCloses(t, fd) ==
  (IF fd \in DOMAIN t THEN DropCloses(Restrict(t, DOMAIN t \ {fd}), fd) ELSE 0) + 1

(* closeSync: close_sync removes the handle from the table and drops it;   *)
(* the Drop impl returns the id only if the fd is still in the table.      *)
CloseSync(fd) ==
  /\ ~trapped
  /\ \/ /\ fd \in DOMAIN fds
        /\ fds' = Restrict(fds, DOMAIN fds \ {fd})
        /\ freed' = freed \cup {fd}
        /\ closes' = closes + DropCloses(fds', fd)
        /\ fsys' = SyncFs(fsys, fds[fd])
     \/ /\ fd \notin DOMAIN fds
        /\ UNCHANGED <<fds, freed, closes, fsys>>
  /\ UNCHANGED <<inoNext, hardLinks>>
  /\ Finish({})

(* FileHandle::read and ::write: a position other than -1 is sought to     *)
(* (lfs_file_seek, whose failure on a negative one is ignored), the bytes  *)
(* are moved, and the cursor lfs_file_tell read first is sought back to.   *)
(* Without a position the cursor advances by the bytes moved.              *)
IoStart(h, at) == IF at >= 0 THEN at ELSE h.pos
IoEnd(h, at, n) == IF at = -1 THEN h.pos + n ELSE h.pos
(* The size of a handle's file as lfs sees it; the model keeps no content  *)
(* for a file whose entry is gone, so an orphan's size is any size.        *)
Sizes(h) == IF h.dirty \/ Live(h) THEN {Len(View(h))} ELSE 0 .. MaxLen

(* writeSync: path_from_fd unwraps readlink of /proc/self/fd/<fd>, then    *)
(* write_sync on a file handle: FileHandle::write syncs first, then writes *)
(* at the position or the cursor, and the bytes stay uncommitted in the    *)
(* handle until its next sync.  Written through a read-only handle,        *)
(* littlefs built with LFS_NO_ASSERT may or may not take the data.  A      *)
(* handle whose file is gone writes to the orphan.                         *)
WriteSync(fd, d, at) ==
  /\ ~trapped
  /\ IF fd \notin DOMAIN fds \/ ~WatchOk(fsys, {fds[fd].path}) THEN Trap
     ELSE
     LET h == fds[fd]
         new == Overwrite(View(h), IoStart(h, at), d)
         kept == h.dirty \/ Live(h)
     IN  /\ \/ /\ h.kind = "dir" \/ ~h.write
              /\ fsys' = SyncFs(fsys, h)
              /\ fds' = [fds EXCEPT ![fd] = Clean(h)]
           \/ /\ h.kind = "file"
              /\ IoStart(h, at) + Len(d) <= MaxLen /\ (kept => Len(new) <= MaxLen)
              /\ fsys' = SyncFs(fsys, h)
              /\ fds' = [fds EXCEPT ![fd] =
                           IF kept THEN [h EXCEPT !.pos = IoEnd(h, at, Len(d)), !.dirty = TRUE, !.buf = new]
                           ELSE [Clean(h) EXCEPT !.pos = IoEnd(h, at, Len(d))]]
         /\ UNCHANGED <<freed, inoNext, hardLinks>>
         /\ Finish({h.path})

(* readSync: read_sync on a file handle reads up to n bytes from the       *)
(* position or the cursor; an unknown descriptor or a directory reads 0.   *)
(* There is no watch, so nothing here traps.                               *)
ReadSync(fd, n, at) ==
  /\ ~trapped
  /\ UNCHANGED <<fsys, freed, inoNext, hardLinks, trapped>>
  /\ IF fd \in DOMAIN fds /\ fds[fd].kind = "file"
     THEN LET h == fds[fd] IN
          \E size \in Sizes(h) :
            LET got == Min({n, Max({0, size - IoStart(h, at)})})
            IN  fds' = [fds EXCEPT ![fd].pos = IoEnd(h, at, got)]
     ELSE UNCHANGED fds

SEEK_SET == 0
SEEK_CUR == 1
SEEK_END == 2

(* lseekSync: lseek_sync refuses another whence, an unknown descriptor and *)
(* a directory (-1); FileHandle::lseek syncs and lfs_file_seek moves the   *)
(* cursor, unless the new offset would be negative (LFS_ERR_INVAL).        *)
LseekSync(fd, off, whence) ==
  /\ ~trapped
  /\ UNCHANGED <<freed, inoNext, hardLinks, trapped>>
  /\ IF whence \in {SEEK_SET, SEEK_CUR, SEEK_END} /\ fd \in DOMAIN fds /\ fds[fd].kind = "file"
     THEN LET h == fds[fd] IN
          \E size \in Sizes(h) :
            LET to == CASE whence = SEEK_SET -> off
                        [] whence = SEEK_CUR -> h.pos + off
                        [] whence = SEEK_END -> size + off
            IN  /\ to <= MaxLen
                /\ fsys' = SyncFs(fsys, h)
                /\ fds' = [fds EXCEPT ![fd] = [Clean(h) EXCEPT !.pos = IF to >= 0 THEN to ELSE h.pos]]
     ELSE UNCHANGED <<fsys, fds>>

(* write_file_sync_no_follow: a transient FileHandle opened "w" (truncate *)
(* or create with a new inode) and one write of the whole data.           *)
OpensW(q) ==
  /\ ~IsDir(fsys, q) /\ CanOpenFile(q, "w")
  /\ ~Exists(fsys, q) => inoNext <= MaxIno
(* Mutant of WriteWhole: the inode pool is not advanced.                   *)
WriteWholeNoAdvance(q, d) ==
  /\ fsys' = [fsys EXCEPT ![q] = IF Exists(fsys, q) THEN [@ EXCEPT !.data = d] ELSE NewFile(d)]
  /\ inoNext' = inoNext

WriteWhole(q, d) ==
  /\ fsys' = [fsys EXCEPT ![q] = IF Exists(fsys, q) THEN [@ EXCEPT !.data = d] ELSE NewFile(d)]
  /\ inoNext' = IF Exists(fsys, q) THEN inoNext ELSE inoNext + 1

(* writeFileSync: follow_link, then write_file_sync_no_follow; a failed    *)
(* open is unwrapped.                                                      *)
WriteFileSync(p, d) ==
  /\ ~trapped
  /\ IF ~WatchOk(fsys, {p}) THEN Trap
     ELSE
     LET q == Target(p)
     IN  /\ Resolves(fsys, p)
         /\ \/ /\ OpensW(q)
               /\ WriteWhole(q, d)
               /\ Finish({p})
            \/ /\ IsDir(fsys, q) \/ ~CanOpenFile(q, "w")
               /\ UNCHANGED <<fsys, inoNext>>
               /\ Panic
         /\ UNCHANGED <<fds, freed, hardLinks>>

(* appendFileSync: follow_link, FileHandle::open with "a" (create with a   *)
(* new inode), then FileHandle::append: lfs_file_seek to the end, whose    *)
(* result (the new offset, that is the file's size) is asserted equal to   *)
(* LFS_ERR_OK, so only an empty or new file is written and a non-empty one *)
(* panics with nothing written.  The write's byte count makes append       *)
(* return None, which append_file_sync ignores.  A failed open is None,    *)
(* unwrapped by the facade.                                                *)
AppendFileSync(p, d) ==
  /\ ~trapped
  /\ IF ~WatchOk(fsys, {p}) THEN Trap
     ELSE
     LET q == Target(p)
     IN  /\ Resolves(fsys, p)
         /\ UNCHANGED <<fds, freed, hardLinks>>
         /\ \/ /\ ~IsDir(fsys, q) /\ CanOpenFile(q, "a")
               /\ fsys[q].data = <<>> /\ Len(d) <= MaxLen
               /\ ~Exists(fsys, q) => inoNext <= MaxIno
               /\ fsys' = [fsys EXCEPT ![q] = IF Exists(fsys, q) THEN [@ EXCEPT !.data = d]
                                              ELSE NewFile(d)]
               /\ inoNext' = IF Exists(fsys, q) THEN inoNext ELSE inoNext + 1
               /\ Finish({p})
            \/ /\ ~IsDir(fsys, q) /\ CanOpenFile(q, "a") /\ fsys[q].data # <<>>
               /\ UNCHANGED <<fsys, inoNext>>
               /\ Panic
            \/ /\ IsDir(fsys, q) \/ ~CanOpenFile(q, "a")
               /\ UNCHANGED <<fsys, inoNext>>
               /\ Panic

(* lfs_file_truncate to n: cut, or extend with zeros.                      *)
Resized(s, n) == IF n <= Len(s) THEN SubSeq(s, 1, n) ELSE Overwrite(s, n, <<>>)

(* truncateSync: truncate_sync opens the path as given (not followed)      *)
(* read-only and truncates; a failed open is unwrapped.  As with writes    *)
(* through a read-only handle, the truncation may or may not take effect. *)
TruncateSync(p, n) ==
  /\ ~trapped
  /\ IF ~WatchOk(fsys, {p}) THEN Trap
     ELSE
     /\ UNCHANGED <<fds, freed, inoNext, hardLinks>>
     /\ \/ /\ CanOpenFile(p, "r")
           /\ fsys' \in {fsys, [fsys EXCEPT ![p].data = Resized(@, n)]}
           /\ Finish({p})
        \/ /\ ~CanOpenFile(p, "r")
           /\ UNCHANGED fsys
           /\ Panic

(* ftruncateSync: path_from_fd and the watch as for writeSync; ftruncate   *)
(* on a directory handle is None, unwrapped.  A file handle is synced,     *)
(* truncated in place (the cursor is kept) and synced again, taking effect *)
(* through a read-only handle or not as for writes, and on an orphan not   *)
(* visibly.                                                                *)
FtruncateSync(fd, n) ==
  /\ ~trapped
  /\ IF fd \notin DOMAIN fds \/ ~WatchOk(fsys, {fds[fd].path}) THEN Trap
     ELSE
     LET h == fds[fd]
         base == SyncFs(fsys, h)
         cut == [base EXCEPT ![h.path].data = Resized(@, n)]
     IN  /\ UNCHANGED <<freed, inoNext, hardLinks>>
         /\ \/ /\ h.kind = "dir"
               /\ UNCHANGED <<fsys, fds>>
               /\ Panic
            \/ /\ h.kind = "file"
               /\ fds' = [fds EXCEPT ![fd] = Clean(h)]
               /\ fsys' \in IF ~Live(h) THEN {base}
                            ELSE IF h.write THEN {cut} ELSE {base, cut}
               /\ Finish({h.path})

-----------------------------------------------------------------------------
(* Mutant of RemoveOne: the root is not refused.                           *)
RemoveOneAny(fs, x) ==
  IF /\ x \in Paths
     /\ fs[x].type = "file" \/ (fs[x].type = "dir" /\ Children(fs, x) = {})
  THEN [fs EXCEPT ![x] = NoEntry] ELSE fs

(* lfs_remove of one path: a file, or an empty directory other than "/";   *)
(* on any other path it fails and the code ignores the error.             *)
RemoveOne(fs, x) ==
  IF /\ x \in Paths /\ x # Root
     /\ fs[x].type = "file" \/ (fs[x].type = "dir" /\ Children(fs, x) = {})
  THEN [fs EXCEPT ![x] = NoEntry] ELSE fs

(* The removal calls work on a state record [fs, hl, err]: littlefs, the   *)
(* alias map, and "ok", "err" (an Err returned) or "panic".  A path        *)
(* argument is a Loc: the path and whether its text is the canonical one.  *)
(* rm_sync builds "/" \o "/name" for the entries of the root, text that    *)
(* littlefs resolves but that no handle path or alias key is equal to.     *)
Loc == [p : Paths, canon : BOOLEAN]
At(p) == [p |-> p, canon |-> TRUE]
Fail(s, e) == [s EXCEPT !.err = e]
OpenAt(s, x) == x.canon /\ IsOpen(s.fs, s.hl, x.p)

(* follow_link on a Loc: path_normalize is applied first, so whatever    *)
(* text the caller gave, the path is the canonical text of the target.     *)
FollowAt(fs, x) == At(follow_link(fs, x.p).path)

(* lfs_remove of the path, then, if LFS_SYS_HARD_LINKS has the path as a   *)
(* key, lfs_remove on every alias in order and the key dropped.            *)
Cascade(s, p) ==
  [fs |-> FoldLeft(RemoveOne, RemoveOne(s.fs, p), s.hl[p]),
   hl |-> [s.hl EXCEPT ![p] = <<>>], err |-> "ok"]

(* unlink_sync(path, force): follow; EISDIR; EBUSY unless forced; remove.  *)
UnlinkAt(s, x, force) ==
  LET q == FollowAt(s.fs, x)
  IN  CASE ~follow_link(s.fs, x.p).ok      -> Fail(s, "panic")
        [] IsDir(s.fs, q.p)                -> Fail(s, "err")
        [] ~force /\ OpenAt(s, q)          -> Fail(s, "err")
        [] OTHER                           -> Cascade(s, q.p)

(* rmdir_sync(path, force): follow; ENOTDIR; EBUSY unless forced;          *)
(* lfs_remove, whose ENOTEMPTY is an Err and whose other errors (no entry, *)
(* the root) are ignored; then the cascade.                                *)
RmdirAt(s, x, force) ==
  LET q == FollowAt(s.fs, x)
  IN  CASE ~follow_link(s.fs, x.p).ok              -> Fail(s, "panic")
        [] Exists(s.fs, q.p) /\ ~IsDir(s.fs, q.p)  -> Fail(s, "err")
        [] ~force /\ OpenAt(s, q)                  -> Fail(s, "err")
        [] q.p # Root /\ IsDir(s.fs, q.p) /\ Children(s.fs, q.p) # {}
                                                   -> Fail(s, "err")
        [] OTHER                                   -> Cascade(s, q.p)

(* readdir_sync: the entries of a directory in littlefs's order, as the    *)
(* texts "path/name".                                                      *)
Entries(fs, x) ==
  LET kids == SelectSeq([i \in DOMAIN NameOrder |-> x.p \o <<NameOrder[i]>>],
                        LAMBDA c : c \in Paths /\ Exists(fs, c))
  IN  [i \in DOMAIN kids |-> [p |-> kids[i], canon |-> x.canon /\ x.p # Root]]

(* rm_sync(path, recursive, force): a file (not followed) is unlink_sync;  *)
(* EBUSY unless forced; not recursive is rmdir_sync; otherwise rm_sync of  *)
(* every entry, stopping at the first Err, then rm_sync of the path not    *)
(* recursively.  readdir_sync unwraps the DirHandle: a missing path        *)
(* panics.                                                                 *)
RECURSIVE RmAt(_, _, _, _)
RmAt(s, x, recursive, force) ==
  CASE x.p # Root /\ Exists(s.fs, x.p) /\ ~IsDir(s.fs, x.p) -> UnlinkAt(s, x, force)
    [] ~force /\ OpenAt(s, x)   -> Fail(s, "err")
    [] ~recursive               -> RmdirAt(s, x, force)
    [] ~IsDir(s.fs, x.p)        -> Fail(s, "panic")
    [] OTHER ->
         LET t == FoldLeft(LAMBDA u, c : IF u.err = "ok" THEN RmAt(u, c, TRUE, force) ELSE u,
                           s, Entries(s.fs, x))
         IN  IF t.err = "ok" THEN RmAt(t, x, FALSE, force) ELSE t

Now == [fs |-> fsys, hl |-> hardLinks, err |-> "ok"]

(* A removal's result applied: Err is returned to the caller (unlinkSync,  *)
(* rmSync's own checks) or unwrapped (rmdirSync, rmSync), a panic traps.   *)
Apply(r, unwrapped, ps) ==
  /\ fsys' = r.fs /\ hardLinks' = r.hl
  /\ IF r.err = "panic" \/ (r.err = "err" /\ unwrapped) THEN Panic ELSE Finish(ps)
  /\ UNCHANGED <<fds, freed, inoNext>>

(* unlinkSync: the facade always passes force, so an open path is removed *)
(* as well; a directory is EISDIR.                                         *)
UnlinkSync(p) ==
  /\ ~trapped
  /\ IF ~WatchOk(fsys, {p}) THEN Trap
     ELSE /\ Resolves(fsys, p)
          /\ Apply(UnlinkAt(Now, At(p), TRUE), FALSE, {p})

(* rmdirSync: rmdir_sync without force, its Err unwrapped.                 *)
RmdirSync(p) ==
  /\ ~trapped
  /\ IF ~WatchOk(fsys, {p}) THEN Trap
     ELSE /\ Resolves(fsys, p)
          /\ Apply(RmdirAt(Now, At(p), FALSE), TRUE, {p})

(* rmSync(path, {recursive, force}): rm_sync, its Err unwrapped.           *)
RmSync(p, recursive, force) ==
  /\ ~trapped
  /\ IF ~WatchOk(fsys, {p}) THEN Trap
     ELSE /\ \A y \in Paths : Resolves(fsys, y)
          /\ Apply(RmAt(Now, At(p), recursive, force), TRUE, {p})

S_IWUSR == 128   \* 0o200
S_IWGRP == 16    \* 0o020
S_IWOTH == 2     \* 0o002

(* n & b for a single bit b, by arithmetic.                               *)
HasBit(n, b) == (n \div b) % 2 = 1

(* sanitize_permissions: p & (DEFAULT_PERM_DIR | DEFAULT_PERM_FILE).  The  *)
(* mask is 0o777, the low nine bits, so for the model's non-negative modes *)
(* the result is m modulo 2^9.                                             *)
sanitize_permissions(m) == m % (DEFAULT_PERM_DIR + 1)

(* mkdir_sync's permission test on the parent's mode.                      *)
Writable(perm) ==
  LET pp == sanitize_permissions(perm)
  IN  HasBit(pp, S_IWUSR) \/ HasBit(pp, S_IWGRP) \/ HasBit(pp, S_IWOTH)

(* chmod_sync on a disk state: the mode of the path itself (not followed), *)
(* S_IFDIR or S_IFREG by is_directory and the sanitized permissions.  The  *)
(* patch of a path with no entry changes nothing.                          *)
ChmodAt(fs, p, m) ==
  IF ~Exists(fs, p) THEN fs
  ELSE [fs EXCEPT ![p].fmt = IF IsDir(fs, p) THEN "dir" ELSE "reg",
                  ![p].perm = sanitize_permissions(m)]

(* mkdir_sync(p, false) on a state record [fs, ino, err]: an existing     *)
(* followed target is EEXIST when p itself (not followed) is a file, and   *)
(* success otherwise.  Else the followed path's parent must have a write   *)
(* bit (a missing parent reads a zero record: EACCES), lfs_mkdir is        *)
(* asserted to succeed (a file parent panics), and the new directory, its  *)
(* record reset, gets chmod_sync(mode) and an inode number from the pool.  *)
MkdirAt(s, p, m) ==
  LET q == follow_link(s.fs, p).path
      parent == path_dirname(q)
  IN  CASE ~follow_link(s.fs, p).ok                     -> Fail(s, "panic")
        [] q = Root \/ Exists(s.fs, q)                  ->
             IF p # Root /\ s.fs[p].type = "file" THEN Fail(s, "err") ELSE s
        [] ~Writable(s.fs[parent].perm)                 -> Fail(s, "err")
        [] s.fs[parent].type = "file"                   -> Fail(s, "panic")
        [] OTHER -> [s EXCEPT !.fs = ChmodAt([@ EXCEPT ![q] = [NoEntry EXCEPT !.type = "dir",
                                                 !.ino = s.ino, !.nlink = 1]], q, m),
                              !.ino = @ + 1]

(* exists_sync on a disk state: the followed path exists.               *)
ExistsAt(fs, p) ==
  follow_link(fs, p).ok /\ (follow_link(fs, p).path = Root \/ Exists(fs, follow_link(fs, p).path))

(* path_split: "/a", "/a/b", ... for each non-empty segment of the path.   *)
path_split(p) == [i \in 1 .. Len(p) |-> SubSeq(p, 1, i)]

(* mkdir_sync(p, true): an existing target is handled as above; otherwise  *)
(* mkdir_sync(x, false) of every prefix in turn, stopping at the first Err *)
(* (an EEXIST is turned into ENOTDIR).                                     *)
MkdirRecAt(s, p, m) ==
  IF ExistsAt(s.fs, p)
  THEN MkdirAt(s, p, m)
  ELSE FoldLeft(LAMBDA u, x : IF u.err = "ok" THEN MkdirAt(u, x, m) ELSE u, s, path_split(p))

(* mkdirSync(path, {recursive, mode}): its Err is returned to the caller,  *)
(* a panic traps.                                                          *)
MkdirSync(p, recursive, m) ==
  /\ ~trapped
  /\ IF ~WatchOk(fsys, {p}) THEN Trap
     ELSE
     LET s0 == [fs |-> fsys, ino |-> inoNext, err |-> "ok"]
         r == IF recursive THEN MkdirRecAt(s0, p, m) ELSE MkdirAt(s0, p, m)
     IN  /\ \A x \in ToSet(path_split(p)) : Resolves(fsys, x)
         /\ r.ino <= MaxIno + 1
         /\ fsys' = r.fs /\ inoNext' = r.ino
         /\ UNCHANGED <<fds, freed, hardLinks>>
         /\ IF r.err = "panic" THEN Panic ELSE Finish({p})
(* The digits of rand_string.                                              *)
B64 == <<"A","B","C","D","E","F","G","H","I","J","K","L","M","N","O","P",
         "Q","R","S","T","U","V","W","X","Y","Z","a","b","c","d","e","f",
         "g","h","i","j","k","l","m","n","o","p","q","r","s","t","u","v",
         "w","x","y","z","0","1","2","3","4","5","6","7","8","9","-","_">>

(* The f64 bits of Date.now() shifted right by 48: sign 0, the biased      *)
(* exponent 1023 + 40 of a time in [2^40, 2^41) ms, and the top four       *)
(* mantissa bits, which are Date.now() div 2^36 - 16.                      *)
TimeBits48 == (1023 + 40) * 16 + (NowEpoch - 16)

(* rand_string: the low ten of those bits, six base64 digits of them.      *)
rand_string ==
  LET bits == TimeBits48 & 1023
  IN  [i \in 1 .. 6 |-> B64[(shiftR(bits, 6 * (i - 1)) & 63) + 1]]

(* mkdtempSync: mkdtemp_sync makes prefix \o rand_string with             *)
(* mkdir_sync(path, false), its Err unwrapped; the watch on the returned   *)
(* path is taken after the directory is made.                              *)
MkdtempSync(pre) ==
  LET p == path_normalize(pre \o rand_string)
      r == MkdirAt([fs |-> fsys, ino |-> inoNext, err |-> "ok"], p, DEFAULT_PERM_DIR)
  IN  /\ ~trapped
      /\ p \in Paths /\ Resolves(fsys, p) /\ r.ino <= MaxIno + 1
      /\ fsys' = r.fs /\ inoNext' = r.ino
      /\ UNCHANGED <<fds, freed, hardLinks>>
      /\ IF r.err = "ok" THEN Finish({p}) ELSE Panic

(* exists_sync: the followed path exists.                                  *)
ExistsSync(p) == Target(p) = Root \/ Exists(fsys, Target(p))

(* The shared front of link_sync and symlink_sync: ENOENT, EEXIST, then    *)
(* write_file_sync_no_follow(b, text of a) whose failure is ignored, the   *)
(* new path's record patched with link = isLink, nlink = 1 and symlink =  *)
(* isSym and the mode md, and the raw record of a (not followed) written   *)
(* back with nlink + 1.                                                    *)
MakeLink(isHard, a, b, isLink, isSym, md) ==
  /\ ~trapped
  /\ IF ~WatchOk(fsys, {b, a}) THEN Trap
     ELSE
     /\ Resolves(fsys, a) /\ Resolves(fsys, b)
     /\ UNCHANGED <<fds, freed>>
     /\ \/ /\ ~ExistsSync(a) \/ ExistsSync(b)
           /\ UNCHANGED <<fsys, inoNext, hardLinks>>
           /\ Finish({b, a})
        \/ /\ ExistsSync(a) /\ ~ExistsSync(b) /\ fsys[a].nlink < MaxNlink
           /\ LET made == ~IsDir(fsys, b) /\ CanOpenFile(b, "w")
                  new  == IF Exists(fsys, b) THEN [fsys[b] EXCEPT !.data = PathStr(a)]
                          ELSE NewFile(PathStr(a))
              IN  /\ made /\ ~Exists(fsys, b) => inoNext <= MaxIno
                  /\ inoNext' = IF made /\ ~Exists(fsys, b) THEN inoNext + 1 ELSE inoNext
                  /\ fsys' = [fsys EXCEPT
                               ![b] = IF made THEN [new EXCEPT !.link = isLink, !.nlink = 1,
                                                               !.symlink = isSym, !.fmt = md.fmt,
                                                               !.perm = md.perm]
                                      ELSE @,
                               ![a].nlink = @ + 1]
           /\ isHard => Len(hardLinks[a]) < MaxAliases
           /\ hardLinks' = IF isHard
                           THEN [hardLinks EXCEPT ![a] = Append(@, b)] ELSE hardLinks
           /\ Finish({b, a})

(* linkSync: the new path is a file holding the text of a, link = true,   *)
(* nlink 1, the symlink flag and the mode copied from a's raw record; a's  *)
(* alias list gets b.                                                      *)
LinkSync(a, b) ==
  MakeLink(TRUE, a, b, TRUE, fsys[a].symlink, [fmt |-> fsys[a].fmt, perm |-> fsys[a].perm])

(* Mutant of SymlinkSync: the mode is copied from a, as linkSync does.    *)
SymlinkSyncCopyMode(a, b) ==
  MakeLink(FALSE, a, b, FALSE, TRUE, [fmt |-> fsys[a].fmt, perm |-> fsys[a].perm])

(* symlinkSync: the same file, link = false, symlink = true, nlink 1, then *)
(* chmod_sync(b) with the default permissions of a's kind (is_directory of *)
(* a, not followed); b is no directory, so its type bits are S_IFREG.  No  *)
(* alias is recorded.                                                      *)
SymlinkSync(a, b) ==
  MakeLink(FALSE, a, b, FALSE, TRUE,
           [fmt |-> "reg", perm |-> IF IsDir(fsys, a) THEN DEFAULT_PERM_DIR ELSE DEFAULT_PERM_FILE])

(* lfs_rename: a must exist, the new parent be a directory, a not contain *)
(* b, and an existing b be of a's type and, for a directory, empty.       *)
RenameOk(a, b) ==
  /\ a # Root /\ b # Root /\ Exists(fsys, a) /\ IsDir(fsys, path_dirname(b))
  /\ a = b \/ ~IsPrefix(a, b)
  /\ \/ ~Exists(fsys, b) \/ a = b
     \/ fsys[b].type = fsys[a].type /\ (fsys[a].type = "file" \/ Children(fsys, b) = {})

(* The entries under a moved under b, with their attribute records.       *)
Moved(a, b) ==
  [y \in Paths |->
     IF IsPrefix(b, y) THEN LET src == a \o SubSeq(y, Len(b) + 1, Len(y))
                            IN  IF src \in Paths THEN fsys[src] ELSE NoEntry
     ELSE IF IsPrefix(a, y) THEN NoEntry ELSE fsys[y]]

(* Mutant of RenameSync: only the source path is tested with is_open.     *)
RenameSyncOldOnly(a, b) ==
  /\ ~trapped
  /\ IF ~WatchOk(fsys, {a, b}) THEN Trap
     ELSE
     /\ UNCHANGED <<fds, freed, inoNext, hardLinks>>
     /\ \/ /\ IsOpen(fsys, hardLinks, a)
           /\ UNCHANGED fsys
           /\ Panic
        \/ /\ ~IsOpen(fsys, hardLinks, a)
           /\ IF RenameOk(a, b) /\ a # b
              THEN /\ \A y \in Paths : IsPrefix(a, y) /\ Exists(fsys, y) =>
                                         b \o SubSeq(y, Len(a) + 1, Len(y)) \in Paths
                   /\ fsys' = Moved(a, b)
              ELSE UNCHANGED fsys
           /\ Finish({a, b})

(* renameSync: rename_sync refuses (None, unwrapped) when either path is   *)
(* open; otherwise lfs_rename on the paths as given, whose failure is a    *)
(* silent Some(false).  LFS_SYS_HARD_LINKS is left as it is.               *)
RenameSync(a, b) ==
  /\ ~trapped
  /\ IF ~WatchOk(fsys, {a, b}) THEN Trap
     ELSE
     /\ UNCHANGED <<fds, freed, inoNext, hardLinks>>
     /\ \/ /\ IsOpen(fsys, hardLinks, a) \/ IsOpen(fsys, hardLinks, b)
           /\ UNCHANGED fsys
           /\ Panic
        \/ /\ ~IsOpen(fsys, hardLinks, a) /\ ~IsOpen(fsys, hardLinks, b)
           /\ IF RenameOk(a, b) /\ a # b
              THEN /\ \A y \in Paths : IsPrefix(a, y) /\ Exists(fsys, y) =>
                                         b \o SubSeq(y, Len(a) + 1, Len(y)) \in Paths
                   /\ fsys' = Moved(a, b)
              ELSE UNCHANGED fsys
           /\ Finish({a, b})

COPYFILE_EXCL == 1

(* copyFileSync: the facade computes excl as `mode | COPYFILE_EXCL != 0`,  *)
(* which Rust reads as (mode | COPYFILE_EXCL) != 0.  copy_file_sync follows *)
(* both paths; EBUSY if either is open, EEXIST if excl and the destination *)
(* exists (Err returned); read_file_sync of the source is unwrapped (a     *)
(* panic unless it is a file); write_file_sync of the destination, whose   *)
(* failure is ignored.                                                     *)
CopyFileSync(a, b, mode) ==
  /\ ~trapped
  /\ IF ~WatchOk(fsys, {a, b}) THEN Trap
     ELSE
     LET src == Target(a)
         dst == Target(b)
         excl == (mode | COPYFILE_EXCL) # 0
         refused == IsOpen(fsys, hardLinks, src) \/ IsOpen(fsys, hardLinks, dst)
                    \/ (excl /\ ExistsSync(dst))
     IN  /\ Resolves(fsys, a) /\ Resolves(fsys, b)
         /\ UNCHANGED <<fds, freed, hardLinks>>
         /\ \/ /\ refused
               /\ UNCHANGED <<fsys, inoNext>>
               /\ Finish({a, b})
            \/ /\ ~refused /\ fsys[src].type # "file"
               /\ UNCHANGED <<fsys, inoNext>>
               /\ Panic
            \/ /\ ~refused /\ fsys[src].type = "file" /\ OpensW(dst)
               /\ WriteWhole(dst, fsys[src].data)
               /\ Finish({a, b})
            \/ /\ ~refused /\ fsys[src].type = "file" /\ ~OpensW(dst)
               /\ ~Exists(fsys, dst) => inoNext <= MaxIno
               /\ UNCHANGED <<fsys, inoNext>>
               /\ Finish({a, b})

-----------------------------------------------------------------------------
(* is_symlink: an existing path other than "/" whose attribute says       *)
(* symlink.                                                                *)
IsSymlink(fs, p) == p # Root /\ Exists(fs, p) /\ fs[p].symlink

(* realpath_sync: follow_link, then, while the result is a symlink file,   *)
(* its text (read_file_sync_no_follow of a file always gives Some) taken   *)
(* as the next path.  A symlink met twice is a cycle, which runs into the  *)
(* `attempt < 100` assert.                                                 *)
RECURSIVE Real(_, _, _)
Real(fs, p, seen) ==
  LET f == follow_link(fs, p)
  IN  CASE ~f.ok \/ ~IsSymlink(fs, f.path) -> f
        [] f.path \in seen                 -> [ok |-> FALSE, path |-> f.path]
        [] OTHER -> Real(fs, path_normalize(fs[f.path].data), seen \cup {f.path})
realpath_sync(fs, p) == Real(fs, p, {})

(* chmodSync: chmod_sync on the path as given, unwrapped (it is Some).     *)
ChmodSync(p, m) ==
  /\ ~trapped
  /\ IF ~WatchOk(fsys, {p}) THEN Trap
     ELSE /\ fsys' = ChmodAt(fsys, p, m)
          /\ UNCHANGED <<fds, freed, inoNext, hardLinks>>
          /\ Finish({p})

(* lchmodSync: lchmod_sync runs chmod_sync on realpath_sync of the path,  *)
(* which follows symlinks too.                                            *)
LchmodSync(p, m) ==
  LET r == realpath_sync(fsys, p)
  IN  /\ ~trapped
      /\ IF ~WatchOk(fsys, {p}) THEN Trap
         ELSE /\ UNCHANGED <<fds, freed, inoNext, hardLinks>>
              /\ \/ /\ ~r.ok
                    /\ UNCHANGED fsys
                    /\ Panic
                 \/ /\ r.ok /\ r.path \in Paths
                    /\ fsys' = ChmodAt(fsys, r.path, m)
                    /\ Finish({p})

(* fchmodSync: path_from_fd (readlink of /proc/self/fd/<fd>, unwrapped),   *)
(* the watch, then chmod_sync on the path the handle was opened with,      *)
(* whatever entry is there now.                                            *)
FchmodSync(fd, m) ==
  /\ ~trapped
  /\ IF fd \notin DOMAIN fds \/ ~WatchOk(fsys, {fds[fd].path}) THEN Trap
     ELSE /\ fsys' = ChmodAt(fsys, fds[fd].path, m)
          /\ UNCHANGED <<fds, freed, inoNext, hardLinks>>
          /\ Finish({fds[fd].path})

(* chownSync, lchownSync, fchownSync: uid and gid are not modelled; what   *)
(* is left is the watch, lchown's realpath_sync and fchown's path_from_fd. *)
ChownSync(p) ==
  /\ ~trapped
  /\ UNCHANGED <<fsys, fds, freed, inoNext, hardLinks>>
  /\ IF ~WatchOk(fsys, {p}) THEN Panic ELSE Finish({p})

LchownSync(p) ==
  /\ ~trapped
  /\ UNCHANGED <<fsys, fds, freed, inoNext, hardLinks>>
  /\ IF ~WatchOk(fsys, {p}) \/ ~realpath_sync(fsys, p).ok THEN Panic ELSE Finish({p})

FchownSync(fd) ==
  /\ ~trapped
  /\ UNCHANGED <<fsys, fds, freed, inoNext, hardLinks>>
  /\ IF fd \notin DOMAIN fds \/ ~WatchOk(fsys, {fds[fd].path}) THEN Panic
     ELSE Finish({fds[fd].path})

(* utimes_sync: follow_link, and None (unwrapped by every caller: a panic) *)
(* when the followed path does not exist.                                  *)
UtimesAt(p) == IF ExistsSync(p) THEN Finish({p}) ELSE Panic

(* utimesSync, lutimesSync (utimes_sync of realpath_sync) and futimesSync  *)
(* (path_from_fd, then utimes_sync of the handle's path).  The times are   *)
(* not modelled.                                                           *)
UtimesSync(p) ==
  /\ ~trapped
  /\ UNCHANGED <<fsys, fds, freed, inoNext, hardLinks>>
  /\ IF ~WatchOk(fsys, {p}) THEN Panic ELSE UtimesAt(p)

LutimesSync(p) ==
  LET r == realpath_sync(fsys, p)
  IN  /\ ~trapped
      /\ UNCHANGED <<fsys, fds, freed, inoNext, hardLinks>>
      /\ IF ~WatchOk(fsys, {p}) \/ ~r.ok THEN Panic
         ELSE /\ r.path \in Paths
              /\ trapped' = ~ExistsSync(r.path)

FutimesSync(fd) ==
  /\ ~trapped
  /\ UNCHANGED <<fsys, fds, freed, inoNext, hardLinks>>
  /\ IF fd \notin DOMAIN fds \/ ~WatchOk(fsys, {fds[fd].path}) THEN Panic
     ELSE UtimesAt(fds[fd].path)

(* accessSync and realpathSync take no watch; their results are not        *)
(* recorded, so what is left is the assert of follow_link (access_sync)    *)
(* and of realpath_sync on a cycle.                                        *)
AccessSync(p) ==
  /\ ~trapped
  /\ UNCHANGED <<fsys, fds, freed, inoNext, hardLinks>>
  /\ trapped' = ~follow_link(fsys, p).ok

RealpathSync(p) ==
  /\ ~trapped
  /\ UNCHANGED <<fsys, fds, freed, inoNext, hardLinks>>
  /\ trapped' = ~realpath_sync(fsys, p).ok

(* readlinkSync: EINVAL unless the path itself is a symlink; otherwise     *)
(* realpath_sync and read_file_sync of where it ends, unwrapped: a cycle,  *)
(* a dangling symlink or one that ends at a directory panics.              *)
ReadlinkSync(p) ==
  LET r == realpath_sync(fsys, p)
  IN  /\ ~trapped
      /\ UNCHANGED <<fsys, fds, freed, inoNext, hardLinks>>
      /\ \/ /\ ~IsSymlink(fsys, p)
            /\ UNCHANGED trapped
         \/ /\ IsSymlink(fsys, p) /\ ~r.ok
            /\ Panic
         \/ /\ IsSymlink(fsys, p) /\ r.ok /\ r.path \in Paths
            /\ trapped' = (fsys[r.path].type # "file")

(* readdirSync: ENOENT unless exists_sync; ENOTDIR unless the type bits of *)
(* the followed path's mode say S_IFDIR; then readdir_sync unwraps         *)
(* DirHandle::open of the path as given, which lfs_dir_open refuses for    *)
(* anything but a directory.  The listing is not recorded.                 *)
ReaddirSync(p) ==
  /\ ~trapped
  /\ UNCHANGED <<fsys, fds, freed, inoNext, hardLinks>>
  /\ IF ~WatchOk(fsys, {p}) THEN Panic
     ELSE /\ Resolves(fsys, p)
          /\ IF ExistsSync(p) /\ fsys[Target(p)].fmt = "dir" /\ ~IsDir(fsys, p)
             THEN Panic ELSE Finish({p})

-----------------------------------------------------------------------------
Flags == {"r", "w", "wx"}
FdArgs == 3 .. MaxFds + 2
TruncLens == {0, MaxLen}
CopyModes == {0, COPYFILE_EXCL}
Positions == {-1, 0}               \* none, or the start of the file
ReadLens == {1, MaxLen}
Offsets == {-1, 1}
Whences == {SEEK_SET, SEEK_CUR, SEEK_END, 3}


(* The lfs_file_close of each dropped handle commits its content, in the  *)
(* order the drop of the HashMap meets them.                               *)
DropSyncs ==
  {FoldLeft(LAMBDA fs, fd : SyncFs(fs, fds[fd]), fsys, o) : o \in SetToSeqs(DOMAIN fds)}

(* Mutant of Reboot: lfs_reset also replaces LFS_SYS_INO_POOL.           *)
RebootFreshInoPool ==
  /\ ~trapped
  /\ boots < MaxReboots
  /\ boots' = boots + 1
  /\ closes' = closes + MapThenSumSet(LAMBDA fd : DropCloses(fds, fd), DOMAIN fds)
  /\ issued' = issued + Cardinality(DOMAIN fds \cup freed)
  /\ fds' = <<>>
  /\ freed' = {}
  /\ inoNext' = 1
  /\ fsys' \in DropSyncs
  /\ UNCHANGED <<hardLinks, trapped>>

(* wasabio_reboot, with no call in progress: lfs_reset replaces the disk  *)
(* and init locks, LFS_SYS_OPEN_FDS and LFS_SYS_FD_POOL, and keeps the     *)
(* disk, LFS_SYS_INO_POOL and LFS_SYS_HARD_LINKS (INITIALIZED stays true). *)
(* Assigning the new map drops the old one in place first, so each        *)
(* handle's Drop still finds itself in the table it is being dropped from. *)
(* The fresh pool hands out descriptor 3 again.                            *)
Reboot ==
  /\ ~trapped
  /\ boots < MaxReboots
  /\ boots' = boots + 1
  /\ closes' = closes + MapThenSumSet(LAMBDA fd : DropCloses(fds, fd), DOMAIN fds)
  /\ issued' = issued + Cardinality(DOMAIN fds \cup freed)
  /\ fds' = <<>>
  /\ freed' = {}
  /\ fsys' \in DropSyncs
  /\ UNCHANGED <<inoNext, hardLinks, trapped>>

(* The facade calls other than closeSync, which leave the lfs objects    *)
(* of the table's handles alone.                                          *)
Rest ==
  \/ "open" \in Ops /\ \E p \in Paths, f \in Flags : OpenSync(p, f)
  \/ "write" \in Ops /\ \E fd \in FdArgs, d \in Data, at \in Positions : WriteSync(fd, d, at)
  \/ "read" \in Ops /\ \E fd \in FdArgs, n \in ReadLens, at \in Positions : ReadSync(fd, n, at)
  \/ "lseek" \in Ops /\ \E fd \in FdArgs, off \in Offsets, wh \in Whences : LseekSync(fd, off, wh)
  \/ "ftruncate" \in Ops /\ \E fd \in FdArgs, n \in TruncLens : FtruncateSync(fd, n)
  \/ "writeFile" \in Ops /\ \E p \in Paths, d \in Data : WriteFileSync(p, d)
  \/ "appendFile" \in Ops /\ \E p \in Paths, d \in Data : AppendFileSync(p, d)
  \/ "truncate" \in Ops /\ \E p \in Paths, n \in TruncLens : TruncateSync(p, n)
  \/ "copyFile" \in Ops /\ \E a, b \in Paths, m \in CopyModes : CopyFileSync(a, b, m)
  \/ "mkdir" \in Ops /\ \E p \in Paths, r \in BOOLEAN, m \in Modes : MkdirSync(p, r, m)
  \/ "mkdtemp" \in Ops /\ \E pre \in TempPrefixes : MkdtempSync(pre)
  \/ "unlink" \in Ops /\ \E p \in Paths : UnlinkSync(p)
  \/ "rmdir" \in Ops /\ \E p \in Paths : RmdirSync(p)
  \/ "rm" \in Ops /\ \E p \in Paths, r, f \in BOOLEAN : RmSync(p, r, f)
  \/ "link" \in Ops /\ \E a, b \in Paths : LinkSync(a, b)
  \/ "symlink" \in Ops /\ \E a, b \in Paths : SymlinkSync(a, b)
  \/ "rename" \in Ops /\ \E a, b \in Paths : RenameSync(a, b)
  \/ "chmod" \in Ops /\ \E p \in Paths, m \in Modes : ChmodSync(p, m)
  \/ "lchmod" \in Ops /\ \E p \in Paths, m \in Modes : LchmodSync(p, m)
  \/ "fchmod" \in Ops /\ \E fd \in FdArgs, m \in Modes : FchmodSync(fd, m)
  \/ "chown" \in Ops /\ \E p \in Paths : ChownSync(p)
  \/ "lchown" \in Ops /\ \E p \in Paths : LchownSync(p)
  \/ "fchown" \in Ops /\ \E fd \in FdArgs : FchownSync(fd)
  \/ "utimes" \in Ops /\ \E p \in Paths : UtimesSync(p)
  \/ "lutimes" \in Ops /\ \E p \in Paths : LutimesSync(p)
  \/ "futimes" \in Ops /\ \E fd \in FdArgs : FutimesSync(fd)
  \/ "access" \in Ops /\ \E p \in Paths : AccessSync(p)
  \/ "realpath" \in Ops /\ \E p \in Paths : RealpathSync(p)
  \/ "readlink" \in Ops /\ \E p \in Paths : ReadlinkSync(p)
  \/ "readdir" \in Ops /\ \E p \in Paths : ReaddirSync(p)

(* The facade calls a run makes: each is offered only if named in Ops.     *)
Call ==
  \/ "close" \in Ops /\ \E fd \in FdArgs : CloseSync(fd)
  \/ UNCHANGED closes /\ Rest

(* After a panic the instance has trapped and takes no more calls.         *)
Trapped == trapped /\ UNCHANGED vars

Next == (Call /\ UNCHANGED <<issued, boots>>) \/ ("reboot" \in Ops /\ Reboot) \/ Trapped

Spec == Init /\ [][Next]_vars
-----------------------------------------------------------------------------

(* Inode numbers identify files: no two existing paths carry the same ino  *)
(* (FileHandle::open and mkdir_sync take a new one from LFS_SYS_INO_POOL,  *)
(* lfs_rename moves the record with the entry).                            *)
InoUnique ==
  \A p, q \in Paths \ {Root} :
    p # q /\ Exists(fsys, p) /\ Exists(fsys, q) => fsys[p].ino # fsys[q].ino

(* unlink(a) removes a and its hardlinks: one call never removes two       *)
(* entries that are not link files.  rename_sync leaves the alias list     *)
(* naming the old path.                                                    *)
UnlinkTakesOneFile ==
  [][\A x, y \in Paths :
       (/\ x # y
        /\ Exists(fsys, x) /\ ~Exists(fsys', x) /\ ~fsys[x].link
        /\ Exists(fsys, y) /\ ~Exists(fsys', y) /\ ~fsys[y].link)
       => ~\E p \in Paths : UnlinkSync(p)]_vars

(* Every lfs file or directory object a descriptor was opened with is     *)
(* closed exactly once when its handle leaves the table, by closeSync or  *)
(* by the drop of the table in wasabio_reboot: the close calls made equal *)
(* the descriptors handed out that are no longer open.  A second          *)
(* lfs_file_close and lfs_sys_file_free of one object is a double free.   *)
LfsObjectsClosedOnce ==
  closes = issued + Cardinality(DOMAIN fds \cup freed) - Cardinality(DOMAIN fds)

(* Only the forced removals, unlinkSync (which always forces) and rmSync   *)
(* with force, may take the file from under an open handle: renameSync,    *)
(* rmdirSync and rmSync without force consult is_open (the handle's path,  *)
(* the hardlink aliases, the text prefix for directories) first.           *)
OnlyUnlinkOrphans ==
  [][(\E fd \in DOMAIN fds : LiveIn(fsys, fds[fd]) /\ ~LiveIn(fsys', fds[fd]))
       => \E p \in Paths : UnlinkSync(p) \/ \E r \in BOOLEAN : RmSync(p, r, TRUE)]_vars

(* rm(dir, {recursive: true}) leaves neither dir nor any descendant, and  *)
(* rm(path) leaves no path: an rmSync call that returns (rm_sync's Err     *)
(* and panics trap the instance) has removed everything it was asked to.  *)
(* rm_sync recurses over the entries, unlinking files through follow_link *)
(* and the alias cascade, then rmdir_sync of the directory itself.        *)
RmRemovesTree ==
  [][\A p \in Paths, r, f \in BOOLEAN :
       RmSync(p, r, f) /\ ~trapped' =>
         \A y \in Paths \ {Root} : y = p \/ (r /\ IsPrefix(p, y)) => ~Exists(fsys', y)]_vars


(* The type bits of a path's mode agree with its entry: S_IFDIR for a      *)
(* directory, S_IFREG for a file.  readdirSync's ENOTDIR test and the      *)
(* isDirectory of statSync read the mode, not the littlefs type; the mode  *)
(* is written by FileHandle::open, mkdir_sync and symlink_sync through     *)
(* chmod_sync's is_directory test, moved by lfs_rename, and rewritten by   *)
(* every chmod call.  Hard-link alias files copy the mode of their target  *)
(* and are never read for it (every reader follows them first).            *)
ModeMatchesType ==
  \A p \in Paths :
    Exists(fsys, p) /\ ~fsys[p].link =>
      fsys[p].fmt = IF fsys[p].type = "dir" THEN "dir" ELSE "reg"


=============================================================================
