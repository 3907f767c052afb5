# TLA+ models of wasabio

wasabio is a file system for WebAssembly workers that share one
SharedArrayBuffer. Its Rust sources are under `src/src`:

| Part | Source | What it does |
|---|---|---|
| Lock registry | `lock.rs` | `LOCKS`: a vector of slots in shared memory. Each slot has an atomic word (0 free, 1 poisoned) and a `held` flag. `sab_lock_new/free/acquire/release`, with the `Lock` and `Guard` wrappers and the `guard!` macro. |
| Disk initialisation | `fs/lfs.rs` `disk()` | The first call mounts littlefs in memory and writes the root's attribute record. It uses the `INITIALIZED` flag, `LFS_SYS_INIT_LOCK` and `INIT: Once`. |
| Handle table and POSIX layer | `fs/lfs.rs` | `LFS_SYS_OPEN_FDS` (fd ↦ file or dir handle), `LFS_SYS_FD_POOL`, `LFS_SYS_INO_POOL` and `LFS_SYS_HARD_LINKS` (path ↦ alias paths). The `*_sync` functions implement the POSIX calls on littlefs; links are files holding a path's text. |
| Facade | `fs.rs` | The wasm-bindgen `*Sync` functions. Each one wraps an lfs.rs call in `broadcast_watch!` (a `stat_sync` before the call and a deferred one after it) and `broadcast_defer!` (events to `EMITTER`). |
| Storage engine | littlefs (C, outside `src/`) | Takes `LFS_SYS_DISK_LOCK` (a `lock.rs` slot) around each of its calls through `lock()`/`unlock()`. |
| Bus, KV, C shims | `bus.rs`, `kv.rs`, `fs/crt.rs` | Cross-worker messages, a key-value store, and libc-like helpers for the C code. |
| Entry and build | `lib.rs`, `build.rs` | Exports, reboot and diagnostics; the compile-time C build. |

How the parts interact: every facade call goes through `disk()`. `disk()`
takes an init lock from the registry. Every littlefs call takes the disk
lock from the registry. The handle table and the alias map are plain Rust
statics. `kv.rs` emits its events through a `bus.rs` emitter named "kv".
The C code allocates through the `crt.rs` shims. Rust calls the allocating
`lfs_sys_*_new` functions outside the disk lock.

## Modules

### `SabLock.tla`: lock registry (`lock.rs`)

**State**
- `locks`: `LOCKS`, a sequence of `[word, held]`.
- `pc`, `target`: where each worker is.
- `issued`: history of the ids each worker has been given.
- `reboots`: the bound on `sab_lock_reboot` calls.

**Actions**

Every shared-memory access is its own step, because nothing in the code makes two accesses atomic:
- `NewScan`/`NewClaim`: the two halves of `sab_lock_new`, the scan for a clear `held` and then the set (or the push).
- `Free`: `sab_lock_free`.
- `BeginAcquire`: `sab_lock_acquire` starting.
- `Spin`: one load of `AtomicLock::block`.
- `Poison`: the store of 1 after the loop.
- `Release`: `sab_lock_release`, by the worker inside the lock. `sab_lock_release` checks no owner, but every caller in the crate (`Lock::release`, the `Guard` drop) releases what it acquired; a release by another worker would break mutual exclusion by definition.
- `Reboot`: `sab_lock_reboot`, between calls (a worker may still hold a lock). `LOCKS` becomes empty, and the ids workers hold stay with them. `acquire`, `release` and `free` reach a slot through `LOCKS.get_mut(id)`, which finds nothing past the end: an acquire on such an id returns at once, as if the lock were taken, and a later `sab_lock_new` pushes a fresh slot that the stale id now names.

### `SabInit.tla`: `disk()` (`fs/lfs.rs`)

**State**
- `pc` per worker.
- `initialized`.
- `once`: the state of `INIT`: new, running or done.
- `mounted`, `rootReady`.
- `mountCount`: history.
- `locks`: the registry, through `INSTANCE SabLock` for `Poisoned` and `SetWord`.

**Actions**

One action per statement of `disk()`:
- `CheckInit`: the fast path.
- `InitSpin`/`InitPoison`: the `guard!` acquire.
- `Recheck`.
- `CallOnce`: the `Once` semantics. The first caller runs the closure, callers arriving while it runs wait, later callers skip it.
- `Mount`, `RootAttr`, `RootBirth`, `SetInitialized`: the closure body, in order.
- `ReleaseInit`: the guard's drop.
- `UseDisk`.

### `SabEmitter.tla`: event emitters (`bus.rs` `EventEmitterInternal`)

**State**
- `listeners`: event ↦ sequence of `[once, ch, tag]`.
- `limit`: `setMaxListeners`.
- `pc`, `call`, `snap`, `next`: per worker.
- History: `made`, `added`, `removed`, with `fired` counts.

**Actions**

The emitter's `Vec`s are mutated in place with no lock. Each call is therefore a read of the list, then a write-back of a list computed from what was read:
- `AddRead`/`AddWrite`: `on`, `once`, `prependListener` and `prependOnceListener`.
- `OffRead`/`OffWrite`: `off`.
- `RemoveAllOf`, `RemoveAll`, `SetMaxListeners`.
- `EmitRead`/`EmitSend`/`EmitWrite`: `emit`. It sends to each subscriber's bus one step at a time, then `retain`s the subscriptions that are not once.

`Reboot` is the `EMITTERS` half of `sab_bus_reboot`. The next call re-creates the emitter through `ensureEmitterExists`, with no slots and no limit, so the subscriptions it held count as removed.

### `SabBus.tla`: bus registry (`bus.rs`)

**State**
- `buses`: `BUSES`, a sequence of `[q, held]`.
- `gen`: history of how many times each slot was handed out.
- Per worker: `pc`, `target`, `idx`, `lim`, `val`.
- `owned`: the ids each worker holds.

**Actions**
- `NewScan`/`NewClaim`: `sab_bus_new`, a scan and then a claim, as in `lock.rs`.
- `Free`, `Send`, `Receive`.
- `BcastBegin`/`BcastStep`: `sab_bus_broadcast` and `sab_bus_yeet`, one push per loop step over the length read at the start.
- `Dispose`/`DrainStep`/`DisposeFree`: `Bus::dispose`, which drains until `""` and then frees.
- `Reboot`: the `BUSES` half of `sab_bus_reboot`, between calls. The ids workers hold stay with them; `Queue` and `Unhold` are `BUSES.get`/`get_mut`, which find nothing past the end, so a receive on a stale id gives `""` and a free does nothing.

The queue is a crossbeam `SegQueue`, so each push and pop is atomic.

### `SabKv.tla`: key-value store (`kv.rs`)

**State**
- `store`: `STORE`.
- `queue`: the events one subscriber's bus has received.
- Per worker: `pc`, `snap`, `pend`.
- `log`: history of the mutations in the order they took effect.

**Actions**
- `SetRead`/`DelRead`, then `MapWrite`, then `Emit`: `sab_kv_set` and `sab_kv_del`. Each is a racy `HashMap` insert or remove, read and then written back, followed by the `"set"`/`"del"` emit with the old value.
- `Clear`: `sab_kv_clear`, which emits nothing.

### `SabKvBus.tla`: the store and its emitter together (`kv.rs`, `bus.rs`)

This module composes `SabKv` with the `"kv"` emitter of `SabEmitter`, each taken as an `INSTANCE ... WITH` its variables renamed apart.
- The emit at the end of `sab_kv_set` and `sab_kv_del` (`KvEmit`) is `SabKv`'s `Emit` and the emitter's `EmitRead` in one step. The event then reaches whichever buses are subscribed at that moment, and the emit drops the once subscriptions.
- `BusStep` is any call of script code on the same emitter, and the steps of an emit already in progress.
- `KvStep` is the kv side: set, del, their write-back, and clear.
- `Reserved` keeps enough emitter calls in the `MaxEmitCalls` budget for the kv calls still to come.

- `Reboot` is `wasabio_reboot` as it reaches these two: `sab_bus_reboot` empties `EMITTERS`, and `sab_kv_reboot` replaces the `EMITTER` handle, which names the same `"kv"` entry. `STORE` is not reset.

The run has two workers, and their steps interleave at every read, write-back and emit.

### `SabCrt.tla`: the C runtime shims (`fs/crt.rs`)

**State**
- `heap`: each address is free, a block C owns, or a block Rust owns. Rust code shares the allocator, so an address C frees can come back as Rust's.
- `allocated`: `ALLOCATED`, the static `Vec` of every pointer handed to C.
- Per worker: `pc`, `got` and `snap`, for the push still to come.
- `trapped`: a panic.

**Actions**
- `Malloc`: `malloc` and `calloc`.
- `Realloc`: `realloc`. It panics on a pointer not in `ALLOCATED`, and otherwise moves the block in place or to a free address.
- `Push`: the `ALLOCATED.push` that ends each of the three. It writes back the `Vec` the call read, with the pointer appended, because nothing locks the `Vec`. `lfs_sys_file_new`, `lfs_sys_dir_new` and the other `lfs_sys_*_new` allocators are called from Rust outside the disk lock, so workers do allocate at the same time.
- `Free`: `free`. It panics on a pointer not in `ALLOCATED`. It never removes the pointer.
- `AssertFail`: `__assert_fail`, a panic.
- `RustAlloc`/`RustFree`: the environment.

**String functions.** These are pure operators, translated loop by loop from the code: `strlen`, `strspn`, `strcspn`, `strchr`, `strcmp`, `strcpy`, `strcat` and `strncpy`.
- `strcmp` compares past the terminator of two equal strings. The model gives every difference two bytes can have at that point, because the result depends on memory the code does not own.
- Each operator has beside it the C library's definition as a reference (`RefStrlen` ... `RefStrncpy`, with `LexCmp` for the order).

### `SabFs.tla`: POSIX layer and facade (`fs.rs`, `fs/lfs.rs`)

**State**
- `fsys`: littlefs, path ↦ entry with its attribute record (`type, data, ino, nlink, link, symlink, fmt, perm`). `fmt` and `perm` are the record's mode: its file-type bits (`S_IFDIR`, `S_IFREG`, or none in a reset record) and its permission bits.
- `fds`: `LFS_SYS_OPEN_FDS`.
- `freed`: history of the descriptors that were closed.
- `inoNext`: `LFS_SYS_INO_POOL`.
- `hardLinks`: `LFS_SYS_HARD_LINKS`.
- `trapped`: a Rust panic has trapped the instance.

**Representation**
- A path is a sequence of names, and a name is a sequence of characters.
- The text a link file holds (`PathStr`) and `path_normalize` (`Segments`) are real conversions.
- `is_open`'s `starts_with` works on that text, so `/a` is a prefix of `/ab` as in the code.

**Actions**

Each facade call is one action. It covers:
1. the `broadcast_watch!` stat taken before the call (`Trap` if its `follow_link` panics);
2. the lfs.rs body, with its guards and early returns;
3. the deferred stats (`Finish`).

The actions are `OpenSync`, `CloseSync`, `ReadSync`, `WriteSync`, `LseekSync`, `FtruncateSync`, `WriteFileSync`, `AppendFileSync`, `TruncateSync`, `CopyFileSync`, `MkdirSync`, `MkdtempSync`, `UnlinkSync`, `RmdirSync`, `RmSync`, `LinkSync`, `SymlinkSync` (both through `MakeLink`), `RenameSync`, the attribute calls `ChmodSync`, `LchmodSync`, `FchmodSync`, `ChownSync`, `LchownSync`, `FchownSync`, `UtimesSync`, `LutimesSync`, `FutimesSync`, and the lookups `AccessSync`, `RealpathSync`, `ReadlinkSync` and `ReaddirSync`.

Modes and the attribute calls:
- Every mode is written by `chmod_sync` (`ChmodAt`): the type bits come from `is_directory` of the path as given (not followed) and the permission bits from `sanitize_permissions`. `FileHandle::open` gives a new file `DEFAULT_PERM_FILE` (the modelled calls pass no mode), `mkdir_sync` gives a new directory the caller's mode (the constant `Modes`), `symlink_sync` gives the link file the default of its target's kind, and `link_sync` copies the target's raw mode onto the alias file. `lfs_rename` moves the record with the entry.
- `chmodSync` does not follow links; `lchmodSync` goes through `realpath_sync` (`Real`), which follows hard-link files and then symlinks, so it is the one that reaches a target; `fchmodSync` chmods the path the handle was opened with, whatever entry is there now.
- Owner and times are not kept. What remains of the chown and utimes calls is their watch, `realpath_sync`'s assert and `path_from_fd`'s unwrap, and for utimes the unwrap of `utimes_sync`'s None when the followed path does not exist.
- `accessSync` and `realpathSync` take no watch, and their results are not recorded; what they can do to the state is the assert of `follow_link` or `realpath_sync` on a cycle.
- `readlinkSync` is EINVAL for a path that is not itself a symlink; otherwise it unwraps `read_file_sync` of where `realpath_sync` ends, so it returns the target's content and panics on a dangling symlink or one that ends at a directory.
- `readdirSync` is ENOENT unless the path exists, ENOTDIR unless the type bits of the followed path's mode say directory, and then unwraps `DirHandle::open` of the path as given, which fails for a hard-link alias of a directory. The listing is not recorded.

Descriptor calls:
- A handle carries the content littlefs holds for it and has not committed (`dirty`, `buf`). `FileHandle::write` syncs first and then writes, so a `writeSync` commits the handle's earlier write (`SyncFs`) and leaves its own bytes pending. `lseekSync`, `ftruncateSync` (which syncs before and after truncating), `closeSync` and the drops at a reboot (`DropSyncs`, in any order) commit too; `readSync` does not sync and reads the handle's own content (`View`). A commit is lost when the handle's entry is gone or holds another inode.
- `ReadSync` and `WriteSync` take a position, `-1` for the cursor. `IoStart` is where the transfer starts; `IoEnd` is the cursor after it: moved by the bytes transferred for `-1`, and put back where `lfs_file_tell` found it for a positioned call, as `FileHandle::read`/`write` seek back. A read of a handle whose file is gone reads some size (`Sizes`), since littlefs keeps the open file's own copy.
- `LseekSync` checks `whence` against `SEEK_SET`/`SEEK_CUR`/`SEEK_END` and moves the cursor unless the target is negative. The code returns the new offset only when it is 0 (it compares `lfs_file_seek`'s result with `LFS_ERR_OK`); return values are not modelled.
- `FtruncateSync` cuts or extends the open file and unwraps the result, so a directory descriptor panics.
- `AppendFileSync`: `FileHandle::append` asserts that `lfs_file_seek(END)` returns `LFS_ERR_OK`, but littlefs returns the new offset, the file's size. Only a new or empty file is appended to; a non-empty one panics with nothing written.

Directory creation works on a state record `[fs, ino, err]`:
- `MkdirAt` is `mkdir_sync(p, false, mode)`: an existing followed target is Ok for a directory and EEXIST for a file; a parent whose mode has no write bit for user, group or other is EACCES (`Writable`; a missing parent reads a zero record); a file parent panics; and a new directory gets the mode and an inode.
- `MkdirRecAt` is the recursive branch: `FoldLeft` of `MkdirAt` over `path_split` (`"/a"`, `"/a/b"`, ...), stopping at the first Err.
- `MkdtempSync` makes `prefix ++ rand_string` with `MkdirAt` and unwraps. `rand_string` keeps bits 48..57 of the f64 bits of `Date.now()` (`TimeBits48`, from the constant `NowEpoch` = `Date.now()` div 2^36). Those are the exponent's low bits and the top mantissa bits, so the suffix changes about every two years: today it is `"6JAAAA"`. A second `mkdtempSync` with the same prefix returns the same directory, since `mkdir_sync` is Ok for an existing one.

The removal calls share operators on a state record `[fs, hl, err]`:
- `UnlinkAt` and `RmdirAt` are `unlink_sync` and `rmdir_sync`, with their early returns in code order.
- `Cascade` is the `lfs_remove` of the path and then of every alias listed for it in `LFS_SYS_HARD_LINKS`.
- `RmAt` is the recursive `rm_sync`. It is a `RECURSIVE` operator that folds over the directory's entries (`Entries`) and stops at the first Err. Effects made before the Err stay.
- A location `[p, canon]` records whether the code names the path by its own text. `rm_sync` builds `format!("{}/{}")`, which is `"//name"` for entries of the root. `rm_sync`'s own `is_open` never matches that text, so `canon` is false there. `unlink_sync` and `rmdir_sync` normalise through `follow_link` first (`FollowAt`), so their `is_open` and the alias cascade see the canonical path.
- littlefs lists a directory in name order, given by the constant `NameOrder`.

`CopyFileSync` keeps the code's flag test `(mode | COPYFILE_EXCL) # 0`, using `Bitwise`.

`Reboot` is the file-system part of `wasabio_reboot`. `lfs_reset` replaces `LFS_SYS_OPEN_FDS` and `LFS_SYS_FD_POOL`, so descriptors start again at 3. It keeps the disk, `LFS_SYS_INO_POOL` and `LFS_SYS_HARD_LINKS`.
- A Rust assignment drops the old value before it writes the new one. So the old table is dropped while `LFS_SYS_OPEN_FDS` still names it.
- `DropCloses` is the `Drop` of `FileHandle` and `DirHandle`, given the table that drop reads. If the fd is in the table, the drop removes it, and the removed copy is dropped at once. Then the drop closes and frees the handle's lfs object.
- `CloseSync` removes the entry before the drop, which makes one close. The reboot drops every handle with its entry still in the table, which makes two closes.
- The history variables `closes` and `issued` count the close calls and the descriptors handed out before the last reboot.

The constant `Ops` names the facade calls a run offers. This splits the calls into:
- handle and namespace calls (`HandleOps`);
- content and descriptor calls, with reboot (`ContentOps`).

Standalone, `fs_handles` and `fs_content` each take a minute to a minute and a half; with TLC's coverage report on, each takes about two to three times as long. Writes through a descriptor are offered only in `fs_content`. In `fs_handles` they would double the state space and add nothing to its properties, since a write changes no name, inode or mode.

An `unwrap` or `assert` that fails in the code sets `trapped`, and the instance takes no more calls:
- `writeSync` on a bad fd, `ftruncateSync` on a directory;
- `appendFileSync` on a non-empty file;
- `mkdtempSync` on a name that is a file;
- `writeFileSync` that cannot open;
- `mkdir` under a file;
- `rmdir` returning an error, and `rename` when `is_open` refuses (`rename_sync` returns None); a failed `lfs_rename` returns `Some(false)`, which is not a trap;
- the 100-hop cap of `follow_link` and of `realpath_sync`;
- `readlinkSync` ending at no file, `readdirSync` on a hard-link alias of a directory, and `utimesSync`/`lutimesSync`/`futimesSync` on a path that does not exist;
- an fd call (`fchmodSync`, `fchownSync`, `futimesSync`, ...) on a descriptor that is not open, through `path_from_fd`.

littlefs is not under `src/`. Its calls are modelled from its documented behaviour as atomic operators: `RemoveOne`, `RenameOk`/`Moved`, `CanOpenFile`, `Overwrite` and `Children`. littlefs is built with `LFS_NO_ASSERT`, so a write through a read-only handle may or may not take effect, and the model allows both.

`PROJECT.json` `map` names the source lines of every definition.

## Runs

| Run | Expect | What it shows |
|---|---|---|
| `lock_live` | pass (8,819 states) | Deadlock freedom (`DeadlockFree`): while some worker spins in `block()`, some worker is eventually inside a lock, under weak fairness of workers, with any number of acquisitions and one `sab_lock_reboot` that leaves the workers' ids stale. It does not say which worker gets in: `block()` is a test-then-set spin, and a worker that keeps re-acquiring can starve another for ever. TypeOK holds. |
| `lock_mutex` | violation | `MutualExclusion` fails. Two workers both load 0 in `block()` and both store 1. |
| `init_mount` | pass (956 states) | With three racing workers: <br>• the disk is mounted once (`MountOnce`); <br>• nobody passes `disk()` before the mount and the root record are done (`NoUseBeforeMount`); <br>• every call returns (`EveryCallReturns`). |
| `fs_handles` | pass (45,736 states) | Over open, close, writeFile, the namespace calls, links, rename, chmod and lchmod by path and fchmod by descriptor (mode 0o777), and the calls that resolve links (readdir, readlink, realpath, access): <br>• inode numbers stay unique (`InoUnique`); <br>• the type bits of every mode that is read agree with the entry (`ModeMatchesType`), through symlink files, alias files and rename; the mutant in which `symlinkSync` copies its target's mode, as `linkSync` does, breaks it; <br>• only `unlinkSync`, which forces, takes a file from under an open handle (`OnlyUnlinkOrphans`, an action property). |
| `fs_unlink_alias` | violation | Only `link_sync` and `unlink_sync` touch `LFS_SYS_HARD_LINKS`, so an alias entry goes stale: a write through a descriptor, committed at its close, rewrites the link file in place, and `symlinkSync` then replaces it with an unrelated file. This run offers the calls that make, rewrite and replace a link file: open, close, write, writeFile, link, symlink and unlink (`AliasOps`). Through the stale entry, `unlinkSync(a)` removes an unrelated file as well (`UnlinkTakesOneFile`). |
| `fs_content` | pass (58,256 states) | Over writeFile, appendFile, truncate, copyFile, mkdir (plain and recursive, with modes 0o777 and 0o555), mkdtemp, the descriptor calls (read and write, positioned or not, lseek, ftruncate, with writes committed at the handle's next sync), and chown, lchown, fchown, utimes, lutimes and futimes, with a reboot anywhere among them, inode numbers stay unique (`InoUnique`). `lfs_reset` keeps `LFS_SYS_INO_POOL` with the disk, and the mutant that resets the pool breaks this. |
| `fs_rm` | violation | `RmRemovesTree` fails. `rm_sync` on a hardlink file calls `unlink_sync`, which removes the link's target, and the link path itself stays while rm returns Ok. Trace: `mkdir /a`; `link /a → /a/a`; `rename /a/a → /ab`; `rm -r /`. |
| `fs_reboot` | violation | `LfsObjectsClosedOnce` fails. Trace: `openSync("/")`, then `wasabio_reboot`. The directory handle's lfs object is closed and freed twice, a double free on any reboot with a descriptor open. |
| `bus_dispose` | violation | `NoStaleMessages` fails: spec.md says "On `free`, pending messages are discarded", but `sab_bus_free` only clears `held`, and `sab_bus_send` still pushes to a freed slot. Trace: a worker takes bus 0 and frees it, a send to the freed id is queued, and the next `sab_bus_new` hands out slot 0 with that message in it. |
| `kv_lost` | violation | `StoreIsReplay` fails with two workers: `sab_kv_set` inserts into the static `HashMap` with no lock. Trace: `wa` sets `k1` while `wb` sets `k2`; both read the empty map, and `wb`'s write-back undoes `k1`. A set that returned (and whose event was emitted) is lost. |
| `crt_shims` | pass (236 states) | With one worker, every block C owns is in `ALLOCATED` between calls (`OwnedRegistered`). Every string shim agrees with the C library on every pair of 3-byte buffers over the bytes 0..2 (`StringShimsMatchC`), apart from the three departures below. |
| `crt_lost` | violation | Two workers' `malloc`s both read `ALLOCATED` before either pushes, and one pointer is lost. A later `free` of that block panics with "C tried to free memory belonging to Rust!". |

The project keeps one run per question, at most twelve. Other disagreements met while modelling are listed in `PROJECT.json` `hazards`, with a note where no run checks them:
- `copyFileSync` with mode 0 refuses to overwrite an existing destination. `mode | COPYFILE_EXCL != 0` parses as `(mode | 1) != 0`, which is always true. spec.md leaves this as an open question (line 291). A unit test would catch it, so its violation run gave up its place to `fs_reboot`;
- `sab_lock_new` and `sab_bus_new` hand one slot to two owners;
- `symlinkSync` raises nlink;
- `unlinkSync` forces the removal of open files;
- closed descriptors are never reused;
- the events of two workers' `sab_kv_set`/`sab_kv_del` reach a subscriber out of mutation order, and two workers' listener-list calls race on the emitter's `Vec`s (modelled, with no run of their own);
- `Bus::dispose` need not return while another worker keeps sending;
- a write through a descriptor reaches the disk only at the handle's next sync, so a close can overwrite a `writeFileSync` made in between;
- the string shims depart from C in three places: `strcspn` with an empty reject set returns 0, `strchr(s, 0)` returns null, and `strcmp` of equal strings reads past them;
- `ALLOCATED` never shrinks, so a double free passes its check;
- `readlinkSync` returns the content of the file its chain ends at, not the link text, and traps on a dangling symlink; `readdirSync` traps on a hard-link alias of a directory; `utimesSync` and `futimesSync` trap on a missing path where Node throws ENOENT;
- `fchmodSync` changes whatever entry now has the handle's path, and `chmodSync` on a hard-link alias leaves the target's mode as it was, though the code's comment says aliases keep their attributes in sync;
- a recursive `mkdirSync` with a mode without write bits makes the first directory and then fails EACCES below it, and files can still be created in a directory `mkdir` refuses;
- `appendFileSync` panics on every non-empty file, against spec.md's own example (`writeFile("/f","hello"); appendFile("/f"," world")`);
- `mkdtempSync` returns the same directory for two years, because `rand_string` takes the high bits of the time, where spec.md 4.7.6 says the low bits;
- `lseekSync` returns -1 after a successful seek to a non-zero offset, and a positioned transfer that fails skips the seek back;
- `DirHandle::read` can end an iteration early when entries are removed during it;
- a lock id held across `wasabio_reboot` names whatever slot `sab_lock_new` pushes next, such as the re-created disk lock.

Every property of a passing run has a mutant in `PROJECT.json`: a plausible bug in the mapped code that the run catches.

## Bounds, and why they are enough

**Lock runs** use two workers and two slots, with no bound on acquisitions: nothing in the lock state counts them, so the state space stays finite. Two workers are enough to make both races and the recycling of a freed slot happen. `lock_live` adds one reboot, which is enough for an id to outlive its slot and for a new slot to take that id.

**Init run** uses three workers. That is one more than needed for the Once wait, so that one worker can take the fast path while another still waits.

**File-system runs** use the namespace `{/, /a, /ab, /a/a}` and the settings in `fs_handles.cfg`:

| Constant | Value | Why |
|---|---|---|
| Namespace | `{/, /a, /ab, /a/a}` | `/a` is a text prefix of `/ab`, `/a/a` lets a directory be non-empty, and link text stays inside the namespace. |
| Data | `"/a"` | Writing it makes a file read as a link to `/a`. |
| `MaxLen` | 4 | Longest file content. |
| `MaxFds` | 1 | Descriptors handed out over a behaviour. |
| `MaxIno` | 2 | Inode numbers handed out over a behaviour. |
| `MaxAliases` | 1 | Length of an alias list. |
| `MaxNlink` | 2 | Largest link count. |
| `MaxReboots` | 1 | Reboots over a behaviour. The `fs_content` and `fs_reboot` runs offer reboot; one is enough to put handles and inodes on both sides of it. |
| `Modes` | `{0o777}`, and `{0o777, 0o555}` in `fs_content` | Modes passed to `mkdirSync` and the chmod calls. `fs_handles` changes a file's mode with the default directory mode. `fs_content` adds a mode without write bits, so that `mkdir_sync`'s EACCES branch is taken. |

`fs_content` has its own namespace `{/, /a, /a/a, /6JAAAA}` and `MaxLen` = 3: one write of the two-byte data, an extension by truncate, and transfers that overlap the end. The last entry is the name `mkdtempSync("/")` makes with `NowEpoch` = 26 (August 2026 to September 2028). `Positions` is `{-1, 0}` (cursor and absolute), `ReadLens` is `{1, MaxLen}`, `Offsets` is `{-1, 1}`, and `Whences` adds the invalid 3 to the three valid ones. A positioned transfer then happens with the cursor elsewhere, and a seek can fall before the start.

`NameOrder` lists the names `a` then `ab`, which is the sorted order littlefs uses. `TruncLens` is `{0, MaxLen}` (shrink and grow), and `CopyModes` is `{0, COPYFILE_EXCL}`.

**Emitter, bus and KV runs**
- `kv_lost` uses two workers, two kv calls and two emitter calls, two keys, two values and two subscribing buses. That is enough for one set's write-back to fall between another's read and write-back.
- The race runs use two workers and two or three calls. That is enough for one read-modify-write to fall between another's read and write.
- Buses: two slots, so that a freed slot is recycled, and one reboot.

**C shim runs** use two addresses, `MaxAllocs` = 3 and four calls per worker. That is enough to reuse an address and to move a block with `realloc`. The string check covers every terminated buffer of length 3 over the bytes {0, 1, 2}, and for `strchr` also c = 257, which wraps to 1 as u8. So it covers empty strings, strings that fill the buffer, repeated bytes and every overlap of the accept/reject sets.

Each call whose effect would pass a bound is not enabled, which is why the bounds are named constants.

Two branches of the `Trap` at the start of a call never fire in this namespace:
- The stat before the call only traps on a link cycle.
- The deferred stat of the call that made the cycle has already trapped.

All the other actions and branches fire.

## Fairness

**Workers: weak fairness each.** The host schedules every worker, so a worker with a step to take eventually takes it. A spin that sees the word at 1 changes nothing, so weak fairness does not force a spinning worker in while others keep taking the lock; that is why `lock_live` checks deadlock freedom and not that each worker gets in. Releases are assumed: a holder that never releases blocks everyone, and the loop has no timeout because deadlock detection is compiled out.

**`SabBus`, `SabEmitter`, `SabKv`, `SabKvBus` and `SabCrt`: no fairness needed.** `SabBus`'s specification keeps weak fairness per worker, but its checked property is a safety property. Their properties are safety properties.

**`SabFs`: no fairness.** It models a single caller that may stop at any time. Its properties are safety properties.

## Not modelled yet

**Two workers interleaving facade calls.** The disk lock only covers single littlefs calls, so the handle table, the alias map and the read-modify-write of attribute records are all unprotected.

**Facade calls not yet modelled:**
- `freaddirSync` and the position of a `DirHandle` (`DirHandle::read` and its `told` guard): the position is littlefs's `lfs_dir_tell`, whose adjustment on removal is C code outside the repository;
- the stat calls (`statSync`, `lstatSync`, `fstatSync`) and `statfsSync`, which only read (and touch atime);
- the results of `accessSync`, `realpathSync`, `readlinkSync` and `readdirSync`, which no property reads.

**`wasabio_reboot` in one step.** Each of its four parts is modelled in the module that owns its state, between calls. No module runs them together, because no property spans the lock, bus and fs state.

**The TLS allocator** (`__wbindgen_tls_malloc` in `lib.rs`). It reads the worker id from a counter byte that the host's thread glue writes, outside the repository, so a model would have to invent that writer.

**Block sizes** in `crt.rs`. `free` deallocates with a one-byte layout whatever the block's size (undefined behaviour for the allocator); the mismatch is not observable in the model.

**Left out for good:**
- timestamps, uid/gid, and event payload formatting, which no property tells apart;
- `build.rs`, which has no runtime state.

## Plan

1. Model two workers running facade calls, with the disk lock per littlefs call, to check lost updates of nlink and of the maps.
2. Add an abstract file-system specification and show `SabFs` refines it where it should.
3. Add a property that a link keeps reading as its target across truncate, and one on the trap reachable through link cycles.
4. Model `DirHandle` iteration, to check `readdirSync` against removals during it.
5. Keep a mode per inode rather than per path, to state that hard-link aliases share their target's mode, as the comment in `link_sync` says.
