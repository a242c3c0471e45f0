# Specifications of go-sqlite3-wasm

This directory models two kinds of code of the repository: the glue between
SQLite, translated to Go through WebAssembly, and Go programs that hand functions,
collations, virtual tables, file systems and pointers to it; and the parts of the
translated SQLite (`sqlite3.go`) that keep data right while connections interleave,
crash, wait and retry, in the configuration this repository builds.

Contents: [the system](#the-system), [modules](#modules),
[runs](#runs-and-bounds), [fairness](#fairness), [proofs](#proofs),
[findings](#findings), [limits](#what-is-not-modelled), [plan](#plan).

## The system

`sqlite3.go` is generated: SQLite and `build/*.c` are compiled to WebAssembly and
translated to Go by wasm2go. A `Module` has its own linear memory. Go functions
it imports (`go_*`) are the callbacks; a Go value crosses into C as a *handle*, a
32-bit number that Go allocates and C gives back with `go_destroy`. One goroutine
uses a connection at a time, but calls nest: a callback runs inside
`sqlite3_step` or `sqlite3_prepare`, and may itself call SQLite. So in the glue the
hard part is the order of legal calls and the lifetime of what they hand over.

SQLite is built with `SQLITE_THREADSAFE=0` and without a shared cache
(`build/sqlite_cfg.h`, `build/sqlite_opt.h`): connections in other modules or
processes share the files, their locks and, in WAL mode, the memory behind `xShmMap`,
which Go supplies. There the hard part is what another does between two steps, and
what is on disk when the power goes.

| component | source | state it keeps | operations | module |
|---|---|---|---|---|
| functions, collations, autovacuum callbacks | `build/func.c`, `build/hooks.c` | entries of the connection's hash tables, each with a handle | create, replace, delete; call; synthesise a UTF-16 collation | `AppDefined` |
| pointers, results, auxiliary data | `build/pointer.c`, `build/func.c` | handles in parameters, registers and lists of a statement | bind, clear, result, set_auxdata; destroyed by reset, halt, finalize, return | `AppDefined` |
| connection life cycle | `sqlite3.go` | open, zombie or closed; statements and backups that keep it | open, close, close_v2, finalize, backup_finish | `AppDefined`, `VirtualTables` |
| virtual tables | `build/vtab.c` | modules, VTables and instances with reference counts; the transaction list; postponed disconnects | create/drop module, create/connect/drop table, cursors, commit, rollback, close | `VirtualTables` |
| VFS wrappers | `build/vfs.c` | list of C wrappers of Go VFSes | find (search, sweep, create); open and close of files | `VfsRegistry` |
| aggregates and window functions | `build/func.c`, `sqlite3.go` | a handle in the aggregate context; a table with three cursors and counters | step, inverse, value, final; the generated program | `WindowFrames` |
| clear_bindings patch | `build/clearbinds.patch`, `sqlite3.go` | two masks of parameters | bind, clear, step, prepare again | `Reprepare` |
| busy handler | `build/hooks.c`, `busy_timeout.patch`, `sqlite3.go` | locks, the retry count | begin, commit, wait, give up, roll back | `BusyHandler` |
| time collation | `build/time.c` | none | compare two keys | `TimeCollation` |
| bisection | `build/bisect.sh` | git's session, files in `$OUT` and `build/` | driver; one step for each commit | `Bisect` |
| write-ahead log | `sqlite3.go` | log, index, two headers, read marks, `nBackfill`, locks | read, write, savepoint, spill, commit, checkpoint, restart, recover | `Wal` |
| rollback journal | `sqlite3.go` | files, journals, super-journals, locks, caches | hot-journal check, playback, journaling, spill, commit, rollback | `RollbackJournal` |
| online backup | `sqlite3.go` | next page and result of each backup, the destination | step, update, restart | `Backup` |
| FTS5, R-Tree, parser, spellfix, vec1 | their directories | third-party, with bindings in `*/build/main.c` | | not modelled |
| the rest of SQLite, allocators, libc, build scripts | `sqlite3.go`, `libc.go`, `build/` | | | not modelled |

What makes them correct, and what is hard about it:

* **Handles.** C gives back every handle it was given, once; never one that is
  still used. Hard: every registration has several ways to fail, and who destroys
  the handle differs (`create_collation` leaves it to the glue, `create_function`
  does it itself, both on most paths and not on all); what is registered is
  replaced while statements use it; a closed connection lives on as a zombie; an
  aggregate ends half stepped.
* **Programs.** A compiled program holds pointers to function and collation
  entries, and a plan that may depend on bound values. One that may still run must
  find what it was compiled against, or be compiled again.
* **Virtual tables.** Two layers of reference counts, counted from five places;
  disconnects that are postponed; a transaction that outlives its tables.
* **VFS wrappers.** A list that is swept while Go's registry changes between the
  answers Go gives.
* **Window frames.** Three cursors walk over one table at distances that depend on
  the frame, deleting behind them.
* **Log and journal.** A reader sees one snapshot; a transaction is there in whole,
  in all its files, or not at all; a cache kept from one transaction to the next is
  current. Hard: every header, mark and journal is read at one moment and used at a
  later one, and the disk keeps writes in any order between two syncs.
* **Backups.** What is copied is one committed state, though it took many steps.
* **Locks.** Nobody waits for one who waits for him; waiting ends.
* **Time collation.** An index is only as good as the order of its keys; this one
  lets a key drop a suffix depending on the *other* key.
* **Bisection.** A shell script's exit statuses decide what is a bug.

`PROJECT.json` lists the hazards one by one, at the line where each bites, with
the properties that would catch it.

## Modules

    HandleOwnership   <-- implemented by -- AppDefined      <-- AppDefinedProofs
    SnapshotIsolation <-- implemented by -- Wal             <-- WalProofs
    AtomicCommit      <-- implemented by -- RollbackJournal <-- RollbackJournalLemmas
                                                            <-- RollbackJournalProofs
    Backup        <-- BackupProofs
    VirtualTables <-- VirtualTablesProofs
    Reprepare, BusyHandler, WindowFrames <-- StatementsProofs  (MCStatements runs the first two)
    TimeCollation, Bisect, VfsRegistry   <-- BuildProofs       (what build/ adds around SQLite)

Each `MCx.tla` with `MCx.cfg` instantiates `x` for TLC. Operators marked *mutant*
in a comment are plausible bugs; no action uses them. They show that a property can
fail. Where one instance could not have everything at once, the bounds are a
record, `setting`, chosen from the constant `Settings` in the initial state and kept:
one run then goes through several instances.

### AppDefined, HandleOwnership

`HandleOwnership` is what the Go program is promised: a handle has one owner, Go
or one place in C (or it is *lost*, see below); it is handed over by one call, does
not move, and is given back once.

`AppDefined` is one connection. `held` maps every place of C that can keep a
handle (a *slot*) to what it keeps:

| slot | place in C | filled by | emptied by |
|---|---|---|---|
| `<<"func", name, nArg>>` | `FuncDef` in `db->aFunc` | `CreateFunction` | replace, `DeleteFunction`, end of the connection |
| `<<"coll", name>>` | UTF-8 `CollSeq` | `CreateCollation`, or the collation-needed callback in `Compile` | replace, `DeleteCollation`, end |
| `<<"autovacuum">>` | `db->pAutovacPagesArg` | `AutovacuumPages` | replace, `AutovacuumOff`, end |
| `<<"var", s, i>>` | `aVar[i]` of a statement | `BindPointer` | rebind, `ClearBindings`, `Finalize` |
| `<<"aux", s, a>>` | `pAuxData` | `SetAuxdata` | replace, `Return`, `VdbeHalt`, `Reset`, `Finalize` |
| `<<"result", s>>` | result register | `ResultPointer` | `ResultOther`, halt, reset, finalize |

`hs` is Go's handle table; `go_destroy` of a handle that is not live makes it
`"broken"`, for good. `copy` is the synthesised entry of a collation for UTF-16
(`synthCollSeq`), which has the handle but not the destructor. `prog` holds the
entries a statement's program points to; `expired` says it must be compiled again
before it runs. `st` distinguishes a statement that runs (`"run"`: between two
rows, or in a callback that is not a function) from one that is in a function
(`"call"`). Every action is enabled in those states unless the code refuses it:
this is how calls nest.

Deliberately not deterministic: whether an allocation fails (any `Refuse`),
whether a program depends on a bound value (`BindPointer` and `ClearBindings` may
expire it), whether a halted program found the schema changed.

Assumed of the caller, as SQLite's documentation demands of it: a function does not
step, reset or finalise the statement that called it; the collation-needed
callback registers the collation it was asked for or nothing.

A handle passed to `create_function` on a zombie connection is neither kept nor
destroyed: the safety check precedes the code that takes charge of it. The model
counts such handles in `lost` and `HandleOwnership` has an owner of that name, so
that what is promised is exactly what the code keeps.

### VirtualTables

One connection, one module name. `modRefs` and `refs` are `nRefModule` and `nRef`
in the code; `of` and `inst` are the `pMod` and `pVtab` of a VTable. The places that
count are `registered` (the hash table of modules), `attached` (`Table.u.vtab.p`),
`prog` (the `P4_VTAB` operands of a program), `trans` (`db->aVTrans`) and `pending`
(`db->pDisconnect`). `Settle` is what unlocking does, whichever list is unlocked:
free what has no reference left, and give up the module.

`DropTable` has the outcome in which `xDestroy` fails: the wrapper frees the
instance all the same (`build/vtab.c:117-122`), the engine keeps the table. The
next use of the instance would read freed memory, so the model goes no further
(`Undefined`), rather than pretend to know what happens.

`Prepare` needs `pending` to be empty: `sqlite3Prepare` unlocks that list first,
which is the action `UnlockList`; a text that does not compile is `UnlockList`
alone. Constructors are atomic: modules are not replaced from inside one.

### VfsRegistry

`sqlite3_vfs_find` is the only operation in the project that is split into steps:
each call of `go_vfs_find` may see a different registry, because Go's is global and
its goroutines are not synchronised with the sweep. `list` is `go_vfs_list`,
`memory` the heap the wrappers are in; addresses are reused. `finding` is the
call in progress (its file, its name and how far the sweep is). Files record the
wrapper their pager keeps (`pVfs`).

### TimeCollation

`time_collation` is translated as an operator on byte sequences. The state holds
three keys that grow byte by byte, so that TLC's states are the triples of keys, and
the properties of an order become invariants.

### Bisect

The stages of a step in the order of the script, each with the obstacle that can
stop it and the exit status that results: `errexit` is off in a subshell whose
status is tested, and `( ... ) && exit 0 || exit 1` replaces 125 by 1. `out`,
`sources`, `patched` and `translated` are files that outlive a step or a `Kill`.
The history (`firstBad`, `obstacle`) is chosen at the start. `git bisect` itself is
external: it picks any commit still in question, as its choice does not matter here.

### Wal, SnapshotIsolation

`SnapshotIsolation` is what connections are promised: a transaction that begins
reads the last commit, one that commits has read the last commit, and nothing but a
loss of power takes a commit back.

`Wal` has one action for each stretch of code between two moments at which another
connection can interfere: taking a lock, reading or writing the shared header,
writing a frame, a sync. `pc` says where a connection is.

* *Files.* `db` maps pages to the transaction that last wrote them, `wal` has a salt
  and frames, `ddb` and `dwal` are what is known to be on disk. A checksum is the
  sequence of everything it sums, salt included, so that `Valid` fails where the
  code's would (a collision is taken to be impossible). A salt is fresh for every log.
* *Shared memory.* `idx` (one page of the index), the two copies of the header `shm`,
  `nBackfill` and `marks`. The header's copies are written and read one after the
  other; a single copy is atomic (`walIndexTryHdr`'s checksum stands for that).
* *A connection.* `hdr`, `minFrame`, `readLock`, its transaction, and what its
  cache holds (`cached`), which `ForgetHeader` and `Begin` must keep current.
* *Savepoints and spills.* A page that leaves the cache is written to the log without
  a commit; `Subjournaled` decides whether a page that is changed again must be
  saved; `UndoTo` cuts the frames off; a frame written over needs every later checksum
  again (`recksum`, `Rechecksum`).
* *Checkpoints.* passive, full, restart and truncate, split at `CkptMark` (marks of
  readers that can be moved), `CkptPlan`, `CkptLock`, the syncs, `CkptCopy` page by
  page, `CkptFill`, `CkptReset`.
* *Faults.* A connection may go at any step (its locks with it); after the last has
  gone the shared memory is lost and `Recover` reads the log. A loss of power keeps
  what was synced and any subset of what was not: any pages, any frames.

Abstracted: the size of the database; the loop of retries in `walTryBeginRead` (a
retry is a step that goes back; the limit of 100 and its pauses are left out). A
commit whose sync failed and was rolled back may still turn up after a recovery:
`Complete` of the abstract module allows it.

### RollbackJournal, AtomicCommit

`AtomicCommit`: a transaction changes all its files in one step, nobody reads a file
whose contents change, and what a loss of power may take back is one transaction
of one file, not yet settled.

`RollbackJournal` has one action per VFS operation that matters to another
connection or to the disk. A journal is a sequence of cells (headers with nonce,
count and original size; records with the nonce of their header; the name of a
super-journal), `None` when the file does not exist. `Records` reads it as
`pager_playback` does, segment by segment, so that leftovers of an older journal are
read exactly where the code would. `ddb`, `djnl`, `dsupers` and `fresh` are what the
disk has; a loss of power puts any combination of synced and unsynced cells there.

`Open`, `HotExists`, `HotReserved`, `HotEmpty`, `HotByte`, `HotLock`, `HotOpen` and
`Check` are the stages of `sqlite3PagerSharedLock`;
`PlayTruncate`, `PlayPage`, `PlaySync`, `Fin`, `FinSync`, `Unlock`, `DelSuper` a
playback, hot or the transaction's own; `Reserve`, `Write`, `Spill` a transaction;
`Commit` to `DeleteSuper` its commit in one file or several. The change counter on page 1
is part of that page, as the caches of others are compared by it. The locks of the VFS
are external code: a lock that is not to be had leaves what the code leaves (PENDING
after a failed EXCLUSIVE).

Abstracted: creation and sync of a super-journal are one step; the check of the
children in `pager_delsuper` is atomic. Files only grow. Each connection is its own process.

### Backup

The source is `file` as last committed, `snap` as its connection last saw it, `mine`
what its transaction has changed, `out` what of that has left the cache. `kind` says
whether a spilled page goes to the file with a journal to undo it, to the log or
nowhere (in memory). A backup is `next` and `rc`, whether the pager knows it
(`attached`), its destination transaction `temp` and, once done, `dest`.
`Commit` is one action with the pages that were not spilled copied again
(`sqlite3BackupUpdate`), as is the playback; `Fresh` restarts the backups when the
connection sees that another has committed. The change of page 1 that a commit
itself makes is left out, as are different page sizes.

### Reprepare

`exp` and `sm` are the two masks (`expmask` and the `smimask` of the patch), `dep` says
what the plan really depends on: nothing, whether the value is 0 or 1, or the value.
The schema decides `dep` at each preparation. Bits are shared from `LastBit` on (32 in
the code). `Bind` is refused while the statement runs; `ClearBindings` is not. A
statement prepared again keeps the bits of its old masks, as the code does. `plans` is a
history variable, which only `PlanFits` reads: what the plans so far depended on.

### WindowFrames

The module has both sides. `MainCode` and `FlushCode` are what `sqlite3WindowCodeStep`
*generates* for a frame: sequences of operations (step, inverse, return) with their
counters, jumps and tests. The actions *run* them: `FirstRow`, `LaterRow` and
`EndPartition` for what surrounds the blocks, `Pass` for one operation of
`windowCodeOp`, `HoldBack` when its counter is still positive or the peers end,
`Overtakes` and `Jump` for the tests of `RANGE`. The aggregate is the one of
`build/func.c`: `agg` is the register with its context (allocated or not, id of the
handle or 0), `go` are Go's live aggregates and what the last was given. Memory may
run out at any allocation of a context, and an interrupt come at any row.
`FrameOf` is the reference: the definition of a frame in SQL's terms.

### BusyHandler

Connections with lists of things to do: transactions to begin, then perhaps a commit.
`Take` gets the next lock, `Wait` asks the handler, `GiveUp` returns `SQLITE_BUSY`. What
a connection keeps while it waits (`LeftWith`) and whether it asks at all
(`MayWait`, the test of `btreeInvokeBusyHandler`'s callers) is what waiting in
circles depends on. The handler is either `go_busy_timeout`, which counts retries, or
patient: one that never gives up.

## Runs and bounds

| run | module | instance | states | shows |
|---|---|---|---|---|
| `app_defined` | `MCAppDefined` | 3 handles (symmetric), a function with two arities, a collation, 2 statements, 1 parameter, 2 arguments of which 1 constant | 40,775 | handles, programs, copies, zombies; `AppDefined` implements `HandleOwnership` |
| `virtual_tables` | `MCVirtualTables` | 2 modules, 3 VTables, 2 tables and the eponymous one, 2 statements (all symmetric) | 110,056 | exact counts and their consequences |
| `vfs_registry` | `MCVfsRegistry` | 3 names, 3 addresses, 2 files | 95,204 | list, wrappers, termination |
| `vfs_needed` | `MCVfsRegistry` | the same | | a wrapper in use is freed |
| `time_collation` | `MCTimeCollation` | 3 bytes (below, at and above `Z`), 3 keys of up to 3 bytes | 64,000 | total order, identity, placement |
| `bisect` | `MCBisect` | 4 commits, every history, 1 kill | 1,114,946 | right commit tested, culprit bracketed, session ends |
| `bisect_compile` | `MCBisect` | 4 commits, no kill | | a commit that does not compile is judged bad |
| `wal` | `MCWal` | 2 pages, 9 settings, below | 1,661,664 | snapshots, caches, durability; `Wal` implements `SnapshotIsolation` |
| `rollback_journal` | `MCRollbackJournal` | up to 2 pages, 10 settings, below | 891,902 | caches, durability; `RollbackJournal` implements `AtomicCommit` |
| `backup` | `MCBackup` | 3 kinds of source; 1 backup of 3 pages and 3 changes, or 2 of 2 and 2; 1 error | 299,775 | current copies, one committed state, completion |
| `window_frames` | `MCWindowFrames` | 4 settings, below | 701,430 | rows returned with exactly their frames, no leak, termination |
| `statements` | `MCStatements` | masks: 3 parameters on 2 bits, 4 values; locks: 3 connections to a file, or 2 to two files | 186,228 | plans fit; no circle of waiting; steps end |

Why these are enough to see the interesting cases:

* A handle that is replaced by another while a third is refused needs three
  handles, which is also what one statement can hold at once with a registration
  (parameter, auxiliary data, result). Two arities of one name give the overload
  that is found today and shadowed tomorrow (`FindFunction`). The two statements
  differ in what they refer to: the first calls the function, the second compares
  with the collation; either can run while the other is prepared, expired or
  finalised. All that is not counted by a constant (hash tables, lists) is finite
  by itself.
* In `VirtualTables`, a module and its replacement, a VTable for each of two
  connected tables and one left from a table that was dropped, reset or replaced,
  still held by one of two programs or the transaction.
* In `VfsRegistry` three names let the sweep meet a wrapper to keep and one to
  free, in either order; no address is to spare, so that what is freed is reused.
* Three keys are what transitivity takes. Length 3 has each of a key's lengths
  below, at and above another's, with one and two Zs at the end. (The theorem
  removes this bound.)
* Four commits leave two between the tags: one is skipped or misjudged, the
  other decides. One kill is enough to leave files of an earlier run behind.
* `Wal`: two pages are what it takes to see half of a transaction; two transactions
  with a restart of the log between them, to see frames of two logs. The settings:
  `Readers2` (two marks, a reader on an older snapshot than another's checkpoint),
  `Overtaken` (a checkpoint with a header that another checkpoint and a restart have
  made old; without the test of the salts it copies a frame of the next log),
  `Writers2` (both write, upgrade from a stale snapshot is refused),
  `Crashes` and `RestartAndCrashes` (a fault anywhere with `synchronous` NORMAL, in
  transactions of two frames, and while the log starts again), `Durable` (the same with FULL),
  `Spills` and `SpillsAndRestart` (savepoints and spilled pages, the log restarted in
  between) and `SpillsAndCrashes` (frames written over, and their checksums, seen by
  a recovery).
  More of everything at once is out of reach; each setting leaves out what the
  others have.
* `RollbackJournal`: with two pages a transaction may be on disk by half; one fault
  among two transactions; the two-file settings have one transaction with a fault
  at every point (and one after it, which finds what it left). Each mode is tried
  with the `synchronous` level at which it promises what is checked:
  `Deleted` DELETE with FULL, from an empty file and a full one; `Persistent`
  with EXTRA and spills, `PersistentSeen` with another connection; `Unordered` PERSIST with NORMAL, without spills;
  `CutOffUnordered` TRUNCATE with NORMAL; `TwoFiles` DELETE with EXTRA, TRUNCATE
  with NORMAL, PERSIST with EXTRA. PERSIST with NORMAL *and* spills is not tried, as it
  does not hold: the header of an older journal after the end of this one is spoilt
  without a sync before the count of records (`syncJournal`), and a loss of power
  between the two leaves the count with the old header. SQLite documents that NORMAL
  has such a chance.
* `Backup`: three pages have one behind, one at and one ahead of `next`; three
  changes write, spill and write again; the two backups show that one does not
  disturb the other.
* `WindowFrames`: all frames of `ROWS` and `GROUPS` with offsets up to 3 over all lists of
  up to 5 rows, so that each bound is beyond the partition, and `RANGE` with all
  orders and offsets up to 2 over up to 4 rows with three keys and NULL; `EXCLUDE` with offsets
  up to 1; the last setting has partitions that follow each other, and faults.
* `statements`: the three parameters have one bit alone and one that is shared, which
  is what parameters from the 32nd on do; the values are NULL, text, an integer that is small and
  one that is not. Three connections are the fewest in which one can starve
  another; two files in two orders, the fewest for a circle. `Reprepare` and
  `BusyHandler` share no variable: in each behaviour of this run one of the two
  runs and the other stands still. They are the two reasons for a step to start over.

Deadlock is checked in `app_defined`, `virtual_tables`, `vfs_registry`,
`vfs_needed`, `wal`, `rollback_journal` and `statements`. `time_collation`, the two
bisections, `backup` and `window_frames` do end (the longest keys; a session, a backup or a program
that is done).

The properties, by the hazard they are about:

* `AppDefined`: `OneOwner` (never destroyed twice, never in two slots, never live
  without an owner), `LinkedCallbacksLive` (a program that may run finds live
  callbacks), `RunningKeepsCallbacks` (what a running program calls is not
  replaced), `CopyFollowsOriginal`, `ScratchEndsWithRun`, `ZombieInUse`,
  `ClosedHoldsNothing`, `TypeOK`, `ImplementsOwnership` (refinement).
* `VirtualTables`: `RefsExact`, and what it is for: `CursorsHaveInstance`,
  `ModuleOutlivesInstances`, `TransactionEndsFirst`.
* `VfsRegistry`: `ListMatchesMemory`, `UsersKeepWrapper`, `FindReturns`.
* `TimeCollation`: `TotalOrder`, `OnlyIdenticalKeysAreEqual`, `ZSuffixPlacement`.
* `Bisect`: `TestsJudgeThisCommit`, `CulpritBracketed`, `SessionEnds`.
* `Wal`: `SnapshotKept` (a reader sees in every page what its snapshot holds),
  `CacheCurrent`, `SpilledReadBack` (a writer reads back what it wrote, or what its
  savepoint restored), `NothingLost`, `Isolated` (refinement).
* `RollbackJournal`: `CacheCurrent`, `NothingLost`, `Atomic` (refinement).
* `Backup`: `CopiedIsCurrent`, `DestIsSnapshot` (action property), `Completes`.
* `WindowFrames`: `ReturnsFrame` (action property), `HandlesOwned`, `StepCalled`,
  `Terminates`.
* `Reprepare`: `PlanFits` (action property).
* `BusyHandler`: `NoWaitCycle` (no group of connections waits in handlers for locks of
  one file that only they hold), `StepsEnd`.

The `TypeOK` of other modules holds on the same instances; they are what the
proofs start from.

## Fairness

The other specifications are about safety only.

* `Bisect`: `WF_vars(Run)`. The shell executes the next statement and git the next
  step until they end. Nobody need start or kill a run.
* `VfsRegistry`: `WF_registryVars(Find)`. A call of `sqlite3_vfs_find` that has begun is
  straight-line code and runs on. Nothing is assumed of Go's registry, which
  may change between any two turns of the loop; each turn shortens what is left.
* `Backup`: strong fairness of each backup's steps: its application calls
  `sqlite3_backup_step` again and again, and the step is refused now and then while the
  source is being written; weak fairness of the end of the source's transaction. The writes
  are bounded, which stands for "once the writes stop"; nothing is assumed
  about who goes first.
* `WindowFrames`: `WF_windowVars(WindowNext)`: a program runs on.
* `BusyHandler`: weak fairness of each connection's step (the loop in `btree.c` runs
  on), strong fairness of `Rollback`: an application ends what it has begun. Nobody need
  begin anything. `StepsEnd` demands an end of a step only if the handler has one; with a
  patient handler, of commits alone, whose PENDING lock keeps new readers out.

## Proofs

`tlapm` checks every proof in the eight modules below; there is no unproved step. In each,
`TLC` has checked the inductive invariant on the instances of the run before it was proved.

**AppDefinedProofs**, for any sets of handles, names, arities, collations,
statements and parameters, with the five assumptions named in `AppDefined` (`None`
is not a handle or collation, arities are integers, constant arguments are
arguments, `Sql` has its type):

* `HandlesOwnedOnce`: `Spec => []OneOwner`. `OneOwner` with the types of the
  variables it is about (`OwnInv`) is inductive. Every step does one of five things
  with handles (`HandleStep`, `NextHandles`): nothing, release the slots of a set,
  store a free handle in a slot whose content it destroys, refuse one, or lose one.
  One lemma for each (`ReleaseOwn`, `StoreOwn`, ...) shows that it preserves `OwnInv`.
* `OwnershipKept`: `Spec => ImplementsOwnership`. Under `OwnInv` each handle's owner
  is determined (`OwnersAreKnown`), and a `HandleStep` is a step of the abstract
  protocol, or a stutter (`OwnershipStep`).
* `TypeCorrect`: `Spec => []TypeOK`.
* `CallbacksLive`: `Spec => []LinkedCallbacksLive`, `CopiesFollow`:
  `Spec => []CopyFollowsOriginal`. `LinkedCallbacksLive` is not inductive: it does not
  say that the live handle in a synthesised entry is the one its original holds, so
  giving that handle back elsewhere could spoil it. `LinkInv` says that a
  statement which may run points only to entries that hold a handle, the one it
  calls (`LinkedHeld`); that a copy equals its original; and that a closed connection
  is not busy (`ClosedIdle`, without which opening in another encoding would
  change what a statement calls). `AppInv == TypeOK /\ OwnInv /\ LinkInv` is inductive.
  Calls that replace an entry either expire every statement, or find none running.
* `RunKeepsCallbacks`: `Spec => RunningKeepsCallbacks`. By `LinkedHeld` before and after
  the step, what a running program calls is what its entries hold, and no step stores
  into or releases those while a statement runs (`RunningKeeps`).
* `ScratchIsReleased`, `ZombiesAreFreed` and `ClosingReleases`: `ScratchEndsWithRun`,
  `ZombieInUse` and `ClosedHoldsNothing`. The invariant adds that a finalized statement
  has no bindings (`HoldsWhatItMay`) and that the connection's own slots are empty once it
  is closed (`ConnInv`); together they are all the slots.

**BuildProofs**, of `TimeCollation`, for any alphabet of natural numbers that has `Z` and keys
of any length:

* `CollationIsTotalOrder`: zero only for identical keys, antisymmetric, transitive.
* `KeysIdentified` and `KeysOrdered` for the state machine; `ZPlaced`: `ZSuffixPlacement`,
  for keys that are compared with their Z or without, and for continuations as long as the
  suffix, where both may drop one, or longer.

The argument: although each comparison decides which key drops its Z, all of them
agree with *one* order, the lexicographic order in which a Z that ends a key
counts as a byte before all others (`Comparison`). Transitivity is then that of a
lexicographic order, by the least index at which two keys differ
(`MinIsLeast`, `LessTransitive`).

and of `Bisect`, for any number of commits, kills and whatever fails on each commit:

* `StepTestsItsCommit`: `BisectSpec => []TestsJudgeThisCommit`, and `CulpritKept`:
  `BisectSpec => []CulpritBracketed`. `BisectInv` says of each place in a step that the
  sources, the patch and the translation which it relies on are those of the commit
  checked out (`ThisCommit`): from the place where each is made on, and not
  before, as an earlier step or a killed run may have left anything. `Bracket` says, if
  all commits compile, on which side of the culprit the status of a step puts its commit.

and of `VfsRegistry`, for any names, addresses and files:

* `ListIsMemory`: `RegistrySpec => []ListMatchesMemory`; `WrapperKept`:
  `RegistrySpec => []UsersKeepWrapper`. The invariant adds that a call which sweeps the list
  will add a wrapper for a name that has none (`FindingIsNew`), and that the VFS a file was
  kept by is still registered (`KeptRegistered`): the registry may change between any two
  answers.

**VirtualTablesProofs**, for any modules, tables and statements (of which there are finitely
many), and any number of instances:

* `CountsExact`: `Spec => []RefsExact`. The proof is of `Inv`, which adds to the counts that
  an instance belongs to one place (one table or the postponed ones: `OneTable`), that one without references has neither
  module nor instance (`Linked`), and that only tables of the schema of an open connection
  have instances (`InSchema`), so that none is forgotten when the schema goes.
  Every step adds to or takes from the holders of one VTable and one module; the counts
  then follow by the cardinality of finite sets.
* `CursorsSafe`, `ModulesLast`, `TransactionHeard` follow from it: an instance with a
  cursor, or in a transaction, has a holder, and with `RefsExact` it is not let go.

**BackupProofs**, for any number of backups, pages, changes and errors, and any settings:

* `Typed`, `CopiedStaysCurrent` (`Spec => []CopiedIsCurrent`) and `CopiesOneState`
  (`Spec => DestIsSnapshot`). `CopiedIsCurrent` is not inductive: a commit copies only
  what has not left the cache, so `Known` says of every copied page that it equals
  what was spilled or, if nothing was, the snapshot; and `Transaction` says that what
  was appended has been changed. `Seen`: a connection that has missed no commit has
  the file's pages. A backup that another connection's commit made stale is restarted
  before its next step, which is where `Known` would otherwise break (`LockKeeps`).

**StatementsProofs**, of `Reprepare`, for any parameters, values, schemas and width of the masks:

* `MasksTyped` and `PlansFit` (`Spec => PlanFits`). The invariant says that the masks
  cover what the plan depends on, that a bit is of the small ones only where an earlier
  plan looked no closer (`Masks`), and that a plan which has not expired fits (`AllFit`).

and of `BusyHandler`, for any connections, files and transactions:

* `NobodyWaitsInACircle`: `BusySpec => []NoWaitCycle`. `LockInv` says that a file
  has one connection at most with RESERVED or more (`OneWriter`), that a transaction has
  its lock (`TransLocked`), and that who waits has nothing of the file, unless it
  waits to write alone (`WaitsRight`). Who waits for EXCLUSIVE has PENDING and waits for
  readers, who have a lock and so do not wait themselves; who waits for anything less waits for
  somebody with a lock: no group waits for itself alone.

and of `WindowFrames`, for every frame, input and NULL key:

* `NoAggregateLeaks`: `WindowSpec => []HandlesOwned`. `AggregatesGood` gives the shape of the register
  with Go's aggregates, and each operation on them preserves it (`GivenGood`,
  `FinalizedGood`, ...), whatever the program.
* `NothingTakenFirst`: `WindowSpec => []StepCalled`. `StepFirst` says of every place in the
  generated code that a row is returned only after the operation, earlier in the same
  code, that makes the context, and that an interrupt raised by a failed allocation is
  seen before the next row.

**WalProofs**, for any connections, pages, read marks and bounds:

* `CacheIsCurrent`: `Spec => []CacheCurrent`, through checkpoints, restarts of the log,
  recoveries, crashes and losses of power. `Inv` is: who holds WRITE is where the shared
  memory is written, and nobody else (`LockHeld`); whoever writes the header, or restarts
  the log, has read the header that is there (`HeaderShared`); and what the cache holds is of
  the header's transaction, except where a checkpoint has read another and remembers
  that it has changed (`CacheKept`).
* `LogIsolates`: the refinement `Isolated`, and `CommitsStay`: `NothingLost`, in behaviours
  that are `Calm`: the power does not fail, one connection stays, and none goes away
  that holds WRITE. Transactions, spills, savepoints, checkpoints in every mode, restarts
  of the log, and crashes of readers and of PASSIVE checkpoints are all in. What is not
  is what takes the header *from the log* a second time: it needs what is on disk. `Order`
  says that the two copies of the header differ only
  while one writer is between them (`Copies`), that the header shows the last commit
  (`LastShown`), that a transaction is younger than it (`Younger`), and that a checkpoint
  that keeps writers out has the header that there is (`HeaderKnown`). `Bounded` says that
  the numbers of transactions in `Settings` have a bound: without one there is no
  largest, and the `MaxTxn` of the abstract specification would mean nothing.
* `ReadersSeeSnapshot`: `SnapshotKept`, and `WritersReadBack`: `SpilledReadBack`, in the same
  behaviours. `Content` is the third part of the invariant, what the log, its index and the
  database file hold: the last commit can be read from them, and the frames behind `nBackfill`
  need not be (`Latest`); a mark is not moved past its reader, nor a page copied that
  a reader looks for in the database file (`MarksKept`, `MarksHeeded`); a header that somebody
  has read is that of the present log and not beyond its end, or of a log before, which
  the salts tell apart (`HeadersKept`); what each reader and writer sees is what it should
  (`ReaderSees`, `WriteKept`); frames that are not in the index yet, and those a savepoint
  takes back (`FramesKept`, `Undoable`); the log is restarted only when all of it is in the
  database file (`RestartKept`); a checkpoint copies the last frame of each page of its plan
  (`CkptKept`).

  Most steps change nothing that another connection looks at (`Hidden`): for them
  one lemma for each part (`HiddenLocks`, ..., `HiddenLatest`) says that the others
  keep what they have, and what is left is the connection itself (`OneContent`). The steps that
  are not hidden each have lemmas of their own: `Publish`, `CkptCopy`, `CkptFill`, the
  new header of a restart (`NewLog`), its end (`NewInfo`), the first recovery.
  `Finds` says what a search between two frames gives; lemmas about it (`FindsFrom`, `FindsAll`,
  `FindsCut`, `FindsApart`, `FindsLast`) do what in the code is an argument about hash tables.

From which assumptions: connections are finitely many, `None` is none of them, there is a
page and a mark, and a salt that is drawn is not in use (`FreshSalt`). In the code half of
a salt counts up and half of it is random, 64 bits in all.

**RollbackJournalLemmas** and **RollbackJournalProofs**, for any connections, files, pages,
transactions, spilled pages and crashes, in every journal mode and at every `synchronous`
level (the first module has the invariant, what journals are read as, and that steps keep the locks,
the types, the journals and the drafts; the second has the rest and the theorems):

* `CacheStaysCurrent`: `Spec /\ [][Tame]_vars => []CacheCurrent`, `PromisedStays`: the same for
  `NothingLost`, `LocksExclude` and `JournalTyped` for what they rest on. `Tame` says that
  power is lost only where one file is used; why, see
  [met while modelling](#findings). The inductive invariant is `Inv`:
  * `Base`: the types; one connection above SHARED, EXCLUSIVE alone (`Excluded`); which lock and
    which operation go with each `pc`; what a connection without a transaction has not got.
  * `Lives`: as long as a transaction can go both ways (`Live`), its journal can undo it
    (`JournalKept`) and what it will commit is what the file has or is to be written yet
    (`DraftKept`). `Journal` is the core: the cells before the last header are segments
    whose counts are right (`Tiled`), the last segment is the transaction's own and is not counted
    until it is on disk (`Segment`), every record has the page as it was (`Copied`), and a page that has
    been written to the file is in a segment that counts (`Restorable`). So a journal written over
    an older one is read exactly as far as it has been written.
  * `Phases`: what the stages of a commit, a rollback and a playback may rely on.
  * `Stores`: a reader's cache is `Store`, what the file holds once its journal has been played back; a
    cache kept without a lock equals it or has an older change counter (`CachesFit`); nobody
    reads beside a hot journal but the one who writes it (`Quiet`).
  * `Supered`: super-journals and the names in journals; `Synced`: what of a journal is on disk
    before its pages are written.

  `CacheCurrent` is not inductive, as it says nothing about a file while its journal is hot: there it
  is `Store` that a cache must equal, and `Store` stands still while a transaction writes
  because of `Journal`. `NothingLost` needs all of it, too, as the file it speaks of is the one a
  journal on disk would undo.
* `CommitIsAtomic`: `Spec /\ [][~PowerLoss]_vars => Atomic`. Of all steps only those that finish a
  journal move `Store` (`StoreMoves`): the finalisation of the journal of one file, or the
  deletion of the super-journal of several, `Delivers` all files of the transaction at once, and from then
  on `Counts` lets nobody play those journals back. What a loss of power would put
  in the place of a file moves there too, and is dropped when a journal's end is on disk
  (`BackMoves`). `Whole` adds that files and drafts have no hole.

  Crashes at every step are in, so are the playbacks by whoever comes next, in any number, each of
  which may crash again. `Records` is recursive: that it reads what is there
  (`RecordsIs`) is unfolded cell by cell, with the least cell at which a claim would fail in the
  place of an induction.
* `RecoveryIsAtomic`: `Spec /\ [][Careful]_vars => Atomic`, where power may be lost at any step, any
  number of times, if one file is used and every sync is made (`Sure`, that is
  `synchronous` FULL or EXTRA). The invariant gains `OnDisk`: any mixture of what is on disk and what
  is not, of the file (`Mixes`) and of its journal (`Journals`), is played back to what the file holds
  or would fall back to (`Mixed`). It rests on three things kept by every step: a page that is not on
  disk is in the hot journal (`Covered`); what of that journal a page of the file relies on is
  on disk, header and all, before the page is written (`WriterSynced`, `PlaceSynced`); a
  journal that is hot on disk alone is one that somebody finishes (`GoneOnDisk`). `Careful` also excludes, for such settings, the
  two steps of which TLC shows that a loss of power after them does harm (`Heeds`): the deletion of the
  journal of a file whose emptiness is not on disk, and the end of a process between the
  zeroing of the header of a persistent journal and its sync, see [met while
  modelling](#findings). All else that a connection does may be cut off anywhere.

Model-checked only, and why:

* `SnapshotKept`, `SpilledReadBack`, `Isolated` and `NothingLost` of `Wal` when it is not `Calm`:
  after a crash with WRITE or a loss of power the header comes from the checksums of the
  log, `Recovered`, a maximum over frames each of which depends on those before. `SnapshotKept`
  is moreover no theorem then for all bounds, see the first of those
  [met while modelling](#findings).
* `Atomic` of `RollbackJournal` when the power fails and several files are used, or `synchronous` is
  NORMAL: there the header of a journal and its records reach the disk in any order, and what is found
  depends on checksums, which `Inv` does not speak of. For settings with two faults it is false, see
  [met while modelling](#findings).
* `ReturnsFrame` of `WindowFrames`: `FrameOf` is about all rows of a partition, the generated code
  about one at a time; it takes an induction over data, which the provers do not have.
* Liveness (`FindReturns`, `SessionEnds`, `Completes`, `Terminates`, `StepsEnd`): out of the
  prover's reach.

## Findings

* `bisect_compile`: `build/bisect.sh:72` says a compile failure skips a commit. The
  `exit 125` on line 75 leaves only the subshell; `&& exit 0 || exit 1` on line 77
  turns it into 1, which is bad. Bisection then ends at the wrong commit.
* `vfs_needed`: `build/vfs.c:167` says wrappers "that are no longer needed" are
  deleted. Those deleted are the ones Go does not know any longer, and an open file
  goes on using its wrapper. Files of a VFS that stays registered are safe
  (`UsersKeepWrapper`).

Confirmed, on the other hand: the comment at `build/func.c:49` ("Step must've been
called") holds although memory may run out in the step, because the interrupt that this
raises is looked at before the next row (`StepCalled`).

Met while modelling, contradicted by no text of the repository, and noted with their hazards:

* A crash nobody notices: a process that ends in `walRestartHdr` between the header and
  the store of `nBackfill` (`sqlite3.go:54984`) while another stays connected leaves a
  whole header of an empty log and an `nBackfill` of the log before. The index is
  not recovered, and a commit of no more frames than that is read from the old
  database file. Three transactions of one frame, a restart and a crash: TLC finds it
  with `frames = 1`, `faults = 1`, `txns = 3`, beyond the settings of the run.
* A statement that is prepared again ORs its masks with the old ones
  (`sqlite3.go:14926`). If a new index makes the plan depend on the value of a parameter
  that was marked as small before, a later binding does not expire the plan.
  `PlanFits` says what is left for such a parameter (`Loosened`): whether its value is small
  agrees with the plan. The schemas `Deepening` of `MCStatements` reach it in the run.
* `journal_mode=PERSIST`: a process that ends between the zeroing of the journal's
  header and its sync, then a loss of power during the next transaction, undoes half
  of a transaction (`sqlite3.go:10033`). Two faults in a row; the runs have one.
* A super-journal's name that stays: a commit in two files that fails after it has named its
  super-journal is rolled back, and its journals are deleted without a sync; a loss of power brings
  one back. The next transaction writes over it from the start and does not cut it off, so
  that the journal still ends in that name (`sqlite3.go:50907`). After a crash of this transaction the
  journal is not played back, as the super-journal it seems to belong to does not exist. TLC finds
  it in two files with `txns = 2`, `spills = 1`, `faults = 2`. Therefore `Tame`.
* A journal beside an empty file is deleted (`sqlite3.go:48598`), also if the file is empty
  only because a playback has cut it off and has crashed before its sync. A loss of power then brings
  pages back, and nothing undoes them. Three faults: a crash after the commit's sync, one in the
  playback, the loss of power.

## What is not modelled

* Most of `sqlite3.go`: tokenizer, parser, planner, code generator, the instructions of
  the VDBE, records, b-trees, sorter, formatting, JSON, dates. It is machine-translated
  third-party code, 160,000 lines over linear memory, nearly all of it functions of their
  inputs; the other five translated files (FTS5, vec1, R-Tree, spellfix, parser) are of
  the same kind. What is modelled of it is what keeps data right under
  interleaving and failure. So the map covers a small share of the lines, and could not
  cover a third of them without claiming lines for definitions that do not translate them.
* In the log: more than one page of the index, the size of the database, exclusive
  locking mode, shared memory that is unreliable or on the heap.
* In the journal: savepoints, files that shrink, the modes MEMORY and OFF, atomic and
  batch-atomic writes, errors in a rollback, super-journals of databases in memory.
* In backups: different page sizes, errors of the destination's commit, its lock.
* In window functions: the rewrite of the query, functions that read rows directly (`lag`, `lead`,
  `first_value`, `nth_value`, `min`, `max`), FILTER, DISTINCT, several windows, offsets
  that are negative or not constant; aggregates of GROUP BY.
* In the busy handler: locks of a log, blocking locks, a handler that is replaced while
  it is called, interrupts. Two files may wait in a circle; only the timeout ends it.
* `PlanFits` is about the moment a run starts: `clear_bindings` on a running statement
  is not refused.
* Memory exhaustion in `VfsRegistry` (`malloc` is not checked at `build/vfs.c:181`).
* Copies a program makes of a bound pointer: `clear_bindings` on a running statement
  destroys the value; `OneOwner` says it is destroyed once, not that nobody
  looks at it.
* `create_module_v2` on a connection that is not open returns without the destructor
  (`sqlite3.go:32524`); a module replaced inside its own constructor.
* Hooks that carry no handle, savepoints of virtual tables, two connections that
  share a schema; what a destructor or disconnect does when it calls back into SQLite.
* FTS5 bindings, R-Tree support functions, the allocators and the C library shims; see
  the notes in `PROJECT.json`.

## Plan

In this order, most important first; what is done is marked.

1. [x] `HandleOwnership`, `AppDefined`: ownership of handles, the core. Every property
   of the run proved, and the refinement.
2. [x] `TimeCollation`: order of keys, with a proof for all keys.
3. [x] `Bisect`, `VfsRegistry`, `VirtualTables`.
4. [x] `Wal`, `RollbackJournal` with the abstract specifications they implement; `Backup`.
5. [x] `WindowFrames` with the aggregate contexts of `build/func.c`.
6. [x] `Reprepare` with the clear_bindings patch; `BusyHandler`.
7. [x] Proofs for `Backup`, `Reprepare` and the handles of `WindowFrames`.
8. [x] Proofs for `VfsRegistry`, `VirtualTables`, `Bisect`, `BusyHandler`, `StepCalled`, and of
   `Wal` what does not depend on the content of the log.
9. [x] Proof of `SnapshotKept` and `SpilledReadBack` while it is `Calm`: what the frames,
   the index, the marks and the database file hold for each snapshot that is read.
10. [x] Proofs for `RollbackJournal`: caches, durability, and `AtomicCommit` as long as the power
   does not fail, and with losses of power for one file and every sync.
11. [ ] Savepoints of the pager with a rollback journal, and of virtual tables.
12. [ ] `Fts5Handles` over `HandleOwnership`; `IntFloatCompare` of
    `rtree/build/main.c` against its reference, proved for every width.
