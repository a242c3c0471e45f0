-------------------------------- MODULE Wal ----------------------------------
(***************************************************************************)
(* The write-ahead log of sqlite3.go: readers with their marks, the        *)
(* writer, savepoints and the cache spilled to the log, checkpoints, the   *)
(* restart of the log, recovery, and what a crash of one connection or a   *)
(* loss of power leaves behind.                                            *)
(*                                                                         *)
(* A connection is a goroutine or a process of its own: it shares with the *)
(* others the files and the memory behind xShmMap, and nothing else.  Its  *)
(* steps are split where it takes a lock, or reads what another may be     *)
(* writing.                                                                *)
(***************************************************************************)
EXTENDS Integers, FiniteSets, FiniteSetsExt, Sequences

CONSTANTS Conns,      \* connections to one database
          NPages,     \* pages of the database
          Settings,   \* the settings and bounds that are tried
          None

Setting == [conns : SUBSET Conns,          \* bound: the connections there are
            writers : SUBSET Conns,        \* bound: those that write
            checkpointers : SUBSET Conns,  \* bound: those that run checkpoints
            marks : Nat \ {0},     \* read marks besides mark 0 (4 in the code)
            txns : Nat,            \* bound: transactions that write
            frames : Nat,          \* bound: frames in the log
            modes : SUBSET {"passive", "full", "restart", "truncate"},  \* of checkpoints
            full : BOOLEAN,        \* PRAGMA synchronous: FULL rather than NORMAL
            spills : Nat,          \* bound: pages that leave a full cache, savepoints undone
            faults : Nat,          \* bound: connections closed, crashes, losses of power
            ckpts : Nat]           \* bound: checkpoints

ASSUME WalAssumption ==
  /\ NPages \in Nat \ {0}
  /\ \A s \in Settings : s \in Setting
  /\ IsFiniteSet(Conns) /\ None \notin Conns

VARIABLE setting   \* one of the settings, for good

Writers == setting.writers
Checkpointers == setting.checkpointers
MaxTxn == setting.txns
MaxFrames == setting.frames
MaxSpills == setting.spills
MaxFaults == setting.faults
MaxCkpts == setting.ckpts
Modes == setting.modes
Full == setting.full

Pages == 1 .. NPages
Marks == 1 .. setting.marks
Unused == MaxFrames + 1      \* READMARK_NOT_USED
Slots == 1 .. MaxFrames

VARIABLES
  db, wal, idx, shm,          \* the files, and the memory that is shared
  nBackfill, marks,
  ddb, dwal,                  \* what of the files is known to be on disk
  writer, ckpter,             \* who holds the locks WRITE and CKPT
  zeroExcl, marksExcl,        \* who holds READ(0), or all other READ(i), exclusively
  alive, pc, hdr, tmp,        \* one connection: its header, the one it reads,
  readLock, mark, minFrame,   \* the mark it holds, and what it saw in it,
  txn, mine, dirty, saved,    \* its transaction, its pages, its savepoint,
  batch, last, recksum,       \* the frames it writes,
  nCkpt, cached,              \* has it restarted the log, what its cache holds,
  ckpt,                       \* its checkpoint
  txns, hist, committed, durable, faults, ckpts, spills

files == << db, wal, ddb, dwal >>
shared == << idx, shm, nBackfill, marks >>
locks == << writer, ckpter, zeroExcl, marksExcl >>
reader == << hdr, tmp, readLock, mark, minFrame, cached >>
writing == << txn, mine, dirty, saved, batch, last, recksum, nCkpt >>
ghosts == << txns, hist, committed, durable, ckpts, spills >>
vars == << setting, files, shared, locks, alive, pc, reader, writing, ckpt, ghosts, faults >>
-----------------------------------------------------------------------------
(* The log file: a header with its salt, and frames.  A checksum stands    *)
(* for all that it sums: the salt and the frames before it.                *)

(* commit is the transaction that the frame commits, 0 if none: a size, in  *)
(* the code.                                                               *)
NoFrame == [page |-> 0, val |-> 0, commit |-> 0, ck |-> << >>]
EmptyLog == [salt |-> 0, frames |-> [f \in Slots |-> NoFrame]]

Sum(w, f) == IF f = 0 THEN << <<w.salt>> >> ELSE w.frames[f].ck

Frame(before, p, v, commit) ==
  [page |-> p, val |-> v, commit |-> commit, ck |-> Append(before, << p, v, commit >>)]

(* walDecodeFrame: a frame counts if its salt and its checksum, which goes *)
(* on from the frame before it, are right.                                 *)
Valid(w, f) ==
  LET fr == w.frames[f] IN fr # NoFrame /\ fr = Frame(Sum(w, f - 1), fr.page, fr.val, fr.commit)

LastOf(S) == Max(S \cup {0})

(* walIndexRecover: the last frame of the last transaction that is whole.  *)
Whole(w) ==
  IF w.salt = 0 THEN 0
  ELSE LastOf({f \in Slots : w.frames[f].commit # 0 /\ \A g \in 1 .. f : Valid(w, g)})

NoHdr == [mx |-> 0, salt |-> 0, last |-> -1]

(* The transaction whose state the database file alone holds.              *)
StateOf(d) == LastOf({t \in 0 .. MaxTxn : hist[t] = d})

Recovered(w) ==
  [mx |-> Whole(w), salt |-> w.salt,
   last |-> IF Whole(w) = 0 THEN StateOf(db) ELSE w.frames[Whole(w)].commit]

NoCkpt == [mode |-> "none", changed |-> FALSE, safe |-> 0,
           k |-> 0, plan |-> [p \in Pages |-> 0]]
NoBatch == [todo |-> {}, commit |-> FALSE, first |-> 0, headed |-> FALSE]
NoPages == [p \in Pages |-> 0]
NoMark == [i |-> 0, at |-> 0]
NoSaved == [mx |-> -1, mine |-> NoPages, pages |-> {}]

Init ==
  /\ setting \in Settings
  /\ db = NoPages /\ ddb = NoPages
  /\ wal = EmptyLog /\ dwal = EmptyLog
  /\ idx = [f \in Slots |-> 0]
  /\ shm = << NoHdr, NoHdr >>
  /\ nBackfill = 0 /\ marks = [i \in Marks |-> 0]
  /\ writer = None /\ ckpter = None /\ zeroExcl = None /\ marksExcl = None
  /\ alive = {}
  /\ pc = [c \in Conns |-> "idle"]
  /\ hdr = [c \in Conns |-> NoHdr] /\ tmp = [c \in Conns |-> NoHdr]
  /\ readLock = [c \in Conns |-> -1]
  /\ mark = [c \in Conns |-> NoMark] /\ minFrame = [c \in Conns |-> 0]
  /\ txn = [c \in Conns |-> 0] /\ mine = [c \in Conns |-> NoPages]
  /\ dirty = [c \in Conns |-> {}] /\ saved = [c \in Conns |-> NoSaved]
  /\ batch = [c \in Conns |-> NoBatch] /\ last = [c \in Conns |-> 0]
  /\ recksum = [c \in Conns |-> 0] /\ nCkpt = [c \in Conns |-> FALSE]
  /\ cached = [c \in Conns |-> -1] /\ ckpt = [c \in Conns |-> NoCkpt]
  /\ txns = 0 /\ hist = [t \in 0 .. MaxTxn |-> IF t = 0 THEN NoPages ELSE << >>]
  /\ committed = 0 /\ durable = 0 /\ faults = 0 /\ ckpts = 0
  /\ spills = 0
-----------------------------------------------------------------------------
(* Helpers of a connection. *)

At(c, where) == c \in alive /\ pc[c] = where
Go(c, where) == pc' = [pc EXCEPT ![c] = where]

Free(lock, c) == lock \in {None, c}
Readers(i) == {c \in Conns : readLock[c] = i}
UnheldMark(k) == marksExcl = None   \* mutant
FreeMark(k) == marksExcl = None /\ Readers(k) = {}   \* READ(k) can be had exclusively
MarksFree(c) == marksExcl \in {None, c} /\ \A i \in Marks : Readers(i) \subseteq {c}

(* walFindFrame: the last frame of the page between the frames that are    *)
(* backfilled and the end of the snapshot; 0 for the database file.        *)
FindFrame(c, p) ==
  IF hdr[c].mx = 0 \/ readLock[c] = 0 THEN 0
  ELSE LastOf({f \in minFrame[c] .. hdr[c].mx : idx[f] = p})

View(c, p) == LET f == FindFrame(c, p) IN IF f = 0 THEN db[p] ELSE wal.frames[f].val

(* walCleanupHash *)
Cleaned(mx) == [f \in Slots |-> IF f > mx THEN 0 ELSE idx[f]]

(* walIndexAppend: the first frame clears the table, one whose slot is     *)
(* taken clears what lies beyond the header.                               *)
IndexAppend(index, f, p, mx) ==
  [g \in Slots |-> IF g = f THEN p
                   ELSE IF f = 1 \/ (index[f] # 0 /\ g > mx) THEN 0
                   ELSE index[g]]

(* walRestartHdr, as it is in the memory of the connection.                *)
Restarted(h, fresh) == [h EXCEPT !.mx = 0, !.salt = fresh]

(* Salts are drawn at random: one that no header and no frame has.         *)
Salts(w) == {w.salt} \cup {w.frames[f].ck[1][1] : f \in {g \in Slots : w.frames[g] # NoFrame}}
UsedSalts ==
  Salts(wal) \cup Salts(dwal) \cup {shm[1].salt, shm[2].salt}
    \cup {hdr[c].salt : c \in Conns} \cup {tmp[c].salt : c \in Conns}
FreshSalt == Min((1 .. Cardinality(UsedSalts) + 1) \ UsedSalts)

(* What walRestartHdr does to the shared memory once the header is there.  *)
RestartInfo ==
  /\ nBackfill' = 0
  /\ marks' = [i \in Marks |-> IF i = 1 THEN 0 ELSE Unused]

(* The locks and the state of a connection that goes away.                 *)
Dropped(lock, c) == IF lock = c THEN None ELSE lock

Forget(C) ==
  LET reset(f, v) == [c \in Conns |-> IF c \in C THEN v ELSE f[c]]
  IN  /\ pc' = reset(pc, "idle")
      /\ hdr' = reset(hdr, NoHdr) /\ tmp' = reset(tmp, NoHdr)
      /\ readLock' = reset(readLock, -1) /\ mark' = reset(mark, NoMark)
      /\ minFrame' = reset(minFrame, 0) /\ cached' = reset(cached, -1)
      /\ txn' = reset(txn, 0) /\ mine' = reset(mine, NoPages)
      /\ dirty' = reset(dirty, {}) /\ saved' = reset(saved, NoSaved)
      /\ batch' = reset(batch, NoBatch) /\ last' = reset(last, 0)
      /\ recksum' = reset(recksum, 0) /\ nCkpt' = reset(nCkpt, FALSE)
      /\ ckpt' = reset(ckpt, NoCkpt)
-----------------------------------------------------------------------------
(* Connections come and go. *)

(* The first connection to the shared memory finds it empty.               *)
Open(c) ==
  /\ c \in setting.conns /\ c \notin alive
  /\ alive' = alive \cup {c}
  /\ IF alive = {} THEN /\ shm' = << NoHdr, NoHdr >>
                        /\ idx' = [f \in Slots |-> 0]
                        /\ nBackfill' = 0 /\ marks' = [i \in Marks |-> 0]
                   ELSE UNCHANGED shared
  /\ UNCHANGED << files, locks, pc, reader, writing, ckpt, ghosts, faults >>

(* What the database holds if all of the log is copied into it.            *)
Merged(w) ==
  [p \in Pages |-> LET f == LastOf({g \in 1 .. Whole(w) : w.frames[g].page = p})
                   IN  IF f = 0 THEN db[p] ELSE w.frames[f].val]

(* sqlite3WalClose: whoever gets the database file for itself copies the   *)
(* log into it and deletes the log.                                        *)
Close(c) ==
  /\ At(c, "idle") /\ faults < MaxFaults
  /\ faults' = faults + 1
  /\ alive' = alive \ {c}
  /\ IF alive = {c}
     THEN /\ db' = Merged(wal) /\ ddb' = db'
          /\ wal' = EmptyLog /\ dwal' = wal
          /\ committed' = Max({committed, Recovered(wal).last})
          /\ durable' = committed'
     ELSE UNCHANGED << files, committed, durable >>
  /\ Forget({c})
  /\ UNCHANGED << shared, locks, txns, hist, ckpts, spills >>

(* A connection stops anywhere; the system gives back its locks.           *)
Crash(c) ==
  /\ c \in alive /\ faults < MaxFaults
  /\ faults' = faults + 1
  /\ alive' = alive \ {c}
  /\ writer' = Dropped(writer, c) /\ ckpter' = Dropped(ckpter, c)
  /\ zeroExcl' = Dropped(zeroExcl, c) /\ marksExcl' = Dropped(marksExcl, c)
  /\ Forget({c})
  /\ UNCHANGED << files, shared, ghosts >>

(* Of what was not synchronised each frame and the header is either there  *)
(* or not; a file that was emptied or deleted is there as it was, or not.  *)
SurvivingLogs ==
  IF wal = EmptyLog THEN {wal, dwal}
  ELSE {[salt |-> salt,
         frames |-> [f \in Slots |-> IF f \in lost THEN dwal.frames[f] ELSE wal.frames[f]]] :
          lost \in SUBSET {f \in Slots : wal.frames[f] # dwal.frames[f]},
          salt \in {wal.salt, dwal.salt}}

(* The power fails, and each page that was not synchronised is there or not. *)
PowerLoss ==
  /\ faults < MaxFaults
  /\ faults' = faults + 1
  /\ alive' = {}
  /\ wal' \in SurvivingLogs
  /\ \E old \in SUBSET {p \in Pages : db[p] # ddb[p]} :
       db' = [p \in Pages |-> IF p \in old THEN ddb[p] ELSE db[p]]
  /\ dwal' = wal' /\ ddb' = db'
  /\ writer' = None /\ ckpter' = None /\ zeroExcl' = None /\ marksExcl' = None
  /\ Forget(Conns)
  /\ committed' = durable
  /\ UNCHANGED << shared, txns, hist, durable, ckpts, spills >>
-----------------------------------------------------------------------------
(* Reading the header: walIndexTryHdr and walIndexReadHdr. *)

Checkpointing(c) == ckpt[c].mode # "none"

(* A connection whose header has changed drops its cache; a checkpoint     *)
(* does not, and forgets the header instead when it ends.                  *)
TakeHeader(c, h) ==
  /\ hdr' = [hdr EXCEPT ![c] = h]
  /\ IF Checkpointing(c)
     THEN /\ ckpt' = [ckpt EXCEPT ![c].changed = @ \/ h # hdr[c], ![c].safe = h.mx]
          /\ UNCHANGED cached
          /\ Go(c, "ckpt")
     ELSE /\ cached' = [cached EXCEPT ![c] = IF h # hdr[c] THEN -1 ELSE @]
          /\ UNCHANGED ckpt
          /\ Go(c, "begin")

(* A reader that gives up, or starts again, drops its cache as well.       *)
GiveUp(c) ==
  /\ cached' = [cached EXCEPT ![c] = -1]
  /\ Go(c, "idle")

ReadFirst(c) ==
  /\ At(c, "idle") \/ At(c, "chdr")
  /\ tmp' = [tmp EXCEPT ![c] = shm[1]]
  /\ Go(c, "second")
  /\ UNCHANGED << files, shared, locks, alive, hdr, readLock, mark, minFrame, cached,
                  writing, ckpt, ghosts, faults >>

ReadSecond(c) ==
  /\ At(c, "second")
  /\ IF shm[2] = tmp[c] /\ tmp[c] # NoHdr
     THEN TakeHeader(c, tmp[c])
     ELSE Go(c, "dirty") /\ UNCHANGED << hdr, cached, ckpt >>
  /\ tmp' = [tmp EXCEPT ![c] = NoHdr]
  /\ UNCHANGED << files, shared, locks, alive, readLock, mark, minFrame, writing, ghosts, faults >>

(* The copies differ: nobody writes them while this connection holds the   *)
(* lock of the writer, so that what it reads now is what there is.         *)
Reread(c) ==
  /\ At(c, "dirty")
  /\ IF Free(writer, c) /\ (shm[1] = shm[2] /\ shm[1] # NoHdr)
     THEN TakeHeader(c, shm[1]) /\ UNCHANGED << writer, ckpter >>
     ELSE IF Free(writer, c) /\ Free(ckpter, c)
     THEN /\ writer' = c /\ ckpter' = c
          /\ Go(c, "recover")
          /\ UNCHANGED << hdr, cached, ckpt >>
     ELSE /\ writer' = Dropped(writer, c) /\ ckpter' = Dropped(ckpter, c)
          /\ ckpt' = [ckpt EXCEPT ![c] = NoCkpt]
          /\ GiveUp(c)
          /\ UNCHANGED hdr
  /\ UNCHANGED << files, shared, zeroExcl, marksExcl, alive, tmp, readLock, mark, minFrame,
                  writing, ghosts, faults >>

(* walIndexRecover, up to the header.                                      *)
Recover(c) ==
  LET h == Recovered(wal)
  IN  /\ At(c, "recover")
      /\ idx' = [f \in Slots |-> IF f <= h.mx THEN wal.frames[f].page ELSE 0]
      /\ shm' = << h, h >>
      /\ hdr' = [hdr EXCEPT ![c] = h]
      /\ committed' = Max({committed, h.last})
      /\ Go(c, "recovered")
      /\ UNCHANGED << files, nBackfill, marks, locks, alive, tmp, readLock, mark, minFrame,
                      cached, writing, ckpt, txns, hist, durable, faults, ckpts, spills >>

(* The rest of it: nothing is backfilled, and the marks that nobody holds  *)
(* are set anew.                                                           *)
RecoverInfo(c) ==
  /\ At(c, "recovered")
  /\ nBackfill' = 0
  /\ marks' = [i \in Marks |-> IF Readers(i) # {} \/ ~Free(marksExcl, c) THEN marks[i]
                               ELSE IF i = 1 /\ hdr[c].mx > 0 THEN hdr[c].mx ELSE Unused]
  /\ writer' = IF Checkpointing(c) /\ ckpt[c].mode # "passive" THEN c ELSE None
  /\ ckpter' = IF Checkpointing(c) THEN c ELSE None
  /\ IF Checkpointing(c)
     THEN /\ ckpt' = [ckpt EXCEPT ![c].changed = TRUE, ![c].safe = hdr[c].mx]
          /\ UNCHANGED cached /\ Go(c, "ckpt")
     ELSE /\ cached' = [cached EXCEPT ![c] = -1]
          /\ UNCHANGED ckpt /\ Go(c, "begin")
  /\ UNCHANGED << files, idx, shm, zeroExcl, marksExcl, alive, hdr, tmp, readLock, mark,
                  minFrame, writing, ghosts, faults >>
-----------------------------------------------------------------------------
(* A read transaction begins: walTryBeginRead.  A writer that has restarted *)
(* the log comes here too, with the header it has.                         *)

(* What it saw in its mark is not looked at again.                         *)
Retry(c) ==
  /\ readLock' = [readLock EXCEPT ![c] = -1]
  /\ mark' = [mark EXCEPT ![c] = NoMark]
  /\ minFrame' = [minFrame EXCEPT ![c] = 0]
  /\ IF writer = c THEN Go(c, "begin") /\ UNCHANGED cached ELSE GiveUp(c)

(* All of the log is in the database file: the reader needs no mark.       *)
BeginZero(c) ==
  /\ At(c, "begin") /\ writer # c
  /\ nBackfill = hdr[c].mx /\ zeroExcl = None
  /\ readLock' = [readLock EXCEPT ![c] = 0]
  /\ Go(c, "zero")
  /\ UNCHANGED << files, shared, locks, alive, hdr, tmp, mark, minFrame, cached, writing, ckpt,
                  ghosts, faults >>

CheckZero(c) ==
  /\ At(c, "zero")
  /\ IF shm[1] = hdr[c]
     THEN /\ Go(c, "read") /\ UNCHANGED << readLock, mark, minFrame >>
          /\ cached' = [cached EXCEPT ![c] = IF @ = -1 THEN hdr[c].last ELSE @]
     ELSE Retry(c)
  /\ UNCHANGED << files, shared, locks, alive, hdr, tmp, writing, ckpt, ghosts,
                  faults >>

(* The highest mark that is not beyond the header, or one that nobody      *)
(* holds, set to the header.                                               *)
ChooseMark(c) ==
  LET usable == {i \in Marks : marks[i] <= hdr[c].mx}
      top    == Max({marks[i] : i \in usable} \cup {0})
      spare  == {i \in Marks : FreeMark(i)}
      choose(i, m) == /\ mark' = [mark EXCEPT ![c] = [i |-> i, at |-> m]]
                      /\ Go(c, "lock")
                      /\ UNCHANGED << readLock, minFrame, cached >>
  IN  /\ At(c, "begin")
      /\ writer = c \/ nBackfill # hdr[c].mx \/ zeroExcl # None
      /\ IF (usable = {} \/ top < hdr[c].mx) /\ spare # {}
         THEN /\ marks' = [marks EXCEPT ![Min(spare)] = hdr[c].mx]
              /\ choose(Min(spare), hdr[c].mx)
         ELSE /\ UNCHANGED marks
              /\ IF usable = {} THEN Retry(c)
                 ELSE choose(Max({i \in usable : marks[i] = top}), top)
      /\ UNCHANGED << files, idx, shm, nBackfill, locks, alive, hdr, tmp, writing, ckpt, ghosts,
                      faults >>

LockMark(c) ==
  /\ At(c, "lock")
  /\ IF marksExcl = None
     THEN /\ readLock' = [readLock EXCEPT ![c] = mark[c].i]
          /\ minFrame' = [minFrame EXCEPT ![c] = nBackfill + 1]
          /\ Go(c, "verify")
          /\ UNCHANGED << mark, cached >>
     ELSE Retry(c)
  /\ UNCHANGED << files, shared, locks, alive, hdr, tmp, writing, ckpt, ghosts, faults >>

Admit(c) ==
  /\ Go(c, IF writer = c THEN "frames" ELSE "read")
  /\ cached' = [cached EXCEPT ![c] = IF @ = -1 THEN hdr[c].last ELSE @]
  /\ mark' = [mark EXCEPT ![c] = NoMark]
  /\ UNCHANGED << readLock, minFrame >>

\* Mutant: the mark is held, and nothing is read again.
VerifyNothing(c) ==
  /\ At(c, "verify")
  /\ Admit(c)
  /\ UNCHANGED << files, shared, locks, alive, hdr, tmp, writing, ckpt, ghosts,
                  faults >>

(* Both may have changed before the mark was held.                         *)
Verify(c) ==
  /\ At(c, "verify")
  /\ IF marks[mark[c].i] = mark[c].at /\ shm[1] = hdr[c]
     THEN Admit(c)
     ELSE Retry(c)
  /\ UNCHANGED << files, shared, locks, alive, hdr, tmp, writing, ckpt, ghosts,
                  faults >>

(* sqlite3WalEndReadTransaction *)
EndRead(c) ==
  /\ At(c, "read")
  /\ readLock' = [readLock EXCEPT ![c] = -1]
  /\ minFrame' = [minFrame EXCEPT ![c] = 0]
  /\ Go(c, "idle")
  /\ UNCHANGED << files, shared, locks, alive, hdr, tmp, mark, cached, writing, ckpt,
                  ghosts, faults >>
-----------------------------------------------------------------------------
(* A write transaction. *)

(* Only a reader of the last snapshot may write: otherwise it would undo   *)
(* what was committed since (SQLITE_BUSY_SNAPSHOT).                        *)
BeginWrite(c) ==
  /\ At(c, "read") /\ c \in Writers /\ writer = None /\ txns < MaxTxn
  /\ shm[1] = hdr[c]
  /\ writer' = c
  /\ txns' = txns + 1
  /\ txn' = [txn EXCEPT ![c] = txns']
  /\ mine' = [mine EXCEPT ![c] = hist[hdr[c].last]]
  /\ Go(c, "write")
  /\ UNCHANGED << files, shared, ckpter, zeroExcl, marksExcl, alive, reader, dirty, saved, batch,
                  last, recksum, nCkpt, ckpt, hist, committed, durable, faults, ckpts, spills >>

\* Mutant: a page that leaves the cache as it was is not kept.
NotSubjournaled(c, pages) == saved[c]

(* subjournalPageIfRequired: the sub-journal keeps a page when it is       *)
(* changed, or leaves the cache, for the first time since the savepoint.   *)
Subjournaled(c, pages) ==
  IF saved[c] = NoSaved THEN NoSaved ELSE [saved[c] EXCEPT !.pages = @ \cup pages]

(* A page is changed in the cache, and perhaps once more.  Once it is the  *)
(* value that the transaction will commit, its draft comes no more.        *)
Modify(c, p) ==
  /\ At(c, "write") /\ mine[c][p] # txn[c]
  /\ \E v \in IF MaxSpills > 0 /\ mine[c][p] # -txn[c] THEN {txn[c], -txn[c]} ELSE {txn[c]} :
       mine' = [mine EXCEPT ![c][p] = v]
  /\ dirty' = [dirty EXCEPT ![c] = @ \cup {p}]
  /\ saved' = [saved EXCEPT ![c] = Subjournaled(c, {p})]
  /\ UNCHANGED << files, shared, locks, alive, pc, reader, txn, batch, last, recksum,
                  nCkpt, ckpt, ghosts, faults >>

OpenSavepoint(c) ==
  /\ At(c, "write") /\ spills < MaxSpills /\ saved[c] = NoSaved
  /\ saved' = [saved EXCEPT ![c] = [mx |-> hdr[c].mx, mine |-> mine[c], pages |-> {}]]
  /\ UNCHANGED << files, shared, locks, alive, pc, reader, txn, mine, dirty, batch, last, recksum,
                  nCkpt, ckpt, ghosts, faults >>

UndoTo(c, mx) ==
  /\ hdr' = [hdr EXCEPT ![c].mx = mx]
  /\ idx' = Cleaned(mx)
  /\ recksum' = [recksum EXCEPT ![c] = IF @ > mx THEN 0 ELSE @]

(* sqlite3WalSavepointUndo and the playback of the sub-journal: the log is *)
(* cut, and the pages that are in the sub-journal are dirty with what they *)
(* held.                                                                   *)
RollbackTo(c) ==
  /\ At(c, "write") /\ saved[c] # NoSaved /\ spills < MaxSpills
  /\ spills' = spills + 1
  /\ UndoTo(c, IF saved[c].mx < hdr[c].mx THEN saved[c].mx ELSE hdr[c].mx)
  /\ mine' = [mine EXCEPT ![c] = saved[c].mine]
  /\ dirty' = [dirty EXCEPT ![c] = @ \cup saved[c].pages]
  /\ saved' = [saved EXCEPT ![c] = NoSaved]
  /\ UNCHANGED << files, shm, nBackfill, marks, locks, alive, pc, tmp, readLock, mark, minFrame,
                  cached, txn, batch, last, nCkpt, ckpt, txns, hist, committed, durable, ckpts,
                  faults >>

EndTransaction(c) ==
  /\ writer' = None
  /\ txn' = [txn EXCEPT ![c] = 0]
  /\ mine' = [mine EXCEPT ![c] = NoPages]
  /\ dirty' = [dirty EXCEPT ![c] = {}]
  /\ saved' = [saved EXCEPT ![c] = NoSaved]
  /\ batch' = [batch EXCEPT ![c] = NoBatch]
  /\ recksum' = [recksum EXCEPT ![c] = 0]
  /\ last' = [last EXCEPT ![c] = 0]
  /\ Go(c, "read")

(* sqlite3WalUndo: the header is the shared one again, and the index loses *)
(* the frames beyond it.  It is what follows an error of the file as well. *)
Rollback(c) ==
  /\ At(c, "write") \/ At(c, "frames")
  /\ hdr' = [hdr EXCEPT ![c] = shm[1]]
  /\ idx' = IF shm[1].mx # hdr[c].mx THEN Cleaned(shm[1].mx) ELSE idx
  /\ EndTransaction(c)
  /\ UNCHANGED << files, shm, nBackfill, marks, ckpter, zeroExcl, marksExcl, alive, tmp, readLock,
                  mark, minFrame, cached, nCkpt, ckpt, ghosts, faults >>
-----------------------------------------------------------------------------
(* Frames are written: pagerWalFrames. *)

(* iFirst: frames of this transaction begin there, if it has any.          *)
FirstFrame(c) == IF shm[1] # hdr[c] THEN shm[1].mx + 1 ELSE 0

StartFrames(c, pages, commit) ==
  /\ batch' = [batch EXCEPT ![c] = [todo |-> pages, commit |-> commit, first |-> FirstFrame(c),
                                       headed |-> FALSE]]
  /\ last' = [last EXCEPT ![c] = hdr[c].mx]
  /\ saved' = [saved EXCEPT ![c] = IF commit THEN @ ELSE Subjournaled(c, pages)]
  /\ Go(c, IF readLock[c] = 0 THEN "restart" ELSE "frames")
  /\ UNCHANGED << files, shared, locks, alive, reader, txn, mine, dirty, recksum, nCkpt,
                  ckpt, txns, hist, committed, durable, ckpts, faults >>

(* pagerStress: the cache is full, and a page leaves it.                   *)
Spill(c, p) ==
  /\ At(c, "write") /\ p \in dirty[c] /\ spills < MaxSpills
  /\ spills' = spills + 1
  /\ StartFrames(c, {p}, FALSE)

(* sqlite3PagerCommitPhaseOne: page 1 is written if no page is dirty.      *)
Commit(c) ==
  /\ At(c, "write")
  /\ dirty[c] # {} \/ hdr[c] # shm[1]
  /\ UNCHANGED spills
  /\ StartFrames(c, IF dirty[c] = {} THEN {1} ELSE dirty[c], TRUE)

(* walRestartLog: the log is used from its start again, if all of it is in *)
(* the database file and nobody reads it; the writer takes another mark in *)
(* any case.                                                               *)
RestartLog(c) ==
  /\ At(c, "restart")
  /\ IF nBackfill > 0 /\ MarksFree(c)
     THEN LET h == Restarted(hdr[c], FreshSalt)
          IN  /\ marksExcl' = c
              /\ hdr' = [hdr EXCEPT ![c] = h]
              /\ shm' = [shm EXCEPT ![2] = h]
              /\ nCkpt' = [nCkpt EXCEPT ![c] = TRUE]
              /\ saved' = [saved EXCEPT ![c] = IF @ = NoSaved THEN @ ELSE [@ EXCEPT !.mx = 0]]
              /\ last' = [last EXCEPT ![c] = 0]
              /\ Go(c, "restarted")
              /\ UNCHANGED readLock
     ELSE /\ readLock' = [readLock EXCEPT ![c] = -1]
          /\ Go(c, "begin")
          /\ UNCHANGED << marksExcl, hdr, shm, nCkpt, saved, last >>
  /\ UNCHANGED << files, idx, nBackfill, marks, writer, ckpter, zeroExcl, alive, tmp, mark,
                  minFrame, cached, txn, mine, dirty, batch, recksum, ckpt, ghosts, faults >>

(* The first copy of the header is the last to be written.                 *)
RestartHeader(c) ==
  /\ At(c, "restarted")
  /\ shm' = [shm EXCEPT ![1] = hdr[c]]
  /\ Go(c, "restartinfo")
  /\ UNCHANGED << files, idx, nBackfill, marks, locks, alive, reader, writing, ckpt, ghosts,
                  faults >>

RestartEnd(c) ==
  /\ At(c, "restartinfo")
  /\ RestartInfo
  /\ marksExcl' = None
  /\ readLock' = [readLock EXCEPT ![c] = -1]
  /\ Go(c, "begin")
  /\ UNCHANGED << files, idx, shm, writer, ckpter, zeroExcl, alive, hdr, tmp, mark, minFrame,
                  cached, writing, ckpt, ghosts, faults >>

\* Mutant: the file is not synchronised.
LogUnsynced == dwal' = dwal

(* What fsync does.                                                        *)
SyncHeader == dwal' = wal'
SyncFrames == dwal' = wal
SyncLog == dwal' = wal
SyncDb == ddb' = db

(* The log is empty: its header is written, and synchronised before any    *)
(* frame replaces one of the log before.                                   *)
WriteLogHeader(c) ==
  /\ At(c, "frames") /\ hdr[c].mx = 0 /\ last[c] = 0
  /\ ~batch[c].headed
  /\ LET salt == IF nCkpt[c] THEN hdr[c].salt ELSE FreshSalt
     IN  /\ wal' = [wal EXCEPT !.salt = salt]
         /\ hdr' = [hdr EXCEPT ![c].salt = salt]
  /\ SyncHeader
  /\ batch' = [batch EXCEPT ![c].headed = TRUE]
  /\ UNCHANGED << db, ddb, shared, locks, alive, pc, tmp, readLock, mark, minFrame, cached, txn,
                  mine, dirty, saved, last, recksum, nCkpt, ckpt, ghosts, faults >>

(* A page that is in the log since this transaction began is written over, *)
(* except the last of a commit; its checksum is wrong until it is written  *)
(* again.  Any other page makes a frame.                                   *)
WriteFrame(c) ==
  LET p     == Min(batch[c].todo)
      final == batch[c].commit /\ batch[c].todo = {p}
      old   == FindFrame(c, p)
      f     == last[c] + 1
  IN  /\ At(c, "frames") /\ batch[c].todo # {}
      /\ hdr[c].mx > 0 \/ batch[c].headed
      /\ IF batch[c].first > 0 /\ old >= batch[c].first /\ ~final
         THEN /\ wal' = [wal EXCEPT !.frames[old].val = mine[c][p]]
              /\ recksum' = [recksum EXCEPT ![c] = IF @ = 0 \/ old < @ THEN old ELSE @]
              /\ UNCHANGED << last, hist >>
         ELSE /\ f \in Slots
              /\ wal' = [wal EXCEPT !.frames[f] =
                           Frame(Sum(wal, last[c]), p, mine[c][p], IF final THEN txn[c] ELSE 0)]
              /\ last' = [last EXCEPT ![c] = f]
              /\ hist' = IF final THEN [hist EXCEPT ![txn[c]] = mine[c]] ELSE hist
              /\ UNCHANGED recksum
      /\ batch' = [batch EXCEPT ![c].todo = @ \ {p}]
      /\ dirty' = [dirty EXCEPT ![c] = @ \ {p}]
      /\ UNCHANGED << db, ddb, dwal, shared, locks, alive, pc, reader, txn, mine, saved, nCkpt,
                      ckpt, txns, committed, durable, faults, ckpts, spills >>

(* walRewriteChecksums *)
Rechecksummed(w, from, upto) ==
  LET ck[f \in 0 .. upto] ==
        IF f < from THEN Sum(w, f)
        ELSE LET fr == w.frames[f] IN Append(ck[f - 1], << fr.page, fr.val, fr.commit >>)
  IN  [w EXCEPT !.frames = [f \in Slots |-> IF f \in from .. upto
                                            THEN [w.frames[f] EXCEPT !.ck = ck[f]]
                                            ELSE w.frames[f]]]

Rechecksum(c) ==
  /\ At(c, "frames") /\ batch[c].todo = {} /\ batch[c].commit /\ recksum[c] # 0
  /\ wal' = Rechecksummed(wal, recksum[c], last[c])
  /\ recksum' = [recksum EXCEPT ![c] = 0]
  /\ UNCHANGED << db, ddb, dwal, shared, locks, alive, pc, reader, txn, mine, dirty, saved, batch,
                  last, nCkpt, ckpt, ghosts, faults >>

IndexAfter(c) ==
  LET index[f \in hdr[c].mx .. last[c]] ==
        IF f = hdr[c].mx THEN idx ELSE IndexAppend(index[f - 1], f, wal.frames[f].page, hdr[c].mx)
  IN  index[last[c]]

(* The frames are in the log: they enter the index, and the header of the  *)
(* connection counts them.  A commit writes the second copy of the header. *)
IndexFrames(c) ==
  /\ At(c, "frames") /\ batch[c].todo = {} /\ (batch[c].commit => recksum[c] = 0)
  /\ IF batch[c].commit /\ Full THEN SyncFrames ELSE UNCHANGED dwal
  /\ idx' = IndexAfter(c)
  /\ LET h == [hdr[c] EXCEPT !.mx = last[c]]
         new == [h EXCEPT !.last = txn[c]]
     IN  IF batch[c].commit
         THEN /\ hdr' = [hdr EXCEPT ![c] = new]
              /\ shm' = [shm EXCEPT ![2] = new]
              /\ Go(c, "publish")
         ELSE /\ hdr' = [hdr EXCEPT ![c] = h]
              /\ Go(c, "write")
              /\ UNCHANGED shm
  /\ batch' = [batch EXCEPT ![c] = IF @.commit THEN @ ELSE NoBatch]
  /\ UNCHANGED << db, wal, ddb, nBackfill, marks, locks, alive, tmp, readLock, mark, minFrame,
                  cached, txn, mine, dirty, saved, last, recksum, nCkpt, ckpt, ghosts, faults >>

Publish(c) ==
  /\ At(c, "publish")
  /\ shm' = [shm EXCEPT ![1] = hdr[c]]
  /\ committed' = txn[c]
  /\ durable' = IF Full THEN txn[c] ELSE durable
  /\ cached' = [cached EXCEPT ![c] = txn[c]]
  /\ EndTransaction(c)
  /\ UNCHANGED << files, idx, nBackfill, marks, ckpter, zeroExcl, marksExcl, alive, hdr, tmp,
                  readLock, mark, minFrame, nCkpt, ckpt, txns, hist, faults, ckpts, spills >>
-----------------------------------------------------------------------------
(* Checkpoints: sqlite3WalCheckpoint. *)

(* Only one checkpoint at a time.  All but PASSIVE keep writers out, if    *)
(* they can, and else do what PASSIVE does.                                *)
CkptBegin(c) ==
  /\ At(c, "idle") /\ c \in Checkpointers /\ ckpter = None /\ ckpts < MaxCkpts
  /\ ckpter' = c
  /\ \E m \in Modes :
       /\ writer' = IF m # "passive" /\ writer = None THEN c ELSE writer
       /\ ckpt' = [ckpt EXCEPT ![c].mode = IF writer = None THEN m ELSE "passive"]
  /\ Go(c, "chdr")
  /\ ckpts' = ckpts + 1
  /\ UNCHANGED << files, shared, zeroExcl, marksExcl, alive, reader, writing, txns, hist,
                  committed, durable, faults, spills >>

CkptStart(c) ==
  /\ At(c, "ckpt")
  /\ IF nBackfill < hdr[c].mx
     THEN ckpt' = [ckpt EXCEPT ![c].k = 1] /\ Go(c, "cmark")
     ELSE UNCHANGED ckpt /\ Go(c, "cdone")
  /\ UNCHANGED << files, shared, locks, alive, reader, writing, ghosts, faults >>

(* A mark below the end of the log is moved there if no reader holds it;   *)
(* if one does, the checkpoint stops at the mark.                          *)
CkptMark(c) ==
  LET k == ckpt[c].k
      s == ckpt[c].safe
  IN  /\ At(c, "cmark") /\ k \in Marks
      /\ IF marks[k] < s /\ FreeMark(k)
         THEN /\ marks' = [marks EXCEPT ![k] = IF k = 1 THEN s ELSE Unused]
              /\ ckpt' = [ckpt EXCEPT ![c].k = k + 1]
         ELSE /\ UNCHANGED marks
              /\ ckpt' = [ckpt EXCEPT ![c].k = k + 1,
                                      ![c].safe = IF marks[k] < s THEN marks[k] ELSE s]
      /\ UNCHANGED << files, idx, shm, nBackfill, locks, alive, pc, reader, writing, ghosts,
                      faults >>

(* walIteratorInit: the last frame of each page since what is backfilled,  *)
(* as the index has it.  READ(0) then keeps out who reads the database     *)
(* file alone.                                                             *)
CkptPlan(c) ==
  /\ At(c, "cmark") /\ ckpt[c].k \notin Marks
  /\ IF nBackfill < ckpt[c].safe
     THEN /\ ckpt' = [ckpt EXCEPT ![c].plan =
                       [p \in Pages |-> LastOf({f \in nBackfill + 1 .. hdr[c].mx : idx[f] = p})]]
          /\ Go(c, "czero")
     ELSE Go(c, "cdone") /\ UNCHANGED ckpt
  /\ UNCHANGED << files, shared, locks, alive, reader, writing, ghosts, faults >>

CkptLock(c) ==
  /\ At(c, "czero")
  /\ IF Readers(0) = {} /\ zeroExcl = None
     THEN zeroExcl' = c /\ Go(c, "csalt")
     ELSE UNCHANGED zeroExcl /\ Go(c, "cdone")
  /\ UNCHANGED << files, shared, writer, ckpter, marksExcl, alive, reader, writing, ckpt, ghosts,
                  faults >>

(* The log may have started again since the plan was made.                 *)
SameLog(c) == shm[1].salt = hdr[c].salt

CkptSync(c) ==
  /\ At(c, "csalt")
  /\ IF SameLog(c)
     THEN /\ SyncLog
          /\ durable' = Max({durable, shm[1].last})
          /\ ckpt' = [ckpt EXCEPT ![c].plan = [p \in Pages |->
                        IF @[p] \in nBackfill + 1 .. ckpt[c].safe THEN @[p] ELSE 0]]
          /\ Go(c, "ccopy")
          /\ UNCHANGED zeroExcl
     ELSE /\ zeroExcl' = None
          /\ Go(c, "cdone")
          /\ UNCHANGED << dwal, durable, ckpt >>
  /\ UNCHANGED << db, wal, ddb, shared, writer, ckpter, marksExcl, alive, reader, writing, txns,
                  hist, committed, faults, ckpts, spills >>

ToCopy(c) == {p \in Pages : ckpt[c].plan[p] # 0}

CkptCopy(c) ==
  /\ At(c, "ccopy") /\ ToCopy(c) # {}
  /\ LET p == Min(ToCopy(c))
     IN  /\ db' = [db EXCEPT ![p] = wal.frames[ckpt[c].plan[p]].val]
         /\ ckpt' = [ckpt EXCEPT ![c].plan[p] = 0]
  /\ UNCHANGED << wal, ddb, dwal, shared, locks, alive, pc, reader, writing, ghosts, faults >>

(* The database file is synchronised if all of the log is in it: nobody    *)
(* restarts the log before.                                                *)
CkptFill(c) ==
  /\ At(c, "ccopy") /\ ToCopy(c) = {}
  /\ IF ckpt[c].safe = shm[1].mx THEN SyncDb ELSE UNCHANGED ddb
  /\ nBackfill' = ckpt[c].safe
  /\ zeroExcl' = None
  /\ Go(c, "cdone")
  /\ UNCHANGED << db, wal, dwal, idx, shm, marks, writer, ckpter, marksExcl, alive, reader, writing,
                  ckpt, ghosts, faults >>

(* sqlite3_interrupt between two pages.                                    *)
CkptInterrupt(c) ==
  /\ At(c, "ccopy") /\ ToCopy(c) # {}
  /\ zeroExcl' = None
  /\ Go(c, "cend")
  /\ UNCHANGED << files, shared, writer, ckpter, marksExcl, alive, reader, writing, ckpt, ghosts,
                  faults >>

(* RESTART and TRUNCATE wait until nobody reads the log; TRUNCATE then     *)
(* starts it again, and empties the file.                                  *)
CkptReset(c) ==
  /\ At(c, "cdone")
  /\ IF ckpt[c].mode = "truncate" /\ nBackfill >= hdr[c].mx /\ MarksFree(c)
     THEN LET h == Restarted(hdr[c], FreshSalt)
          IN  /\ marksExcl' = c
              /\ hdr' = [hdr EXCEPT ![c] = h]
              /\ shm' = [shm EXCEPT ![2] = h]
              /\ nCkpt' = [nCkpt EXCEPT ![c] = TRUE]
              /\ Go(c, "ctrunc")
     ELSE /\ Go(c, "cend")
          /\ UNCHANGED << marksExcl, hdr, shm, nCkpt >>
  /\ UNCHANGED << files, idx, nBackfill, marks, writer, ckpter, zeroExcl, alive, tmp, readLock,
                  mark, minFrame, cached, txn, mine, dirty, saved, batch, last, recksum, ckpt,
                  ghosts, faults >>

CkptResetHeader(c) ==
  /\ At(c, "ctrunc")
  /\ shm' = [shm EXCEPT ![1] = hdr[c]]
  /\ Go(c, "ctruncinfo")
  /\ UNCHANGED << files, idx, nBackfill, marks, locks, alive, reader, writing, ckpt, ghosts,
                  faults >>

CkptTruncate(c) ==
  /\ At(c, "ctruncinfo")
  /\ RestartInfo
  /\ wal' = EmptyLog
  /\ marksExcl' = None
  /\ Go(c, "cend")
  /\ UNCHANGED << db, ddb, dwal, idx, shm, writer, ckpter, zeroExcl, alive, reader, writing, ckpt,
                  ghosts, faults >>

\* Mutant: the header that the checkpoint has read is kept.
ForgetHeaderNot(c) == UNCHANGED hdr

(* The cache was not dropped for the header that the checkpoint has read:  *)
(* the connection has to find it changed when it reads next.               *)
ForgetHeader(c) == hdr' = [hdr EXCEPT ![c] = IF ckpt[c].changed THEN NoHdr ELSE @]

CkptEnd(c) ==
  /\ At(c, "cend")
  /\ ForgetHeader(c)
  /\ writer' = Dropped(writer, c) /\ ckpter' = None
  /\ ckpt' = [ckpt EXCEPT ![c] = NoCkpt]
  /\ Go(c, "idle")
  /\ UNCHANGED << files, shared, zeroExcl, marksExcl, alive, tmp, readLock, mark, minFrame, cached,
                  writing, ghosts, faults >>
-----------------------------------------------------------------------------
Step(c) ==
  \/ ReadFirst(c) \/ ReadSecond(c) \/ Reread(c) \/ Recover(c) \/ RecoverInfo(c)
  \/ BeginZero(c) \/ CheckZero(c) \/ ChooseMark(c) \/ LockMark(c) \/ Verify(c) \/ EndRead(c)
  \/ BeginWrite(c) \/ (\E p \in Pages : Modify(c, p) \/ Spill(c, p))
  \/ OpenSavepoint(c) \/ RollbackTo(c) \/ Rollback(c) \/ Commit(c)
  \/ RestartLog(c) \/ RestartHeader(c) \/ RestartEnd(c)
  \/ WriteLogHeader(c) \/ WriteFrame(c) \/ Rechecksum(c) \/ IndexFrames(c) \/ Publish(c)
  \/ CkptBegin(c) \/ CkptStart(c) \/ CkptMark(c) \/ CkptPlan(c) \/ CkptLock(c) \/ CkptSync(c)
  \/ CkptCopy(c) \/ CkptFill(c) \/ CkptInterrupt(c)
  \/ CkptReset(c) \/ CkptResetHeader(c) \/ CkptTruncate(c) \/ CkptEnd(c)

Next ==
  /\ UNCHANGED setting
  /\ \/ \E c \in Conns : Open(c) \/ Close(c) \/ Crash(c) \/ Step(c)
     \/ PowerLoss

Spec == Init /\ [][Next]_vars
-----------------------------------------------------------------------------
Wheres == {"idle", "chdr", "second", "dirty", "recover", "recovered", "begin", "zero", "lock",
           "verify", "read", "write", "restart", "restarted", "restartinfo", "frames", "publish",
           "ckpt", "cmark", "czero", "csalt", "ccopy", "cdone", "ctrunc", "ctruncinfo", "cend"}

Headers == [mx : 0 .. MaxFrames, salt : Nat, last : -1 .. MaxTxn]

TypeOK ==
  /\ pc \in [Conns -> Wheres]
  /\ hdr \in [Conns -> Headers] /\ tmp \in [Conns -> Headers] /\ shm \in [{1, 2} -> Headers]
  /\ readLock \in [Conns -> {-1, 0} \cup Marks]
  /\ minFrame \in [Conns -> 0 .. MaxFrames + 1]
  /\ marks \in [Marks -> 0 .. Unused] /\ nBackfill \in 0 .. MaxFrames
  /\ writer \in Conns \cup {None} /\ ckpter \in Conns \cup {None}
  /\ committed \in 0 .. MaxTxn /\ durable \in 0 .. MaxTxn

(* A reader sees in every page what its snapshot holds, whatever writers,  *)
(* checkpoints, restarts of the log and recoveries do meanwhile.           *)
SnapshotKept ==
  \A c \in Conns : pc[c] = "read" => \A p \in Pages : View(c, p) = hist[hdr[c].last][p]

(* A writer that reads back a page which has left its cache gets what it   *)
(* wrote, or what its savepoint restored.                                  *)
SpilledReadBack ==
  \A c \in Conns : pc[c] = "write" => \A p \in Pages \ dirty[c] : View(c, p) = mine[c][p]

(* Pages kept in the cache from one transaction to the next are those of   *)
(* the snapshot that is read.                                              *)
CacheCurrent == \A c \in Conns : pc[c] = "read" => cached[c] = hdr[c].last

(* What the header shows is never older than the last commit, nor, after a *)
(* loss of power, than the last commit that was synchronised.              *)
NothingLost == shm[1] # NoHdr /\ alive # {} => shm[1].last >= committed

(* The snapshot that a connection reads, or that its transaction began     *)
(* with.                                                                   *)
Snapshot(c) ==
  IF pc[c] = "publish" THEN committed
  ELSE IF pc[c] = "read" \/ txn[c] # 0 THEN hdr[c].last
  ELSE -1

SI == INSTANCE SnapshotIsolation
      WITH snap <- [c \in Conns |-> Snapshot(c)], MaxTxn <- Max({s.txns : s \in Settings})

(* The log implements snapshot isolation: a transaction that begins reads  *)
(* the last commit, one that commits has read the last commit, and nothing *)
(* but a loss of power takes a commit back.                                *)
Isolated == SI!Spec
=============================================================================
