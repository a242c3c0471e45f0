--------------------------- MODULE RollbackJournal ----------------------------
(***************************************************************************)
(* The rollback journal of sqlite3.go: how a connection looks for a hot    *)
(* journal and plays it back, how a transaction journals pages, spills     *)
(* them, commits in one file or, with a super-journal, in several, or is   *)
(* rolled back, and what a crash of one connection or a loss of power      *)
(* leaves behind.                                                          *)
(*                                                                         *)
(* The locks of the files are those of the VFS: a connection waits for     *)
(* none of them, a step that does not get its lock gives up.               *)
(***************************************************************************)
EXTENDS Integers, FiniteSets, FiniteSetsExt, Sequences

CONSTANTS Conns,
          Files,      \* databases that a connection has attached, from 1
          NPages,     \* bound: pages of a database
          Settings,   \* the settings and bounds that are tried
          None

Setting == [conns : SUBSET Conns,      \* bound: the connections there are
            writers : SUBSET Conns,    \* bound: those that write
            files : SUBSET Files,      \* bound: the files they use
            size : 0 .. NPages,        \* bound: their pages in the beginning
            grow : BOOLEAN,            \* bound: whether they get more
            txns : Nat,                \* bound: transactions that write
            spills : Nat,              \* bound: pages that leave a full cache
            faults : Nat,              \* bound: crashes, losses of power, failed commits
            mode : {"delete", "truncate", "persist"},  \* PRAGMA journal_mode
            sync : {"normal", "full", "extra"}]        \* PRAGMA synchronous

(* A page: the transaction that wrote it and, on page 1, the change        *)
(* counter; None, what a file has where nothing was written.               *)
Page == (Nat \X Nat) \cup {None}

(* A journal is a sequence of cells, each as long as a page and its number *)
(* or as a header.  by: the nonce of a header, and of the checksums that   *)
(* go with it.                                                             *)
Zero == [k |-> "zero"]
Hdr(t, i, orig) == [k |-> "hdr", by |-> << t, i >>, n |-> 0, orig |-> orig, magic |-> FALSE]
Rec(by, p, old) == [k |-> "rec", by |-> by, page |-> p, old |-> old]
Super(t) == [k |-> "super", name |-> t]

JournalCell ==
  {Zero}
  \cup [k : {"hdr"}, by : Nat \X Nat, n : Nat, orig : Nat, magic : BOOLEAN]
  \cup [k : {"rec"}, by : Nat \X Nat, page : Nat \ {0}, old : Page]
  \cup [k : {"super"}, name : Nat \ {0}]

ASSUME JournalAssumption ==
  /\ Files \subseteq Nat \ {0} /\ IsFiniteSet(Files) /\ NPages \in Nat \ {0}
  /\ \A s \in Settings : s \in Setting
  /\ None \notin Conns \cup (Nat \X Nat) \cup Seq(Page) \cup Seq(JournalCell)

VARIABLE setting   \* one of the settings, for good

Writers == setting.writers
MaxTxn == setting.txns
MaxSpills == setting.spills
MaxFaults == setting.faults
JMode == setting.mode
Full == setting.sync # "normal"
Extra == setting.sync = "extra"

Pages == 1 .. NPages
Txns == 1 .. MaxTxn

NONE == 0
SHARED == 1
RESERVED == 2
PENDING == 3
EXCLUSIVE == 4

VARIABLES
  db, jnl, supers,            \* the files, their journals, the super-journals
  ddb, djnl, dsupers,         \* what of them is on disk
  fresh,                      \* the journal on disk is another file, or was cut off
  lock, pc, op, cur,          \* one connection: its locks, what it does, in which file,
  reads, cache, mine,         \* the files it reads, its cache, what it has changed,
  jw, txn, sup, spill,        \* its journals, transaction, super-journal, spilled page
  txns, children, promised,   \* children: the journals a super-journal names
  faults, spills

disk == << db, jnl, supers, ddb, djnl, dsupers, fresh >>
ghosts == << txns, children, promised >>
bounds == << faults, spills >>
vars == << setting, disk, lock, pc, op, cur, reads, cache, mine, jw, txn, sup, spill, ghosts, bounds >>
-----------------------------------------------------------------------------
(* Sequences of cells and of pages.                                        *)
Put(s, i, x, gap) ==
  [k \in 1 .. Max({Len(s), i}) |-> IF k = i THEN x ELSE IF k <= Len(s) THEN s[k] ELSE gap]
Cell(j, i) == IF j # None /\ i \in DOMAIN j THEN j[i] ELSE Zero

(* readJournalHdr, and the loop of pager_playback: segment by segment,     *)
(* until a header or a checksum is not right.  The records to play back,   *)
(* by their places.                                                        *)
IsHdr(j, i) == Cell(j, i).k = "hdr" /\ j[i].magic

Valid(j, i) == {k \in 1 .. j[i].n :
                 \A m \in 1 .. k : Cell(j, i + m).k = "rec" /\ j[i + m].by = j[i].by}

Records(j, upto) ==
  LET From[i \in 1 .. upto] ==
        IF ~IsHdr(j, i) THEN {}
        ELSE LET next == i + j[i].n + 1 IN
             {i + k : k \in Valid(j, i)}
             \cup IF Cardinality(Valid(j, i)) = j[i].n /\ next \in i + 1 .. upto THEN From[next] ELSE {}
  IN IF upto = 0 THEN {} ELSE From[1]

(* readSuperJournal: the name is the last thing in the file.               *)
SuperName(j) == IF j = None \/ j = << >> THEN 0
                ELSE IF j[Len(j)].k = "super" THEN j[Len(j)].name ELSE 0

Counts(j, S) == SuperName(j) = 0 \/ SuperName(j) \in S
All(j) == IF j = None THEN 0 ELSE Len(j)

(* The records of a page that is in the file as it was; pager_truncate has *)
(* cut the others off.                                                     *)
OldPages(j, R) == {j[i].page : i \in R} \cap 1 .. j[1].orig
OldPage(j, R, p) == j[Max({i \in R : j[i].page = p})].old

(* What a hot journal makes of a file.                                     *)
Restored(f, j, S) ==
  IF ~IsHdr(j, 1) \/ ~Counts(j, S) THEN f
  ELSE LET R == Records(j, All(j)) IN
       [p \in 1 .. j[1].orig |->
          IF p \in OldPages(j, R) THEN OldPage(j, R, p)
          ELSE IF p \in DOMAIN f THEN f[p] ELSE None]

(* The change counter, and the bytes of page 1 a cache is compared by:     *)
(* zeros in a file that has no page 1 or where it was never written.       *)
Headed(f) == f # << >> /\ f[1] # None
Counter(f) == IF Headed(f) THEN f[1][2] ELSE 0
Version(f) == IF Headed(f) THEN << Counter(f), Len(f) >> ELSE << 0, 0 >>

(* What a connection knows of a journal that it writes: where it ends and  *)
(* its last header is, the records since, the pages it has and that have   *)
(* still to be synced.                                                     *)
JournalWriter == [off : Nat, hdr : Nat, n : Nat, orig : Nat, inJournal : SUBSET Nat,
                  need : SUBSET Nat, dirty : SUBSET Nat, mod : BOOLEAN, done : BOOLEAN]

NoJw == [off |-> 0, hdr |-> 0, n |-> 0, orig |-> 0, inJournal |-> {}, need |-> {},
         dirty |-> {}, mod |-> FALSE, done |-> FALSE]

Init ==
  /\ setting \in Settings
  /\ db = [d \in Files |-> [p \in 1 .. setting.size |-> << 0, 0 >>]]
  /\ ddb = db
  /\ jnl = [d \in Files |-> None] /\ djnl = jnl
  /\ supers = {} /\ dsupers = {}
  /\ fresh = {}
  /\ lock = [c \in Conns |-> [d \in Files |-> NONE]]
  /\ pc = [c \in Conns |-> "run"] /\ op = [c \in Conns |-> "read"]
  /\ cur = [c \in Conns |-> 0]
  /\ reads = [c \in Conns |-> {}]
  /\ cache = [c \in Conns |-> [d \in Files |-> None]] /\ mine = cache
  /\ jw = [c \in Conns |-> [d \in Files |-> NoJw]]
  /\ txn = [c \in Conns |-> 0] /\ sup = [c \in Conns |-> 0] /\ spill = [c \in Conns |-> 0]
  /\ txns = 0 /\ children = [t \in Txns |-> {}] /\ promised = {}
  /\ faults = 0 /\ spills = 0
-----------------------------------------------------------------------------
At(c, where) == pc[c] = where
Go(c, where) == pc' = [pc EXCEPT ![c] = where]
Locked(c, d, l) == lock' = [lock EXCEPT ![c][d] = l]
NoneAbove(c, d, l) == \A o \in Conns \ {c} : lock[o][d] < l

Reserved(c) == {d \in Files : lock[c][d] >= RESERVED}
local == << reads, cache, mine, jw, txn, sup, spill >>

(* sqlite3PagerSharedLock, until it has found out about a journal.         *)
Open(c, d) ==
  /\ c \in setting.conns /\ d \in setting.files
  /\ At(c, "run") /\ lock[c][d] = NONE /\ NoneAbove(c, d, PENDING)
  /\ Locked(c, d, SHARED)
  /\ Go(c, "exists") /\ op' = [op EXCEPT ![c] = "read"] /\ cur' = [cur EXCEPT ![c] = d]
  /\ UNCHANGED << disk, local, ghosts, bounds >>

HotExists(c) ==
  /\ At(c, "exists")
  /\ Go(c, IF jnl[cur[c]] = None THEN "check" ELSE "reserved")
  /\ UNCHANGED << disk, lock, op, cur, local, ghosts, bounds >>

HotReserved(c) ==
  LET d == cur[c] IN
  /\ At(c, "reserved")
  /\ Go(c, IF ~NoneAbove(c, d, RESERVED) THEN "check"
           ELSE IF db[d] = << >> THEN "empty" ELSE "byte")
  /\ UNCHANGED << disk, lock, op, cur, local, ghosts, bounds >>

(* The journal of an empty file is not played back but deleted.            *)
HotEmpty(c) ==
  LET d == cur[c] IN
  /\ At(c, "empty")
  /\ IF NoneAbove(c, d, RESERVED)
     THEN jnl' = [jnl EXCEPT ![d] = None] /\ fresh' = fresh \cup {d}
     ELSE UNCHANGED << jnl, fresh >>
  /\ Go(c, "check")
  /\ UNCHANGED << db, supers, ddb, djnl, dsupers, lock, op, cur, local, ghosts, bounds >>

HotByte(c) ==
  LET hot == IsHdr(jnl[cur[c]], 1) IN
  /\ At(c, "byte")
  /\ Go(c, IF hot THEN "excl" ELSE "check")
  /\ UNCHANGED << disk, lock, op, cur, local, ghosts, bounds >>

HotLock(c) ==
  LET d == cur[c]  ok == NoneAbove(c, d, SHARED) IN
  /\ At(c, "excl")
  /\ Locked(c, d, IF ok THEN EXCLUSIVE ELSE NONE)
  /\ Go(c, IF ok THEN "open" ELSE "run")
  /\ UNCHANGED << disk, op, cur, local, ghosts, bounds >>

(* The journal may be gone by now; if it is not, it is synced.             *)
StillThere(d) == jnl[d] # None

HotOpen(c) ==
  LET d == cur[c] IN
  /\ At(c, "open")
  /\ IF StillThere(d)
     THEN /\ djnl' = [djnl EXCEPT ![d] = jnl[d]] /\ fresh' = fresh \ {d}
          /\ Go(c, "play") /\ UNCHANGED lock
     ELSE Go(c, "check") /\ Locked(c, d, SHARED) /\ UNCHANGED << djnl, fresh >>
  /\ op' = [op EXCEPT ![c] = "hot"]
  /\ UNCHANGED << db, jnl, supers, ddb, dsupers, cur, local, ghosts, bounds >>

StaleOnce(c, d) == cache[c][d] = None   \* mutant

(* The cache is kept if the file has the version it was read from.         *)
Stale(c, d) == cache[c][d] = None \/ Version(cache[c][d]) # Version(db[d])

Check(c) ==
  LET d == cur[c] IN
  /\ At(c, "check")
  /\ cache' = IF Stale(c, d) THEN [cache EXCEPT ![c][d] = db[d]] ELSE cache
  /\ reads' = [reads EXCEPT ![c] = @ \cup {d}]
  /\ Go(c, "run")
  /\ UNCHANGED << disk, lock, op, cur, mine, jw, txn, sup, spill, ghosts, bounds >>

(* The end of a transaction that has written nothing.                      *)
End(c) ==
  /\ At(c, "run") /\ Reserved(c) = {} /\ reads[c] # {}
  /\ lock' = [lock EXCEPT ![c] = [d \in Files |-> NONE]]
  /\ reads' = [reads EXCEPT ![c] = {}]
  /\ UNCHANGED << disk, pc, op, cur, cache, mine, jw, txn, sup, spill, ghosts, bounds >>
-----------------------------------------------------------------------------
(* pager_playback, of a hot journal or of a transaction's own: its records *)
(* go to the file as far as they were synced.                              *)

Named(c, d) == SuperName(jnl[d])

PlayRecords(c, d) ==
  LET j == jnl[d] IN
  IF ~Counts(j, supers) THEN {}
  ELSE IF op[c] = "hot" THEN Records(j, All(j))
  ELSE IF jw[c][d].mod THEN Records(j, jw[c][d].hdr - 1) ELSE {}

PlayOrig(c, d) ==
  IF op[c] # "hot" THEN IF jw[c][d].mod THEN jw[c][d].orig ELSE Len(db[d])
  ELSE IF IsHdr(jnl[d], 1) /\ Counts(jnl[d], supers) THEN jnl[d][1].orig ELSE Len(db[d])

ToPlay(c, d) ==
  LET R == PlayRecords(c, d) IN
  IF R = {} THEN {}
  ELSE {p \in OldPages(jnl[d], R) : p \notin DOMAIN db[d] \/ db[d][p] # OldPage(jnl[d], R, p)}

Cut(f, n) == SubSeq(f, 1, n)

PlayTruncate(c) ==
  LET d == cur[c] IN
  /\ At(c, "play") /\ Len(db[d]) > PlayOrig(c, d)
  /\ db' = [db EXCEPT ![d] = Cut(@, PlayOrig(c, d))]
  /\ UNCHANGED << jnl, supers, ddb, djnl, dsupers, fresh, lock, pc, op, cur, local, ghosts, bounds >>

PlayPage(c) ==
  LET d == cur[c]  todo == ToPlay(c, d)  p == Min(todo) IN
  /\ At(c, "play") /\ Len(db[d]) <= PlayOrig(c, d) /\ todo # {}
  /\ db' = [db EXCEPT ![d] = Put(@, p, OldPage(jnl[d], PlayRecords(c, d), p), None)]
  /\ UNCHANGED << jnl, supers, ddb, djnl, dsupers, fresh, lock, pc, op, cur, local, ghosts, bounds >>

PlaySync(c) ==
  LET d == cur[c] IN
  /\ At(c, "play") /\ Len(db[d]) <= PlayOrig(c, d) /\ ToPlay(c, d) = {}
  /\ ddb' = IF op[c] = "hot" \/ jw[c][d].mod THEN [ddb EXCEPT ![d] = db[d]] ELSE ddb
  /\ sup' = [sup EXCEPT ![c] = IF Named(c, d) \in supers THEN Named(c, d) ELSE 0]
  /\ Go(c, "fin")
  /\ UNCHANGED << db, jnl, supers, djnl, dsupers, fresh, lock, op, cur,
                  reads, cache, mine, jw, txn, spill, ghosts, bounds >>

(* pager_end_transaction finalises the journal.  One that names a super-   *)
(* journal is cut off rather than zeroed: the name would stay at its end.  *)
CutOff(c, d) == JMode = "truncate" \/ Named(c, d) # 0
Finalised(c, d) ==
  IF JMode = "delete" THEN None
  ELSE IF CutOff(c, d) THEN << >> ELSE Put(jnl[d], 1, Zero, Zero)

FinNotSynced == FALSE   \* mutant

FinSynced == JMode = "persist" \/ (JMode = "truncate" /\ Full)

Committing(c) == op[c] = "commit"
Last(c) == Reserved(c) = {cur[c]}

(* In one file, this is the commit.                                        *)
Fin(c) ==
  LET d == cur[c] IN
  /\ At(c, "fin")
  /\ jnl' = [jnl EXCEPT ![d] = Finalised(c, d)]
  /\ djnl' = IF JMode = "delete" /\ Extra THEN [djnl EXCEPT ![d] = None] ELSE djnl
  /\ fresh' = IF JMode = "persist" /\ ~CutOff(c, d) THEN fresh ELSE fresh \cup {d}
  /\ IF Committing(c) /\ mine[c][d] # None
     THEN /\ cache' = [cache EXCEPT ![c][d] = mine[c][d]]
          /\ mine' = [mine EXCEPT ![c][d] = None]
          /\ promised' = promised \ {d}
     ELSE UNCHANGED << cache, mine, promised >>
  /\ Go(c, IF FinSynced THEN "finsync" ELSE "unlock")
  /\ UNCHANGED << db, supers, ddb, dsupers, lock, op, cur, reads, jw, txn, sup, spill,
                  txns, children, bounds >>

FinSync(c) ==
  LET d == cur[c] IN
  /\ At(c, "finsync")
  /\ djnl' = [djnl EXCEPT ![d] = jnl[d]] /\ fresh' = fresh \ {d}
  /\ Go(c, "unlock")
  /\ UNCHANGED << db, jnl, supers, ddb, dsupers, lock, op, cur, local, ghosts, bounds >>

Durable == (JMode = "delete" => Extra) /\ (JMode = "truncate" => Full)

(* The lock is a reader's again; after a playback the super-journal may    *)
(* have to go.  The commit or rollback goes on with the next file.         *)
Unlock(c) ==
  LET d == cur[c] IN
  /\ At(c, "unlock")
  /\ Locked(c, d, SHARED)
  /\ IF op[c] = "hot" THEN UNCHANGED << jw, mine, txn >>
     ELSE /\ jw' = [jw EXCEPT ![c][d] = NoJw] /\ mine' = [mine EXCEPT ![c][d] = None]
          /\ txn' = IF Last(c) THEN [txn EXCEPT ![c] = 0] ELSE txn
  /\ promised' = IF Committing(c) THEN promised \cup {d} ELSE promised
  /\ Go(c, IF sup[c] # 0 THEN "delsuper"
           ELSE IF op[c] = "hot" THEN "check" ELSE IF Last(c) THEN "run" ELSE "next")
  /\ op' = IF op[c] # "hot" /\ Last(c) /\ sup[c] = 0 THEN [op EXCEPT ![c] = "read"] ELSE op
  /\ UNCHANGED << disk, cur, reads, cache, sup, spill, txns, children, bounds >>

(* A super-journal goes when no other journal names it.                    *)
OthersName(c) ==
  \E d \in children[sup[c]] \ {cur[c]} : SuperName(jnl[d]) = sup[c]

DelSuper(c) ==
  /\ At(c, "delsuper")
  /\ supers' = IF OthersName(c) THEN supers ELSE supers \ {sup[c]}
  /\ sup' = [sup EXCEPT ![c] = 0]
  /\ Go(c, IF op[c] = "hot" THEN "check" ELSE IF Reserved(c) = {} THEN "run" ELSE "next")
  /\ op' = IF op[c] # "hot" /\ Reserved(c) = {} THEN [op EXCEPT ![c] = "read"] ELSE op
  /\ UNCHANGED << db, jnl, ddb, djnl, dsupers, fresh, lock, cur,
                  reads, cache, mine, jw, txn, spill, ghosts, bounds >>

(* The next file of a commit that is done, or of a rollback.               *)
NextFile(c) ==
  LET d == Min(Reserved(c)) IN
  /\ At(c, "next")
  /\ cur' = [cur EXCEPT ![c] = d]
  /\ Go(c, IF Committing(c) THEN "fin" ELSE IF jw[c][d].off = 0 THEN "unlock" ELSE "play")
  /\ UNCHANGED << disk, lock, op, local, ghosts, bounds >>
-----------------------------------------------------------------------------
(* A transaction that writes. *)

Reserve(c, d) ==
  /\ c \in Writers /\ At(c, "run") /\ d \in reads[c] /\ lock[c][d] = SHARED
  /\ NoneAbove(c, d, RESERVED)
  /\ txns < MaxTxn \/ txn[c] # 0
  /\ Locked(c, d, RESERVED)
  /\ IF txn[c] = 0 THEN txns' = txns + 1 /\ txn' = [txn EXCEPT ![c] = txns + 1]
     ELSE UNCHANGED << txns, txn >>
  /\ jw' = [jw EXCEPT ![c][d].orig = Len(db[d])]
  /\ UNCHANGED << disk, pc, op, cur, reads, cache, mine, sup, spill, children, promised, bounds >>

(* The journal as pager_open_journal leaves it, and with the page in it.   *)
Opened(c, d) ==
  IF jw[c][d].off # 0 THEN << jnl[d], jw[c][d] >>
  ELSE << Put(IF jnl[d] = None THEN << >> ELSE jnl[d], 1, Hdr(txn[c], 1, jw[c][d].orig), Zero),
          [jw[c][d] EXCEPT !.off = 1, !.hdr = 1] >>

Journaled(c, d, p) ==
  LET o == Opened(c, d)  j == o[1]  w == o[2] IN
  IF p > w.orig \/ p \in w.inJournal
  THEN << j, [w EXCEPT !.dirty = @ \cup {p},
                       !.need = IF p > w.orig /\ ~w.mod THEN @ \cup {p} ELSE @] >>
  ELSE << Put(j, w.off + 1, Rec(j[w.hdr].by, p, cache[c][d][p]), Zero),
          [w EXCEPT !.off = @ + 1, !.n = @ + 1, !.inJournal = @ \cup {p},
                    !.dirty = @ \cup {p}, !.need = @ \cup {p}] >>

Mine(c, d) == IF mine[c][d] = None THEN cache[c][d] ELSE mine[c][d]

(* pager_write, of a page that is there or of the next one.                *)
Write(c, d, p) ==
  LET w == Journaled(c, d, p) IN
  /\ At(c, "run") /\ lock[c][d] >= RESERVED
  /\ p <= Len(Mine(c, d)) + IF setting.grow THEN 1 ELSE 0
  /\ jnl' = [jnl EXCEPT ![d] = w[1]]
  /\ jw' = [jw EXCEPT ![c][d] = w[2]]
  /\ mine' = [mine EXCEPT ![c][d] = Put(Mine(c, d), p, << txn[c], IF p = 1 THEN Counter(cache[c][d]) ELSE 0 >>, None)]
  /\ UNCHANGED << db, supers, ddb, djnl, dsupers, fresh, lock, pc, op, cur,
                  reads, cache, txn, sup, spill, ghosts, bounds >>

(* pagerStress: a changed page leaves a full cache.                        *)
Spill(c, d, p) ==
  /\ At(c, "run") /\ spills < MaxSpills /\ p \in jw[c][d].dirty
  /\ spills' = spills + 1
  /\ cur' = [cur EXCEPT ![c] = d] /\ op' = [op EXCEPT ![c] = "write"]
  /\ spill' = [spill EXCEPT ![c] = p]
  /\ Go(c, IF p \notin jw[c][d].need /\ jw[c][d].mod THEN "page" ELSE "sync")
  /\ UNCHANGED << disk, lock, reads, cache, mine, jw, txn, sup, ghosts, faults >>

Commit(c) ==
  /\ At(c, "run") /\ Reserved(c) # {} /\ \A d \in Reserved(c) : mine[c][d] # None
  /\ op' = [op EXCEPT ![c] = "commit"] /\ Go(c, "lock")
  /\ UNCHANGED << disk, lock, cur, local, ghosts, bounds >>

(* sqlite3PagerExclusiveLock.  A lock it does not get stays PENDING: no    *)
(* reader comes any more, and the commit can be tried again.               *)
Exclusive(c, d) == NoneAbove(c, d, SHARED)

CommitLock(c) ==
  LET todo == {d \in Reserved(c) : lock[c][d] < EXCLUSIVE}  d == Min(todo) IN
  /\ At(c, "lock")
  /\ IF todo = {} THEN
        /\ Go(c, IF Cardinality(Reserved(c)) > 1 THEN "super" ELSE "prepare")
        /\ cur' = [cur EXCEPT ![c] = Min(Reserved(c))]
        /\ UNCHANGED lock
     ELSE IF Exclusive(c, d) THEN Locked(c, d, EXCLUSIVE) /\ UNCHANGED << pc, cur >>
     ELSE Locked(c, d, PENDING) /\ Go(c, "run") /\ UNCHANGED cur
  /\ UNCHANGED << disk, op, local, ghosts, bounds >>

(* The super-journal: the names of the journals, synced.                   *)
WriteSuper(c) ==
  /\ At(c, "super")
  /\ supers' = supers \cup {txn[c]} /\ dsupers' = dsupers \cup {txn[c]}
  /\ children' = [children EXCEPT ![txn[c]] = Reserved(c)]
  /\ Go(c, "prepare")
  /\ UNCHANGED << db, jnl, ddb, djnl, fresh, lock, op, cur, local, txns, promised, bounds >>

Incremented(c) == Counter(cache[c][cur[c]]) + 1

(* sqlite3PagerCommitPhaseOne: the change counter, and the name of the     *)
(* super-journal at the end of the journal.                                *)
Prepare(c) ==
  LET d == cur[c]
      w == Journaled(c, d, 1)
      named == Put(Cut(w[1], w[2].off), w[2].off + 1, Super(txn[c]), Zero)
  IN
  /\ At(c, "prepare")
  /\ mine' = [mine EXCEPT ![c][d][1] = << txn[c], Incremented(c) >>]
  /\ IF Cardinality(Reserved(c)) > 1
     THEN jnl' = [jnl EXCEPT ![d] = named] /\ jw' = [jw EXCEPT ![c][d] = [w[2] EXCEPT !.off = @ + 1]]
     ELSE jnl' = [jnl EXCEPT ![d] = w[1]] /\ jw' = [jw EXCEPT ![c][d] = w[2]]
  /\ Go(c, "sync")
  /\ UNCHANGED << db, supers, ddb, djnl, dsupers, fresh, lock, op, cur,
                  reads, cache, txn, sup, spill, ghosts, bounds >>

SpoilNothing(j, i) == j   \* mutant

(* syncJournal: what looks like the header of an old journal after this    *)
(* one is spoilt, and the records are synced,                              *)
SpoilNext(j, i) == IF IsHdr(j, i) THEN Put(j, i, Zero, Zero) ELSE j

SyncRecords(c) ==
  LET d == cur[c]  j == SpoilNext(jnl[d], jw[c][d].off + 1) IN
  /\ At(c, "sync")
  /\ IF Exclusive(c, d)
     THEN /\ Locked(c, d, EXCLUSIVE)
          /\ jnl' = [jnl EXCEPT ![d] = j]
          /\ IF Full THEN djnl' = [djnl EXCEPT ![d] = j] /\ fresh' = fresh \ {d}
             ELSE UNCHANGED << djnl, fresh >>
          /\ Go(c, "count") /\ UNCHANGED spill
     ELSE /\ Locked(c, d, PENDING)
          /\ Go(c, "run") /\ spill' = [spill EXCEPT ![c] = 0]
          /\ UNCHANGED << jnl, djnl, fresh >>
  /\ UNCHANGED << db, supers, ddb, dsupers, op, cur,
                  reads, cache, mine, jw, txn, sup, ghosts, bounds >>

(* then their number goes to the header, which makes the journal hot,      *)
Count(c) ==
  LET d == cur[c]  w == jw[c][d] IN
  /\ At(c, "count")
  /\ jnl' = [jnl EXCEPT ![d][w.hdr] = [@ EXCEPT !.n = w.n, !.magic = TRUE]]
  /\ Go(c, "sync2")
  /\ UNCHANGED << db, supers, ddb, djnl, dsupers, fresh, lock, op, cur, local, ghosts, bounds >>

(* which is synced too.  A transaction that goes on gets a new header.     *)
SyncCount(c) ==
  LET d == cur[c]  w == jw[c][d]
      v == [w EXCEPT !.need = {}, !.mod = TRUE]
  IN
  /\ At(c, "sync2")
  /\ djnl' = [djnl EXCEPT ![d] = jnl[d]] /\ fresh' = fresh \ {d}
  /\ IF Committing(c)
     THEN jw' = [jw EXCEPT ![c][d] = [v EXCEPT !.hdr = w.off + 1]] /\ UNCHANGED jnl
     ELSE /\ jnl' = [jnl EXCEPT ![d] = Put(@, w.off + 1, Hdr(txn[c], w.off + 1, w.orig), Zero)]
          /\ jw' = [jw EXCEPT ![c][d] = [v EXCEPT !.off = w.off + 1, !.hdr = w.off + 1, !.n = 0]]
  /\ Go(c, "page")
  /\ UNCHANGED << db, supers, ddb, dsupers, lock, op, cur,
                  reads, cache, mine, txn, sup, spill, ghosts, bounds >>

(* pager_write_pagelist *)
WritePage(c) ==
  LET d == cur[c]
      p == IF Committing(c) THEN Min(jw[c][d].dirty) ELSE spill[c]
      w == [jw[c][d] EXCEPT !.dirty = @ \ {p}]
  IN
  /\ At(c, "page") /\ jw[c][d].dirty # {}
  /\ db' = [db EXCEPT ![d] = Put(@, p, mine[c][d][p], None)]
  /\ jw' = [jw EXCEPT ![c][d] = w]
  /\ spill' = [spill EXCEPT ![c] = 0]
  /\ IF Committing(c) THEN UNCHANGED pc ELSE Go(c, "run")
  /\ UNCHANGED << jnl, supers, ddb, djnl, dsupers, fresh, lock, op, cur,
                  reads, cache, mine, txn, sup, ghosts, bounds >>

(* The end of phase one in a file: all its pages are on disk.              *)
SyncDb(c) ==
  LET d == cur[c]
      todo == {e \in Reserved(c) : e # d /\ ~jw[c][e].done}
  IN
  /\ At(c, "page") /\ jw[c][d].dirty = {}
  /\ ddb' = [ddb EXCEPT ![d] = db[d]]
  /\ jw' = [jw EXCEPT ![c][d].done = TRUE]
  /\ cur' = [cur EXCEPT ![c] = IF todo # {} THEN Min(todo) ELSE Min(Reserved(c))]
  /\ Go(c, IF todo # {} THEN "prepare"
           ELSE IF Cardinality(Reserved(c)) > 1 THEN "commit" ELSE "fin")
  /\ UNCHANGED << db, jnl, supers, djnl, dsupers, fresh, lock, op,
                  reads, cache, mine, txn, sup, spill, ghosts, bounds >>

(* The commit in several files: the super-journal is deleted, for good.    *)
DeleteSuper(c) ==
  /\ At(c, "commit")
  /\ supers' = supers \ {txn[c]} /\ dsupers' = dsupers \ {txn[c]}
  /\ cache' = [cache EXCEPT ![c] = [d \in Files |-> IF d \in Reserved(c) THEN mine[c][d] ELSE @[d]]]
  /\ mine' = [mine EXCEPT ![c] = [d \in Files |-> None]]
  /\ promised' = promised \ Reserved(c)
  /\ Go(c, "next")
  /\ UNCHANGED << db, jnl, ddb, djnl, fresh, lock, op, cur, reads, jw, txn, sup, spill,
                  txns, children, bounds >>

(* A ROLLBACK, or a step of phase one that fails.                          *)
Rollback(c) ==
  /\ Reserved(c) # {}
  /\ \/ At(c, "run") /\ UNCHANGED faults
     \/ /\ pc[c] \in {"lock", "super", "prepare", "sync", "count", "sync2", "page", "commit"}
        /\ faults < MaxFaults /\ faults' = faults + 1
  /\ op' = [op EXCEPT ![c] = "rollback"] /\ Go(c, "next")
  /\ spill' = [spill EXCEPT ![c] = 0]
  /\ UNCHANGED << disk, lock, cur, reads, cache, mine, jw, txn, sup, ghosts, spills >>
-----------------------------------------------------------------------------
(* Faults. *)

Gone(C) ==
  /\ lock' = [c \in Conns |-> IF c \in C THEN [d \in Files |-> NONE] ELSE lock[c]]
  /\ pc' = [c \in Conns |-> IF c \in C THEN "run" ELSE pc[c]]
  /\ op' = [c \in Conns |-> IF c \in C THEN "read" ELSE op[c]]
  /\ cur' = [c \in Conns |-> IF c \in C THEN 0 ELSE cur[c]]
  /\ reads' = [c \in Conns |-> IF c \in C THEN {} ELSE reads[c]]
  /\ cache' = [c \in Conns |-> IF c \in C THEN [d \in Files |-> None] ELSE cache[c]]
  /\ mine' = [c \in Conns |-> IF c \in C THEN [d \in Files |-> None] ELSE mine[c]]
  /\ jw' = [c \in Conns |-> IF c \in C THEN [d \in Files |-> NoJw] ELSE jw[c]]
  /\ txn' = [c \in Conns |-> IF c \in C THEN 0 ELSE txn[c]]
  /\ sup' = [c \in Conns |-> IF c \in C THEN 0 ELSE sup[c]]
  /\ spill' = [c \in Conns |-> IF c \in C THEN 0 ELSE spill[c]]

Fault == faults < MaxFaults /\ faults' = faults + 1

Crash(c) ==
  /\ Fault
  /\ ~At(c, "run") \/ reads[c] # {}
  /\ Gone({c})
  /\ UNCHANGED << disk, ghosts, spills >>

(* What was not synced reaches the disk piece by piece, in any order, or   *)
(* does not.                                                               *)
Mixes(old, new, gap) ==
  UNION {{[i \in 1 .. n |-> IF i \in S THEN IF i <= Len(new) THEN new[i] ELSE old[i]
                            ELSE IF i <= Len(old) THEN old[i] ELSE gap]
          : S \in SUBSET (1 .. n)}
         : n \in {Len(old), Len(new)}}

Journals(d) ==
  LET old == djnl[d]  new == jnl[d] IN
  IF new = None THEN {old, None}
  ELSE IF old = None \/ d \in fresh THEN {old} \cup Mixes(<< >>, new, Zero)
  ELSE Mixes(old, new, Zero)

PowerLoss ==
  /\ Fault
  /\ jnl' \in {j \in [Files -> UNION {Journals(d) : d \in Files}] :
                 \A d \in Files : j[d] \in Journals(d)}
  /\ djnl' = jnl'
  /\ db' \in {f \in [Files -> UNION {Mixes(ddb[d], db[d], None) : d \in Files}] :
                 \A d \in Files : f[d] \in Mixes(ddb[d], db[d], None)}
  /\ ddb' = db'
  /\ \E S \in SUBSET (dsupers \ supers) : supers' = supers \cup S
  /\ dsupers' = supers' /\ fresh' = {}
  /\ Gone(Conns)
  /\ UNCHANGED << ghosts, spills >>

Step(c) ==
  \/ HotExists(c) \/ HotReserved(c) \/ HotEmpty(c) \/ HotByte(c) \/ HotLock(c) \/ HotOpen(c)
  \/ PlayTruncate(c) \/ PlayPage(c) \/ PlaySync(c)
  \/ Fin(c) \/ FinSync(c) \/ Unlock(c) \/ DelSuper(c) \/ NextFile(c) \/ Check(c)
  \/ CommitLock(c) \/ WriteSuper(c) \/ Prepare(c) \/ SyncRecords(c) \/ Count(c) \/ SyncCount(c)
  \/ WritePage(c) \/ SyncDb(c) \/ DeleteSuper(c)

Next ==
  /\ UNCHANGED setting
  /\ \/ PowerLoss
     \/ \E c \in Conns : Step(c) \/ End(c) \/ Commit(c) \/ Rollback(c) \/ Crash(c)
     \/ \E c \in Conns, d \in Files : Open(c, d) \/ Reserve(c, d)
     \/ \E c \in Conns, d \in Files, p \in Pages : Write(c, d, p) \/ Spill(c, d, p)

Spec == Init /\ [][Next]_vars
-----------------------------------------------------------------------------
(* What a file holds for its next reader, and what it would after a loss   *)
(* of power.                                                               *)
Store(d) == Restored(db[d], jnl[d], supers)
Fallback(d) == LET b == Restored(db[d], djnl[d], dsupers) IN IF b = Store(d) THEN None ELSE b

(* What AtomicCommit speaks of.  A file has no page that was never written. *)
Contents == {f \in Seq(Nat \X Nat) : Len(f) <= NPages}
Held == [d \in Files |-> Store(d)]
Left == [d \in Files |-> Fallback(d)]
Seen == [c \in Conns |-> [d \in Files |-> IF d \in reads[c] THEN cache[c][d] ELSE None]]
Drafted == [c \in Conns |-> [d \in Files |-> IF op[c] = "rollback" THEN None ELSE mine[c][d]]]

AC == INSTANCE AtomicCommit WITH store <- Held, back <- Left, seen <- Seen, draft <- Drafted

(* Each transaction changes all its files in one step, under nobody's      *)
(* eyes; what a connection reads is what the files hold; crashes and       *)
(* losses of power change nothing, but for the last commit in one file     *)
(* until its journal is gone for good.                                     *)
Atomic == AC!Spec

(* What a commit has promised is not lost with the power.                  *)
NothingLost == Durable => \A d \in promised : Fallback(d) = None

(* A connection that reads a file has in its cache what the file holds,    *)
(* unless it is itself about to change it.                                 *)
CacheCurrent ==
  \A c \in Conns : \A d \in reads[c] : ~jw[c][d].mod => cache[c][d] = db[d]

Places == {"run", "exists", "reserved", "empty", "byte", "excl", "open", "check",
           "play", "fin", "finsync", "unlock", "delsuper", "next",
           "lock", "super", "prepare", "sync", "count", "sync2", "page", "commit"}

TypeOK ==
  /\ setting \in Settings
  /\ db \in [Files -> Seq(Page)] /\ ddb \in [Files -> Seq(Page)]
  /\ jnl \in [Files -> Seq(JournalCell) \cup {None}]
  /\ djnl \in [Files -> Seq(JournalCell) \cup {None}]
  /\ supers \subseteq Txns /\ dsupers \subseteq Txns /\ fresh \subseteq Files
  /\ lock \in [Conns -> [Files -> NONE .. EXCLUSIVE]]
  /\ pc \in [Conns -> Places]
  /\ op \in [Conns -> {"read", "hot", "write", "commit", "rollback"}]
  /\ cur \in [Conns -> Files \cup {0}] /\ reads \in [Conns -> SUBSET Files]
  /\ cache \in [Conns -> [Files -> Seq(Page) \cup {None}]]
  /\ mine \in [Conns -> [Files -> Seq(Page) \cup {None}]]
  /\ jw \in [Conns -> [Files -> JournalWriter]]
  /\ txn \in [Conns -> 0 .. MaxTxn] /\ sup \in [Conns -> 0 .. MaxTxn]
  /\ spill \in [Conns -> Nat]
  /\ txns \in 0 .. MaxTxn /\ children \in [Txns -> SUBSET Files] /\ promised \subseteq Files
  /\ faults \in Nat /\ spills \in Nat
=============================================================================
