------------------------------- MODULE Backup ---------------------------------
(***************************************************************************)
(* Backups of sqlite3.go: a database is copied a few pages at a time while *)
(* its own connection and others go on writing.  What the connection       *)
(* writes to pages already copied is copied again at once; what others     *)
(* write makes the backup start over.                                      *)
(***************************************************************************)
EXTENDS Integers

CONSTANTS Backups,    \* backups of one source, each to a database of its own
          NPages,     \* bound: pages of the source
          MaxWrites,  \* bound: changes of pages
          MaxErrors,  \* bound: steps of a backup that fail
          Settings    \* the settings that are tried

Pages == 1 .. NPages

Setting == [kind : {"journal", "wal", "memory"},   \* of the source
            backups : SUBSET Backups,              \* bound: the backups there are
            pages : Pages,                         \* bound: its pages,
            writes : 0 .. MaxWrites]               \* bound: and changes of them

ASSUME BackupAssumption ==
  /\ NPages \in Nat \ {0} /\ MaxWrites \in Nat /\ MaxErrors \in Nat
  /\ Settings \subseteq Setting

Values == 0 .. MaxWrites   \* the contents of a page: which change made it
Content == [Pages -> Values]

VARIABLES
  setting,            \* one of the settings, for good
  file, fsize,        \* the source, as last committed,
  snap, ssize, seen,  \* as its connection last saw it, and if that is the last commit,
  reading, writing,   \* its connection's transactions,
  mine, msize,        \* what it has changed: -1 is a page it has not,
  out,                \* what of it has left its cache,
  next, rc,           \* a backup: the next page, the last result,
  attached, temp,     \* the pager knows of it, the destination's transaction,
  dest,               \* and the destination: size and pages
  writes, errors

source == << file, fsize, snap, ssize, seen >>
own == << reading, writing, mine, msize, out >>
backup == << next, rc, attached, temp, dest >>
state == << source, own, backup, writes, errors >>
Kind == setting.kind
vars == << setting, state >>

Clean == [p \in Pages |-> -1]
NoDest == [size |-> 0, pages |-> [p \in Pages |-> 0]]

Init ==
  /\ setting \in Settings
  /\ file = [p \in Pages |-> 0] /\ fsize \in 1 .. setting.pages
  /\ snap = file /\ ssize = fsize /\ seen = TRUE
  /\ reading = FALSE /\ writing = FALSE
  /\ mine = Clean /\ msize = 0 /\ out = Clean
  /\ next = [b \in Backups |-> 1] /\ rc = [b \in Backups |-> "ok"]
  /\ attached = {}
  /\ temp = [b \in Backups |-> [p \in Pages |-> 0]]
  /\ dest = [b \in Backups |-> NoDest]
  /\ writes = 0 /\ errors = 0
-----------------------------------------------------------------------------
Alive(b) == rc[b] \in {"ok", "busy"}

(* backupUpdate, for the pages of P: what is behind next is copied again.  *)
Update(b, P) == {p \in P : Alive(b) /\ p < next[b]}

Updated(P, content) ==
  [b \in Backups |-> IF b \in attached
                     THEN [p \in Pages |-> IF p \in Update(b, P) THEN content[p] ELSE temp[b][p]]
                     ELSE temp[b]]

(* sqlite3BackupRestart *)
RestartNone == next   \* mutant
Restarted == [b \in Backups |-> IF b \in attached THEN 1 ELSE next[b]]

(* A read lock of the source: after a commit of another connection, the    *)
(* cache and the backups start over.                                       *)
Locked ==
  /\ snap' = file /\ ssize' = fsize /\ seen' = TRUE
Fresh == IF seen THEN next ELSE Restarted

BeginRead ==
  /\ ~reading /\ reading' = TRUE
  /\ Locked /\ next' = Fresh
  /\ UNCHANGED << file, fsize, writing, mine, msize, out, rc, attached, temp, dest, writes, errors >>

EndRead ==
  /\ reading /\ ~writing /\ reading' = FALSE
  /\ UNCHANGED << source, writing, mine, msize, out, backup, writes, errors >>

BeginWrite ==
  /\ reading /\ ~writing /\ seen
  /\ writing' = TRUE /\ msize' = ssize
  /\ UNCHANGED << source, reading, mine, out, backup, writes, errors >>

(* A page is changed in the cache; a page after the last one is appended.  *)
Write(p) ==
  /\ writing /\ p <= msize + 1 /\ p <= setting.pages
  /\ writes < setting.writes /\ writes' = writes + 1
  /\ mine' = [mine EXCEPT ![p] = writes']
  /\ msize' = IF p > msize THEN p ELSE msize
  /\ UNCHANGED << source, reading, writing, out, backup, errors >>

(* The last page goes, and the first page counts one less.                 *)
Shrink ==
  /\ writing /\ msize > 1
  /\ writes < setting.writes /\ writes' = writes + 1
  /\ msize' = msize - 1
  /\ mine' = [mine EXCEPT ![msize] = -1, ![1] = writes']
  /\ UNCHANGED << source, reading, writing, out, backup, errors >>

Dirty == {p \in Pages : mine[p] # -1 /\ mine[p] # out[p]}

(* A changed page leaves a full cache for the file or the log.             *)
Spill(p) ==
  /\ writing /\ p \in Dirty /\ Kind # "memory"
  /\ out' = [out EXCEPT ![p] = mine[p]]
  /\ temp' = Updated({p}, mine)
  /\ UNCHANGED << source, reading, writing, mine, msize, next, rc, attached, dest, writes, errors >>

Result == [p \in Pages |-> IF mine[p] # -1 THEN mine[p] ELSE snap[p]]

(* The commit writes what is still in the cache.  A database in memory     *)
(* writes nothing: its backups start over.                                 *)
Commit ==
  /\ writing /\ writing' = FALSE
  /\ file' = Result /\ fsize' = msize
  /\ snap' = Result /\ ssize' = msize
  /\ IF Kind = "memory"
     THEN next' = (IF mine = Clean THEN next ELSE Restarted) /\ UNCHANGED temp
     ELSE temp' = Updated(Dirty, mine) /\ UNCHANGED next
  /\ mine' = Clean /\ msize' = 0 /\ out' = Clean
  /\ UNCHANGED << seen, reading, rc, attached, dest, writes, errors >>

(* Pages that have left the cache are written back from the journal; a log *)
(* is just cut off, and if anything was changed the backups start over.    *)
RollbackSilent == UNCHANGED << next, temp >>   \* mutant
RolledBack ==
  IF Kind = "wal"
  THEN next' = (IF mine # Clean \/ out # Clean THEN Restarted ELSE next) /\ UNCHANGED temp
  ELSE temp' = Updated({p \in 1 .. ssize : out[p] # -1}, snap) /\ UNCHANGED next

Rollback ==
  /\ writing /\ writing' = FALSE
  /\ RolledBack
  /\ mine' = Clean /\ msize' = 0 /\ out' = Clean
  /\ UNCHANGED << source, reading, rc, attached, dest, writes, errors >>

(* Another connection commits: with a journal only if nobody reads.        *)
OtherCommit(p, n) ==
  /\ Kind # "memory" /\ ~writing /\ (Kind = "journal" => ~reading)
  /\ writes < setting.writes /\ writes' = writes + 1
  /\ p <= n /\ n <= fsize + 1 /\ n <= setting.pages /\ (n > fsize => p = n)
  /\ file' = [file EXCEPT ![p] = writes'] /\ fsize' = n
  /\ seen' = FALSE
  /\ UNCHANGED << snap, ssize, own, backup, errors >>
-----------------------------------------------------------------------------
(* sqlite3_backup_step of k pages.  It is busy while the source's own      *)
(* connection writes.                                                      *)
RefusedReading == reading   \* mutant
Refused == writing

BusyStep(b) ==
  /\ Alive(b) /\ Refused /\ rc[b] # "busy"
  /\ rc' = [rc EXCEPT ![b] = "busy"]
  /\ UNCHANGED << source, own, next, attached, temp, dest, writes, errors >>

(* The first page, and the first page after this step.                     *)
From(b) == IF reading THEN next[b] ELSE Fresh[b]
To(b, k) == IF From(b) > ssize' THEN From(b) ELSE IF From(b) + k > ssize' THEN ssize' + 1 ELSE From(b) + k

Copied(b, k) ==
  [temp EXCEPT ![b] = [p \in Pages |-> IF p \in From(b) .. To(b, k) - 1 THEN snap'[p] ELSE @[p]]]

Step(b, k) ==
  /\ Alive(b) /\ ~Refused
  /\ IF reading THEN UNCHANGED << snap, ssize, seen >> ELSE Locked
  /\ next' = [(IF reading THEN next ELSE Fresh) EXCEPT ![b] = To(b, k)]
  /\ temp' = Copied(b, k)
  /\ IF To(b, k) > ssize'
     THEN /\ rc' = [rc EXCEPT ![b] = "done"]
          /\ dest' = [dest EXCEPT ![b] = [size |-> ssize', pages |-> temp'[b]]]
          /\ UNCHANGED attached
     ELSE /\ rc' = [rc EXCEPT ![b] = "ok"]
          /\ attached' = attached \cup {b}
          /\ UNCHANGED dest
  /\ UNCHANGED << file, fsize, own, writes, errors >>

(* A step fails for another reason: the backup can only be finished.       *)
FailedStep(b) ==
  /\ Alive(b) /\ errors < MaxErrors /\ errors' = errors + 1
  /\ rc' = [rc EXCEPT ![b] = "error"]
  /\ UNCHANGED << source, own, next, attached, temp, dest, writes >>

Finish(b) ==
  /\ rc[b] # "finished"
  /\ rc' = [rc EXCEPT ![b] = "finished"]
  /\ attached' = attached \ {b}
  /\ UNCHANGED << source, own, next, temp, dest, writes, errors >>

Next ==
  /\ UNCHANGED setting
  /\ \/ BeginRead \/ EndRead \/ BeginWrite \/ Shrink \/ Commit \/ Rollback
     \/ \E p \in Pages : Write(p) \/ Spill(p)
     \/ \E p, n \in Pages : OtherCommit(p, n)
     \/ \E b \in setting.backups : BusyStep(b) \/ FailedStep(b) \/ Finish(b)
     \/ \E b \in setting.backups, k \in Pages : Step(b, k)

Spec == Init /\ [][Next]_vars

(* The application goes on stepping when it does not write itself, and it  *)
(* ends its own transactions.                                              *)
Fairness ==
  /\ \A b \in Backups : SF_state(b \in setting.backups /\ \E k \in Pages : Step(b, k))
  /\ WF_state(Commit \/ Rollback)

FairSpec == Spec /\ Fairness
-----------------------------------------------------------------------------
TypeOK ==
  /\ setting \in Settings
  /\ file \in Content /\ fsize \in Pages
  /\ snap \in Content /\ ssize \in Pages /\ seen \in BOOLEAN
  /\ reading \in BOOLEAN /\ writing \in BOOLEAN
  /\ mine \in [Pages -> Values \cup {-1}] /\ msize \in 0 .. NPages /\ out \in [Pages -> Values \cup {-1}]
  /\ next \in [Backups -> 1 .. NPages + 1]
  /\ rc \in [Backups -> {"ok", "busy", "error", "done", "finished"}]
  /\ attached \subseteq Backups
  /\ temp \in [Backups -> Content]
  /\ dest \in [Backups -> [size : 0 .. NPages, pages : Content]]
  /\ writes \in 0 .. MaxWrites /\ errors \in 0 .. MaxErrors

(* What has left the cache of the source's connection so far.              *)
Written == [p \in Pages |-> IF out[p] # -1 THEN out[p] ELSE snap[p]]

(* A backup that is behind its next page has what the source has there,    *)
(* whoever has written since: the pages it copied and those it was told of.*)
Behind(b) == \A p \in Pages : p < next[b] /\ p <= ssize => temp[b][p] = Written[p]
CopiedIsCurrent == \A b \in Backups : Alive(b) => Behind(b)

(* The destination is what the source was when the backup was done: one    *)
(* committed state, never a mixture.                                       *)
DestIsSnapshot ==
  [][\A b \in Backups : rc[b] # "done" /\ rc'[b] = "done" =>
       /\ dest'[b].size = ssize'
       /\ \A p \in 1 .. ssize' : dest'[b].pages[p] = snap'[p]]_vars

(* With the writes at an end, stepping on finishes a backup.               *)
Completes == \A b \in Backups : b \in setting.backups ~>(rc[b] \in {"done", "error", "finished"})
=============================================================================
