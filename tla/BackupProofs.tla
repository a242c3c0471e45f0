----------------------------- MODULE BackupProofs ------------------------------
(***************************************************************************)
(* A backup copies one committed state of its source, for any number of    *)
(* backups, pages and changes, whatever the source is.                     *)
(*                                                                         *)
(* That copied pages are current is not inductive: at a commit a page that *)
(* has not been written by then must be one that needs no writing, and a   *)
(* page the transaction has appended must be one it has changed.           *)
(***************************************************************************)
EXTENDS Backup, TLAPS

(* What has been copied, of the source as it was and of what has left the  *)
(* cache since.                                                            *)
Copies(b) ==
  \A p \in Pages : p < next[b] =>
    temp[b][p] = out[p] \/ (out[p] = -1 /\ (p <= ssize => temp[b][p] = snap[p]))

Known == \A b \in Backups : Alive(b) => (next[b] = 1 \/ b \in attached) /\ Copies(b)

(* The transaction of the source's own connection.                         *)
Transaction ==
  /\ ~writing => mine = Clean /\ out = Clean
  /\ writing => \A p \in Pages : p <= msize => (out[p] # -1 \/ p > ssize => mine[p] # -1)
  /\ writing => reading /\ msize > 0

(* What the connection has seen.                                           *)
Seen == seen => snap = file /\ ssize = fsize

Inv == TypeOK /\ Known /\ Transaction /\ Seen
-----------------------------------------------------------------------------
(* A setting keeps within the bounds, and never changes.                   *)
LEMMA SettingKept ==
  ASSUME TypeOK, [Next]_vars
  PROVE  /\ setting \in Settings /\ setting' \in Settings
         /\ setting.backups \subseteq Backups
         /\ setting.pages \in Pages /\ setting.writes \in 0 .. MaxWrites
BY BackupAssumption DEF TypeOK, Next, vars, Setting

(* Starting over forgets what was copied.                                  *)
LEMMA RestartForgets ==
  ASSUME Known, NEW b \in Backups, Alive(b)
  PROVE  Restarted[b] = 1
BY DEF Known, Restarted

LEMMA RestartTypes ==
  ASSUME TypeOK
  PROVE  Restarted \in [Backups -> 1 .. NPages + 1] /\ Fresh \in [Backups -> 1 .. NPages + 1]
BY BackupAssumption DEF TypeOK, Restarted, Fresh

LEMMA UpdatedTypes ==
  ASSUME TypeOK, NEW P, NEW content, \A p \in P : p \in Pages => content[p] \in Values
  PROVE  Updated(P, content) \in [Backups -> Content]
BY DEF TypeOK, Updated, Update, Content

(* Updating copies the pages of P that are behind a living backup.         *)
LEMMA UpdatedPages ==
  ASSUME TypeOK, Known, NEW P, NEW content, NEW b \in Backups, Alive(b), NEW p \in Pages, p < next[b]
  PROVE  Updated(P, content)[b][p] = IF p \in P THEN content[p] ELSE temp[b][p]
<1>1. b \in attached
  BY BackupAssumption DEF Known, TypeOK, Pages
<1> QED
  BY <1>1 DEF Updated, Update

(* A backup at its first page has copied nothing that could be wrong.      *)
LEMMA NothingCopied ==
  ASSUME NEW b \in Backups, next[b] = 1
  PROVE  Copies(b)
BY BackupAssumption DEF Copies, Pages
-----------------------------------------------------------------------------
(* Types. *)

LEMMA InitInv == Init => Inv
<1> SUFFICES ASSUME Init PROVE Inv
  OBVIOUS
<1> USE BackupAssumption DEF Init, Pages, Values
<1>1. file \in Content /\ temp \in [Backups -> Content] /\ NoDest \in [size : 0 .. NPages, pages : Content]
  BY DEF Content, NoDest
<1>2. /\ mine \in [Pages -> Values \cup {-1}] /\ out \in [Pages -> Values \cup {-1}]
      /\ next \in [Backups -> 1 .. NPages + 1]
  BY DEF Clean
<1>3. dest \in [Backups -> [size : 0 .. NPages, pages : Content]]
  BY <1>1
<1>4. seen \in BOOLEAN /\ reading \in BOOLEAN /\ writing \in BOOLEAN
  OBVIOUS
<1>5. /\ setting \in Settings /\ fsize \in Pages /\ msize \in 0 .. NPages
      /\ writes \in 0 .. MaxWrites /\ errors \in 0 .. MaxErrors
  BY DEF Setting
<1>6. rc \in [Backups -> {"ok", "busy", "error", "done", "finished"}]
  OBVIOUS
<1>7. TypeOK
  BY <1>1, <1>2, <1>3, <1>4, <1>5, <1>6 DEF TypeOK
<1>8. Known
  BY NothingCopied DEF Known
<1> QED
  BY <1>7, <1>8 DEF Inv, Transaction, Seen

LEMMA NextTypes ==
  ASSUME Inv, [Next]_vars
  PROVE  TypeOK'
<1> USE BackupAssumption DEF Pages, Values
<1>1. /\ TypeOK /\ Transaction /\ setting' \in Settings
      /\ setting.backups \subseteq Backups
      /\ setting.pages \in Pages /\ setting.writes \in 0 .. MaxWrites
  BY SettingKept DEF Inv
<1>2. CASE UNCHANGED vars
  BY <1>1, <1>2 DEF TypeOK, vars, state, source, own, backup
<1>3. CASE BeginRead
  BY <1>1, <1>3, RestartTypes DEF TypeOK, BeginRead, Locked
<1>4. CASE EndRead \/ BeginWrite
  <2>1. CASE EndRead
    BY <1>1, <2>1 DEF TypeOK, EndRead, source, own, backup
  <2>2. CASE BeginWrite
    BY <1>1, <2>2 DEF TypeOK, BeginWrite, source, own, backup
  <2> QED
    BY <1>4, <2>1, <2>2
<1>5. CASE Shrink
  BY <1>1, <1>5 DEF TypeOK, Shrink, source, own, backup
<1>6. CASE Commit
  <2>1. Result \in Content /\ Clean \in [Pages -> Values \cup {-1}]
    BY <1>1 DEF TypeOK, Result, Clean, Content
  <2>2. msize \in Pages
    BY <1>1, <1>6 DEF TypeOK, Commit, Transaction
  <2>3. Updated(Dirty, mine) \in [Backups -> Content]
    BY <1>1, UpdatedTypes DEF TypeOK, Dirty
  <2>4. temp' \in [Backups -> Content] /\ next' \in [Backups -> 1 .. NPages + 1]
    BY <1>1, <1>6, <2>3, RestartTypes DEF TypeOK, Commit
  <2>5. file' \in Content /\ fsize' \in Pages /\ snap' \in Content /\ ssize' \in Pages
    BY <1>6, <2>1, <2>2 DEF Commit
  <2>6. /\ writing' \in BOOLEAN /\ msize' \in 0 .. NPages
        /\ mine' \in [Pages -> Values \cup {-1}] /\ out' \in [Pages -> Values \cup {-1}]
    <3>1. writing' = FALSE /\ msize' = 0 /\ mine' = Clean /\ out' = Clean
      BY <1>6 DEF Commit
    <3>2. writing' \in BOOLEAN
      BY <3>1
    <3>3. msize' \in 0 .. NPages
      BY <3>1
    <3> QED
      BY <2>1, <3>1, <3>2, <3>3
  <2>7. UNCHANGED << seen, reading, rc, attached, dest, writes, errors >>
    BY <1>6 DEF Commit
  <2> QED
    BY <1>1, <2>4, <2>5, <2>6, <2>7 DEF TypeOK
<1>7. CASE Rollback
  <2>1. Clean \in [Pages -> Values \cup {-1}]
    BY DEF Clean
  <2>2. Updated({p \in 1 .. ssize : out[p] # -1}, snap) \in [Backups -> Content]
    BY <1>1, UpdatedTypes DEF TypeOK, Content
  <2>3. temp' \in [Backups -> Content] /\ next' \in [Backups -> 1 .. NPages + 1]
    BY <1>1, <1>7, <2>2, RestartTypes DEF TypeOK, Rollback, RolledBack
  <2>4. /\ writing' \in BOOLEAN /\ msize' \in 0 .. NPages
        /\ mine' \in [Pages -> Values \cup {-1}] /\ out' \in [Pages -> Values \cup {-1}]
    <3>1. writing' = FALSE /\ msize' = 0 /\ mine' = Clean /\ out' = Clean
      BY <1>7 DEF Rollback
    <3>2. writing' \in BOOLEAN
      BY <3>1
    <3>3. msize' \in 0 .. NPages
      BY <3>1
    <3> QED
      BY <2>1, <3>1, <3>2, <3>3
  <2>5. UNCHANGED << source, reading, rc, attached, dest, writes, errors >>
    BY <1>7 DEF Rollback
  <2> QED
    BY <1>1, <2>3, <2>4, <2>5 DEF TypeOK, source
<1>8. ASSUME NEW p \in Pages, Write(p) PROVE TypeOK'
  BY <1>1, <1>8 DEF TypeOK, Write, source, own, backup
<1>9. ASSUME NEW p \in Pages, Spill(p) PROVE TypeOK'
  <2>1. Updated({p}, mine) \in [Backups -> Content]
    BY <1>1, <1>9, UpdatedTypes DEF TypeOK, Spill, Dirty
  <2> QED
    BY <1>1, <1>9, <2>1 DEF TypeOK, Spill, Dirty, source
<1>10. ASSUME NEW p \in Pages, NEW n \in Pages, OtherCommit(p, n) PROVE TypeOK'
  <2>1. file' \in Content
    <3>1. writes < setting.writes /\ writes' = writes + 1 /\ file' = [file EXCEPT ![p] = writes']
      BY <1>10 DEF OtherCommit
    <3>2. writes' \in Values /\ file \in [Pages -> Values]
      BY <1>1, <3>1 DEF TypeOK, Content
    <3> QED
      BY <3>1, <3>2 DEF Content
  <2>2. writes' \in 0 .. MaxWrites /\ fsize' \in Pages /\ seen' \in BOOLEAN
    <3>1. fsize' = n /\ seen' = FALSE /\ writes < setting.writes /\ writes' = writes + 1
      BY <1>10 DEF OtherCommit
    <3>2. seen' \in BOOLEAN
      BY <3>1
    <3>3. writes' \in 0 .. MaxWrites
      BY <1>1, <3>1 DEF TypeOK
    <3> QED
      BY <3>1, <3>2, <3>3
  <2>3. UNCHANGED << snap, ssize, own, backup, errors >>
    BY <1>10 DEF OtherCommit
  <2> QED
    BY <1>1, <2>1, <2>2, <2>3 DEF TypeOK, own, backup
<1>11. ASSUME NEW b \in Backups, BusyStep(b) \/ FailedStep(b) \/ Finish(b) PROVE TypeOK'
  <2>1. CASE BusyStep(b)
    BY <1>1, <2>1 DEF TypeOK, BusyStep, source, own
  <2>2. CASE FailedStep(b)
    BY <1>1, <2>2 DEF TypeOK, FailedStep, source, own
  <2>3. CASE Finish(b)
    BY <1>1, <2>3 DEF TypeOK, Finish, source, own
  <2> QED
    BY <1>11, <2>1, <2>2, <2>3
<1>12. ASSUME NEW b \in Backups, NEW k \in Pages, Step(b, k) PROVE TypeOK'
  <2>1. snap' \in Content /\ ssize' \in Pages /\ seen' \in BOOLEAN
    BY <1>1, <1>12 DEF TypeOK, Step, Locked
  <2>2. From(b) \in 1 .. NPages + 1
    BY <1>1, RestartTypes DEF TypeOK, From
  <2>3. To(b, k) \in 1 .. NPages + 1
    <3>1. ASSUME NEW f \in 1 .. NPages + 1, NEW s \in 1 .. NPages
          PROVE  (IF f > s THEN f ELSE IF f + k > s THEN s + 1 ELSE f + k) \in 1 .. NPages + 1
      OBVIOUS
    <3> QED
      BY <2>1, <2>2, <3>1 DEF To
  <2>4. Copied(b, k) \in [Backups -> Content]
    BY <1>1, <2>1 DEF TypeOK, Copied, Content
  <2>5. next' \in [Backups -> 1 .. NPages + 1]
    BY <1>1, <1>12, <2>3, RestartTypes DEF TypeOK, Step
  <2>6. dest' \in [Backups -> [size : 0 .. NPages, pages : Content]]
    <3>1. [size |-> ssize', pages |-> temp'[b]] \in [size : 0 .. NPages, pages : Content]
      BY <1>12, <2>1, <2>4 DEF Step
    <3> QED
      BY <1>1, <1>12, <3>1 DEF TypeOK, Step
  <2> QED
    BY <1>1, <1>12, <2>1, <2>4, <2>5, <2>6 DEF TypeOK, Step, own
<1> QED
  BY <1>1, <1>2, <1>3, <1>4, <1>5, <1>6, <1>7, <1>8, <1>9, <1>10, <1>11, <1>12 DEF Next
-----------------------------------------------------------------------------
(* The source's own transaction, and what its connection has seen. *)

LEMMA NextTransaction ==
  ASSUME Inv, [Next]_vars
  PROVE  Transaction' /\ Seen'
<1> USE BackupAssumption DEF Pages, Values
<1>1. TypeOK /\ Transaction /\ Seen /\ setting.backups \subseteq Backups
  BY SettingKept DEF Inv
<1>2. CASE UNCHANGED vars
  BY <1>1, <1>2 DEF Transaction, Seen, vars, state, source, own, backup
<1>3. CASE BeginRead \/ EndRead
  BY <1>1, <1>3 DEF Transaction, Seen, BeginRead, EndRead, Locked, source
<1>4. CASE BeginWrite
  BY <1>1, <1>4 DEF TypeOK, Transaction, Seen, BeginWrite, source, Clean
<1>5. CASE Shrink
  BY <1>1, <1>5 DEF TypeOK, Transaction, Seen, Shrink, source
<1>6. CASE Commit \/ Rollback
  BY <1>1, <1>6 DEF Transaction, Seen, Commit, Rollback, source
<1>7. ASSUME NEW p \in Pages, Write(p) PROVE Transaction' /\ Seen'
  BY <1>1, <1>7 DEF TypeOK, Transaction, Seen, Write, source
<1>8. ASSUME NEW p \in Pages, Spill(p) PROVE Transaction' /\ Seen'
  BY <1>1, <1>8 DEF TypeOK, Transaction, Seen, Spill, Dirty, source
<1>9. ASSUME NEW p \in Pages, NEW n \in Pages, OtherCommit(p, n) PROVE Transaction' /\ Seen'
  BY <1>1, <1>9 DEF Transaction, Seen, OtherCommit, own
<1>10. ASSUME NEW b \in Backups, BusyStep(b) \/ FailedStep(b) \/ Finish(b) PROVE Transaction' /\ Seen'
  BY <1>1, <1>10 DEF Transaction, Seen, BusyStep, FailedStep, Finish, source, own
<1>11. ASSUME NEW b \in Backups, NEW k \in Pages, Step(b, k) PROVE Transaction' /\ Seen'
  <2>1. ~writing /\ UNCHANGED << file, fsize, own >>
    BY <1>11 DEF Step, Refused
  <2>2. Seen'
    BY <1>1, <1>11, <2>1 DEF Seen, Step, Locked
  <2> QED
    BY <1>1, <2>1, <2>2 DEF Transaction, own
<1> QED
  BY <1>1, <1>2, <1>3, <1>4, <1>5, <1>6, <1>7, <1>8, <1>9, <1>10, <1>11 DEF Next
-----------------------------------------------------------------------------
(* What the backups have copied. *)

(* A backup that is at its first page, or has gone on from a state in      *)
(* which it knew its pages, knows them after a read lock.                  *)
LEMMA LockKeeps ==
  ASSUME Inv, ~writing, Locked, out' = out, NEW b \in Backups, Alive(b), NEW p \in Pages,
         p < Fresh[b], p <= ssize'
  PROVE  temp[b][p] = snap'[p]
<1>1. TypeOK /\ Known /\ Seen /\ Transaction
  BY DEF Inv
<1>2. seen
  BY <1>1, RestartForgets, BackupAssumption DEF Fresh, Pages
<1>3. out[p] = -1 /\ temp[b][p] \in Values
  BY <1>1 DEF Transaction, Clean, TypeOK, Content
<1>4. temp[b][p] = snap[p] /\ snap = snap'
  BY <1>1, <1>2, <1>3, BackupAssumption DEF Known, Copies, Seen, Locked, Fresh, Values, Pages
<1> QED
  BY <1>4

(* After a step every backup has the pages behind it as the source has     *)
(* them.                                                                   *)
LEMMA StepCopies ==
  ASSUME Inv, NEW b \in Backups, NEW k \in Pages, Step(b, k),
         NEW c \in Backups, Alive(c), NEW p \in Pages, p < next'[c], p <= ssize'
  PROVE  temp'[c][p] = snap'[p]
<1> USE BackupAssumption DEF Pages
<1>1. TypeOK /\ Known /\ Transaction /\ ~writing
  BY DEF Inv, Step, Refused
<1>2. out[p] = -1 /\ out' = out
  BY <1>1 DEF Transaction, Clean, Step, own
<1> DEFINE before == IF reading THEN next ELSE Fresh
<1>3. before \in [Backups -> 1 .. NPages + 1]
  BY <1>1, RestartTypes DEF TypeOK
<1>4. p < before[c] => temp[c][p] = snap'[p]
  <2>1. CASE reading
    <3>1. temp[c][p] \in Values /\ snap' = snap /\ ssize' = ssize
      BY <1>1, <2>1 DEF TypeOK, Content, Step
    <3> QED
      BY <1>1, <1>2, <2>1, <3>1 DEF Known, Copies, Values
  <2>2. CASE ~reading
    BY <1>1, <1>2, <2>2, LockKeeps DEF Step
  <2> QED
    BY <2>1, <2>2
<1>5. CASE c # b
  <2>1. next'[c] = before[c] /\ temp'[c] = temp[c]
    BY <1>1, <1>3, <1>5 DEF Step, Copied, TypeOK
  <2> QED
    BY <1>4, <2>1
<1>6. CASE c = b
  <2>1. next'[b] = To(b, k) /\ From(b) = before[b]
    BY <1>3 DEF Step, From
  <2>2. temp'[b][p] = IF p \in From(b) .. To(b, k) - 1 THEN snap'[p] ELSE temp[b][p]
    BY <1>1 DEF Step, Copied, TypeOK
  <2>3. To(b, k) \in Int /\ From(b) \in Int
    BY <1>1, <1>3, <2>1 DEF To, TypeOK, Step, Locked
  <2>4. p < From(b) \/ p \in From(b) .. To(b, k) - 1
    BY <1>6, <2>1, <2>3
  <2> QED
    BY <1>4, <1>6, <2>1, <2>2, <2>4
<1> QED
  BY <1>5, <1>6

LEMMA CommitCopies ==
  ASSUME Inv, Commit, NEW b \in Backups, Alive(b), NEW p \in Pages, p < next'[b], p <= ssize'
  PROVE  temp'[b][p] = snap'[p]
<1> USE BackupAssumption DEF Pages
<1>1. TypeOK /\ Known /\ Transaction
  BY DEF Inv
<1>2. p <= msize /\ (out[p] # -1 \/ p > ssize => mine[p] # -1)
  BY <1>1 DEF Commit, Transaction
<1>3. snap'[p] = IF mine[p] # -1 THEN mine[p] ELSE snap[p]
  BY DEF Commit, Result
<1>4. CASE Kind = "memory"
  <2>1. mine = Clean /\ next' = next /\ temp' = temp
    BY <1>1, <1>4, RestartForgets DEF Commit
  <2>2. mine[p] = -1 /\ out[p] = -1 /\ p <= ssize
    BY <1>1, <1>2, <2>1 DEF Clean, TypeOK
  <2>3. temp[b][p] \in Values
    BY <1>1 DEF TypeOK, Content
  <2> QED
    BY <1>1, <1>3, <2>1, <2>2, <2>3 DEF Known, Copies, Values
<1>5. CASE Kind # "memory"
  <2>1. next' = next /\ temp' = Updated(Dirty, mine)
    BY <1>5 DEF Commit
  <2>2. temp'[b][p] = IF p \in Dirty THEN mine[p] ELSE temp[b][p]
    BY <1>1, <2>1, UpdatedPages
  <2>3. temp[b][p] \in Values
    BY <1>1 DEF TypeOK, Content
  <2>4. temp[b][p] = out[p] \/ (out[p] = -1 /\ (p <= ssize => temp[b][p] = snap[p]))
    BY <1>1, <2>1 DEF Known, Copies
  <2>5. p \in Dirty <=> mine[p] # -1 /\ mine[p] # out[p]
    BY DEF Dirty
  <2>6. ssize \in Int
    BY <1>1 DEF TypeOK
  <2> QED
    BY <1>2, <1>3, <2>2, <2>3, <2>4, <2>5, <2>6 DEF Values
<1> QED
  BY <1>4, <1>5

LEMMA RollbackCopies ==
  ASSUME Inv, Rollback, NEW b \in Backups, Alive(b), NEW p \in Pages, p < next'[b], p <= ssize'
  PROVE  temp'[b][p] = snap'[p]
<1> USE BackupAssumption DEF Pages
<1>1. TypeOK /\ Known /\ snap' = snap /\ ssize' = ssize
  BY DEF Inv, Rollback, source
<1>2. temp[b][p] \in Values
  BY <1>1 DEF TypeOK, Content
<1>3. CASE Kind = "wal"
  <2>1. out = Clean /\ next' = next /\ temp' = temp
    BY <1>1, <1>3, RestartForgets DEF Rollback, RolledBack
  <2> QED
    BY <1>1, <1>2, <2>1 DEF Known, Copies, Clean, Values
<1>4. CASE Kind # "wal"
  <2>1. next' = next /\ temp' = Updated({q \in 1 .. ssize : out[q] # -1}, snap)
    BY <1>4 DEF Rollback, RolledBack
  <2>2. temp'[b][p] = IF p \in {q \in 1 .. ssize : out[q] # -1} THEN snap[p] ELSE temp[b][p]
    BY <1>1, <2>1, UpdatedPages
  <2>3. temp[b][p] = out[p] \/ (out[p] = -1 /\ (p <= ssize => temp[b][p] = snap[p]))
    BY <1>1, <2>1 DEF Known, Copies
  <2>4. p \in 1 .. ssize
    BY <1>1 DEF TypeOK
  <2> QED
    BY <1>1, <1>2, <2>2, <2>3, <2>4 DEF Values
<1> QED
  BY <1>3, <1>4

LEMMA SpillCopies ==
  ASSUME Inv, NEW q \in Pages, Spill(q), NEW b \in Backups, Alive(b)
  PROVE  Copies(b)'
<1>1. TypeOK /\ Known
  BY DEF Inv
<1> SUFFICES ASSUME NEW p \in Pages, p < next[b]
             PROVE  temp'[b][p] = out'[p] \/ (out'[p] = -1 /\ (p <= ssize => temp'[b][p] = snap[p]))
  BY DEF Copies, Spill, source
<1>2. temp'[b][p] = IF p \in {q} THEN mine[p] ELSE temp[b][p]
  BY <1>1, UpdatedPages DEF Spill
<1>3. out'[p] = IF p = q THEN mine[p] ELSE out[p]
  BY <1>1 DEF Spill, TypeOK
<1> QED
  BY <1>1, <1>2, <1>3 DEF Known, Copies

LEMMA NextKnown ==
  ASSUME Inv, [Next]_vars
  PROVE  Known'
<1> USE BackupAssumption DEF Pages
<1>1. TypeOK /\ Known /\ Transaction /\ Seen /\ setting.backups \subseteq Backups
  BY SettingKept DEF Inv
<1>2. CASE UNCHANGED vars
  BY <1>1, <1>2 DEF Known, Copies, Alive, vars, state, source, own, backup
<1>3. CASE BeginRead
  <2> SUFFICES ASSUME NEW b \in Backups, Alive(b)
               PROVE  (next'[b] = 1 \/ b \in attached) /\ Copies(b)'
    BY <1>3 DEF Known, Alive, BeginRead
  <2>1. ~writing
    BY <1>1, <1>3 DEF Transaction, BeginRead
  <2>2. next'[b] = 1 \/ b \in attached
    BY <1>1, <1>3, RestartForgets DEF BeginRead, Fresh, Known
  <2>3. ASSUME NEW p \in Pages, p < Fresh[b], p <= ssize' PROVE temp[b][p] = snap'[p]
    BY <1>3, <2>1, <2>3, LockKeeps DEF BeginRead
  <2>4. \A p \in Pages : out'[p] = -1
    BY <1>1, <1>3, <2>1 DEF Transaction, BeginRead, Clean
  <2> QED
    BY <1>3, <2>2, <2>3, <2>4 DEF Copies, BeginRead
<1>4. CASE EndRead \/ BeginWrite
  BY <1>1, <1>4 DEF Known, Copies, Alive, EndRead, BeginWrite, source, backup
<1>5. CASE Shrink
  BY <1>1, <1>5 DEF Known, Copies, Alive, Shrink, source, backup
<1>6. CASE Commit
  <2> SUFFICES ASSUME NEW b \in Backups, Alive(b)
               PROVE  (next'[b] = 1 \/ b \in attached) /\ Copies(b)'
    BY <1>6 DEF Known, Alive, Commit
  <2>1. next'[b] = 1 \/ b \in attached
    BY <1>1, <1>6, RestartForgets DEF Commit, Known
  <2>2. \A p \in Pages : out'[p] = -1
    BY <1>6 DEF Commit, Clean
  <2> QED
    BY <1>6, <2>1, <2>2, CommitCopies DEF Copies
<1>7. CASE Rollback
  <2> SUFFICES ASSUME NEW b \in Backups, Alive(b)
               PROVE  (next'[b] = 1 \/ b \in attached) /\ Copies(b)'
    BY <1>7 DEF Known, Alive, Rollback
  <2>1. next'[b] = 1 \/ b \in attached
    BY <1>1, <1>7, RestartForgets DEF Rollback, RolledBack, Known
  <2>2. \A p \in Pages : out'[p] = -1
    BY <1>7 DEF Rollback, Clean
  <2> QED
    BY <1>7, <2>1, <2>2, RollbackCopies DEF Copies
<1>8. ASSUME NEW p \in Pages, Write(p) PROVE Known'
  BY <1>1, <1>8 DEF Known, Copies, Alive, Write, source, backup
<1>9. ASSUME NEW p \in Pages, Spill(p) PROVE Known'
  <2> SUFFICES ASSUME NEW b \in Backups, Alive(b)
               PROVE  (next'[b] = 1 \/ b \in attached) /\ Copies(b)'
    BY <1>9 DEF Known, Alive, Spill
  <2> QED
    BY <1>1, <1>9, SpillCopies DEF Known, Spill
<1>10. ASSUME NEW p \in Pages, NEW n \in Pages, OtherCommit(p, n) PROVE Known'
  BY <1>1, <1>10 DEF Known, Copies, Alive, OtherCommit, own, backup
<1>11. ASSUME NEW b \in Backups, BusyStep(b) \/ FailedStep(b) \/ Finish(b) PROVE Known'
  <2> SUFFICES ASSUME NEW c \in Backups, Alive(c)'
               PROVE  (next[c] = 1 \/ c \in attached') /\ Copies(c)'
    BY <1>11 DEF Known, BusyStep, FailedStep, Finish
  <2>1. Alive(c) /\ (c \in attached => c \in attached')
    BY <1>1, <1>11 DEF Alive, BusyStep, FailedStep, Finish, TypeOK
  <2>2. Copies(c)' <=> Copies(c)
    BY <1>11 DEF Copies, BusyStep, FailedStep, Finish, source, own
  <2> QED
    BY <1>1, <2>1, <2>2 DEF Known
<1>12. ASSUME NEW b \in Backups, NEW k \in Pages, Step(b, k) PROVE Known'
  <2> SUFFICES ASSUME NEW c \in Backups, Alive(c)'
               PROVE  (next'[c] = 1 \/ c \in attached') /\ Copies(c)'
    BY DEF Known
  <2>1. Alive(c)
    BY <1>1, <1>12 DEF Alive, Step, TypeOK
  <2>2. \A p \in Pages : out'[p] = -1
    BY <1>1, <1>12 DEF Transaction, Step, Refused, own, Clean
  <2>3. next'[c] = 1 \/ c \in attached'
    <3>1. CASE c = b
      BY <1>1, <1>12, <3>1 DEF Step, Alive, TypeOK
    <3>2. CASE c # b
      <4>1. next'[c] = (IF reading THEN next ELSE Fresh)[c]
        BY <1>1, <1>12, <3>2, RestartTypes DEF Step, TypeOK
      <4>2. attached \subseteq attached'
        BY <1>12 DEF Step
      <4> QED
        BY <1>1, <2>1, <4>1, <4>2, RestartForgets DEF Fresh, Known
    <3> QED
      BY <3>1, <3>2
  <2> QED
    BY <1>12, <2>1, <2>2, <2>3, StepCopies DEF Copies
<1> QED
  BY <1>1, <1>2, <1>3, <1>4, <1>5, <1>6, <1>7, <1>8, <1>9, <1>10, <1>11, <1>12 DEF Next
-----------------------------------------------------------------------------
LEMMA Induction == Spec => []Inv
<1>1. ASSUME Inv, [Next]_vars PROVE Inv'
  BY <1>1, NextTypes, NextTransaction, NextKnown DEF Inv
<1> QED
  BY <1>1, InitInv, PTL DEF Spec

(* The state of a backup is what the code can make of it.                  *)
THEOREM Typed == Spec => []TypeOK
<1>1. Inv => TypeOK
  BY DEF Inv
<1> QED
  BY <1>1, Induction, PTL

(* A living backup has behind its next page what the source has there.     *)
THEOREM CopiedStaysCurrent == Spec => []CopiedIsCurrent
<1>1. ASSUME Inv PROVE CopiedIsCurrent
  <2> SUFFICES ASSUME NEW b \in Backups, Alive(b), NEW p \in Pages, p < next[b], p <= ssize
               PROVE  temp[b][p] = Written[p]
    BY DEF CopiedIsCurrent, Behind
  <2>1. temp[b][p] = out[p] \/ (out[p] = -1 /\ temp[b][p] = snap[p])
    BY <1>1 DEF Inv, Known, Copies
  <2>2. temp[b][p] \in Values
    BY <1>1 DEF Inv, TypeOK, Content
  <2> QED
    BY <2>1, <2>2, BackupAssumption DEF Written, Values
<1> QED
  BY <1>1, Induction, PTL

(* A backup that is done has copied the source as its connection sees it.  *)
THEOREM CopiesOneState == Spec => DestIsSnapshot
<1>1. ASSUME Inv, Inv', [Next]_vars
      PROVE  [\A b \in Backups : rc[b] # "done" /\ rc'[b] = "done" =>
                /\ dest'[b].size = ssize'
                /\ \A p \in 1 .. ssize' : dest'[b].pages[p] = snap'[p]]_vars
  <2> SUFFICES ASSUME NEW b \in Backups, rc[b] # "done", rc'[b] = "done", Next
               PROVE  /\ dest'[b].size = ssize'
                      /\ \A p \in 1 .. ssize' : dest'[b].pages[p] = snap'[p]
    BY <1>1 DEF vars, state, backup
  <2>1. TypeOK /\ TypeOK'
    BY <1>1 DEF Inv
  <2>2. PICK k \in Pages : Step(b, k)
    <3>1. ASSUME NEW c \in Backups, BusyStep(c) \/ FailedStep(c) \/ Finish(c) PROVE FALSE
      BY <2>1, <3>1 DEF BusyStep, FailedStep, Finish, TypeOK
    <3>2. ASSUME NEW c \in Backups, NEW k \in Pages, Step(c, k) PROVE c = b
      BY <2>1, <3>2 DEF Step, TypeOK
    <3>3. ASSUME UNCHANGED rc PROVE FALSE
      BY <3>3
    <3>4. setting.backups \subseteq Backups
      BY <1>1, <2>1, SettingKept
    <3> QED
      BY <3>1, <3>2, <3>3, <3>4
         DEF Next, BeginRead, EndRead, BeginWrite, Shrink, Commit, Rollback, Write, Spill,
             OtherCommit, backup
  <2>3. To(b, k) > ssize' /\ dest'[b] = [size |-> ssize', pages |-> temp'[b]]
    BY <2>1, <2>2 DEF Step, TypeOK
  <2>4. next'[b] = To(b, k) /\ Alive(b)
    BY <2>1, <2>2, RestartTypes DEF Step, TypeOK
  <2>5. ASSUME NEW p \in 1 .. ssize' PROVE temp'[b][p] = snap'[p]
    <3>1. next' \in [Backups -> 1 .. NPages + 1] /\ ssize' \in 1 .. NPages
      BY <2>1 DEF TypeOK, Pages
    <3>2. p \in Pages /\ p < next'[b] /\ p <= ssize'
      BY <2>3, <2>4, <3>1, BackupAssumption DEF Pages
    <3> QED
      BY <1>1, <2>2, <2>4, <3>2, StepCopies
  <2> QED
    BY <2>3, <2>5
<1> QED
  BY <1>1, Induction, PTL DEF Spec, DestIsSnapshot
=============================================================================
