------------------------- MODULE RollbackJournalProofs -------------------------
(***************************************************************************)
(* For any connections, files, pages, transactions, spills, crashes and    *)
(* journal modes: locks exclude one another, a cache that is read is what  *)
(* the file holds, what a commit has promised is on disk, and transactions *)
(* are those of AtomicCommit, also when power is lost while one file is    *)
(* used and every sync is made.                                            *)
(***************************************************************************)
EXTENDS RollbackJournalLemmas

-----------------------------------------------------------------------------
(* The stages of a commit. *)

LEMMA OthersSupers ==
  ASSUME Inv, NEW c \in Conns, Acts(c), NEW o \in Conns, o # c, txn[o] # 0, txn[o] \in supers
  PROVE  txn[o] \in supers' /\ children'[txn[o]] = children[txn[o]]
<1>1. txn[c] # txn[o]
  BY DEF Inv, Base, TxnKept
<1>2. CASE UNCHANGED << supers, dsupers, children >>
  BY <1>2
<1>3. CASE WriteSuper(c)
  BY <1>1, <1>3 DEF WriteSuper, Inv, Base, TypeOK
<1>4. CASE DelSuper(c)
  <2>1. sup[c] # 0
    BY <1>4 DEF DelSuper, At, Inv, Base, Control
  <2>2. sup[c] # txn[o]
    BY <2>1 DEF Inv, Supered, SupersKept
  <2> QED
    BY <1>4, <2>2 DEF DelSuper, ghosts
<1>5. CASE DeleteSuper(c)
  BY <1>1, <1>5 DEF DeleteSuper
<1> QED
  BY <1>2, <1>3, <1>4, <1>5, WhoMovesSupers

LEMMA StageOthers ==
  ASSUME Inv, NEW c \in Conns, Acts(c), NEW o \in Conns, o # c
  PROVE  Stage(o)'
<1>1. Alike(o) /\ Stage(o) /\ Control(o)
  BY Others DEF Inv, Base, Phases
<1>2. pc[o] \in {"count", "page"} => jnl'[cur[o]] = jnl[cur[o]] /\ djnl'[cur[o]] = djnl[cur[o]]
  <2> SUFFICES ASSUME pc[o] \in {"count", "page"}
               PROVE  jnl'[cur[o]] = jnl[cur[o]] /\ djnl'[cur[o]] = djnl[cur[o]]
    OBVIOUS
  <2>1. InTxn(o, cur[o])
    BY <1>1 DEF Control
  <2>2. cur[o] \in Files /\ lock[o][cur[o]] >= RESERVED
    BY <2>1 DEF InTxn, Inv, Base, TypeOK
  <2> QED
    BY <2>2, OthersSafe DEF Same
<1>3. Preparing(o) => txn[o] # 0
  <2>1. Preparing(o) => InTxn(o, cur[o]) /\ cur[o] \in Files
    BY <1>1 DEF Preparing, Control, InTxn, Inv, Base, TypeOK
  <2> QED
    BY <2>1 DEF Inv, Base, TxnKept
<1>4. Preparing(o) /\ txn[o] \in supers => txn[o] \in supers' /\ children'[txn[o]] = children[txn[o]]
  BY <1>3, OthersSupers
<1>5. /\ Preparing(o)' <=> Preparing(o)
      /\ Committed(o)' <=> Committed(o)
      /\ Several(o)' <=> Several(o)
      /\ Writing(o)' <=> Writing(o)
      /\ Reserved(o)' = Reserved(o)
      /\ \A e \in Files : InTxn(o, e)' <=> InTxn(o, e)
  BY <1>1 DEF Alike, Preparing, Committed, Several, Reserved, Writing, InTxn
<1>6. /\ lock'[o] = lock[o] /\ pc'[o] = pc[o] /\ op'[o] = op[o] /\ cur'[o] = cur[o]
      /\ mine'[o] = mine[o] /\ jw'[o] = jw[o] /\ txn'[o] = txn[o] /\ spill'[o] = spill[o]
  BY <1>1 DEF Alike
<1> HIDE DEF Stage
<1> QED
  BY <1>1, <1>2, <1>4, <1>5, <1>6 DEF Stage

LEMMA AtMostOne ==
  ASSUME NEW S, IsFiniteSet(S), NEW x \in S, ~(Cardinality(S) > 1)
  PROVE  S = {x}
<1>1. IsFiniteSet(S \ {x}) /\ Cardinality(S \ {x}) = Cardinality(S) - 1
  BY FS_RemoveElement
<1>2. Cardinality(S) \in Nat /\ Cardinality(S \ {x}) \in Nat
  BY <1>1, FS_CardinalityType
<1>3. Cardinality(S \ {x}) = 0
  BY <1>1, <1>2
<1> QED
  BY <1>1, <1>3, FS_EmptySet

LEMMA StageIdle ==
  ASSUME NEW c \in Conns,
         \/ pc'[c] \in {"run", "exists", "reserved", "empty", "byte", "excl", "open", "check", "delsuper"}
         \/ pc'[c] \in {"play", "fin", "finsync", "unlock"} /\ op'[c] = "hot"
         \/ pc'[c] \in {"next", "finsync", "unlock"} /\ op'[c] = "rollback"
  PROVE  Stage(c)'
BY DEF Stage, Writing, Preparing, Committed

(* What goes on in the files of a transaction that is committed.           *)
Prepares(c) ==
  /\ pc[c] \in {"super", "prepare", "sync", "count", "sync2", "page", "commit"} /\ op[c] = "commit"
  /\ \A e \in Files : InTxn(c, e) => jw[c][e].off # 0 /\ lock[c][e] = EXCLUSIVE
  /\ pc[c] # "super" /\ Several(c) => txn[c] \in supers /\ children[txn[c]] = Reserved(c)

LEMMA StagePrepares ==
  ASSUME NEW c \in Conns, Prepares(c)',
         pc'[c] \in {"super", "prepare"} => ~jw'[c][cur'[c]].done,
         pc'[c] \in {"super", "commit"} => Several(c)',
         pc'[c] = "commit" => \A e \in Files : InTxn(c, e)' => jw'[c][e].done,
         Writing(c)' => /\ jw'[c][cur'[c]].off # 0 /\ ~jw'[c][cur'[c]].done
                        /\ lock'[c][cur'[c]] = EXCLUSIVE,
         pc'[c] = "count" => ~IsHdr(jnl'[cur'[c]], jw'[c][cur'[c]].off + 1),
         pc'[c] = "page" => jw'[c][cur'[c]].mod /\ djnl'[cur'[c]] = jnl'[cur'[c]]
  PROVE  Stage(c)'
BY DEF Stage, Prepares, Writing, Preparing, Committed

LEMMA PreparesIs ==
  ASSUME Inv, NEW c \in Conns, Preparing(c)
  PROVE  Prepares(c)
BY DEF Inv, Phases, Stage, Preparing, Prepares

LEMMA StageActs ==
  ASSUME Inv, NEW c \in Conns, Acts(c)
  PROVE  Stage(c)'
<1> USE DEF At, Go, Locked, disk, local, ghosts, bounds, NONE, SHARED, RESERVED, PENDING, EXCLUSIVE
<1>1. /\ ControlTypes(c) /\ LocksHeld(c) /\ Control(c) /\ Shapes /\ FileShapes /\ Stage(c)
  BY ControlTyped, FileShapesOK DEF Inv, Base, Phases
<1>2. CASE HotExists(c)
  <2>1. pc'[c] \in {"run", "exists", "reserved", "empty", "byte", "excl", "open", "check", "delsuper"}
    BY <1>1, <1>2 DEF HotExists, ControlTypes, Shapes
  <2> QED
    BY <2>1, StageIdle
<1>3. CASE HotReserved(c)
  <2>1. pc'[c] \in {"run", "exists", "reserved", "empty", "byte", "excl", "open", "check", "delsuper"}
    BY <1>1, <1>3 DEF HotReserved, ControlTypes, Shapes
  <2> QED
    BY <2>1, StageIdle
<1>4. CASE HotEmpty(c)
  <2>1. pc'[c] \in {"run", "exists", "reserved", "empty", "byte", "excl", "open", "check", "delsuper"}
    BY <1>1, <1>4 DEF HotEmpty, ControlTypes, Shapes
  <2> QED
    BY <2>1, StageIdle
<1>5. CASE HotByte(c)
  <2>1. pc'[c] \in {"run", "exists", "reserved", "empty", "byte", "excl", "open", "check", "delsuper"}
    BY <1>1, <1>5 DEF HotByte, ControlTypes, Shapes
  <2> QED
    BY <2>1, StageIdle
<1>6. CASE HotLock(c)
  <2>1. pc'[c] \in {"run", "exists", "reserved", "empty", "byte", "excl", "open", "check", "delsuper"}
    BY <1>1, <1>6 DEF HotLock, ControlTypes, Shapes
  <2> QED
    BY <2>1, StageIdle
<1>7. CASE HotOpen(c)
  <2>1. pc'[c] \in {"play", "check"} /\ op'[c] = "hot"
    BY <1>1, <1>7 DEF HotOpen, ControlTypes, Shapes
  <2> QED
    BY <2>1, StageIdle
<1>8. CASE PlayTruncate(c)
  <2>1. /\ pc[c] = "play" /\ pc' = pc /\ op' = op /\ cur' = cur /\ jw' = jw
        /\ op[c] \in {"hot", "rollback"}
    BY <1>1, <1>8 DEF PlayTruncate, Control
  <2> QED
    BY <1>1, <2>1 DEF Stage, Writing, Preparing, Committed
<1>9. CASE PlayPage(c)
  <2>1. /\ pc[c] = "play" /\ pc' = pc /\ op' = op /\ cur' = cur /\ jw' = jw
        /\ op[c] \in {"hot", "rollback"}
    BY <1>1, <1>9 DEF PlayPage, Control
  <2> QED
    BY <1>1, <2>1 DEF Stage, Writing, Preparing, Committed
<1>10. CASE PlaySync(c)
  <2>1. /\ pc[c] = "play" /\ pc'[c] = "fin" /\ op' = op /\ cur' = cur /\ jw' = jw
        /\ op[c] \in {"hot", "rollback"}
    BY <1>1, <1>10 DEF PlaySync, Control, ControlTypes, Shapes
  <2> QED
    BY <1>1, <2>1 DEF Stage, Writing, Preparing, Committed
<1>11. CASE Fin(c)
  <2>1. /\ pc'[c] \in {"finsync", "unlock"} /\ op' = op /\ cur' = cur /\ lock' = lock /\ jw' = jw
        /\ op[c] \in {"hot", "commit", "rollback"} /\ pc[c] = "fin" /\ reads' = reads
    BY <1>1, <1>11 DEF Fin, Control, ControlTypes, Shapes
  <2>2. CASE op[c] # "commit"
    BY <2>1, <2>2, StageIdle
  <2>3. CASE op[c] = "commit"
    <3>1. CASE FinCommits(c)
      <4>1. PICK d : d = cur[c]
        OBVIOUS
      <4>2. /\ d \in Files /\ Reserved(c) = {d} /\ lock[c][d] = EXCLUSIVE
            /\ mine' = [mine EXCEPT ![c][d] = None]
        BY <3>1, <4>1, <1>11, CommitsIs, FinDoes
      <4>3. \A e \in Files : InTxn(c, e)' => e = d
        BY <2>1, <4>2 DEF InTxn, Reserved
      <4>4. mine'[c][d] = None /\ cur'[c] = d
        BY <1>1, <2>1, <4>1, <4>2 DEF Shapes, FileShapes
      <4> QED
        BY <2>1, <2>3, <4>2, <4>3, <4>4 DEF Stage, Writing, Preparing, Committed
    <3>2. CASE ~FinCommits(c)
      <4>1. mine' = mine
        BY <3>2, <1>11, FinDoes
      <4>2. mine[c][cur[c]] = None /\ Committed(c)
        BY <2>1, <2>3, <3>2 DEF FinCommits, Committed
      <4>3. \A e \in Files : InTxn(c, e) => lock[c][e] = EXCLUSIVE /\ mine[c][e] = None
        BY <1>1, <4>2 DEF Stage
      <4>4. \A e \in Files : InTxn(c, e)' => InTxn(c, e)
        BY <2>1 DEF InTxn
      <4> QED
        BY <2>1, <2>3, <4>1, <4>2, <4>3, <4>4 DEF Stage, Writing, Preparing, Committed
    <3> QED
      BY <3>1, <3>2
  <2> QED
    BY <2>2, <2>3
<1>12. CASE FinSync(c)
  <2>1. /\ pc'[c] = "unlock" /\ op' = op /\ cur' = cur /\ lock' = lock /\ jw' = jw /\ mine' = mine
        /\ op[c] \in {"hot", "commit", "rollback"} /\ pc[c] = "finsync" /\ reads' = reads
    BY <1>1, <1>12 DEF FinSync, Control, ControlTypes, Shapes
  <2>2. CASE op[c] # "commit"
    BY <2>1, <2>2, StageIdle
  <2>3. CASE op[c] = "commit"
    <3>1. Committed(c) /\ \A e \in Files : InTxn(c, e) => lock[c][e] = EXCLUSIVE /\ mine[c][e] = None
      BY <1>1, <2>1, <2>3 DEF Stage
    <3>2. \A e \in Files : InTxn(c, e)' => InTxn(c, e)
      BY <2>1 DEF InTxn
    <3> QED
      BY <2>1, <2>3, <3>1, <3>2 DEF Stage, Writing, Preparing, Committed
  <2> QED
    BY <2>2, <2>3
<1>13. CASE Unlock(c)
  <2>1. /\ pc[c] = "unlock" /\ cur' = cur /\ reads' = reads /\ lock' = [lock EXCEPT ![c][cur[c]] = SHARED]
        /\ op[c] \in {"hot", "commit", "rollback"} /\ (op[c] = "commit" => sup[c] = 0)
        /\ pc'[c] \in {"delsuper", "check", "run", "next"}
        /\ (op[c] = "hot" => pc'[c] \in {"delsuper", "check"})
    BY <1>1, <1>13 DEF Unlock, Control, ControlTypes, Shapes
  <2>2. CASE pc'[c] # "next"
    BY <2>1, <2>2, StageIdle
  <2>3. CASE pc'[c] = "next" /\ op[c] = "rollback"
    <3>1. op'[c] = "rollback"
      BY <1>1, <2>3, <1>13 DEF Unlock, ControlTypes, Shapes
    <3> QED
      BY <2>3, <3>1, StageIdle
  <2>4. CASE pc'[c] = "next" /\ op[c] = "commit"
    <3>1. /\ op'[c] = "commit" /\ mine' = [mine EXCEPT ![c][cur[c]] = None]
      BY <1>1, <2>1, <2>4, <1>13 DEF Unlock, ControlTypes, Shapes
    <3>2. Committed(c) /\ \A e \in Files : InTxn(c, e) => lock[c][e] = EXCLUSIVE /\ mine[c][e] = None
      BY <1>1, <2>1, <2>4 DEF Stage
    <3>3. cur[c] \in Files
      BY <1>1, <2>1, <2>4 DEF Control, InTxn, ControlTypes
    <3>4. \A e \in Files : InTxn(c, e)' => InTxn(c, e) /\ lock'[c][e] = lock[c][e]
      BY <1>1, <2>1, <3>3 DEF InTxn, ControlTypes, Shapes, FileShapes
    <3>5. \A e \in Files : mine[c][e] = None => mine'[c][e] = None
      BY <1>1, <3>1, <3>3 DEF Shapes, FileShapes
    <3>6. mine'[c][cur'[c]] = None
      BY <1>1, <2>1, <3>1, <3>3 DEF Shapes, FileShapes
    <3> QED
      BY <2>1, <2>4, <3>1, <3>2, <3>4, <3>5, <3>6 DEF Stage, Writing, Preparing, Committed
  <2> QED
    BY <2>1, <2>2, <2>3, <2>4
<1>14. CASE DelSuper(c)
  <2>1. pc'[c] \in {"check", "run", "next"} /\ op[c] \in {"hot", "rollback"}
        /\ (pc'[c] = "next" => op[c] = "rollback" /\ op'[c] = op[c])
    BY <1>1, <1>14 DEF DelSuper, Control, ControlTypes, Shapes
  <2> QED
    BY <2>1, StageIdle
<1>15. CASE NextFile(c)
  <2>1. /\ pc[c] = "next" /\ UNCHANGED << disk, lock, op, local, ghosts, bounds >>
        /\ pc'[c] \in {"fin", "unlock", "play"} /\ cur'[c] = Min(Reserved(c)) /\ op[c] \in {"commit", "rollback"}
    BY <1>1, <1>15 DEF NextFile, Control, ControlTypes, Shapes
  <2>2. Reserved(c) # {} /\ ~Recovering(c)
    BY <1>1, <2>1 DEF Reserved, Control, Recovering, InTxn
  <2>3. cur'[c] \in Files /\ InTxn(c, cur'[c])
    BY <2>1, <2>2, MinReserved, ReservedInTxn DEF Inv, Base, Reserved
  <2>4. CASE op[c] = "commit"
    <3>1. Committed(c) /\ pc'[c] = "fin"
      BY <1>1, <2>1, <2>4, <1>15 DEF Stage, NextFile, Committing, ControlTypes, Shapes
    <3>2. \A e \in Files : InTxn(c, e) => lock[c][e] = EXCLUSIVE /\ mine[c][e] = None
      BY <1>1, <3>1 DEF Stage
    <3>3. mine[c][cur'[c]] = None
      BY <2>3, <3>2
    <3>4. \A e \in Files : InTxn(c, e)' => InTxn(c, e)
      BY <2>1 DEF InTxn
    <3>5. mine' = mine /\ lock' = lock /\ op' = op
      BY <2>1
    <3> QED
      BY <2>4, <3>1, <3>2, <3>3, <3>4, <3>5 DEF Stage, Writing, Preparing, Committed
  <2>5. CASE op[c] = "rollback"
    <3>1. pc'[c] = "unlock" \/ (pc'[c] = "play" /\ jw[c][cur'[c]].off # 0)
      BY <1>1, <2>1, <2>5, <1>15 DEF NextFile, Committing, ControlTypes, Shapes
    <3>2. op'[c] = "rollback" /\ jw' = jw
      BY <2>1, <2>5
    <3> QED
      BY <3>1, <3>2 DEF Stage, Writing, Preparing, Committed
  <2> QED
    BY <2>1, <2>4, <2>5
<1>16. CASE Check(c)
  <2>1. pc'[c] \in {"run", "exists", "reserved", "empty", "byte", "excl", "open", "check", "delsuper"}
    BY <1>1, <1>16 DEF Check, ControlTypes, Shapes
  <2> QED
    BY <2>1, StageIdle
<1>17. CASE CommitLock(c)
  <2> DEFINE todo == {x \in Reserved(c) : lock[c][x] < EXCLUSIVE}
  <2>1. /\ op[c] = "commit" /\ pc[c] = "lock" /\ op' = op /\ jw' = jw /\ mine' = mine /\ reads' = reads
        /\ \A e \in Files : InTxn(c, e) => jw[c][e].off # 0
    BY <1>1, <1>17 DEF CommitLock, Control, Stage
  <2>2. CASE todo = {}
    <3>1. /\ pc'[c] = (IF Several(c) THEN "super" ELSE "prepare")
          /\ cur'[c] = Min(Reserved(c)) /\ lock' = lock
      BY <1>1, <2>2, <1>17 DEF CommitLock, ControlTypes, Shapes, Several
    <3>2. Reserved(c) # {} /\ ~Recovering(c)
      BY <1>1, <2>1 DEF Control, Recovering, InTxn, Reserved
    <3>3. cur'[c] \in Files /\ InTxn(c, cur'[c])
      BY <3>1, <3>2, MinReserved, ReservedInTxn DEF Inv, Base, Reserved
    <3>4. ~jw[c][cur'[c]].done
      <4>1. Live(c, cur'[c])
        BY <2>1, <3>3 DEF Live, Committed, Undone
      <4> QED
        BY <2>1, <3>3, <4>1, DoneIs DEF Preparing
    <3>5. \A e \in Files : InTxn(c, e) => lock[c][e] = EXCLUSIVE
      BY <1>1, <2>2 DEF Reserved, InTxn, ControlTypes
    <3>6. /\ \A e \in Files : InTxn(c, e)' <=> InTxn(c, e)
          /\ Several(c)' <=> Several(c)
      BY <2>1, <3>1 DEF InTxn, Several, Reserved
    <3>7. Prepares(c)'
      BY <2>1, <3>1, <3>5, <3>6 DEF Prepares
    <3> QED
      BY <2>1, <3>1, <3>4, <3>6, <3>7, StagePrepares DEF Writing
  <2>3. CASE todo # {}
    <3>1. pc'[c] \in {"lock", "run"}
      BY <1>1, <2>1, <2>3, <1>17 DEF CommitLock, ControlTypes, Shapes
    <3>2. \A e \in Files : InTxn(c, e)' => InTxn(c, e)
      <4>1. PICK d : d = Min(todo)
        OBVIOUS
      <4>2. \E l \in {3, 4} : lock' = [lock EXCEPT ![c][d] = l]
        BY <2>3, <4>1, <1>17 DEF CommitLock
      <4>3. d \in Reserved(c)
        <5>1. todo \in SUBSET Files
          BY DEF Reserved
        <5> HIDE DEF todo
        <5>2. d \in todo
          BY <2>3, <4>1, <5>1, TodoIs
        <5> QED
          BY <5>2 DEF todo
      <4> HIDE DEF todo
      <4> QED
        BY <1>1, <2>1, <4>2, <4>3 DEF Reserved, InTxn, Shapes, FileShapes
    <3> HIDE DEF todo
    <3>3. CASE pc'[c] = "lock"
      BY <2>1, <3>2, <3>3 DEF Stage, Writing, Preparing, Committed
    <3> QED
      BY <3>1, <3>3, StageIdle
  <2> QED
    BY <2>2, <2>3
<1>18. CASE WriteSuper(c)
  <2>1. /\ pc[c] = "super" /\ op[c] = "commit" /\ pc'[c] = "prepare"
        /\ op' = op /\ cur' = cur /\ lock' = lock /\ jw' = jw /\ reads' = reads /\ txn' = txn
        /\ supers' = supers \cup {txn[c]} /\ children' = [children EXCEPT ![txn[c]] = Reserved(c)]
    BY <1>1, <1>18 DEF WriteSuper, Control, ControlTypes, Shapes
  <2>2. Prepares(c) /\ Several(c) /\ ~jw[c][cur[c]].done /\ InTxn(c, cur[c])
    BY <1>1, <2>1, PreparesIs DEF Preparing, Stage, Control
  <2>3. txn[c] \in Txns /\ DOMAIN children = Txns
    <3>1. Live(c, cur[c]) /\ cur[c] \in Files
      BY <1>1, <2>1, <2>2 DEF Live, Committed, Undone, InTxn, ControlTypes
    <3> QED
      BY <3>1, LiveIs DEF Inv, Base, TypeOK
  <2>4. children'[txn[c]] = Reserved(c)
    BY <2>1, <2>3
  <2>5. /\ \A e \in Files : InTxn(c, e)' <=> InTxn(c, e)
        /\ (Several(c)' <=> Several(c)) /\ Reserved(c)' = Reserved(c)
    BY <2>1 DEF InTxn, Several, Reserved
  <2>6. Prepares(c)'
    BY <2>1, <2>2, <2>4, <2>5 DEF Prepares
  <2> QED
    BY <2>1, <2>2, <2>6, StagePrepares DEF Writing
<1>19. CASE Prepare(c)
  <2>1. PICK d : d = cur[c]
    OBVIOUS
  <2>2. /\ pc[c] = "prepare" /\ op[c] = "commit" /\ pc'[c] = "sync" /\ supers' = supers /\ children' = children
        /\ op' = op /\ cur' = cur /\ lock' = lock /\ reads' = reads /\ txn' = txn
    BY <1>1, <1>19 DEF Prepare, Control, ControlTypes, Shapes
  <2>3. /\ d \in Files /\ lock[c][d] = EXCLUSIVE /\ jw' = [jw EXCEPT ![c][d] = jw'[c][d]]
        /\ jw'[c][d].off # 0 /\ ~jw'[c][d].done
    BY <2>1, <1>19, PrepareDoes
  <2>4. Prepares(c)
    BY <2>2, PreparesIs DEF Preparing
  <2>5. /\ \A e \in Files : InTxn(c, e)' <=> InTxn(c, e)
        /\ (Several(c)' <=> Several(c)) /\ Reserved(c)' = Reserved(c)
    BY <2>2 DEF InTxn, Several, Reserved
  <2>6. \A e \in Files : e # d => jw'[c][e] = jw[c][e]
    BY <1>1, <2>3 DEF Shapes, FileShapes
  <2>7. Prepares(c)'
    BY <2>2, <2>3, <2>4, <2>5, <2>6 DEF Prepares
  <2> QED
    BY <2>1, <2>2, <2>3, <2>7, StagePrepares DEF Writing
<1>20. CASE SyncRecords(c)
  <2>1. PICK d : d = cur[c]
    OBVIOUS
  <2>2. /\ Writing(c) /\ op' = op /\ cur' = cur /\ jw' = jw /\ reads' = reads /\ txn' = txn
        /\ supers' = supers /\ children' = children /\ (pc'[c] = "count" => spill' = spill)
        /\ \E l \in {3, 4} : lock' = [lock EXCEPT ![c][cur[c]] = l]
    BY <1>1, <1>20 DEF SyncRecords, ControlTypes, Shapes, Writing
  <2>3. /\ d \in Files /\ jw[c][d].off # 0 /\ ~jw[c][d].done /\ op[c] \in {"write", "commit"}
        /\ (op[c] = "commit" => Preparing(c) /\ lock[c][d] = EXCLUSIVE)
        /\ (op[c] = "write" => spill[c] \in jw[c][d].dirty)
    BY <1>1, <2>1, <2>2, WritingIs DEF Stage
  <2>4. \/ pc'[c] = "count" /\ ~IsHdr(jnl'[d], jw[c][d].off + 1) /\ lock'[c][d] = EXCLUSIVE
        \/ pc'[c] = "run"
    BY <2>1, <1>20, SyncRecordsDoes
  <2>5. CASE pc'[c] = "count" /\ op[c] = "write"
    BY <2>1, <2>2, <2>3, <2>4, <2>5 DEF Stage, Writing, Preparing, Committed
  <2>6. CASE pc'[c] = "count" /\ op[c] = "commit"
    <3>1. \A e \in Files : e # d => lock'[c][e] = lock[c][e]
      BY <1>1, <2>1, <2>2, <2>3 DEF Shapes, FileShapes
    <3>2. Prepares(c) /\ pc[c] = "sync"
      BY <2>3, <2>6, <1>20, PreparesIs DEF SyncRecords
    <3>3. /\ \A e \in Files : InTxn(c, e)' <=> InTxn(c, e)
          /\ Reserved(c)' = Reserved(c)
      BY <2>2, <2>3, <2>4, <2>6, <3>1 DEF InTxn, Reserved
    <3>4. Several(c)' <=> Several(c)
      BY <3>3 DEF Several
    <3>5. Prepares(c)'
      BY <2>2, <2>3, <2>4, <2>6, <3>1, <3>2, <3>3, <3>4 DEF Prepares
    <3> QED
      BY <2>1, <2>2, <2>3, <2>4, <2>6, <3>5, StagePrepares DEF Writing
  <2>7. CASE pc'[c] = "run"
    BY <2>7, StageIdle
  <2> QED
    BY <2>3, <2>4, <2>5, <2>6, <2>7
<1>21. CASE Count(c)
  <2>1. PICK d : d = cur[c]
    OBVIOUS
  <2>2. /\ Writing(c) /\ op' = op /\ cur' = cur /\ jw' = jw /\ reads' = reads /\ txn' = txn
        /\ supers' = supers /\ children' = children /\ spill' = spill /\ lock' = lock
        /\ pc[c] = "count" /\ pc'[c] = "sync2"
    BY <1>1, <1>21 DEF Count, ControlTypes, Shapes, Writing
  <2>3. /\ d \in Files /\ jw[c][d].off # 0 /\ ~jw[c][d].done /\ op[c] \in {"write", "commit"}
        /\ (op[c] = "commit" => Preparing(c) /\ lock[c][d] = EXCLUSIVE)
        /\ (op[c] = "write" => spill[c] \in jw[c][d].dirty)
    BY <1>1, <2>1, <2>2, WritingIs DEF Stage
  <2>4. lock[c][d] = EXCLUSIVE
    BY <1>1, <2>1, <2>2 DEF Stage
  <2>5. CASE op[c] = "write"
    BY <2>1, <2>2, <2>3, <2>4, <2>5 DEF Stage, Writing, Preparing, Committed
  <2>6. CASE op[c] = "commit"
    <3>1. Prepares(c)
      BY <2>3, <2>6, PreparesIs
    <3>2. /\ \A e \in Files : InTxn(c, e)' <=> InTxn(c, e)
          /\ (Several(c)' <=> Several(c)) /\ Reserved(c)' = Reserved(c)
      BY <2>2 DEF InTxn, Reserved, Several
    <3>3. Prepares(c)'
      BY <2>2, <2>6, <3>1, <3>2 DEF Prepares
    <3> QED
      BY <2>1, <2>2, <2>3, <2>4, <2>6, <3>3, StagePrepares DEF Writing
  <2> QED
    BY <2>3, <2>5, <2>6
<1>22. CASE SyncCount(c)
  <2>1. PICK d : d = cur[c]
    OBVIOUS
  <2>2. /\ Writing(c) /\ op' = op /\ cur' = cur /\ reads' = reads /\ txn' = txn
        /\ supers' = supers /\ children' = children /\ spill' = spill /\ lock' = lock
        /\ pc[c] = "sync2" /\ pc'[c] = "page"
    BY <1>1, <1>22 DEF SyncCount, ControlTypes, Shapes, Writing
  <2>3. /\ d \in Files /\ jw[c][d].off # 0 /\ ~jw[c][d].done /\ op[c] \in {"write", "commit"}
        /\ (op[c] = "commit" => Preparing(c) /\ lock[c][d] = EXCLUSIVE)
        /\ (op[c] = "write" => spill[c] \in jw[c][d].dirty)
    BY <1>1, <2>1, <2>2, WritingIs DEF Stage
  <2>4. lock[c][d] = EXCLUSIVE
    BY <1>1, <2>1, <2>2 DEF Stage
  <2>11. /\ jw' = [jw EXCEPT ![c][d] = jw'[c][d]]
         /\ djnl' = [djnl EXCEPT ![d] = jnl[d]]
    BY <2>1, <1>22, SyncCountDoes
  <2>12. jw'[c][d].off # 0 /\ jw'[c][d].mod /\ ~jw'[c][d].done
    BY <2>1, <1>22, SyncCountDoes
  <2>13. jw'[c][d].dirty = jw[c][d].dirty /\ jw'[c][d].need = {}
    BY <2>1, <1>22, SyncCountDoes
  <2>5. /\ jw' = [jw EXCEPT ![c][d] = jw'[c][d]]
        /\ jw'[c][d].off # 0 /\ jw'[c][d].mod /\ ~jw'[c][d].done
        /\ jw'[c][d].dirty = jw[c][d].dirty /\ jw'[c][d].need = {}
        /\ djnl' = [djnl EXCEPT ![d] = jnl[d]]
    BY <2>11, <2>12, <2>13
  <2>10. op[c] = "commit" => jnl' = jnl
    BY <1>1, <2>2, <1>22 DEF SyncCount, Committing
  <2>6. \A e \in Files : e # d => jw'[c][e] = jw[c][e]
    BY <1>1, <2>5 DEF Shapes, FileShapes
  <2>7. op[c] = "commit" => djnl'[d] = jnl'[d]
    BY <1>1, <2>3, <2>5, <2>10 DEF FileShapes
  <2>8. CASE op[c] = "write"
    <3> HIDE DEF Writing
    <3> QED
      BY <2>1, <2>2, <2>3, <2>4, <2>5, <2>8 DEF Stage, Writing, Preparing, Committed
  <2>9. CASE op[c] = "commit"
    <3>1. Prepares(c)
      BY <2>3, <2>9, PreparesIs
    <3>2. /\ \A e \in Files : InTxn(c, e)' <=> InTxn(c, e)
          /\ (Several(c)' <=> Several(c)) /\ Reserved(c)' = Reserved(c)
      BY <2>2 DEF InTxn, Reserved, Several
    <3>3. Prepares(c)'
      BY <2>2, <2>5, <2>6, <2>9, <3>1, <3>2 DEF Prepares
    <3> QED
      BY <2>1, <2>2, <2>3, <2>4, <2>5, <2>7, <2>9, <3>3, StagePrepares DEF Writing
  <2> QED
    BY <2>3, <2>8, <2>9
<1>23. CASE WritePage(c)
  <2>1. PICK d : d = cur[c]
    OBVIOUS
  <2>2. /\ Writing(c) /\ op' = op /\ cur' = cur /\ reads' = reads /\ txn' = txn
        /\ supers' = supers /\ children' = children /\ lock' = lock /\ jnl' = jnl /\ djnl' = djnl
        /\ pc[c] = "page" /\ pc'[c] = (IF op[c] = "commit" THEN "page" ELSE "run")
    BY <1>1, <1>23 DEF WritePage, ControlTypes, Shapes, Writing, Committing
  <2>3. /\ d \in Files /\ jw[c][d].off # 0 /\ ~jw[c][d].done /\ op[c] \in {"write", "commit"}
        /\ (op[c] = "commit" => Preparing(c) /\ lock[c][d] = EXCLUSIVE)
        /\ (op[c] = "write" => spill[c] \in jw[c][d].dirty)
    BY <1>1, <2>1, <2>2, WritingIs DEF Stage
  <2>4. lock[c][d] = EXCLUSIVE /\ (op[c] = "commit" => djnl[d] = jnl[d])
    BY <1>1, <2>1, <2>2 DEF Stage
  <2>5. /\ jw' = [jw EXCEPT ![c][d] = jw'[c][d]]
        /\ jw'[c][d].off # 0 /\ jw'[c][d].mod /\ ~jw'[c][d].done
    <3>1. /\ jw' = [jw EXCEPT ![c][d] = jw'[c][d]] /\ jw[c][d].mod
          /\ jw'[c][d].off = jw[c][d].off /\ jw'[c][d].mod = jw[c][d].mod /\ ~jw'[c][d].done
      BY <2>1, <1>23, WritePageDoes
    <3> QED
      BY <2>3, <3>1
  <2>6. \A e \in Files : e # d => jw'[c][e] = jw[c][e]
    BY <1>1, <2>5 DEF Shapes, FileShapes
  <2>8. CASE op[c] # "commit"
    BY <2>2, <2>8, StageIdle
  <2>9. CASE op[c] = "commit"
    <3>1. Prepares(c)
      BY <2>3, <2>9, PreparesIs
    <3>2. /\ \A e \in Files : InTxn(c, e)' <=> InTxn(c, e)
          /\ (Several(c)' <=> Several(c)) /\ Reserved(c)' = Reserved(c)
      BY <2>2 DEF InTxn, Reserved, Several
    <3>3. Prepares(c)'
      BY <2>2, <2>5, <2>6, <2>9, <3>1, <3>2 DEF Prepares
    <3> QED
      BY <2>1, <2>2, <2>3, <2>4, <2>5, <2>9, <3>3, StagePrepares DEF Writing
  <2> QED
    BY <2>8, <2>9
<1>24. CASE SyncDb(c)
  <2>1. PICK d : d = cur[c]
    OBVIOUS
  <2> DEFINE todo == {e \in Reserved(c) : e # d /\ ~jw[c][e].done}
  <2>2. /\ pc[c] = "page" /\ op' = op /\ reads' = reads /\ txn' = txn
        /\ supers' = supers /\ children' = children /\ lock' = lock /\ mine' = mine
        /\ cur'[c] = (IF todo # {} THEN Min(todo) ELSE Min(Reserved(c)))
        /\ pc'[c] = (IF todo # {} THEN "prepare" ELSE IF Several(c) THEN "commit" ELSE "fin")
    BY <1>1, <2>1, <1>24 DEF SyncDb, ControlTypes, Shapes, Several
  <2>3. /\ d \in Files /\ Live(c, d) /\ lock[c][d] = EXCLUSIVE /\ op[c] = "commit"
        /\ jw' = [jw EXCEPT ![c][d] = jw'[c][d]]
        /\ jw'[c][d].off # 0 /\ jw'[c][d].done
    <3>1. /\ d \in Files /\ Live(c, d) /\ lock[c][d] = EXCLUSIVE /\ op[c] = "commit" /\ jw[c][d].off # 0
          /\ jw' = [jw EXCEPT ![c][d] = jw'[c][d]]
          /\ jw'[c][d].off = jw[c][d].off /\ jw'[c][d].done
      BY <2>1, <1>24, SyncDbDoes
    <3> QED
      BY <3>1
  <2>4. \A e \in Files : e # d => jw'[c][e] = jw[c][e]
    BY <1>1, <2>3 DEF Shapes, FileShapes
  <2>5. Prepares(c) /\ ~Recovering(c)
    BY <2>2, <2>3, PreparesIs DEF Preparing, Recovering
  <2>6. /\ \A e \in Files : InTxn(c, e)' <=> InTxn(c, e)
        /\ (Several(c)' <=> Several(c)) /\ Reserved(c)' = Reserved(c)
    BY <2>2 DEF InTxn, Reserved, Several
  <2>7. d \in Reserved(c)
    BY <2>3 DEF Live, InTxn, Reserved
  <2>8. CASE todo # {}
    <3>1. todo \in SUBSET Files
      BY DEF Reserved
    <3>2. PICK x : x = Min(todo)
      OBVIOUS
    <3>3. x \in todo
      <4> HIDE DEF todo
      <4> QED
        BY <2>8, <3>1, <3>2, TodoIs
    <3>4. pc'[c] = "prepare" /\ cur'[c] = x
      BY <2>2, <2>8, <3>2
    <3>5. ~jw'[c][x].done
      BY <2>4, <3>1, <3>3
    <3> HIDE DEF todo
    <3>6. Prepares(c)'
      BY <2>2, <2>3, <2>4, <2>5, <2>6, <3>4 DEF Prepares
    <3> QED
      BY <3>4, <3>5, <3>6, StagePrepares DEF Writing
  <2>9. CASE todo = {}
    <3>1. \A e \in Files : InTxn(c, e) => jw'[c][e].done
      BY <2>3, <2>4, <2>9 DEF Reserved, InTxn
    <3>2. pc'[c] = (IF Several(c) THEN "commit" ELSE "fin") /\ cur'[c] = Min(Reserved(c))
      BY <2>2, <2>9
    <3> HIDE DEF todo
    <3>3. cur'[c] \in Files /\ InTxn(c, cur'[c])
      BY <2>5, <2>7, <3>2, MinReserved, ReservedInTxn DEF Inv, Base, Reserved
    <3>4. CASE Several(c)
      <4>1. Prepares(c)'
        BY <2>2, <2>3, <2>4, <2>5, <2>6, <3>2, <3>4 DEF Prepares
      <4> QED
        BY <2>6, <3>1, <3>2, <3>4, <4>1, StagePrepares DEF Writing
    <3>5. CASE ~Several(c)
      <4>1. Reserved(c) = {cur'[c]}
        <5>1. cur'[c] \in Reserved(c)
          BY <3>3 DEF InTxn, Reserved
        <5>2. IsFiniteSet(Reserved(c))
          <6>1. Reserved(c) \subseteq Files
            BY DEF Reserved
          <6> QED
            BY <6>1, JournalAssumption, FS_Subset
        <5> QED
          BY <3>5, <5>1, <5>2, AtMostOne DEF Several
      <4>2. mine[c][cur'[c]] # None
        <5>1. Live(c, cur'[c])
          BY <2>2, <2>3, <3>3 DEF Live, Committed, Undone
        <5>2. DraftKept(c, cur'[c]) /\ jw[c][cur'[c]].off # 0
          BY <2>5, <3>3, <5>1, LiveIs DEF Prepares
        <5> QED
          BY <2>3, <5>2 DEF DraftKept
      <4>3. lock[c][cur'[c]] = EXCLUSIVE
        BY <2>5, <3>3 DEF Prepares
      <4>4. pc'[c] = "fin" /\ op'[c] = "commit" /\ mine' = mine /\ lock' = lock /\ Reserved(c)' = {cur'[c]}
        BY <2>2, <2>3, <2>6, <3>2, <3>5, <4>1
      <4> QED
        BY <2>6, <3>1, <4>2, <4>3, <4>4 DEF Stage, Writing, Preparing, Committed
    <3> QED
      BY <3>4, <3>5
  <2> QED
    BY <2>8, <2>9
<1>25. CASE DeleteSuper(c)
  <2>1. /\ pc[c] = "commit" /\ op[c] = "commit" /\ pc'[c] = "next" /\ op' = op /\ cur' = cur
        /\ lock' = lock /\ reads' = reads /\ mine'[c] = [d \in Files |-> None] /\ cur[c] \in Files
    BY <1>1, <1>25 DEF DeleteSuper, Control, ControlTypes, Shapes, InTxn
  <2>2. Prepares(c)
    BY <2>1, PreparesIs DEF Preparing
  <2>3. \A e \in Files : InTxn(c, e)' <=> InTxn(c, e)
    BY <2>1 DEF InTxn
  <2>4. \A e \in Files : InTxn(c, e)' => lock'[c][e] = EXCLUSIVE /\ mine'[c][e] = None
    BY <2>1, <2>2, <2>3 DEF Prepares
  <2>5. mine'[c][cur'[c]] = None
    BY <2>1
  <2> QED
    BY <2>1, <2>4, <2>5 DEF Stage, Writing, Preparing, Committed
<1>26. CASE End(c)
  <2>1. pc'[c] = "run"
    BY <1>26 DEF End
  <2> QED
    BY <2>1, StageIdle
<1>27. CASE Commit(c)
  <2>1. /\ pc[c] = "run" /\ pc'[c] = "lock" /\ op'[c] = "commit" /\ jw' = jw
        /\ UNCHANGED << reads, lock, mine >> /\ \A d \in Reserved(c) : mine[c][d] # None
    BY <1>1, <1>27 DEF Commit, ControlTypes, Shapes
  <2>2. ASSUME NEW e \in Files, InTxn(c, e) PROVE jw[c][e].off # 0
    <3>1. Live(c, e) /\ mine[c][e] # None
      BY <2>1, <2>2 DEF Live, Committed, Undone, InTxn, Reserved
    <3> QED
      BY <3>1, LiveIs DEF JournalKept
  <2>3. \A e \in Files : InTxn(c, e)' => jw'[c][e].off # 0
    BY <2>1, <2>2 DEF InTxn
  <2> QED
    BY <2>1, <2>3 DEF Stage, Writing, Preparing, Committed
<1>28. CASE Rollback(c)
  <2>1. pc'[c] = "next" /\ op'[c] = "rollback"
    BY <1>1, <1>28 DEF Rollback, ControlTypes, Shapes
  <2> QED
    BY <2>1, StageIdle
<1>29. CASE Crash(c)
  <2>1. pc'[c] = "run"
    BY <1>29 DEF Crash, Gone
  <2> QED
    BY <2>1, StageIdle
<1>30. ASSUME NEW d \in Files, Open(c, d) PROVE Stage(c)'
  <2>1. pc'[c] \in {"run", "exists", "reserved", "empty", "byte", "excl", "open", "check", "delsuper"}
    BY <1>1, <1>30 DEF Open, ControlTypes, Shapes
  <2> QED
    BY <2>1, StageIdle
<1>31. ASSUME NEW d \in Files, Reserve(c, d) PROVE Stage(c)'
  <2>1. pc'[c] = "run"
    BY <1>31 DEF Reserve
  <2> QED
    BY <2>1, StageIdle
<1>32. ASSUME NEW d \in Files, NEW p \in Pages, Write(c, d, p) PROVE Stage(c)'
  <2>1. pc'[c] = "run"
    BY <1>32 DEF Write
  <2> QED
    BY <2>1, StageIdle
<1>33. ASSUME NEW d \in Files, NEW p \in Pages, Spill(c, d, p) PROVE Stage(c)'
  <2>1. /\ pc[c] = "run" /\ p \in jw[c][d].dirty /\ cur'[c] = d /\ op'[c] = "write" /\ spill'[c] = p
        /\ UNCHANGED << jw, lock >>
        /\ pc'[c] = (IF p \notin jw[c][d].need /\ jw[c][d].mod THEN "page" ELSE "sync")
    BY <1>1, <1>33 DEF Spill, ControlTypes, Shapes
  <2>2. InTxn(c, d)
    BY <2>1 DEF Inv, Base, Unused, NothingDone, NoJw
  <2>3. Live(c, d)
    BY <2>1, <2>2 DEF Live, Committed, Undone
  <2>4. JournalKept(c, d) /\ DraftKept(c, d)
    BY <2>3, LiveIs
  <2>5. jw[c][d].off # 0 /\ (jw[c][d].mod => lock[c][d] = EXCLUSIVE)
    BY <2>1, <2>4 DEF JournalKept, Unopened, NoJw
  <2>6. ~jw[c][d].done
    <3>1. op[c] # "rollback"
      BY <1>1, <2>1 DEF Control
    <3> QED
      BY <2>1, <2>3, <3>1, DoneIs DEF Preparing
  <2> QED
    BY <2>1, <2>5, <2>6 DEF Stage, Writing, Preparing, Committed
<1> QED
  BY <1>2, <1>3, <1>4, <1>5, <1>6, <1>7, <1>8, <1>9, <1>10, <1>11, <1>12, <1>13, <1>14, <1>15,
     <1>16, <1>17, <1>18, <1>19, <1>20, <1>21, <1>22, <1>23, <1>24, <1>25, <1>26, <1>27, <1>28,
     <1>29, <1>30, <1>31, <1>32, <1>33 DEF Acts, Step
LEMMA StageKept ==
  ASSUME Inv, NEW c \in Conns, Acts(c)
  PROVE  \A o \in Conns : Stage(o)'
BY StageActs, StageOthers
-----------------------------------------------------------------------------
(* What has been found out, played back and finalised. *)

(* The ways to each place.                                                 *)
Enters(c) ==
  /\ pc'[c] = "empty" => HotReserved(c)
  /\ pc'[c] = "play" => HotOpen(c) \/ PlayTruncate(c) \/ PlayPage(c) \/ NextFile(c)
  /\ pc'[c] = "fin" => PlaySync(c) \/ SyncDb(c) \/ NextFile(c)
  /\ pc'[c] = "finsync" => Fin(c)
  /\ pc'[c] = "count" => SyncRecords(c)
  /\ pc'[c] = "unlock" => Fin(c) \/ FinSync(c) \/ NextFile(c)
  /\ pc'[c] = "delsuper" => Unlock(c)
  /\ pc'[c] = "next" => Unlock(c) \/ DelSuper(c) \/ NextFile(c) \/ DeleteSuper(c) \/ Rollback(c)
  /\ pc'[c] = "check" => \/ HotExists(c) \/ HotReserved(c) \/ HotEmpty(c) \/ HotByte(c)
                         \/ HotOpen(c) \/ Unlock(c) \/ DelSuper(c)

LEMMA EntersIs ==
  ASSUME Inv, NEW c \in Conns, Acts(c)
  PROVE  Enters(c)
<1> USE DEF At, Go, disk, local, ghosts, bounds
<1>1. /\ ControlTypes(c) /\ Control(c) /\ Shapes
  BY ControlTyped DEF Inv, Base
<1>2. CASE HotExists(c)
  BY <1>1, <1>2 DEF HotExists, Enters, Shapes, ControlTypes
<1>3. CASE HotReserved(c)
  BY <1>1, <1>3 DEF HotReserved, Enters, Shapes, ControlTypes
<1>4. CASE HotEmpty(c)
  BY <1>1, <1>4 DEF HotEmpty, Enters, Shapes, ControlTypes
<1>5. CASE HotByte(c)
  BY <1>1, <1>5 DEF HotByte, Enters, Shapes, ControlTypes
<1>6. CASE HotLock(c)
  BY <1>1, <1>6 DEF HotLock, Enters, Shapes, ControlTypes
<1>7. CASE HotOpen(c)
  BY <1>1, <1>7 DEF HotOpen, Enters, Shapes, ControlTypes
<1>8. CASE PlayTruncate(c)
  BY <1>1, <1>8 DEF PlayTruncate, Enters, Shapes, ControlTypes
<1>9. CASE PlayPage(c)
  BY <1>1, <1>9 DEF PlayPage, Enters, Shapes, ControlTypes
<1>10. CASE PlaySync(c)
  BY <1>1, <1>10 DEF PlaySync, Enters, Shapes, ControlTypes
<1>11. CASE Fin(c)
  BY <1>1, <1>11 DEF Fin, Enters, Shapes, ControlTypes
<1>12. CASE FinSync(c)
  BY <1>1, <1>12 DEF FinSync, Enters, Shapes, ControlTypes
<1>13. CASE Unlock(c)
  BY <1>1, <1>13 DEF Unlock, Enters, Shapes, ControlTypes
<1>14. CASE DelSuper(c)
  BY <1>1, <1>14 DEF DelSuper, Enters, Shapes, ControlTypes
<1>15. CASE NextFile(c)
  BY <1>1, <1>15 DEF NextFile, Enters, Shapes, ControlTypes
<1>16. CASE Check(c)
  BY <1>1, <1>16 DEF Check, Enters, Shapes, ControlTypes
<1>17. CASE CommitLock(c)
  BY <1>1, <1>17 DEF CommitLock, Enters, Shapes, ControlTypes
<1>18. CASE WriteSuper(c)
  BY <1>1, <1>18 DEF WriteSuper, Enters, Shapes, ControlTypes
<1>19. CASE Prepare(c)
  BY <1>1, <1>19 DEF Prepare, Enters, Shapes, ControlTypes
<1>20. CASE SyncRecords(c)
  BY <1>1, <1>20 DEF SyncRecords, Enters, Shapes, ControlTypes
<1>21. CASE Count(c)
  BY <1>1, <1>21 DEF Count, Enters, Shapes, ControlTypes
<1>22. CASE SyncCount(c)
  BY <1>1, <1>22 DEF SyncCount, Enters, Shapes, ControlTypes
<1>23. CASE WritePage(c)
  BY <1>1, <1>23 DEF WritePage, Enters, Shapes, ControlTypes
<1>24. CASE SyncDb(c)
  BY <1>1, <1>24 DEF SyncDb, Enters, Shapes, ControlTypes
<1>25. CASE DeleteSuper(c)
  BY <1>1, <1>25 DEF DeleteSuper, Enters, Shapes, ControlTypes
<1>26. CASE End(c)
  BY <1>1, <1>26 DEF End, Enters, Shapes, ControlTypes
<1>27. CASE Commit(c)
  BY <1>1, <1>27 DEF Commit, Enters, Shapes, ControlTypes
<1>28. CASE Rollback(c)
  BY <1>1, <1>28 DEF Rollback, Enters, Shapes, ControlTypes
<1>29. CASE Crash(c)
  BY <1>1, <1>29 DEF Crash, Gone, Enters
<1>30. ASSUME NEW d \in Files, Open(c, d) PROVE Enters(c)
  BY <1>1, <1>30 DEF Open, Enters, Shapes, ControlTypes
<1>31. ASSUME NEW d \in Files, Reserve(c, d) PROVE Enters(c)
  BY <1>1, <1>31 DEF Reserve, Enters, Shapes, ControlTypes
<1>32. ASSUME NEW d \in Files, NEW p \in Pages, Write(c, d, p) PROVE Enters(c)
  BY <1>1, <1>32 DEF Write, Enters, Shapes, ControlTypes
<1>33. ASSUME NEW d \in Files, NEW p \in Pages, Spill(c, d, p) PROVE Enters(c)
  BY <1>1, <1>33 DEF Spill, Enters, Shapes, ControlTypes
<1> QED
  BY <1>2, <1>3, <1>4, <1>5, <1>6, <1>7, <1>8, <1>9, <1>10, <1>11, <1>12, <1>13, <1>14, <1>15,
     <1>16, <1>17, <1>18, <1>19, <1>20, <1>21, <1>22, <1>23, <1>24, <1>25, <1>26, <1>27, <1>28,
     <1>29, <1>30, <1>31, <1>32, <1>33 DEF Acts, Step

LEMMA RestoredCounts ==
  ASSUME NEW f, NEW j, NEW S, NEW T, Counts(j, S) <=> Counts(j, T)
  PROVE  Restored(f, j, S) = Restored(f, j, T)
BY DEF Restored

(* What others hold is not touched.                                        *)
LEMMA OthersStore ==
  ASSUME Inv, NEW c \in Conns, Acts(c), NEW o \in Conns, o # c, NEW e \in Files,
         lock[o][e] >= RESERVED
  PROVE  Same(e) /\ Store(e)' = Store(e)
<1>1. Same(e) /\ (Counts(jnl[e], supers') <=> Counts(jnl[e], supers))
  BY OthersSafe, OthersNamed
<1>2. Restored(db[e], jnl[e], supers') = Restored(db[e], jnl[e], supers)
  BY <1>1, RestoredCounts
<1> QED
  BY <1>1, <1>2 DEF Store, Same

LEMMA PhaseOthers ==
  ASSUME Inv, NEW c \in Conns, Acts(c), NEW o \in Conns, o # c
  PROVE  Played(o)' /\ Finished(o)' /\ Emptied(o)' /\ Present(o)'
<1> USE DEF NONE, SHARED, RESERVED, PENDING, EXCLUSIVE
<1>1. /\ Alike(o) /\ Control(o) /\ LocksHeld(o) /\ ControlTypes(o)
      /\ Played(o) /\ Finished(o) /\ Emptied(o) /\ Present(o)
  BY Others, ControlTyped DEF Inv, Base, Phases
<1>2. pc[o] \in {"fin", "finsync", "unlock"} \/ (op[o] = "hot" /\ pc[o] = "play") =>
        cur[o] \in Files /\ lock[o][cur[o]] >= RESERVED
  <2>1. op[o] = "hot" /\ pc[o] \in {"play", "fin", "finsync", "unlock"} =>
          cur[o] \in Files /\ lock[o][cur[o]] >= RESERVED
    BY <1>1 DEF Control, LocksHeld, Recovering, Alone
  <2>2. op[o] # "hot" /\ pc[o] \in {"fin", "finsync", "unlock"} => InTxn(o, cur[o])
    BY <1>1 DEF Control
  <2> QED
    BY <1>1, <2>1, <2>2 DEF InTxn, ControlTypes
<1>3. Played(o)'
  BY <1>1, <1>2, OthersStore DEF Played, Alike, Same
<1>4. Finished(o)'
  BY <1>1, <1>2, OthersStore DEF Finished, Alike, Same
<1>5. Emptied(o)'
  <2>1. pc[o] = "empty" => cur[o] \in Files /\ lock[o][cur[o]] = SHARED
    BY <1>1 DEF Control, LocksHeld, Recovering, Alone
  <2> QED
    BY <1>1, <2>1, OthersSafe DEF Emptied, Alike
<1>6. Present(o)'
  <2>1. \A e \in Files : InTxn(o, e) => jnl'[e] = jnl[e]
    BY OthersSafe DEF InTxn, Same
  <2>2. op[o] = "hot" /\ pc[o] \in {"play", "fin"} => jnl'[cur[o]] = jnl[cur[o]]
    BY <1>2, OthersSafe DEF Same
  <2>3. (Committed(o)' <=> Committed(o)) /\ \A e \in Files : InTxn(o, e)' <=> InTxn(o, e)
    BY <1>1 DEF Alike, Committed, InTxn
  <2> QED
    BY <1>1, <2>1, <2>2, <2>3 DEF Present, Alike
<1> QED
  BY <1>3, <1>4, <1>5, <1>6

LEMMA PlayedActs ==
  ASSUME Inv, NEW c \in Conns, Acts(c)
  PROVE  Played(c)'
<1> USE DEF At, Go
<1>1. /\ Control(c) /\ ControlTypes(c) /\ Shapes /\ FileShapes /\ TypeOK
  BY ControlTyped, FileShapesOK DEF Inv, Base
<1>2. CASE ~(op'[c] \in {"hot", "rollback"} /\ pc'[c] = "fin")
  BY <1>2 DEF Played
<1>3. CASE SyncDb(c) \/ NextFile(c)
  BY <1>1, <1>3 DEF SyncDb, NextFile, Committing, Control, Played, ControlTypes, Shapes
<1>4. CASE PlaySync(c)
  <2>1. PICK d : d = cur[c]
    OBVIOUS
  <2>2. /\ pc[c] = "play" /\ op' = op /\ cur' = cur /\ db' = db /\ jnl' = jnl /\ supers' = supers
        /\ cache' = cache /\ op[c] \in {"hot", "rollback"}
    BY <1>1, <1>4 DEF PlaySync, Control
  <2>3. CASE op[c] = "hot"
    <3>1. d \in Files /\ db[d] \in Seq(Page) /\ Store(d) = db[d]
      BY <1>4, <2>1, <2>2, <2>3, HotPlayed, HotIs
    <3>2. ddb'[d] = db[d]
      BY <1>1, <1>4, <2>1, <2>3, <3>1 DEF PlaySync, FileShapes
    <3>3. Len(db[d]) <= Len(ddb'[d])
      BY <3>1, <3>2
    <3> QED
      BY <2>1, <2>2, <2>3, <3>1, <3>3 DEF Played, Store
  <2>4. CASE op[c] = "rollback"
    <3>1. /\ d \in Files /\ InTxn(c, d)
          /\ jnl[d] \in Seq(JournalCell) /\ jw[c][d] \in JournalWriter /\ cache[c][d] \in Seq(Page)
          /\ db[d] \in Seq(Page) /\ Journal(jnl[d], jw[c][d], cache[c][d], db[d])
          /\ Counts(jnl[d], supers)
      BY <2>1, <2>2, <2>4, UndoIs
    <3>2. jw[c][d].mod => /\ Len(db[d]) <= jw[c][d].orig
                          /\ \A p \in OldPages(jnl[d], Records(jnl[d], jw[c][d].hdr - 1)) :
                               p \in DOMAIN db[d] => db[d][p] = OldPage(jnl[d], Records(jnl[d], jw[c][d].hdr - 1), p)
      <4> SUFFICES ASSUME jw[c][d].mod
                   PROVE  /\ Len(db[d]) <= jw[c][d].orig
                          /\ \A p \in OldPages(jnl[d], Records(jnl[d], jw[c][d].hdr - 1)) :
                               p \in DOMAIN db[d] => db[d][p] = OldPage(jnl[d], Records(jnl[d], jw[c][d].hdr - 1), p)
        OBVIOUS
      <4>1. PlayOrig(c, d) = jw[c][d].orig
        BY <2>4 DEF PlayOrig
      <4>2. PlayRecords(c, d) = Records(jnl[d], jw[c][d].hdr - 1)
        BY <2>4, <3>1 DEF PlayRecords
      <4>3. Len(db[d]) <= PlayOrig(c, d) /\ ToPlay(c, d) = {}
        BY <1>4, <2>1 DEF PlaySync
      <4>4. CASE PlayRecords(c, d) = {}
        <5>1. OldPages(jnl[d], PlayRecords(c, d)) = {}
          BY <4>4 DEF OldPages
        <5> QED
          BY <4>1, <4>2, <4>3, <5>1
      <4>5. CASE PlayRecords(c, d) # {}
        <5>1. \A p \in OldPages(jnl[d], PlayRecords(c, d)) :
                p \in DOMAIN db[d] => db[d][p] = OldPage(jnl[d], PlayRecords(c, d), p)
          BY <4>3, <4>5 DEF ToPlay
        <5> QED
          BY <4>1, <4>2, <4>3, <5>1
      <4> QED
        BY <4>4, <4>5
    <3>3. db[d] = cache[c][d]
      BY <3>1, <3>2, JournalUndone
    <3>4. Store(d) = cache[c][d]
      BY <3>1, JournalRestores DEF Store
    <3>5. Len(db[d]) <= Len(ddb'[d])
      <4>1. CASE jw[c][d].mod
        <5>1. ddb'[d] = db[d]
          BY <1>1, <1>4, <2>1, <4>1, <3>1 DEF PlaySync, FileShapes
        <5> QED
          BY <3>1, <5>1
      <4>2. CASE ~jw[c][d].mod
        <5>1. ddb' = ddb
          BY <1>4, <2>1, <2>4, <4>2 DEF PlaySync
        <5>2. jw[c][d].orig <= Len(ddb[d]) /\ jw[c][d].orig = Len(cache[c][d])
          BY <3>1 DEF Inv, Stores, OrigKept, Journal, Copied
        <5> QED
          BY <3>3, <5>1, <5>2
      <4> QED
        BY <4>1, <4>2
    <3> QED
      BY <2>1, <2>2, <2>4, <3>3, <3>4, <3>5 DEF Played, Store
  <2> QED
    BY <2>2, <2>3, <2>4
<1> QED
  BY <1>2, <1>3, <1>4, EntersIs DEF Enters

(* The next file of a transaction. *)
LEMMA NextIs ==
  ASSUME Inv, NEW c \in Conns, NextFile(c), NEW d, d = Min(Reserved(c))
  PROVE  /\ d \in Files /\ InTxn(c, d) /\ cur' = [cur EXCEPT ![c] = d] /\ cur'[c] = d
         /\ pc[c] = "next" /\ op[c] \in {"commit", "rollback"} /\ op' = op
         /\ (op[c] = "rollback" => Live(c, d))
         /\ op[c] = "commit" => Committed(c) /\ pc'[c] = "fin"
         /\ op[c] = "rollback" => pc'[c] = IF jw[c][d].off = 0 THEN "unlock" ELSE "play"
<1> USE DEF At, Go
<1>1. /\ Control(c) /\ ControlTypes(c) /\ Shapes /\ Stage(c) /\ LocksHeld(c)
  BY ControlTyped DEF Inv, Base, Phases
<1>2. pc[c] = "next" /\ op' = op /\ cur' = [cur EXCEPT ![c] = Min(Reserved(c))]
  BY DEF NextFile
<1>3. op[c] \in {"commit", "rollback"} /\ \E e \in Files : InTxn(c, e)
  BY <1>1, <1>2 DEF Control
<1>4. Reserved(c) # {}
  BY <1>3 DEF Reserved, InTxn
<1>5. d \in Reserved(c) /\ d \in Files
  BY <1>4, MinReserved
<1>6. InTxn(c, d)
  BY <1>2, <1>3, <1>5, ReservedInTxn DEF Reserved, Recovering, Inv
<1>7. cur'[c] = d
  BY <1>1, <1>2 DEF Shapes
<1>8. op[c] = "rollback" => Live(c, d)
  BY <1>2, <1>6 DEF Live, Committed, Undone
<1>9. op[c] = "commit" => Committed(c)
  BY <1>1, <1>2 DEF Stage
<1>10. pc'[c] = IF Committing(c) THEN "fin" ELSE IF jw[c][d].off = 0 THEN "unlock" ELSE "play"
  BY <1>1 DEF NextFile, Shapes
<1> QED
  BY <1>2, <1>3, <1>5, <1>6, <1>7, <1>8, <1>9, <1>10 DEF Committing

LEMMA FinishedActs ==
  ASSUME Inv, NEW c \in Conns, Acts(c)
  PROVE  Finished(c)'
<1> USE DEF At, Go
<1>1. /\ Control(c) /\ ControlTypes(c) /\ Shapes /\ FileShapes /\ TypeOK /\ Finished(c)
  BY ControlTyped, FileShapesOK DEF Inv, Base, Phases
<1>2. CASE ~(pc'[c] \in {"finsync", "unlock"})
  BY <1>2 DEF Finished
<1>3. CASE Fin(c)
  <2>1. ~IsHdr(jnl'[cur[c]], 1) /\ SuperName(jnl'[cur[c]]) = 0
    BY <1>3, FinDoes
  <2>2. cur' = cur
    BY <1>3 DEF Fin
  <2> QED
    BY <2>1, <2>2 DEF Finished
<1>4. CASE FinSync(c)
  BY <1>1, <1>4 DEF FinSync, Finished, local
<1>5. CASE NextFile(c) /\ pc'[c] = "unlock"
  <2>1. PICK d : d = Min(Reserved(c))
    OBVIOUS
  <2>2. /\ d \in Files /\ InTxn(c, d) /\ cur'[c] = d
        /\ op[c] = "rollback" /\ Live(c, d) /\ jw[c][d].off = 0
    BY <1>5, <2>1, NextIs
  <2>3. jnl' = jnl /\ txn' = txn
    BY <1>5 DEF NextFile, disk, local
  <2>4. ~IsHdr(jnl[d], 1)
    BY <2>2, LiveIs
  <2>5. txn[c] # 0 => SuperName(jnl[d]) # txn[c]
    BY <2>2 DEF Inv, Supered, NamesOwned
  <2> QED
    BY <2>2, <2>3, <2>4, <2>5 DEF Finished
<1>6. CASE NextFile(c) /\ pc'[c] = "finsync"
  BY <1>1, <1>6 DEF NextFile, Shapes
<1> QED
  BY <1>2, <1>3, <1>4, <1>5, <1>6, EntersIs DEF Enters

LEMMA EmptiedActs ==
  ASSUME Inv, NEW c \in Conns, Acts(c)
  PROVE  Emptied(c)'
<1> USE DEF At, Go
<1>1. ControlTypes(c) /\ Shapes
  BY ControlTyped DEF Inv, Base
<1>2. CASE pc'[c] # "empty"
  BY <1>2 DEF Emptied
<1>3. CASE HotReserved(c)
  BY <1>1, <1>3 DEF HotReserved, Emptied, disk, Shapes
<1> QED
  BY <1>2, <1>3, EntersIs DEF Enters

(* The end of phase one in the last file. *)
LEMMA LastDone ==
  ASSUME Inv, NEW c \in Conns, SyncDb(c), pc'[c] = "fin"
  PROVE  /\ op'[c] = "commit" /\ mine'[c][cur'[c]] # None
         /\ cur'[c] \in Files /\ InTxn(c, cur'[c])
<1> USE DEF At, Go
<1>1. /\ Control(c) /\ ControlTypes(c) /\ Shapes /\ Stage(c)
  BY ControlTyped DEF Inv, Base, Phases
<1>2. /\ op[c] = "commit" /\ pc[c] = "page" /\ op' = op /\ mine' = mine
  BY SyncDbDoes DEF SyncDb
<1>3. cur'[c] = Min(Reserved(c))
  BY <1>1, <1>2 DEF SyncDb, Shapes
<1>4. InTxn(c, cur[c])
  BY <1>1, <1>2 DEF Control
<1>5. cur[c] \in Reserved(c)
  BY <1>1, <1>4 DEF InTxn, Reserved, ControlTypes
<1>6. cur'[c] \in Reserved(c) /\ cur'[c] \in Files
  BY <1>3, <1>5, MinReserved
<1>7. InTxn(c, cur'[c])
  BY <1>2, <1>6, ReservedInTxn DEF Reserved, Recovering, Inv
<1>8. Live(c, cur'[c]) /\ jw[c][cur'[c]].off # 0
  BY <1>1, <1>2, <1>6, <1>7 DEF Live, Committed, Undone, Stage, Preparing
<1>9. mine[c][cur'[c]] # None
  BY <1>2, <1>6, <1>8, LiveIs DEF DraftKept
<1> QED
  BY <1>2, <1>6, <1>7, <1>9

LEMMA PresentActs ==
  ASSUME Inv, NEW c \in Conns, Acts(c)
  PROVE  Present(c)'
<1> USE DEF At, Go, NONE, SHARED, RESERVED, PENDING, EXCLUSIVE
<1>1. /\ Control(c) /\ ControlTypes(c) /\ Shapes /\ FileShapes /\ Present(c) /\ Stage(c) /\ LocksHeld(c)
  BY ControlTyped, FileShapesOK DEF Inv, Base, Phases
<1>2. op'[c] = "hot" /\ pc'[c] \in {"play", "fin"} => jnl'[cur'[c]] # None
  <2>1. CASE HotOpen(c)
    BY <1>1, <2>1 DEF HotOpen, StillThere, Shapes
  <2>2. CASE PlayTruncate(c)
    BY <1>1, <2>2 DEF PlayTruncate, Present
  <2>3. CASE PlayPage(c)
    BY <1>1, <2>3 DEF PlayPage, Present
  <2>4. CASE PlaySync(c)
    BY <1>1, <2>4 DEF PlaySync, Present
  <2>5. CASE SyncDb(c)
    BY <1>1, <2>5 DEF SyncDb, Control
  <2>6. CASE NextFile(c)
    BY <1>1, <2>6 DEF NextFile, Control
  <2> QED
    BY <2>1, <2>2, <2>3, <2>4, <2>5, <2>6, EntersIs DEF Enters
<1>3. ASSUME Committed(c)', NEW e \in Files, InTxn(c, e)'
      PROVE  jnl'[e] # None \/ (cur'[c] = e /\ pc'[c] \in {"finsync", "unlock"})
  <2>1. op'[c] = "commit" /\ pc'[c] \in {"next", "fin", "finsync", "unlock"} /\ mine'[c][cur'[c]] = None
    BY <1>3 DEF Committed
  <2>2. CASE DeleteSuper(c)
    <3>1. pc[c] = "commit" /\ lock' = lock /\ reads' = reads /\ jnl' = jnl /\ op' = op
      BY <2>2 DEF DeleteSuper
    <3>2. InTxn(c, e) /\ Live(c, e) /\ jw[c][e].off # 0
      BY <1>1, <1>3, <2>1, <3>1 DEF InTxn, Live, Committed, Undone, Stage, Preparing
    <3>3. jnl[e] # None
      BY <3>2, LiveIs DEF JournalKept
    <3> QED
      BY <3>1, <3>3
  <2>3. CASE Unlock(c)
    <3>1. /\ pc[c] = "unlock" /\ op[c] = "commit" /\ reads' = reads /\ jnl' = jnl
          /\ lock' = [lock EXCEPT ![c][cur[c]] = SHARED]
      BY <1>1, <2>1, <2>3 DEF Unlock, Locked, disk, Shapes
    <3>2. Committed(c) /\ cur[c] \in Files
      BY <1>1, <3>1 DEF Stage, Control, InTxn, ControlTypes
    <3>3. InTxn(c, e) /\ e # cur[c]
      BY <1>1, <1>3, <3>1, <3>2 DEF InTxn, Shapes, FileShapes
    <3> QED
      BY <1>1, <3>1, <3>2, <3>3 DEF Present
  <2>4. CASE DelSuper(c)
    BY <1>1, <2>1, <2>4 DEF DelSuper, Control, Shapes
  <2>5. CASE Rollback(c)
    BY <1>1, <2>1, <2>5 DEF Rollback, Shapes
  <2>6. CASE NextFile(c)
    <3>1. /\ pc[c] = "next" /\ op' = op /\ lock' = lock /\ reads' = reads /\ jnl' = jnl
      BY <2>6 DEF NextFile, disk, local
    <3>2. Committed(c) /\ InTxn(c, e)
      BY <1>1, <1>3, <2>1, <3>1 DEF Stage, InTxn
    <3> QED
      BY <1>1, <3>1, <3>2 DEF Present
  <2>7. CASE PlaySync(c)
    BY <1>1, <2>1, <2>7 DEF PlaySync, Control
  <2>8. CASE SyncDb(c)
    <3>1. pc'[c] = "fin"
      BY <2>1, <2>8, SyncDbDoes
    <3> QED
      BY <2>1, <2>8, <3>1, LastDone
  <2>9. CASE Fin(c)
    <3>1. /\ op' = op /\ cur' = cur /\ lock' = lock /\ reads' = reads /\ pc[c] = "fin"
          /\ pc'[c] \in {"finsync", "unlock"}
      BY <1>1, <2>9 DEF Fin, Shapes
    <3>2. InTxn(c, e)
      BY <1>3, <3>1 DEF InTxn
    <3>3. CASE FinCommits(c)
      <4>1. Reserved(c) = {cur[c]}
        BY <3>3, CommitsIs
      <4> QED
        BY <3>1, <3>2, <4>1 DEF InTxn, Reserved
    <3>4. CASE ~FinCommits(c) /\ e # cur[c]
      <4>1. Committed(c)
        BY <2>1, <3>1, <3>4 DEF FinCommits, Committed
      <4>2. jnl[e] # None
        BY <1>1, <3>2, <3>4, <4>1 DEF Present
      <4>3. jnl'[e] = jnl[e]
        BY <1>1, <2>9, <3>4 DEF Fin, FileShapes
      <4> QED
        BY <4>2, <4>3
    <3>5. CASE e = cur[c]
      BY <3>1, <3>5
    <3> QED
      BY <3>3, <3>4, <3>5
  <2>10. CASE FinSync(c)
    <3>1. /\ pc[c] = "finsync" /\ op' = op /\ cur' = cur /\ lock' = lock /\ reads' = reads
          /\ jnl' = jnl /\ pc'[c] = "unlock"
      BY <1>1, <2>10 DEF FinSync, local, Shapes
    <3>2. Committed(c) /\ InTxn(c, e)
      BY <1>1, <1>3, <2>1, <3>1 DEF Stage, InTxn
    <3> QED
      BY <1>1, <3>1, <3>2 DEF Present
  <2> QED
    BY <2>1, <2>2, <2>3, <2>4, <2>5, <2>6, <2>7, <2>8, <2>9, <2>10, EntersIs DEF Enters
<1> QED
  BY <1>2, <1>3 DEF Present

LEMMA PhasesKept ==
  ASSUME Inv, NEW c \in Conns, Acts(c)
  PROVE  Phases'
<1>1. ASSUME NEW o \in Conns
      PROVE  Played(o)' /\ Finished(o)' /\ Emptied(o)' /\ Present(o)'
  BY PhaseOthers, PlayedActs, FinishedActs, EmptiedActs, PresentActs
<1> QED
  BY <1>1, StageKept DEF Phases

-----------------------------------------------------------------------------
(* What a step does to a file and its journal. *)

(* Of the connection whose transaction changes the file.                   *)
Works(c, e) ==
  \/ \E p \in Pages : Write(c, e, p)
  \/ /\ e = cur[c]
     /\ \/ Prepare(c) \/ SyncRecords(c) \/ Count(c) \/ SyncCount(c) \/ WritePage(c)
        \/ op[c] = "rollback" /\ (PlayTruncate(c) \/ PlayPage(c))

Kinds(c, e) ==
  \/ db'[e] = db[e] /\ jnl'[e] = jnl[e]
  \/ Works(c, e)
  \/ e = cur[c] /\ (HotEmpty(c) \/ Fin(c))
  \/ e = cur[c] /\ op[c] = "hot" /\ (PlayTruncate(c) \/ PlayPage(c))

LEMMA KindsAre ==
  ASSUME Inv, NEW c \in Conns, Acts(c), NEW e \in Files
  PROVE  Kinds(c, e)
<1> USE DEF disk
<1>1. /\ FileShapes /\ ControlTypes(c) /\ Control(c)
  BY ControlTyped, FileShapesOK DEF Inv, Base
<1>2. CASE HotExists(c)
  BY <1>2 DEF HotExists, Kinds
<1>3. CASE HotReserved(c)
  BY <1>3 DEF HotReserved, Kinds
<1>4. CASE HotEmpty(c)
  <2>1. e # cur[c] => db'[e] = db[e] /\ jnl'[e] = jnl[e]
    BY <1>1, <1>4 DEF HotEmpty, FileShapes
  <2> QED
    BY <1>4, <2>1 DEF Kinds, Works
<1>5. CASE HotByte(c)
  BY <1>5 DEF HotByte, Kinds
<1>6. CASE HotLock(c)
  BY <1>6 DEF HotLock, Kinds
<1>7. CASE HotOpen(c)
  BY <1>7 DEF HotOpen, Kinds
<1>8. CASE PlayTruncate(c)
  <2>1. op[c] \in {"hot", "rollback"}
    BY <1>1, <1>8 DEF PlayTruncate, At, Control
  <2>2. e # cur[c] => db'[e] = db[e] /\ jnl'[e] = jnl[e]
    BY <1>1, <1>8 DEF PlayTruncate, FileShapes
  <2> QED
    BY <1>8, <2>1, <2>2 DEF Kinds, Works
<1>9. CASE PlayPage(c)
  <2>1. op[c] \in {"hot", "rollback"}
    BY <1>1, <1>9 DEF PlayPage, At, Control
  <2>2. e # cur[c] => db'[e] = db[e] /\ jnl'[e] = jnl[e]
    BY <1>1, <1>9 DEF PlayPage, FileShapes
  <2> QED
    BY <1>9, <2>1, <2>2 DEF Kinds, Works
<1>10. CASE PlaySync(c)
  BY <1>10 DEF PlaySync, Kinds
<1>11. CASE Fin(c)
  <2>1. e # cur[c] => db'[e] = db[e] /\ jnl'[e] = jnl[e]
    BY <1>1, <1>11 DEF Fin, FileShapes
  <2> QED
    BY <1>11, <2>1 DEF Kinds, Works
<1>12. CASE FinSync(c)
  BY <1>12 DEF FinSync, Kinds
<1>13. CASE Unlock(c)
  BY <1>13 DEF Unlock, Kinds
<1>14. CASE DelSuper(c)
  BY <1>14 DEF DelSuper, Kinds
<1>15. CASE NextFile(c)
  BY <1>15 DEF NextFile, Kinds
<1>16. CASE Check(c)
  BY <1>16 DEF Check, Kinds
<1>17. CASE CommitLock(c)
  BY <1>17 DEF CommitLock, Kinds
<1>18. CASE WriteSuper(c)
  BY <1>18 DEF WriteSuper, Kinds
<1>19. CASE Prepare(c)
  <2>1. e # cur[c] => db'[e] = db[e] /\ jnl'[e] = jnl[e]
    BY <1>1, <1>19 DEF Prepare, FileShapes
  <2> QED
    BY <1>19, <2>1 DEF Kinds, Works
<1>20. CASE SyncRecords(c)
  <2>1. e # cur[c] => db'[e] = db[e] /\ jnl'[e] = jnl[e]
    BY <1>1, <1>20 DEF SyncRecords, FileShapes
  <2> QED
    BY <1>20, <2>1 DEF Kinds, Works
<1>21. CASE Count(c)
  <2>1. e # cur[c] => db'[e] = db[e] /\ jnl'[e] = jnl[e]
    BY <1>1, <1>21 DEF Count, FileShapes
  <2> QED
    BY <1>21, <2>1 DEF Kinds, Works
<1>22. CASE SyncCount(c)
  <2>1. e # cur[c] => db'[e] = db[e] /\ jnl'[e] = jnl[e]
    BY <1>1, <1>22 DEF SyncCount, FileShapes
  <2> QED
    BY <1>22, <2>1 DEF Kinds, Works
<1>23. CASE WritePage(c)
  <2>1. e # cur[c] => db'[e] = db[e] /\ jnl'[e] = jnl[e]
    BY <1>1, <1>23 DEF WritePage, FileShapes
  <2> QED
    BY <1>23, <2>1 DEF Kinds, Works
<1>24. CASE SyncDb(c)
  BY <1>24 DEF SyncDb, Kinds
<1>25. CASE DeleteSuper(c)
  BY <1>25 DEF DeleteSuper, Kinds
<1>26. CASE End(c)
  BY <1>26 DEF End, Kinds
<1>27. CASE Commit(c)
  BY <1>27 DEF Commit, Kinds
<1>28. CASE Rollback(c)
  BY <1>28 DEF Rollback, Kinds
<1>29. CASE Crash(c)
  BY <1>29 DEF Crash, Kinds
<1>30. ASSUME NEW d \in Files, Open(c, d) PROVE Kinds(c, e)
  BY <1>30 DEF Open, Kinds
<1>31. ASSUME NEW d \in Files, Reserve(c, d) PROVE Kinds(c, e)
  BY <1>31 DEF Reserve, Kinds
<1>32. ASSUME NEW d \in Files, NEW p \in Pages, Write(c, d, p) PROVE Kinds(c, e)
  <2>1. e # d => db'[e] = db[e] /\ jnl'[e] = jnl[e]
    BY <1>1, <1>32 DEF Write, FileShapes
  <2> QED
    BY <1>32, <2>1 DEF Kinds, Works
<1>33. ASSUME NEW d \in Files, NEW p \in Pages, Spill(c, d, p) PROVE Kinds(c, e)
  BY <1>33 DEF Spill, Kinds
<1> QED
  BY <1>2, <1>3, <1>4, <1>5, <1>6, <1>7, <1>8, <1>9, <1>10, <1>11, <1>12, <1>13, <1>14, <1>15,
     <1>16, <1>17, <1>18, <1>19, <1>20, <1>21, <1>22, <1>23, <1>24, <1>25, <1>26, <1>27, <1>28,
     <1>29, <1>30, <1>31, <1>32, <1>33 DEF Acts, Step

WorkDone(c, e) ==
  /\ Live(c, e) /\ jnl'[e] \in Seq(JournalCell) /\ jw'[c][e] \in JournalWriter
  /\ jw'[c][e].off # 0 /\ jw'[c][e].orig = jw[c][e].orig
  /\ (jw[c][e].mod => jw'[c][e].mod)
  /\ cache' = cache /\ supers' = supers /\ dsupers' = dsupers /\ ddb' = ddb
  /\ db'[e] \in Seq(Page) /\ (db'[e] = db[e] \/ (jw[c][e].mod /\ jw'[c][e].mod))
  /\ \/ SuperName(jnl'[e]) \in {0, SuperName(jnl[e])}
     \/ Prepare(c) /\ Several(c) /\ SuperName(jnl'[e]) = txn[c]
  /\ JournalKept(c, e)' /\ DraftKept(c, e)'

LEMMA WorksDoes ==
  ASSUME Inv, NEW c \in Conns, NEW e \in Files, Works(c, e)
  PROVE  WorkDone(c, e)
<1>1. FileShapes /\ Shapes /\ TypeOK /\ db[e] \in Seq(Page) /\ jnl[e] \in Seq(JournalCell) \cup {None}
  BY FileShapesOK, ShapesOK DEF Inv, Base, TypeOK
<1>2. ASSUME NEW p \in Pages, Write(c, e, p)
      PROVE  WorkDone(c, e)
  <2>1. Live(c, e) /\ JournalKept(c, e)' /\ DraftKept(c, e)'
    BY <1>2, WriteDoes
  <2>2. /\ jnl'[e] \in Seq(JournalCell) /\ jw'[c][e] \in JournalWriter /\ jw'[c][e].off # 0
        /\ jw'[c][e].mod = jw[c][e].mod /\ jw'[c][e].orig = jw[c][e].orig
        /\ SuperName(jnl'[e]) \in {0, SuperName(jnl[e])}
    BY <1>2, WriteDoes
  <2>3. /\ cache' = cache /\ supers' = supers /\ dsupers' = dsupers /\ ddb' = ddb /\ db' = db
    BY <1>2 DEF Write
  <2> QED
    BY <1>1, <2>1, <2>2, <2>3 DEF WorkDone
<1>3. CASE e = cur[c] /\ Prepare(c)
  <2>1. Live(c, e) /\ JournalKept(c, e)' /\ DraftKept(c, e)'
    BY <1>3, PrepareDoes
  <2>2. /\ jnl'[e] \in Seq(JournalCell) /\ jw'[c][e] \in JournalWriter /\ jw'[c][e].off # 0
        /\ jw'[c][e].mod = jw[c][e].mod /\ jw'[c][e].orig = jw[c][e].orig
        /\ SuperName(jnl'[e]) \in {0, SuperName(jnl[e])} \/ (Several(c) /\ SuperName(jnl'[e]) = txn[c])
    BY <1>3, PrepareDoes
  <2>3. /\ cache' = cache /\ supers' = supers /\ dsupers' = dsupers /\ ddb' = ddb /\ db' = db
    BY <1>3 DEF Prepare
  <2> QED
    BY <1>1, <1>3, <2>1, <2>2, <2>3 DEF WorkDone
<1>4. CASE e = cur[c] /\ SyncRecords(c)
  <2>1. Live(c, e) /\ JournalKept(c, e)' /\ DraftKept(c, e)'
    BY <1>4, SyncRecordsDoes
  <2>2. /\ jnl'[e] \in Seq(JournalCell) /\ jw[c][e].off # 0
        /\ SuperName(jnl'[e]) \in {0, SuperName(jnl[e])}
    BY <1>4, SyncRecordsDoes
  <2>3. /\ cache' = cache /\ supers' = supers /\ dsupers' = dsupers /\ ddb' = ddb /\ db' = db /\ jw' = jw
    BY <1>4 DEF SyncRecords
  <2>4. jw[c][e] \in JournalWriter
    BY <2>1, LiveIs
  <2> QED
    BY <1>1, <1>4, <2>1, <2>2, <2>3, <2>4 DEF WorkDone
<1>5. CASE e = cur[c] /\ Count(c)
  <2>1. Live(c, e) /\ JournalKept(c, e)' /\ DraftKept(c, e)'
    BY <1>5, CountDoes
  <2>2. /\ jnl'[e] \in Seq(JournalCell) /\ jw[c][e].off # 0
        /\ SuperName(jnl'[e]) \in {0, SuperName(jnl[e])}
    BY <1>5, CountDoes
  <2>3. /\ cache' = cache /\ supers' = supers /\ dsupers' = dsupers /\ ddb' = ddb /\ db' = db /\ jw' = jw
    BY <1>5 DEF Count, local
  <2>4. jw[c][e] \in JournalWriter
    BY <2>1, LiveIs
  <2> QED
    BY <1>1, <1>5, <2>1, <2>2, <2>3, <2>4 DEF WorkDone
<1>6. CASE e = cur[c] /\ SyncCount(c)
  <2>1. Live(c, e) /\ JournalKept(c, e)' /\ DraftKept(c, e)'
    BY <1>6, SyncCountDoes
  <2>2. /\ jnl'[e] \in Seq(JournalCell) /\ jw'[c][e] \in JournalWriter /\ jw'[c][e].off # 0
        /\ jw'[c][e].mod /\ jw'[c][e].orig = jw[c][e].orig
        /\ SuperName(jnl'[e]) \in {0, SuperName(jnl[e])}
    BY <1>6, SyncCountDoes
  <2>3. /\ cache' = cache /\ supers' = supers /\ dsupers' = dsupers /\ ddb' = ddb /\ db' = db
    BY <1>6 DEF SyncCount
  <2> QED
    BY <1>1, <1>6, <2>1, <2>2, <2>3 DEF WorkDone
<1>7. CASE e = cur[c] /\ WritePage(c)
  <2>1. Live(c, e) /\ JournalKept(c, e)' /\ DraftKept(c, e)'
    BY <1>7, WritePageDoes
  <2>2. /\ db'[e] \in Seq(Page) /\ jw'[c][e] \in JournalWriter /\ jw'[c][e].off = jw[c][e].off
        /\ jw[c][e].off # 0 /\ jw[c][e].mod
        /\ jw'[c][e].mod = jw[c][e].mod /\ jw'[c][e].orig = jw[c][e].orig
    BY <1>7, WritePageDoes
  <2>3. /\ cache' = cache /\ supers' = supers /\ dsupers' = dsupers /\ ddb' = ddb /\ jnl' = jnl
    BY <1>7 DEF WritePage
  <2>4. jw[c][e].off # 0 => jnl[e] \in Seq(JournalCell)
    BY <2>1, LiveIs
  <2> QED
    BY <1>1, <1>7, <2>1, <2>2, <2>3, <2>4 DEF WorkDone
<1>8. CASE e = cur[c] /\ op[c] = "rollback" /\ (PlayTruncate(c) \/ PlayPage(c))
  <2>1. Live(c, e) /\ JournalKept(c, e)' /\ DraftKept(c, e)'
    BY <1>8, PlayDoes
  <2>2. /\ db'[e] \in Seq(Page) /\ jw[c][e].off # 0 /\ jw[c][e].mod
    BY <1>8, PlayDoes
  <2>3. /\ cache' = cache /\ supers' = supers /\ dsupers' = dsupers /\ ddb' = ddb /\ jnl' = jnl /\ jw' = jw
    BY <1>8 DEF PlayTruncate, PlayPage, local
  <2>4. jw[c][e] \in JournalWriter /\ (jw[c][e].off # 0 => jnl[e] \in Seq(JournalCell))
    BY <2>1, LiveIs
  <2> QED
    BY <1>1, <1>8, <2>1, <2>2, <2>3, <2>4 DEF WorkDone
<1> QED
  BY <1>2, <1>3, <1>4, <1>5, <1>6, <1>7, <1>8 DEF Works

-----------------------------------------------------------------------------
(* What a file holds, and the caches. *)

(* The commits.                                                            *)
Delivers(c, e) ==
  \/ Fin(c) /\ FinCommits(c) /\ e = cur[c]
  \/ DeleteSuper(c) /\ InTxn(c, e)

LEMMA DeleteIs ==
  ASSUME Inv, NEW c \in Conns, DeleteSuper(c), NEW e \in Files, InTxn(c, e)
  PROVE  /\ Live(c, e) /\ lock[c][e] = EXCLUSIVE /\ jw[c][e].off # 0
         /\ mine[c][e] \in Seq(Page) /\ cache[c][e] \in Seq(Page) /\ jnl[e] \in Seq(JournalCell)
         /\ db[e] = mine[c][e] /\ ddb[e] = db[e] /\ djnl[e] = jnl[e] /\ cache[c][e] = Store(e)
         /\ Counter(mine[c][e]) = Counter(cache[c][e]) + 1
         /\ SuperName(jnl[e]) = txn[c] /\ txn[c] # 0 /\ txn[c] \in supers
<1>1. /\ Control(c) /\ Stage(c) /\ TypeOK /\ pc[c] = "commit" /\ op[c] = "commit"
  BY DEF DeleteSuper, At, Inv, Base, Phases, Control
<1>2. Preparing(c) /\ ~Committed(c) /\ Live(c, e)
  BY <1>1 DEF Preparing, Committed, Live, Undone
<1>3. jw[c][e].done /\ lock[c][e] = EXCLUSIVE /\ jw[c][e].off # 0 /\ Several(c) /\ txn[c] \in supers
  BY <1>1, <1>2 DEF Stage
<1>4. /\ JournalKept(c, e) /\ DraftKept(c, e)
      /\ cache[c][e] \in Seq(Page) /\ jw[c][e] \in JournalWriter /\ db[e] \in Seq(Page)
      /\ cache[c][e] = Store(e) /\ jnl[e] \in Seq(JournalCell)
      /\ txn[c] # 0 /\ txn[c] \in Nat
  BY <1>2, <1>3, LiveIs
<1>5. Prepared(c, e)
  BY <1>1, <1>3 DEF Prepared
<1>6. /\ mine[c][e] # None /\ Draft(mine[c][e], jw[c][e], db[e]) /\ jw[c][e].dirty = {} /\ ddb[e] = db[e]
      /\ Counter(mine[c][e]) = Counter(cache[c][e]) + 1 /\ djnl[e] = jnl[e]
      /\ Len(jnl[e]) = jw[c][e].off /\ jnl[e][jw[c][e].off] = Super(txn[c])
  BY <1>1, <1>3, <1>4, <1>5 DEF DraftKept
<1>7. mine[c][e] \in Seq(Page)
  BY <1>1, <1>6, DataTypes
<1>8. db[e] = mine[c][e]
  BY <1>4, <1>6, <1>7, DraftDone
<1>9. SuperName(jnl[e]) = txn[c]
  <2>1. Super(txn[c]).k = "super" /\ Super(txn[c]).name = txn[c]
    BY <1>4, SuperIs
  <2>2. jnl[e] # None /\ jnl[e] # << >>
    BY <1>3, <1>4, <1>6, JournalAssumption DEF JournalKept
  <2> QED
    BY <1>6, <2>1, <2>2 DEF SuperName
<1> QED
  BY <1>2, <1>3, <1>4, <1>6, <1>7, <1>8, <1>9

LEMMA DeliversDoes ==
  ASSUME Inv, NEW c \in Conns, NEW e \in Files, Delivers(c, e)
  PROVE  /\ Live(c, e) /\ lock[c][e] = EXCLUSIVE /\ e \in reads[c]
         /\ mine[c][e] \in Seq(Page) /\ cache[c][e] \in Seq(Page)
         /\ db[e] = mine[c][e] /\ ddb[e] = db[e] /\ cache[c][e] = Store(e)
         /\ Counter(mine[c][e]) = Counter(cache[c][e]) + 1
         /\ cache'[c][e] = mine[c][e] /\ Store(e)' = mine[c][e] /\ mine'[c][e] = None
         /\ db' = db /\ ddb' = ddb /\ e \notin promised'
<1>1. /\ FileShapes /\ Shapes /\ TypeOK
  BY FileShapesOK, ShapesOK DEF Inv, Base
<1>2. CASE Fin(c) /\ FinCommits(c) /\ e = cur[c]
  <2>1. /\ Live(c, e) /\ lock[c][e] = EXCLUSIVE /\ e \in reads[c]
        /\ mine[c][e] \in Seq(Page) /\ cache[c][e] \in Seq(Page)
        /\ db[e] = mine[c][e] /\ ddb[e] = db[e] /\ cache[c][e] = Store(e)
        /\ Counter(mine[c][e]) = Counter(cache[c][e]) + 1
    BY <1>2, CommitsIs
  <2>2. /\ jnl'[e] \in Seq(JournalCell) \cup {None} /\ ~IsHdr(jnl'[e], 1)
        /\ db' = db /\ ddb' = ddb
        /\ cache' = [cache EXCEPT ![c][e] = mine[c][e]]
        /\ mine' = [mine EXCEPT ![c][e] = None] /\ promised' = promised \ {e}
    BY <1>2, FinDoes
  <2>3. cache'[c][e] = mine[c][e] /\ mine'[c][e] = None
    BY <1>1, <2>2 DEF Shapes, FileShapes
  <2>4. Restored(db'[e], jnl'[e], supers') = db'[e]
    BY <2>1, <2>2, RestoredType
  <2> QED
    BY <2>1, <2>2, <2>3, <2>4 DEF Store
<1>3. CASE DeleteSuper(c) /\ InTxn(c, e)
  <2>1. /\ Live(c, e) /\ lock[c][e] = EXCLUSIVE /\ e \in reads[c]
        /\ mine[c][e] \in Seq(Page) /\ cache[c][e] \in Seq(Page) /\ jnl[e] \in Seq(JournalCell)
        /\ db[e] = mine[c][e] /\ ddb[e] = db[e] /\ cache[c][e] = Store(e)
        /\ Counter(mine[c][e]) = Counter(cache[c][e]) + 1
        /\ SuperName(jnl[e]) = txn[c] /\ txn[c] # 0
    BY <1>3, DeleteIs DEF InTxn
  <2>2. e \in Reserved(c)
    BY <1>3 DEF InTxn, Reserved
  <2>3. /\ supers' = supers \ {txn[c]} /\ jnl' = jnl /\ db' = db /\ ddb' = ddb
        /\ cache' = [cache EXCEPT ![c] = [d \in Files |-> IF d \in Reserved(c) THEN mine[c][d] ELSE cache[c][d]]]
        /\ mine' = [mine EXCEPT ![c] = [d \in Files |-> None]] /\ promised' = promised \ Reserved(c)
    BY <1>3 DEF DeleteSuper
  <2>4. cache'[c][e] = mine[c][e] /\ mine'[c][e] = None
    BY <1>1, <2>2, <2>3 DEF Shapes
  <2>5. ~Counts(jnl'[e], supers')
    BY <2>1, <2>3 DEF Counts
  <2>6. Restored(db'[e], jnl'[e], supers') = db'[e]
    BY <2>1, <2>3, <2>5, RestoredType
  <2> QED
    BY <2>1, <2>2, <2>3, <2>4, <2>6 DEF Store
<1> QED
  BY <1>2, <1>3 DEF Delivers

LEMMA WorksStore ==
  ASSUME Inv, NEW c \in Conns, NEW e \in Files, Works(c, e)
  PROVE  Store(e)' = Store(e) /\ Counts(jnl'[e], supers')
<1>1. WorkDone(c, e)
  BY WorksDoes
<1>2. /\ cache[c][e] \in Seq(Page) /\ cache[c][e] = Store(e)
  BY <1>1, LiveIs DEF WorkDone
<1>3. /\ jnl'[e] \in Seq(JournalCell) /\ jw'[c][e] \in JournalWriter /\ db'[e] \in Seq(Page)
      /\ Journal(jnl'[e], jw'[c][e], cache[c][e], db'[e]) /\ Counts(jnl'[e], supers')
  BY <1>1 DEF WorkDone, JournalKept, Counts
<1>4. Restored(db'[e], jnl'[e], supers') = cache[c][e]
  BY <1>2, <1>3, JournalRestores
<1> QED
  BY <1>2, <1>3, <1>4 DEF Store

LEMMA StoreMoves ==
  ASSUME Inv, NEW c \in Conns, Acts(c), NEW e \in Files
  PROVE  Store(e)' = Store(e) \/ Delivers(c, e)
<1>1. TypeOK /\ FileShapes /\ db[e] \in Seq(Page) /\ jnl[e] \in Seq(JournalCell) \cup {None}
  BY FileShapesOK DEF Inv, Base, TypeOK
<1>2. CASE db'[e] = db[e] /\ jnl'[e] = jnl[e]
  <2>1. CASE DeleteSuper(c) /\ SuperName(jnl[e]) = txn[c]
    <3>1. txn[c] # 0 /\ InTxn(c, e)
      <4>1. Control(c) /\ pc[c] = "commit"
        BY <2>1 DEF DeleteSuper, At, Inv, Base
      <4>2. InTxn(c, cur[c]) /\ cur[c] \in Files
        BY <4>1, ControlTyped DEF Control, InTxn, Inv, ControlTypes
      <4>3. txn[c] # 0
        BY <4>2 DEF Inv, Base, TxnKept
      <4> QED
        BY <2>1, <4>3 DEF Inv, Supered, NamesOwned
    <3> QED
      BY <2>1, <3>1 DEF Delivers
  <2>2. CASE ~(DeleteSuper(c) /\ SuperName(jnl[e]) = txn[c])
    <3>1. Counts(jnl[e], supers') <=> Counts(jnl[e], supers)
      BY <2>2, SupersMove
    <3>2. Restored(db[e], jnl[e], supers') = Restored(db[e], jnl[e], supers)
      BY <3>1, RestoredCounts
    <3> QED
      BY <1>2, <3>2 DEF Store
  <2> QED
    BY <2>1, <2>2
<1>3. CASE Works(c, e)
  BY <1>3, WorksStore
<1>4. CASE HotEmpty(c) /\ e = cur[c]
  <2>1. pc[c] = "empty" /\ db' = db /\ supers' = supers /\ (jnl' = jnl \/ jnl' = [jnl EXCEPT ![e] = None])
    BY <1>4 DEF HotEmpty, At
  <2>2. CASE jnl' = jnl
    BY <2>1, <2>2 DEF Store
  <2>3. CASE jnl' = [jnl EXCEPT ![e] = None]
    <3>1. db[e] = << >>
      BY <1>4, <2>1 DEF Inv, Phases, Emptied
    <3>2. jnl'[e] = None
      BY <1>1, <2>3 DEF FileShapes
    <3>3. Store(e)' = db[e]
      <4>1. ~IsHdr(jnl'[e], 1)
        BY <3>2, NoCell
      <4>2. Restored(db[e], jnl'[e], supers') = db[e]
        BY <1>1, <3>2, <4>1, RestoredType
      <4> QED
        BY <2>1, <4>2 DEF Store
    <3>4. Store(e) = db[e]
      <4>1. CASE IsHdr(jnl[e], 1) /\ Counts(jnl[e], supers)
        <5>1. jnl[e] \in Seq(JournalCell)
          BY <1>1, <4>1, NoCell
        <5>2. jnl[e][1].orig <= Len(db[e])
          BY <4>1 DEF Inv, Stores, HotFits
        <5>3. /\ jnl[e][1].orig \in Nat
              /\ Store(e) \in Seq(Page) /\ Len(Store(e)) = jnl[e][1].orig
          BY <1>1, <4>1, <5>1, RestoredIs DEF Store
        <5>4. Len(db[e]) = 0
          BY <3>1
        <5> QED
          BY <3>1, <5>2, <5>3, <5>4
      <4>2. CASE ~(IsHdr(jnl[e], 1) /\ Counts(jnl[e], supers))
        BY <1>1, <4>2, RestoredType DEF Store
      <4> QED
        BY <4>1, <4>2
    <3> QED
      BY <3>3, <3>4
  <2> QED
    BY <2>1, <2>2, <2>3
<1>5. CASE Fin(c) /\ e = cur[c]
  <2>1. CASE FinCommits(c)
    BY <1>5, <2>1 DEF Delivers
  <2>2. CASE ~FinCommits(c)
    <3>1. /\ jnl'[e] \in Seq(JournalCell) \cup {None} /\ ~IsHdr(jnl'[e], 1) /\ db' = db /\ Store(e) = db[e]
      BY <1>5, <2>2, FinDoes
    <3>2. Restored(db[e], jnl'[e], supers') = db[e]
      BY <1>1, <3>1, RestoredType
    <3> QED
      BY <3>1, <3>2 DEF Store
  <2> QED
    BY <2>1, <2>2
<1>6. CASE e = cur[c] /\ op[c] = "hot" /\ (PlayTruncate(c) \/ PlayPage(c))
  <2>1. Restored(db'[e], jnl[e], supers) = Restored(db[e], jnl[e], supers)
    BY <1>6, HotPlayDoes
  <2>2. jnl' = jnl /\ supers' = supers
    BY <1>6 DEF PlayTruncate, PlayPage
  <2> QED
    BY <2>1, <2>2 DEF Store
<1> QED
  BY <1>2, <1>3, <1>4, <1>5, <1>6, KindsAre DEF Kinds

(* What a step does to the cache of its connection.                        *)
CacheMoves(c, e) ==
  \/ (e \in reads'[c] => e \in reads[c]) /\ cache'[c][e] = cache[c][e]
  \/ reads'[c] = {} /\ cache'[c][e] = None
  \/ Delivers(c, e) /\ reads' = reads
  \/ Check(c) /\ e = cur[c]

LEMMA CacheMovesIs ==
  ASSUME Inv, NEW c \in Conns, Acts(c), NEW e \in Files
  PROVE  CacheMoves(c, e)
<1>1. /\ FileShapes /\ ControlTypes(c) /\ Shapes /\ LocksHeld(c) /\ Control(c) /\ TypeOK
  BY ControlTyped, FileShapesOK DEF Inv, Base
<1>2. CASE HotExists(c)
  BY <1>2 DEF HotExists, CacheMoves, local
<1>3. CASE HotReserved(c)
  BY <1>3 DEF HotReserved, CacheMoves, local
<1>4. CASE HotEmpty(c)
  BY <1>4 DEF HotEmpty, CacheMoves, local
<1>5. CASE HotByte(c)
  BY <1>5 DEF HotByte, CacheMoves, local
<1>6. CASE HotLock(c)
  BY <1>6 DEF HotLock, CacheMoves, local
<1>7. CASE HotOpen(c)
  BY <1>7 DEF HotOpen, CacheMoves, local
<1>8. CASE PlayTruncate(c)
  BY <1>8 DEF PlayTruncate, CacheMoves, local
<1>9. CASE PlayPage(c)
  BY <1>9 DEF PlayPage, CacheMoves, local
<1>10. CASE PlaySync(c)
  BY <1>10 DEF PlaySync, CacheMoves, local
<1>11. CASE Fin(c)
  <2>1. PICK d : d = cur[c]
    OBVIOUS
  <2>2. /\ d \in Files /\ reads' = reads
        /\ FinCommits(c) => cache' = [cache EXCEPT ![c][d] = mine[c][d]]
        /\ ~FinCommits(c) => cache' = cache
    BY <2>1, <1>11, FinDoes DEF Fin
  <2>3. CASE FinCommits(c) /\ e = d
    BY <2>1, <2>2, <2>3, <1>11 DEF CacheMoves, Delivers
  <2>4. CASE FinCommits(c) /\ e # d
    BY <1>1, <2>2, <2>4 DEF CacheMoves, Shapes, FileShapes
  <2>5. CASE ~FinCommits(c)
    BY <2>2, <2>5 DEF CacheMoves
  <2> QED
    BY <2>3, <2>4, <2>5
<1>12. CASE FinSync(c)
  BY <1>12 DEF FinSync, CacheMoves, local
<1>13. CASE Unlock(c)
  BY <1>13 DEF Unlock, CacheMoves, local
<1>14. CASE DelSuper(c)
  BY <1>14 DEF DelSuper, CacheMoves, local
<1>15. CASE NextFile(c)
  BY <1>15 DEF NextFile, CacheMoves, local
<1>16. CASE Check(c)
  <2>1. CASE e = cur[c]
    BY <2>1, <1>16 DEF CacheMoves
  <2>2. CASE e # cur[c]
    BY <1>1, <2>2, <1>16 DEF Check, CacheMoves, Shapes, FileShapes
  <2> QED
    BY <2>1, <2>2
<1>17. CASE CommitLock(c)
  BY <1>17 DEF CommitLock, CacheMoves, local
<1>18. CASE WriteSuper(c)
  BY <1>18 DEF WriteSuper, CacheMoves, local
<1>19. CASE Prepare(c)
  BY <1>19 DEF Prepare, CacheMoves, local
<1>20. CASE SyncRecords(c)
  BY <1>20 DEF SyncRecords, CacheMoves, local
<1>21. CASE Count(c)
  BY <1>21 DEF Count, CacheMoves, local
<1>22. CASE SyncCount(c)
  BY <1>22 DEF SyncCount, CacheMoves, local
<1>23. CASE WritePage(c)
  BY <1>23 DEF WritePage, CacheMoves, local
<1>24. CASE SyncDb(c)
  BY <1>24 DEF SyncDb, CacheMoves, local
<1>25. CASE DeleteSuper(c)
  <2>1. /\ pc[c] = "commit" /\ reads' = reads
        /\ cache' = [cache EXCEPT ![c] = [d \in Files |-> IF d \in Reserved(c) THEN mine[c][d] ELSE cache[c][d]]]
    BY <1>25 DEF DeleteSuper, At
  <2>2. CASE InTxn(c, e)
    BY <2>1, <2>2, <1>25 DEF CacheMoves, Delivers
  <2>3. CASE ~InTxn(c, e)
    <3>1. ~(lock[c][e] >= RESERVED)
      BY <2>1, <2>3, ReservedInTxn, ControlTyped DEF Inv, Recovering, Control
    <3>2. e \notin Reserved(c)
      BY <3>1 DEF Reserved
    <3>3. cache'[c][e] = cache[c][e]
      BY <1>1, <2>1, <3>2 DEF Shapes
    <3> QED
      BY <2>1, <3>3 DEF CacheMoves
  <2> QED
    BY <2>2, <2>3
<1>26. CASE End(c)
  BY <1>1, <1>26 DEF End, CacheMoves, Shapes
<1>27. CASE Commit(c)
  BY <1>27 DEF Commit, CacheMoves, local
<1>28. CASE Rollback(c)
  BY <1>28 DEF Rollback, CacheMoves, local
<1>29. CASE Crash(c)
  BY <1>1, <1>29 DEF Crash, Gone, CacheMoves
<1>30. ASSUME NEW d \in Files, Open(c, d) PROVE CacheMoves(c, e)
  BY <1>30 DEF Open, CacheMoves, local
<1>31. ASSUME NEW d \in Files, Reserve(c, d) PROVE CacheMoves(c, e)
  BY <1>31 DEF Reserve, CacheMoves, local
<1>32. ASSUME NEW d \in Files, NEW p \in Pages, Write(c, d, p) PROVE CacheMoves(c, e)
  BY <1>32 DEF Write, CacheMoves, local
<1>33. ASSUME NEW d \in Files, NEW p \in Pages, Spill(c, d, p) PROVE CacheMoves(c, e)
  BY <1>33 DEF Spill, CacheMoves, local
<1> QED
  BY <1>2, <1>3, <1>4, <1>5, <1>6, <1>7, <1>8, <1>9, <1>10, <1>11, <1>12, <1>13, <1>14, <1>15,
     <1>16, <1>17, <1>18, <1>19, <1>20, <1>21, <1>22, <1>23, <1>24, <1>25, <1>26, <1>27, <1>28,
     <1>29, <1>30, <1>31, <1>32, <1>33 DEF Acts, Step

(* A file that is checked.                                                 *)
LEMMA CheckIs ==
  ASSUME Inv, NEW c \in Conns, Check(c), NEW e, e = cur[c]
  PROVE  /\ e \in Files /\ db[e] \in Seq(Page) /\ Store(e) = db[e] /\ ~IsHdr(jnl[e], 1)
         /\ Store(e)' = Store(e) /\ cache'[c][e] = db[e]
         /\ (cache'[c][e] = cache[c][e] \/ cache'[c][e] = db[e])
<1> USE DEF At, NONE, SHARED, RESERVED, PENDING, EXCLUSIVE
<1>1. /\ FileShapes /\ ControlTypes(c) /\ Shapes /\ LocksHeld(c) /\ Control(c) /\ TypeOK
  BY ControlTyped, FileShapesOK DEF Inv, Base
<1>2. pc[c] = "check" /\ e \in Files /\ e \notin reads[c] /\ op[c] \in {"read", "hot"}
  BY <1>1 DEF Check, Control, LocksHeld, Recovering, ControlTypes
<1>3. db[e] \in Seq(Page)
  BY <1>1, <1>2, DataTypes
<1>4. ~IsHdr(jnl[e], 1)
  BY <1>2 DEF Inv, Stores, Quiet, Passed, Live, InTxn
<1>5. Store(e) = db[e]
  BY <1>1, <1>2, <1>4, Storeless
<1>6. Store(e)' = Store(e)
  BY DEF Check, disk, Store
<1>7. cache' = IF Stale(c, e) THEN [cache EXCEPT ![c][e] = db[e]] ELSE cache
  BY DEF Check
<1>8. cache'[c][e] = db[e]
  <2>1. CASE Stale(c, e)
    BY <1>1, <1>2, <1>7, <2>1 DEF Shapes, FileShapes
  <2>2. CASE ~Stale(c, e)
    <3>1. cache[c][e] # None /\ Version(cache[c][e]) = Version(db[e])
      BY <2>2 DEF Stale
    <3>2. cache[c][e] \in Seq(Page)
      BY <1>1, <1>2, <3>1, DataTypes
    <3>3. Counter(cache[c][e]) = Counter(db[e]) /\ Counter(db[e]) \in Nat
      BY <1>3, <3>1, <3>2, VersionCounts, PageOneIs
    <3>4. Fits(cache[c][e], db[e])
      BY <1>2, <1>5, <3>1 DEF Inv, Stores, CachesFit
    <3>5. cache[c][e] = db[e]
      BY <3>3, <3>4 DEF Fits
    <3> QED
      BY <1>7, <2>2, <3>5
  <2> QED
    BY <2>1, <2>2
<1> QED
  BY <1>2, <1>3, <1>4, <1>5, <1>6, <1>8

(* Nobody else uses a file that a commit delivers.                         *)
LEMMA DeliversAlone ==
  ASSUME Inv, NEW c \in Conns, NEW e \in Files, Delivers(c, e), NEW o \in Conns, o # c
  PROVE  lock[o][e] = NONE /\ e \notin reads[o]
<1> USE DEF NONE, SHARED, RESERVED, PENDING, EXCLUSIVE
<1>1. lock[c][e] = EXCLUSIVE
  BY DeliversDoes
<1>2. lock[o][e] = NONE
  BY <1>1 DEF Inv, Base, Excluded
<1>3. e \notin reads[o]
  BY <1>2 DEF Inv, Base, LocksHeld
<1> QED
  BY <1>2, <1>3

LEMMA SeenKept ==
  ASSUME Inv, NEW c \in Conns, Acts(c)
  PROVE  SeenIsStore' /\ CachesFit'
<1>1. ASSUME NEW o \in Conns, o # c, NEW e \in Files
      PROVE  /\ e \in reads'[o] => cache'[o][e] = Store(e)'
             /\ cache'[o][e] # None => Fits(cache'[o][e], Store(e)')
  <2>1. Alike(o) /\ TypeOK
    BY <1>1, Others DEF Inv, Base
  <2>2. /\ e \in reads[o] => cache[o][e] = Store(e)
        /\ cache[o][e] # None => Fits(cache[o][e], Store(e))
    BY DEF Inv, Stores, SeenIsStore, CachesFit
  <2>3. CASE Store(e)' = Store(e)
    BY <2>1, <2>2, <2>3 DEF Alike
  <2>4. CASE Delivers(c, e)
    <3>1. e \notin reads[o]
      BY <1>1, <2>4, DeliversAlone
    <3>2. /\ Store(e)' = mine[c][e] /\ mine[c][e] \in Seq(Page)
          /\ cache[c][e] = Store(e) /\ cache[c][e] \in Seq(Page)
          /\ Counter(mine[c][e]) = Counter(Store(e)) + 1
      BY <2>4, DeliversDoes
    <3>3. ASSUME cache[o][e] # None PROVE Fits(cache[o][e], mine[c][e])
      <4>1. cache[o][e] \in Seq(Page)
        BY <2>1, <3>3, DataTypes
      <4>2. PICK k, n \in Nat : k = Counter(cache[o][e]) /\ n = Counter(Store(e))
        BY <3>2, <4>1, PageOneIs
      <4>3. k <= n
        BY <2>2, <3>3, <4>2 DEF Fits
      <4> QED
        BY <3>2, <4>2, <4>3 DEF Fits
    <3> QED
      BY <2>1, <3>1, <3>2, <3>3 DEF Alike
  <2> QED
    BY <2>3, <2>4, StoreMoves
<1>2. ASSUME NEW e \in Files
      PROVE  /\ e \in reads'[c] => cache'[c][e] = Store(e)'
             /\ cache'[c][e] # None => Fits(cache'[c][e], Store(e)')
  <2>1. /\ e \in reads[c] => cache[c][e] = Store(e)
        /\ cache[c][e] # None => Fits(cache[c][e], Store(e))
    BY DEF Inv, Stores, SeenIsStore, CachesFit
  <2>2. CASE Delivers(c, e)
    BY <2>2, DeliversDoes DEF Fits
  <2>3. CASE Store(e)' = Store(e) /\ (e \in reads'[c] => e \in reads[c]) /\ cache'[c][e] = cache[c][e]
    BY <2>1, <2>3
  <2>4. CASE reads'[c] = {} /\ cache'[c][e] = None
    BY <2>4
  <2>5. CASE Check(c) /\ e = cur[c]
    BY <2>5, CheckIs DEF Fits
  <2> QED
    BY <2>2, <2>3, <2>4, <2>5, CacheMovesIs, StoreMoves DEF CacheMoves
<1>3. reads' \in [Conns -> SUBSET Files]
  BY PlacesTyped DEF Inv, Base, PlaceTypes
<1>4. SeenIsStore'
  BY <1>1, <1>2, <1>3 DEF SeenIsStore
<1>5. CachesFit'
  BY <1>1, <1>2 DEF CachesFit
<1> QED
  BY <1>4, <1>5

-----------------------------------------------------------------------------
(* The lengths of files, before and in their journals. *)

(* A file in a transaction, before and after a step.                       *)
TxnFile(c, e) ==
  \/ Reserve(c, e)
  \/ /\ InTxn(c, e) /\ (lock[c][e] = EXCLUSIVE => lock'[c][e] = EXCLUSIVE)
     /\ jw'[c][e] = jw[c][e] \/ Works(c, e) \/ (SyncDb(c) /\ e = cur[c])

LEMMA TxnFileIs ==
  ASSUME Inv, NEW c \in Conns, Acts(c), NEW e \in Files, InTxn(c, e)'
  PROVE  TxnFile(c, e)
<1> USE DEF At, Go, Locked, disk, local, ghosts, bounds, NONE, SHARED, RESERVED, PENDING, EXCLUSIVE,
            InTxn, TxnFile
<1>1. /\ ControlTypes(c) /\ LocksHeld(c) /\ Control(c) /\ Shapes /\ FileShapes /\ InTxn(c, e)'
  BY ControlTyped, FileShapesOK DEF Inv, Base
<1>2. CASE HotExists(c)
  BY <1>1, <1>2 DEF HotExists, ControlTypes, Shapes, FileShapes, LocksHeld, Control, Recovering, Alone
<1>3. CASE HotReserved(c)
  BY <1>1, <1>3 DEF HotReserved, ControlTypes, Shapes, FileShapes, LocksHeld, Control, Recovering, Alone
<1>4. CASE HotEmpty(c)
  BY <1>1, <1>4 DEF HotEmpty, ControlTypes, Shapes, FileShapes, LocksHeld, Control, Recovering, Alone
<1>5. CASE HotByte(c)
  BY <1>1, <1>5 DEF HotByte, ControlTypes, Shapes, FileShapes, LocksHeld, Control, Recovering, Alone
<1>6. CASE HotLock(c)
  BY <1>1, <1>6 DEF HotLock, ControlTypes, Shapes, FileShapes, LocksHeld, Control, Recovering, Alone
<1>7. CASE HotOpen(c)
  BY <1>1, <1>7 DEF HotOpen, ControlTypes, Shapes, FileShapes, LocksHeld, Control, Recovering, Alone
<1>8. CASE PlayTruncate(c)
  BY <1>1, <1>8 DEF PlayTruncate, ControlTypes, Shapes, FileShapes, LocksHeld, Control, Recovering, Alone
<1>9. CASE PlayPage(c)
  BY <1>1, <1>9 DEF PlayPage, ControlTypes, Shapes, FileShapes, LocksHeld, Control, Recovering, Alone
<1>10. CASE PlaySync(c)
  BY <1>1, <1>10 DEF PlaySync, ControlTypes, Shapes, FileShapes, LocksHeld, Control, Recovering, Alone
<1>11. CASE Fin(c)
  BY <1>1, <1>11 DEF Fin, ControlTypes, Shapes, FileShapes, LocksHeld, Control, Recovering, Alone
<1>12. CASE FinSync(c)
  BY <1>1, <1>12 DEF FinSync, ControlTypes, Shapes, FileShapes, LocksHeld, Control, Recovering, Alone
<1>13. CASE Unlock(c)
  BY <1>1, <1>13 DEF Unlock, ControlTypes, Shapes, FileShapes, LocksHeld, Control, Recovering, Alone
<1>14. CASE DelSuper(c)
  BY <1>1, <1>14 DEF DelSuper, ControlTypes, Shapes, FileShapes, LocksHeld, Control, Recovering, Alone
<1>15. CASE NextFile(c)
  BY <1>1, <1>15 DEF NextFile, ControlTypes, Shapes, FileShapes, LocksHeld, Control, Recovering, Alone
<1>16. CASE Check(c)
  BY <1>1, <1>16 DEF Check, ControlTypes, Shapes, FileShapes, LocksHeld, Control, Recovering, Alone
<1>17. CASE CommitLock(c)
  <2>1. /\ reads' = reads /\ jw' = jw
        /\ \/ lock' = lock
           \/ LET d == Min({x \in Reserved(c) : lock[c][x] < EXCLUSIVE}) IN
              /\ {x \in Reserved(c) : lock[c][x] < EXCLUSIVE} # {}
              /\ lock' = [lock EXCEPT ![c][d] = EXCLUSIVE] \/ lock' = [lock EXCEPT ![c][d] = PENDING]
    BY <1>17 DEF CommitLock
  <2>2. CASE lock' = lock
    BY <1>1, <2>1, <2>2
  <2>3. ASSUME NEW d \in Files, lock[c][d] >= RESERVED, lock[c][d] < EXCLUSIVE,
               lock' = [lock EXCEPT ![c][d] = EXCLUSIVE] \/ lock' = [lock EXCEPT ![c][d] = PENDING]
        PROVE  TxnFile(c, e)
    BY <1>1, <2>1, <2>3 DEF ControlTypes, Shapes
  <2>4. {x \in Reserved(c) : lock[c][x] < EXCLUSIVE} \in SUBSET Files
    BY DEF Reserved
  <2> QED
    BY <2>1, <2>2, <2>3, <2>4, TodoIs DEF Reserved
<1>18. CASE WriteSuper(c)
  BY <1>1, <1>18 DEF WriteSuper, ControlTypes, Shapes, FileShapes, LocksHeld, Control, Recovering, Alone
<1>19. CASE Prepare(c)
  <2>1. CASE e = cur[c]
    BY <1>1, <1>19, <2>1 DEF Prepare, Works
  <2>2. CASE e # cur[c]
    BY <1>1, <1>19, <2>2 DEF Prepare, Shapes, FileShapes
  <2> QED
    BY <2>1, <2>2
<1>20. CASE SyncRecords(c)
  <2>1. /\ reads' = reads /\ jw' = jw /\ cur[c] \in Files /\ InTxn(c, cur[c])
        /\ lock' = [lock EXCEPT ![c][cur[c]] = IF Exclusive(c, cur[c]) THEN EXCLUSIVE ELSE PENDING]
    BY <1>1, <1>20 DEF SyncRecords, Control, ControlTypes
  <2>2. lock[c][cur[c]] = EXCLUSIVE => Exclusive(c, cur[c])
    BY <2>1, ExclusiveIs
  <2> QED
    BY <1>1, <2>1, <2>2 DEF ControlTypes, Shapes
<1>21. CASE Count(c)
  BY <1>1, <1>21 DEF Count, ControlTypes, Shapes, FileShapes, LocksHeld, Control, Recovering, Alone
<1>22. CASE SyncCount(c)
  <2>1. CASE e = cur[c]
    BY <1>1, <1>22, <2>1 DEF SyncCount, Works
  <2>2. CASE e # cur[c]
    BY <1>1, <1>22, <2>2 DEF SyncCount, Shapes, FileShapes
  <2> QED
    BY <2>1, <2>2
<1>23. CASE WritePage(c)
  <2>1. CASE e = cur[c]
    BY <1>1, <1>23, <2>1 DEF WritePage, Works
  <2>2. CASE e # cur[c]
    BY <1>1, <1>23, <2>2 DEF WritePage, Shapes, FileShapes
  <2> QED
    BY <2>1, <2>2
<1>24. CASE SyncDb(c)
  <2>1. CASE e = cur[c]
    BY <1>1, <1>24, <2>1 DEF SyncDb
  <2>2. CASE e # cur[c]
    BY <1>1, <1>24, <2>2 DEF SyncDb, Shapes, FileShapes
  <2> QED
    BY <2>1, <2>2
<1>25. CASE DeleteSuper(c)
  BY <1>1, <1>25 DEF DeleteSuper, ControlTypes, Shapes, FileShapes, LocksHeld, Control, Recovering, Alone
<1>26. CASE End(c)
  BY <1>1, <1>26 DEF End, ControlTypes, Shapes, FileShapes, LocksHeld, Control, Recovering, Alone
<1>27. CASE Commit(c)
  BY <1>1, <1>27 DEF Commit, ControlTypes, Shapes, FileShapes, LocksHeld, Control, Recovering, Alone
<1>28. CASE Rollback(c)
  BY <1>1, <1>28 DEF Rollback, ControlTypes, Shapes, FileShapes, LocksHeld, Control, Recovering, Alone
<1>29. CASE Crash(c)
  BY <1>1, <1>29 DEF Crash, Gone
<1>30. ASSUME NEW d \in Files, Open(c, d) PROVE TxnFile(c, e)
  BY <1>1, <1>30 DEF Open, ControlTypes, Shapes, FileShapes, LocksHeld, Control, Recovering, Alone
<1>31. ASSUME NEW d \in Files, Reserve(c, d) PROVE TxnFile(c, e)
  <2>1. CASE e = d
    BY <1>31, <2>1
  <2>2. CASE e # d
    BY <1>1, <1>31, <2>2 DEF Reserve, Shapes, FileShapes
  <2> QED
    BY <2>1, <2>2
<1>32. ASSUME NEW d \in Files, NEW p \in Pages, Write(c, d, p) PROVE TxnFile(c, e)
  <2>1. CASE e = d
    BY <1>1, <1>32, <2>1 DEF Write, Works
  <2>2. CASE e # d
    BY <1>1, <1>32, <2>2 DEF Write, Shapes, FileShapes
  <2> QED
    BY <2>1, <2>2
<1>33. ASSUME NEW d \in Files, NEW p \in Pages, Spill(c, d, p) PROVE TxnFile(c, e)
  BY <1>1, <1>33 DEF Spill, ControlTypes, Shapes, FileShapes, LocksHeld, Control, Recovering, Alone
<1> QED
  BY <1>2, <1>3, <1>4, <1>5, <1>6, <1>7, <1>8, <1>9, <1>10, <1>11, <1>12, <1>13, <1>14, <1>15,
     <1>16, <1>17, <1>18, <1>19, <1>20, <1>21, <1>22, <1>23, <1>24, <1>25, <1>26, <1>27, <1>28,
     <1>29, <1>30, <1>31, <1>32, <1>33 DEF Acts, Step

(* The header of a journal: it was there, or it is that of its writer.     *)
LEMMA HeaderFrom ==
  ASSUME Inv, NEW c \in Conns, Acts(c), NEW e \in Files, IsHdr(jnl'[e], 1)
  PROVE  \/ IsHdr(jnl[e], 1) /\ jnl'[e][1].orig = jnl[e][1].orig
         \/ Works(c, e) /\ jnl'[e][1].orig = jw[c][e].orig
<1>1. FileShapes
  BY FileShapesOK DEF Inv, Base
<1>2. CASE db'[e] = db[e] /\ jnl'[e] = jnl[e]
  BY <1>2
<1>3. CASE Works(c, e)
  <2>1. WorkDone(c, e)
    BY <1>3, WorksDoes
  <2>2. cache[c][e] \in Seq(Page)
    BY <2>1, LiveIs DEF WorkDone
  <2>3. /\ jnl'[e] \in Seq(JournalCell) /\ jw'[c][e] \in JournalWriter /\ db'[e] \in Seq(Page)
        /\ Journal(jnl'[e], jw'[c][e], cache[c][e], db'[e]) /\ jw'[c][e].orig = jw[c][e].orig
    BY <2>1 DEF WorkDone, JournalKept
  <2>4. jnl'[e][1].orig = jw'[c][e].orig
    BY <2>2, <2>3, JournalHot
  <2> QED
    BY <1>3, <2>3, <2>4
<1>4. CASE HotEmpty(c) /\ e = cur[c]
  <2>1. jnl' = jnl \/ jnl' = [jnl EXCEPT ![e] = None]
    BY <1>4 DEF HotEmpty
  <2> QED
    BY <1>1, <2>1, NoCell DEF FileShapes
<1>5. CASE Fin(c) /\ e = cur[c]
  BY <1>5, FinDoes
<1>6. CASE e = cur[c] /\ op[c] = "hot" /\ (PlayTruncate(c) \/ PlayPage(c))
  BY <1>6 DEF PlayTruncate, PlayPage
<1> QED
  BY <1>2, <1>3, <1>4, <1>5, <1>6, KindsAre DEF Kinds

(* What reaches the disk.                                                  *)
DiskMoves(c, e) ==
  /\ djnl'[e] \in {djnl[e], jnl[e], jnl'[e], None}
  /\ ddb'[e] = ddb[e] \/ (ddb'[e] = db[e] /\ db' = db)

LEMMA DiskMovesIs ==
  ASSUME Inv, NEW c \in Conns, Acts(c), NEW e \in Files
  PROVE  DiskMoves(c, e)
<1> USE DEF disk
<1>1. FileShapes
  BY FileShapesOK DEF Inv, Base
<1>2. CASE HotExists(c)
  BY <1>1, <1>2 DEF HotExists, DiskMoves, FileShapes
<1>3. CASE HotReserved(c)
  BY <1>1, <1>3 DEF HotReserved, DiskMoves, FileShapes
<1>4. CASE HotEmpty(c)
  BY <1>1, <1>4 DEF HotEmpty, DiskMoves, FileShapes
<1>5. CASE HotByte(c)
  BY <1>1, <1>5 DEF HotByte, DiskMoves, FileShapes
<1>6. CASE HotLock(c)
  BY <1>1, <1>6 DEF HotLock, DiskMoves, FileShapes
<1>7. CASE HotOpen(c)
  BY <1>1, <1>7 DEF HotOpen, DiskMoves, FileShapes
<1>8. CASE PlayTruncate(c)
  BY <1>1, <1>8 DEF PlayTruncate, DiskMoves, FileShapes
<1>9. CASE PlayPage(c)
  BY <1>1, <1>9 DEF PlayPage, DiskMoves, FileShapes
<1>10. CASE PlaySync(c)
  BY <1>1, <1>10 DEF PlaySync, DiskMoves, FileShapes
<1>11. CASE Fin(c)
  BY <1>1, <1>11, FinDoes DEF DiskMoves, FileShapes
<1>12. CASE FinSync(c)
  BY <1>1, <1>12 DEF FinSync, DiskMoves, FileShapes
<1>13. CASE Unlock(c)
  BY <1>1, <1>13 DEF Unlock, DiskMoves, FileShapes
<1>14. CASE DelSuper(c)
  BY <1>1, <1>14 DEF DelSuper, DiskMoves, FileShapes
<1>15. CASE NextFile(c)
  BY <1>1, <1>15 DEF NextFile, DiskMoves, FileShapes
<1>16. CASE Check(c)
  BY <1>1, <1>16 DEF Check, DiskMoves, FileShapes
<1>17. CASE CommitLock(c)
  BY <1>1, <1>17 DEF CommitLock, DiskMoves, FileShapes
<1>18. CASE WriteSuper(c)
  BY <1>1, <1>18 DEF WriteSuper, DiskMoves, FileShapes
<1>19. CASE Prepare(c)
  BY <1>1, <1>19 DEF Prepare, DiskMoves, FileShapes
<1>20. CASE SyncRecords(c)
  <2>1. PICK d : d = cur[c]
    OBVIOUS
  <2>2. CASE e # d
    BY <1>1, <2>1, <2>2, <1>20 DEF SyncRecords, DiskMoves, FileShapes
  <2>3. CASE e = d
    BY <1>1, <2>1, <2>3, <1>20 DEF SyncRecords, DiskMoves, FileShapes
  <2> QED
    BY <2>2, <2>3
<1>21. CASE Count(c)
  BY <1>1, <1>21 DEF Count, DiskMoves, FileShapes
<1>22. CASE SyncCount(c)
  <2>1. PICK d : d = cur[c]
    OBVIOUS
  <2>2. CASE e # d
    BY <1>1, <2>1, <2>2, <1>22 DEF SyncCount, DiskMoves, FileShapes
  <2>3. CASE e = d
    BY <1>1, <2>1, <2>3, <1>22 DEF SyncCount, DiskMoves, FileShapes
  <2> QED
    BY <2>2, <2>3
<1>23. CASE WritePage(c)
  BY <1>1, <1>23 DEF WritePage, DiskMoves, FileShapes
<1>24. CASE SyncDb(c)
  <2>1. PICK d : d = cur[c]
    OBVIOUS
  <2>2. CASE e # d
    BY <1>1, <2>1, <2>2, <1>24 DEF SyncDb, DiskMoves, FileShapes
  <2>3. CASE e = d
    BY <1>1, <2>1, <2>3, <1>24 DEF SyncDb, DiskMoves, FileShapes
  <2> QED
    BY <2>2, <2>3
<1>25. CASE DeleteSuper(c)
  BY <1>1, <1>25 DEF DeleteSuper, DiskMoves, FileShapes
<1>26. CASE End(c)
  BY <1>1, <1>26 DEF End, DiskMoves, FileShapes
<1>27. CASE Commit(c)
  BY <1>1, <1>27 DEF Commit, DiskMoves, FileShapes
<1>28. CASE Rollback(c)
  BY <1>1, <1>28 DEF Rollback, DiskMoves, FileShapes
<1>29. CASE Crash(c)
  BY <1>1, <1>29 DEF Crash, DiskMoves, FileShapes
<1>30. ASSUME NEW d \in Files, Open(c, d) PROVE DiskMoves(c, e)
  BY <1>1, <1>30 DEF Open, DiskMoves, FileShapes
<1>31. ASSUME NEW d \in Files, Reserve(c, d) PROVE DiskMoves(c, e)
  BY <1>1, <1>31 DEF Reserve, DiskMoves, FileShapes
<1>32. ASSUME NEW d \in Files, NEW p \in Pages, Write(c, d, p) PROVE DiskMoves(c, e)
  BY <1>1, <1>32 DEF Write, DiskMoves, FileShapes
<1>33. ASSUME NEW d \in Files, NEW p \in Pages, Spill(c, d, p) PROVE DiskMoves(c, e)
  BY <1>1, <1>33 DEF Spill, DiskMoves, FileShapes
<1> QED
  BY <1>2, <1>3, <1>4, <1>5, <1>6, <1>7, <1>8, <1>9, <1>10, <1>11, <1>12, <1>13, <1>14, <1>15,
     <1>16, <1>17, <1>18, <1>19, <1>20, <1>21, <1>22, <1>23, <1>24, <1>25, <1>26, <1>27, <1>28,
     <1>29, <1>30, <1>31, <1>32, <1>33 DEF Acts, Step

(* A length that a file never falls below.                                 *)
LEMMA LengthKept ==
  ASSUME Inv, NEW c \in Conns, Acts(c), NEW e \in Files, NEW n \in Nat,
         n <= Len(db[e]), n <= Len(ddb[e]),
         InTxn(c, e) => n <= jw[c][e].orig,
         IsHdr(jnl[e], 1) /\ op[c] = "hot" /\ cur[c] = e /\ pc[c] = "play" => n <= jnl[e][1].orig
  PROVE  n <= Len(db'[e]) /\ n <= Len(ddb'[e])
<1>1. TypeOK /\ db[e] \in Seq(Page)
  BY DEF Inv, Base, TypeOK
<1>2. n <= Len(db'[e])
  <2>1. CASE db'[e] = db[e]
    BY <2>1
  <2>2. CASE Works(c, e)
    <3>1. WorkDone(c, e)
      BY <2>2, WorksDoes
    <3>2. cache[c][e] \in Seq(Page)
      BY <3>1, LiveIs DEF WorkDone
    <3>3. /\ jnl'[e] \in Seq(JournalCell) /\ jw'[c][e] \in JournalWriter /\ db'[e] \in Seq(Page)
          /\ Journal(jnl'[e], jw'[c][e], cache[c][e], db'[e]) /\ jw'[c][e].orig = jw[c][e].orig
      BY <3>1 DEF WorkDone, JournalKept
    <3>4. jw'[c][e].orig <= Len(db'[e])
      BY <3>2, <3>3, JournalHot
    <3>5. jw'[c][e].orig \in Nat /\ n <= jw'[c][e].orig
      BY <3>1, <3>3 DEF WorkDone, Live, JournalWriter
    <3>6. Len(db'[e]) \in Nat
      BY <3>3
    <3> QED
      BY <3>4, <3>5, <3>6
  <2>3. CASE HotEmpty(c)
    BY <2>3 DEF HotEmpty
  <2>4. CASE Fin(c)
    BY <2>4 DEF Fin
  <2>5. CASE e = cur[c] /\ op[c] = "hot" /\ (PlayTruncate(c) \/ PlayPage(c))
    <3>1. IsHdr(jnl[e], 1) /\ jnl[e][1].orig <= Len(db'[e]) /\ db'[e] \in Seq(Page)
      BY <2>5, HotPlayDoes
    <3>2. pc[c] = "play"
      BY <2>5 DEF PlayTruncate, PlayPage, At
    <3>3. jnl[e][1].orig \in Nat
      BY <2>5, <3>1, <3>2, HotIs
    <3>4. Len(db'[e]) \in Nat
      BY <3>1
    <3> QED
      BY <2>5, <3>1, <3>2, <3>3, <3>4
  <2> QED
    BY <2>1, <2>2, <2>3, <2>4, <2>5, KindsAre DEF Kinds
<1>3. n <= Len(ddb'[e])
  BY DiskMovesIs DEF DiskMoves
<1> QED
  BY <1>2, <1>3

(* A transaction that goes on, or has just begun.                          *)
LEMMA OrigFrom ==
  ASSUME Inv, NEW c \in Conns, Acts(c), NEW o \in Conns, NEW e \in Files, InTxn(o, e)'
  PROVE  \/ InTxn(o, e) /\ jw'[o][e].orig = jw[o][e].orig
         \/ o = c /\ Reserve(c, e) /\ jw'[o][e].orig = Len(db[e])
<1>1. CASE o # c
  <2>1. Alike(o)
    BY <1>1, Others DEF Inv, Base
  <2> QED
    BY <2>1 DEF Alike, InTxn
<1>2. CASE o = c
  <2>1. CASE Reserve(c, e)
    <3>1. jw'[c][e] = [NoJw EXCEPT !.orig = Len(db[e])]
      BY <2>1, ReserveDoes
    <3> QED
      BY <1>2, <2>1, <3>1 DEF NoJw
  <2>2. CASE Works(c, e)
    <3>1. jw'[c][e].orig = jw[c][e].orig /\ InTxn(c, e)
      BY <2>2, WorksDoes DEF WorkDone, Live
    <3> QED
      BY <1>2, <3>1
  <2>3. CASE SyncDb(c) /\ e = cur[c]
    <3>1. jw'[c][e].orig = jw[c][e].orig /\ InTxn(c, e)
      BY <2>3, SyncDbDoes DEF Live
    <3> QED
      BY <1>2, <3>1
  <2> QED
    BY <1>2, <2>1, <2>2, <2>3, TxnFileIs DEF TxnFile
<1> QED
  BY <1>1, <1>2

LEMMA OrigIs ==
  ASSUME Inv, NEW c \in Conns, NEW e \in Files, InTxn(c, e)
  PROVE  /\ jw[c][e].orig \in Nat
         /\ jw[c][e].orig <= Len(db[e]) /\ jw[c][e].orig <= Len(ddb[e])
BY DataTypes DEF Inv, Base, Stores, OrigKept, JournalWriter

LEMMA HeaderIs ==
  ASSUME TypeOK, NEW e \in Files, NEW j \in {jnl[e], djnl[e]}, IsHdr(j, 1)
  PROVE  j \in Seq(JournalCell) /\ j[1].orig \in Nat
<1>1. j \in Seq(JournalCell)
  BY NoCell DEF TypeOK
<1>2. 1 \in 1 .. Len(j) /\ j[1].k = "hdr"
  BY <1>1, CellIs
<1> QED
  BY <1>1, <1>2, CellTypes

(* A header fits the file it stands for.                                   *)
LEMMA HotFitsIs ==
  ASSUME Inv, NEW e \in Files, NEW j \in {jnl[e], djnl[e]}, IsHdr(j, 1)
  PROVE  /\ j[1].orig \in Nat /\ j[1].orig <= Len(db[e]) /\ j[1].orig <= Len(ddb[e])
         /\ \A o \in Conns : InTxn(o, e) => j[1].orig <= jw[o][e].orig
BY HeaderIs DEF Inv, Base, Stores, HotFits

LEMMA HotFitsKept ==
  ASSUME Inv, NEW c \in Conns, Acts(c)
  PROVE  HotFits'
<1> USE DEF NONE, SHARED, RESERVED, PENDING, EXCLUSIVE
<1>1. ASSUME NEW e \in Files, NEW j \in {jnl'[e], djnl'[e]}, IsHdr(j, 1)
      PROVE  /\ j[1].orig <= Len(db'[e]) /\ j[1].orig <= Len(ddb'[e])
             /\ \A o \in Conns : InTxn(o, e)' => j[1].orig <= jw'[o][e].orig
  <2>1. CASE \E i \in {jnl[e], djnl[e]} : IsHdr(i, 1) /\ i[1].orig = j[1].orig
    <3>1. PICK i \in {jnl[e], djnl[e]} : IsHdr(i, 1) /\ i[1].orig = j[1].orig
      BY <2>1
    <3>2. PICK n \in Nat : n = j[1].orig
      BY <3>1, HotFitsIs
    <3>3. /\ n <= Len(db[e]) /\ n <= Len(ddb[e])
          /\ \A o \in Conns : InTxn(o, e) => n <= jw[o][e].orig
      BY <3>1, <3>2, HotFitsIs
    <3>4. IsHdr(jnl[e], 1) /\ op[c] = "hot" /\ cur[c] = e /\ pc[c] = "play" => n <= jnl[e][1].orig
      <4> SUFFICES ASSUME op[c] = "hot", cur[c] = e, pc[c] = "play" PROVE n = jnl[e][1].orig
        BY <3>2
      <4>1. djnl[e] = jnl[e]
        BY HotIs
      <4> QED
        BY <3>1, <3>2, <4>1
    <3>5. n <= Len(db'[e]) /\ n <= Len(ddb'[e])
      BY <3>3, <3>4, LengthKept
    <3>6. \A o \in Conns : InTxn(o, e)' => n <= jw'[o][e].orig
      BY <3>3, OrigFrom
    <3> QED
      BY <3>2, <3>5, <3>6
  <2>2. CASE Works(c, e) /\ j[1].orig = jw[c][e].orig
    <3>1. InTxn(c, e) /\ Live(c, e)
      BY <2>2, WorksDoes DEF WorkDone, Live
    <3>2. PICK n \in Nat : n = jw[c][e].orig
      BY <3>1, OrigIs
    <3>3. n <= Len(db[e]) /\ n <= Len(ddb[e])
      BY <3>1, <3>2, OrigIs
    <3>4. ~(op[c] = "hot" /\ cur[c] = e /\ pc[c] = "play")
      BY <3>1 DEF InTxn, Inv, Base, LocksHeld, Recovering
    <3>5. n <= Len(db'[e]) /\ n <= Len(ddb'[e])
      BY <3>2, <3>3, <3>4, LengthKept
    <3>6. ASSUME NEW o \in Conns, InTxn(o, e)' PROVE n <= jw'[o][e].orig
      <4>1. CASE o = c
        <5>1. jw'[c][e].orig = n
          BY <2>2, <3>2, WorksDoes DEF WorkDone
        <5> QED
          BY <4>1, <5>1
      <4>2. CASE o # c
        <5>1. InTxn(o, e)
          BY <3>6, <4>2, OrigFrom
        <5>2. lock[c][e] \in 0 .. 4 /\ lock[o][e] \in 0 .. 4
          BY DataTypes DEF Inv, Base
        <5> QED
          BY <3>1, <4>2, <5>1, <5>2 DEF InTxn, Inv, Base, Excluded
      <4> QED
        BY <4>1, <4>2
    <3> QED
      BY <2>2, <3>2, <3>5, <3>6
  <2>3. j \in {jnl'[e], djnl[e], jnl[e]}
    BY <1>1, DiskMovesIs, NoCell DEF DiskMoves
  <2>4. CASE j = jnl'[e]
    BY <1>1, <2>1, <2>2, <2>4, HeaderFrom
  <2> QED
    BY <1>1, <2>1, <2>3, <2>4
<1> QED
  BY <1>1 DEF HotFits

LEMMA OrigKeptKept ==
  ASSUME Inv, NEW c \in Conns, Acts(c)
  PROVE  OrigKept'
<1>1. ASSUME NEW o \in Conns, NEW e \in Files, InTxn(o, e)'
      PROVE  jw'[o][e].orig <= Len(db'[e]) /\ jw'[o][e].orig <= Len(ddb'[e])
  <2>1. CASE InTxn(o, e) /\ jw'[o][e].orig = jw[o][e].orig
    <3>1. PICK n \in Nat : n = jw[o][e].orig
      BY <2>1, OrigIs
    <3>2. n <= Len(db[e]) /\ n <= Len(ddb[e])
      BY <2>1, <3>1, OrigIs
    <3>3. CASE o # c
      <4>1. db'[e] = db[e] /\ ddb'[e] = ddb[e]
        BY <2>1, <3>3, OthersSafe DEF InTxn, Same
      <4> QED
        BY <2>1, <3>1, <3>2, <4>1
    <3>4. CASE o = c
      <4>1. ~(op[c] = "hot" /\ cur[c] = e /\ pc[c] = "play")
        BY <2>1, <3>4 DEF InTxn, Inv, Base, LocksHeld, Recovering
      <4>2. n <= Len(db'[e]) /\ n <= Len(ddb'[e])
        BY <3>1, <3>2, <3>4, <4>1, LengthKept
      <4> QED
        BY <2>1, <3>1, <4>2
    <3> QED
      BY <3>3, <3>4
  <2>2. CASE o = c /\ Reserve(c, e) /\ jw'[o][e].orig = Len(db[e])
    <3>1. ~IsHdr(jnl[e], 1) /\ db' = db /\ ddb' = ddb
      BY <2>2, ReserveDoes DEF Reserve, disk
    <3>2. Len(db[e]) <= Len(ddb[e])
      BY <3>1 DEF Inv, Stores, Settled
    <3>3. Len(db[e]) \in Nat
      BY DEF Inv, Base, TypeOK
    <3> QED
      BY <2>2, <3>1, <3>2, <3>3
  <2> QED
    BY <1>1, <2>1, <2>2, OrigFrom
<1> QED
  BY <1>1 DEF OrigKept

LEMMA SettledKept ==
  ASSUME Inv, NEW c \in Conns, Acts(c)
  PROVE  Settled'
<1> USE DEF NONE, SHARED, RESERVED, PENDING, EXCLUSIVE
<1>1. ASSUME NEW e \in Files
      PROVE  Len(db'[e]) <= Len(ddb'[e]) \/ (IsHdr(jnl'[e], 1) /\ Counts(jnl'[e], supers'))
  <2>1. /\ FileShapes /\ TypeOK /\ db[e] \in Seq(Page) /\ ddb[e] \in Seq(Page)
        /\ Len(db[e]) <= Len(ddb[e]) \/ (IsHdr(jnl[e], 1) /\ Counts(jnl[e], supers))
    BY FileShapesOK DEF Inv, Base, TypeOK, Stores, Settled
  <2>2. CASE Works(c, e)
    <3>1. WorkDone(c, e) /\ Counts(jnl'[e], supers')
      BY <2>2, WorksDoes, WorksStore
    <3>2. cache[c][e] \in Seq(Page)
      BY <3>1, LiveIs DEF WorkDone
    <3>3. /\ jnl'[e] \in Seq(JournalCell) /\ jw'[c][e] \in JournalWriter /\ db'[e] \in Seq(Page)
          /\ Journal(jnl'[e], jw'[c][e], cache[c][e], db'[e]) /\ jw'[c][e].orig = jw[c][e].orig
      BY <3>1 DEF WorkDone, JournalKept
    <3>4. CASE jw'[c][e].mod
      BY <3>1, <3>2, <3>3, <3>4, JournalHot
    <3>5. CASE ~jw'[c][e].mod
      <4>1. db'[e] = cache[c][e] /\ jw'[c][e].orig = Len(cache[c][e])
        BY <3>3, <3>5 DEF Journal, Restorable, Copied
      <4>2. ddb' = ddb /\ jw[c][e].orig <= Len(ddb[e])
        BY <3>1, OrigIs DEF WorkDone, Live
      <4> QED
        BY <3>3, <4>1, <4>2
    <3> QED
      BY <3>4, <3>5
  <2>3. CASE e = cur[c] /\ Fin(c)
    <3>1. Len(db[e]) <= Len(ddb[e]) /\ db' = db /\ ddb' = ddb
      BY <2>3, FinDoes
    <3> QED
      BY <3>1
  <2>4. CASE e = cur[c] /\ HotEmpty(c)
    <3>1. db[e] = << >> /\ db' = db /\ ddb' = ddb
      BY <2>4 DEF HotEmpty, At, disk, Inv, Phases, Emptied
    <3>2. Len(ddb[e]) \in Nat /\ Len(db[e]) = 0
      BY <2>1, <3>1
    <3> QED
      BY <3>1, <3>2
  <2>5. CASE e = cur[c] /\ op[c] = "hot" /\ (PlayTruncate(c) \/ PlayPage(c))
    <3>1. IsHdr(jnl[e], 1) /\ Counts(jnl[e], supers)
      BY <2>5, HotPlayDoes
    <3>2. jnl' = jnl /\ supers' = supers
      BY <2>5 DEF PlayTruncate, PlayPage
    <3> QED
      BY <3>1, <3>2
  <2>6. CASE db'[e] = db[e] /\ jnl'[e] = jnl[e]
    <3>1. CASE DeleteSuper(c) /\ SuperName(jnl[e]) = txn[c]
      <4>1. Delivers(c, e)
        <5>1. Control(c) /\ pc[c] = "commit"
          BY <3>1 DEF DeleteSuper, At, Inv, Base
        <5>2. InTxn(c, cur[c]) /\ cur[c] \in Files
          BY <5>1, ControlTyped DEF Control, InTxn, Inv, ControlTypes
        <5>3. txn[c] # 0
          BY <5>2 DEF Inv, Base, TxnKept
        <5> QED
          BY <3>1, <5>3 DEF Inv, Supered, NamesOwned, Delivers
      <4>2. ddb[e] = db[e] /\ ddb' = ddb
        BY <4>1, DeliversDoes
      <4>3. Len(db[e]) \in Nat
        BY <2>1
      <4> QED
        BY <2>6, <4>2, <4>3
    <3>2. CASE ~(DeleteSuper(c) /\ SuperName(jnl[e]) = txn[c])
      <4>1. Counts(jnl[e], supers') <=> Counts(jnl[e], supers)
        BY <3>2, SupersMove
      <4>2. ddb'[e] = ddb[e] \/ ddb'[e] = db[e]
        BY DiskMovesIs DEF DiskMoves
      <4>3. Len(db[e]) \in Nat
        BY <2>1
      <4> QED
        BY <2>1, <2>6, <4>1, <4>2, <4>3
    <3> QED
      BY <3>1, <3>2
  <2> QED
    BY <2>2, <2>3, <2>4, <2>5, <2>6, KindsAre DEF Kinds
<1> QED
  BY <1>1 DEF Settled

-----------------------------------------------------------------------------
(* Journals that are hot, and who meets them. *)

LEMMA ModIs ==
  ASSUME Inv, NEW c \in Conns, NEW e \in Files, Live(c, e), jw[c][e].mod
  PROVE  IsHdr(jnl[e], 1) /\ Counts(jnl[e], supers) /\ jw[c][e].off # 0
<1>1. /\ JournalKept(c, e) /\ cache[c][e] \in Seq(Page) /\ jw[c][e] \in JournalWriter /\ db[e] \in Seq(Page)
      /\ jw[c][e].off # 0 => jnl[e] \in Seq(JournalCell)
  BY LiveIs
<1>2. jw[c][e].off # 0
  BY <1>1 DEF JournalKept, Unopened, NoJw
<1>3. Journal(jnl[e], jw[c][e], cache[c][e], db[e]) /\ Counts(jnl[e], supers)
  BY <1>1, <1>2 DEF JournalKept, Counts
<1> QED
  BY <1>1, <1>2, <1>3, JournalHot

(* A transaction that has not synced its records leaves no header there.   *)
LEMMA NotHotYet ==
  ASSUME Inv, NEW c \in Conns, NEW e \in Files, ~jw[c][e].mod,
         (\E p \in Pages : Write(c, e, p)) \/ (e = cur[c] /\ (Prepare(c) \/ SyncRecords(c)))
  PROVE  ~IsHdr(jnl'[e], 1)
<1>1. WorkDone(c, e)
  BY WorksDoes DEF Works
<1>2. pc'[c] # "sync2" /\ op'[c] # "rollback" /\ op' = op
  <2>1. ControlTypes(c) /\ Control(c) /\ Shapes
    BY ControlTyped DEF Inv, Base
  <2> QED
    BY <2>1 DEF Write, Prepare, SyncRecords, At, Go, Control, ControlTypes, Shapes
<1>3. jw'[c][e].mod = jw[c][e].mod
  <2>1. SyncRecords(c) => jw' = jw
    BY DEF SyncRecords
  <2> QED
    BY <2>1, WriteDoes, PrepareDoes
<1>4. /\ jnl'[e] \in Seq(JournalCell) /\ jw'[c][e] \in JournalWriter
      /\ Journal(jnl'[e], jw'[c][e], cache'[c][e], db'[e])
      /\ jw'[c][e].hdr <= jw'[c][e].off =>
           (jnl'[e][jw'[c][e].hdr].magic <=> cur'[c] = e /\ pc'[c] = "sync2")
  BY <1>1, <1>2 DEF WorkDone, JournalKept, DraftKept
<1>5. PICK h, o \in Nat : h = jw'[c][e].hdr /\ o = jw'[c][e].off
  BY <1>4 DEF JournalWriter
<1>6. h = 1 /\ h <= o /\ o <= Len(jnl'[e])
  <2>1. Placed(jnl'[e], jw'[c][e])
    BY <1>4 DEF Journal
  <2>2. Len(jnl'[e]) \in Nat
    BY <1>4
  <2>3. 1 <= o /\ o <= Len(jnl'[e]) /\ 1 <= h /\ (jw'[c][e].mod <=> h > 1)
    BY <1>5, <2>1 DEF Placed
  <2>4. ~(h > 1)
    BY <1>3, <2>3
  <2> QED
    BY <1>5, <2>2, <2>3, <2>4
<1>7. 1 \in 1 .. Len(jnl'[e]) /\ ~jnl'[e][1].magic
  BY <1>2, <1>4, <1>5, <1>6
<1> QED
  BY <1>4, <1>7, CellIs

(* A journal gets hot when its records are counted.                        *)
LEMMA HotFrom ==
  ASSUME Inv, NEW c \in Conns, Acts(c), NEW e \in Files, IsHdr(jnl'[e], 1)
  PROVE  IsHdr(jnl[e], 1) \/ (Count(c) /\ e = cur[c])
<1>1. CASE Works(c, e) /\ ~IsHdr(jnl[e], 1) /\ ~(Count(c) /\ e = cur[c])
  <2>1. WorkDone(c, e)
    BY <1>1, WorksDoes
  <2>2. ~jw[c][e].mod
    BY <1>1, <2>1, ModIs DEF WorkDone
  <2>3. JournalKept(c, e) /\ DraftKept(c, e) /\ jw[c][e] \in JournalWriter
    BY <2>1, LiveIs DEF WorkDone
  <2>4. (\E p \in Pages : Write(c, e, p)) \/ (e = cur[c] /\ (Prepare(c) \/ SyncRecords(c) \/ SyncCount(c)))
    <3>1. e = cur[c] /\ WritePage(c) => jw[c][e].mod
      BY WritePageDoes
    <3>2. e = cur[c] /\ op[c] = "rollback" /\ (PlayTruncate(c) \/ PlayPage(c)) => jw[c][e].mod
      BY PlayDoes
    <3> QED
      BY <1>1, <2>2, <3>1, <3>2 DEF Works
  <2>5. CASE e = cur[c] /\ SyncCount(c)
    <3>1. pc[c] = "sync2" /\ op[c] # "rollback"
      BY <2>5 DEF SyncCount, At, Inv, Base, Control
    <3>2. Writing(c)
      BY <3>1 DEF Writing
    <3>3. /\ Journal(jnl[e], jw[c][e], cache[c][e], db[e]) /\ jw[c][e].hdr <= jw[c][e].off
          /\ jnl[e][jw[c][e].hdr].magic /\ jnl[e] \in Seq(JournalCell)
      BY <2>5, <3>1, <3>2, WritingIs
    <3>4. PICK h, o \in Nat : h = jw[c][e].hdr /\ o = jw[c][e].off
      BY <2>3 DEF JournalWriter
    <3>5. h = 1 /\ h <= o /\ o <= Len(jnl[e])
      BY <2>2, <3>3, <3>4 DEF Journal, Placed
    <3>6. 1 \in 1 .. Len(jnl[e]) /\ jnl[e][1].k = "hdr" /\ jnl[e][1].magic
      BY <3>3, <3>4, <3>5 DEF Journal, Segment
    <3>7. IsHdr(jnl[e], 1)
      BY <3>3, <3>6, CellIs
    <3> QED
      BY <1>1, <3>7
  <2>6. CASE (\E p \in Pages : Write(c, e, p)) \/ (e = cur[c] /\ (Prepare(c) \/ SyncRecords(c)))
    BY <1>1, <2>2, <2>6, NotHotYet
  <2> QED
    BY <2>4, <2>5, <2>6
<1> QED
  BY <1>1, HeaderFrom

(* Where somebody reads and somebody writes there is none.                 *)
LEMMA Busy ==
  ASSUME Inv, NEW c \in Conns, NEW e \in Files, lock[c][e] # NONE, ~NoneAbove(c, e, RESERVED)
  PROVE  ~IsHdr(jnl[e], 1)
<1> USE DEF NONE, SHARED, RESERVED, PENDING, EXCLUSIVE
<1>1. PICK o \in Conns : o # c /\ ~(lock[o][e] < RESERVED)
  BY DEF NoneAbove
<1>2. lock[o][e] \in 0 .. 4 /\ lock[c][e] \in 0 .. 4
  BY DataTypes DEF Inv, Base
<1>3. lock[o][e] >= RESERVED /\ lock[o][e] # EXCLUSIVE
  BY <1>1, <1>2 DEF Inv, Base, Excluded
<1>4. ~(Recovering(o) /\ cur[o] = e)
  BY <1>3 DEF Inv, Base, LocksHeld
<1>5. InTxn(o, e)
  BY <1>3, <1>4, ReservedInTxn DEF Inv
<1>6. ~Committed(o)
  BY <1>3, <1>5 DEF Inv, Phases, Stage
<1> QED
  BY <1>3, <1>5, <1>6 DEF Inv, Stores, Quiet, Passed, InTxn

LEMMA PassedFrom ==
  ASSUME Inv, NEW c \in Conns, Acts(c), NEW e \in Files, IsHdr(jnl'[e], 1), Passed(c, e)'
  PROVE  Passed(c, e)
<1> USE DEF At, Go, disk, local, NONE, SHARED, RESERVED, PENDING, EXCLUSIVE
<1>1. /\ ControlTypes(c) /\ Control(c) /\ Shapes /\ LocksHeld(c) /\ FileShapes
  BY ControlTyped, FileShapesOK DEF Inv, Base
<1>2. CASE e \in reads'[c]
  BY <1>2, CacheMovesIs DEF CacheMoves, Passed, Check
<1>3. CASE pc'[c] = "check" /\ cur'[c] = e
  <2>1. CASE HotExists(c)
    <3>1. jnl' = jnl /\ cur' = cur /\ jnl[cur[c]] = None
      BY <1>1, <1>3, <2>1 DEF HotExists, Shapes
    <3> QED
      BY <1>3, <3>1, NoCell
  <2>2. CASE HotReserved(c)
    <3>1. jnl' = jnl /\ cur' = cur /\ ~NoneAbove(c, e, RESERVED) /\ pc[c] = "reserved"
      BY <1>1, <1>3, <2>2 DEF HotReserved, Shapes
    <3>2. lock[c][e] # NONE
      BY <1>1, <1>3, <3>1 DEF LocksHeld, Recovering, Alone
    <3> QED
      BY <3>1, <3>2, Busy
  <2>3. CASE HotEmpty(c)
    <3>1. cur' = cur /\ pc[c] = "empty"
      BY <2>3 DEF HotEmpty
    <3>2. lock[c][e] # NONE
      BY <1>1, <1>3, <3>1 DEF LocksHeld, Recovering, Alone
    <3>3. CASE NoneAbove(c, e, RESERVED)
      <4>1. jnl'[e] = None
        BY <1>1, <1>3, <2>3, <3>1, <3>3 DEF HotEmpty, FileShapes
      <4> QED
        BY <4>1, NoCell
    <3>4. CASE ~NoneAbove(c, e, RESERVED)
      <4>1. jnl' = jnl
        BY <1>3, <2>3, <3>1, <3>4 DEF HotEmpty
      <4> QED
        BY <3>2, <3>4, <4>1, Busy
    <3> QED
      BY <3>3, <3>4
  <2>4. CASE HotByte(c)
    BY <1>1, <1>3, <2>4 DEF HotByte, Shapes
  <2>5. CASE HotOpen(c)
    <3>1. jnl' = jnl /\ cur' = cur /\ jnl[cur[c]] = None
      BY <1>1, <1>3, <2>5 DEF HotOpen, Shapes, StillThere
    <3> QED
      BY <1>3, <3>1, NoCell
  <2>6. CASE Unlock(c)
    BY <1>1, <1>3, <2>6 DEF Unlock, Shapes, Passed
  <2>7. CASE DelSuper(c)
    BY <1>1, <1>3, <2>7 DEF DelSuper, Shapes, Passed
  <2> QED
    BY <1>3, <2>1, <2>2, <2>3, <2>4, <2>5, <2>6, <2>7, EntersIs DEF Enters
<1>4. CASE op'[c] = "hot" /\ pc'[c] \in {"finsync", "unlock", "delsuper"} /\ cur'[c] = e
  <2>1. CASE Fin(c)
    <3>1. cur' = cur
      BY <2>1 DEF Fin
    <3> QED
      BY <1>4, <2>1, <3>1, FinDoes
  <2>2. CASE FinSync(c)
    BY <1>1, <1>4, <2>2 DEF FinSync, Passed
  <2>3. CASE NextFile(c)
    BY <1>1, <1>4, <2>3 DEF NextFile, Control
  <2>4. CASE Unlock(c)
    BY <1>1, <1>4, <2>4 DEF Unlock, Shapes, Passed
  <2> QED
    BY <1>4, <2>1, <2>2, <2>3, <2>4, EntersIs DEF Enters
<1> QED
  BY <1>2, <1>3, <1>4 DEF Passed

(* A transaction leaves a file when it unlocks it or with its connection.  *)
LEMMA InTxnGoes ==
  ASSUME Inv, NEW c \in Conns, Acts(c), NEW e \in Files, InTxn(c, e)
  PROVE  InTxn(c, e)' \/ (Unlock(c) /\ e = cur[c]) \/ Crash(c)
<1> USE DEF At, Go, Locked, disk, local, ghosts, bounds, NONE, SHARED, RESERVED, PENDING, EXCLUSIVE,
            InTxn
<1>1. /\ ControlTypes(c) /\ LocksHeld(c) /\ Control(c) /\ Shapes /\ FileShapes /\ InTxn(c, e)
  BY ControlTyped, FileShapesOK DEF Inv, Base
<1>2. CASE HotExists(c)
  BY <1>1, <1>2 DEF HotExists, ControlTypes, Shapes, FileShapes, LocksHeld, Control, Recovering, Alone
<1>3. CASE HotReserved(c)
  BY <1>1, <1>3 DEF HotReserved, ControlTypes, Shapes, FileShapes, LocksHeld, Control, Recovering, Alone
<1>4. CASE HotEmpty(c)
  BY <1>1, <1>4 DEF HotEmpty, ControlTypes, Shapes, FileShapes, LocksHeld, Control, Recovering, Alone
<1>5. CASE HotByte(c)
  BY <1>1, <1>5 DEF HotByte, ControlTypes, Shapes, FileShapes, LocksHeld, Control, Recovering, Alone
<1>6. CASE HotLock(c)
  BY <1>1, <1>6 DEF HotLock, ControlTypes, Shapes, FileShapes, LocksHeld, Control, Recovering, Alone
<1>7. CASE HotOpen(c)
  BY <1>1, <1>7 DEF HotOpen, ControlTypes, Shapes, FileShapes, LocksHeld, Control, Recovering, Alone
<1>8. CASE PlayTruncate(c)
  BY <1>1, <1>8 DEF PlayTruncate, ControlTypes, Shapes, FileShapes, LocksHeld, Control, Recovering, Alone
<1>9. CASE PlayPage(c)
  BY <1>1, <1>9 DEF PlayPage, ControlTypes, Shapes, FileShapes, LocksHeld, Control, Recovering, Alone
<1>10. CASE PlaySync(c)
  BY <1>1, <1>10 DEF PlaySync, ControlTypes, Shapes, FileShapes, LocksHeld, Control, Recovering, Alone
<1>11. CASE Fin(c)
  BY <1>1, <1>11 DEF Fin, ControlTypes, Shapes, FileShapes, LocksHeld, Control, Recovering, Alone
<1>12. CASE FinSync(c)
  BY <1>1, <1>12 DEF FinSync, ControlTypes, Shapes, FileShapes, LocksHeld, Control, Recovering, Alone
<1>13. CASE Unlock(c)
  BY <1>1, <1>13 DEF Unlock, ControlTypes, Shapes, FileShapes, LocksHeld, Control, Recovering, Alone
<1>14. CASE DelSuper(c)
  BY <1>1, <1>14 DEF DelSuper, ControlTypes, Shapes, FileShapes, LocksHeld, Control, Recovering, Alone
<1>15. CASE NextFile(c)
  BY <1>1, <1>15 DEF NextFile, ControlTypes, Shapes, FileShapes, LocksHeld, Control, Recovering, Alone
<1>16. CASE Check(c)
  BY <1>1, <1>16 DEF Check, ControlTypes, Shapes, FileShapes, LocksHeld, Control, Recovering, Alone
<1>17. CASE CommitLock(c)
  <2>1. /\ reads' = reads
        /\ \/ lock' = lock
           \/ LET d == Min({x \in Reserved(c) : lock[c][x] < EXCLUSIVE}) IN
              /\ {x \in Reserved(c) : lock[c][x] < EXCLUSIVE} # {}
              /\ lock' = [lock EXCEPT ![c][d] = EXCLUSIVE] \/ lock' = [lock EXCEPT ![c][d] = PENDING]
    BY <1>17 DEF CommitLock
  <2>2. CASE lock' = lock
    BY <1>1, <2>1, <2>2
  <2>3. ASSUME NEW d \in Files,
               lock' = [lock EXCEPT ![c][d] = EXCLUSIVE] \/ lock' = [lock EXCEPT ![c][d] = PENDING]
        PROVE  InTxn(c, e)'
    BY <1>1, <2>1, <2>3 DEF ControlTypes, Shapes
  <2>4. {x \in Reserved(c) : lock[c][x] < EXCLUSIVE} \in SUBSET Files
    BY DEF Reserved
  <2> QED
    BY <2>1, <2>2, <2>3, <2>4, TodoIs DEF Reserved
<1>18. CASE WriteSuper(c)
  BY <1>1, <1>18 DEF WriteSuper, ControlTypes, Shapes, FileShapes, LocksHeld, Control, Recovering, Alone
<1>19. CASE Prepare(c)
  BY <1>1, <1>19 DEF Prepare, ControlTypes, Shapes, FileShapes, LocksHeld, Control, Recovering, Alone
<1>20. CASE SyncRecords(c)
  BY <1>1, <1>20 DEF SyncRecords, ControlTypes, Shapes, FileShapes, LocksHeld, Control, Recovering, Alone
<1>21. CASE Count(c)
  BY <1>1, <1>21 DEF Count, ControlTypes, Shapes, FileShapes, LocksHeld, Control, Recovering, Alone
<1>22. CASE SyncCount(c)
  BY <1>1, <1>22 DEF SyncCount, ControlTypes, Shapes, FileShapes, LocksHeld, Control, Recovering, Alone
<1>23. CASE WritePage(c)
  BY <1>1, <1>23 DEF WritePage, ControlTypes, Shapes, FileShapes, LocksHeld, Control, Recovering, Alone
<1>24. CASE SyncDb(c)
  BY <1>1, <1>24 DEF SyncDb, ControlTypes, Shapes, FileShapes, LocksHeld, Control, Recovering, Alone
<1>25. CASE DeleteSuper(c)
  BY <1>1, <1>25 DEF DeleteSuper, ControlTypes, Shapes, FileShapes, LocksHeld, Control, Recovering, Alone
<1>26. CASE End(c)
  BY <1>1, <1>26 DEF End, Reserved
<1>27. CASE Commit(c)
  BY <1>1, <1>27 DEF Commit, ControlTypes, Shapes, FileShapes, LocksHeld, Control, Recovering, Alone
<1>28. CASE Rollback(c)
  BY <1>1, <1>28 DEF Rollback, ControlTypes, Shapes, FileShapes, LocksHeld, Control, Recovering, Alone
<1>29. CASE Crash(c)
  BY <1>29
<1>30. ASSUME NEW d \in Files, Open(c, d) PROVE InTxn(c, e)' \/ (Unlock(c) /\ e = cur[c]) \/ Crash(c)
  BY <1>1, <1>30 DEF Open, ControlTypes, Shapes, FileShapes, LocksHeld, Control, Recovering, Alone
<1>31. ASSUME NEW d \in Files, Reserve(c, d) PROVE InTxn(c, e)' \/ (Unlock(c) /\ e = cur[c]) \/ Crash(c)
  BY <1>1, <1>31 DEF Reserve, ControlTypes, Shapes, FileShapes, LocksHeld, Control, Recovering, Alone
<1>32. ASSUME NEW d \in Files, NEW p \in Pages, Write(c, d, p) PROVE InTxn(c, e)' \/ (Unlock(c) /\ e = cur[c]) \/ Crash(c)
  BY <1>1, <1>32 DEF Write, ControlTypes, Shapes, FileShapes, LocksHeld, Control, Recovering, Alone
<1>33. ASSUME NEW d \in Files, NEW p \in Pages, Spill(c, d, p) PROVE InTxn(c, e)' \/ (Unlock(c) /\ e = cur[c]) \/ Crash(c)
  BY <1>1, <1>33 DEF Spill, ControlTypes, Shapes, FileShapes, LocksHeld, Control, Recovering, Alone
<1> QED
  BY <1>2, <1>3, <1>4, <1>5, <1>6, <1>7, <1>8, <1>9, <1>10, <1>11, <1>12, <1>13, <1>14, <1>15,
     <1>16, <1>17, <1>18, <1>19, <1>20, <1>21, <1>22, <1>23, <1>24, <1>25, <1>26, <1>27, <1>28,
     <1>29, <1>30, <1>31, <1>32, <1>33 DEF Acts, Step

(* The step that is the commit.                                            *)
LEMMA CommitsNow ==
  ASSUME Inv, NEW c \in Conns, Acts(c), ~Committed(c), Committed(c)'
  PROVE  DeleteSuper(c) \/ (Fin(c) /\ FinCommits(c))
<1> USE DEF At, Go
<1>1. /\ ControlTypes(c) /\ Control(c) /\ Shapes /\ Stage(c)
  BY ControlTyped DEF Inv, Base, Phases
<1>2. op'[c] = "commit" /\ pc'[c] \in {"next", "fin", "finsync", "unlock"} /\ mine'[c][cur'[c]] = None
  BY DEF Committed
<1>3. CASE Unlock(c)
  BY <1>1, <1>2, <1>3 DEF Unlock, Stage, Shapes
<1>4. CASE DelSuper(c)
  BY <1>1, <1>2, <1>4 DEF DelSuper, Control, Shapes
<1>5. CASE NextFile(c)
  BY <1>2, <1>5, NextIs
<1>6. CASE Rollback(c)
  BY <1>1, <1>2, <1>6 DEF Rollback, Shapes
<1>7. CASE PlaySync(c)
  BY <1>1, <1>2, <1>7 DEF PlaySync, Control
<1>8. CASE SyncDb(c)
  <2>1. pc'[c] = "fin"
    BY <1>2, <1>8, SyncDbDoes
  <2> QED
    BY <1>2, <1>8, <2>1, LastDone
<1>9. CASE Fin(c) /\ ~FinCommits(c)
  <2>1. op' = op /\ cur' = cur /\ pc[c] = "fin"
    BY <1>9 DEF Fin
  <2> QED
    BY <1>2, <1>9, <2>1 DEF FinCommits, Committed
<1>10. CASE FinSync(c)
  BY <1>1, <1>2, <1>10 DEF FinSync, Stage
<1> QED
  BY <1>2, <1>3, <1>4, <1>5, <1>6, <1>7, <1>8, <1>9, <1>10, EntersIs DEF Enters

(* A commit that is done goes on until the last file.                      *)
LEMMA CommittedGoes ==
  ASSUME Inv, NEW c \in Conns, Acts(c), Committed(c)
  PROVE  Committed(c)' \/ Crash(c) \/ (Unlock(c) /\ Last(c))
<1> USE DEF At, Go, disk, local
<1>1. /\ ControlTypes(c) /\ Control(c) /\ Shapes /\ FileShapes /\ Stage(c)
      /\ pc[c] \in {"next", "fin", "finsync", "unlock"} /\ op[c] = "commit" /\ mine[c][cur[c]] = None
  BY ControlTyped, FileShapesOK DEF Inv, Base, Phases, Committed
<1>2. CASE HotExists(c)
  BY <1>1, <1>2 DEF HotExists
<1>3. CASE HotReserved(c)
  BY <1>1, <1>3 DEF HotReserved
<1>4. CASE HotEmpty(c)
  BY <1>1, <1>4 DEF HotEmpty
<1>5. CASE HotByte(c)
  BY <1>1, <1>5 DEF HotByte
<1>6. CASE HotLock(c)
  BY <1>1, <1>6 DEF HotLock
<1>7. CASE HotOpen(c)
  BY <1>1, <1>7 DEF HotOpen
<1>8. CASE PlayTruncate(c)
  BY <1>1, <1>8 DEF PlayTruncate
<1>9. CASE PlayPage(c)
  BY <1>1, <1>9 DEF PlayPage
<1>10. CASE PlaySync(c)
  BY <1>1, <1>10 DEF PlaySync
<1>11. CASE Fin(c)
  <2>1. ~FinCommits(c) /\ op' = op /\ cur' = cur /\ pc'[c] \in {"finsync", "unlock"}
    BY <1>1, <1>11 DEF Fin, FinCommits, Shapes
  <2>2. mine' = mine
    BY <1>11, <2>1, FinDoes
  <2> QED
    BY <1>1, <2>1, <2>2 DEF Committed
<1>12. CASE FinSync(c)
  BY <1>1, <1>12 DEF FinSync, Committed, Shapes
<1>13. CASE Unlock(c)
  <2>1. sup[c] = 0 /\ cur[c] \in Files
    BY <1>1, <1>13 DEF Unlock, Control, InTxn, ControlTypes
  <2>2. CASE ~Last(c)
    <3>1. /\ pc'[c] = "next" /\ op' = op /\ cur' = cur /\ mine' = [mine EXCEPT ![c][cur[c]] = None]
      BY <1>1, <1>13, <2>1, <2>2 DEF Unlock, Shapes
    <3>2. mine'[c][cur'[c]] = None
      BY <1>1, <2>1, <3>1 DEF Shapes, FileShapes
    <3> QED
      BY <1>1, <3>1, <3>2 DEF Committed
  <2> QED
    BY <1>13, <2>2
<1>14. CASE DelSuper(c)
  BY <1>1, <1>14 DEF DelSuper
<1>15. CASE NextFile(c)
  <2>1. PICK d : d = Min(Reserved(c))
    OBVIOUS
  <2>2. d \in Files /\ InTxn(c, d) /\ cur'[c] = d /\ op' = op /\ pc'[c] = "fin"
    BY <1>1, <1>15, <2>1, NextIs
  <2>3. mine[c][d] = None /\ mine' = mine
    BY <1>1, <2>2, <1>15 DEF Stage, NextFile
  <2> QED
    BY <1>1, <2>2, <2>3 DEF Committed
<1>16. CASE Check(c)
  BY <1>1, <1>16 DEF Check
<1>17. CASE CommitLock(c)
  BY <1>1, <1>17 DEF CommitLock
<1>18. CASE WriteSuper(c)
  BY <1>1, <1>18 DEF WriteSuper
<1>19. CASE Prepare(c)
  BY <1>1, <1>19 DEF Prepare
<1>20. CASE SyncRecords(c)
  BY <1>1, <1>20 DEF SyncRecords
<1>21. CASE Count(c)
  BY <1>1, <1>21 DEF Count
<1>22. CASE SyncCount(c)
  BY <1>1, <1>22 DEF SyncCount
<1>23. CASE WritePage(c)
  BY <1>1, <1>23 DEF WritePage
<1>24. CASE SyncDb(c)
  BY <1>1, <1>24 DEF SyncDb
<1>25. CASE DeleteSuper(c)
  BY <1>1, <1>25 DEF DeleteSuper
<1>26. CASE End(c)
  BY <1>1, <1>26 DEF End
<1>27. CASE Commit(c)
  BY <1>1, <1>27 DEF Commit
<1>28. CASE Rollback(c)
  BY <1>1, <1>28 DEF Rollback
<1>29. CASE Crash(c)
  BY <1>29
<1>30. ASSUME NEW d \in Files, Open(c, d) PROVE Committed(c)' \/ Crash(c) \/ (Unlock(c) /\ Last(c))
  BY <1>1, <1>30 DEF Open
<1>31. ASSUME NEW d \in Files, Reserve(c, d) PROVE Committed(c)' \/ Crash(c) \/ (Unlock(c) /\ Last(c))
  BY <1>1, <1>31 DEF Reserve
<1>32. ASSUME NEW d \in Files, NEW p \in Pages, Write(c, d, p) PROVE Committed(c)' \/ Crash(c) \/ (Unlock(c) /\ Last(c))
  BY <1>1, <1>32 DEF Write
<1>33. ASSUME NEW d \in Files, NEW p \in Pages, Spill(c, d, p) PROVE Committed(c)' \/ Crash(c) \/ (Unlock(c) /\ Last(c))
  BY <1>1, <1>33 DEF Spill
<1> QED
  BY <1>2, <1>3, <1>4, <1>5, <1>6, <1>7, <1>8, <1>9, <1>10, <1>11, <1>12, <1>13, <1>14, <1>15,
     <1>16, <1>17, <1>18, <1>19, <1>20, <1>21, <1>22, <1>23, <1>24, <1>25, <1>26, <1>27, <1>28,
     <1>29, <1>30, <1>31, <1>32, <1>33 DEF Acts, Step

LEMMA QuietOthers ==
  ASSUME Inv, NEW c \in Conns, Acts(c), NEW o \in Conns, o # c, NEW e \in Files,
         IsHdr(jnl'[e], 1), Passed(o, e)'
  PROVE  \/ Live(o, e)' /\ jw'[o][e].off # 0 /\ lock'[o][e] = EXCLUSIVE
         \/ Committed(o)' /\ InTxn(o, e)' /\ ~Counts(jnl'[e], supers')
<1> USE DEF NONE, SHARED, RESERVED, PENDING, EXCLUSIVE
<1>1. Alike(o) /\ LocksHeld(o) /\ Control(o)
  BY Others DEF Inv, Base
<1>2. Passed(o, e)
  BY <1>1 DEF Passed, Alike
<1>3. lock[o][e] >= SHARED
  BY <1>1, <1>2 DEF Passed, LocksHeld, Recovering, Alone, Control
<1>4. IsHdr(jnl[e], 1)
  <2>1. CASE Count(c) /\ e = cur[c]
    <3>1. lock[c][e] = EXCLUSIVE
      BY <2>1, CountDoes
    <3>2. lock[o][e] = NONE
      BY <3>1 DEF Inv, Base, Excluded
    <3> QED
      BY <1>3, <3>2
  <2> QED
    BY <2>1, HotFrom
<1>5. \/ Live(o, e) /\ jw[o][e].off # 0 /\ lock[o][e] = EXCLUSIVE
      \/ Committed(o) /\ InTxn(o, e) /\ ~Counts(jnl[e], supers)
  BY <1>2, <1>4 DEF Inv, Stores, Quiet
<1>6. lock[o][e] >= RESERVED
  BY <1>5 DEF InTxn
<1>7. Same(e) /\ (Counts(jnl[e], supers') <=> Counts(jnl[e], supers))
  BY <1>6, OthersSafe, OthersNamed
<1>8. /\ Live(o, e)' <=> Live(o, e)
      /\ Committed(o)' <=> Committed(o)
      /\ InTxn(o, e)' <=> InTxn(o, e)
  BY <1>1 DEF Alike, Live, Committed, InTxn, Undone
<1> QED
  BY <1>1, <1>5, <1>7, <1>8 DEF Alike, Same

LEMMA QuietActs ==
  ASSUME Inv, NEW c \in Conns, Acts(c), NEW e \in Files, IsHdr(jnl'[e], 1), Passed(c, e)'
  PROVE  \/ Live(c, e)' /\ jw'[c][e].off # 0 /\ lock'[c][e] = EXCLUSIVE
         \/ Committed(c)' /\ InTxn(c, e)' /\ ~Counts(jnl'[e], supers')
<1> USE DEF NONE, SHARED, RESERVED, PENDING, EXCLUSIVE
<1>1. /\ ControlTypes(c) /\ Control(c) /\ Shapes /\ FileShapes /\ Stage(c)
  BY ControlTyped, FileShapesOK DEF Inv, Base, Phases
<1>2. \/ Live(c, e) /\ jw[c][e].off # 0 /\ lock[c][e] = EXCLUSIVE
      \/ Committed(c) /\ InTxn(c, e) /\ ~Counts(jnl[e], supers)
  <2>1. CASE IsHdr(jnl[e], 1)
    <3>1. Passed(c, e)
      BY PassedFrom
    <3> QED
      BY <2>1, <3>1 DEF Inv, Stores, Quiet
  <2>2. CASE Count(c) /\ e = cur[c]
    BY <2>2, CountDoes
  <2> QED
    BY <2>1, <2>2, HotFrom
<1>3. InTxn(c, e)'
  <2>1. InTxn(c, e)
    BY <1>2 DEF Live
  <2>2. CASE Unlock(c) /\ e = cur[c]
    <3>1. jnl' = jnl /\ pc[c] = "unlock"
      BY <2>2 DEF Unlock, At, disk
    <3> QED
      BY <2>2, <3>1 DEF Inv, Phases, Finished
  <2>3. CASE Crash(c)
    <3>1. reads'[c] = {} /\ pc'[c] = "run"
      BY <2>3 DEF Crash, Gone
    <3> QED
      BY <3>1 DEF Passed
  <2> QED
    BY <2>1, <2>2, <2>3, InTxnGoes
<1>4. CASE Live(c, e) /\ jw[c][e].off # 0 /\ lock[c][e] = EXCLUSIVE
  <2>1. jw'[c][e].off # 0 /\ lock'[c][e] = EXCLUSIVE
    <3>1. ~Reserve(c, e)
      BY <1>4 DEF Reserve
    <3>2. Works(c, e) => jw'[c][e].off # 0
      BY WorksDoes DEF WorkDone
    <3>3. ASSUME SyncDb(c), e = cur[c]
          PROVE  jw'[c][e].off # 0
      <4>1. jw[c][e].off # 0 /\ jw'[c][e].off = jw[c][e].off
        BY <3>3, SyncDbDoes
      <4> QED
        BY <4>1
    <3> QED
      BY <1>3, <1>4, <3>1, <3>2, <3>3, TxnFileIs DEF TxnFile
  <2>2. ~Undone(c, e)'
    <3>1. Finished(c)'
      BY FinishedActs
    <3> QED
      BY <3>1 DEF Finished, Undone
  <2>3. CASE Committed(c)'
    <3>1. ~Committed(c)
      BY <1>4 DEF Live
    <3>2. CASE DeleteSuper(c)
      <4>1. SuperName(jnl[e]) = txn[c] /\ txn[c] # 0
        BY <1>4, <3>2, DeleteIs DEF Live
      <4>2. jnl' = jnl /\ supers' = supers \ {txn[c]}
        BY <3>2 DEF DeleteSuper
      <4>3. ~Counts(jnl'[e], supers')
        BY <4>1, <4>2 DEF Counts
      <4> QED
        BY <1>3, <2>3, <4>3
    <3>3. CASE Fin(c) /\ FinCommits(c)
      <4>1. Reserved(c) = {cur[c]}
        BY <3>3, CommitsIs
      <4>2. e = cur[c]
        BY <1>4, <4>1 DEF Live, InTxn, Reserved
      <4> QED
        BY <3>3, <4>2, FinDoes
    <3> QED
      BY <2>3, <3>1, <3>2, <3>3, CommitsNow
  <2> QED
    BY <1>3, <2>1, <2>2, <2>3 DEF Live
<1>5. CASE Committed(c) /\ InTxn(c, e) /\ ~Counts(jnl[e], supers)
  <2>1. ~Crash(c) /\ ~(Unlock(c) /\ e = cur[c])
    <3>1. Crash(c) => reads'[c] = {}
      BY DEF Crash, Gone
    <3>2. Unlock(c) => jnl' = jnl /\ pc[c] = "unlock"
      BY DEF Unlock, At, disk
    <3> QED
      BY <1>3, <3>1, <3>2 DEF InTxn, Inv, Phases, Finished
  <2>2. Committed(c)'
    <3>1. ~(Unlock(c) /\ Last(c))
      BY <1>5, <2>1 DEF Last, InTxn, Reserved
    <3> QED
      BY <1>5, <2>1, <3>1, CommittedGoes
  <2>3. jnl'[e] = jnl[e]
    <3>1. ~Works(c, e)
      BY <1>5, WorksDoes DEF WorkDone, Live
    <3>2. ~HotEmpty(c) /\ op[c] # "hot"
      BY <1>5 DEF Committed, HotEmpty, At
    <3>3. ~(e = cur[c] /\ Fin(c))
      BY FinDoes
    <3> QED
      BY <3>1, <3>2, <3>3, KindsAre DEF Kinds
  <2>4. ~DeleteSuper(c)
    BY <1>5 DEF Committed, DeleteSuper, At
  <2>5. ~Counts(jnl[e], supers')
    BY <1>5, <2>4, SupersMove
  <2> QED
    BY <1>3, <2>2, <2>3, <2>5
<1> QED
  BY <1>2, <1>4, <1>5

LEMMA StoresKept ==
  ASSUME Inv, NEW c \in Conns, Acts(c)
  PROVE  Stores'
<1>1. Quiet'
  BY QuietOthers, QuietActs DEF Quiet
<1> QED
  BY <1>1, SeenKept, HotFitsKept, OrigKeptKept, SettledKept DEF Stores

-----------------------------------------------------------------------------
(* Names of super-journals. *)

(* Where a step leads a connection that commits or rolls back.             *)
Leads(c) ==
  /\ txn'[c] # 0 /\ op[c] \in {"commit", "rollback"} /\ pc[c] \notin {"lock", "super", "run"}
       => op'[c] \in {"commit", "rollback"} /\ pc'[c] \notin {"lock", "super", "run"}
  /\ Preparing(c)' => Preparing(c) \/ pc[c] = "lock"
  /\ sup'[c] # 0 => PlaySync(c) \/ (sup'[c] = sup[c] /\ op'[c] = op[c] /\ cur'[c] = cur[c])

LEMMA LeadsIs ==
  ASSUME Inv, NEW c \in Conns, Acts(c)
  PROVE  Leads(c)
<1> USE DEF At, Go, local, Leads, Preparing
<1>1. ControlTypes(c) /\ Control(c) /\ Shapes
  BY ControlTyped DEF Inv, Base
<1>2. CASE HotExists(c)
  BY <1>1, <1>2 DEF HotExists, ControlTypes, Shapes, Control, Committing
<1>3. CASE HotReserved(c)
  BY <1>1, <1>3 DEF HotReserved, ControlTypes, Shapes, Control, Committing
<1>4. CASE HotEmpty(c)
  BY <1>1, <1>4 DEF HotEmpty, ControlTypes, Shapes, Control, Committing
<1>5. CASE HotByte(c)
  BY <1>1, <1>5 DEF HotByte, ControlTypes, Shapes, Control, Committing
<1>6. CASE HotLock(c)
  BY <1>1, <1>6 DEF HotLock, ControlTypes, Shapes, Control, Committing
<1>7. CASE HotOpen(c)
  BY <1>1, <1>7 DEF HotOpen, ControlTypes, Shapes, Control, Committing
<1>8. CASE PlayTruncate(c)
  BY <1>1, <1>8 DEF PlayTruncate, ControlTypes, Shapes, Control, Committing
<1>9. CASE PlayPage(c)
  BY <1>1, <1>9 DEF PlayPage, ControlTypes, Shapes, Control, Committing
<1>10. CASE PlaySync(c)
  BY <1>1, <1>10 DEF PlaySync, ControlTypes, Shapes, Control, Committing
<1>11. CASE Fin(c)
  BY <1>1, <1>11 DEF Fin, ControlTypes, Shapes, Control, Committing
<1>12. CASE FinSync(c)
  BY <1>1, <1>12 DEF FinSync, ControlTypes, Shapes, Control, Committing
<1>13. CASE Unlock(c)
  BY <1>1, <1>13 DEF Unlock, ControlTypes, Shapes, Control
<1>14. CASE DelSuper(c)
  <2>1. txn[c] # 0 => Reserved(c) # {}
    BY DEF Inv, Base, TxnKept, InTxn, Reserved
  <2> QED
    BY <1>1, <2>1, <1>14 DEF DelSuper, ControlTypes, Shapes, ghosts
<1>15. CASE NextFile(c)
  BY <1>1, <1>15 DEF NextFile, ControlTypes, Shapes, Control, Committing
<1>16. CASE Check(c)
  BY <1>1, <1>16 DEF Check, ControlTypes, Shapes, Control, Committing
<1>17. CASE CommitLock(c)
  BY <1>1, <1>17 DEF CommitLock, ControlTypes, Shapes, Control, Committing
<1>18. CASE WriteSuper(c)
  BY <1>1, <1>18 DEF WriteSuper, ControlTypes, Shapes, Control, Committing
<1>19. CASE Prepare(c)
  BY <1>1, <1>19 DEF Prepare, ControlTypes, Shapes, Control, Committing
<1>20. CASE SyncRecords(c)
  <2>1. pc'[c] = "count" \/ (pc'[c] = "run" /\ op[c] = "write")
    <3>1. PICK d : d = cur[c]
      OBVIOUS
    <3> QED
      BY <3>1, <1>20, SyncRecordsDoes
  <2> QED
    BY <1>1, <2>1, <1>20 DEF SyncRecords, ControlTypes, Shapes, Control
<1>21. CASE Count(c)
  BY <1>1, <1>21 DEF Count, ControlTypes, Shapes, Control, Committing
<1>22. CASE SyncCount(c)
  BY <1>1, <1>22 DEF SyncCount, ControlTypes, Shapes, Control, Committing
<1>23. CASE WritePage(c)
  BY <1>1, <1>23 DEF WritePage, ControlTypes, Shapes, Control, Committing
<1>24. CASE SyncDb(c)
  BY <1>1, <1>24 DEF SyncDb, ControlTypes, Shapes, Control, Committing
<1>25. CASE DeleteSuper(c)
  BY <1>1, <1>25 DEF DeleteSuper, ControlTypes, Shapes, Control, Committing
<1>26. CASE End(c)
  BY <1>1, <1>26 DEF End, ControlTypes, Shapes, Control, Committing
<1>27. CASE Commit(c)
  BY <1>1, <1>27 DEF Commit, ControlTypes, Shapes, Control, Committing
<1>28. CASE Rollback(c)
  BY <1>1, <1>28 DEF Rollback, ControlTypes, Shapes, Control, Committing
<1>29. CASE Crash(c)
  BY <1>1, <1>29 DEF Crash, Gone, ControlTypes, Shapes
<1>30. ASSUME NEW d \in Files, Open(c, d) PROVE Leads(c)
  BY <1>1, <1>30 DEF Open, ControlTypes, Shapes, Control, Committing
<1>31. ASSUME NEW d \in Files, Reserve(c, d) PROVE Leads(c)
  BY <1>1, <1>31 DEF Reserve, ControlTypes, Shapes, Control, Committing
<1>32. ASSUME NEW d \in Files, NEW p \in Pages, Write(c, d, p) PROVE Leads(c)
  BY <1>1, <1>32 DEF Write, ControlTypes, Shapes, Control, Committing
<1>33. ASSUME NEW d \in Files, NEW p \in Pages, Spill(c, d, p) PROVE Leads(c)
  BY <1>1, <1>33 DEF Spill, ControlTypes, Shapes, Control, Committing
<1> QED
  BY <1>2, <1>3, <1>4, <1>5, <1>6, <1>7, <1>8, <1>9, <1>10, <1>11, <1>12, <1>13, <1>14, <1>15,
     <1>16, <1>17, <1>18, <1>19, <1>20, <1>21, <1>22, <1>23, <1>24, <1>25, <1>26, <1>27, <1>28,
     <1>29, <1>30, <1>31, <1>32, <1>33 DEF Acts, Step

(* The name at the end of a journal goes, or a commit writes it there.     *)
LEMMA NameFrom ==
  ASSUME Inv, NEW c \in Conns, Acts(c), NEW e \in Files
  PROVE  \/ jnl'[e] = jnl[e]
         \/ SuperName(jnl'[e]) = 0
         \/ Works(c, e) /\ SuperName(jnl'[e]) = SuperName(jnl[e])
         \/ Prepare(c) /\ Works(c, e) /\ e = cur[c] /\ Several(c) /\ SuperName(jnl'[e]) = txn[c]
<1>1. CASE Works(c, e)
  <2>1. WorkDone(c, e)
    BY <1>1, WorksDoes
  <2>2. CASE Prepare(c) /\ e # cur[c]
    <3>1. jnl'[e] = jnl[e]
      BY <2>2, FileShapesOK DEF Prepare, FileShapes, Inv, Base
    <3> QED
      BY <3>1
  <2> QED
    BY <1>1, <2>1, <2>2 DEF WorkDone
<1>2. CASE e = cur[c] /\ HotEmpty(c)
  <2>1. jnl'[e] = jnl[e] \/ jnl'[e] = None
    BY <1>2, FileShapesOK DEF HotEmpty, FileShapes, Inv, Base
  <2> QED
    BY <2>1, NoCell
<1>3. CASE e = cur[c] /\ Fin(c)
  BY <1>3, FinDoes
<1>4. CASE op[c] = "hot" /\ (PlayTruncate(c) \/ PlayPage(c))
  BY <1>4 DEF PlayTruncate, PlayPage
<1> QED
  BY <1>1, <1>2, <1>3, <1>4, KindsAre DEF Kinds

(* A transaction that names one in a journal is the one that writes it.    *)
LEMMA NamesTyped ==
  ASSUME Inv, NEW e \in Files
  PROVE  /\ txns \in Nat /\ txns <= MaxTxn /\ MaxTxn \in Nat
         /\ SuperName(jnl[e]) \in 0 .. txns /\ SuperName(djnl[e]) \in 0 .. txns
         /\ supers \subseteq dsupers /\ dsupers \subseteq 1 .. txns
<1>1. txns \in 0 .. MaxTxn /\ MaxTxn \in Nat
  BY SettingIs DEF Inv, Base, TypeOK
<1>2. SuperName(jnl[e]) \in 0 .. txns
  BY <1>1 DEF Inv, Supered, Names
<1> QED
  BY <1>1, <1>2 DEF Inv, Supered, DiskNames

LEMMA NextTxn ==
  ASSUME Inv, NEW c \in Conns, Acts(c), setting' = setting
  PROVE  /\ txns \in Nat /\ txns' \in Nat /\ txns <= txns'
         /\ txn[c] \in Nat /\ txn[c] <= txns
         /\ txn'[c] = txn[c] \/ txn'[c] = 0 \/ (txn'[c] = txns + 1 /\ txns' = txns + 1)
<1>1. TxnMoves(c) /\ TxnTypes(c)
  BY TxnActs, TxnTyped DEF Inv, Base, Phases
<1> QED
  BY <1>1 DEF TxnMoves, TxnTypes, Inv, Base, TxnKept

(* What a commit that has several files has when it names its super-journal. *)
LEMMA NamesNow ==
  ASSUME Inv, NEW c \in Conns, Prepare(c), Several(c), NEW e, e = cur[c]
  PROVE  /\ e \in Files /\ InTxn(c, e) /\ txn[c] # 0 /\ txn[c] \in 1 .. txns
         /\ txn[c] \in supers /\ e \in children[txn[c]]
<1>1. /\ e \in Files /\ InTxn(c, e) /\ lock[c][e] >= RESERVED /\ pc[c] = "prepare" /\ Preparing(c)
  BY PrepareIs, PrepareDoes DEF Prepare, At, InTxn
<1>2. txn[c] \in supers /\ children[txn[c]] = Reserved(c)
  BY <1>1 DEF Inv, Phases, Stage
<1>3. txn[c] # 0
  BY <1>1 DEF Inv, Base, TxnKept
<1>4. txn[c] \in 1 .. txns
  BY <1>1, <1>2, NamesTyped
<1> QED
  BY <1>1, <1>2, <1>3, <1>4 DEF Reserved
LEMMA SupersFrom ==
  ASSUME Inv, NEW c \in Conns, Acts(c), NEW e \in Files, SuperName(jnl[e]) # 0
  PROVE  SuperName(jnl[e]) \in supers' <=> SuperName(jnl[e]) \in dsupers'
<1> DEFINE t == SuperName(jnl[e])
<1>1. t \in supers <=> t \in dsupers
  BY DEF Inv, Supered, Names
<1>2. CASE UNCHANGED << supers, dsupers, children >>
  BY <1>1, <1>2
<1>3. CASE WriteSuper(c)
  BY <1>1, <1>3 DEF WriteSuper
<1>4. CASE DelSuper(c)
  <2>1. supers' \subseteq supers /\ dsupers' = dsupers /\ (t \in supers => t \in supers')
    BY <1>4, DelSuperDoes
  <2> QED
    BY <1>1, <2>1
<1>5. CASE DeleteSuper(c)
  BY <1>1, <1>5 DEF DeleteSuper
<1> QED
  BY <1>2, <1>3, <1>4, <1>5, WhoMovesSupers

(* It is there, or the journal is hot.                                     *)
LEMMA NamedHot ==
  ASSUME Inv, NEW c \in Conns, Acts(c), NEW e \in Files, SuperName(jnl'[e]) # 0,
         SuperName(jnl'[e]) = SuperName(jnl[e]), jnl'[e] = jnl[e] \/ Works(c, e)
  PROVE  SuperName(jnl'[e]) \in supers' \/ IsHdr(jnl'[e], 1)
<1> DEFINE t == SuperName(jnl[e])
<1>1. t \in supers \/ IsHdr(jnl[e], 1)
  BY DEF Inv, Supered, Names
<1>2. CASE Works(c, e)
  BY <1>2, WorksStore DEF Counts
<1>3. CASE jnl'[e] = jnl[e] /\ IsHdr(jnl[e], 1)
  BY <1>3
<1>4. CASE jnl'[e] = jnl[e] /\ t \in supers
  <2>1. CASE DeleteSuper(c) /\ t = txn[c]
    <3>1. pc[c] = "commit" /\ InTxn(c, e)
      BY <2>1 DEF DeleteSuper, At, Inv, Supered, NamesOwned
    <3>2. Live(c, e) /\ jw[c][e].off # 0
      BY <2>1, <3>1, DeleteIs
    <3>3. jw[c][e].done
      <4>1. op[c] = "commit" /\ ~Committed(c)
        BY <3>1 DEF Inv, Base, Control, Committed
      <4> QED
        BY <3>1, <4>1 DEF Inv, Phases, Stage
    <3>4. jw[c][e].mod
      <4>1. DraftKept(c, e) /\ op[c] # "rollback"
        BY <3>1, <3>2, LiveIs DEF Inv, Base, Control
      <4> QED
        BY <3>2, <3>3, <4>1 DEF DraftKept
    <3> QED
      BY <1>4, <3>2, <3>4, ModIs
  <2>2. CASE ~(DeleteSuper(c) /\ t = txn[c])
    <3>1. t \in supers' \cup {0} <=> t \in supers \cup {0}
      BY <2>2, SupersMove
    <3> QED
      BY <1>4, <3>1
  <2> QED
    BY <2>1, <2>2
<1> QED
  BY <1>1, <1>2, <1>3, <1>4

LEMMA NamesKept ==
  ASSUME Inv, NEW c \in Conns, Acts(c), setting' = setting, NEW e \in Files
  PROVE  Names(e)'
<1> DEFINE t == SuperName(jnl[e])  u == SuperName(jnl'[e])
<1>1. txns \in Nat /\ txns' \in Nat /\ txns <= txns'
  BY NextTxn
<1>2. CASE u # 0 /\ u = t /\ (jnl'[e] = jnl[e] \/ Works(c, e))
  <2>1. t \in 1 .. txns /\ e \in children[t]
    BY <1>2 DEF Inv, Supered, Names
  <2>2. t \in 1 .. txns'
    BY <1>1, <2>1
  <2>3. e \in children'[t]
    <3>1. CASE WriteSuper(c)
      <4>1. pc[c] = "super" /\ children' = [children EXCEPT ![txn[c]] = Reserved(c)]
        BY <3>1 DEF WriteSuper, At
      <4>2. txn[c] # 0
        <5>1. InTxn(c, cur[c]) /\ cur[c] \in Files
          BY <4>1, ControlTyped DEF Inv, Base, Control, InTxn, ControlTypes
        <5> QED
          BY <5>1 DEF Inv, Base, TxnKept
      <4>3. t # txn[c]
        BY <4>1, <4>2 DEF Inv, Supered, NamesOwned
      <4>4. DOMAIN children = Txns
        BY DEF Inv, Base, TypeOK
      <4> QED
        BY <2>1, <4>1, <4>3, <4>4
    <3>2. CASE ~WriteSuper(c)
      <4>1. children' = children
        BY <3>2, WhoMovesSupers DEF DelSuper, DeleteSuper, ghosts
      <4> QED
        BY <2>1, <4>1
    <3> QED
      BY <3>1, <3>2
  <2>4. u \in supers' \/ IsHdr(jnl'[e], 1)
    BY <1>2, NamedHot
  <2>5. u \in supers' <=> u \in dsupers'
    BY <1>2, SupersFrom
  <2> QED
    BY <1>2, <2>2, <2>3, <2>4, <2>5 DEF Names
<1>3. CASE Prepare(c) /\ e = cur[c] /\ Several(c) /\ u = txn[c]
  <2>1. /\ txn[c] # 0 /\ txn[c] \in 1 .. txns /\ txn[c] \in supers /\ e \in children[txn[c]]
    BY <1>3, NamesNow
  <2>2. supers \subseteq dsupers
    BY NamesTyped
  <2>3. supers' = supers /\ dsupers' = dsupers /\ txns' = txns /\ children' = children
    BY <1>3 DEF Prepare, ghosts
  <2> QED
    BY <1>3, <2>1, <2>2, <2>3 DEF Names
<1>4. CASE u = 0
  BY <1>4 DEF Names
<1> QED
  BY <1>2, <1>3, <1>4, NameFrom

(* Another transaction than that which has written it has not its name.    *)
LEMMA OldName ==
  ASSUME Inv, NEW c \in Conns, Acts(c), NEW o \in Conns, o # c, txn[o] # 0, NEW e \in Files,
         NEW j \in {jnl'[e], djnl'[e]}, SuperName(j) = txn[o]
  PROVE  SuperName(jnl[e]) = txn[o] \/ (SuperName(djnl[e]) = txn[o] /\ j = djnl'[e])
<1>1. SuperName(jnl'[e]) = txn[o] => SuperName(jnl[e]) = txn[o]
  <2>1. txn[c] # txn[o]
    BY DEF Inv, Base, TxnKept
  <2> QED
    BY <2>1, NameFrom
<1>2. j = jnl'[e] \/ (j = djnl[e] /\ j = djnl'[e]) \/ j = jnl[e] \/ j = None
  <2>1. djnl'[e] \in {djnl[e], jnl[e], jnl'[e], None}
    BY DiskMovesIs DEF DiskMoves
  <2> QED
    BY <2>1
<1> QED
  BY <1>1, <1>2, NoCell

LEMMA NamesOwnedOthers ==
  ASSUME Inv, NEW c \in Conns, Acts(c), NEW o \in Conns, o # c, NEW e \in Files
  PROVE  NamesOwned(o, e)'
<1>1. Alike(o) /\ NamesOwned(o, e)
  BY Others DEF Inv, Base, Supered
<1>2. ASSUME txn'[o] # 0, SuperName(jnl'[e]) = txn'[o]
      PROVE  /\ InTxn(o, e)' /\ jw'[o][e].off # 0
             /\ op'[o] \in {"commit", "rollback"} /\ pc'[o] \notin {"lock", "super", "run"}
  <2>1. SuperName(jnl[e]) = txn[o]
    <3>1. CASE SuperName(jnl[e]) = txn[o]
      BY <3>1
    <3>2. CASE SuperName(jnl[e]) # txn[o]
      BY <1>1, <1>2, <3>2, NameFrom DEF Alike, Inv, Base, TxnKept
    <3> QED
      BY <3>1, <3>2
  <2> QED
    BY <1>1, <1>2, <2>1 DEF Alike, NamesOwned, InTxn
<1>3. ASSUME txn'[o] # 0, SuperName(djnl'[e]) = txn'[o]
      PROVE  /\ op'[o] \in {"commit", "rollback"} /\ pc'[o] \notin {"lock", "super", "run"}
             /\ Preparing(o)' => InTxn(o, e)'
  <2>1. SuperName(jnl[e]) = txn[o] \/ SuperName(djnl[e]) = txn[o]
    <3>1. txn[o] # 0 /\ SuperName(djnl'[e]) = txn[o]
      BY <1>1, <1>3 DEF Alike
    <3> QED
      BY <3>1, OldName
  <2> QED
    BY <1>1, <1>3, <2>1 DEF Alike, NamesOwned, InTxn, Preparing
<1> QED
  BY <1>2, <1>3 DEF NamesOwned

(* A transaction that is over is in no file.                               *)
LEMMA TxnIn ==
  ASSUME Inv, NEW c \in Conns, Acts(c), NEW e \in Files, InTxn(c, e), txn'[c] # 0,
         SuperName(jnl[e]) = txn[c]
  PROVE  InTxn(c, e)'
<1>1. ~(Unlock(c) /\ e = cur[c])
  <2> SUFFICES ASSUME Unlock(c), e = cur[c] PROVE FALSE
    OBVIOUS
  <2>1. pc[c] = "unlock"
    BY DEF Unlock, At
  <2>2. txn[c] # 0
    BY DEF Inv, Base, TxnKept
  <2> QED
    BY <2>1, <2>2 DEF Inv, Phases, Finished
<1>2. ~Crash(c)
  BY DEF Crash, Gone
<1> QED
  BY <1>1, <1>2, InTxnGoes

LEMMA NamesOwnedActs ==
  ASSUME Inv, NEW c \in Conns, Acts(c), setting' = setting, NEW e \in Files
  PROVE  NamesOwned(c, e)'
<1> SUFFICES ASSUME txn'[c] # 0 PROVE NamesOwned(c, e)'
  BY DEF NamesOwned
<1>1. NamesOwned(c, e) /\ Leads(c)
  BY LeadsIs DEF Inv, Supered
<1>2. CASE txn'[c] = txns + 1 /\ txns' = txns + 1
  <2>1. /\ SuperName(jnl[e]) \in 0 .. txns /\ SuperName(djnl[e]) \in 0 .. txns /\ txns \in Nat
        /\ txn[c] \in Nat /\ txn[c] <= txns
    BY NamesTyped, NextTxn
  <2>2. SuperName(jnl'[e]) \in 0 .. txns
    BY <2>1, NameFrom
  <2>3. djnl'[e] \in {djnl[e], jnl[e], jnl'[e], None}
    BY DiskMovesIs DEF DiskMoves
  <2>4. SuperName(djnl'[e]) \in 0 .. txns
    BY <2>1, <2>2, <2>3, NoCell
  <2> QED
    BY <1>2, <2>1, <2>2, <2>4 DEF NamesOwned
<1>3. CASE txn'[c] = txn[c]
  <2>1. ASSUME SuperName(jnl[e]) = txn[c]
        PROVE  /\ op'[c] \in {"commit", "rollback"} /\ pc'[c] \notin {"lock", "super", "run"}
               /\ InTxn(c, e)'
    <3>1. op[c] \in {"commit", "rollback"} /\ pc[c] \notin {"lock", "super", "run"} /\ InTxn(c, e)
      BY <1>1, <1>3, <2>1 DEF NamesOwned
    <3> QED
      BY <1>1, <2>1, <3>1, TxnIn DEF Leads
  <2>2. ASSUME SuperName(djnl[e]) = txn[c]
        PROVE  /\ op'[c] \in {"commit", "rollback"} /\ pc'[c] \notin {"lock", "super", "run"}
               /\ Preparing(c)' => InTxn(c, e)'
    <3>1. op[c] \in {"commit", "rollback"} /\ pc[c] \notin {"lock", "super", "run"}
      BY <1>1, <1>3, <2>2 DEF NamesOwned
    <3>2. ASSUME Preparing(c)' PROVE InTxn(c, e)'
      <4>1. Preparing(c) /\ pc'[c] \notin {"run", "next", "delsuper"}
        BY <1>1, <3>1, <3>2 DEF Leads, Preparing
      <4>2. InTxn(c, e)
        BY <1>1, <1>3, <2>2, <4>1 DEF NamesOwned
      <4>3. ~Unlock(c) /\ ~Crash(c)
        BY <4>1 DEF Preparing, Unlock, At, Crash, Gone
      <4> QED
        BY <4>2, <4>3, InTxnGoes
    <3> QED
      BY <1>1, <3>1, <3>2 DEF Leads
  <2>3. ASSUME SuperName(jnl'[e]) = txn[c]
        PROVE  /\ op'[c] \in {"commit", "rollback"} /\ pc'[c] \notin {"lock", "super", "run"}
               /\ InTxn(c, e)' /\ jw'[c][e].off # 0
    <3>1. CASE Prepare(c) /\ e = cur[c]
      <4>1. /\ Live(c, e) /\ jw'[c][e].off # 0
        BY <3>1, PrepareDoes
      <4>2. lock' = lock /\ reads' = reads /\ op' = op /\ pc' = [pc EXCEPT ![c] = "sync"]
        BY <3>1 DEF Prepare, Go
      <4>3. op[c] = "commit"
        BY <3>1, PrepareIs DEF Prepare, At
      <4>4. pc'[c] = "sync"
        BY <4>2, ControlTyped DEF Inv, Shapes
      <4>5. InTxn(c, e)'
        BY <4>1, <4>2 DEF Live, InTxn
      <4> QED
        BY <4>1, <4>2, <4>3, <4>4, <4>5
    <3>2. CASE ~(Prepare(c) /\ e = cur[c])
      <4>1. SuperName(jnl[e]) = txn[c] /\ txn[c] # 0
        BY <1>3, <2>3, <3>2, NameFrom
      <4>2. jw[c][e].off # 0 /\ InTxn(c, e)
        BY <1>1, <4>1 DEF NamesOwned
      <4>3. pc[c] # "run"
        BY <1>1, <4>1 DEF NamesOwned
      <4>4. ~Reserve(c, e)
        BY <4>3 DEF Reserve, At
      <4>5. Works(c, e) => jw'[c][e].off # 0
        BY WorksDoes DEF WorkDone
      <4>6. ASSUME SyncDb(c), e = cur[c]
            PROVE  jw'[c][e].off # 0
        <5>1. jw[c][e].off # 0 /\ jw'[c][e].off = jw[c][e].off
          BY <4>6, SyncDbDoes
        <5> QED
          BY <5>1
      <4>7. InTxn(c, e)'
        BY <2>1, <4>1
      <4>8. jw'[c][e].off # 0
        BY <4>2, <4>4, <4>5, <4>6, <4>7, TxnFileIs DEF TxnFile
      <4> QED
        BY <2>1, <4>1, <4>7, <4>8
    <3> QED
      BY <3>1, <3>2
  <2>4. djnl'[e] \in {djnl[e], jnl[e], jnl'[e], None}
    BY DiskMovesIs DEF DiskMoves
  <2>5. SuperName(djnl'[e]) = txn[c] =>
          SuperName(djnl[e]) = txn[c] \/ SuperName(jnl[e]) = txn[c] \/ SuperName(jnl'[e]) = txn[c]
    BY <1>3, <2>4, NoCell
  <2> QED
    BY <1>3, <2>1, <2>2, <2>3, <2>5 DEF NamesOwned
<1> QED
  BY <1>2, <1>3, NextTxn

LEMMA SupersKeptKept ==
  ASSUME Inv, NEW c \in Conns, Acts(c), setting' = setting, NEW o \in Conns
  PROVE  SupersKept(o)'
<1> SUFFICES ASSUME sup'[o] # 0 PROVE SupersKept(o)'
  BY DEF SupersKept
<1>1. txns \in Nat /\ txns' \in Nat /\ txns <= txns' /\ Leads(c)
  BY NextTxn, LeadsIs
<1>2. \A q \in Conns : q # c => Alike(q)
  BY Others DEF Inv, Base
<1>3. CASE o = c /\ PlaySync(c)
  <2>1. PICK e : e = cur[c]
    OBVIOUS
  <2>2. /\ pc[c] = "play" /\ op[c] \in {"hot", "rollback"} /\ Shapes /\ e \in Files
    BY <1>3, <2>1, ControlTyped DEF PlaySync, At, Inv, Base, Control, Recovering, ControlTypes, InTxn
  <2>3. /\ sup'[c] = SuperName(jnl[e]) /\ sup'[c] # 0 /\ pc'[c] = "fin"
        /\ op' = op /\ txn' = txn /\ txns' = txns
    BY <1>3, <2>1, <2>2 DEF PlaySync, Go, Shapes, Named, ghosts
  <2>4. sup'[c] \in 1 .. txns'
    BY <2>2, <2>3, <1>3 DEF PlaySync, Inv, Supered, Names
  <2>5. ASSUME NEW q \in Conns, txn'[q] = sup'[c] PROVE q = c /\ op'[q] = "rollback"
    <3>1. InTxn(q, e) /\ op[q] \in {"commit", "rollback"}
      BY <2>2, <2>3, <2>5 DEF Inv, Supered, NamesOwned
    <3>2. CASE op[c] = "hot"
      <4>1. e \notin reads[c] /\ \A x \in Conns : x # c => lock[x][e] = NONE
        BY <2>1, <2>2, <3>2, HotIs
      <4> QED
        BY <3>1, <4>1 DEF InTxn, NONE, RESERVED
    <3>3. CASE op[c] = "rollback"
      <4>1. InTxn(c, e)
        BY <2>1, <2>2, <3>3, UndoIs
      <4>2. lock[c][e] \in 0 .. 4 /\ lock[q][e] \in 0 .. 4
        BY <2>2, DataTypes DEF Inv, Base
      <4> QED
        BY <2>2, <2>3, <3>1, <3>3, <4>1, <4>2 DEF InTxn, RESERVED, SHARED, Inv, Base, Excluded
    <3> QED
      BY <2>2, <3>2, <3>3
  <2> QED
    BY <1>3, <2>3, <2>4, <2>5 DEF SupersKept
<1>4. CASE sup'[o] = sup[o] /\ op'[o] = op[o] /\ cur'[o] = cur[o]
  <2>1. /\ sup[o] \in 1 .. txns
        /\ \A q \in Conns : txn[q] = sup[o] => q = o /\ op[q] = "rollback"
        /\ pc[o] \in {"finsync", "unlock", "delsuper"} => SuperName(jnl[cur[o]]) # sup[o]
    BY <1>4 DEF Inv, Supered, SupersKept
  <2>2. sup[o] \in 1 .. txns'
    BY <1>1, <2>1
  <2>3. ASSUME NEW q \in Conns, txn'[q] = sup[o] PROVE q = o /\ op'[q] = "rollback"
    <3>1. txn'[q] = txn[q]
      <4>1. CASE q = c
        BY <1>1, <2>1, <2>3, <4>1, NextTxn
      <4>2. CASE q # c
        BY <1>2, <4>2 DEF Alike
      <4> QED
        BY <4>1, <4>2
    <3> QED
      BY <1>4, <2>1, <2>3, <3>1
  <2>4. ASSUME pc'[o] \in {"finsync", "unlock", "delsuper"} PROVE SuperName(jnl'[cur[o]]) # sup[o]
    <3>1. Control(o) /\ sup[o] # 0
      BY <1>4 DEF Inv, Base
    <3>2. pc[o] \in {"fin", "finsync", "unlock", "delsuper"} /\ op[o] \in {"hot", "rollback"}
      BY <3>1 DEF Control
    <3>3. PICK e \in Files : e = cur[o]
      BY <3>1, <3>2, ControlTyped DEF Inv, Control, ControlTypes, Recovering, InTxn
    <3>4. CASE o = c
      <4>1. Fin(c) \/ (UNCHANGED jnl /\ pc[c] \in {"finsync", "unlock", "delsuper"})
        <5>1. Fin(c) \/ FinSync(c) \/ NextFile(c) \/ Unlock(c)
          BY <2>4, <3>4, EntersIs DEF Enters
        <5> QED
          BY <3>2, <3>4, <5>1 DEF FinSync, NextFile, Unlock, At, disk
      <4>2. CASE Fin(c)
        <5>1. SuperName(jnl'[e]) = 0
          BY <3>3, <3>4, <4>2, FinDoes
        <5> QED
          BY <3>1, <3>3, <5>1
      <4> QED
        BY <2>1, <3>4, <4>1, <4>2
    <3>5. CASE o # c
      <4>1. pc'[o] = pc[o]
        BY <1>2, <3>5 DEF Alike
      <4>2. SuperName(jnl[e]) # sup[o]
        BY <2>1, <2>4, <3>3, <4>1
      <4>3. txn[c] # sup[o]
        BY <2>1, <3>5
      <4> QED
        BY <3>1, <3>3, <4>2, <4>3, NameFrom
    <3> QED
      BY <3>4, <3>5
  <2> QED
    BY <1>4, <2>2, <2>3, <2>4 DEF SupersKept
<1> QED
  BY <1>1, <1>2, <1>3, <1>4 DEF Leads, Alike

LEMMA DiskNamesKept ==
  ASSUME Inv, NEW c \in Conns, Acts(c), setting' = setting
  PROVE  DiskNames'
<1>1. txns \in Nat /\ txns' \in Nat /\ txns <= txns' /\ supers \subseteq dsupers /\ dsupers \subseteq 1 .. txns
  BY NextTxn DEF Inv, Supered, DiskNames
<1>2. supers' \subseteq dsupers' /\ dsupers' \subseteq 1 .. txns'
  <2>1. CASE UNCHANGED << supers, dsupers, children >>
    BY <1>1, <2>1
  <2>2. CASE WriteSuper(c)
    <3>1. InTxn(c, cur[c]) /\ cur[c] \in Files
      BY <2>2, ControlTyped DEF WriteSuper, At, Inv, Base, Control, InTxn, ControlTypes
    <3>2. txn[c] # 0
      BY <3>1 DEF Inv, Base, TxnKept
    <3>3. txn[c] \in 1 .. txns
      BY <1>1, <3>2, NextTxn
    <3> QED
      BY <1>1, <2>2, <3>3 DEF WriteSuper
  <2>3. CASE DelSuper(c)
    <3>1. supers' \subseteq supers /\ dsupers' = dsupers
      BY <2>3, DelSuperDoes
    <3> QED
      BY <1>1, <3>1
  <2>4. CASE DeleteSuper(c)
    BY <1>1, <2>4 DEF DeleteSuper
  <2> QED
    BY <2>1, <2>2, <2>3, <2>4, WhoMovesSupers
<1>3. ASSUME NEW e \in Files PROVE SuperName(djnl'[e]) \in 0 .. txns'
  <2>1. SuperName(jnl[e]) \in 0 .. txns' /\ SuperName(djnl[e]) \in 0 .. txns'
    BY <1>1, NamesTyped
  <2>2. SuperName(jnl'[e]) \in 0 .. txns'
    BY <1>1, <2>1, NameFrom, NextTxn
  <2>3. djnl'[e] \in {djnl[e], jnl[e], jnl'[e], None}
    BY DiskMovesIs DEF DiskMoves
  <2> QED
    BY <1>1, <2>1, <2>2, <2>3, NoCell
<1> QED
  BY <1>2, <1>3 DEF DiskNames
-----------------------------------------------------------------------------
(* With one file no super-journal is ever written. *)

LEMMA OneNotSeveral ==
  ASSUME Inv, OneFile, NEW c \in Conns
  PROVE  ~Several(c)
<1>1. Reserved(c) \subseteq setting.files
  BY DEF Reserved, Inv, Base, LocksHeld, RESERVED, NONE
<1>2. setting.files \subseteq Files /\ IsFiniteSet(Files)
  BY SettingIs, JournalAssumption DEF Inv, Base, Setting
<1>3. IsFiniteSet(setting.files)
  BY <1>2, FS_Subset
<1>4. IsFiniteSet(Reserved(c)) /\ Cardinality(Reserved(c)) <= Cardinality(setting.files)
  BY <1>1, <1>3, FS_Subset
<1>5. Cardinality(Reserved(c)) \in Nat
  BY <1>4, FS_CardinalityType
<1> QED
  BY <1>4, <1>5 DEF Several, OneFile

LEMMA PlainPut ==
  ASSUME NEW j \in Seq(JournalCell), Plain(j), NEW i \in Nat \ {0}, NEW x, x.k # "super"
  PROVE  Plain(Put(j, i, x, Zero))
<1> DEFINE n == IF Len(j) <= i THEN i ELSE Len(j)
           g == [k \in 1 .. n |-> IF k = i THEN x ELSE IF k <= Len(j) THEN j[k] ELSE Zero]
<1>1. Len(j) \in Nat /\ n \in Nat /\ DOMAIN j = 1 .. Len(j)
  OBVIOUS
<1>2. Put(j, i, x, Zero) = g
  BY PutIs
<1>3. \A k \in 1 .. Len(j) : j[k].k # "super"
  <2>1. j # None
    BY JournalAssumption
  <2> QED
    BY <1>1, <2>1 DEF Plain
<1>4. \A k \in 1 .. n : g[k].k # "super"
  <2> SUFFICES ASSUME NEW k \in 1 .. n PROVE g[k].k # "super"
    OBVIOUS
  <2>1. g[k] = IF k = i THEN x ELSE IF k <= Len(j) THEN j[k] ELSE Zero
    OBVIOUS
  <2>2. k <= Len(j) => k \in 1 .. Len(j)
    BY <1>1
  <2> HIDE DEF g
  <2> QED
    BY <1>3, <2>1, <2>2, ZeroIs
<1>5. DOMAIN g = 1 .. n
  OBVIOUS
<1> HIDE DEF g, n
<1> QED
  BY <1>2, <1>4, <1>5 DEF Plain

LEMMA PlainJournaled ==
  ASSUME TypeOK, NEW c \in Conns, NEW d \in Files, NEW p \in Nat \ {0}, Plain(jnl[d]),
         jw[c][d].off # 0 => jnl[d] \in Seq(JournalCell)
  PROVE  Plain(Journaled(c, d, p)[1])
<1>1. PICK w : w = jw[c][d]
  OBVIOUS
<1>2. PICK h, u : h = Opened(c, d)[1] /\ u = Opened(c, d)[2]
  OBVIOUS
<1>3. w \in JournalWriter /\ txn[c] \in Nat /\ jnl[d] \in Seq(JournalCell) \cup {None}
  BY <1>1, DataTypes
<1>4. h \in Seq(JournalCell) /\ u \in JournalWriter /\ Plain(h)
  <2>1. CASE w.off # 0
    <3>1. h = jnl[d] /\ u = w
      BY <1>1, <1>2, <2>1 DEF Opened
    <3> QED
      BY <1>1, <1>3, <2>1, <3>1
  <2>2. CASE w.off = 0
    <3>1. PICK j : j = IF jnl[d] = None THEN << >> ELSE jnl[d]
      OBVIOUS
    <3>2. PICK t, o \in Nat : t = txn[c] /\ o = w.orig
      BY <1>3 DEF JournalWriter
    <3>3. h = Put(j, 1, Hdr(t, 1, o), Zero) /\ u = [w EXCEPT !.off = 1, !.hdr = 1]
      BY <1>1, <1>2, <2>2, <3>1, <3>2 DEF Opened
    <3>4. j \in Seq(JournalCell) /\ Plain(j)
      BY <1>3, <3>1 DEF Plain
    <3>5. Hdr(t, 1, o) \in JournalCell /\ Hdr(t, 1, o).k = "hdr"
      BY <3>2, HdrIs
    <3>6. h \in Seq(JournalCell)
      BY <3>3, <3>4, <3>5, PutCell
    <3>7. Plain(h)
      <4>1. PICK x : x = Hdr(t, 1, o)
        OBVIOUS
      <4>2. x.k # "super"
        BY <3>5, <4>1
      <4>3. Plain(Put(j, 1, x, Zero))
        BY <3>4, <4>2, PlainPut
      <4> QED
        BY <3>3, <4>1, <4>3
    <3>8. u \in JournalWriter
      BY <1>3, <3>3 DEF JournalWriter
    <3> QED
      BY <3>6, <3>7, <3>8
  <2> QED
    BY <2>1, <2>2
<1>5. PICK x : x = Rec(h[u.hdr].by, p, cache[c][d][p])
  OBVIOUS
<1>6. Journaled(c, d, p)[1] = h \/ Journaled(c, d, p)[1] = Put(h, u.off + 1, x, Zero)
  BY <1>2, <1>5 DEF Journaled
<1>7. x.k # "super" /\ u.off + 1 \in Nat \ {0}
  <2>1. x.k = "rec"
    BY <1>5 DEF Rec
  <2> QED
    BY <1>4, <2>1 DEF JournalWriter
<1>8. Plain(Put(h, u.off + 1, x, Zero))
  BY <1>4, <1>7, PlainPut
<1> QED
  BY <1>4, <1>6, <1>8

LEMMA PlainWorks ==
  ASSUME Inv, OneFile, NEW c \in Conns, NEW e \in Files, Works(c, e), Plain(jnl[e])
  PROVE  Plain(jnl'[e])
<1>1. TypeOK /\ FileShapes /\ ~Several(c)
  BY FileShapesOK, OneNotSeveral DEF Inv, Base
<1>2. /\ Live(c, e) /\ jw[c][e] \in JournalWriter /\ (jw[c][e].off # 0 => jnl[e] \in Seq(JournalCell))
  BY WorksDoes, LiveIs DEF WorkDone
<1>3. CASE \E p \in Pages : Write(c, e, p)
  <2>1. PICK p \in Pages : Write(c, e, p)
    BY <1>3
  <2>2. p \in Nat \ {0}
    BY DEF Pages
  <2>3. jnl'[e] = Journaled(c, e, p)[1]
    BY <1>1, <2>1 DEF Write, FileShapes
  <2> QED
    BY <1>1, <1>2, <2>2, <2>3, PlainJournaled
<1>4. CASE e = cur[c] /\ Prepare(c)
  <2>1. jnl'[e] = Journaled(c, e, 1)[1]
    BY <1>1, <1>4 DEF Prepare, FileShapes, Several
  <2> QED
    BY <1>1, <1>2, <2>1, PlainJournaled
<1>5. CASE e = cur[c] /\ SyncRecords(c)
  <2>1. jw[c][e].off # 0
    BY <1>5, SyncRecordsDoes
  <2>2. jnl'[e] \in {jnl[e], SpoilNext(jnl[e], jw[c][e].off + 1)}
    BY <1>1, <1>5 DEF SyncRecords, FileShapes
  <2>3. PICK i \in Nat \ {0} : i = jw[c][e].off + 1
    BY <1>2 DEF JournalWriter
  <2>4. Plain(Put(jnl[e], i, Zero, Zero))
    BY <1>2, <2>1, PlainPut, ZeroIs
  <2> QED
    BY <2>2, <2>3, <2>4 DEF SpoilNext
<1>6. CASE e = cur[c] /\ Count(c)
  <2>1. jw[c][e].off # 0 /\ jnl[e] \in Seq(JournalCell)
    BY <1>2, <1>6, CountDoes
  <2>2. PICK h \in Nat : h = jw[c][e].hdr
    BY <1>2 DEF JournalWriter
  <2>3. jnl'[e] = [jnl[e] EXCEPT ![h] = [jnl[e][h] EXCEPT !.n = jw[c][e].n, !.magic = TRUE]]
    BY <1>1, <1>6, <2>2 DEF Count, FileShapes
  <2>4. DOMAIN jnl'[e] = DOMAIN jnl[e]
    BY <2>3
  <2>5. jnl[e] # None
    BY <2>1, JournalAssumption
  <2>6. \A k \in DOMAIN jnl[e] : jnl[e][k].k # "super"
    BY <2>5 DEF Plain
  <2>7. \A k \in DOMAIN jnl[e] : jnl'[e][k].k = jnl[e][k].k
    <3> SUFFICES ASSUME NEW k \in DOMAIN jnl[e] PROVE jnl'[e][k].k = jnl[e][k].k
      OBVIOUS
    <3>1. CASE k # h
      BY <2>3, <3>1
    <3>2. CASE k = h
      <4>1. jnl'[e][k] = [jnl[e][k] EXCEPT !.n = jw[c][e].n, !.magic = TRUE]
        BY <2>3, <3>2
      <4> QED
        BY <4>1
    <3> QED
      BY <3>1, <3>2
  <2> QED
    BY <2>4, <2>6, <2>7 DEF Plain
<1>7. CASE e = cur[c] /\ SyncCount(c)
  <2>1. jw[c][e].off # 0 /\ jnl[e] \in Seq(JournalCell)
    BY <1>2, <1>7, SyncCountDoes
  <2>2. PICK i \in Nat \ {0} : i = jw[c][e].off + 1
    BY <1>2 DEF JournalWriter
  <2>3. PICK x : x = Hdr(txn[c], i, jw[c][e].orig)
    OBVIOUS
  <2>4. jnl'[e] = jnl[e] \/ jnl'[e] = Put(jnl[e], i, x, Zero)
    BY <1>1, <1>7, <2>2, <2>3 DEF SyncCount, FileShapes
  <2>5. x.k # "super"
    BY <2>3 DEF Hdr
  <2>6. Plain(Put(jnl[e], i, x, Zero))
    BY <2>1, <2>5, PlainPut
  <2> QED
    BY <2>4, <2>6
<1>8. CASE WritePage(c) \/ PlayTruncate(c) \/ PlayPage(c)
  BY <1>8 DEF WritePage, PlayTruncate, PlayPage
<1> QED
  BY <1>3, <1>4, <1>5, <1>6, <1>7, <1>8 DEF Works

LEMMA OneFileKept ==
  ASSUME Inv, NEW c \in Conns, Acts(c), setting' = setting
  PROVE  OneFileNoSupers'
<1> SUFFICES ASSUME OneFile
             PROVE  supers' = {} /\ dsupers' = {} /\ \A e \in Files : Plain(jnl'[e]) /\ Plain(djnl'[e])
  BY DEF OneFileNoSupers, OneFile
<1>1. supers = {} /\ dsupers = {} /\ \A e \in Files : Plain(jnl[e]) /\ Plain(djnl[e])
  BY DEF Inv, Supered, OneFileNoSupers
<1>2. supers' = {} /\ dsupers' = {}
  <2>1. ~WriteSuper(c)
    <3> SUFFICES ASSUME WriteSuper(c) PROVE FALSE
      OBVIOUS
    <3>1. Several(c)
      BY DEF WriteSuper, At, Inv, Phases, Stage
    <3> QED
      BY <3>1, OneNotSeveral
  <2>2. DelSuper(c) => supers' \subseteq supers /\ dsupers' = dsupers
    BY DelSuperDoes
  <2>3. DeleteSuper(c) => supers' = {} /\ dsupers' = {}
    BY <1>1 DEF DeleteSuper
  <2> QED
    BY <1>1, <2>1, <2>2, <2>3, WhoMovesSupers
<1>3. ASSUME NEW e \in Files PROVE Plain(jnl'[e])
  <2>1. FileShapes /\ Plain(jnl[e])
    BY <1>1, FileShapesOK DEF Inv, Base
  <2>2. CASE Works(c, e)
    BY <2>1, <2>2, PlainWorks
  <2>3. CASE e = cur[c] /\ HotEmpty(c)
    <3>1. jnl'[e] = jnl[e] \/ jnl'[e] = None
      BY <2>1, <2>3 DEF HotEmpty, FileShapes
    <3> QED
      BY <2>1, <3>1 DEF Plain
  <2>4. CASE e = cur[c] /\ Fin(c)
    <3>1. jnl'[e] = Finalised(c, e) /\ jnl[e] \in Seq(JournalCell)
      <4>1. jnl' = [jnl EXCEPT ![e] = Finalised(c, e)]
        BY <2>4 DEF Fin
      <4>2. jnl[e] \in Seq(JournalCell)
        BY <2>4, FinDoes
      <4> QED
        BY <2>1, <4>1, <4>2 DEF FileShapes
    <3>2. Plain(Put(jnl[e], 1, Zero, Zero))
      BY <2>1, <3>1, ZeroIs, PlainPut
    <3>3. Finalised(c, e) \in {None, << >>, Put(jnl[e], 1, Zero, Zero)}
      BY DEF Finalised
    <3>4. Plain(<< >>) /\ Plain(None)
      BY DEF Plain
    <3> QED
      BY <3>1, <3>2, <3>3, <3>4
  <2>5. CASE jnl'[e] = jnl[e]
    BY <2>1, <2>5
  <2>6. CASE PlayTruncate(c) \/ PlayPage(c)
    BY <2>1, <2>6 DEF PlayTruncate, PlayPage
  <2> QED
    BY <2>2, <2>3, <2>4, <2>5, <2>6, KindsAre DEF Kinds
<1>4. ASSUME NEW e \in Files PROVE Plain(djnl'[e])
  <2>1. djnl'[e] \in {djnl[e], jnl[e], jnl'[e], None}
    BY DiskMovesIs DEF DiskMoves
  <2>2. Plain(None)
    BY DEF Plain
  <2> QED
    BY <1>1, <1>3, <2>1, <2>2
<1> QED
  BY <1>2, <1>3, <1>4

LEMMA SuperedKept ==
  ASSUME Inv, NEW c \in Conns, Acts(c), setting' = setting
  PROVE  Supered'
<1>1. \A e \in Files, o \in Conns : NamesOwned(o, e)'
  BY NamesOwnedActs, NamesOwnedOthers
<1> QED
  BY <1>1, NamesKept, SupersKeptKept, DiskNamesKept, OneFileKept DEF Supered
-----------------------------------------------------------------------------
(* What is on disk. *)

LEMMA EndsHow ==
  ASSUME Inv, NEW c \in Conns, Acts(c), pc[c] \in {"finsync", "unlock"}
  PROVE  FinSync(c) \/ Unlock(c) \/ Crash(c)
<1> USE DEF At
<1>2. CASE HotExists(c)
  BY <1>2 DEF HotExists
<1>3. CASE HotReserved(c)
  BY <1>3 DEF HotReserved
<1>4. CASE HotEmpty(c)
  BY <1>4 DEF HotEmpty
<1>5. CASE HotByte(c)
  BY <1>5 DEF HotByte
<1>6. CASE HotLock(c)
  BY <1>6 DEF HotLock
<1>7. CASE HotOpen(c)
  BY <1>7 DEF HotOpen
<1>8. CASE PlayTruncate(c)
  BY <1>8 DEF PlayTruncate
<1>9. CASE PlayPage(c)
  BY <1>9 DEF PlayPage
<1>10. CASE PlaySync(c)
  BY <1>10 DEF PlaySync
<1>11. CASE Fin(c)
  BY <1>11 DEF Fin
<1>12. CASE FinSync(c)
  BY <1>12
<1>13. CASE Unlock(c)
  BY <1>13
<1>14. CASE DelSuper(c)
  BY <1>14 DEF DelSuper
<1>15. CASE NextFile(c)
  BY <1>15 DEF NextFile
<1>16. CASE Check(c)
  BY <1>16 DEF Check
<1>17. CASE CommitLock(c)
  BY <1>17 DEF CommitLock
<1>18. CASE WriteSuper(c)
  BY <1>18 DEF WriteSuper
<1>19. CASE Prepare(c)
  BY <1>19 DEF Prepare
<1>20. CASE SyncRecords(c)
  BY <1>20 DEF SyncRecords
<1>21. CASE Count(c)
  BY <1>21 DEF Count
<1>22. CASE SyncCount(c)
  BY <1>22 DEF SyncCount
<1>23. CASE WritePage(c)
  BY <1>23 DEF WritePage
<1>24. CASE SyncDb(c)
  BY <1>24 DEF SyncDb
<1>25. CASE DeleteSuper(c)
  BY <1>25 DEF DeleteSuper
<1>26. CASE End(c)
  BY <1>26 DEF End
<1>27. CASE Commit(c)
  BY <1>27 DEF Commit
<1>28. CASE Rollback(c)
  BY <1>28 DEF Rollback
<1>29. CASE Crash(c)
  BY <1>29
<1>30. ASSUME NEW d \in Files, Open(c, d) PROVE FinSync(c) \/ Unlock(c) \/ Crash(c)
  BY <1>30 DEF Open
<1>31. ASSUME NEW d \in Files, Reserve(c, d) PROVE FinSync(c) \/ Unlock(c) \/ Crash(c)
  BY <1>31 DEF Reserve
<1>32. ASSUME NEW d \in Files, NEW p \in Pages, Write(c, d, p) PROVE FinSync(c) \/ Unlock(c) \/ Crash(c)
  BY <1>32 DEF Write
<1>33. ASSUME NEW d \in Files, NEW p \in Pages, Spill(c, d, p) PROVE FinSync(c) \/ Unlock(c) \/ Crash(c)
  BY <1>33 DEF Spill
<1> QED
  BY <1>2, <1>3, <1>4, <1>5, <1>6, <1>7, <1>8, <1>9, <1>10, <1>11, <1>12, <1>13, <1>14, <1>15,
     <1>16, <1>17, <1>18, <1>19, <1>20, <1>21, <1>22, <1>23, <1>24, <1>25, <1>26, <1>27, <1>28,
     <1>29, <1>30, <1>31, <1>32, <1>33 DEF Acts, Step

(* A transaction that was live, or has just begun.                         *)
LEMMA LiveFrom ==
  ASSUME Inv, NEW c \in Conns, Acts(c), NEW e \in Files, Live(c, e)'
  PROVE  Live(c, e) \/ Reserve(c, e)
<1> SUFFICES ASSUME ~Reserve(c, e) PROVE Live(c, e)
  OBVIOUS
<1>1. InTxn(c, e)' /\ ~Committed(c)' /\ ~Undone(c, e)'
  BY DEF Live
<1>2. InTxn(c, e)
  BY <1>1, TxnFileIs DEF TxnFile
<1>3. ~Crash(c) /\ ~(Unlock(c) /\ e = cur[c])
  <2>1. ControlTypes(c) /\ Shapes /\ FileShapes /\ lock \in [Conns -> [Files -> NONE .. EXCLUSIVE]]
    BY ControlTyped, FileShapesOK DEF Inv, Base, TypeOK
  <2>2. Crash(c) => ~InTxn(c, e)'
    BY <2>1 DEF Crash, Gone, InTxn, ControlTypes
  <2>3. Unlock(c) /\ e = cur[c] => ~InTxn(c, e)'
    BY <2>1 DEF Unlock, Locked, InTxn, SHARED, RESERVED
  <2> QED
    BY <1>1, <2>2, <2>3
<1>4. ~Committed(c)
  <2> SUFFICES ASSUME Committed(c) PROVE FALSE
    OBVIOUS
  <2>1. Unlock(c) /\ Last(c)
    BY <1>1, <1>3, CommittedGoes
  <2>2. e \in Reserved(c)
    BY <1>2 DEF InTxn, Reserved
  <2> QED
    BY <1>3, <2>1, <2>2 DEF Last
<1>5. ~Undone(c, e)
  <2> SUFFICES ASSUME Undone(c, e) PROVE FALSE
    OBVIOUS
  <2>1. op[c] = "rollback" /\ pc[c] \in {"finsync", "unlock"} /\ cur[c] = e
    BY DEF Undone
  <2>2. FinSync(c)
    BY <1>3, <2>1, EndsHow
  <2>3. Undone(c, e)'
    BY <2>1, <2>2, ShapesOK DEF FinSync, Go, Undone, Shapes, Inv, Base
  <2> QED
    BY <1>1, <2>3
<1> QED
  BY <1>2, <1>4, <1>5 DEF Live

(* Who writes a journal to disk.                                           *)
DiskStays(c, e) ==
  \/ djnl'[e] = djnl[e]
  \/ e = cur[c] /\ (HotOpen(c) \/ Fin(c) \/ FinSync(c) \/ SyncRecords(c) \/ SyncCount(c))

LEMMA DiskStaysIs ==
  ASSUME Inv, NEW c \in Conns, Acts(c), NEW e \in Files
  PROVE  DiskStays(c, e)
<1> USE DEF disk
<1>1. FileShapes
  BY FileShapesOK DEF Inv, Base
<1>2. CASE HotExists(c)
  BY <1>1, <1>2 DEF HotExists, DiskStays, FileShapes
<1>3. CASE HotReserved(c)
  BY <1>1, <1>3 DEF HotReserved, DiskStays, FileShapes
<1>4. CASE HotEmpty(c)
  BY <1>1, <1>4 DEF HotEmpty, DiskStays, FileShapes
<1>5. CASE HotByte(c)
  BY <1>1, <1>5 DEF HotByte, DiskStays, FileShapes
<1>6. CASE HotLock(c)
  BY <1>1, <1>6 DEF HotLock, DiskStays, FileShapes
<1>7. CASE HotOpen(c)
  BY <1>1, <1>7 DEF HotOpen, DiskStays, FileShapes
<1>8. CASE PlayTruncate(c)
  BY <1>1, <1>8 DEF PlayTruncate, DiskStays, FileShapes
<1>9. CASE PlayPage(c)
  BY <1>1, <1>9 DEF PlayPage, DiskStays, FileShapes
<1>10. CASE PlaySync(c)
  BY <1>1, <1>10 DEF PlaySync, DiskStays, FileShapes
<1>11. CASE Fin(c)
  BY <1>1, <1>11 DEF Fin, DiskStays, FileShapes
<1>12. CASE FinSync(c)
  BY <1>1, <1>12 DEF FinSync, DiskStays, FileShapes
<1>13. CASE Unlock(c)
  BY <1>1, <1>13 DEF Unlock, DiskStays, FileShapes
<1>14. CASE DelSuper(c)
  BY <1>1, <1>14 DEF DelSuper, DiskStays, FileShapes
<1>15. CASE NextFile(c)
  BY <1>1, <1>15 DEF NextFile, DiskStays, FileShapes
<1>16. CASE Check(c)
  BY <1>1, <1>16 DEF Check, DiskStays, FileShapes
<1>17. CASE CommitLock(c)
  BY <1>1, <1>17 DEF CommitLock, DiskStays, FileShapes
<1>18. CASE WriteSuper(c)
  BY <1>1, <1>18 DEF WriteSuper, DiskStays, FileShapes
<1>19. CASE Prepare(c)
  BY <1>1, <1>19 DEF Prepare, DiskStays, FileShapes
<1>20. CASE SyncRecords(c)
  BY <1>1, <1>20 DEF SyncRecords, DiskStays, FileShapes
<1>21. CASE Count(c)
  BY <1>1, <1>21 DEF Count, DiskStays, FileShapes
<1>22. CASE SyncCount(c)
  BY <1>1, <1>22 DEF SyncCount, DiskStays, FileShapes
<1>23. CASE WritePage(c)
  BY <1>1, <1>23 DEF WritePage, DiskStays, FileShapes
<1>24. CASE SyncDb(c)
  BY <1>1, <1>24 DEF SyncDb, DiskStays, FileShapes
<1>25. CASE DeleteSuper(c)
  BY <1>1, <1>25 DEF DeleteSuper, DiskStays, FileShapes
<1>26. CASE End(c)
  BY <1>1, <1>26 DEF End, DiskStays, FileShapes
<1>27. CASE Commit(c)
  BY <1>1, <1>27 DEF Commit, DiskStays, FileShapes
<1>28. CASE Rollback(c)
  BY <1>1, <1>28 DEF Rollback, DiskStays, FileShapes
<1>29. CASE Crash(c)
  BY <1>1, <1>29 DEF Crash, DiskStays, FileShapes
<1>30. ASSUME NEW d \in Files, Open(c, d) PROVE DiskStays(c, e)
  BY <1>1, <1>30 DEF Open, DiskStays, FileShapes
<1>31. ASSUME NEW d \in Files, Reserve(c, d) PROVE DiskStays(c, e)
  BY <1>1, <1>31 DEF Reserve, DiskStays, FileShapes
<1>32. ASSUME NEW d \in Files, NEW p \in Pages, Write(c, d, p) PROVE DiskStays(c, e)
  BY <1>1, <1>32 DEF Write, DiskStays, FileShapes
<1>33. ASSUME NEW d \in Files, NEW p \in Pages, Spill(c, d, p) PROVE DiskStays(c, e)
  BY <1>1, <1>33 DEF Spill, DiskStays, FileShapes
<1> QED
  BY <1>2, <1>3, <1>4, <1>5, <1>6, <1>7, <1>8, <1>9, <1>10, <1>11, <1>12, <1>13, <1>14, <1>15,
     <1>16, <1>17, <1>18, <1>19, <1>20, <1>21, <1>22, <1>23, <1>24, <1>25, <1>26, <1>27, <1>28,
     <1>29, <1>30, <1>31, <1>32, <1>33 DEF Acts, Step

LEMMA DiskSyncedActs ==
  ASSUME Inv, NEW c \in Conns, Acts(c), setting' = setting
  PROVE  DiskSynced(c)'
<1> USE DEF At, Go
<1>1. ControlTypes(c) /\ Control(c) /\ Shapes /\ FileShapes /\ DiskSynced(c) /\ Enters(c)
  BY ControlTyped, FileShapesOK, EntersIs DEF Inv, Base, Synced
<1>2. ASSUME op'[c] = "hot", pc'[c] \in {"play", "fin"} PROVE djnl'[cur'[c]] = jnl'[cur'[c]]
  <2>1. CASE HotOpen(c)
    <3>1. cur' = cur /\ cur[c] \in Files /\ jnl' = jnl
      BY <1>1, <2>1 DEF HotOpen, Control, ControlTypes, Recovering, InTxn
    <3>2. djnl' = [djnl EXCEPT ![cur[c]] = jnl[cur[c]]]
      BY <1>1, <1>2, <2>1 DEF HotOpen, Shapes
    <3> QED
      BY <1>1, <3>1, <3>2 DEF FileShapes
  <2>2. CASE PlayTruncate(c) \/ PlayPage(c) \/ PlaySync(c)
    <3>1. UNCHANGED << op, cur, jnl, djnl >> /\ pc[c] = "play"
      BY <2>2 DEF PlayTruncate, PlayPage, PlaySync
    <3> QED
      BY <1>1, <1>2, <3>1 DEF DiskSynced
  <2>3. ~NextFile(c)
    <3> SUFFICES ASSUME NextFile(c) PROVE FALSE
      OBVIOUS
    <3> QED
      BY <1>2, NextIs
  <2>4. ~SyncDb(c)
    <3> SUFFICES ASSUME SyncDb(c) PROVE FALSE
      OBVIOUS
    <3>1. PICK d : d = cur[c]
      OBVIOUS
    <3>2. op[c] = "commit" /\ op' = op
      BY <3>1, SyncDbDoes
    <3> QED
      BY <1>2, <3>2
  <2> QED
    BY <1>1, <1>2, <2>1, <2>2, <2>3, <2>4 DEF Enters
<1>3. ASSUME Durable, op'[c] = "commit", pc'[c] = "unlock" PROVE djnl'[cur'[c]] = jnl'[cur'[c]]
  <2>1. CASE Fin(c)
    <3>1. PICK d : d = cur[c]
      OBVIOUS
    <3>2. d \in Files /\ cur' = cur
      BY <2>1, <3>1, FinDoes DEF Fin
    <3>3. ~FinSynced
      BY <1>1, <1>3, <2>1 DEF Fin, Shapes
    <3>4. JMode \in {"delete", "truncate", "persist"}
      BY SettingIs DEF Inv, Base, JMode, Setting
    <3>5. JMode = "delete" /\ Extra
      BY <1>3, <3>3, <3>4 DEF FinSynced, Durable
    <3>6. jnl' = [jnl EXCEPT ![d] = None] /\ djnl' = [djnl EXCEPT ![d] = None]
      BY <2>1, <3>1, <3>5 DEF Fin, Finalised
    <3> QED
      BY <1>1, <3>1, <3>2, <3>6 DEF FileShapes
  <2>2. CASE FinSync(c)
    <3>1. cur' = cur /\ cur[c] \in Files /\ jnl' = jnl /\ djnl' = [djnl EXCEPT ![cur[c]] = jnl[cur[c]]]
      BY <1>1, <2>2 DEF FinSync, Control, ControlTypes, Recovering, InTxn
    <3> QED
      BY <1>1, <3>1 DEF FileShapes
  <2>3. ~NextFile(c)
    <3> SUFFICES ASSUME NextFile(c) PROVE FALSE
      OBVIOUS
    <3>1. op' = op /\ (op[c] = "commit" => pc'[c] = "fin")
      BY NextIs
    <3> QED
      BY <1>3, <3>1
  <2> QED
    BY <1>1, <1>3, <2>1, <2>2, <2>3 DEF Enters
<1>4. Durable' <=> Durable
  BY DEF Durable, JMode, Full, Extra
<1> QED
  BY <1>2, <1>3, <1>4 DEF DiskSynced

LEMMA DiskSyncedOthers ==
  ASSUME Inv, NEW c \in Conns, Acts(c), setting' = setting, NEW o \in Conns, o # c
  PROVE  DiskSynced(o)'
<1>1. Alike(o) /\ DiskSynced(o) /\ Control(o) /\ LocksHeld(o) /\ ControlTypes(o)
  BY Others, ControlTyped DEF Inv, Base, Synced
<1>2. ASSUME \/ op[o] = "hot" /\ pc[o] \in {"play", "fin"}
             \/ op[o] = "commit" /\ pc[o] = "unlock"
      PROVE  djnl'[cur[o]] = djnl[cur[o]] /\ jnl'[cur[o]] = jnl[cur[o]]
  <2>1. cur[o] \in Files /\ lock[o][cur[o]] >= RESERVED
    BY <1>1, <1>2 DEF Control, ControlTypes, LocksHeld, Recovering, Alone, InTxn, RESERVED, EXCLUSIVE
  <2> QED
    BY <2>1, OthersSafe DEF Same
<1>3. Durable' <=> Durable
  BY DEF Durable, JMode, Full, Extra
<1> QED
  BY <1>1, <1>2, <1>3 DEF DiskSynced, Alike

(* The name on disk of a transaction that is live stays on disk.           *)
LEMMA DiskNameStays ==
  ASSUME Inv, NEW c \in Conns, Acts(c), NEW o \in Conns, NEW e \in Files, InTxn(o, e),
         o # c \/ ~DeleteSuper(c), NEW n, n \in {SuperName(jnl[e]), SuperName(djnl[e])}, n \in dsupers \cup {0}
  PROVE  n \in dsupers' \cup {0}
<1>1. CASE ~DeleteSuper(c)
  <2>1. dsupers \subseteq dsupers'
    <3>1. DelSuper(c) => dsupers' = dsupers
      BY DelSuperDoes
    <3>2. WriteSuper(c) => dsupers \subseteq dsupers'
      BY DEF WriteSuper
    <3> QED
      BY <1>1, <3>1, <3>2, WhoMovesSupers
  <2> QED
    BY <2>1
<1>2. CASE DeleteSuper(c) /\ o # c
  <2>1. n # txn[c]
    <3> SUFFICES ASSUME n = txn[c] PROVE FALSE
      OBVIOUS
    <3>1. pc[c] = "commit" /\ op[c] = "commit"
      BY <1>2 DEF DeleteSuper, At, Inv, Base, Control
    <3>2. txn[c] # 0
      <4>1. InTxn(c, cur[c]) /\ cur[c] \in Files
        BY <3>1, ControlTyped DEF Inv, Base, Control, ControlTypes, InTxn
      <4> QED
        BY <4>1 DEF Inv, Base, TxnKept
    <3>3. InTxn(c, e)
      BY <3>1, <3>2 DEF Preparing, Inv, Supered, NamesOwned
    <3>4. lock[c][e] \in 0 .. 4 /\ lock[o][e] \in 0 .. 4
      BY DataTypes DEF Inv, Base
    <3> QED
      BY <1>2, <3>3, <3>4 DEF InTxn, RESERVED, SHARED, Inv, Base, Excluded
  <2>2. dsupers' = dsupers \ {txn[c]}
    BY <1>2 DEF DeleteSuper
  <2> QED
    BY <2>1, <2>2
<1> QED
  BY <1>1, <1>2

LEMMA SyncedIs ==
  ASSUME Inv, NEW c \in Conns, NEW e \in Files, Live(c, e), jw[c][e].mod,
         NEW h, h = jw[c][e].hdr
  PROVE  /\ djnl[e] \in Seq(JournalCell) /\ h \in Nat /\ h # 0 /\ Len(djnl[e]) >= h - 1
         /\ \A k \in 1 .. h - 1 : djnl[e][k] = jnl[e][k]
         /\ ~IsHdr(djnl[e], h) /\ SuperName(djnl[e]) \in dsupers \cup {0}
         /\ jw[c][e].off # 0 /\ jw[c][e].off \in Nat /\ h - 1 <= jw[c][e].off
         /\ jnl[e] \in Seq(JournalCell) /\ jw[c][e].off <= Len(jnl[e])
<1>1. SyncedKept(c, e)
  BY DEF Inv, Synced
<1>2. djnl[e] \in Seq(JournalCell) \cup {None} /\ jw[c][e] \in JournalWriter
  BY DataTypes DEF Inv, Base
<1>3. /\ djnl[e] # None /\ Len(djnl[e]) >= h - 1 /\ \A k \in 1 .. h - 1 : djnl[e][k] = jnl[e][k]
      /\ ~IsHdr(djnl[e], h) /\ SuperName(djnl[e]) \in dsupers \cup {0}
  BY <1>1 DEF SyncedKept
<1>4. jw[c][e].off # 0
  BY ModIs
<1>5. JournalKept(c, e) /\ jnl[e] \in Seq(JournalCell)
  BY <1>4, LiveIs
<1>6. Placed(jnl[e], jw[c][e])
  BY <1>4, <1>5 DEF JournalKept, Journal
<1>7. PICK o \in Nat : o = jw[c][e].off
  BY <1>2 DEF JournalWriter
<1>8. h \in Nat /\ 1 <= h /\ h <= o + 1 /\ o <= Len(jnl[e])
  BY <1>2, <1>6, <1>7 DEF JournalWriter, Placed
<1> QED
  BY <1>2, <1>3, <1>4, <1>5, <1>7, <1>8

(* Up to the last header, what it wrote is as it was and is on disk.       *)
Stands(c, e) ==
  /\ jw'[c][e].mod = jw[c][e].mod /\ jw'[c][e].hdr = jw[c][e].hdr
  /\ djnl'[e] = djnl[e]
  /\ \A k \in 1 .. jw[c][e].hdr - 1 : jnl'[e][k] = jnl[e][k]

LEMMA WorksStands ==
  ASSUME Inv, NEW c \in Conns, NEW e \in Files, Works(c, e), jw[c][e].mod,
         ~SyncCount(c), ~SyncRecords(c)
  PROVE  Stands(c, e)
<1>1. Live(c, e) /\ FileShapes
  BY WorksDoes, FileShapesOK DEF WorkDone, Inv, Base
<1>2. PICK h : h = jw[c][e].hdr
  OBVIOUS
<1>3. PICK o : o = jw[c][e].off
  OBVIOUS
<1>4. h \in Nat /\ h # 0 /\ o \in Nat /\ o # 0 /\ h - 1 <= o /\ o <= Len(jnl[e])
  BY <1>1, <1>2, <1>3, SyncedIs
<1>5. jnl[e] \in Seq(JournalCell)
  BY <1>1, <1>2, SyncedIs
<1>6. \A k \in 1 .. h - 1 : k \in 1 .. o /\ k \in 1 .. Len(jnl[e]) /\ k # h
  <2>1. PICK l \in Nat : l = Len(jnl[e])
    BY <1>5
  <2>2. h \in Nat /\ o \in Nat /\ l \in Nat /\ h - 1 <= o /\ o <= l
    BY <1>4, <2>1
  <2>3. \A k \in 1 .. h - 1 : k \in 1 .. o /\ k \in 1 .. l /\ k # h
    BY <2>2
  <2> QED
    BY <2>1, <2>3
<1>7. CASE \E p \in Pages : Write(c, e, p)
  <2>1. PICK p \in Pages : Write(c, e, p)
    BY <1>7
  <2>2. /\ jw'[c][e].mod = jw[c][e].mod /\ jw'[c][e].hdr = h
        /\ \A k \in 1 .. o : jnl'[e][k] = jnl[e][k]
    BY <1>2, <1>3, <1>4, <2>1, WriteDoes
  <2>3. djnl' = djnl
    BY <2>1 DEF Write
  <2> QED
    BY <1>2, <1>6, <2>2, <2>3 DEF Stands
<1>8. CASE e = cur[c] /\ Prepare(c)
  <2>1. /\ jw'[c][e].mod = jw[c][e].mod /\ jw'[c][e].hdr = h
        /\ \A k \in 1 .. o : jnl'[e][k] = jnl[e][k]
    <3>1. jw'[c][e].mod = jw[c][e].mod
      BY <1>8, PrepareDoes
    <3>2. jw'[c][e].hdr = jw[c][e].hdr
      BY <1>8, PrepareDoes
    <3>3. \A k \in 1 .. jw[c][e].off : jnl'[e][k] = jnl[e][k]
      BY <1>8, PrepareDoes
    <3> QED
      BY <1>2, <1>3, <3>1, <3>2, <3>3
  <2>2. djnl' = djnl
    BY <1>8 DEF Prepare
  <2> QED
    BY <1>2, <1>6, <2>1, <2>2 DEF Stands
<1>9. CASE e = cur[c] /\ Count(c)
  <2>1. \A k \in 1 .. Len(jnl[e]) : k # h => jnl'[e][k] = jnl[e][k]
    BY <1>2, <1>9, CountDoes
  <2>2. djnl' = djnl /\ jw' = jw
    BY <1>9 DEF Count, local
  <2> QED
    BY <1>2, <1>6, <2>1, <2>2 DEF Stands
<1>10. CASE e = cur[c] /\ WritePage(c)
  <2>1. jw'[c][e].mod = jw[c][e].mod /\ jw'[c][e].hdr = jw[c][e].hdr
    <3>1. jw'[c][e].mod = jw[c][e].mod
      BY <1>10, WritePageDoes
    <3>2. jw'[c][e].hdr = jw[c][e].hdr
      BY <1>10, WritePageDoes
    <3> QED
      BY <3>1, <3>2
  <2>2. djnl' = djnl /\ jnl' = jnl
    BY <1>10 DEF WritePage
  <2> QED
    BY <2>1, <2>2 DEF Stands
<1>11. CASE PlayTruncate(c) \/ PlayPage(c)
  BY <1>11 DEF PlayTruncate, PlayPage, local, Stands
<1> QED
  BY <1>7, <1>8, <1>9, <1>10, <1>11 DEF Works

LEMMA ModFrom ==
  ASSUME Inv, NEW c \in Conns, NEW e \in Files, Works(c, e), jw'[c][e].mod,
         ~(SyncCount(c) /\ e = cur[c])
  PROVE  jw[c][e].mod
<1>1. CASE \E p \in Pages : Write(c, e, p)
  BY <1>1, WriteDoes
<1>2. CASE e = cur[c] /\ Prepare(c)
  BY <1>2, PrepareDoes
<1>3. CASE e = cur[c] /\ WritePage(c)
  BY <1>3, WritePageDoes
<1>4. CASE SyncRecords(c) \/ Count(c) \/ PlayTruncate(c) \/ PlayPage(c)
  BY <1>4 DEF SyncRecords, Count, PlayTruncate, PlayPage, local
<1> QED
  BY <1>1, <1>2, <1>3, <1>4 DEF Works

(* A commit whose decision is made has no more to keep.                    *)
LEMMA LiveStays ==
  ASSUME Inv, NEW c \in Conns, Acts(c), NEW e \in Files, Live(c, e)', Live(c, e)
  PROVE  /\ ~DeleteSuper(c)
         /\ e = cur[c] => ~Fin(c) /\ ~FinSync(c) /\ ~HotOpen(c) /\ ~HotEmpty(c)
<1> USE DEF At, Go
<1>1. ControlTypes(c) /\ Control(c) /\ Shapes /\ FileShapes /\ LocksHeld(c) /\ Stage(c)
  BY ControlTyped, FileShapesOK DEF Inv, Base, Phases
<1>2. ~Committed(c)' /\ ~Undone(c, e)' /\ ~Committed(c) /\ ~Undone(c, e) /\ e \in reads[c]
  BY DEF Live, InTxn
<1>3. ~DeleteSuper(c)
  <2> SUFFICES ASSUME DeleteSuper(c) PROVE FALSE
    OBVIOUS
  <2>1. pc'[c] = "next" /\ op'[c] = op[c] /\ op[c] = "commit" /\ mine'[c] = [d \in Files |-> None]
        /\ cur' = cur /\ cur[c] \in Files
    BY <1>1 DEF DeleteSuper, Control, InTxn, Shapes, ControlTypes
  <2> QED
    BY <1>2, <2>1 DEF Committed
<1>4. ASSUME e = cur[c] PROVE ~Recovering(c)
  BY <1>1, <1>2, <1>4 DEF LocksHeld
<1>5. e = cur[c] => ~HotOpen(c) /\ ~HotEmpty(c)
  BY <1>4 DEF Recovering, HotOpen, HotEmpty
<1>6. ASSUME e = cur[c], Fin(c) PROVE FALSE
  <2>1. pc[c] = "fin" /\ pc'[c] \in {"finsync", "unlock"} /\ op' = op /\ cur' = cur
    BY <1>1, <1>6 DEF Fin, Shapes
  <2>2. op[c] \in {"commit", "rollback"}
    BY <1>1, <1>4, <1>6, <2>1 DEF Control, Recovering
  <2>3. op[c] # "rollback"
    BY <1>2, <1>6, <2>1 DEF Undone
  <2>4. mine'[c][e] = None
    <3>1. CASE FinCommits(c)
      <4>1. mine' = [mine EXCEPT ![c][e] = None]
        BY <1>6, <3>1, FinDoes
      <4> QED
        BY <1>1, <4>1 DEF Shapes, FileShapes
    <3>2. CASE ~FinCommits(c)
      <4>1. mine' = mine
        BY <1>6, <3>2, FinDoes
      <4> QED
        BY <1>6, <2>1, <2>2, <2>3, <3>2, <4>1 DEF FinCommits
    <3> QED
      BY <3>1, <3>2
  <2> QED
    BY <1>2, <1>6, <2>1, <2>2, <2>3, <2>4 DEF Committed
<1>7. ASSUME e = cur[c], FinSync(c) PROVE FALSE
  <2>1. pc[c] = "finsync"
    BY <1>7 DEF FinSync
  <2>2. op[c] \in {"commit", "rollback"}
    BY <1>1, <1>4, <1>7, <2>1 DEF Control, Recovering
  <2> QED
    BY <1>1, <1>2, <1>7, <2>1, <2>2 DEF Stage, Undone
<1> QED
  BY <1>3, <1>5, <1>6, <1>7

LEMMA LiveStands ==
  ASSUME Inv, NEW c \in Conns, Acts(c), NEW e \in Files, Live(c, e)', jw'[c][e].mod,
         ~(e = cur[c] /\ (SyncCount(c) \/ SyncRecords(c)))
  PROVE  Live(c, e) /\ jw[c][e].mod /\ Stands(c, e)
<1>1. ~Reserve(c, e)
  <2> SUFFICES ASSUME Reserve(c, e) PROVE FALSE
    OBVIOUS
  <2>1. jw'[c][e] = [NoJw EXCEPT !.orig = Len(db[e])]
    BY ReserveDoes
  <2> QED
    BY <2>1 DEF NoJw
<1>2. Live(c, e) /\ FileShapes
  BY <1>1, LiveFrom, FileShapesOK DEF Inv, Base
<1>3. CASE Works(c, e)
  <2>1. jw[c][e].mod
    BY <1>3, ModFrom
  <2>2. ~SyncCount(c) /\ ~SyncRecords(c)
    BY <1>3 DEF Works, Write, Prepare, SyncRecords, SyncCount, Count, WritePage, PlayTruncate, PlayPage, At
  <2> QED
    BY <1>2, <1>3, <2>1, <2>2, WorksStands
<1>4. CASE ~Works(c, e)
  <2>1. ~DeleteSuper(c) /\ (e = cur[c] => ~Fin(c) /\ ~FinSync(c) /\ ~HotOpen(c) /\ ~HotEmpty(c))
    BY <1>2, LiveStays
  <2>2. djnl'[e] = djnl[e]
    BY <2>1, DiskStaysIs DEF DiskStays
  <2>3. jnl'[e] = jnl[e]
    <3>1. PlayTruncate(c) \/ PlayPage(c) => jnl' = jnl
      BY DEF PlayTruncate, PlayPage
    <3> QED
      BY <1>4, <2>1, <3>1, KindsAre DEF Kinds
  <2>4. jw'[c][e].mod = jw[c][e].mod /\ jw'[c][e].hdr = jw[c][e].hdr
    <3>1. CASE jw'[c][e] = jw[c][e]
      BY <3>1
    <3>2. CASE SyncDb(c) /\ e = cur[c]
      <4>1. jw'[c][e].hdr = jw[c][e].hdr
        BY <3>2, SyncDbDoes
      <4>2. jw'[c][e].mod = jw[c][e].mod
        BY <3>2, SyncDbDoes
      <4> QED
        BY <4>1, <4>2
    <3>3. InTxn(c, e)'
      BY DEF Live
    <3> QED
      BY <1>1, <1>4, <3>1, <3>2, <3>3, TxnFileIs DEF TxnFile
  <2> QED
    BY <1>2, <2>2, <2>3, <2>4 DEF Stands
<1> QED
  BY <1>3, <1>4

LEMMA SyncedActs ==
  ASSUME Inv, NEW c \in Conns, Acts(c), NEW e \in Files
  PROVE  SyncedKept(c, e)'
<1> SUFFICES ASSUME Live(c, e)', jw'[c][e].mod
             PROVE  LET h == jw'[c][e].hdr IN
                    /\ djnl'[e] # None /\ Len(djnl'[e]) >= h - 1
                    /\ \A k \in 1 .. h - 1 : djnl'[e][k] = jnl'[e][k]
                    /\ ~IsHdr(djnl'[e], h)
                    /\ SuperName(djnl'[e]) \in dsupers' \cup {0}
  BY DEF SyncedKept
<1>1. CASE e = cur[c] /\ SyncCount(c)
  <2>1. PICK o : o = jw[c][e].off
    OBVIOUS
  <2>2. /\ jw'[c][e].hdr = o + 1 /\ o \in Nat /\ o <= Len(jnl[e])
        /\ \A k \in 1 .. o : jnl'[e][k] = jnl[e][k]
    <3>1. jw'[c][e].hdr = jw[c][e].off + 1
      BY <1>1, SyncCountDoes
    <3>2. jw[c][e].off \in Nat /\ jw[c][e].off <= Len(jnl[e])
      BY <1>1, SyncCountDoes
    <3>3. \A k \in 1 .. jw[c][e].off : jnl'[e][k] = jnl[e][k]
      BY <1>1, SyncCountDoes
    <3> QED
      BY <2>1, <3>1, <3>2, <3>3
  <2>3. djnl'[e] = jnl[e] /\ jnl[e] \in Seq(JournalCell)
    <3>1. djnl' = [djnl EXCEPT ![e] = jnl[e]] /\ jnl[e] \in Seq(JournalCell)
      BY <1>1, SyncCountDoes
    <3> QED
      BY <3>1, FileShapesOK DEF FileShapes, Inv, Base
  <2>4. ~IsHdr(jnl[e], o + 1) /\ SuperName(jnl[e]) \in supers \cup {0}
    BY <1>1, <2>1, SyncCountDoes
  <2>5. supers \subseteq dsupers /\ dsupers' = dsupers
    BY <1>1, NamesTyped DEF SyncCount
  <2>6. jnl[e] # None
    BY <2>3, JournalAssumption
  <2>7. PICK h : h = jw'[c][e].hdr
    OBVIOUS
  <2>8. h = o + 1 /\ h - 1 = o
    BY <2>2, <2>7
  <2>9. /\ djnl'[e] # None /\ Len(djnl'[e]) >= h - 1
        /\ \A k \in 1 .. h - 1 : djnl'[e][k] = jnl'[e][k]
        /\ ~IsHdr(djnl'[e], h)
        /\ SuperName(djnl'[e]) \in dsupers' \cup {0}
    BY <2>2, <2>3, <2>4, <2>5, <2>6, <2>8
  <2> QED
    BY <2>7, <2>9
<1>2. CASE e = cur[c] /\ SyncRecords(c)
  <2>1. jw' = jw /\ dsupers' = dsupers /\ Live(c, e) /\ jw[c][e].mod /\ pc[c] = "sync"
    <3>1. jw' = jw /\ dsupers' = dsupers /\ pc[c] = "sync"
      BY <1>2 DEF SyncRecords, At
    <3> QED
      BY <1>2, <3>1, SyncRecordsDoes
  <2>2. PICK h : h = jw[c][e].hdr
    OBVIOUS
  <2>3. PICK o : o = jw[c][e].off
    OBVIOUS
  <2>4. /\ djnl[e] \in Seq(JournalCell) /\ h \in Nat /\ h # 0 /\ Len(djnl[e]) >= h - 1
        /\ \A k \in 1 .. h - 1 : djnl[e][k] = jnl[e][k]
        /\ ~IsHdr(djnl[e], h) /\ SuperName(djnl[e]) \in dsupers \cup {0}
        /\ o # 0 /\ o \in Nat /\ h - 1 <= o
    BY <2>1, <2>2, <2>3, SyncedIs
  <2>5. pc'[c] = "count" /\ Len(jnl'[e]) = Len(jnl[e])
    BY <1>2, <2>1, SyncRecordsDoes
  <2>6. /\ jnl'[e] \in Seq(JournalCell) /\ o <= Len(jnl'[e]) /\ \A k \in 1 .. o : jnl'[e][k] = jnl[e][k]
        /\ SuperName(jnl'[e]) \in {0, SuperName(jnl[e])}
    BY <1>2, <2>3, SyncRecordsDoes
  <2>7. djnl'[e] \in {djnl[e], jnl'[e]}
    BY <1>2, SyncRecordsDoes
  <2>8. h <= o /\ SuperName(jnl[e]) \in supers \cup {0} /\ op[c] \in {"write", "commit"}
    <3>1. Writing(c) /\ pc[c] # "page"
      BY <2>1 DEF Writing
    <3> QED
      BY <1>2, <2>1, <2>2, <2>3, <3>1, WritingIs
  <2>9. ~jnl'[e][h].magic
    <3>1. DraftKept(c, e)'
      BY <1>2, SyncRecordsDoes
    <3>2. op' = op
      BY <1>2 DEF SyncRecords
    <3> QED
      BY <2>1, <2>2, <2>3, <2>4, <2>5, <2>8, <3>1, <3>2 DEF DraftKept
  <2>10. h \in 1 .. Len(jnl'[e])
    BY <2>4, <2>6, <2>8
  <2>11. ~IsHdr(jnl'[e], h)
    BY <2>4, <2>6, <2>9, <2>10, CellIs
  <2>12. supers \subseteq dsupers /\ jnl'[e] # None /\ djnl[e] # None
    BY <2>4, <2>6, NamesTyped, JournalAssumption
  <2>13. \A k \in 1 .. h - 1 : k \in 1 .. o
    BY <2>4
  <2>14. Len(jnl'[e]) >= h - 1
    BY <2>4, <2>6, <2>8
  <2>15. SuperName(jnl'[e]) \in dsupers' \cup {0}
    BY <2>1, <2>6, <2>8, <2>12
  <2>16. CASE djnl'[e] = djnl[e]
    BY <2>1, <2>2, <2>4, <2>6, <2>12, <2>13, <2>16
  <2>17. CASE djnl'[e] = jnl'[e]
    BY <2>1, <2>2, <2>11, <2>12, <2>14, <2>15, <2>17
  <2> QED
    BY <2>7, <2>16, <2>17
<1>3. CASE ~(e = cur[c] /\ (SyncCount(c) \/ SyncRecords(c)))
  <2>1. Live(c, e) /\ jw[c][e].mod /\ Stands(c, e)
    BY <1>3, LiveStands
  <2>2. PICK h : h = jw[c][e].hdr
    OBVIOUS
  <2>3. /\ djnl[e] \in Seq(JournalCell) /\ Len(djnl[e]) >= h - 1
        /\ \A k \in 1 .. h - 1 : djnl[e][k] = jnl[e][k]
        /\ ~IsHdr(djnl[e], h) /\ SuperName(djnl[e]) \in dsupers \cup {0}
    BY <2>1, <2>2, SyncedIs
  <2>4. SuperName(djnl[e]) \in dsupers' \cup {0}
    <3>1. ~DeleteSuper(c) /\ InTxn(c, e)
      BY <2>1, LiveStays DEF Live
    <3> QED
      BY <2>3, <3>1, DiskNameStays
  <2>5. djnl[e] # None
    BY <2>3, JournalAssumption
  <2> QED
    BY <2>1, <2>2, <2>3, <2>4, <2>5 DEF Stands
<1> QED
  BY <1>1, <1>2, <1>3

LEMMA SyncedOthers ==
  ASSUME Inv, NEW c \in Conns, Acts(c), NEW o \in Conns, o # c, NEW e \in Files
  PROVE  SyncedKept(o, e)'
<1> SUFFICES ASSUME Live(o, e)', jw'[o][e].mod PROVE SyncedKept(o, e)'
  BY DEF SyncedKept
<1>1. Live(o, e) /\ Same(e) /\ Alike(o)
  BY OthersLive, Others DEF Inv, Base
<1>2. jw[o][e].mod /\ jw'[o][e] = jw[o][e]
  BY <1>1 DEF Alike
<1>3. SyncedKept(o, e)
  BY DEF Inv, Synced
<1>4. SuperName(djnl[e]) \in dsupers' \cup {0}
  BY <1>1, <1>2, <1>3, DiskNameStays DEF SyncedKept, Live
<1> QED
  BY <1>1, <1>2, <1>3, <1>4 DEF SyncedKept, Same

LEMMA SyncedStays ==
  ASSUME Inv, NEW c \in Conns, Acts(c), setting' = setting
  PROVE  Synced'
BY DiskSyncedActs, DiskSyncedOthers, SyncedActs, SyncedOthers DEF Synced
-----------------------------------------------------------------------------
(* What a commit has promised. *)

LEMMA FallbackIs ==
  ASSUME NEW d
  PROVE  /\ Fallback(d) = None <=> Back(d) = Store(d) \/ Back(d) = None
         /\ Fallback(d)' = None <=> Back(d)' = Store(d)' \/ Back(d)' = None
BY DEF Fallback, Back

LEMMA BackIs ==
  ASSUME TypeOK, NEW d \in Files
  PROVE  Back(d) \in Seq(Page) /\ Back(d) # None /\ (~IsHdr(djnl[d], 1) => Back(d) = db[d])
<1>1. djnl[d] \in Seq(JournalCell) \cup {None} /\ db[d] \in Seq(Page)
  BY DEF TypeOK
<1> QED
  BY <1>1, RestoredType, JournalAssumption DEF Back

(* Where nothing happens to a file and to its journal on disk.             *)
LEMMA BackSame ==
  ASSUME Inv, NEW c \in Conns, Acts(c), NEW e \in Files, ~Delivers(c, e),
         db'[e] = db[e], djnl'[e] = djnl[e]
  PROVE  Back(e)' = Back(e)
<1>1. DeleteSuper(c) => SuperName(djnl[e]) # txn[c]
  <2> SUFFICES ASSUME DeleteSuper(c), SuperName(djnl[e]) = txn[c] PROVE FALSE
    OBVIOUS
  <2>1. pc[c] = "commit" /\ op[c] = "commit"
    BY DEF DeleteSuper, At, Inv, Base, Control
  <2>2. txn[c] # 0
    <3>1. InTxn(c, cur[c]) /\ cur[c] \in Files
      BY <2>1, ControlTyped DEF Inv, Base, Control, ControlTypes, InTxn
    <3> QED
      BY <3>1 DEF Inv, Base, TxnKept
  <2>3. InTxn(c, e)
    BY <2>1, <2>2 DEF Preparing, Inv, Supered, NamesOwned
  <2> QED
    BY <2>3 DEF Delivers
<1>2. Counts(djnl[e], dsupers') <=> Counts(djnl[e], dsupers)
  BY <1>1, SupersMove
<1> QED
  BY <1>2, RestoredCounts DEF Back

(* A transaction that changes a file goes on.                              *)
LEMMA WorksLive ==
  ASSUME Inv, NEW c \in Conns, Acts(c), NEW e \in Files, Works(c, e)
  PROVE  Live(c, e)'
<1> USE DEF At, Go
<1>1. Live(c, e) /\ Shapes /\ Control(c) /\ ControlTypes(c)
  BY WorksDoes, ControlTyped DEF WorkDone, Inv, Base
<1>2. \/ \E p \in Pages : Write(c, e, p)
      \/ Prepare(c) \/ SyncRecords(c) \/ Count(c) \/ SyncCount(c) \/ WritePage(c)
      \/ PlayTruncate(c) \/ PlayPage(c)
  BY DEF Works
<1>3. pc'[c] \notin {"next", "fin", "finsync", "unlock"}
  BY <1>1, <1>2 DEF Write, Prepare, SyncRecords, Count, SyncCount, WritePage, PlayTruncate, PlayPage, Shapes
<1>4. ~Unlock(c) /\ ~Crash(c)
  <2>1. ~Unlock(c)
    BY <1>2 DEF Write, Prepare, SyncRecords, Count, SyncCount, WritePage, PlayTruncate, PlayPage, Unlock
  <2>2. Crash(c) => faults' # faults
    BY DEF Crash, Fault, Inv, Base, TypeOK
  <2>3. faults' = faults
    BY <1>2 DEF Write, Prepare, SyncRecords, Count, SyncCount, WritePage, PlayTruncate, PlayPage, bounds
  <2> QED
    BY <2>1, <2>2, <2>3
<1>5. InTxn(c, e)'
  BY <1>1, <1>4, InTxnGoes DEF Live
<1> QED
  BY <1>3, <1>5 DEF Live, Committed, Undone

(* What a transaction does to a file, the journal on disk takes back, once *)
(* it is this transaction's.                                               *)
LEMMA WorksBack ==
  ASSUME Inv, NEW c \in Conns, Acts(c), NEW e \in Files, Works(c, e)
  PROVE  Back(e)' = Store(e)' \/ Back(e)' = Back(e)
<1>1. WorkDone(c, e) /\ Store(e)' = Store(e) /\ FileShapes
  BY WorksDoes, WorksStore, FileShapesOK DEF Inv, Base
<1>2. cache[c][e] = Store(e) /\ cache[c][e] \in Seq(Page) /\ Live(c, e)
  BY <1>1, LiveIs DEF WorkDone
<1>3. /\ jnl'[e] \in Seq(JournalCell) /\ jw'[c][e] \in JournalWriter /\ db'[e] \in Seq(Page)
      /\ Journal(jnl'[e], jw'[c][e], cache[c][e], db'[e])
  BY <1>1 DEF WorkDone, JournalKept
<1>4. ~Delivers(c, e)
  <2>1. Delivers(c, e) => pc[c] = "commit" \/ pc[c] = "fin"
    BY DEF Delivers, Fin, DeleteSuper, At
  <2>2. Works(c, e) => pc[c] \notin {"commit", "fin"}
    BY DEF Works, Write, Prepare, SyncRecords, Count, SyncCount, WritePage, PlayTruncate, PlayPage, At
  <2> QED
    BY <2>1, <2>2
<1>5. CASE jw'[c][e].mod
  <2>1. Live(c, e)'
    BY WorksLive
  <2>2. SyncedKept(c, e)'
    BY SyncedActs
  <2>3. PICK h : h = jw'[c][e].hdr
    OBVIOUS
  <2>4. /\ djnl'[e] # None /\ Len(djnl'[e]) >= h - 1
        /\ \A k \in 1 .. h - 1 : djnl'[e][k] = jnl'[e][k]
        /\ ~IsHdr(djnl'[e], h)
        /\ SuperName(djnl'[e]) \in dsupers' \cup {0}
    BY <1>5, <2>1, <2>2, <2>3 DEF SyncedKept
  <2>5. djnl'[e] \in Seq(JournalCell)
    <3>1. djnl'[e] \in {djnl[e], jnl[e], jnl'[e], None}
      BY DiskMovesIs DEF DiskMoves
    <3>2. djnl[e] \in Seq(JournalCell) \cup {None} /\ jnl[e] \in Seq(JournalCell) \cup {None}
      BY DEF Inv, Base, TypeOK
    <3> QED
      BY <1>3, <2>4, <3>1, <3>2
  <2>6. Counts(djnl'[e], dsupers')
    BY <2>4 DEF Counts
  <2>7. PICK w \in JournalWriter : w = jw'[c][e]
    BY <1>3
  <2>8. PICK j \in Seq(JournalCell) : j = jnl'[e]
    BY <1>3
  <2>9. PICK g \in Seq(JournalCell) : g = djnl'[e]
    BY <2>5
  <2>10. PICK f \in Seq(Page) : f = db'[e]
    BY <1>3
  <2>11. Journal(j, w, cache[c][e], f) /\ w.mod /\ Counts(g, dsupers')
    BY <1>3, <1>5, <2>6, <2>7, <2>8, <2>9, <2>10
  <2>12. Len(g) >= w.hdr - 1 /\ \A k \in 1 .. w.hdr - 1 : g[k] = j[k]
    BY <2>3, <2>4, <2>7, <2>8, <2>9
  <2>13. ~IsHdr(g, w.hdr)
    BY <2>3, <2>4, <2>7, <2>9
  <2>14. Restored(f, g, dsupers') = cache[c][e]
    BY <1>2, <2>11, <2>12, <2>13, SyncedRestores
  <2> QED
    BY <1>1, <1>2, <2>9, <2>10, <2>14 DEF Back
<1>6. CASE ~jw'[c][e].mod
  <2>1. db'[e] = db[e] /\ ~jw[c][e].mod
    BY <1>1, <1>6 DEF WorkDone
  <2>2. CASE djnl'[e] = djnl[e]
    BY <1>1, <1>4, <2>1, <2>2, BackSame
  <2>3. CASE djnl'[e] # djnl[e]
    <3>1. e = cur[c] /\ (SyncRecords(c) \/ SyncCount(c))
      <4>1. ~HotOpen(c) /\ ~Fin(c) /\ ~FinSync(c)
        BY DEF Works, Write, Prepare, SyncRecords, Count, SyncCount, WritePage, PlayTruncate, PlayPage, At,
               HotOpen, Fin, FinSync
      <4> QED
        BY <2>3, <4>1, DiskStaysIs DEF DiskStays
    <3>2. SyncRecords(c)
      BY <1>6, <3>1, SyncCountDoes
    <3>3. djnl'[e] = jnl'[e]
      BY <2>3, <3>1, <3>2, SyncRecordsDoes
    <3>4. ~IsHdr(jnl'[e], 1)
      BY <2>1, <3>1, <3>2, NotHotYet
    <3>5. Back(e)' = db'[e]
      BY <1>3, <3>3, <3>4, RestoredType DEF Back
    <3>6. db'[e] = cache[c][e]
      BY <1>3, <1>6 DEF Journal, Restorable
    <3> QED
      BY <1>1, <1>2, <3>5, <3>6
  <2> QED
    BY <2>2, <2>3
<1> QED
  BY <1>5, <1>6

LEMMA BackMoves ==
  ASSUME Inv, NEW c \in Conns, Acts(c), NEW e \in Files, ~Delivers(c, e)
  PROVE  Back(e)' = Store(e)' \/ Back(e)' = Back(e)
<1>1. Store(e)' = Store(e) /\ TypeOK /\ FileShapes
  BY StoreMoves, FileShapesOK DEF Inv, Base
<1>2. CASE Works(c, e)
  BY <1>2, WorksBack
<1>3. CASE e = cur[c] /\ Fin(c)
  <2>1. ~FinCommits(c)
    BY <1>3 DEF Delivers
  <2>2. Store(e) = db[e]
    BY <1>3, <2>1, FinDoes
  <2>3. db' = db /\ djnl'[e] \in {djnl[e], None}
    BY <1>3, FinDoes
  <2>4. CASE djnl'[e] = djnl[e]
    BY <1>1, <2>3, <2>4, BackSame
  <2>5. CASE djnl'[e] = None
    <3>1. Back(e)' = db'[e]
      BY <2>5, NoCell DEF Back, Restored
    <3> QED
      BY <1>1, <2>2, <2>3, <3>1
  <2> QED
    BY <2>3, <2>4, <2>5
<1>4. CASE e = cur[c] /\ HotEmpty(c)
  <2>1. db' = db /\ djnl' = djnl
    BY <1>4 DEF HotEmpty
  <2> QED
    BY <1>1, <2>1, BackSame
<1>5. CASE e = cur[c] /\ op[c] = "hot" /\ (PlayTruncate(c) \/ PlayPage(c))
  <2>1. pc[c] = "play" /\ UNCHANGED << jnl, djnl, supers, dsupers >>
    BY <1>5 DEF PlayTruncate, PlayPage, At
  <2>2. djnl[e] = jnl[e] /\ jnl[e] \in Seq(JournalCell)
    BY <1>5, <2>1, HotIs
  <2>3. Counts(jnl[e], supers)
    BY <1>5, HotPlayDoes
  <2>4. Counts(jnl[e], dsupers)
    BY <2>3, NamesTyped DEF Counts
  <2> QED
    BY <2>1, <2>2, <2>3, <2>4, RestoredCounts DEF Back, Store
<1>6. CASE db'[e] = db[e] /\ jnl'[e] = jnl[e] /\ ~Works(c, e) /\ ~(e = cur[c] /\ Fin(c))
  <2>1. CASE djnl'[e] = djnl[e]
    BY <1>1, <1>6, <2>1, BackSame
  <2>2. CASE e = cur[c] /\ HotOpen(c) /\ djnl'[e] # djnl[e]
    <3>1. djnl'[e] = jnl[e] /\ dsupers' = dsupers
      BY <1>1, <2>2 DEF HotOpen, FileShapes
    <3>2. Counts(jnl[e], supers) <=> Counts(jnl[e], dsupers)
      BY DEF Counts, Inv, Supered, Names
    <3>3. Back(e)' = Store(e)
      BY <1>6, <3>1, <3>2, RestoredCounts DEF Back, Store
    <3> QED
      BY <1>1, <3>3
  <2>3. CASE e = cur[c] /\ FinSync(c)
    <3>1. djnl'[e] = jnl[e] /\ pc[c] = "finsync"
      BY <1>1, <2>3 DEF FinSync, FileShapes, At
    <3>2. ~IsHdr(jnl[e], 1)
      BY <2>3, <3>1 DEF Inv, Phases, Finished
    <3>3. Back(e)' = db[e]
      BY <1>6, <3>1, <3>2 DEF Back, Restored
    <3> QED
      BY <1>1, <3>2, <3>3, Storeless
  <2>4. e = cur[c] => ~SyncRecords(c) /\ ~SyncCount(c)
    BY <1>6 DEF Works
  <2> QED
    BY <1>6, <2>1, <2>2, <2>3, <2>4, DiskStaysIs DEF DiskStays
<1> QED
  BY <1>2, <1>3, <1>4, <1>5, <1>6, KindsAre DEF Kinds

LEMMA BackKept ==
  ASSUME Inv, NEW c \in Conns, Acts(c), NEW e \in Files, Back(e) = Store(e), ~Delivers(c, e)
  PROVE  Back(e)' = Store(e)'
BY BackMoves, StoreMoves

(* A commit that is over is safe.                                          *)
LEMMA UnlockSafe ==
  ASSUME Inv, NEW c \in Conns, Durable, Unlock(c), op[c] = "commit", NEW e, e = cur[c]
  PROVE  e \in Files /\ Back(e)' = Store(e)'
<1>1. pc[c] = "unlock" /\ UNCHANGED << db, jnl, djnl, supers, dsupers >>
  BY DEF Unlock, At, disk
<1>2. e \in Files
  BY <1>1, ControlTyped DEF Inv, Base, Control, ControlTypes, Recovering, InTxn
<1>3. ~IsHdr(jnl[e], 1) /\ djnl[e] = jnl[e]
  BY <1>1 DEF Inv, Phases, Finished, Synced, DiskSynced
<1> QED
  BY <1>1, <1>2, <1>3 DEF Back, Store, Restored

LEMMA PromisedFrom ==
  ASSUME Inv, NEW c \in Conns, Acts(c), NEW e \in promised'
  PROVE  e \in promised \/ (Unlock(c) /\ op[c] = "commit" /\ e = cur[c])
<1>2. CASE HotExists(c)
  BY <1>2 DEF HotExists, ghosts, Committing
<1>3. CASE HotReserved(c)
  BY <1>3 DEF HotReserved, ghosts, Committing
<1>4. CASE HotEmpty(c)
  BY <1>4 DEF HotEmpty, ghosts, Committing
<1>5. CASE HotByte(c)
  BY <1>5 DEF HotByte, ghosts, Committing
<1>6. CASE HotLock(c)
  BY <1>6 DEF HotLock, ghosts, Committing
<1>7. CASE HotOpen(c)
  BY <1>7 DEF HotOpen, ghosts, Committing
<1>8. CASE PlayTruncate(c)
  BY <1>8 DEF PlayTruncate, ghosts, Committing
<1>9. CASE PlayPage(c)
  BY <1>9 DEF PlayPage, ghosts, Committing
<1>10. CASE PlaySync(c)
  BY <1>10 DEF PlaySync, ghosts, Committing
<1>11. CASE Fin(c)
  BY <1>11 DEF Fin, ghosts, Committing
<1>12. CASE FinSync(c)
  BY <1>12 DEF FinSync, ghosts, Committing
<1>13. CASE Unlock(c)
  BY <1>13 DEF Unlock, ghosts, Committing
<1>14. CASE DelSuper(c)
  BY <1>14 DEF DelSuper, ghosts, Committing
<1>15. CASE NextFile(c)
  BY <1>15 DEF NextFile, ghosts, Committing
<1>16. CASE Check(c)
  BY <1>16 DEF Check, ghosts, Committing
<1>17. CASE CommitLock(c)
  BY <1>17 DEF CommitLock, ghosts, Committing
<1>18. CASE WriteSuper(c)
  BY <1>18 DEF WriteSuper, ghosts, Committing
<1>19. CASE Prepare(c)
  BY <1>19 DEF Prepare, ghosts, Committing
<1>20. CASE SyncRecords(c)
  BY <1>20 DEF SyncRecords, ghosts, Committing
<1>21. CASE Count(c)
  BY <1>21 DEF Count, ghosts, Committing
<1>22. CASE SyncCount(c)
  BY <1>22 DEF SyncCount, ghosts, Committing
<1>23. CASE WritePage(c)
  BY <1>23 DEF WritePage, ghosts, Committing
<1>24. CASE SyncDb(c)
  BY <1>24 DEF SyncDb, ghosts, Committing
<1>25. CASE DeleteSuper(c)
  BY <1>25 DEF DeleteSuper, ghosts, Committing
<1>26. CASE End(c)
  BY <1>26 DEF End, ghosts, Committing
<1>27. CASE Commit(c)
  BY <1>27 DEF Commit, ghosts, Committing
<1>28. CASE Rollback(c)
  BY <1>28 DEF Rollback, ghosts, Committing
<1>29. CASE Crash(c)
  BY <1>29 DEF Crash, ghosts, Committing
<1>30. ASSUME NEW d \in Files, Open(c, d) PROVE e \in promised \/ (Unlock(c) /\ op[c] = "commit" /\ e = cur[c])
  BY <1>30 DEF Open, ghosts, Committing
<1>31. ASSUME NEW d \in Files, Reserve(c, d) PROVE e \in promised \/ (Unlock(c) /\ op[c] = "commit" /\ e = cur[c])
  BY <1>31 DEF Reserve, ghosts, Committing
<1>32. ASSUME NEW d \in Files, NEW p \in Pages, Write(c, d, p) PROVE e \in promised \/ (Unlock(c) /\ op[c] = "commit" /\ e = cur[c])
  BY <1>32 DEF Write, ghosts, Committing
<1>33. ASSUME NEW d \in Files, NEW p \in Pages, Spill(c, d, p) PROVE e \in promised \/ (Unlock(c) /\ op[c] = "commit" /\ e = cur[c])
  BY <1>33 DEF Spill, ghosts, Committing
<1> QED
  BY <1>2, <1>3, <1>4, <1>5, <1>6, <1>7, <1>8, <1>9, <1>10, <1>11, <1>12, <1>13, <1>14, <1>15,
     <1>16, <1>17, <1>18, <1>19, <1>20, <1>21, <1>22, <1>23, <1>24, <1>25, <1>26, <1>27, <1>28,
     <1>29, <1>30, <1>31, <1>32, <1>33 DEF Acts, Step

LEMMA PromisesKept ==
  ASSUME Inv, NEW c \in Conns, Acts(c), setting' = setting
  PROVE  NothingLost'
<1> SUFFICES ASSUME Durable, NEW e \in promised' PROVE Fallback(e)' = None
  BY DEF NothingLost, Durable, JMode, Full, Extra
<1>1. CASE Unlock(c) /\ op[c] = "commit" /\ e = cur[c]
  BY <1>1, UnlockSafe, FallbackIs
<1>2. CASE e \in promised
  <2>1. e \in Files /\ TypeOK
    BY <1>2 DEF Inv, Base, TypeOK
  <2>2. Back(e) = Store(e)
    BY <1>2, <2>1, FallbackIs, BackIs DEF Inv, NothingLost
  <2>3. ~Delivers(c, e)
    BY <2>1, DeliversDoes
  <2> QED
    BY <2>1, <2>2, <2>3, BackKept, FallbackIs
<1> QED
  BY <1>1, <1>2, PromisedFrom

(* Whatever a connection does, and its end, keeps the invariant.           *)
LEMMA ActsKeep ==
  ASSUME Inv, NEW c \in Conns, Acts(c), setting' = setting
  PROVE  Inv'
BY BaseKept, LivesKept, PhasesKept, StoresKept, SuperedKept, SyncedStays, PromisesKept DEF Inv
-----------------------------------------------------------------------------
(* A loss of power, where there is one file. *)

(* What a sequence that reached the disk in part is made of.               *)
LEMMA MixIs ==
  ASSUME NEW T, NEW old \in Seq(T), NEW new \in Seq(T), NEW gap \in T, NEW m \in Mixes(old, new, gap)
  PROVE  /\ m \in Seq(T) /\ Len(m) \in {Len(old), Len(new)}
         /\ \A i \in 1 .. Len(m) : \/ i \in 1 .. Len(new) /\ m[i] = new[i]
                                   \/ i \in 1 .. Len(old) /\ m[i] = old[i]
                                   \/ i > Len(old) /\ m[i] = gap
<1> DEFINE F(n, S) == [i \in 1 .. n |-> IF i \in S THEN IF i <= Len(new) THEN new[i] ELSE old[i]
                                        ELSE IF i <= Len(old) THEN old[i] ELSE gap]
<1>1. \E n \in {Len(old), Len(new)} : \E S \in SUBSET (1 .. n) : m = F(n, S)
  <2>1. m \in UNION {{F(n, S) : S \in SUBSET (1 .. n)} : n \in {Len(old), Len(new)}}
    BY DEF Mixes
  <2> HIDE DEF F
  <2> QED
    BY <2>1
<1>p. PICK n \in {Len(old), Len(new)} : \E S \in SUBSET (1 .. n) : m = F(n, S)
  BY <1>1
<1>q. PICK S \in SUBSET (1 .. n) : m = F(n, S)
  BY <1>p
<1>2. n \in Nat /\ Len(old) \in Nat /\ Len(new) \in Nat
  OBVIOUS
<1>3. \A i \in 1 .. n : \/ i \in 1 .. Len(new) /\ m[i] = new[i]
                        \/ i \in 1 .. Len(old) /\ m[i] = old[i]
                        \/ i > Len(old) /\ m[i] = gap
  <2> SUFFICES ASSUME NEW i \in 1 .. n
               PROVE  \/ i \in 1 .. Len(new) /\ m[i] = new[i]
                      \/ i \in 1 .. Len(old) /\ m[i] = old[i]
                      \/ i > Len(old) /\ m[i] = gap
    OBVIOUS
  <2>1. m[i] = IF i \in S THEN IF i <= Len(new) THEN new[i] ELSE old[i]
               ELSE IF i <= Len(old) THEN old[i] ELSE gap
    BY <1>q
  <2> QED
    BY <1>2, <2>1
<1>4. \A i \in 1 .. n : m[i] \in T
  <2>1. (\A i \in 1 .. Len(new) : new[i] \in T) /\ \A i \in 1 .. Len(old) : old[i] \in T
    OBVIOUS
  <2> QED
    BY <1>3, <2>1
<1>5. m \in [1 .. n -> T]
  <2>1. m = [i \in 1 .. n |-> m[i]]
    BY <1>q
  <2> QED
    BY <1>4, <2>1
<1>6. m \in Seq(T) /\ Len(m) = n
  <2>1. m \in Seq(T)
    BY <1>2, <1>5
  <2>2. Len(m) \in Nat /\ DOMAIN m = 1 .. Len(m) /\ DOMAIN m = 1 .. n
    BY <1>5, <2>1
  <2>3. \A x \in Nat : x \in 1 .. Len(m) <=> x \in 1 .. n
    BY <2>2
  <2>4. PICK l \in Nat : l = Len(m)
    BY <2>2
  <2>5. (n \in 1 .. n => n \in 1 .. l) /\ (l \in 1 .. l => l \in 1 .. n)
    BY <1>2, <2>3, <2>4
  <2>6. l = n
    BY <1>2, <2>5
  <2> QED
    BY <2>1, <2>4, <2>6
<1> QED
  BY <1>3, <1>6

LEMMA PlainUnnamed ==
  ASSUME NEW j \in Seq(JournalCell) \cup {None}, Plain(j)
  PROVE  SuperName(j) = 0
<1>1. CASE j = None
  BY <1>1, NoCell
<1>2. CASE j # None /\ j = << >>
  BY <1>2 DEF SuperName
<1>3. CASE j # None /\ j # << >>
  <2>1. Len(j) \in DOMAIN j
    BY <1>3
  <2> QED
    BY <1>3, <2>1 DEF Plain, SuperName
<1> QED
  BY <1>1, <1>2, <1>3

(* The journal that is found again has no header that was not there.       *)
LEMMA JournalFound ==
  ASSUME TypeOK, NEW d \in Files, Plain(jnl[d]), Plain(djnl[d]), NEW m \in Journals(d)
  PROVE  /\ m \in Seq(JournalCell) \cup {None} /\ Plain(m)
         /\ IsHdr(m, 1) => \/ IsHdr(jnl[d], 1) /\ m[1] = jnl[d][1]
                           \/ IsHdr(djnl[d], 1) /\ m[1] = djnl[d][1]
<1>1. jnl[d] \in Seq(JournalCell) \cup {None} /\ djnl[d] \in Seq(JournalCell) \cup {None}
  BY DEF TypeOK
<1>2. ASSUME NEW old \in Seq(JournalCell), NEW new \in Seq(JournalCell), Plain(old), Plain(new),
             old # None, new # None, m \in Mixes(old, new, Zero)
      PROVE  /\ m \in Seq(JournalCell) /\ Plain(m)
             /\ IsHdr(m, 1) => \/ IsHdr(new, 1) /\ m[1] = new[1]
                               \/ IsHdr(old, 1) /\ m[1] = old[1]
  <2>1. /\ m \in Seq(JournalCell)
        /\ \A i \in 1 .. Len(m) : \/ i \in 1 .. Len(new) /\ m[i] = new[i]
                                  \/ i \in 1 .. Len(old) /\ m[i] = old[i]
                                  \/ m[i] = Zero
    BY <1>2, ZeroIs, MixIs
  <2>2. Plain(m)
    <3> SUFFICES ASSUME NEW i \in 1 .. Len(m) PROVE m[i].k # "super"
      BY <2>1 DEF Plain
    <3>1. (\A k \in 1 .. Len(new) : new[k].k # "super") /\ \A k \in 1 .. Len(old) : old[k].k # "super"
      BY <1>2 DEF Plain
    <3> QED
      BY <2>1, <3>1, ZeroIs
  <2>3. ASSUME IsHdr(m, 1)
        PROVE  \/ IsHdr(new, 1) /\ m[1] = new[1]
               \/ IsHdr(old, 1) /\ m[1] = old[1]
    <3>1. 1 \in 1 .. Len(m) /\ m[1].k = "hdr" /\ m[1].magic
      BY <2>1, <2>3, CellIs
    <3>2. CASE 1 \in 1 .. Len(new) /\ m[1] = new[1]
      BY <1>2, <3>1, <3>2, CellIs
    <3>3. CASE 1 \in 1 .. Len(old) /\ m[1] = old[1]
      BY <1>2, <3>1, <3>3, CellIs
    <3>4. m[1] # Zero
      BY <3>1, ZeroIs
    <3> QED
      BY <2>1, <3>1, <3>2, <3>3, <3>4
  <2> QED
    BY <2>1, <2>2, <2>3
<1>3. CASE m \in {djnl[d], None}
  BY <1>1, <1>3, NoCell DEF Plain
<1>4. CASE m \notin {djnl[d], None}
  <2>1. jnl[d] # None /\ m \in Mixes(<< >>, jnl[d], Zero) \cup Mixes(djnl[d], jnl[d], Zero)
    BY <1>4 DEF Journals
  <2>2. jnl[d] \in Seq(JournalCell)
    BY <1>1, <2>1
  <2>3. CASE m \in Mixes(<< >>, jnl[d], Zero)
    <3>1. << >> \in Seq(JournalCell) /\ Plain(<< >>) /\ ~IsHdr(<< >>, 1) /\ << >> # None
      <4>1. << >> \in Seq(JournalCell) /\ Len(<< >>) = 0 /\ Plain(<< >>)
        BY DEF Plain
      <4>2. PICK e \in Seq(JournalCell) : e = << >> /\ Len(e) = 0
        BY <4>1
      <4>3. 1 \in Nat /\ 1 \notin 1 .. Len(e)
        BY <4>2
      <4>4. ~IsHdr(e, 1)
        BY <4>3, CellIs
      <4> QED
        BY <4>1, <4>2, <4>4, JournalAssumption
    <3> QED
      BY <1>2, <2>1, <2>2, <2>3, <3>1
  <2>4. CASE m \notin Mixes(<< >>, jnl[d], Zero)
    <3>1. djnl[d] # None /\ m \in Mixes(djnl[d], jnl[d], Zero)
      BY <1>4, <2>1, <2>4 DEF Journals
    <3> QED
      BY <1>1, <1>2, <2>1, <2>2, <3>1
  <2> QED
    BY <2>3, <2>4
<1> QED
  BY <1>3, <1>4
(* Where there is one file, a loss of power keeps the invariant: nobody is *)
(* left, and what is found of the file and its journal are both on disk.   *)
Dark == PowerLoss /\ OneFile

LEMMA DarkFiles ==
  ASSUME Inv, Dark, setting' = setting
  PROVE  /\ db' = ddb' /\ jnl' = djnl' /\ supers' = {} /\ dsupers' = {}
         /\ db' \in [Files -> Seq(Page)] /\ jnl' \in [Files -> Seq(JournalCell) \cup {None}]
         /\ \A d \in Files :
              /\ Plain(jnl'[d])
              /\ Len(db'[d]) \in {Len(ddb[d]), Len(db[d])}
              /\ IsHdr(jnl'[d], 1) => \/ IsHdr(jnl[d], 1) /\ jnl'[d][1] = jnl[d][1]
                                      \/ IsHdr(djnl[d], 1) /\ jnl'[d][1] = djnl[d][1]
<1>1. TypeOK /\ OneFileNoSupers /\ OneFile
  BY DEF Inv, Base, Supered, Dark
<1>2. db' = ddb' /\ jnl' = djnl' /\ supers' = {} /\ dsupers' = {}
  BY <1>1 DEF Dark, PowerLoss, OneFileNoSupers
<1>3. /\ db' \in [Files -> UNION {Mixes(ddb[d], db[d], None) : d \in Files}]
      /\ \A d \in Files : db'[d] \in Mixes(ddb[d], db[d], None)
  BY DEF Dark, PowerLoss
<1>4. /\ jnl' \in [Files -> UNION {Journals(d) : d \in Files}]
      /\ \A d \in Files : jnl'[d] \in Journals(d)
  BY DEF Dark, PowerLoss
<1>5. ASSUME NEW d \in Files
      PROVE  db'[d] \in Seq(Page) /\ Len(db'[d]) \in {Len(ddb[d]), Len(db[d])}
  <2>1. ddb[d] \in Seq(Page) /\ db[d] \in Seq(Page) /\ None \in Page
    BY <1>1 DEF TypeOK, Page
  <2>2. db'[d] \in Mixes(ddb[d], db[d], None)
    BY <1>3
  <2> QED
    BY <2>1, <2>2, MixIs
<1>6. ASSUME NEW d \in Files
      PROVE  /\ jnl'[d] \in Seq(JournalCell) \cup {None} /\ Plain(jnl'[d])
             /\ IsHdr(jnl'[d], 1) => \/ IsHdr(jnl[d], 1) /\ jnl'[d][1] = jnl[d][1]
                                     \/ IsHdr(djnl[d], 1) /\ jnl'[d][1] = djnl[d][1]
  <2>1. Plain(jnl[d]) /\ Plain(djnl[d])
    BY <1>1 DEF OneFileNoSupers
  <2>2. jnl'[d] \in Journals(d)
    BY <1>4
  <2> QED
    BY <1>1, <2>1, <2>2, JournalFound
<1>7. db' \in [Files -> Seq(Page)] /\ jnl' \in [Files -> Seq(JournalCell) \cup {None}]
  BY <1>3, <1>4, <1>5, <1>6
<1> QED
  BY <1>2, <1>5, <1>6, <1>7

LEMMA DarkLocal ==
  ASSUME Inv, Dark
  PROVE  /\ \A c \in Conns :
              /\ \A d \in Files : /\ lock'[c][d] = NONE /\ cache'[c][d] = None
                                  /\ mine'[c][d] = None /\ jw'[c][d] = NoJw
              /\ pc'[c] = "run" /\ op'[c] = "read" /\ cur'[c] = 0 /\ reads'[c] = {}
              /\ txn'[c] = 0 /\ sup'[c] = 0 /\ spill'[c] = 0
         /\ lock' = [c \in Conns |-> [d \in Files |-> NONE]]
         /\ cache' = [c \in Conns |-> [d \in Files |-> None]]
         /\ mine' = [c \in Conns |-> [d \in Files |-> None]]
         /\ jw' = [c \in Conns |-> [d \in Files |-> NoJw]]
         /\ pc' = [c \in Conns |-> "run"] /\ op' = [c \in Conns |-> "read"]
         /\ cur' = [c \in Conns |-> 0] /\ reads' = [c \in Conns |-> {}]
         /\ txn' = [c \in Conns |-> 0] /\ sup' = [c \in Conns |-> 0] /\ spill' = [c \in Conns |-> 0]
         /\ txns' = txns /\ children' = children /\ promised' = promised
         /\ fresh' = {} /\ faults' = faults + 1 /\ spills' = spills
<1>1. Gone(Conns)
  BY DEF Dark, PowerLoss
<1>2. /\ lock' = [c \in Conns |-> [d \in Files |-> NONE]]
      /\ cache' = [c \in Conns |-> [d \in Files |-> None]]
      /\ mine' = [c \in Conns |-> [d \in Files |-> None]]
      /\ jw' = [c \in Conns |-> [d \in Files |-> NoJw]]
  BY <1>1 DEF Gone
<1>3. /\ pc' = [c \in Conns |-> "run"] /\ op' = [c \in Conns |-> "read"]
      /\ cur' = [c \in Conns |-> 0] /\ reads' = [c \in Conns |-> {}]
      /\ txn' = [c \in Conns |-> 0] /\ sup' = [c \in Conns |-> 0] /\ spill' = [c \in Conns |-> 0]
  BY <1>1 DEF Gone
<1>4. /\ txns' = txns /\ children' = children /\ promised' = promised
      /\ fresh' = {} /\ faults' = faults + 1 /\ spills' = spills
  BY DEF Dark, PowerLoss, ghosts, Fault
<1>5. ASSUME NEW c \in Conns, NEW d \in Files
      PROVE  lock'[c][d] = NONE /\ cache'[c][d] = None /\ mine'[c][d] = None /\ jw'[c][d] = NoJw
  BY <1>2
<1>6. ASSUME NEW c \in Conns
      PROVE  /\ pc'[c] = "run" /\ op'[c] = "read" /\ cur'[c] = 0 /\ reads'[c] = {}
             /\ txn'[c] = 0 /\ sup'[c] = 0 /\ spill'[c] = 0
  BY <1>3
<1> QED
  BY <1>2, <1>3, <1>4, <1>5, <1>6

LEMMA NoJwIs == NoJw \in JournalWriter
BY DEF NoJw, JournalWriter

LEMMA DarkTyped ==
  ASSUME Inv, Dark, setting' = setting
  PROVE  TypeOK'
<1>1. TypeOK /\ MaxTxn \in Nat /\ MaxTxn' = MaxTxn
  BY SettingIs DEF Inv, Base, MaxTxn
<1>2. 0 \in 0 .. MaxTxn /\ Txns' = Txns
  BY <1>1 DEF Txns
<1>3. /\ setting' \in Settings
      /\ db' \in [Files -> Seq(Page)] /\ ddb' \in [Files -> Seq(Page)]
      /\ jnl' \in [Files -> Seq(JournalCell) \cup {None}]
      /\ djnl' \in [Files -> Seq(JournalCell) \cup {None}]
      /\ supers' \subseteq Txns' /\ dsupers' \subseteq Txns' /\ fresh' \subseteq Files
  <2>1. setting' \in Settings
    BY <1>1 DEF TypeOK
  <2>2. fresh' = {}
    BY DarkLocal
  <2> QED
    BY <2>1, <2>2, DarkFiles
<1>4. /\ lock' \in [Conns -> [Files -> NONE .. EXCLUSIVE]]
      /\ cache' \in [Conns -> [Files -> Seq(Page) \cup {None}]]
      /\ mine' \in [Conns -> [Files -> Seq(Page) \cup {None}]]
      /\ jw' \in [Conns -> [Files -> JournalWriter]]
  <2>1. NONE \in NONE .. EXCLUSIVE
    BY DEF NONE, EXCLUSIVE
  <2> QED
    BY <2>1, DarkLocal, NoJwIs
<1>5. /\ pc' \in [Conns -> Places]
      /\ op' \in [Conns -> {"read", "hot", "write", "commit", "rollback"}]
      /\ cur' \in [Conns -> Files \cup {0}] /\ reads' \in [Conns -> SUBSET Files]
  BY DarkLocal DEF Places
<1>6. /\ txn' \in [Conns -> 0 .. MaxTxn'] /\ sup' \in [Conns -> 0 .. MaxTxn']
      /\ spill' \in [Conns -> Nat]
  BY <1>1, <1>2, DarkLocal
<1>7. /\ txns' \in 0 .. MaxTxn' /\ children' \in [Txns' -> SUBSET Files] /\ promised' \subseteq Files
      /\ faults' \in Nat /\ spills' \in Nat
  BY <1>1, <1>2, DarkLocal DEF TypeOK
<1> QED
  BY <1>3, <1>4, <1>5, <1>6, <1>7 DEF TypeOK

(* Nobody has a lock, a transaction, or anything to go on with.            *)
LEMMA DarkBase ==
  ASSUME Inv, Dark, setting' = setting
  PROVE  Base' /\ \A c \in Conns, d \in Files : ~InTxn(c, d)'
<1>1. 0 \notin Files
  BY JournalAssumption
<1>2. ASSUME NEW c \in Conns, NEW d \in Files
      PROVE  ~InTxn(c, d)' /\ NothingDone(c, d)'
  BY DarkLocal DEF InTxn, NothingDone
<1>3. Excluded'
  BY DarkLocal DEF Excluded, NONE, SHARED, RESERVED, EXCLUSIVE
<1>4. ASSUME NEW c \in Conns
      PROVE  LocksHeld(c)' /\ Control(c)' /\ TxnKept(c)' /\ Unused(c)'
  <2>1. pc'[c] = "run" /\ op'[c] = "read" /\ reads'[c] = {} /\ sup'[c] = 0
    BY DarkLocal
  <2>2. ~Recovering(c)'
    BY <2>1 DEF Recovering
  <2>3. LocksHeld(c)'
    BY <2>1, <2>2, DarkLocal DEF LocksHeld
  <2>4. Control(c)'
    BY <2>1, <2>2 DEF Control
  <2>5. txns' \in Nat
    BY DarkTyped DEF TypeOK
  <2>6. TxnKept(c)'
    BY <1>2, <2>5, DarkLocal DEF TxnKept
  <2> QED
    BY <1>2, <2>3, <2>4, <2>6 DEF Unused
<1> QED
  BY <1>2, <1>3, <1>4, DarkTyped DEF Base

LEMMA DarkKeeps ==
  ASSUME Inv, Dark, setting' = setting
  PROVE  Inv'
<1>1. Base' /\ \A c \in Conns, d \in Files : ~InTxn(c, d)'
  BY DarkBase
<1>2. \A c \in Conns : /\ pc'[c] = "run" /\ op'[c] = "read" /\ cur'[c] = 0 /\ reads'[c] = {}
                       /\ txn'[c] = 0 /\ sup'[c] = 0
  BY DarkLocal
<1>3. Lives'
  BY <1>1 DEF Lives, Live
<1>4. Phases'
  <2> SUFFICES ASSUME NEW c \in Conns
               PROVE  Stage(c)' /\ Played(c)' /\ Finished(c)' /\ Emptied(c)' /\ Present(c)'
    BY DEF Phases
  <2>1. pc'[c] = "run" /\ op'[c] = "read"
    BY <1>2
  <2>2. ~Writing(c)' /\ ~Preparing(c)' /\ ~Committed(c)'
    BY <2>1 DEF Writing, Preparing, Committed
  <2>3. Stage(c)'
    BY <2>1, <2>2 DEF Stage
  <2>4. Played(c)' /\ Finished(c)' /\ Emptied(c)' /\ Present(c)'
    BY <2>1, <2>2 DEF Played, Finished, Emptied, Present
  <2> QED
    BY <2>3, <2>4
<1>5. Stores'
  <2>1. SeenIsStore'
    BY <1>2 DEF SeenIsStore
  <2>2. CachesFit'
    BY DarkLocal DEF CachesFit
  <2>3. OrigKept'
    BY <1>1 DEF OrigKept
  <2>4. Settled'
    <3> SUFFICES ASSUME NEW d \in Files PROVE Len(db'[d]) <= Len(ddb'[d])
      BY DEF Settled
    <3>1. db'[d] \in Seq(Page) /\ db' = ddb'
      BY DarkFiles
    <3>2. Len(db'[d]) \in Nat
      BY <3>1
    <3> QED
      BY <3>1, <3>2
  <2>5. Quiet'
    <3>1. 0 \notin Files
      BY JournalAssumption
    <3>2. \A c \in Conns, d \in Files : ~Passed(c, d)'
      BY <1>2, <3>1 DEF Passed
    <3> QED
      BY <3>2 DEF Quiet
  <2>6. HotFits'
    <3> SUFFICES ASSUME NEW d \in Files, IsHdr(jnl'[d], 1)
                 PROVE  jnl'[d][1].orig <= Len(db'[d])
      BY <1>1, DarkFiles DEF HotFits
    <3>1. PICK j \in {jnl[d], djnl[d]} : IsHdr(j, 1) /\ jnl'[d][1] = j[1]
      BY DarkFiles
    <3>2. j[1].orig \in Nat /\ j[1].orig <= Len(db[d]) /\ j[1].orig <= Len(ddb[d])
      BY <3>1, HotFitsIs
    <3>3. Len(db'[d]) \in {Len(ddb[d]), Len(db[d])}
      BY DarkFiles
    <3> QED
      BY <3>1, <3>2, <3>3
  <2> QED
    BY <2>1, <2>2, <2>3, <2>4, <2>5, <2>6 DEF Stores
<1>6. \A d \in Files : SuperName(jnl'[d]) = 0 /\ SuperName(djnl'[d]) = 0
  <2> SUFFICES ASSUME NEW d \in Files PROVE SuperName(jnl'[d]) = 0
    BY DarkFiles
  <2>1. jnl'[d] \in Seq(JournalCell) \cup {None} /\ Plain(jnl'[d])
    BY DarkFiles
  <2> QED
    BY <2>1, PlainUnnamed
<1>7. Supered'
  <2>1. \A d \in Files : Names(d)'
    BY <1>6 DEF Names
  <2>2. \A c \in Conns : SupersKept(c)' /\ \A d \in Files : NamesOwned(c, d)'
    BY <1>2 DEF SupersKept, NamesOwned
  <2>3. txns' \in Nat
    BY DarkTyped DEF TypeOK
  <2>4. DiskNames'
    BY <1>6, <2>3, DarkFiles DEF DiskNames
  <2>5. OneFileNoSupers'
    BY DarkFiles DEF OneFileNoSupers
  <2> QED
    BY <2>1, <2>2, <2>4, <2>5 DEF Supered
<1>8. Synced'
  <2>1. \A c \in Conns : DiskSynced(c)'
    BY <1>2 DEF DiskSynced
  <2>2. \A c \in Conns, d \in Files : SyncedKept(c, d)'
    BY <1>1 DEF SyncedKept, Live
  <2> QED
    BY <2>1, <2>2 DEF Synced
<1>9. NothingLost'
  <2> SUFFICES ASSUME NEW d PROVE Fallback(d)' = None
    BY DEF NothingLost
  <2>1. db' = ddb' /\ jnl' = djnl' /\ supers' = dsupers'
    BY DarkFiles
  <2>2. Back(d)' = Store(d)'
    BY <2>1 DEF Back, Store
  <2> QED
    BY <2>2, FallbackIs
<1> QED
  BY <1>1, <1>3, <1>4, <1>5, <1>7, <1>8, <1>9 DEF Inv
-----------------------------------------------------------------------------
(* The invariant holds from the beginning, and with it the properties. *)

LEMMA InitLocal ==
  ASSUME Init
  PROVE  /\ \A c \in Conns :
              /\ \A d \in Files : /\ lock[c][d] = NONE /\ cache[c][d] = None
                                  /\ mine[c][d] = None /\ jw[c][d] = NoJw
              /\ pc[c] = "run" /\ op[c] = "read" /\ cur[c] = 0 /\ reads[c] = {}
              /\ txn[c] = 0 /\ sup[c] = 0
         /\ \A d \in Files : db[d] = ddb[d] /\ jnl[d] = None /\ djnl[d] = None
         /\ supers = {} /\ dsupers = {} /\ txns = 0 /\ promised = {}
BY DEF Init

LEMMA InitTyped ==
  ASSUME Init
  PROVE  TypeOK
<1>1. setting \in Settings /\ setting \in Setting
  BY JournalAssumption DEF Init
<1>2. setting.size \in Nat /\ MaxTxn \in Nat
  BY <1>1, JournalAssumption DEF Setting, MaxTxn
<1>3. [p \in 1 .. setting.size |-> << 0, 0 >>] \in Seq(Page)
  BY <1>2 DEF Page
<1>4. db \in [Files -> Seq(Page)] /\ ddb \in [Files -> Seq(Page)]
  BY <1>3 DEF Init
<1>5. /\ jnl \in [Files -> Seq(JournalCell) \cup {None}]
      /\ djnl \in [Files -> Seq(JournalCell) \cup {None}]
      /\ supers \subseteq Txns /\ dsupers \subseteq Txns /\ fresh \subseteq Files
  BY DEF Init
<1>6. /\ lock \in [Conns -> [Files -> NONE .. EXCLUSIVE]]
      /\ cache \in [Conns -> [Files -> Seq(Page) \cup {None}]]
      /\ mine \in [Conns -> [Files -> Seq(Page) \cup {None}]]
      /\ jw \in [Conns -> [Files -> JournalWriter]]
  <2>1. NONE \in NONE .. EXCLUSIVE
    BY DEF NONE, EXCLUSIVE
  <2> QED
    BY <2>1, NoJwIs DEF Init
<1>7. /\ pc \in [Conns -> Places]
      /\ op \in [Conns -> {"read", "hot", "write", "commit", "rollback"}]
      /\ cur \in [Conns -> Files \cup {0}] /\ reads \in [Conns -> SUBSET Files]
  BY DEF Init, Places
<1>8. /\ txn \in [Conns -> 0 .. MaxTxn] /\ sup \in [Conns -> 0 .. MaxTxn]
      /\ spill \in [Conns -> Nat]
      /\ txns \in 0 .. MaxTxn /\ children \in [Txns -> SUBSET Files] /\ promised \subseteq Files
      /\ faults \in Nat /\ spills \in Nat
  BY <1>2 DEF Init
<1> QED
  BY <1>1, <1>4, <1>5, <1>6, <1>7, <1>8 DEF TypeOK

LEMMA InvInit ==
  ASSUME Init
  PROVE  Inv
<1>1. \A c \in Conns : /\ pc[c] = "run" /\ op[c] = "read" /\ cur[c] = 0 /\ reads[c] = {}
                       /\ txn[c] = 0 /\ sup[c] = 0
  BY InitLocal
<1>2. \A c \in Conns, d \in Files : ~InTxn(c, d) /\ NothingDone(c, d) /\ lock[c][d] = NONE
  BY InitLocal DEF InTxn, NothingDone
<1>3. \A d \in Files : /\ ~IsHdr(jnl[d], 1) /\ ~IsHdr(djnl[d], 1)
                       /\ SuperName(jnl[d]) = 0 /\ SuperName(djnl[d]) = 0
  BY InitLocal, NoCell
<1>4. Base
  <2>1. Excluded
    BY <1>2 DEF Excluded, NONE, SHARED, RESERVED, EXCLUSIVE
  <2>2. ASSUME NEW c \in Conns
        PROVE  LocksHeld(c) /\ Control(c) /\ TxnKept(c) /\ Unused(c)
    <3>1. ~Recovering(c)
      BY <1>1 DEF Recovering
    <3>2. LocksHeld(c)
      BY <1>1, <1>2, <3>1 DEF LocksHeld
    <3>3. Control(c)
      BY <1>1, <3>1 DEF Control
    <3>4. TxnKept(c)
      BY <1>1, <1>2, InitLocal DEF TxnKept
    <3> QED
      BY <1>2, <3>2, <3>3, <3>4 DEF Unused
  <2> QED
    BY <2>1, <2>2, InitTyped DEF Base
<1>5. Lives
  BY <1>2 DEF Lives, Live
<1>6. Phases
  <2> SUFFICES ASSUME NEW c \in Conns
               PROVE  Stage(c) /\ Played(c) /\ Finished(c) /\ Emptied(c) /\ Present(c)
    BY DEF Phases
  <2>1. ~Writing(c) /\ ~Preparing(c) /\ ~Committed(c)
    BY <1>1 DEF Writing, Preparing, Committed
  <2> QED
    BY <1>1, <2>1 DEF Stage, Played, Finished, Emptied, Present
<1>7. Stores
  <2>1. SeenIsStore /\ CachesFit /\ OrigKept /\ HotFits /\ Quiet
    BY <1>1, <1>2, <1>3, InitLocal DEF SeenIsStore, CachesFit, OrigKept, HotFits, Quiet
  <2>2. Settled
    <3> SUFFICES ASSUME NEW d \in Files PROVE Len(db[d]) <= Len(ddb[d])
      BY DEF Settled
    <3>1. db[d] \in Seq(Page) /\ db[d] = ddb[d]
      BY InitLocal, InitTyped DEF TypeOK
    <3>2. Len(db[d]) \in Nat
      BY <3>1
    <3> QED
      BY <3>1, <3>2
  <2> QED
    BY <2>1, <2>2 DEF Stores
<1>8. Supered
  <2>1. \A d \in Files : Names(d) /\ Plain(jnl[d]) /\ Plain(djnl[d])
    BY <1>3, InitLocal DEF Names, Plain
  <2>2. DiskNames /\ OneFileNoSupers
    BY <1>3, <2>1, InitLocal DEF DiskNames, OneFileNoSupers
  <2> QED
    BY <1>1, <2>1, <2>2 DEF Supered, SupersKept, NamesOwned
<1>9. Synced
  BY <1>1, <1>2 DEF Synced, DiskSynced, SyncedKept, Live
<1>10. NothingLost
  BY InitLocal DEF NothingLost
<1> QED
  BY <1>4, <1>5, <1>6, <1>7, <1>8, <1>9, <1>10 DEF Inv

LEMMA ShapesAgain ==
  ASSUME UNCHANGED vars
  PROVE  /\ UNCHANGED << setting, db, jnl, supers, ddb, djnl, dsupers, fresh >>
         /\ UNCHANGED << lock, pc, op, cur, reads, cache, mine, jw, txn, sup, spill >>
         /\ UNCHANGED << txns, children, promised, faults, spills >>
BY DEF vars, disk, ghosts, bounds

(* A step that changes nothing. *)
LEMMA InvSame ==
  ASSUME Inv, UNCHANGED vars
  PROVE  Inv'
<1>1. /\ UNCHANGED << setting, db, jnl, supers, ddb, djnl, dsupers, fresh >>
      /\ UNCHANGED << lock, pc, op, cur, reads, cache, mine, jw, txn, sup, spill >>
      /\ UNCHANGED << txns, children, promised, faults, spills >>
  BY ShapesAgain
<1>2. ASSUME NEW c, NEW d
      PROVE  /\ InTxn(c, d)' = InTxn(c, d) /\ Recovering(c)' = Recovering(c) /\ Alone(c)' = Alone(c)
             /\ Committed(c)' = Committed(c) /\ Preparing(c)' = Preparing(c)
             /\ Writing(c)' = Writing(c) /\ Undone(c, d)' = Undone(c, d)
             /\ Reserved(c)' = Reserved(c) /\ Store(d)' = Store(d) /\ Back(d)' = Back(d)
             /\ Passed(c, d)' = Passed(c, d) /\ Prepared(c, d)' = Prepared(c, d)
             /\ Sealed(c, d)' = Sealed(c, d)
  BY <1>1 DEF InTxn, Recovering, Alone, Committed, Preparing, Writing, Undone, Reserved, Store, Back,
              Passed, Prepared, Sealed
<1>3. ASSUME NEW c, NEW d
      PROVE  Live(c, d)' = Live(c, d) /\ Several(c)' = Several(c) /\ Fallback(d)' = Fallback(d)
  BY <1>1, <1>2 DEF Live, Several, Fallback, Back
<1>4. (OneFile <=> OneFile') /\ (Durable <=> Durable')
  BY <1>1 DEF OneFile, Durable, JMode, Full, Extra
<1>5. TypeOK'
  BY <1>1 DEF Inv, Base, TypeOK, Txns, MaxTxn
<1>6. Base'
  BY <1>1, <1>2, <1>5 DEF Inv, Base, Excluded, LocksHeld, Control, TxnKept, Unused, NothingDone
<1>7. Lives'
  BY <1>1, <1>2, <1>3 DEF Inv, Lives, JournalKept, DraftKept
<1>8. Phases'
  <2> SUFFICES ASSUME NEW c \in Conns
               PROVE  Stage(c)' /\ Played(c)' /\ Finished(c)' /\ Emptied(c)' /\ Present(c)'
    BY DEF Phases
  <2>1. Stage(c) /\ Played(c) /\ Finished(c) /\ Emptied(c) /\ Present(c)
    BY DEF Inv, Phases
  <2>2. Stage(c)'
    BY <1>1, <1>2, <1>3, <2>1 DEF Stage
  <2>3. Played(c)' /\ Finished(c)' /\ Emptied(c)' /\ Present(c)'
    BY <1>1, <1>2, <1>3, <2>1 DEF Played, Finished, Emptied, Present
  <2> QED
    BY <2>2, <2>3
<1>9. Stores'
  BY <1>1, <1>2, <1>3 DEF Inv, Stores, SeenIsStore, CachesFit, HotFits, OrigKept, Settled, Quiet
<1>10. Supered'
  BY <1>1, <1>2, <1>4 DEF Inv, Supered, Names, NamesOwned, SupersKept, DiskNames, OneFileNoSupers
<1>11. Synced'
  BY <1>1, <1>2, <1>3, <1>4 DEF Inv, Synced, DiskSynced, SyncedKept
<1>12. NothingLost'
  BY <1>1, <1>3, <1>4 DEF Inv, NothingLost
<1> QED
  BY <1>6, <1>7, <1>8, <1>9, <1>10, <1>11, <1>12 DEF Inv

(* Power is lost only where one file is used.                              *)
Tame == PowerLoss => OneFile

LEMMA InvStep ==
  ASSUME Inv, [Next]_vars, Tame
  PROVE  Inv'
<1>1. CASE Next
  <2>1. CASE PowerLoss
    BY <1>1, <2>1, NextCases, DarkKeeps DEF Dark, Tame
  <2>2. CASE \E c \in Conns : Acts(c)
    <3>1. PICK c \in Conns : Acts(c)
      BY <2>2
    <3> QED
      BY <1>1, <3>1, NextCases, ActsKeep
  <2> QED
    BY <1>1, <2>1, <2>2, NextCases
<1>2. CASE UNCHANGED vars
  BY <1>2, InvSame
<1> QED
  BY <1>1, <1>2

(* A reader's cache is what the file holds: nobody but its writer reads a  *)
(* file whose journal is hot.                                              *)
LEMMA InvCurrent ==
  ASSUME Inv
  PROVE  CacheCurrent
<1> SUFFICES ASSUME NEW c \in Conns, NEW d \in reads[c], ~jw[c][d].mod
             PROVE  cache[c][d] = db[d]
  BY DEF CacheCurrent
<1>1. d \in Files /\ TypeOK /\ db[d] \in Seq(Page) /\ jnl[d] \in Seq(JournalCell) \cup {None}
  BY DEF Inv, Base, TypeOK
<1>2. cache[c][d] = Store(d)
  BY DEF Inv, Stores, SeenIsStore
<1>3. CASE ~IsHdr(jnl[d], 1)
  BY <1>1, <1>2, <1>3, Storeless
<1>4. CASE IsHdr(jnl[d], 1)
  <2>1. \/ Live(c, d) /\ jw[c][d].off # 0
        \/ ~Counts(jnl[d], supers)
    BY <1>1, <1>4 DEF Inv, Stores, Quiet, Passed
  <2>2. CASE Live(c, d) /\ jw[c][d].off # 0
    <3>1. Journal(jnl[d], jw[c][d], cache[c][d], db[d])
      BY <2>2, <1>1, LiveIs DEF JournalKept
    <3> QED
      BY <3>1 DEF Journal, Restorable
  <2>3. CASE ~Counts(jnl[d], supers)
    BY <1>1, <1>2, <2>3, RestoredType DEF Store
  <2> QED
    BY <2>1, <2>2, <2>3
<1> QED
  BY <1>3, <1>4

(* The invariant, of every behaviour in which power is lost only where one *)
(* file is used.                                                           *)
LEMMA InvAlways == Spec /\ [][Tame]_vars => []Inv
<1>1. Inv /\ [Next]_vars /\ [Tame]_vars => Inv'
  BY InvStep, InvSame
<1> QED
  BY InvInit, <1>1, PTL DEF Spec

(* sqlite3PagerSharedLock, pager_playback, pager_end_transaction,          *)
(* sqlite3PagerCommitPhaseOne: a connection that reads a file and has not  *)
(* begun to change it has in its cache what is in the file, whatever       *)
(* crashes and hot journals there were, for any number of connections,     *)
(* transactions and pages.                                                 *)
THEOREM CacheStaysCurrent == Spec /\ [][Tame]_vars => []CacheCurrent
<1>1. Inv => CacheCurrent
  BY InvCurrent
<1> QED
  BY InvAlways, <1>1, PTL

(* Where a commit is said to be durable, what would be found after a loss  *)
(* of power is what the file holds, from the end of the commit on.         *)
THEOREM PromisedStays == Spec /\ [][Tame]_vars => []NothingLost
<1>1. Inv => NothingLost
  BY DEF Inv
<1> QED
  BY InvAlways, <1>1, PTL

(* pagerLockDb, pagerUnlockDb as the callers use them: a connection that   *)
(* writes is the only one, and an exclusive lock leaves no other.          *)
THEOREM LocksExclude == Spec /\ [][Tame]_vars => []Excluded
<1>1. Inv => Excluded
  BY DEF Inv, Base
<1> QED
  BY InvAlways, <1>1, PTL

(* Every variable keeps its type: no journal, cache or file is read beyond *)
(* its end.                                                                *)
THEOREM JournalTyped == Spec /\ [][Tame]_vars => []TypeOK
<1>1. Inv => TypeOK
  BY DEF Inv, Base
<1> QED
  BY InvAlways, <1>1, PTL
-----------------------------------------------------------------------------
(* Atomic commit: without a loss of power, every step is one of            *)
(* AtomicCommit, or changes nothing there.                                 *)

(* A file has no hole, and neither has what a connection makes of it.      *)
LEMMA ContentsIs ==
  ASSUME NEW f
  PROVE  f \in Contents <=> f \in Seq(Nat \X Nat) /\ Len(f) <= NPages
BY DEF Contents

LEMMA ContentsOf ==
  ASSUME NEW n \in 0 .. NPages, NEW f \in [1 .. n -> Nat \X Nat]
  PROVE  f \in Contents
<1>1. n \in Nat /\ n <= NPages
  BY JournalAssumption
<1>2. f \in Seq(Nat \X Nat)
  BY <1>1
<1>3. PICK l \in Nat : l = Len(f) /\ DOMAIN f = 1 .. l
  BY <1>2
<1>4. l \in 1 .. l => l \in 1 .. n
  BY <1>3
<1>5. l <= NPages
  BY <1>1, <1>4, JournalAssumption
<1> QED
  BY <1>2, <1>3, <1>5, ContentsIs

LEMMA ContentsPut ==
  ASSUME NEW f \in Contents, NEW p \in Pages, p <= Len(f) + 1, NEW x \in Nat \X Nat
  PROVE  Put(f, p, x, None) \in Contents
<1>1. f \in Seq(Nat \X Nat) /\ Len(f) <= NPages /\ Len(f) \in Nat
  BY ContentsIs
<1>2. p \in Nat \ {0} /\ p <= NPages /\ NPages \in Nat
  BY JournalAssumption DEF Pages
<1>3. PICK l \in Nat : l = Len(f)
  BY <1>1
<1>4. PICK n \in Nat : n = IF l <= p THEN p ELSE l
  BY <1>2
<1>5. Put(f, p, x, None) = [k \in 1 .. n |-> IF k = p THEN x ELSE IF k <= l THEN f[k] ELSE None]
  BY <1>1, <1>2, <1>3, <1>4, PutIs
<1>6. n \in 0 .. NPages
  BY <1>1, <1>2, <1>3, <1>4
<1>7. \A k \in 1 .. n : (IF k = p THEN x ELSE IF k <= l THEN f[k] ELSE None) \in Nat \X Nat
  <2> SUFFICES ASSUME NEW k \in 1 .. n
               PROVE  (IF k = p THEN x ELSE IF k <= l THEN f[k] ELSE None) \in Nat \X Nat
    OBVIOUS
  <2>1. k = p \/ k \in 1 .. l
    BY <1>2, <1>3, <1>4
  <2>2. k \in 1 .. l => f[k] \in Nat \X Nat
    BY <1>1, <1>3
  <2> QED
    BY <1>3, <2>1, <2>2
<1>8. Put(f, p, x, None) \in [1 .. n -> Nat \X Nat]
  BY <1>5, <1>7
<1> QED
  BY <1>6, <1>8, ContentsOf

Whole ==
  /\ \A d \in Files : Store(d) \in Contents
  /\ \A c \in Conns, d \in Files : mine[c][d] # None => mine[c][d] \in Contents

LEMMA WholeInit ==
  ASSUME Init
  PROVE  Whole
<1>1. setting \in Setting /\ setting.size \in 0 .. NPages
  BY JournalAssumption DEF Init, Setting
<1>2. [p \in 1 .. setting.size |-> << 0, 0 >>] \in Contents
  BY <1>1, ContentsOf
<1>3. \A d \in Files : db[d] \in Contents /\ ~IsHdr(jnl[d], 1)
  BY <1>2, NoCell DEF Init
<1>4. \A d \in Files : Store(d) \in Contents
  BY <1>3 DEF Store, Restored
<1> QED
  BY <1>4, InitLocal DEF Whole

(* What a step does to the draft of its connection.                        *)
MineMoves(c, e) ==
  \/ mine'[c][e] \in {mine[c][e], None}
  \/ \E p \in Pages : Write(c, e, p)
  \/ Prepare(c) /\ e = cur[c]

LEMMA MineMovesIs ==
  ASSUME Inv, NEW c \in Conns, Acts(c), NEW e \in Files
  PROVE  MineMoves(c, e)
<1>1. FileShapes /\ ControlTypes(c) /\ Shapes
  BY ControlTyped, FileShapesOK DEF Inv, Base
<1>2. CASE HotExists(c)
  BY <1>2 DEF HotExists, MineMoves, local
<1>3. CASE HotReserved(c)
  BY <1>3 DEF HotReserved, MineMoves, local
<1>4. CASE HotEmpty(c)
  BY <1>4 DEF HotEmpty, MineMoves, local
<1>5. CASE HotByte(c)
  BY <1>5 DEF HotByte, MineMoves, local
<1>6. CASE HotLock(c)
  BY <1>6 DEF HotLock, MineMoves, local
<1>7. CASE HotOpen(c)
  BY <1>7 DEF HotOpen, MineMoves, local
<1>8. CASE PlayTruncate(c)
  BY <1>8 DEF PlayTruncate, MineMoves, local
<1>9. CASE PlayPage(c)
  BY <1>9 DEF PlayPage, MineMoves, local
<1>10. CASE PlaySync(c)
  BY <1>10 DEF PlaySync, MineMoves, local
<1>11. CASE Fin(c)
  <2>1. PICK d : d = cur[c]
    OBVIOUS
  <2>2. d \in Files /\ (mine' = mine \/ mine' = [mine EXCEPT ![c][d] = None])
    BY <2>1, <1>11, FinDoes
  <2> QED
    BY <1>1, <2>2 DEF MineMoves, Shapes, FileShapes
<1>12. CASE FinSync(c)
  BY <1>12 DEF FinSync, MineMoves, local
<1>13. CASE Unlock(c)
  <2>1. mine' = mine \/ mine' = [mine EXCEPT ![c][cur[c]] = None]
    BY <1>13 DEF Unlock
  <2>2. CASE e = cur[c]
    BY <1>1, <2>1, <2>2 DEF MineMoves, Shapes, FileShapes
  <2>3. CASE e # cur[c]
    BY <1>1, <2>1, <2>3 DEF MineMoves, Shapes, FileShapes
  <2> QED
    BY <2>2, <2>3
<1>14. CASE DelSuper(c)
  BY <1>14 DEF DelSuper, MineMoves, local
<1>15. CASE NextFile(c)
  BY <1>15 DEF NextFile, MineMoves, local
<1>16. CASE Check(c)
  BY <1>16 DEF Check, MineMoves, local
<1>17. CASE CommitLock(c)
  BY <1>17 DEF CommitLock, MineMoves, local
<1>18. CASE WriteSuper(c)
  BY <1>18 DEF WriteSuper, MineMoves, local
<1>19. CASE Prepare(c)
  <2>1. mine' = [mine EXCEPT ![c][cur[c]][1] = << txn[c], Incremented(c) >>]
    BY <1>19 DEF Prepare
  <2>2. CASE e = cur[c]
    BY <2>2, <1>19 DEF MineMoves
  <2>3. CASE e # cur[c]
    BY <1>1, <2>1, <2>3 DEF MineMoves, Shapes, FileShapes
  <2> QED
    BY <2>2, <2>3
<1>20. CASE SyncRecords(c)
  BY <1>20 DEF SyncRecords, MineMoves, local
<1>21. CASE Count(c)
  BY <1>21 DEF Count, MineMoves, local
<1>22. CASE SyncCount(c)
  BY <1>22 DEF SyncCount, MineMoves, local
<1>23. CASE WritePage(c)
  BY <1>23 DEF WritePage, MineMoves, local
<1>24. CASE SyncDb(c)
  BY <1>24 DEF SyncDb, MineMoves, local
<1>25. CASE DeleteSuper(c)
  BY <1>1, <1>25 DEF DeleteSuper, MineMoves, Shapes
<1>26. CASE End(c)
  BY <1>26 DEF End, MineMoves, local
<1>27. CASE Commit(c)
  BY <1>27 DEF Commit, MineMoves, local
<1>28. CASE Rollback(c)
  BY <1>28 DEF Rollback, MineMoves, local
<1>29. CASE Crash(c)
  BY <1>1, <1>29 DEF Crash, Gone, MineMoves
<1>30. ASSUME NEW d \in Files, Open(c, d) PROVE MineMoves(c, e)
  BY <1>30 DEF Open, MineMoves, local
<1>31. ASSUME NEW d \in Files, Reserve(c, d) PROVE MineMoves(c, e)
  BY <1>31 DEF Reserve, MineMoves, local
<1>32. ASSUME NEW d \in Files, NEW p \in Pages, Write(c, d, p) PROVE MineMoves(c, e)
  <2>1. CASE e = d
    BY <2>1, <1>32 DEF MineMoves
  <2>2. CASE e # d
    BY <1>1, <2>2, <1>32 DEF Write, MineMoves, Shapes, FileShapes
  <2> QED
    BY <2>1, <2>2
<1>33. ASSUME NEW d \in Files, NEW p \in Pages, Spill(c, d, p) PROVE MineMoves(c, e)
  BY <1>33 DEF Spill, MineMoves, local
<1> QED
  BY <1>2, <1>3, <1>4, <1>5, <1>6, <1>7, <1>8, <1>9, <1>10, <1>11, <1>12, <1>13, <1>14, <1>15,
     <1>16, <1>17, <1>18, <1>19, <1>20, <1>21, <1>22, <1>23, <1>24, <1>25, <1>26, <1>27, <1>28,
     <1>29, <1>30, <1>31, <1>32, <1>33 DEF Acts, Step

LEMMA WrittenWhole ==
  ASSUME Inv, Whole, NEW c \in Conns, NEW e \in Files, NEW p \in Pages, Write(c, e, p)
  PROVE  mine'[c][e] \in Contents
<1>1. Works(c, e) /\ FileShapes /\ Shapes
  BY FileShapesOK, ShapesOK DEF Works, Inv, Base
<1>2. Live(c, e)
  BY <1>1, WorksDoes DEF WorkDone
<1>3. cache[c][e] = Store(e) /\ cache[c][e] \in Seq(Page) /\ txn[c] \in Nat
  BY <1>2, LiveIs
<1>4. PICK x : x = << txn[c], IF p = 1 THEN Counter(cache[c][e]) ELSE 0 >>
  OBVIOUS
<1>5. x \in Nat \X Nat
  <2>1. Counter(cache[c][e]) \in Nat
    BY <1>3, PageOneIs
  <2> QED
    BY <1>3, <1>4, <2>1
<1>6. PICK m : m = Mine(c, e)
  OBVIOUS
<1>7. m \in Contents
  BY <1>3, <1>6 DEF Mine, Whole
<1>8. mine' = [mine EXCEPT ![c][e] = Put(m, p, x, None)] /\ p <= Len(m) + IF setting.grow THEN 1 ELSE 0
  BY <1>4, <1>6 DEF Write
<1>9. Len(m) \in Nat /\ p \in Nat
  BY <1>7, ContentsIs, JournalAssumption DEF Pages
<1>10. p <= Len(m) + 1
  BY <1>8, <1>9
<1>11. Put(m, p, x, None) \in Contents
  BY <1>5, <1>7, <1>10, ContentsPut
<1>12. mine'[c][e] = Put(m, p, x, None)
  BY <1>1, <1>8 DEF Shapes, FileShapes
<1> QED
  BY <1>11, <1>12

LEMMA PreparedWhole ==
  ASSUME Inv, Whole, NEW c \in Conns, Prepare(c), NEW e, e = cur[c]
  PROVE  /\ e \in Files /\ Live(c, e) /\ mine[c][e] \in Contents /\ mine'[c][e] \in Contents
         /\ mine' = [mine EXCEPT ![c][e] = mine'[c][e]] /\ op[c] = "commit" /\ op' = op
<1>1. /\ e \in Files /\ Live(c, e) /\ jw[c][e].off # 0
      /\ mine' = [mine EXCEPT ![c][e] = mine'[c][e]]
  BY PrepareDoes
<1>2. op[c] = "commit" /\ op' = op
  BY DEF Prepare, At, Inv, Base, Control
<1>3. mine[c][e] # None /\ cache[c][e] \in Seq(Page) /\ txn[c] \in Nat
  BY <1>1, <1>2, LiveIs DEF DraftKept
<1>4. mine[c][e] \in Contents
  BY <1>1, <1>3 DEF Whole
<1>5. PICK x : x = << txn[c], Incremented(c) >>
  OBVIOUS
<1>6. x \in Nat \X Nat
  <2>1. Counter(cache[c][e]) \in Nat
    BY <1>3, PageOneIs
  <2>2. Incremented(c) \in Nat
    BY <2>1 DEF Incremented
  <2> QED
    BY <1>3, <1>5, <2>2
<1>7. mine'[c][e] = [mine[c][e] EXCEPT ![1] = x]
  <2>1. mine' = [mine EXCEPT ![c][e][1] = x]
    BY <1>5 DEF Prepare
  <2>2. FileShapes /\ Shapes
    BY FileShapesOK, ShapesOK DEF Inv, Base
  <2> QED
    BY <1>1, <2>1, <2>2 DEF FileShapes, Shapes
<1>8. mine'[c][e] \in Contents
  <2>1. PICK n \in 0 .. NPages : mine[c][e] \in [1 .. n -> Nat \X Nat]
    <3>1. mine[c][e] \in Seq(Nat \X Nat) /\ Len(mine[c][e]) <= NPages
      BY <1>4, ContentsIs
    <3>2. PICK m \in Seq(Nat \X Nat) : m = mine[c][e]
      BY <3>1
    <3>3. PICK l \in Nat : l = Len(m)
      OBVIOUS
    <3>4. m \in [1 .. l -> Nat \X Nat]
      BY <3>3
    <3>5. l \in 0 .. NPages
      BY <3>1, <3>2, <3>3, JournalAssumption
    <3> QED
      BY <3>2, <3>4, <3>5
  <2>2. mine'[c][e] \in [1 .. n -> Nat \X Nat]
    BY <1>6, <1>7, <2>1
  <2> QED
    BY <2>1, <2>2, ContentsOf
<1> QED
  BY <1>1, <1>2, <1>4, <1>8

LEMMA WholeKept ==
  ASSUME Inv, Whole, NEW c \in Conns, Acts(c)
  PROVE  Whole'
<1>1. ASSUME NEW e \in Files
      PROVE  Store(e)' \in Contents
  <2>1. CASE Store(e)' = Store(e)
    BY <2>1 DEF Whole
  <2>2. CASE Delivers(c, e)
    <3>1. Store(e)' = mine[c][e] /\ mine[c][e] \in Seq(Page)
      BY <2>2, DeliversDoes
    <3>2. mine[c][e] # None
      BY <3>1, JournalAssumption
    <3> QED
      BY <3>1, <3>2 DEF Whole
  <2> QED
    BY <2>1, <2>2, StoreMoves
<1>2. ASSUME NEW o \in Conns, NEW e \in Files, mine'[o][e] # None
      PROVE  mine'[o][e] \in Contents
  <2>1. CASE o # c
    <3>1. mine'[o] = mine[o]
      BY <2>1, Others DEF Alike, Inv, Base
    <3> QED
      BY <1>2, <3>1 DEF Whole
  <2>2. CASE o = c
    <3>1. CASE mine'[c][e] \in {mine[c][e], None}
      BY <1>2, <2>2, <3>1 DEF Whole
    <3>2. CASE \E p \in Pages : Write(c, e, p)
      BY <2>2, <3>2, WrittenWhole
    <3>3. CASE Prepare(c) /\ e = cur[c]
      BY <2>2, <3>3, PreparedWhole
    <3> QED
      BY <3>1, <3>2, <3>3, MineMovesIs DEF MineMoves
  <2> QED
    BY <2>1, <2>2
<1> QED
  BY <1>1, <1>2 DEF Whole

LEMMA AbstractIs ==
  /\ \A d \in Files : Held[d] = Store(d) /\ Held'[d] = Store(d)'
  /\ \A d \in Files : Left[d] = Fallback(d) /\ Left'[d] = Fallback(d)'
  /\ \A c \in Conns, d \in Files :
       /\ Seen[c][d] = IF d \in reads[c] THEN cache[c][d] ELSE None
       /\ Seen'[c][d] = IF d \in reads'[c] THEN cache'[c][d] ELSE None
       /\ Drafted[c][d] = IF op[c] = "rollback" THEN None ELSE mine[c][d]
       /\ Drafted'[c][d] = IF op'[c] = "rollback" THEN None ELSE mine'[c][d]
BY DEF Held, Left, Seen, Drafted

LEMMA AbstractShapes ==
  /\ Held = [d \in Files |-> Held[d]] /\ Held' = [d \in Files |-> Held'[d]]
  /\ Left = [d \in Files |-> Left[d]] /\ Left' = [d \in Files |-> Left'[d]]
  /\ Seen = [c \in Conns |-> Seen[c]] /\ Seen' = [c \in Conns |-> Seen'[c]]
  /\ Drafted = [c \in Conns |-> Drafted[c]] /\ Drafted' = [c \in Conns |-> Drafted'[c]]
  /\ \A c \in Conns :
       /\ Seen[c] = [d \in Files |-> Seen[c][d]] /\ Seen'[c] = [d \in Files |-> Seen'[c][d]]
       /\ Drafted[c] = [d \in Files |-> Drafted[c][d]]
       /\ Drafted'[c] = [d \in Files |-> Drafted'[c][d]]
BY DEF Held, Left, Seen, Drafted

(* A step that AtomicCommit does not see in its connection.                *)
Unseen(c) ==
  /\ reads'[c] = reads[c] /\ cache'[c] = cache[c]
  /\ \A d \in Files : Drafted'[c][d] = Drafted[c][d]

LEMMA DraftSame ==
  ASSUME NEW c \in Conns, mine'[c] = mine[c], op'[c] = "rollback" <=> op[c] = "rollback"
  PROVE  \A d \in Files : Drafted'[c][d] = Drafted[c][d]
BY AbstractIs

LEMMA RollbackEnds ==
  ASSUME Inv, NEW c \in Conns, Unlock(c)
  PROVE  \A d \in Files : Drafted'[c][d] = Drafted[c][d]
<1>1. /\ FileShapes /\ ControlTypes(c) /\ Shapes /\ Control(c) /\ Stage(c) /\ Unused(c) /\ pc[c] = "unlock"
  BY ControlTyped, FileShapesOK DEF Inv, Base, Phases, Unlock, At
<1>2. (op[c] \in {"hot", "commit", "rollback"} /\ ~Recovering(c)) \/ op[c] = "hot"
  BY <1>1 DEF Control, Recovering
<1>3. PICK f : f = cur[c]
  OBVIOUS
<1>4. /\ op[c] = "hot" => mine' = mine /\ op' = op
      /\ op[c] # "hot" => mine' = [mine EXCEPT ![c][f] = None]
      /\ op' = op \/ (op[c] # "hot" /\ Last(c) /\ op' = [op EXCEPT ![c] = "read"])
  BY <1>3 DEF Unlock
<1>5. CASE op[c] = "hot"
  BY <1>4, <1>5, DraftSame
<1>6. CASE op[c] = "commit"
  <2>1. Committed(c) /\ mine[c][f] = None
    BY <1>1, <1>3, <1>6 DEF Stage, Committed
  <2>2. \A d \in Files : mine'[c][d] = mine[c][d]
    BY <1>1, <1>4, <1>6, <2>1 DEF Shapes, FileShapes
  <2>3. op'[c] # "rollback"
    BY <1>1, <1>4, <1>6 DEF Shapes
  <2> QED
    BY <1>6, <2>2, <2>3, AbstractIs
<1>7. CASE op[c] = "rollback"
  <2> SUFFICES ASSUME NEW d \in Files PROVE Drafted'[c][d] = None
    BY <1>7, AbstractIs
  <2>1. CASE op' = op
    BY <1>7, <2>1, AbstractIs
  <2>2. CASE Last(c) /\ d = f
    <3>1. mine'[c][d] = None
      BY <1>1, <1>4, <1>7, <2>2 DEF Shapes, FileShapes
    <3> QED
      BY <3>1, AbstractIs
  <2>3. CASE Last(c) /\ d # f
    <3>1. d \notin Reserved(c)
      BY <1>3, <2>3 DEF Last
    <3>2. ~InTxn(c, d)
      BY <3>1 DEF Reserved, InTxn
    <3>3. mine[c][d] = None
      BY <1>1, <3>2 DEF Unused, NothingDone
    <3>4. mine'[c][d] = None
      BY <1>1, <1>4, <1>7, <2>3, <3>3 DEF Shapes, FileShapes
    <3> QED
      BY <3>4, AbstractIs
  <2> QED
    BY <1>4, <2>1, <2>2, <2>3
<1> QED
  BY <1>1, <1>5, <1>6, <1>7 DEF Control

LEMMA RollbackOver ==
  ASSUME Inv, NEW c \in Conns, DelSuper(c)
  PROVE  \A d \in Files : Drafted'[c][d] = Drafted[c][d]
<1>1. ControlTypes(c) /\ Shapes /\ Unused(c)
  BY ControlTyped DEF Inv, Base
<1>2. /\ mine' = mine
      /\ op' = op \/ (Reserved(c) = {} /\ op' = [op EXCEPT ![c] = "read"])
  BY DEF DelSuper
<1>3. CASE op' = op
  BY <1>2, <1>3, DraftSame
<1>4. CASE Reserved(c) = {} /\ op'[c] = "read"
  <2> SUFFICES ASSUME NEW d \in Files PROVE Drafted'[c][d] = Drafted[c][d]
    OBVIOUS
  <2>1. ~InTxn(c, d)
    BY <1>4 DEF Reserved, InTxn
  <2>2. mine[c][d] = None
    BY <1>1, <2>1 DEF Unused, NothingDone
  <2> QED
    BY <1>2, <2>2, AbstractIs
<1> QED
  BY <1>1, <1>2, <1>3, <1>4 DEF Shapes

(* What AtomicCommit sees.                                                 *)
Visible(c) ==
  \/ \E d \in Files, p \in Pages : Write(c, d, p)
  \/ Prepare(c) \/ Check(c) \/ End(c) \/ Crash(c) \/ Rollback(c)
  \/ \E d \in Files : Delivers(c, d)

LEMMA UnseenIs ==
  ASSUME Inv, NEW c \in Conns, Acts(c)
  PROVE  Unseen(c) \/ Visible(c)
<1> USE DEF At, Go
<1>1. ControlTypes(c) /\ Shapes /\ Control(c)
  BY ControlTyped DEF Inv, Base
<1>2. CASE HotExists(c)
  <2>1. reads' = reads /\ cache' = cache /\ mine' = mine /\ op' = op
    BY <1>2 DEF HotExists, local
  <2> QED
    BY <2>1, DraftSame DEF Unseen
<1>3. CASE HotReserved(c)
  <2>1. reads' = reads /\ cache' = cache /\ mine' = mine /\ op' = op
    BY <1>3 DEF HotReserved, local
  <2> QED
    BY <2>1, DraftSame DEF Unseen
<1>4. CASE HotEmpty(c)
  <2>1. reads' = reads /\ cache' = cache /\ mine' = mine /\ op' = op
    BY <1>4 DEF HotEmpty, local
  <2> QED
    BY <2>1, DraftSame DEF Unseen
<1>5. CASE HotByte(c)
  <2>1. reads' = reads /\ cache' = cache /\ mine' = mine /\ op' = op
    BY <1>5 DEF HotByte, local
  <2> QED
    BY <2>1, DraftSame DEF Unseen
<1>6. CASE HotLock(c)
  <2>1. reads' = reads /\ cache' = cache /\ mine' = mine /\ op' = op
    BY <1>6 DEF HotLock, local
  <2> QED
    BY <2>1, DraftSame DEF Unseen
<1>7. CASE HotOpen(c)
  <2>1. reads' = reads /\ cache' = cache /\ mine' = mine
    BY <1>7 DEF HotOpen, local
  <2>2. op'[c] # "rollback" /\ op[c] # "rollback"
    BY <1>1, <1>7 DEF HotOpen, Control, Shapes
  <2> QED
    BY <2>1, <2>2, DraftSame DEF Unseen
<1>8. CASE PlayTruncate(c)
  <2>1. reads' = reads /\ cache' = cache /\ mine' = mine /\ op' = op
    BY <1>8 DEF PlayTruncate, local
  <2> QED
    BY <2>1, DraftSame DEF Unseen
<1>9. CASE PlayPage(c)
  <2>1. reads' = reads /\ cache' = cache /\ mine' = mine /\ op' = op
    BY <1>9 DEF PlayPage, local
  <2> QED
    BY <2>1, DraftSame DEF Unseen
<1>10. CASE PlaySync(c)
  <2>1. reads' = reads /\ cache' = cache /\ mine' = mine /\ op' = op
    BY <1>10 DEF PlaySync, local
  <2> QED
    BY <2>1, DraftSame DEF Unseen
<1>11. CASE Fin(c)
  <2>1. CASE FinCommits(c)
    <3>1. cur[c] \in Files
      BY <1>11, FinDoes
    <3> QED
      BY <1>11, <2>1, <3>1 DEF Visible, Delivers
  <2>2. CASE ~FinCommits(c)
    <3>1. cache' = cache /\ mine' = mine /\ reads' = reads /\ op' = op
      BY <1>11, <2>2, FinDoes DEF Fin
    <3> QED
      BY <3>1, DraftSame DEF Unseen
  <2> QED
    BY <2>1, <2>2
<1>12. CASE FinSync(c)
  <2>1. reads' = reads /\ cache' = cache /\ mine' = mine /\ op' = op
    BY <1>12 DEF FinSync, local
  <2> QED
    BY <2>1, DraftSame DEF Unseen
<1>13. CASE Unlock(c)
  <2>1. reads' = reads /\ cache' = cache
    BY <1>13 DEF Unlock
  <2> QED
    BY <1>13, <2>1, RollbackEnds DEF Unseen
<1>14. CASE DelSuper(c)
  <2>1. reads' = reads /\ cache' = cache
    BY <1>14 DEF DelSuper
  <2> QED
    BY <1>14, <2>1, RollbackOver DEF Unseen
<1>15. CASE NextFile(c)
  <2>1. reads' = reads /\ cache' = cache /\ mine' = mine /\ op' = op
    BY <1>15 DEF NextFile, local
  <2> QED
    BY <2>1, DraftSame DEF Unseen
<1>16. CASE Check(c)
  BY <1>16 DEF Visible
<1>17. CASE CommitLock(c)
  <2>1. reads' = reads /\ cache' = cache /\ mine' = mine /\ op' = op
    BY <1>17 DEF CommitLock, local
  <2> QED
    BY <2>1, DraftSame DEF Unseen
<1>18. CASE WriteSuper(c)
  <2>1. reads' = reads /\ cache' = cache /\ mine' = mine /\ op' = op
    BY <1>18 DEF WriteSuper, local
  <2> QED
    BY <2>1, DraftSame DEF Unseen
<1>19. CASE Prepare(c)
  BY <1>19 DEF Visible
<1>20. CASE SyncRecords(c)
  <2>1. reads' = reads /\ cache' = cache /\ mine' = mine /\ op' = op
    BY <1>20 DEF SyncRecords, local
  <2> QED
    BY <2>1, DraftSame DEF Unseen
<1>21. CASE Count(c)
  <2>1. reads' = reads /\ cache' = cache /\ mine' = mine /\ op' = op
    BY <1>21 DEF Count, local
  <2> QED
    BY <2>1, DraftSame DEF Unseen
<1>22. CASE SyncCount(c)
  <2>1. reads' = reads /\ cache' = cache /\ mine' = mine /\ op' = op
    BY <1>22 DEF SyncCount, local
  <2> QED
    BY <2>1, DraftSame DEF Unseen
<1>23. CASE WritePage(c)
  <2>1. reads' = reads /\ cache' = cache /\ mine' = mine /\ op' = op
    BY <1>23 DEF WritePage, local
  <2> QED
    BY <2>1, DraftSame DEF Unseen
<1>24. CASE SyncDb(c)
  <2>1. reads' = reads /\ cache' = cache /\ mine' = mine /\ op' = op
    BY <1>24 DEF SyncDb, local
  <2> QED
    BY <2>1, DraftSame DEF Unseen
<1>25. CASE DeleteSuper(c)
  <2>1. InTxn(c, cur[c]) /\ cur[c] \in Files
    BY <1>1, <1>25 DEF DeleteSuper, Control, InTxn, ControlTypes
  <2> QED
    BY <1>25, <2>1 DEF Visible, Delivers
<1>26. CASE End(c)
  BY <1>26 DEF Visible
<1>27. CASE Commit(c)
  <2>1. reads' = reads /\ cache' = cache /\ mine' = mine
    BY <1>27 DEF Commit, local
  <2>2. op'[c] # "rollback" /\ op[c] # "rollback"
    BY <1>1, <1>27 DEF Commit, Control, Shapes
  <2> QED
    BY <2>1, <2>2, DraftSame DEF Unseen
<1>28. CASE Rollback(c)
  BY <1>28 DEF Visible
<1>29. CASE Crash(c)
  BY <1>29 DEF Visible
<1>30. ASSUME NEW d \in Files, Open(c, d) PROVE Unseen(c) \/ Visible(c)
  <2>1. reads' = reads /\ cache' = cache /\ mine' = mine
    BY <1>30 DEF Open, local
  <2>2. op'[c] # "rollback" /\ op[c] # "rollback"
    BY <1>1, <1>30 DEF Open, Control, Shapes
  <2> QED
    BY <2>1, <2>2, DraftSame DEF Unseen
<1>31. ASSUME NEW d \in Files, Reserve(c, d) PROVE Unseen(c) \/ Visible(c)
  <2>1. reads' = reads /\ cache' = cache /\ mine' = mine /\ op' = op
    BY <1>31 DEF Reserve, local
  <2> QED
    BY <2>1, DraftSame DEF Unseen
<1>32. ASSUME NEW d \in Files, NEW p \in Pages, Write(c, d, p) PROVE Unseen(c) \/ Visible(c)
  BY <1>32 DEF Visible
<1>33. ASSUME NEW d \in Files, NEW p \in Pages, Spill(c, d, p) PROVE Unseen(c) \/ Visible(c)
  <2>1. reads' = reads /\ cache' = cache /\ mine' = mine
    BY <1>33 DEF Spill, local
  <2>2. op'[c] # "rollback" /\ op[c] # "rollback"
    BY <1>1, <1>33 DEF Spill, Control, Shapes
  <2> QED
    BY <2>1, <2>2, DraftSame DEF Unseen
<1> QED
  BY <1>2, <1>3, <1>4, <1>5, <1>6, <1>7, <1>8, <1>9, <1>10, <1>11, <1>12, <1>13, <1>14, <1>15,
     <1>16, <1>17, <1>18, <1>19, <1>20, <1>21, <1>22, <1>23, <1>24, <1>25, <1>26, <1>27, <1>28,
     <1>29, <1>30, <1>31, <1>32, <1>33 DEF Acts, Step

LEMMA FallbackEq ==
  ASSUME NEW d
  PROVE  /\ Fallback(d) = IF Back(d) = Store(d) THEN None ELSE Back(d)
         /\ Fallback(d)' = IF Back(d)' = Store(d)' THEN None ELSE Back(d)'
BY DEF Fallback, Back

LEMMA LeftMoves ==
  ASSUME Inv, NEW c \in Conns, Acts(c), NEW e \in Files, ~Delivers(c, e)
  PROVE  Held'[e] = Held[e] /\ Left'[e] \in {Left[e], None}
<1>1. Store(e)' = Store(e)
  BY StoreMoves
<1>2. Back(e)' = Store(e)' \/ Back(e)' = Back(e)
  BY BackMoves
<1>3. Fallback(e)' \in {Fallback(e), None}
  BY <1>1, <1>2, FallbackEq
<1> QED
  BY <1>1, <1>3, AbstractIs

LEMMA LeftSame ==
  ASSUME Inv, NEW c \in Conns, Acts(c), NEW e \in Files, ~Delivers(c, e),
         db'[e] = db[e], djnl'[e] = djnl[e]
  PROVE  Held'[e] = Held[e] /\ Left'[e] = Left[e]
<1>1. Store(e)' = Store(e)
  BY StoreMoves
<1>2. Back(e)' = Back(e)
  BY BackSame
<1>3. Fallback(e)' = Fallback(e)
  BY <1>1, <1>2, FallbackEq
<1> QED
  BY <1>1, <1>3, AbstractIs

LEMMA SeenOthers ==
  ASSUME Inv, NEW c \in Conns, Acts(c), NEW o \in Conns, o # c
  PROVE  Seen'[o] = Seen[o] /\ Drafted'[o] = Drafted[o]
<1>1. Alike(o)
  BY Others DEF Inv, Base
<1>2. \A d \in Files : Seen'[o][d] = Seen[o][d] /\ Drafted'[o][d] = Drafted[o][d]
  BY <1>1, AbstractIs DEF Alike
<1> QED
  BY <1>2, AbstractShapes

LEMMA NotDelivers ==
  ASSUME Inv, NEW c \in Conns,
         \/ \E d \in Files, p \in Pages : Write(c, d, p)
         \/ Prepare(c) \/ Check(c) \/ End(c) \/ Crash(c) \/ Rollback(c),
         NEW e
  PROVE  ~Delivers(c, e)
<1> SUFFICES ASSUME Delivers(c, e) PROVE FALSE
  OBVIOUS
<1>1. pc[c] \in {"fin", "commit"} /\ faults' = faults /\ faults \in Nat
  BY DEF Delivers, Fin, DeleteSuper, At, bounds, Inv, Base, TypeOK
<1>2. CASE \E d \in Files, p \in Pages : Write(c, d, p)
  BY <1>1, <1>2 DEF Write, At
<1>3. CASE Prepare(c) \/ Check(c) \/ End(c)
  BY <1>1, <1>3 DEF Prepare, Check, End, At
<1>4. CASE Crash(c)
  BY <1>1, <1>4 DEF Crash, Fault
<1>5. CASE Rollback(c)
  BY <1>1, <1>5 DEF Rollback, At
<1> QED
  BY <1>2, <1>3, <1>4, <1>5

(* What only changes what a connection sees or drafts.                     *)
LEMMA FilesSame ==
  ASSUME Inv, NEW c \in Conns, Acts(c),
         \/ \E d \in Files, p \in Pages : Write(c, d, p)
         \/ Prepare(c) \/ Check(c) \/ End(c) \/ Crash(c) \/ Rollback(c)
  PROVE  Held' = Held /\ Left' = Left
<1>1. db' = db /\ djnl' = djnl
  BY DEF Write, Prepare, Check, End, Crash, Rollback, disk
<1>2. \A e \in Files : ~Delivers(c, e)
  BY NotDelivers
<1>3. \A e \in Files : Held'[e] = Held[e] /\ Left'[e] = Left[e]
  BY <1>1, <1>2, LeftSame
<1> QED
  BY <1>3, AbstractShapes

LEMMA UnseenStep ==
  ASSUME Inv, NEW c \in Conns, Acts(c), Unseen(c), ~Visible(c)
  PROVE  \E D \in SUBSET Files : AC!Settle(D)
<1> DEFINE D == {d \in Files : Left'[d] = None}
<1>1. \A e \in Files : ~Delivers(c, e)
  BY DEF Visible
<1>2. \A e \in Files : Held'[e] = Held[e] /\ Left'[e] = IF e \in D THEN None ELSE Left[e]
  BY <1>1, LeftMoves
<1>3. Held' = Held /\ Left' = [d \in Files |-> IF d \in D THEN None ELSE Left[d]]
  <2>1. Held' = Held
    BY <1>2, AbstractShapes
  <2>2. PICK L : L = Left'
    OBVIOUS
  <2>3. L = [d \in Files |-> L[d]] /\ \A e \in Files : L[e] = IF e \in D THEN None ELSE Left[e]
    BY <1>2, <2>2, AbstractShapes
  <2> HIDE DEF D
  <2>4. L = [d \in Files |-> IF d \in D THEN None ELSE Left[d]]
    BY <2>3
  <2> QED
    BY <2>1, <2>2, <2>4
<1>4. \A d \in Files : Seen'[c][d] = Seen[c][d] /\ Drafted'[c][d] = Drafted[c][d]
  BY AbstractIs DEF Unseen
<1>5. Seen'[c] = Seen[c] /\ Drafted'[c] = Drafted[c]
  BY <1>4, AbstractShapes
<1>6. \A o \in Conns : Seen'[o] = Seen[o] /\ Drafted'[o] = Drafted[o]
  BY <1>5, SeenOthers
<1>7. Seen' = Seen /\ Drafted' = Drafted
  BY <1>6, AbstractShapes
<1> HIDE DEF D
<1>8. AC!Settle(D)
  BY <1>3, <1>7 DEF AC!Settle
<1>9. D \in SUBSET Files
  BY DEF D
<1> QED
  BY <1>8, <1>9

LEMMA WriteStep ==
  ASSUME Inv, Whole, NEW c \in Conns, Acts(c), NEW e \in Files,
         (\E p \in Pages : Write(c, e, p)) \/ (Prepare(c) /\ e = cur[c])
  PROVE  AC!Write(c, e)
<1>1. ControlTypes(c) /\ Shapes /\ FileShapes /\ Control(c)
  BY ControlTyped, FileShapesOK DEF Inv, Base
<1>2. Live(c, e) /\ mine'[c][e] \in Contents
  <2>1. CASE \E p \in Pages : Write(c, e, p)
    <3>1. Works(c, e)
      BY <2>1 DEF Works
    <3> QED
      BY <2>1, <3>1, WorksDoes, WrittenWhole DEF WorkDone
  <2>2. CASE Prepare(c) /\ e = cur[c]
    BY <2>2, PreparedWhole
  <2> QED
    BY <2>1, <2>2
<1>3. e \in reads[c] /\ cache[c][e] = Store(e)
  BY <1>2, LiveIs DEF Live, InTxn
<1>4. op[c] # "rollback" /\ op' = op /\ reads' = reads /\ cache' = cache
  BY <1>1 DEF Write, Prepare, Control, At
<1>5. \A d \in Files : d # e => mine'[c][d] = mine[c][d]
  <2>1. mine' = [mine EXCEPT ![c][e] = mine'[c][e]]
    <3>1. CASE \E p \in Pages : Write(c, e, p)
      BY <3>1, WriteDoes
    <3>2. CASE Prepare(c) /\ e = cur[c]
      BY <3>2, PreparedWhole
    <3> QED
      BY <3>1, <3>2
  <2>2. PICK x : mine' = [mine EXCEPT ![c][e] = x]
    BY <2>1
  <2> QED
    BY <1>1, <2>2 DEF Shapes, FileShapes
<1>6. Seen[c][e] = Held[e] /\ Drafted'[c][e] = mine'[c][e]
  BY <1>3, <1>4, AbstractIs
<1>7. \A d \in Files : d # e => Drafted'[c][d] = Drafted[c][d]
  BY <1>4, <1>5, AbstractIs
<1>8. Drafted' = [Drafted EXCEPT ![c][e] = Drafted'[c][e]]
  <2>1. PICK F : F = Drafted'
    OBVIOUS
  <2>2. /\ F = [o \in Conns |-> F[o]] /\ F[c] = [d \in Files |-> F[c][d]]
        /\ \A o \in Conns : o # c => F[o] = Drafted[o]
        /\ \A d \in Files : d # e => F[c][d] = Drafted[c][d]
    BY <1>7, <2>1, AbstractShapes, SeenOthers
  <2>3. Drafted[c] = [d \in Files |-> Drafted[c][d]] /\ Drafted = [o \in Conns |-> Drafted[o]]
    BY AbstractShapes
  <2>4. F[c] = [Drafted[c] EXCEPT ![e] = F[c][e]]
    BY <2>2, <2>3
  <2>5. F = [Drafted EXCEPT ![c] = [Drafted[c] EXCEPT ![e] = F[c][e]]]
    BY <2>2, <2>3, <2>4
  <2> QED
    BY <2>1, <2>5
<1>9. Seen' = Seen
  <2>1. \A d \in Files : Seen'[c][d] = Seen[c][d]
    BY <1>4, AbstractIs
  <2>2. Seen'[c] = Seen[c]
    BY <2>1, AbstractShapes
  <2>3. \A o \in Conns : Seen'[o] = Seen[o]
    BY <2>2, SeenOthers
  <2> QED
    BY <2>3, AbstractShapes
<1>10. Held' = Held /\ Left' = Left
  BY FilesSame
<1> QED
  BY <1>2, <1>6, <1>8, <1>9, <1>10 DEF AC!Write

LEMMA ReadStep ==
  ASSUME Inv, NEW c \in Conns, Acts(c), Check(c), NEW e, e = cur[c]
  PROVE  e \in Files /\ AC!Read(c, e)
<1>1. ControlTypes(c) /\ Shapes /\ FileShapes /\ LocksHeld(c)
  BY ControlTyped, FileShapesOK DEF Inv, Base
<1>2. e \in Files /\ Store(e) = db[e] /\ cache'[c][e] = db[e]
  BY CheckIs
<1>3. /\ pc[c] = "check" /\ reads' = [reads EXCEPT ![c] = @ \cup {e}]
      /\ mine' = mine /\ op' = op /\ (cache' = [cache EXCEPT ![c][e] = db[e]] \/ cache' = cache)
  BY DEF Check, At
<1>4. e \notin reads[c]
  BY <1>1, <1>2, <1>3 DEF LocksHeld, Recovering
<1>5. reads'[c] = reads[c] \cup {e} /\ \A d \in Files : d # e => cache'[c][d] = cache[c][d]
  BY <1>1, <1>3 DEF Shapes, FileShapes
<1>6. Seen[c][e] = None /\ Seen'[c][e] = Held[e]
  BY <1>2, <1>4, <1>5, AbstractIs
<1>7. \A d \in Files : d # e => Seen'[c][d] = Seen[c][d]
  BY <1>5, AbstractIs
<1>8. Seen' = [Seen EXCEPT ![c][e] = Held[e]]
  <2>1. PICK F : F = Seen'
    OBVIOUS
  <2>2. /\ F = [o \in Conns |-> F[o]] /\ F[c] = [d \in Files |-> F[c][d]]
        /\ \A o \in Conns : o # c => F[o] = Seen[o]
        /\ \A d \in Files : d # e => F[c][d] = Seen[c][d]
        /\ F[c][e] = Held[e]
    BY <1>6, <1>7, <2>1, AbstractShapes, SeenOthers
  <2>3. Seen[c] = [d \in Files |-> Seen[c][d]] /\ Seen = [o \in Conns |-> Seen[o]]
    BY AbstractShapes
  <2>4. F[c] = [Seen[c] EXCEPT ![e] = Held[e]]
    BY <1>2, <2>2, <2>3
  <2>5. F = [Seen EXCEPT ![c] = [Seen[c] EXCEPT ![e] = Held[e]]]
    BY <2>2, <2>3, <2>4
  <2> QED
    BY <2>1, <2>5
<1>9. Drafted' = Drafted
  <2>1. \A d \in Files : Drafted'[c][d] = Drafted[c][d]
    BY <1>3, AbstractIs
  <2>2. Drafted'[c] = Drafted[c]
    BY <2>1, AbstractShapes
  <2>3. \A o \in Conns : Drafted'[o] = Drafted[o]
    BY <2>2, SeenOthers
  <2> QED
    BY <2>3, AbstractShapes
<1>10. Held' = Held /\ Left' = Left
  BY FilesSame
<1> QED
  BY <1>2, <1>6, <1>8, <1>9, <1>10 DEF AC!Read

LEMMA EndStep ==
  ASSUME Inv, NEW c \in Conns, Acts(c), End(c) \/ Crash(c)
  PROVE  AC!End(c, Files)
<1>1. Shapes
  BY ShapesOK DEF Inv, Base
<1>2. reads'[c] = {}
  BY <1>1 DEF End, Crash, Gone, Shapes
<1>3. Seen' = [Seen EXCEPT ![c] = [d \in Files |-> IF d \in Files THEN None ELSE Seen[c][d]]]
  <2>1. PICK F : F = Seen'
    OBVIOUS
  <2>2. /\ F = [o \in Conns |-> F[o]] /\ F[c] = [d \in Files |-> F[c][d]]
        /\ \A o \in Conns : o # c => F[o] = Seen[o]
        /\ \A d \in Files : F[c][d] = None
    BY <1>2, <2>1, AbstractIs, AbstractShapes, SeenOthers
  <2>3. Seen = [o \in Conns |-> Seen[o]]
    BY AbstractShapes
  <2>4. F[c] = [d \in Files |-> IF d \in Files THEN None ELSE Seen[c][d]]
    BY <2>2
  <2> QED
    BY <2>1, <2>2, <2>3, <2>4
<1>4. CASE End(c)
  <2>1. mine' = mine /\ op' = op
    BY <1>4 DEF End
  <2>2. \A d \in Files : Drafted'[c][d] = Drafted[c][d]
    BY <2>1, AbstractIs
  <2>3. Drafted'[c] = Drafted[c]
    BY <2>2, AbstractShapes
  <2>4. \A o \in Conns : Drafted'[o] = Drafted[o]
    BY <2>3, SeenOthers
  <2>5. Drafted' = Drafted
    BY <2>4, AbstractShapes
  <2> QED
    BY <1>3, <1>4, <2>5, FilesSame DEF AC!End
<1>5. CASE Crash(c)
  <2>1. mine'[c] = [d \in Files |-> None]
    BY <1>5 DEF Crash, Gone
  <2>2. \A d \in Files : Drafted'[c][d] = None
    BY <2>1, AbstractIs
  <2>3. Drafted' = [Drafted EXCEPT ![c] = AC!Empty]
    <3>1. PICK F : F = Drafted'
      OBVIOUS
    <3>2. /\ F = [o \in Conns |-> F[o]] /\ F[c] = [d \in Files |-> F[c][d]]
          /\ \A o \in Conns : o # c => F[o] = Drafted[o]
          /\ \A d \in Files : F[c][d] = None
      BY <2>2, <3>1, AbstractShapes, SeenOthers
    <3>3. Drafted = [o \in Conns |-> Drafted[o]]
      BY AbstractShapes
    <3>4. F[c] = AC!Empty
      BY <3>2 DEF AC!Empty
    <3> QED
      BY <3>1, <3>2, <3>3, <3>4
  <2> QED
    BY <1>3, <1>5, <2>3, FilesSame DEF AC!End
<1> QED
  BY <1>4, <1>5

LEMMA AbortStep ==
  ASSUME Inv, NEW c \in Conns, Acts(c), Rollback(c)
  PROVE  AC!Abort(c)
<1>1. Shapes
  BY ShapesOK DEF Inv, Base
<1>2. op'[c] = "rollback" /\ reads' = reads /\ cache' = cache
  BY <1>1 DEF Rollback, Shapes
<1>3. Seen' = Seen
  <2>1. \A d \in Files : Seen'[c][d] = Seen[c][d]
    BY <1>2, AbstractIs
  <2>2. Seen'[c] = Seen[c]
    BY <2>1, AbstractShapes
  <2>3. \A o \in Conns : Seen'[o] = Seen[o]
    BY <2>2, SeenOthers
  <2> QED
    BY <2>3, AbstractShapes
<1>4. Drafted' = [Drafted EXCEPT ![c] = AC!Empty]
  <2>1. PICK F : F = Drafted'
    OBVIOUS
  <2>2. /\ F = [o \in Conns |-> F[o]] /\ F[c] = [d \in Files |-> F[c][d]]
        /\ \A o \in Conns : o # c => F[o] = Drafted[o]
        /\ \A d \in Files : F[c][d] = None
    BY <1>2, <2>1, AbstractIs, AbstractShapes, SeenOthers
  <2>3. Drafted = [o \in Conns |-> Drafted[o]]
    BY AbstractShapes
  <2>4. F[c] = AC!Empty
    BY <2>2 DEF AC!Empty
  <2> QED
    BY <2>1, <2>2, <2>3, <2>4
<1> QED
  BY <1>3, <1>4, FilesSame DEF AC!Abort

(* The files of a commit are those with a draft.                           *)
LEMMA DeliversAll ==
  ASSUME Inv, NEW c \in Conns, NEW e \in Files, Delivers(c, e), NEW d \in Files
  PROVE  /\ djnl'[d] = djnl[d] \/ Fin(c)
         /\ mine'[c][d] = None /\ (Delivers(c, d) <=> mine[c][d] # None)
         /\ op[c] = "commit" /\ op' = op /\ reads' = reads
<1>1. ControlTypes(c) /\ Shapes /\ FileShapes /\ Control(c) /\ Unused(c)
  BY ControlTyped, FileShapesOK DEF Inv, Base
<1>2. CASE Fin(c) /\ FinCommits(c) /\ e = cur[c]
  <2>1. op[c] = "commit" /\ op' = op /\ reads' = reads /\ pc[c] = "fin"
    BY <1>2 DEF Fin, FinCommits
  <2>2. /\ Reserved(c) = {e} /\ mine[c][e] \in Seq(Page)
        /\ mine' = [mine EXCEPT ![c][e] = None]
    BY <1>2, CommitsIs, FinDoes
  <2>3. ~DeleteSuper(c)
    BY <2>1 DEF DeleteSuper, At
  <2>4. CASE d = e
    <3>1. mine'[c][d] = None /\ mine[c][d] # None
      BY <1>1, <2>2, <2>4, JournalAssumption DEF Shapes, FileShapes
    <3> QED
      BY <1>2, <2>1, <2>4, <3>1 DEF Delivers
  <2>5. CASE d # e
    <3>1. ~InTxn(c, d)
      BY <2>2, <2>5 DEF Reserved, InTxn
    <3>2. mine[c][d] = None
      BY <1>1, <3>1 DEF Unused, NothingDone
    <3>3. mine'[c][d] = None
      BY <1>1, <2>2, <2>5, <3>2 DEF Shapes, FileShapes
    <3> QED
      BY <1>2, <2>1, <2>3, <2>5, <3>2, <3>3 DEF Delivers
  <2> QED
    BY <2>4, <2>5
<1>3. CASE DeleteSuper(c) /\ InTxn(c, e)
  <2>1. op' = op /\ reads' = reads /\ pc[c] = "commit" /\ djnl' = djnl
    BY <1>3 DEF DeleteSuper, At
  <2>2. op[c] = "commit" /\ ~FinCommits(c)
    BY <1>1, <2>1 DEF Control, FinCommits
  <2>3. mine'[c][d] = None
    BY <1>1, <1>3 DEF DeleteSuper, Shapes
  <2>4. InTxn(c, d) <=> mine[c][d] # None
    <3>1. InTxn(c, d) => mine[c][d] \in Seq(Page)
      BY <1>3, DeleteIs
    <3>2. ~InTxn(c, d) => mine[c][d] = None
      BY <1>1 DEF Unused, NothingDone
    <3> QED
      BY <3>1, <3>2, JournalAssumption
  <2> QED
    BY <1>3, <2>1, <2>2, <2>3, <2>4 DEF Delivers
<1> QED
  BY <1>2, <1>3 DEF Delivers

(* The journal on disk takes a file back whose pages have been written.    *)
LEMMA LiveBack ==
  ASSUME Inv, NEW c \in Conns, NEW e \in Files, Live(c, e), jw[c][e].mod
  PROVE  Back(e) = Store(e)
<1>1. /\ cache[c][e] = Store(e) /\ cache[c][e] \in Seq(Page) /\ JournalKept(c, e)
      /\ jw[c][e] \in JournalWriter /\ db[e] \in Seq(Page)
  BY LiveIs
<1>2. PICK h : h = jw[c][e].hdr
  OBVIOUS
<1>3. /\ djnl[e] \in Seq(JournalCell) /\ Len(djnl[e]) >= h - 1
      /\ \A k \in 1 .. h - 1 : djnl[e][k] = jnl[e][k]
      /\ ~IsHdr(djnl[e], h) /\ SuperName(djnl[e]) \in dsupers \cup {0}
      /\ jw[c][e].off # 0 /\ jnl[e] \in Seq(JournalCell)
  BY <1>2, SyncedIs
<1>4. Counts(djnl[e], dsupers)
  BY <1>3 DEF Counts
<1>5. PICK w \in JournalWriter : w = jw[c][e]
  BY <1>1
<1>6. PICK j \in Seq(JournalCell) : j = jnl[e]
  BY <1>3
<1>7. PICK g \in Seq(JournalCell) : g = djnl[e]
  BY <1>3
<1>8. PICK f \in Seq(Page) : f = db[e]
  BY <1>1
<1>9. Journal(j, w, cache[c][e], f) /\ w.mod /\ Counts(g, dsupers)
  BY <1>1, <1>3, <1>4, <1>5, <1>6, <1>7, <1>8 DEF JournalKept
<1>10. Len(g) >= w.hdr - 1 /\ \A k \in 1 .. w.hdr - 1 : g[k] = j[k]
  BY <1>2, <1>3, <1>5, <1>6, <1>7
<1>11. ~IsHdr(g, w.hdr)
  BY <1>2, <1>3, <1>5, <1>7
<1>12. Restored(f, g, dsupers) = cache[c][e]
  BY <1>1, <1>9, <1>10, <1>11, SyncedRestores
<1> QED
  BY <1>1, <1>7, <1>8, <1>12 DEF Back

LEMMA CommitStep ==
  ASSUME Inv, NEW c \in Conns, Acts(c), NEW e \in Files, Delivers(c, e)
  PROVE  AC!Commit(c)
<1> DEFINE D == {d \in Files : Drafted[c][d] # None}
<1>1. /\ op[c] = "commit" /\ op' = op /\ reads' = reads
      /\ \A d \in Files : mine'[c][d] = None /\ (Delivers(c, d) <=> mine[c][d] # None)
  BY DeliversAll
<1>2. \A d \in Files : /\ Drafted[c][d] = mine[c][d] /\ Drafted'[c][d] = None
                       /\ d \in D <=> Delivers(c, d)
  BY <1>1, AbstractIs
<1>3. e \in D /\ D \subseteq Files
  BY <1>2
<1>4. ASSUME NEW d \in Files
      PROVE  /\ Held'[d] = IF d \in D THEN Drafted[c][d] ELSE Held[d]
             /\ Seen'[c][d] = IF d \in D THEN Drafted[c][d] ELSE Seen[c][d]
             /\ d \notin D => Left'[d] = Left[d]
             /\ d \in D => \A o \in Conns \ {c} : Seen[o][d] = None
  <2>1. CASE Delivers(c, d)
    <3>1. cache'[c][d] = mine[c][d] /\ Store(d)' = mine[c][d] /\ d \in reads[c]
      BY <2>1, DeliversDoes
    <3>2. \A o \in Conns \ {c} : d \notin reads[o]
      BY <2>1, DeliversAlone
    <3> HIDE DEF D
    <3> QED
      BY <1>1, <1>2, <2>1, <3>1, <3>2, AbstractIs
  <2>2. CASE ~Delivers(c, d)
    <3>1. db' = db
      BY DeliversDoes
    <3>2. djnl'[d] = djnl[d]
      <4>1. CASE Fin(c) /\ FinCommits(c) /\ e = cur[c]
        <5>1. djnl' = [djnl EXCEPT ![e] = djnl'[e]]
          BY <4>1, FinDoes
        <5>2. d # e /\ FileShapes
          BY <2>2, FileShapesOK DEF Inv, Base
        <5>3. PICK x : djnl' = [djnl EXCEPT ![e] = x]
          BY <5>1
        <5> QED
          BY <5>2, <5>3 DEF FileShapes
      <4>2. CASE DeleteSuper(c)
        BY <4>2 DEF DeleteSuper
      <4> QED
        BY <4>1, <4>2 DEF Delivers
    <3>3. Held'[d] = Held[d] /\ Left'[d] = Left[d]
      BY <2>2, <3>1, <3>2, LeftSame
    <3>4. Seen'[c][d] = Seen[c][d]
      <4>1. ~Check(c)
        BY DEF Delivers, Fin, DeleteSuper, Check, At
      <4>2. cache'[c][d] = cache[c][d] \/ reads'[c] = {}
        BY <2>2, <4>1, CacheMovesIs DEF CacheMoves
      <4> QED
        BY <1>1, <4>2, AbstractIs
    <3> HIDE DEF D
    <3> QED
      BY <1>2, <2>2, <3>3, <3>4
  <2> QED
    BY <2>1, <2>2
<1> HIDE DEF D
<1>5. Held' = [d \in Files |-> IF d \in D THEN Drafted[c][d] ELSE Held[d]]
  <2>1. PICK F : F = Held'
    OBVIOUS
  <2>2. F = [d \in Files |-> F[d]] /\ \A d \in Files : F[d] = IF d \in D THEN Drafted[c][d] ELSE Held[d]
    BY <1>4, <2>1, AbstractShapes
  <2> QED
    BY <2>1, <2>2
<1>6. Seen' = [Seen EXCEPT ![c] = [d \in Files |-> IF d \in D THEN Drafted[c][d] ELSE Seen[c][d]]]
  <2>1. PICK F : F = Seen'
    OBVIOUS
  <2>2. /\ F = [o \in Conns |-> F[o]] /\ F[c] = [d \in Files |-> F[c][d]]
        /\ \A o \in Conns : o # c => F[o] = Seen[o]
        /\ \A d \in Files : F[c][d] = IF d \in D THEN Drafted[c][d] ELSE Seen[c][d]
    BY <1>4, <2>1, AbstractShapes, SeenOthers
  <2>3. Seen = [o \in Conns |-> Seen[o]]
    BY AbstractShapes
  <2>4. F[c] = [d \in Files |-> IF d \in D THEN Drafted[c][d] ELSE Seen[c][d]]
    BY <2>2
  <2> QED
    BY <2>1, <2>2, <2>3, <2>4
<1>7. Drafted' = [Drafted EXCEPT ![c] = AC!Empty]
  <2>1. PICK F : F = Drafted'
    OBVIOUS
  <2>2. /\ F = [o \in Conns |-> F[o]] /\ F[c] = [d \in Files |-> F[c][d]]
        /\ \A o \in Conns : o # c => F[o] = Drafted[o]
        /\ \A d \in Files : F[c][d] = None
    BY <1>2, <2>1, AbstractShapes, SeenOthers
  <2>3. Drafted = [o \in Conns |-> Drafted[o]]
    BY AbstractShapes
  <2>4. F[c] = AC!Empty
    BY <2>2 DEF AC!Empty
  <2> QED
    BY <2>1, <2>2, <2>3, <2>4
<1>8. \/ Left' = [d \in Files |-> IF d \in D THEN None ELSE Left[d]]
      \/ (\E d \in Files : D = {d}) /\ Left' = [d \in Files |-> IF d \in D THEN Held[d] ELSE Left[d]]
  <2>1. PICK F : F = Left'
    OBVIOUS
  <2>2. F = [d \in Files |-> F[d]] /\ \A d \in Files : d \notin D => F[d] = Left[d]
    BY <1>4, <2>1, AbstractShapes
  <2>3. ASSUME \A d \in D : Left'[d] = None
        PROVE  Left' = [d \in Files |-> IF d \in D THEN None ELSE Left[d]]
    <3>1. \A d \in D : F[d] = None
      BY <2>1, <2>3
    <3> QED
      BY <2>1, <2>2, <3>1
  <2>4. CASE DeleteSuper(c)
    <3>1. ~FinCommits(c)
      BY <2>4 DEF DeleteSuper, FinCommits, At
    <3>2. ASSUME NEW d \in D PROVE Left'[d] = None
      <4>1. d \in Files /\ InTxn(c, d) /\ Delivers(c, d)
        BY <1>2, <1>3, <3>1 DEF Delivers
      <4>2. djnl[d] = jnl[d] /\ SuperName(jnl[d]) = txn[c] /\ txn[c] # 0 /\ db[d] = mine[c][d]
        BY <2>4, <4>1, DeleteIs
      <4>3. db' = db /\ djnl' = djnl /\ dsupers' = dsupers \ {txn[c]}
        BY <2>4 DEF DeleteSuper
      <4>4. ~Counts(djnl'[d], dsupers')
        BY <4>2, <4>3 DEF Counts
      <4>5. Back(d)' = db'[d]
        BY <4>4 DEF Back, Restored
      <4>6. Store(d)' = mine[c][d]
        BY <4>1, DeliversDoes
      <4> QED
        BY <4>1, <4>2, <4>3, <4>5, <4>6, FallbackEq, AbstractIs
    <3> QED
      BY <2>3, <3>2
  <2>5. CASE Fin(c) /\ FinCommits(c) /\ e = cur[c]
    <3>1. D = {e}
      <4>1. ~DeleteSuper(c)
        BY <2>5 DEF Fin, DeleteSuper, At
      <4>2. \A d \in Files : d \in D <=> d = e
        BY <1>2, <2>5, <4>1 DEF Delivers
      <4> QED
        BY <1>3, <4>2
    <3>2. Live(c, e) /\ jw[c][e].off # 0
      BY <2>5, CommitsIs
    <3>3. jw[c][e].mod
      <4>1. Reserved(c) = {e} /\ mine[c][e] # None
        BY <2>5, CommitsIs DEF FinCommits
      <4>2. jw[c][e].done
        <5>1. Stage(c) /\ ~Committed(c) /\ InTxn(c, e)
          BY <2>5, <3>2 DEF Inv, Phases, Live
        <5> QED
          BY <2>5, <5>1 DEF Stage, FinCommits
      <4>3. DraftKept(c, e)
        BY <3>2, LiveIs
      <4> QED
        BY <2>5, <3>2, <4>2, <4>3 DEF DraftKept, FinCommits
    <3>4. Back(e) = Store(e) /\ Store(e)' = mine[c][e] /\ db[e] = mine[c][e] /\ db' = db
      BY <3>2, <3>3, LiveBack, DeliversDoes
    <3>5. djnl'[e] \in {djnl[e], None} /\ dsupers' = dsupers
      BY <2>5, FinDoes DEF Fin
    <3>6. CASE Left'[e] = None
      BY <2>3, <3>1, <3>6
    <3>7. CASE Left'[e] # None
      <4>1. Back(e)' # Store(e)' /\ Left'[e] = Back(e)'
        BY <3>7, FallbackEq, AbstractIs
      <4>2. djnl'[e] # None
        <5> SUFFICES ASSUME djnl'[e] = None PROVE Back(e)' = db'[e]
          BY <3>4, <4>1
        <5> QED
          BY NoCell DEF Back, Restored
      <4>3. Back(e)' = Back(e)
        BY <3>4, <3>5, <4>2 DEF Back
      <4>4. F[e] = Held[e]
        BY <2>1, <3>4, <4>1, <4>3, AbstractIs
      <4>5. Left' = [d \in Files |-> IF d \in D THEN Held[d] ELSE Left[d]]
        BY <2>1, <2>2, <3>1, <4>4
      <4>6. \E d \in Files : D = {d}
        BY <3>1
      <4> QED
        BY <4>5, <4>6
    <3> QED
      BY <3>6, <3>7
  <2> QED
    BY <2>4, <2>5 DEF Delivers
<1>9. D # {} /\ \A d \in D : \A o \in Conns \ {c} : Seen[o][d] = None
  BY <1>3, <1>4
<1> QED
  BY <1>5, <1>6, <1>7, <1>8, <1>9 DEF AC!Commit, D

LEMMA StepRefines ==
  ASSUME Inv, Whole, NEW c \in Conns, Acts(c)
  PROVE  AC!Next
<1>1. CASE \E d \in Files : Delivers(c, d)
  <2>1. AC!Commit(c)
    BY <1>1, CommitStep
  <2> QED
    BY <2>1 DEF AC!Next
<1>2. CASE \E d \in Files, p \in Pages : Write(c, d, p)
  <2>1. PICK d \in Files : \E p \in Pages : Write(c, d, p)
    BY <1>2
  <2>2. AC!Write(c, d)
    BY <2>1, WriteStep
  <2> QED
    BY <2>2 DEF AC!Next
<1>3. CASE Prepare(c)
  <2>1. PICK d : d = cur[c]
    OBVIOUS
  <2>2. d \in Files
    BY <1>3, <2>1, PreparedWhole
  <2>3. AC!Write(c, d)
    BY <1>3, <2>1, <2>2, WriteStep
  <2> QED
    BY <2>2, <2>3 DEF AC!Next
<1>4. CASE Check(c)
  <2>1. PICK d : d = cur[c]
    OBVIOUS
  <2>2. d \in Files /\ AC!Read(c, d)
    BY <1>4, <2>1, ReadStep
  <2> QED
    BY <2>2 DEF AC!Next
<1>5. CASE End(c) \/ Crash(c)
  <2>1. AC!End(c, Files)
    BY <1>5, EndStep
  <2> QED
    BY <2>1 DEF AC!Next
<1>6. CASE Rollback(c)
  <2>1. AC!Abort(c)
    BY <1>6, AbortStep
  <2> QED
    BY <2>1 DEF AC!Next
<1>7. CASE ~Visible(c)
  <2>1. Unseen(c)
    BY <1>7, UnseenIs
  <2>2. \E D \in SUBSET Files : AC!Settle(D)
    BY <1>7, <2>1, UnseenStep
  <2> QED
    BY <2>2 DEF AC!Next
<1> QED
  BY <1>1, <1>2, <1>3, <1>4, <1>5, <1>6, <1>7 DEF Visible

LEMMA InitRefines ==
  ASSUME Init
  PROVE  AC!Init
<1>1. Whole
  BY WholeInit
<1>2. Held \in [Files -> Contents]
  BY <1>1 DEF Whole, Held
<1>3. \A d \in Files : Left[d] = None
  <2> SUFFICES ASSUME NEW d \in Files PROVE Left[d] = None
    OBVIOUS
  <2>1. Back(d) = db[d] /\ Store(d) = db[d]
    BY InitLocal, NoCell DEF Back, Store, Restored
  <2> QED
    BY <2>1, FallbackEq, AbstractIs
<1>4. Left = AC!Empty
  BY <1>3, AbstractShapes DEF AC!Empty
<1>5. \A c \in Conns, d \in Files : Seen[c][d] = None /\ Drafted[c][d] = None
  BY InitLocal, AbstractIs
<1>6. \A c \in Conns : Seen[c] = AC!Empty /\ Drafted[c] = AC!Empty
  BY <1>5, AbstractShapes DEF AC!Empty
<1>7. Seen = [c \in Conns |-> AC!Empty] /\ Drafted = [c \in Conns |-> AC!Empty]
  BY <1>6, AbstractShapes
<1> QED
  BY <1>2, <1>4, <1>7 DEF AC!Init

LEMMA SameRefines ==
  ASSUME UNCHANGED vars
  PROVE  UNCHANGED << Held, Left, Seen, Drafted >>
BY ShapesAgain DEF Held, Left, Seen, Drafted, Store, Fallback

(* However connections work together, crash, and roll back one another's   *)
(* hot journals, and however many files a transaction has: until power is  *)
(* lost, each transaction changes all its files in one step, and nobody    *)
(* reads a file whose contents change.                                     *)
THEOREM CommitIsAtomic == Spec /\ [][~PowerLoss]_vars => Atomic
<1>1. Init => Inv /\ Whole /\ AC!Init
  BY InvInit, WholeInit, InitRefines
<1>2. ASSUME Inv, Whole, [Next]_vars, [~PowerLoss]_vars
      PROVE  Inv' /\ Whole' /\ [AC!Next]_<< Held, Left, Seen, Drafted >>
  <2>1. CASE UNCHANGED vars
    <3>1. Inv'
      BY <1>2, <2>1, InvSame
    <3>2. UNCHANGED << Held, Left, Seen, Drafted >>
      BY <2>1, SameRefines
    <3>3. \A d \in Files : Store(d)' = Store(d)
      BY <3>2, AbstractIs
    <3>4. Whole'
      BY <1>2, <2>1, <3>3, ShapesAgain DEF Whole
    <3> QED
      BY <3>1, <3>2, <3>4
  <2>2. CASE Next /\ ~PowerLoss
    <3>1. PICK c \in Conns : Acts(c)
      BY <2>2, NextCases
    <3>2. Inv' /\ Whole'
      BY <1>2, <2>2, <3>1, NextCases, ActsKeep, WholeKept
    <3>3. AC!Next
      BY <1>2, <3>1, StepRefines
    <3> QED
      BY <3>2, <3>3
  <2> QED
    BY <1>2, <2>1, <2>2
<1>3. Inv /\ Whole /\ [Next]_vars /\ [~PowerLoss]_vars
        => Inv' /\ Whole' /\ [AC!Next]_<< Held, Left, Seen, Drafted >>
  BY <1>2
<1> QED
  BY <1>1, <1>3, PTL DEF Spec, Atomic, AC!Spec
-----------------------------------------------------------------------------
(* A loss of power, where there is one file and every sync is made. *)

Sure == OneFile /\ Full

(* Whatever pages and cells have reached the disk, the file is what it     *)
(* holds or what it would fall back to.                                    *)
Mixed(d) ==
  \A m \in Journals(d) : \A f \in Mixes(ddb[d], db[d], None) :
     Restored(f, m, {}) \in {Store(d), Back(d)}

(* Every page that is not on disk is in the hot journal.                   *)
Covered(d) ==
  IF IsHdr(jnl[d], 1)
  THEN \A p \in 1 .. jnl[d][1].orig :
          ddb[d][p] = db[d][p] \/ p \in OldPages(jnl[d], Records(jnl[d], Len(jnl[d])))
  ELSE ddb[d] = db[d]

(* A journal that is hot on disk alone is one that has gone.               *)
Finishing(d) == JMode = "persist" /\ \E c \in Conns : pc[c] = "finsync" /\ cur[c] = d
GoneOnDisk(d) == IsHdr(djnl[d], 1) /\ ~IsHdr(jnl[d], 1) => d \in fresh \/ Finishing(d)

(* The journal is on disk, or all of it but for one header.                *)
SyncedTo(d) == djnl[d] = jnl[d] /\ d \notin fresh
SyncedBut(d, h) ==
  /\ d \notin fresh /\ djnl[d] # None /\ Len(djnl[d]) = Len(jnl[d])
  /\ \A k \in 1 .. Len(jnl[d]) : k = h \/ djnl[d][k] = jnl[d][k]
  /\ ~IsHdr(djnl[d], h)

WriterSynced(c, d) ==
  LET w == jw[c][d] IN
  Live(c, d) =>
    /\ ~w.mod => ddb[d] = db[d]
    /\ w.mod => /\ d \notin fresh
                /\ \A p \in 1 .. w.orig : ddb[d][p] = db[d][p] \/ Recorded(jnl[d], w.hdr - 1, p)
    /\ w.off # 0 /\ IsHdr(jnl[d], w.hdr) => SyncedBut(d, w.hdr)

PlaceSynced(c) ==
  /\ pc[c] = "count" => SyncedTo(cur[c])
  /\ op[c] = "hot" /\ pc[c] \in {"play", "fin"} => SyncedTo(cur[c])
  /\ pc[c] = "fin" => ddb[cur[c]] = db[cur[c]]
  /\ op[c] = "commit" => pc[c] # "next" /\ (pc[c] = "fin" => mine[c][cur[c]] # None)

OnDisk ==
  /\ \A d \in Files : Mixed(d) /\ Covered(d) /\ GoneOnDisk(d)
  /\ \A c \in Conns : PlaceSynced(c) /\ \A d \in Files : WriterSynced(c, d)

(* What reaches the disk in part, of what is there already, or almost.     *)
LEMMA MixSame ==
  ASSUME NEW T, NEW s \in Seq(T), NEW gap \in T, NEW m \in Mixes(s, s, gap)
  PROVE  m = s
<1>1. /\ m \in Seq(T) /\ Len(m) = Len(s)
      /\ \A i \in 1 .. Len(m) : m[i] = s[i] \/ (i > Len(s) /\ m[i] = gap)
  BY MixIs
<1>2. PICK l \in Nat : l = Len(s)
  OBVIOUS
<1>3. \A i \in 1 .. l : m[i] = s[i]
  BY <1>1, <1>2
<1> QED
  BY <1>1, <1>2, <1>3, SameSeq

ButAt(old, new, h) ==
  Len(old) = Len(new) /\ \A k \in 1 .. Len(new) : k = h \/ old[k] = new[k]

LEMMA MixBut ==
  ASSUME NEW old \in Seq(JournalCell), NEW new \in Seq(JournalCell), NEW m \in Mixes(old, new, Zero),
         NEW h, ButAt(old, new, h)
  PROVE  m \in {old, new}
<1> USE DEF ButAt
<1>1. PICK l \in Nat : l = Len(new)
  OBVIOUS
<1>2. m \in Seq(JournalCell) /\ Len(m) = l /\ Len(old) = l /\ \A i \in 1 .. l : m[i] \in {new[i], old[i]}
  <2>1. /\ m \in Seq(JournalCell) /\ Len(m) = l
        /\ \A i \in 1 .. Len(m) : \/ i \in 1 .. Len(new) /\ m[i] = new[i]
                                  \/ i \in 1 .. Len(old) /\ m[i] = old[i]
                                  \/ i > Len(old) /\ m[i] = Zero
    BY <1>1, ZeroIs, MixIs
  <2>2. Len(old) = l
    BY <1>1
  <2> QED
    BY <1>1, <2>1, <2>2
<1>3. CASE h \in 1 .. l /\ m[h] = old[h]
  <2>1. \A k \in 1 .. l : m[k] = old[k]
    BY <1>1, <1>2, <1>3
  <2>2. m = old
    BY <1>1, <1>2, <2>1, SameSeq
  <2> QED
    BY <2>2
<1>4. CASE ~(h \in 1 .. l /\ m[h] = old[h])
  <2>1. \A k \in 1 .. l : m[k] = new[k]
    BY <1>1, <1>2, <1>4
  <2>2. m = new
    BY <1>1, <1>2, <2>1, SameSeq
  <2> QED
    BY <2>2
<1> QED
  BY <1>3, <1>4

(* Of a journal whose first header is zeroed: if that has not reached the  *)
(* disk, it is as if it had not been zeroed.                               *)
LEMMA MixZeroed ==
  ASSUME NEW old \in Seq(JournalCell), NEW j \in Seq(JournalCell), Len(j) >= 1,
         NEW g \in Seq(JournalCell), g = Put(j, 1, Zero, Zero),
         NEW m \in Mixes(old, g, Zero), 1 \in DOMAIN m, m[1] # Zero
  PROVE  m \in Mixes(old, j, Zero)
<1>1. Len(g) = Len(j) /\ g[1] = Zero /\ \A k \in 1 .. Len(j) : k # 1 => g[k] = j[k]
  BY ZeroIs, PutCell
<1>2. PICK l \in Nat : l = Len(j) /\ l = Len(g)
  BY <1>1
<1>3. PICK o \in Nat : o = Len(old)
  OBVIOUS
<1> DEFINE F(n, S) == [i \in 1 .. n |-> IF i \in S THEN IF i <= Len(g) THEN g[i] ELSE old[i]
                                        ELSE IF i <= Len(old) THEN old[i] ELSE Zero]
           G(n, S) == [i \in 1 .. n |-> IF i \in S THEN IF i <= Len(j) THEN j[i] ELSE old[i]
                                        ELSE IF i <= Len(old) THEN old[i] ELSE Zero]
<1>4. \E n \in {Len(old), Len(g)} : \E S \in SUBSET (1 .. n) : m = F(n, S)
  <2>1. m \in UNION {{F(n, S) : S \in SUBSET (1 .. n)} : n \in {Len(old), Len(g)}}
    BY DEF Mixes
  <2> HIDE DEF F
  <2> QED
    BY <2>1
<1>5. PICK n \in {Len(old), Len(g)} : \E S \in SUBSET (1 .. n) : m = F(n, S)
  BY <1>4
<1>6. PICK S \in SUBSET (1 .. n) : m = F(n, S)
  BY <1>5
<1>7. 1 \in 1 .. n /\ 1 \notin S
  <2>1. DOMAIN m = 1 .. n
    BY <1>6
  <2>2. 1 \in 1 .. n /\ m[1] = IF 1 \in S THEN IF 1 <= Len(g) THEN g[1] ELSE old[1]
                               ELSE IF 1 <= Len(old) THEN old[1] ELSE Zero
    BY <1>6, <2>1
  <2> QED
    BY <1>1, <1>2, <2>2
<1>8. F(n, S) = G(n, S)
  <2>1. n \in Nat
    BY <1>2, <1>3
  <2>2. \A i \in 1 .. n : /\ i \in S /\ i <= l => g[i] = j[i]
                          /\ i <= Len(g) <=> i <= Len(j)
    BY <1>1, <1>2, <1>7, <2>1
  <2>3. \A i \in 1 .. n : (IF i \in S THEN IF i <= Len(g) THEN g[i] ELSE old[i]
                           ELSE IF i <= Len(old) THEN old[i] ELSE Zero)
                          = IF i \in S THEN IF i <= Len(j) THEN j[i] ELSE old[i]
                            ELSE IF i <= Len(old) THEN old[i] ELSE Zero
    BY <1>2, <2>1, <2>2
  <2> QED
    BY <2>3
<1>9. m = G(n, S) /\ n \in {Len(old), Len(j)}
  BY <1>1, <1>6, <1>8
<1>10. m \in UNION {{G(k, R) : R \in SUBSET (1 .. k)} : k \in {Len(old), Len(j)}}
  <2> HIDE DEF G
  <2> QED
    BY <1>9
<1> QED
  BY <1>10 DEF Mixes

(* With one file nothing is named, and what is found of a journal counts.  *)
LEMMA OneIs ==
  ASSUME Inv, OneFile, NEW d \in Files
  PROVE  /\ Store(d) = Restored(db[d], jnl[d], {}) /\ Back(d) = Restored(db[d], djnl[d], {})
         /\ supers = {} /\ dsupers = {}
         /\ db[d] \in Seq(Page) /\ ddb[d] \in Seq(Page)
         /\ jnl[d] \in Seq(JournalCell) \cup {None} /\ djnl[d] \in Seq(JournalCell) \cup {None}
         /\ Counts(jnl[d], {}) /\ Counts(djnl[d], {})
<1>1. TypeOK /\ supers = {} /\ dsupers = {} /\ Plain(jnl[d]) /\ Plain(djnl[d])
  BY DEF Inv, Base, Supered, OneFileNoSupers
<1>2. /\ db[d] \in Seq(Page) /\ ddb[d] \in Seq(Page)
      /\ jnl[d] \in Seq(JournalCell) \cup {None} /\ djnl[d] \in Seq(JournalCell) \cup {None}
  BY <1>1 DEF TypeOK
<1>3. Counts(jnl[d], {}) /\ Counts(djnl[d], {})
  BY <1>1, <1>2, PlainUnnamed DEF Counts
<1> QED
  BY <1>1, <1>2, <1>3 DEF Store, Back

LEMMA FoundIs ==
  ASSUME Inv, OneFile, NEW d \in Files, NEW m \in Journals(d)
  PROVE  /\ m \in Seq(JournalCell) \cup {None} /\ Counts(m, {})
         /\ IsHdr(m, 1) => \/ IsHdr(jnl[d], 1) /\ m[1] = jnl[d][1]
                           \/ IsHdr(djnl[d], 1) /\ m[1] = djnl[d][1]
<1>1. TypeOK /\ Plain(jnl[d]) /\ Plain(djnl[d])
  BY DEF Inv, Base, Supered, OneFileNoSupers
<1>2. /\ m \in Seq(JournalCell) \cup {None} /\ Plain(m)
      /\ IsHdr(m, 1) => \/ IsHdr(jnl[d], 1) /\ m[1] = jnl[d][1]
                        \/ IsHdr(djnl[d], 1) /\ m[1] = djnl[d][1]
  BY <1>1, JournalFound
<1>3. Counts(m, {})
  BY <1>2, PlainUnnamed DEF Counts
<1> QED
  BY <1>2, <1>3

(* The pages that are found are those of the file or those on disk.        *)
LEMMA PagesFound ==
  ASSUME TypeOK, NEW d \in Files, NEW f \in Mixes(ddb[d], db[d], None)
  PROVE  /\ f \in Seq(Page) /\ Len(f) \in {Len(ddb[d]), Len(db[d])}
         /\ \A p : p \in 1 .. Len(db[d]) /\ p \in 1 .. Len(ddb[d]) => f[p] \in {db[d][p], ddb[d][p]}
         /\ ddb[d] = db[d] => f = db[d]
<1>1. PICK a \in Seq(Page) : a = ddb[d]
  BY DEF TypeOK
<1>2. PICK b \in Seq(Page) : b = db[d]
  BY DEF TypeOK
<1>3. None \in Page
  BY DEF Page
<1>4. f \in Mixes(a, b, None)
  BY <1>1, <1>2
<1>5. /\ f \in Seq(Page) /\ Len(f) \in {Len(a), Len(b)}
      /\ \A i \in 1 .. Len(f) : \/ i \in 1 .. Len(b) /\ f[i] = b[i]
                                \/ i \in 1 .. Len(a) /\ f[i] = a[i]
                                \/ i > Len(a) /\ f[i] = None
  BY <1>3, <1>4, MixIs
<1>6. ASSUME NEW p, p \in 1 .. Len(b), p \in 1 .. Len(a)
      PROVE  f[p] \in {b[p], a[p]}
  BY <1>5, <1>6
<1>7. a = b => f = b
  BY <1>3, <1>4, MixSame
<1> QED
  BY <1>1, <1>2, <1>5, <1>6, <1>7

(* Where all the pages are on disk, and the journal is there, or there is  *)
(* none that is hot.                                                       *)
LEMMA EitherMixed ==
  ASSUME Inv, OneFile, NEW d \in Files, ddb[d] = db[d],
         \A m \in Journals(d) : m \in {djnl[d], jnl[d]} \/ ~(IsHdr(m, 1) \/ IsHdr(jnl[d], 1))
  PROVE  Mixed(d)
<1> SUFFICES ASSUME NEW m \in Journals(d), NEW f \in Mixes(ddb[d], db[d], None)
             PROVE  Restored(f, m, {}) \in {Store(d), Back(d)}
  BY DEF Mixed
<1>1. f = db[d] /\ TypeOK
  BY PagesFound DEF Inv, Base
<1>2. CASE m \in {djnl[d], jnl[d]}
  BY <1>1, <1>2, OneIs
<1>3. CASE ~(IsHdr(m, 1) \/ IsHdr(jnl[d], 1))
  BY <1>1, <1>3, OneIs DEF Restored
<1> QED
  BY <1>2, <1>3

LEMMA CalmMixed ==
  ASSUME Inv, OneFile, NEW d \in Files, ddb[d] = db[d], ~IsHdr(jnl[d], 1),
         IsHdr(djnl[d], 1) => d \in fresh
  PROVE  Mixed(d)
<1> SUFFICES ASSUME NEW m \in Journals(d), IsHdr(m, 1) PROVE m = djnl[d]
  BY EitherMixed
<1>1. IsHdr(djnl[d], 1) /\ d \in fresh
  BY FoundIs
<1>2. CASE jnl[d] = None
  BY <1>2, NoCell DEF Journals
<1>3. CASE jnl[d] # None
  <2> SUFFICES ASSUME m \in Mixes(<< >>, jnl[d], Zero) PROVE FALSE
    BY <1>1, <1>3 DEF Journals
  <2>1. jnl[d] \in Seq(JournalCell)
    BY <1>3, OneIs
  <2>2. PICK e \in Seq(JournalCell) : e = << >> /\ Len(e) = 0
    <3>1. << >> \in Seq(JournalCell) /\ Len(<< >>) = 0
      OBVIOUS
    <3> QED
      BY <3>1
  <2>3. PICK j \in Seq(JournalCell) : j = jnl[d]
    BY <2>1
  <2>4. /\ m \in Seq(JournalCell)
        /\ \A i \in 1 .. Len(m) : \/ i \in 1 .. Len(j) /\ m[i] = j[i]
                                  \/ i \in 1 .. Len(e) /\ m[i] = e[i]
                                  \/ i > Len(e) /\ m[i] = Zero
    <3>1. m \in Mixes(e, j, Zero)
      BY <2>2, <2>3
    <3> QED
      BY <3>1, ZeroIs, MixIs
  <2>5. 1 \in 1 .. Len(m) /\ m[1].k = "hdr" /\ m[1].magic
    BY <2>4, CellIs
  <2>6. m[1] # Zero /\ ~(1 \in 1 .. Len(j) /\ m[1] = j[1])
    BY <2>3, <2>5, ZeroIs, CellIs
  <2> QED
    BY <2>2, <2>4, <2>5, <2>6
<1> QED
  BY <1>2, <1>3

(* A journal that is on disk restores the pages that are not.              *)
LEMMA SyncedMixed ==
  ASSUME Inv, OneFile, NEW d \in Files, SyncedTo(d), Covered(d)
  PROVE  Mixed(d)
<1>1. ASSUME NEW m \in Journals(d)
      PROVE  m = jnl[d]
  <2>1. CASE jnl[d] = None
    BY <2>1 DEF SyncedTo, Journals
  <2>2. CASE jnl[d] # None
    <3>1. PICK j \in Seq(JournalCell) : j = jnl[d] /\ j = djnl[d]
      BY <2>2, OneIs DEF SyncedTo
    <3>2. m \in Mixes(j, j, Zero)
      BY <2>2, <3>1 DEF SyncedTo, Journals
    <3> QED
      BY <3>1, <3>2, ZeroIs, MixSame
  <2> QED
    BY <2>1, <2>2
<1>2. CASE ~IsHdr(jnl[d], 1)
  <2>1. ddb[d] = db[d]
    BY <1>2 DEF Covered
  <2> QED
    BY <1>1, <2>1, EitherMixed
<1>3. CASE IsHdr(jnl[d], 1)
  <2> SUFFICES ASSUME NEW m \in Journals(d), NEW f \in Mixes(ddb[d], db[d], None)
               PROVE  Restored(f, m, {}) = Store(d)
    BY DEF Mixed
  <2>1. m = jnl[d] /\ Store(d) = Restored(db[d], jnl[d], {})
    BY <1>1, OneIs
  <2>2. PICK j \in Seq(JournalCell) : j = jnl[d]
    BY <1>3, OneIs, NoCell
  <2>3. PICK n \in Nat : n = j[1].orig /\ n <= Len(db[d]) /\ n <= Len(ddb[d])
    BY <1>3, <2>2, HotFitsIs
  <2>4. /\ f \in Seq(Page) /\ Len(f) \in {Len(ddb[d]), Len(db[d])}
        /\ \A p : p \in 1 .. Len(db[d]) /\ p \in 1 .. Len(ddb[d]) => f[p] \in {db[d][p], ddb[d][p]}
    BY PagesFound DEF Inv, Base
  <2>5. PICK b \in Seq(Page) : b = db[d]
    BY OneIs
  <2>6. IsHdr(j, 1) /\ Counts(j, {})
    BY <1>3, <2>2, OneIs
  <2>7. PICK R : R = OldPages(j, Records(j, Len(j)))
    OBVIOUS
  <2>8. /\ Restored(f, j, {}) \in Seq(Page) /\ Len(Restored(f, j, {})) = n
        /\ \A p \in 1 .. n :
             Restored(f, j, {})[p] = IF p \in R THEN OldPage(j, Records(j, Len(j)), p)
                                     ELSE IF p \in DOMAIN f THEN f[p] ELSE None
    BY <2>3, <2>4, <2>6, <2>7, RestoredIs
  <2>9. /\ Restored(b, j, {}) \in Seq(Page) /\ Len(Restored(b, j, {})) = n
        /\ \A p \in 1 .. n :
             Restored(b, j, {})[p] = IF p \in R THEN OldPage(j, Records(j, Len(j)), p)
                                     ELSE IF p \in DOMAIN b THEN b[p] ELSE None
    BY <2>3, <2>6, <2>7, RestoredIs
  <2>10. ASSUME NEW p \in 1 .. n, p \notin R
         PROVE  p \in DOMAIN f /\ p \in DOMAIN b /\ f[p] = b[p]
    <3>1. ddb[d][p] = db[d][p]
      BY <1>3, <2>2, <2>3, <2>7, <2>10 DEF Covered
    <3>2. p \in 1 .. Len(db[d]) /\ p \in 1 .. Len(ddb[d])
      <4>1. Len(db[d]) \in Nat /\ Len(ddb[d]) \in Nat
        BY OneIs
      <4> QED
        BY <2>3, <4>1
    <3>3. f[p] = b[p]
      BY <2>4, <2>5, <3>1, <3>2
    <3>4. p \in 1 .. Len(f)
      BY <2>4, <3>2
    <3> QED
      BY <2>4, <2>5, <3>2, <3>3, <3>4
  <2>11. \A p \in 1 .. n : Restored(f, j, {})[p] = Restored(b, j, {})[p]
    BY <2>8, <2>9, <2>10
  <2>12. Restored(f, j, {}) = Restored(b, j, {})
    <3>1. PICK x \in Seq(Page) : x = Restored(f, j, {})
      BY <2>8
    <3>2. PICK y \in Seq(Page) : y = Restored(b, j, {})
      BY <2>9
    <3>3. Len(x) = n /\ Len(y) = n /\ \A p \in 1 .. n : x[p] = y[p]
      BY <2>8, <2>9, <2>11, <3>1, <3>2
    <3>4. x = y
      BY <3>3, SameSeq
    <3> QED
      BY <3>1, <3>2, <3>4
  <2> QED
    BY <2>1, <2>2, <2>5, <2>12
<1> QED
  BY <1>2, <1>3

(* What a transaction that changes a file finds after a loss of power is   *)
(* what its file was.                                                      *)
LEMMA SyncedFound ==
  ASSUME Inv, OneFile, NEW d \in Files, d \notin fresh, djnl[d] # None, jnl[d] # None,
         NEW m \in Journals(d)
  PROVE  m \in Mixes(djnl[d], jnl[d], Zero)
BY DEF Journals

LEMMA JournalCovers ==
  ASSUME NEW j \in Seq(JournalCell), NEW w \in JournalWriter,
         NEW a \in Seq(Page), NEW f \in Seq(Page), Journal(j, w, a, f), w.mod,
         NEW p \in 1 .. w.orig, Recorded(j, w.hdr - 1, p)
  PROVE  p \in OldPages(j, Records(j, Len(j)))
<1>1. PICK h \in Nat : h = w.hdr
  BY DEF JournalWriter
<1>2. PICK o \in Nat : o = w.off
  BY DEF JournalWriter
<1>3. PICK l \in Nat : l = Len(j)
  OBVIOUS
<1>4. /\ 1 < h /\ h <= o + 1 /\ o <= l /\ 1 <= o
      /\ Tiled(j, h - 1) /\ j[1].orig = w.orig
      /\ h > o => ~IsHdr(j, h)
  BY <1>1, <1>2, <1>3 DEF Journal, Placed, Segment
<1>5. PICK k \in 1 .. h - 1 : j[k].k = "rec" /\ j[k].page = p
  BY <1>1 DEF Recorded
<1>6. \E L \in Nat : /\ 1 <= L /\ L <= l /\ h - 1 <= L /\ Tiled(j, L) /\ ~IsHdr(j, L + 1)
  <2>1. CASE ~IsHdr(j, h)
    <3>1. PICK L \in Nat : L = h - 1
      BY <1>1, <1>4
    <3> QED
      BY <1>1, <1>2, <1>3, <1>4, <2>1, <3>1
  <2>2. CASE IsHdr(j, h)
    <3>1. h <= o /\ h \in 1 .. l
      BY <1>1, <1>2, <1>3, <1>4, <2>2
    <3>2. j[h].magic
      BY <1>3, <2>2, <3>1, CellIs
    <3>3. Tiled(j, o) /\ ~IsHdr(j, o + 1)
      BY <1>1, <1>2, <3>1, <3>2, JournalTiled
    <3> QED
      BY <1>2, <1>3, <1>4, <3>1, <3>3
  <2> QED
    BY <2>1, <2>2
<1>7. PICK L \in Nat : 1 <= L /\ L <= l /\ h - 1 <= L /\ Tiled(j, L) /\ ~IsHdr(j, L + 1)
  BY <1>6
<1>8. Records(j, l) = {i \in 1 .. L : j[i].k = "rec"}
  BY <1>3, <1>7, RecordsTiled
<1>9. k \in Records(j, l)
  BY <1>1, <1>5, <1>7, <1>8
<1>10. p \in 1 .. j[1].orig
  BY <1>4
<1> QED
  BY <1>3, <1>5, <1>9, <1>10 DEF OldPages

LEMMA ModMixed ==
  ASSUME Inv, OneFile, NEW c \in Conns, NEW d \in Files, Live(c, d), jw[c][d].mod, WriterSynced(c, d)
  PROVE  Mixed(d) /\ Covered(d)
<1>1. /\ JournalKept(c, d) /\ cache[c][d] \in Seq(Page) /\ jw[c][d] \in JournalWriter
      /\ db[d] \in Seq(Page) /\ cache[c][d] = Store(d)
  BY LiveIs
<1>2. PICK w \in JournalWriter : w = jw[c][d]
  BY <1>1
<1>3. PICK a \in Seq(Page) : a = cache[c][d]
  BY <1>1
<1>4. PICK b \in Seq(Page) : b = db[d]
  BY <1>1
<1>5. PICK h \in Nat : h = w.hdr
  BY DEF JournalWriter
<1>6. /\ djnl[d] \in Seq(JournalCell) /\ jnl[d] \in Seq(JournalCell)
      /\ h # 0 /\ Len(djnl[d]) >= h - 1 /\ \A k \in 1 .. h - 1 : djnl[d][k] = jnl[d][k]
      /\ ~IsHdr(djnl[d], h) /\ w.off # 0 /\ w.off \in Nat /\ h - 1 <= w.off /\ w.off <= Len(jnl[d])
  BY <1>2, <1>5, SyncedIs
<1>7. PICK j \in Seq(JournalCell) : j = jnl[d]
  BY <1>6
<1>8. PICK g \in Seq(JournalCell) : g = djnl[d]
  BY <1>6
<1>9. Journal(j, w, a, b) /\ w.mod /\ w.orig \in Nat /\ w.orig = Len(a)
  BY <1>1, <1>2, <1>3, <1>4, <1>6, <1>7 DEF JournalKept, JournalWriter
<1>10. /\ d \notin fresh
       /\ \A p \in 1 .. w.orig : ddb[d][p] = b[p] \/ Recorded(j, h - 1, p)
       /\ IsHdr(j, h) => SyncedBut(d, h)
  BY <1>2, <1>4, <1>5, <1>6, <1>7 DEF WriterSynced
<1>11. w.orig <= Len(db[d]) /\ w.orig <= Len(ddb[d])
  BY <1>2, OrigIs DEF Live
<1>12. ASSUME NEW f \in Mixes(ddb[d], db[d], None)
       PROVE  f \in Seq(Page) /\ Journal(j, w, a, f)
  <2>1. /\ f \in Seq(Page) /\ Len(f) \in {Len(ddb[d]), Len(db[d])}
        /\ \A p : p \in 1 .. Len(db[d]) /\ p \in 1 .. Len(ddb[d]) => f[p] \in {db[d][p], ddb[d][p]}
    BY PagesFound DEF Inv, Base
  <2>2. Len(db[d]) \in Nat /\ Len(ddb[d]) \in Nat
    BY OneIs
  <2>3. Len(f) >= w.orig
    BY <1>11, <2>1
  <2>4. ASSUME NEW p \in 1 .. w.orig
        PROVE  f[p] = b[p] \/ f[p] = a[p] \/ Recorded(j, w.hdr - 1, p)
    <3>1. p \in 1 .. Len(db[d]) /\ p \in 1 .. Len(ddb[d])
      BY <1>9, <1>11, <2>2
    <3> QED
      BY <1>4, <1>5, <1>10, <2>1, <3>1
  <2>5. Journal(j, w, a, f)
    BY <1>9, <2>1, <2>3, <2>4, JournalFile
  <2> QED
    BY <2>1, <2>5
<1>13. ASSUME NEW m \in Journals(d)
       PROVE  /\ m \in Seq(JournalCell)
              /\ m = j \/ (Len(m) >= h - 1 /\ (\A k \in 1 .. h - 1 : m[k] = j[k]) /\ ~IsHdr(m, h))
  <2>1. m \in Mixes(g, j, Zero)
    <3>1. djnl[d] # None /\ jnl[d] # None
      BY <1>6, JournalAssumption
    <3> QED
      BY <1>7, <1>8, <1>10, <3>1, SyncedFound
  <2>2. /\ m \in Seq(JournalCell) /\ Len(m) \in {Len(g), Len(j)}
        /\ \A i \in 1 .. Len(m) : \/ i \in 1 .. Len(j) /\ m[i] = j[i]
                                  \/ i \in 1 .. Len(g) /\ m[i] = g[i]
                                  \/ i > Len(g) /\ m[i] = Zero
    BY <2>1, ZeroIs, MixIs
  <2>3. Len(g) \in Nat /\ Len(j) \in Nat /\ Len(m) \in Nat
    BY <2>2
  <2>4. Len(g) >= h - 1 /\ Len(j) >= h - 1 /\ \A k \in 1 .. h - 1 : g[k] = j[k]
    BY <1>6, <1>7, <1>8, <2>3
  <2>5. Len(m) >= h - 1
    BY <2>2, <2>4
  <2>6. ASSUME NEW k \in 1 .. h - 1
        PROVE  m[k] = j[k]
    <3>1. PICK lg \in Nat : lg = Len(g) /\ h - 1 <= lg
      BY <2>3, <2>4
    <3>2. PICK lm \in Nat : lm = Len(m) /\ h - 1 <= lm
      BY <2>3, <2>5
    <3>3. k \in 1 .. lm /\ ~(k > lg)
      BY <3>1, <3>2
    <3>4. g[k] = j[k]
      BY <2>4
    <3> QED
      BY <2>2, <3>1, <3>2, <3>3, <3>4
  <2>7. CASE IsHdr(j, h)
    <3>1. /\ Len(g) = Len(j) /\ \A k \in 1 .. Len(j) : k = h \/ g[k] = j[k]
      BY <1>7, <1>8, <1>10, <2>7 DEF SyncedBut
    <3>2. m \in {g, j}
      <4>1. Len(g) = Len(j)
        BY <3>1
      <4>2. \A k \in 1 .. Len(j) : k = h \/ g[k] = j[k]
        BY <3>1
      <4>3. ButAt(g, j, h)
        BY <4>1, <4>2 DEF ButAt
      <4> QED
        BY <2>1, <4>3, MixBut
    <3>3. ~IsHdr(g, h)
      BY <1>6, <1>8
    <3> QED
      BY <2>2, <2>5, <2>6, <3>2, <3>3
  <2>8. CASE ~IsHdr(j, h)
    <3>1. ~IsHdr(m, h)
      <4> SUFFICES ASSUME IsHdr(m, h) PROVE FALSE
        OBVIOUS
      <4>1. h \in 1 .. Len(m) /\ m[h].k = "hdr" /\ m[h].magic
        BY <2>2, CellIs
      <4>2. CASE h \in 1 .. Len(j) /\ m[h] = j[h]
        BY <2>8, <4>1, <4>2, CellIs
      <4>3. CASE h \in 1 .. Len(g) /\ m[h] = g[h]
        <5>1. ~IsHdr(g, h)
          BY <1>6, <1>8
        <5> QED
          BY <4>1, <4>3, <5>1, CellIs
      <4>4. m[h] # Zero
        BY <4>1, ZeroIs
      <4> QED
        BY <2>2, <4>1, <4>2, <4>3, <4>4
    <3> QED
      BY <2>2, <2>5, <2>6, <3>1
  <2> QED
    BY <2>7, <2>8
<1>14. Mixed(d)
  <2> SUFFICES ASSUME NEW m \in Journals(d), NEW f \in Mixes(ddb[d], db[d], None)
               PROVE  Restored(f, m, {}) = a
    BY <1>1, <1>3 DEF Mixed
  <2>1. f \in Seq(Page) /\ Journal(j, w, a, f) /\ Counts(m, {}) /\ m \in Seq(JournalCell)
    BY <1>12, <1>13, FoundIs
  <2>2. CASE m = j
    BY <2>1, <2>2, JournalRestores
  <2>3. CASE m # j
    <3>1. Len(m) >= w.hdr - 1 /\ (\A k \in 1 .. w.hdr - 1 : m[k] = j[k]) /\ ~IsHdr(m, w.hdr)
      BY <1>5, <1>13, <2>3
    <3>2. PICK n \in Seq(JournalCell) : n = m
      BY <2>1
    <3>3. Len(n) >= w.hdr - 1 /\ (\A k \in 1 .. w.hdr - 1 : n[k] = j[k]) /\ ~IsHdr(n, w.hdr) /\ Counts(n, {})
      BY <2>1, <3>1, <3>2
    <3>4. Restored(f, n, {}) = a
      BY <1>9, <2>1, <3>3, SyncedRestores
    <3> QED
      BY <3>2, <3>4
  <2> QED
    BY <2>2, <2>3
<1>15. Covered(d)
  <2>1. IsHdr(j, 1) /\ j[1].orig = w.orig
    BY <1>9, JournalHot
  <2> SUFFICES ASSUME NEW p \in 1 .. w.orig, Recorded(j, h - 1, p)
               PROVE  p \in OldPages(j, Records(j, Len(j)))
    BY <1>4, <1>7, <1>10, <2>1 DEF Covered
  <2> QED
    BY <1>5, <1>9, JournalCovers
<1> QED
  BY <1>14, <1>15

(* A file that a transaction has is not one whose journal is finalised.    *)
LEMMA NotFinishing ==
  ASSUME Inv, NEW c \in Conns, NEW d \in Files, Live(c, d)
  PROVE  ~Finishing(d)
<1> SUFFICES ASSUME NEW o \in Conns, pc[o] = "finsync", cur[o] = d PROVE FALSE
  BY DEF Finishing
<1>1. InTxn(c, d) /\ ~Committed(c) /\ ~Undone(c, d) /\ Control(o) /\ LocksHeld(o) /\ Stage(o)
  BY DEF Live, Inv, Base, Phases
<1>2. op[o] \in {"hot", "commit", "rollback"}
  BY <1>1 DEF Control
<1>3. op[o] # "hot" => InTxn(o, d)
  BY <1>1, <1>2 DEF Control
<1>4. op[o] = "hot" => d \notin reads[o] /\ lock[o][d] = EXCLUSIVE
  BY <1>1 DEF LocksHeld, Recovering, Alone
<1>5. o = c
  <2> SUFFICES ASSUME o # c PROVE FALSE
    OBVIOUS
  <2>1. lock[o][d] >= RESERVED /\ lock[c][d] >= RESERVED
    BY <1>1, <1>2, <1>3, <1>4 DEF InTxn, RESERVED, EXCLUSIVE
  <2>2. lock[c][d] <= SHARED /\ lock[c][d] \in 0 .. 4
    BY <2>1, DataTypes DEF Inv, Base, Excluded
  <2> QED
    BY <2>1, <2>2 DEF RESERVED, SHARED
<1>6. op[c] # "rollback"
  BY <1>1, <1>5 DEF Undone
<1>7. op[c] # "commit"
  BY <1>1, <1>5 DEF Stage
<1> QED
  BY <1>1, <1>2, <1>4, <1>5, <1>6, <1>7 DEF InTxn

LEMMA NotModMixed ==
  ASSUME Inv, OneFile, NEW c \in Conns, NEW d \in Files, Live(c, d), ~jw[c][d].mod,
         WriterSynced(c, d), GoneOnDisk(d)
  PROVE  Mixed(d) /\ Covered(d)
<1>1. ddb[d] = db[d]
  BY DEF WriterSynced
<1>2. Covered(d)
  BY <1>1 DEF Covered
<1>3. CASE ~IsHdr(jnl[d], 1)
  <2>1. IsHdr(djnl[d], 1) => d \in fresh
    BY <1>3, NotFinishing DEF GoneOnDisk
  <2> QED
    BY <1>1, <1>2, <1>3, <2>1, CalmMixed
<1>4. CASE IsHdr(jnl[d], 1)
  <2>1. jw[c][d].off # 0 /\ JournalKept(c, d) /\ jw[c][d] \in JournalWriter
    BY <1>4, LiveIs
  <2>2. jw[c][d].hdr = 1
    <3>1. Placed(jnl[d], jw[c][d])
      BY <2>1 DEF JournalKept, Journal
    <3> QED
      BY <2>1, <3>1 DEF Placed, JournalWriter
  <2>3. SyncedBut(d, 1)
    BY <1>4, <2>1, <2>2 DEF WriterSynced
  <2>4. PICK j \in Seq(JournalCell) : j = jnl[d]
    BY <1>4, OneIs, NoCell
  <2>5. PICK g \in Seq(JournalCell) : g = djnl[d]
    BY <2>3, OneIs DEF SyncedBut
  <2>6. /\ Len(g) = Len(j) /\ \A k \in 1 .. Len(j) : k = 1 \/ g[k] = j[k]
    BY <2>3, <2>4, <2>5 DEF SyncedBut
  <2>7. ASSUME NEW m \in Journals(d) PROVE m \in {djnl[d], jnl[d]}
    <3>1. jnl[d] # None /\ djnl[d] # None /\ d \notin fresh
      BY <2>3, <2>4, JournalAssumption DEF SyncedBut
    <3>2. m \in Mixes(g, j, Zero)
      BY <2>4, <2>5, <3>1, SyncedFound
    <3>3. m \in {g, j}
      <4>1. Len(g) = Len(j)
        BY <2>6
      <4>2. \A k \in 1 .. Len(j) : k = 1 \/ g[k] = j[k]
        BY <2>6
      <4>3. ButAt(g, j, 1)
        BY <4>1, <4>2 DEF ButAt
      <4> QED
        BY <3>2, <4>3, MixBut
    <3> QED
      BY <2>4, <2>5, <3>3
  <2> QED
    BY <1>1, <1>2, <2>7, EitherMixed
<1> QED
  BY <1>3, <1>4

LEMMA LiveMixed ==
  ASSUME Inv, OneFile, NEW c \in Conns, NEW d \in Files, Live(c, d), WriterSynced(c, d), GoneOnDisk(d)
  PROVE  Mixed(d) /\ Covered(d)
BY ModMixed, NotModMixed
-----------------------------------------------------------------------------
(* Who syncs a file, or takes its journal away. *)

Rests(c, e) ==
  \/ ddb'[e] = ddb[e] /\ (e \in fresh' <=> e \in fresh)
  \/ /\ e = cur[c]
     /\ \/ SyncDb(c) \/ PlaySync(c) \/ HotEmpty(c) \/ HotOpen(c) \/ Fin(c) \/ FinSync(c)
        \/ SyncRecords(c) \/ SyncCount(c)

LEMMA RestsIs ==
  ASSUME Inv, NEW c \in Conns, Acts(c), NEW e \in Files
  PROVE  Rests(c, e)
<1> USE DEF disk
<1>1. FileShapes
  BY FileShapesOK DEF Inv, Base
<1>2. CASE HotExists(c)
  BY <1>2 DEF HotExists, Rests
<1>3. CASE HotReserved(c)
  BY <1>3 DEF HotReserved, Rests
<1>4. CASE HotEmpty(c)
  <2>1. e # cur[c] => ddb'[e] = ddb[e] /\ (e \in fresh' <=> e \in fresh)
    BY <1>1, <1>4 DEF HotEmpty, FileShapes
  <2> QED
    BY <1>4, <2>1 DEF Rests
<1>5. CASE HotByte(c)
  BY <1>5 DEF HotByte, Rests
<1>6. CASE HotLock(c)
  BY <1>6 DEF HotLock, Rests
<1>7. CASE HotOpen(c)
  <2>1. e # cur[c] => ddb'[e] = ddb[e] /\ (e \in fresh' <=> e \in fresh)
    BY <1>1, <1>7 DEF HotOpen, FileShapes
  <2> QED
    BY <1>7, <2>1 DEF Rests
<1>8. CASE PlayTruncate(c)
  BY <1>8 DEF PlayTruncate, Rests
<1>9. CASE PlayPage(c)
  BY <1>9 DEF PlayPage, Rests
<1>10. CASE PlaySync(c)
  <2>1. e # cur[c] => ddb'[e] = ddb[e] /\ (e \in fresh' <=> e \in fresh)
    BY <1>1, <1>10 DEF PlaySync, FileShapes
  <2> QED
    BY <1>10, <2>1 DEF Rests
<1>11. CASE Fin(c)
  <2>1. e # cur[c] => ddb'[e] = ddb[e] /\ (e \in fresh' <=> e \in fresh)
    BY <1>1, <1>11 DEF Fin, FileShapes
  <2> QED
    BY <1>11, <2>1 DEF Rests
<1>12. CASE FinSync(c)
  <2>1. e # cur[c] => ddb'[e] = ddb[e] /\ (e \in fresh' <=> e \in fresh)
    BY <1>1, <1>12 DEF FinSync, FileShapes
  <2> QED
    BY <1>12, <2>1 DEF Rests
<1>13. CASE Unlock(c)
  BY <1>13 DEF Unlock, Rests
<1>14. CASE DelSuper(c)
  BY <1>14 DEF DelSuper, Rests
<1>15. CASE NextFile(c)
  BY <1>15 DEF NextFile, Rests
<1>16. CASE Check(c)
  BY <1>16 DEF Check, Rests
<1>17. CASE CommitLock(c)
  BY <1>17 DEF CommitLock, Rests
<1>18. CASE WriteSuper(c)
  BY <1>18 DEF WriteSuper, Rests
<1>19. CASE Prepare(c)
  BY <1>19 DEF Prepare, Rests
<1>20. CASE SyncRecords(c)
  <2>1. e # cur[c] => ddb'[e] = ddb[e] /\ (e \in fresh' <=> e \in fresh)
    BY <1>1, <1>20 DEF SyncRecords, FileShapes
  <2> QED
    BY <1>20, <2>1 DEF Rests
<1>21. CASE Count(c)
  BY <1>21 DEF Count, Rests
<1>22. CASE SyncCount(c)
  <2>1. e # cur[c] => ddb'[e] = ddb[e] /\ (e \in fresh' <=> e \in fresh)
    BY <1>1, <1>22 DEF SyncCount, FileShapes
  <2> QED
    BY <1>22, <2>1 DEF Rests
<1>23. CASE WritePage(c)
  BY <1>23 DEF WritePage, Rests
<1>24. CASE SyncDb(c)
  <2>1. e # cur[c] => ddb'[e] = ddb[e] /\ (e \in fresh' <=> e \in fresh)
    BY <1>1, <1>24 DEF SyncDb, FileShapes
  <2> QED
    BY <1>24, <2>1 DEF Rests
<1>25. CASE DeleteSuper(c)
  BY <1>25 DEF DeleteSuper, Rests
<1>26. CASE End(c)
  BY <1>26 DEF End, Rests
<1>27. CASE Commit(c)
  BY <1>27 DEF Commit, Rests
<1>28. CASE Rollback(c)
  BY <1>28 DEF Rollback, Rests
<1>29. CASE Crash(c)
  BY <1>29 DEF Crash, Rests
<1>30. ASSUME NEW d \in Files, Open(c, d) PROVE Rests(c, e)
  BY <1>30 DEF Open, Rests
<1>31. ASSUME NEW d \in Files, Reserve(c, d) PROVE Rests(c, e)
  BY <1>31 DEF Reserve, Rests
<1>32. ASSUME NEW d \in Files, NEW p \in Pages, Write(c, d, p) PROVE Rests(c, e)
  BY <1>32 DEF Write, Rests
<1>33. ASSUME NEW d \in Files, NEW p \in Pages, Spill(c, d, p) PROVE Rests(c, e)
  BY <1>33 DEF Spill, Rests
<1> QED
  BY <1>2, <1>3, <1>4, <1>5, <1>6, <1>7, <1>8, <1>9, <1>10, <1>11, <1>12, <1>13, <1>14, <1>15,
     <1>16, <1>17, <1>18, <1>19, <1>20, <1>21, <1>22, <1>23, <1>24, <1>25, <1>26, <1>27, <1>28,
     <1>29, <1>30, <1>31, <1>32, <1>33 DEF Acts, Step

(* Nothing happens to a file, its journal, and what of them is on disk.    *)
Still(e) == Same(e) /\ (e \in fresh' <=> e \in fresh)
Settles(c) ==
  \/ SyncDb(c) \/ PlaySync(c) \/ HotEmpty(c) \/ HotOpen(c) \/ Fin(c) \/ FinSync(c)
  \/ op[c] = "hot" /\ (PlayTruncate(c) \/ PlayPage(c))

LEMMA StillOr ==
  ASSUME Inv, NEW c \in Conns, Acts(c), NEW e \in Files
  PROVE  Still(e) \/ Works(c, e) \/ (e = cur[c] /\ Settles(c))
<1> SUFFICES ASSUME ~Works(c, e), ~(e = cur[c] /\ Settles(c)) PROVE Still(e)
  OBVIOUS
<1>1. db'[e] = db[e] /\ jnl'[e] = jnl[e]
  BY KindsAre DEF Kinds, Settles
<1>2. ~(e = cur[c] /\ (SyncRecords(c) \/ SyncCount(c)))
  BY DEF Works
<1>3. djnl'[e] = djnl[e]
  BY <1>2, DiskStaysIs DEF DiskStays, Settles
<1>4. ddb'[e] = ddb[e] /\ (e \in fresh' <=> e \in fresh)
  BY <1>2, RestsIs DEF Rests, Settles
<1> QED
  BY <1>1, <1>3, <1>4 DEF Still, Same

(* Nobody touches a file that another connection has reserved.             *)
LEMMA OthersStill ==
  ASSUME Inv, NEW c \in Conns, Acts(c), NEW o \in Conns, o # c, NEW e \in Files, lock[o][e] >= RESERVED
  PROVE  Still(e)
<1>1. Same(e)
  BY OthersSafe
<1>2. lock[o][e] \in 0 .. 4 /\ lock[c][e] \in 0 .. 4
  BY DataTypes DEF Inv, Base
<1>3. lock[c][e] <= SHARED
  BY DEF Inv, Base, Excluded
<1>4. ~Works(c, e)
  <2> SUFFICES ASSUME Works(c, e) PROVE FALSE
    OBVIOUS
  <2>1. InTxn(c, e)
    BY WorksDoes DEF WorkDone, Live
  <2> QED
    BY <1>2, <1>3, <2>1 DEF InTxn, SHARED, RESERVED
<1>5. e = cur[c] /\ Settles(c) => HotEmpty(c)
  <2> SUFFICES ASSUME e = cur[c], Settles(c), ~HotEmpty(c) PROVE FALSE
    OBVIOUS
  <2> USE DEF At
  <2>1. Control(c) /\ LocksHeld(c)
    BY DEF Inv, Base
  <2>2. pc[c] \in {"page", "play", "open", "fin", "finsync"}
    BY DEF Settles, SyncDb, PlaySync, HotOpen, Fin, FinSync, PlayTruncate, PlayPage
  <2>3. CASE pc[c] = "open" \/ (op[c] = "hot" /\ pc[c] \in {"play", "fin", "finsync"})
    BY <1>2, <1>3, <2>1, <2>3 DEF LocksHeld, Recovering, Alone, SHARED, EXCLUSIVE
  <2>4. CASE pc[c] = "page"
    <3>1. InTxn(c, e)
      BY <2>1, <2>4 DEF Control
    <3> QED
      BY <1>2, <1>3, <3>1 DEF InTxn, SHARED, RESERVED
  <2>5. CASE op[c] # "hot" /\ pc[c] \in {"play", "fin", "finsync"}
    <3>1. op[c] \in {"commit", "rollback"}
      BY <2>1, <2>5 DEF Control
    <3>2. InTxn(c, e)
      BY <2>1, <2>5, <3>1 DEF Control
    <3> QED
      BY <1>2, <1>3, <3>2 DEF InTxn, SHARED, RESERVED
  <2> QED
    BY <2>2, <2>3, <2>4, <2>5
<1>6. e = cur[c] /\ HotEmpty(c) => Still(e)
  <2>1. ~NoneAbove(c, e, RESERVED)
    BY <1>2 DEF NoneAbove, RESERVED
  <2> QED
    BY <1>1, <2>1 DEF HotEmpty, Still
<1> QED
  BY <1>1, <1>4, <1>5, <1>6, StillOr
-----------------------------------------------------------------------------
(* What a connection may not do for a loss of power to be harmless: delete *)
(* the journal of a file that is empty before that is on disk, and end     *)
(* while the zeroed header of a journal is not.                            *)
Heeds(c) ==
  /\ HotEmpty(c) /\ NoneAbove(c, cur[c], RESERVED) => ddb[cur[c]] = db[cur[c]]
  /\ Crash(c) => ~(JMode = "persist" /\ pc[c] = "finsync")

LEMMA HotWhen ==
  ASSUME Inv, NEW c \in Conns, NEW e \in Files, Live(c, e), pc[c] \in {"run", "prepare"},
         pc[c] = "prepare" => cur[c] = e, ~jw[c][e].mod
  PROVE  ~IsHdr(jnl[e], 1)
<1>1. lock[c][e] >= RESERVED
  BY DEF Live, InTxn
<1>2. CASE jw[c][e].off = 0
  BY <1>2, LiveIs
<1>3. CASE jw[c][e].off # 0
  <2>1. Growing(jnl[e], jw[c][e])
    BY <1>1, <1>3, RunIs
  <2>2. /\ JournalKept(c, e) /\ cache[c][e] \in Seq(Page) /\ jw[c][e] \in JournalWriter
        /\ db[e] \in Seq(Page) /\ jnl[e] \in Seq(JournalCell)
    BY <1>3, LiveIs
  <2>3. Journal(jnl[e], jw[c][e], cache[c][e], db[e])
    BY <1>3, <2>2 DEF JournalKept
  <2> QED
    BY <2>1, <2>2, <2>3, GrowingHot
<1> QED
  BY <1>2, <1>3

LEMMA ModHotAfter ==
  ASSUME Inv, NEW c \in Conns, NEW e \in Files, Works(c, e), jw'[c][e].mod
  PROVE  IsHdr(jnl'[e], 1)
<1>1. WorkDone(c, e)
  BY WorksDoes
<1>2. /\ jnl'[e] \in Seq(JournalCell) /\ jw'[c][e] \in JournalWriter /\ db'[e] \in Seq(Page)
      /\ Journal(jnl'[e], jw'[c][e], cache[c][e], db'[e])
  BY <1>1 DEF WorkDone, JournalKept
<1>3. cache[c][e] \in Seq(Page)
  BY <1>1, LiveIs DEF WorkDone
<1> QED
  BY <1>2, <1>3, GrowingHot

LEMMA CountHot ==
  ASSUME Inv, NEW c \in Conns, Count(c), NEW e, e = cur[c], ~jw[c][e].mod
  PROVE  IsHdr(jnl'[e], 1)
<1> USE DEF At
<1>1. e \in Files /\ Live(c, e) /\ jw[c][e].off # 0
  BY CountDoes
<1>2. /\ JournalKept(c, e) /\ jw[c][e] \in JournalWriter /\ jnl[e] \in Seq(JournalCell)
      /\ cache[c][e] \in Seq(Page) /\ db[e] \in Seq(Page) /\ jw[c][e].hdr <= jw[c][e].off
  <2>1. pc[c] = "count" /\ Writing(c)
    BY DEF Count, Writing
  <2> QED
    BY <2>1, WritingIs
<1>3. Journal(jnl[e], jw[c][e], cache[c][e], db[e])
  BY <1>1, <1>2 DEF JournalKept
<1>4. ~IsHdr(jnl[e], jw[c][e].off + 1)
  BY DEF Count, Inv, Phases, Stage
<1>5. PICK w \in JournalWriter : w = jw[c][e]
  BY <1>2
<1>6. PICK j \in Seq(JournalCell) : j = jnl[e]
  BY <1>2
<1>7. PICK g : g = [j EXCEPT ![w.hdr] = [@ EXCEPT !.n = w.n, !.magic = TRUE]]
  OBVIOUS
<1>8. g \in Seq(JournalCell) /\ g[w.hdr].magic /\ Len(g) = Len(j) /\ g[1].k = "hdr"
  <2>1. Journal(j, w, cache[c][e], db[e]) /\ w.hdr <= w.off /\ ~IsHdr(j, w.off + 1)
    BY <1>2, <1>3, <1>4, <1>5, <1>6
  <2> QED
    BY <1>2, <1>7, <2>1, JournalCounted
<1>9. jnl'[e] = g
  BY <1>1, <1>5, <1>6, <1>7, FileShapesOK DEF Count, FileShapes, Inv, Base
<1>10. w.hdr = 1 /\ 1 \in 1 .. Len(g)
  <2>1. Placed(j, w)
    BY <1>3, <1>5, <1>6 DEF Journal
  <2>2. ~w.mod /\ w.hdr \in Nat /\ w.off \in Nat
    BY <1>5 DEF JournalWriter
  <2>3. Len(j) \in Nat
    BY <1>6
  <2> QED
    BY <1>8, <2>1, <2>2, <2>3 DEF Placed
<1> QED
  BY <1>8, <1>9, <1>10, CellIs

LEMMA FinishingStays ==
  ASSUME Inv, NEW c \in Conns, Acts(c), setting' = setting, Heeds(c), NEW e \in Files, Finishing(e),
         ~(e = cur[c] /\ FinSync(c))
  PROVE  Finishing(e)'
<1>1. PICK o \in Conns : pc[o] = "finsync" /\ cur[o] = e
  BY DEF Finishing
<1>2. JMode = "persist" /\ JMode' = "persist"
  BY DEF Finishing, JMode
<1>3. CASE o # c
  <2>1. Alike(o)
    BY <1>3, Others DEF Inv, Base
  <2> QED
    BY <1>1, <1>2, <2>1 DEF Alike, Finishing
<1>4. CASE o = c
  <2>1. ~Unlock(c)
    BY <1>1, <1>4 DEF Unlock, At
  <2> QED
    BY <1>1, <1>2, <1>4, <2>1, EndsHow DEF Heeds
<1> QED
  BY <1>3, <1>4

LEMMA GoneKept ==
  ASSUME Inv, Sure, NEW c \in Conns, Acts(c), setting' = setting, Heeds(c), NEW e \in Files, GoneOnDisk(e)
  PROVE  GoneOnDisk(e)'
<1> USE DEF At
<1> SUFFICES ASSUME IsHdr(djnl'[e], 1), ~IsHdr(jnl'[e], 1), e \notin fresh' PROVE Finishing(e)'
  BY DEF GoneOnDisk
<1>1. FileShapes /\ Shapes /\ Control(c)
  BY FileShapesOK, ControlTyped DEF Inv, Base
<1>2. CASE jnl'[e] = jnl[e] /\ djnl'[e] = djnl[e] /\ (e \in fresh' <=> e \in fresh)
  <2>1. Finishing(e)
    BY <1>2 DEF GoneOnDisk
  <2>2. ~(e = cur[c] /\ FinSync(c))
    BY <1>1, <1>2 DEF FinSync, FileShapes
  <2> QED
    BY <2>1, <2>2, FinishingStays
<1>3. CASE Works(c, e) /\ ~(jnl'[e] = jnl[e] /\ djnl'[e] = djnl[e] /\ (e \in fresh' <=> e \in fresh))
  <2>1. WorkDone(c, e) /\ Live(c, e) /\ ~jw'[c][e].mod /\ ~jw[c][e].mod
    BY <1>3, WorksDoes, ModHotAfter DEF WorkDone
  <2>2. ~IsHdr(jnl[e], 1) => e \in fresh \/ ~IsHdr(djnl[e], 1)
    BY <2>1, NotFinishing DEF GoneOnDisk
  <2>3. ASSUME (\E p \in Pages : Write(c, e, p)) \/ (e = cur[c] /\ Prepare(c)) PROVE FALSE
    <3>1. djnl' = djnl /\ fresh' = fresh /\ pc[c] \in {"run", "prepare"} /\ (pc[c] = "prepare" => cur[c] = e)
      BY <2>3 DEF Write, Prepare
    <3>2. ~IsHdr(jnl[e], 1)
      BY <2>1, <3>1, HotWhen
    <3> QED
      BY <2>2, <3>1, <3>2
  <2>4. ASSUME e = cur[c], SyncRecords(c) PROVE FALSE
    <3>1. Full
      BY DEF Sure
    <3>2. jnl' = [jnl EXCEPT ![e] = SpoilNext(jnl[e], jw[c][e].off + 1)]
          /\ djnl' = [djnl EXCEPT ![e] = SpoilNext(jnl[e], jw[c][e].off + 1)]
      BY <1>3, <2>4, <3>1 DEF SyncRecords
    <3> QED
      BY <1>1, <3>2 DEF FileShapes
  <2>5. ASSUME e = cur[c], Count(c) PROVE FALSE
    BY <2>1, <2>5, CountHot
  <2>6. ~(e = cur[c] /\ SyncCount(c))
    BY <2>1, SyncCountDoes
  <2>7. ~(e = cur[c] /\ WritePage(c))
    BY <2>1, WritePageDoes
  <2>8. ~(e = cur[c] /\ op[c] = "rollback" /\ (PlayTruncate(c) \/ PlayPage(c)))
    BY <2>1, PlayDoes
  <2> QED
    BY <1>3, <2>3, <2>4, <2>5, <2>6, <2>7, <2>8 DEF Works
<1>4. CASE e = cur[c] /\ Settles(c)
  <2>1. CASE SyncDb(c)
    BY <1>2, <2>1 DEF SyncDb
  <2>2. CASE PlaySync(c)
    BY <1>2, <2>2 DEF PlaySync
  <2>3. CASE PlayTruncate(c) \/ PlayPage(c)
    BY <1>2, <2>3 DEF PlayTruncate, PlayPage
  <2>4. CASE HotEmpty(c)
    BY <1>2, <1>4, <2>4 DEF HotEmpty
  <2>5. CASE HotOpen(c)
    <3>1. CASE StillThere(e)
      BY <1>1, <1>4, <2>5, <3>1 DEF HotOpen, FileShapes
    <3>2. CASE ~StillThere(e)
      BY <1>2, <1>4, <2>5, <3>2 DEF HotOpen
    <3> QED
      BY <3>1, <3>2
  <2>6. CASE Fin(c)
    <3>1. JMode = "persist" /\ pc'[c] = "finsync" /\ cur' = cur
      BY <1>1, <1>4, <2>6 DEF Fin, FinSynced, Go, Shapes
    <3> QED
      BY <1>4, <3>1 DEF Finishing, JMode
  <2>7. CASE FinSync(c)
    BY <1>1, <1>4, <2>7 DEF FinSync, FileShapes
  <2> QED
    BY <1>4, <2>1, <2>2, <2>3, <2>4, <2>5, <2>6, <2>7 DEF Settles
<1> QED
  BY <1>2, <1>3, <1>4, StillOr DEF Still, Same
-----------------------------------------------------------------------------
(* A header counts only while it is written, or a rollback is under way.   *)
LEMMA HdrHot ==
  Inv => \A c \in Conns, e \in Files :
    Live(c, e) /\ jw[c][e].off # 0 /\ IsHdr(jnl[e], jw[c][e].hdr)
      => op[c] = "rollback" \/ (cur[c] = e /\ pc[c] = "sync2")
<1> SUFFICES ASSUME Inv, NEW c \in Conns, NEW e \in Files, Live(c, e), jw[c][e].off # 0,
                    IsHdr(jnl[e], jw[c][e].hdr), op[c] # "rollback"
             PROVE  cur[c] = e /\ pc[c] = "sync2"
  OBVIOUS
<1>1. /\ JournalKept(c, e) /\ DraftKept(c, e) /\ jw[c][e] \in JournalWriter /\ jnl[e] \in Seq(JournalCell)
  BY LiveIs
<1>2. PICK w \in JournalWriter : w = jw[c][e]
  BY <1>1
<1>3. PICK j \in Seq(JournalCell) : j = jnl[e]
  BY <1>1
<1>4. Placed(j, w) /\ Segment(j, w)
  BY <1>1, <1>2, <1>3 DEF JournalKept, Journal
<1>5. w.hdr <= w.off
  BY <1>2, <1>3, <1>4 DEF Segment, JournalWriter
<1>6. j[w.hdr].magic
  BY <1>2, <1>3 DEF IsHdr
<1> QED
  BY <1>1, <1>2, <1>3, <1>5, <1>6 DEF DraftKept

LEMMA HdrHotAfter ==
  Inv' => \A c \in Conns, e \in Files :
    Live(c, e)' /\ jw'[c][e].off # 0 /\ IsHdr(jnl'[e], jw'[c][e].hdr)
      => op'[c] = "rollback" \/ (cur'[c] = e /\ pc'[c] = "sync2")
<1>1. (Inv => \A c \in Conns, e \in Files :
    Live(c, e) /\ jw[c][e].off # 0 /\ IsHdr(jnl[e], jw[c][e].hdr)
      => op[c] = "rollback" \/ (cur[c] = e /\ pc[c] = "sync2"))'
  BY HdrHot, PTL
<1> QED
  BY <1>1

LEMMA PrefixRecorded ==
  ASSUME NEW j, NEW g, NEW n \in Nat, NEW m \in Nat, n <= m, NEW p, Recorded(j, n, p),
         \A k \in 1 .. n : g[k] = j[k]
  PROVE  Recorded(g, m, p)
BY DEF Recorded

(* What was recorded and synced of a file that is changed stays so.        *)
LEMMA RecordedStays ==
  ASSUME Inv, NEW c \in Conns, NEW e \in Files, Works(c, e), jw[c][e].mod,
         NEW p, Recorded(jnl[e], jw[c][e].hdr - 1, p)
  PROVE  Recorded(jnl'[e], jw'[c][e].hdr - 1, p)
<1>1. Live(c, e)
  BY WorksDoes DEF WorkDone
<1>2. PICK h \in Nat : h = jw[c][e].hdr /\ h # 0
  BY <1>1, SyncedIs
<1>3. PICK n \in Nat : n = h - 1
  BY <1>2
<1>4. PICK o \in Nat : o = jw[c][e].off /\ n <= o
  BY <1>1, <1>2, <1>3, SyncedIs
<1>5. CASE e = cur[c] /\ SyncRecords(c)
  <2>1. \A k \in 1 .. o : jnl'[e][k] = jnl[e][k]
    BY <1>4, <1>5, SyncRecordsDoes
  <2>2. jw' = jw
    BY <1>5 DEF SyncRecords
  <2>3. Recorded(jnl[e], n, p) /\ \A k \in 1 .. n : jnl'[e][k] = jnl[e][k]
    BY <1>2, <1>3, <1>4, <2>1
  <2>4. Recorded(jnl'[e], n, p)
    BY <2>3, PrefixRecorded
  <2> QED
    BY <1>2, <1>3, <2>2, <2>4
<1>6. CASE e = cur[c] /\ SyncCount(c)
  <2>1. \A k \in 1 .. o : jnl'[e][k] = jnl[e][k]
    BY <1>4, <1>6, SyncCountDoes
  <2>2. jw'[c][e].hdr = o + 1
    BY <1>4, <1>6, SyncCountDoes
  <2>3. Recorded(jnl[e], n, p) /\ \A k \in 1 .. n : jnl'[e][k] = jnl[e][k]
    BY <1>2, <1>3, <1>4, <2>1
  <2>4. Recorded(jnl'[e], o, p)
    BY <1>4, <2>3 DEF Recorded
  <2>5. o = jw'[c][e].hdr - 1
    BY <2>2
  <2> QED
    BY <2>4, <2>5
<1>7. CASE ~(e = cur[c] /\ (SyncRecords(c) \/ SyncCount(c)))
  <2>1. Stands(c, e)
    <3>1. ~SyncCount(c) /\ ~SyncRecords(c)
      <4>1. (\E q \in Pages : Write(c, e, q)) => pc[c] = "run"
        BY DEF Write, At
      <4>2. SyncCount(c) \/ SyncRecords(c) => pc[c] # "run"
        BY DEF SyncCount, SyncRecords, At
      <4> QED
        BY <1>7, <4>1, <4>2 DEF Works
    <3> QED
      BY <3>1, WorksStands
  <2>2. Recorded(jnl[e], n, p) /\ \A k \in 1 .. n : jnl'[e][k] = jnl[e][k]
    BY <1>2, <1>3, <2>1 DEF Stands
  <2>3. Recorded(jnl'[e], n, p)
    BY <2>2, PrefixRecorded
  <2> QED
    BY <1>2, <1>3, <2>1, <2>3 DEF Stands
<1> QED
  BY <1>5, <1>6, <1>7

LEMMA RestorableIs ==
  ASSUME Inv, NEW c \in Conns, NEW e \in Files, Works(c, e), jw[c][e].mod, NEW p \in 1 .. jw[c][e].orig
  PROVE  \/ db'[e][p] = db[e][p] /\ ddb'[e] = ddb[e]
         \/ Recorded(jnl'[e], jw'[c][e].hdr - 1, p)
<1>1. WorkDone(c, e) /\ Live(c, e)
  BY WorksDoes DEF WorkDone
<1>2. jw[c][e].off # 0
  BY <1>1, ModIs
<1>3. Restorable(jnl[e], jw[c][e], cache[c][e], db[e])
  BY <1>1, <1>2, LiveIs DEF JournalKept, Journal
<1>4. Restorable(jnl'[e], jw'[c][e], cache[c][e], db'[e]) /\ jw'[c][e].orig = jw[c][e].orig
  BY <1>1 DEF WorkDone, JournalKept, Journal
<1>5. db[e][p] = cache[c][e][p] \/ Recorded(jnl[e], jw[c][e].hdr - 1, p)
  BY <1>3 DEF Restorable
<1>6. db'[e][p] = cache[c][e][p] \/ Recorded(jnl'[e], jw'[c][e].hdr - 1, p)
  BY <1>4 DEF Restorable
<1> QED
  BY <1>1, <1>5, <1>6, RecordedStays DEF WorkDone

LEMMA WorksFresh ==
  ASSUME NEW c \in Conns, NEW e \in Files, Works(c, e)
  PROVE  fresh' \subseteq fresh
BY DEF Works, Write, Prepare, SyncRecords, Count, SyncCount, WritePage, PlayTruncate, PlayPage

(* A header that is written when its segment is on disk.                   *)
LEMMA CountSynced ==
  ASSUME Inv, NEW c \in Conns, Count(c), NEW e, e = cur[c], SyncedTo(e)
  PROVE  SyncedBut(e, jw[c][e].hdr)'
<1> USE DEF At
<1>1. Len(jnl'[e]) = Len(jnl[e])
  BY CountDoes
<1>2. \A k \in 1 .. Len(jnl[e]) : k # jw[c][e].hdr => jnl'[e][k] = jnl[e][k]
  BY CountDoes
<1>3. jnl[e] \in Seq(JournalCell) /\ ~jnl[e][jw[c][e].hdr].magic
  <2>1. pc[c] = "count" /\ Writing(c)
    BY DEF Count, Writing
  <2>2. jnl[e] \in Seq(JournalCell) /\ (jnl[e][jw[c][e].hdr].magic <=> pc[c] = "sync2")
    BY <2>1, WritingIs
  <2> QED
    BY <2>1, <2>2
<1>4. djnl' = djnl /\ fresh' = fresh /\ jw' = jw /\ djnl[e] = jnl[e] /\ e \notin fresh
  BY DEF Count, local, SyncedTo
<1>5. PICK g : g = jnl'[e]
  OBVIOUS
<1>6. PICK j : j = jnl[e] /\ j = djnl'[e]
  BY <1>4
<1>7. PICK h : h = jw'[c][e].hdr /\ h = jw[c][e].hdr
  BY <1>4
<1>8. ~IsHdr(j, h)
  BY <1>3, <1>6, <1>7 DEF IsHdr
<1>9. j # None
  BY <1>3, <1>6, JournalAssumption
<1>10. PICK l : l = Len(j) /\ l = Len(g)
  BY <1>1, <1>5, <1>6
<1>11. \A k \in 1 .. l : k = h \/ j[k] = g[k]
  BY <1>2, <1>5, <1>6, <1>7, <1>10
<1>12. e \notin fresh'
  BY <1>4
<1> SUFFICES /\ e \notin fresh' /\ djnl'[e] # None /\ Len(djnl'[e]) = Len(jnl'[e])
             /\ \A k \in 1 .. Len(jnl'[e]) : k = jw'[c][e].hdr \/ djnl'[e][k] = jnl'[e][k]
             /\ ~IsHdr(djnl'[e], jw'[c][e].hdr)
  BY DEF SyncedBut
<1> QED
  BY <1>5, <1>6, <1>7, <1>8, <1>9, <1>10, <1>11, <1>12

LEMMA WriterStill ==
  ASSUME NEW o, NEW e, Still(e), jw'[o][e] = jw[o][e], Live(o, e), WriterSynced(o, e)
  PROVE  WriterSynced(o, e)'
BY DEF Still, Same, WriterSynced, SyncedBut

LEMMA WorksSynced ==
  ASSUME Inv, Inv', NEW c \in Conns, Acts(c), NEW e \in Files, Works(c, e),
         WriterSynced(c, e), PlaceSynced(c)
  PROVE  WriterSynced(c, e)'
<1> USE DEF At, Go
<1>1. WorkDone(c, e) /\ Live(c, e) /\ Shapes /\ FileShapes
  BY WorksDoes, ShapesOK, FileShapesOK DEF WorkDone, Inv, Base
<1>2. ASSUME ~jw'[c][e].mod PROVE ddb'[e] = db'[e]
  BY <1>1, <1>2 DEF WorkDone, WriterSynced
<1>3. ASSUME jw'[c][e].mod
      PROVE  /\ e \notin fresh'
             /\ \A p \in 1 .. jw'[c][e].orig : ddb'[e][p] = db'[e][p] \/ Recorded(jnl'[e], jw'[c][e].hdr - 1, p)
  <2>1. CASE jw[c][e].mod
    <3>1. e \notin fresh'
      BY <1>1, <2>1, WorksFresh DEF WriterSynced
    <3>2. jw'[c][e].orig = jw[c][e].orig
      BY <1>1 DEF WorkDone
    <3>3. ASSUME NEW p \in 1 .. jw[c][e].orig
          PROVE  ddb'[e][p] = db'[e][p] \/ Recorded(jnl'[e], jw'[c][e].hdr - 1, p)
      <4>1. ddb[e][p] = db[e][p] \/ Recorded(jnl[e], jw[c][e].hdr - 1, p)
        BY <1>1, <2>1 DEF WriterSynced
      <4> QED
        BY <2>1, <4>1, RecordedStays, RestorableIs
    <3> QED
      BY <3>1, <3>2, <3>3
  <2>2. CASE ~jw[c][e].mod
    <3>1. SyncCount(c) /\ e = cur[c]
      BY <1>3, <2>2, ModFrom
    <3>2. e \notin fresh'
      BY <3>1 DEF SyncCount
    <3> QED
      BY <1>1, <2>2, <3>2 DEF WorkDone, WriterSynced
  <2> QED
    BY <2>1, <2>2
<1>4. ASSUME Live(c, e)', jw'[c][e].off # 0, IsHdr(jnl'[e], jw'[c][e].hdr)
      PROVE  SyncedBut(e, jw[c][e].hdr)'
  <2>1. op'[c] = "rollback" \/ (cur'[c] = e /\ pc'[c] = "sync2")
    BY <1>4, HdrHotAfter
  <2>2. CASE op'[c] = "rollback"
    <3>1. e = cur[c] /\ op[c] = "rollback" /\ (PlayTruncate(c) \/ PlayPage(c))
      <4>1. Control(c)
        BY DEF Inv, Base
      <4>2. op' = op
        BY DEF Works, Write, Prepare, SyncRecords, Count, SyncCount, WritePage, PlayTruncate, PlayPage
      <4>3. pc[c] \notin {"run", "prepare", "sync", "count", "sync2", "page"}
        BY <2>2, <4>1, <4>2 DEF Control
      <4>4. /\ ~\E p \in Pages : Write(c, e, p)
            /\ ~Prepare(c) /\ ~SyncRecords(c) /\ ~Count(c) /\ ~SyncCount(c) /\ ~WritePage(c)
        BY <4>3 DEF Write, Prepare, SyncRecords, Count, SyncCount, WritePage
      <4> QED
        BY <4>4 DEF Works
    <3>2. jnl' = jnl /\ djnl' = djnl /\ fresh' = fresh /\ jw' = jw
      BY <3>1 DEF PlayTruncate, PlayPage, local
    <3>3. jw[c][e].off # 0 /\ IsHdr(jnl[e], jw[c][e].hdr)
      BY <1>4, <3>2
    <3>4. SyncedBut(e, jw[c][e].hdr)
      BY <1>1, <3>3 DEF WriterSynced
    <3> QED
      BY <3>2, <3>4 DEF SyncedBut
  <2>3. CASE pc'[c] = "sync2" /\ op'[c] # "rollback"
    <3>1. Count(c) /\ e = cur[c]
      <4>1. ~\E p \in Pages : Write(c, e, p)
        <5> SUFFICES ASSUME NEW p \in Pages, Write(c, e, p) PROVE FALSE
          OBVIOUS
        <5>1. pc[c] = "run" /\ pc' = pc
          BY DEF Write
        <5> QED
          BY <2>3, <5>1
      <4>2. ~Prepare(c) /\ ~SyncRecords(c) /\ ~SyncCount(c) /\ ~WritePage(c)
        BY <1>1, <2>3 DEF Prepare, SyncRecords, SyncCount, WritePage, Shapes
      <4>3. ~PlayTruncate(c) /\ ~PlayPage(c)
        BY <2>3 DEF PlayTruncate, PlayPage
      <4> QED
        BY <4>1, <4>2, <4>3 DEF Works
    <3>2. SyncedTo(e)
      BY <3>1 DEF PlaceSynced, Count
    <3> QED
      BY <3>1, <3>2, CountSynced
  <2> QED
    BY <2>1, <2>2, <2>3
<1>5. ~jw'[c][e].mod => ddb'[e] = db'[e]
  BY <1>2
<1>6. jw'[c][e].mod =>
        /\ e \notin fresh'
        /\ \A p \in 1 .. jw'[c][e].orig : ddb'[e][p] = db'[e][p] \/ Recorded(jnl'[e], jw'[c][e].hdr - 1, p)
  BY <1>3
<1>7. Live(c, e)' /\ jw'[c][e].off # 0 /\ IsHdr(jnl'[e], jw'[c][e].hdr) => SyncedBut(e, jw[c][e].hdr)'
  BY <1>4
<1> HIDE DEF At, Go
<1> QED
  BY <1>5, <1>6, <1>7 DEF WriterSynced

LEMMA WriterKept ==
  ASSUME Inv, Inv', OnDisk, NEW c \in Conns, Acts(c), NEW o \in Conns, NEW e \in Files
  PROVE  WriterSynced(o, e)'
<1> USE DEF At, Go
<1> SUFFICES ASSUME Live(o, e)' PROVE WriterSynced(o, e)'
  BY DEF WriterSynced
<1>1. WriterSynced(o, e) /\ Covered(e) /\ PlaceSynced(o)
  BY DEF OnDisk
<1>2. CASE o # c
  <2>1. Live(o, e) /\ Alike(o)
    BY <1>2, OthersLive, Others DEF Inv, Base
  <2>2. Still(e)
    BY <1>2, <2>1, OthersStill DEF Live, InTxn
  <2> QED
    BY <1>1, <2>1, <2>2, WriterStill DEF Alike
<1>3. CASE o = c /\ Reserve(c, e)
  <2>1. ~IsHdr(jnl[e], 1) /\ jw'[c][e] = [NoJw EXCEPT !.orig = Len(db[e])]
    BY <1>3, ReserveDoes
  <2>2. ~jw'[c][e].mod /\ jw'[c][e].off = 0
    BY <2>1 DEF NoJw
  <2>3. ddb' = ddb /\ db' = db /\ ddb[e] = db[e]
    BY <1>1, <1>3, <2>1 DEF Reserve, disk, Covered
  <2> QED
    BY <1>3, <2>2, <2>3 DEF WriterSynced
<1>4. CASE o = c /\ ~Reserve(c, e)
  <2>1. Live(c, e)
    BY <1>4, LiveFrom
  <2>2. Shapes /\ FileShapes
    BY ShapesOK, FileShapesOK DEF Inv, Base
  <2>3. CASE Works(c, e)
    BY <1>1, <1>4, <2>3, WorksSynced
  <2>4. CASE e = cur[c] /\ SyncDb(c)
    <3>s. SyncDb(c)
      BY <2>4
    <3>e. e = cur[c]
      BY <2>4
    <3>f. jw'[c][e].off = jw[c][e].off
      BY <3>s, <3>e, SyncDbDoes
    <3>h. jw[c][e].mod
      BY <3>s, <3>e, SyncDbDoes
    <3>w. jw'[c][e] = [jw[c][e] EXCEPT !.done = TRUE]
      BY <3>s, <3>e, SyncDbDoes
    <3>t. jw[c][e] \in JournalWriter
      BY <2>1, LiveIs
    <3>g. jw'[c][e].mod
      BY <3>h, <3>t, <3>w DEF JournalWriter
    <3>b. pc'[c] \in {"prepare", "commit", "fin"} /\ op' = op /\ op[c] = "commit"
      BY <3>s, <3>e, SyncDbDoes
    <3>1. ddb' = [ddb EXCEPT ![e] = db[e]]
      BY <2>4 DEF SyncDb
    <3>2. db' = db /\ jnl' = jnl /\ fresh' = fresh
      BY <2>4 DEF SyncDb
    <3>3. ddb'[e] = db'[e] /\ e \notin fresh'
      BY <1>1, <1>4, <2>1, <2>2, <3>f, <3>g, <3>h, <3>1, <3>2 DEF FileShapes, WriterSynced
    <3>4. ~(jw'[c][e].off # 0 /\ IsHdr(jnl'[e], jw'[c][e].hdr))
      BY <1>4, <3>b, HdrHotAfter
    <3> QED
      BY <1>4, <3>3, <3>4 DEF WriterSynced
  <2>5. CASE e = cur[c] /\ PlaySync(c)
    <3>1. UNCHANGED << db, jnl, djnl, fresh, jw >> /\ ddb'[e] \in {ddb[e], db[e]}
      BY <2>2, <2>5 DEF PlaySync, FileShapes
    <3> QED
      BY <1>1, <1>4, <2>1, <3>1 DEF WriterSynced, SyncedBut
  <2>6. CASE ~Works(c, e) /\ ~(e = cur[c] /\ (SyncDb(c) \/ PlaySync(c)))
    <3>1. jw'[c][e] = jw[c][e]
      <4>1. InTxn(c, e)'
        BY <1>4 DEF Live
      <4> QED
        BY <1>4, <2>6, <4>1, TxnFileIs DEF TxnFile
    <3>2. ~(e = cur[c] /\ op[c] = "hot" /\ (PlayTruncate(c) \/ PlayPage(c)))
      BY <2>1 DEF PlayTruncate, PlayPage, Live, InTxn, Inv, Base, LocksHeld, Recovering
    <3>3. Still(e)
      BY <1>4, <2>1, <2>6, <3>2, LiveStays, StillOr DEF Settles
    <3> QED
      BY <1>1, <1>4, <2>1, <3>1, <3>3, WriterStill
  <2> QED
    BY <2>3, <2>4, <2>5, <2>6
<1> QED
  BY <1>2, <1>3, <1>4
-----------------------------------------------------------------------------
LEMMA SyncedStill ==
  ASSUME NEW e, Still(e)
  PROVE  /\ SyncedTo(e) => djnl'[e] = jnl'[e] /\ e \notin fresh'
         /\ ddb[e] = db[e] => ddb'[e] = db'[e]
BY DEF Still, Same, SyncedTo

LEMMA PlaceOthers ==
  ASSUME Inv, NEW c \in Conns, Acts(c), NEW o \in Conns, o # c, PlaceSynced(o)
  PROVE  PlaceSynced(o)'
<1>1. pc'[o] = pc[o] /\ op'[o] = op[o] /\ cur'[o] = cur[o] /\ mine'[o] = mine[o]
  BY Others DEF Inv, Base, Alike
<1>2. Control(o) /\ LocksHeld(o)
  BY DEF Inv, Base
<1>3. ASSUME pc[o] \in {"count", "fin"} \/ (op[o] = "hot" /\ pc[o] = "play")
      PROVE  cur[o] \in Files /\ Still(cur[o])
  <2>1. CASE op[o] = "hot" /\ pc[o] \in {"play", "fin"}
    <3>1. cur[o] \in Files /\ lock[o][cur[o]] = EXCLUSIVE
      BY <1>2, <2>1 DEF Control, LocksHeld, Recovering, Alone
    <3>2. lock[o][cur[o]] >= RESERVED
      BY <3>1 DEF RESERVED, EXCLUSIVE
    <3> QED
      BY <3>1, <3>2, OthersStill
  <2>2. CASE ~(op[o] = "hot" /\ pc[o] \in {"play", "fin"})
    <3>1. InTxn(o, cur[o])
      BY <1>2, <1>3, <2>2 DEF Control
    <3>2. cur[o] \in Files /\ lock[o][cur[o]] >= RESERVED
      BY <3>1, DataTypes DEF InTxn, Inv, Base, TypeOK
    <3> QED
      BY <3>2, OthersStill
  <2> QED
    BY <2>1, <2>2
<1>4. PICK e : e = cur[o]
  OBVIOUS
<1>5. pc[o] = "count" => djnl'[e] = jnl'[e] /\ e \notin fresh'
  BY <1>3, <1>4, SyncedStill DEF PlaceSynced
<1>6. op[o] = "hot" /\ pc[o] \in {"play", "fin"} => djnl'[e] = jnl'[e] /\ e \notin fresh'
  BY <1>3, <1>4, SyncedStill DEF PlaceSynced
<1>7. pc[o] = "fin" => ddb'[e] = db'[e]
  BY <1>3, <1>4, SyncedStill DEF PlaceSynced
<1> QED
  BY <1>1, <1>4, <1>5, <1>6, <1>7 DEF PlaceSynced, SyncedTo

LEMMA PlaceActs ==
  ASSUME Inv, Sure, NEW c \in Conns, Acts(c), PlaceSynced(c), \A e \in Files : WriterSynced(c, e)
  PROVE  PlaceSynced(c)'
<1> USE DEF At, Go
<1>1. Enters(c) /\ FileShapes /\ Shapes /\ Control(c)
  BY EntersIs, FileShapesOK, ShapesOK DEF Inv, Base
<1>2. ASSUME pc'[c] = "count" PROVE SyncedTo(cur[c])'
  <2>1. SyncRecords(c)
    BY <1>1, <1>2 DEF Enters
  <2>2. PICK d \in Files : d = cur[c]
    BY <2>1, SyncRecordsDoes
  <2>3. Exclusive(c, d) /\ Full /\ cur' = cur
    BY <1>1, <1>2, <2>1, <2>2 DEF SyncRecords, Shapes, Sure
  <2>4. PICK j : j = SpoilNext(jnl[d], jw[c][d].off + 1)
    OBVIOUS
  <2>5. jnl' = [jnl EXCEPT ![d] = j] /\ djnl' = [djnl EXCEPT ![d] = j] /\ fresh' = fresh \ {d}
    BY <2>1, <2>2, <2>3, <2>4 DEF SyncRecords
  <2>6. jnl'[d] = j /\ djnl'[d] = j /\ d \notin fresh'
    BY <1>1, <2>5 DEF FileShapes
  <2> QED
    BY <2>2, <2>3, <2>6 DEF SyncedTo
<1>3. ASSUME op'[c] = "hot", pc'[c] \in {"play", "fin"} PROVE SyncedTo(cur[c])'
  <2>1. CASE HotOpen(c)
    <3>1. PICK d \in Files : d = cur[c]
      BY <1>1, <2>1 DEF HotOpen, Control, Recovering
    <3>2. StillThere(d) /\ cur' = cur
      BY <1>1, <1>3, <2>1, <3>1 DEF HotOpen, Shapes
    <3>3. djnl' = [djnl EXCEPT ![d] = jnl[d]] /\ fresh' = fresh \ {d} /\ jnl' = jnl
      BY <2>1, <3>1, <3>2 DEF HotOpen
    <3>4. djnl'[d] = jnl'[d] /\ d \notin fresh'
      BY <1>1, <3>3 DEF FileShapes
    <3> QED
      BY <3>1, <3>2, <3>4 DEF SyncedTo
  <2>2. CASE PlayTruncate(c) \/ PlayPage(c) \/ PlaySync(c)
    <3>1. djnl' = djnl /\ jnl' = jnl /\ fresh' = fresh /\ cur' = cur /\ op' = op /\ pc[c] = "play"
      BY <2>2 DEF PlayTruncate, PlayPage, PlaySync
    <3> QED
      BY <1>3, <3>1 DEF PlaceSynced, SyncedTo
  <2>3. ~SyncDb(c)
    BY <1>3, SyncDbDoes
  <2>4. ~NextFile(c)
    BY <1>3, NextIs
  <2> QED
    BY <1>1, <1>3, <2>1, <2>2, <2>3, <2>4 DEF Enters
<1>4. ASSUME InTxn(c, cur[c]), cur[c] \in Files PROVE Reserved(c) = {cur[c]}
  <2>1. cur[c] \in Reserved(c) /\ IsFiniteSet(Reserved(c))
    <3>1. Reserved(c) \subseteq Files
      BY DEF Reserved
    <3> QED
      BY <1>4, <3>1, FS_Subset, JournalAssumption DEF Reserved, InTxn
  <2>2. ~(Cardinality(Reserved(c)) > 1)
    BY OneNotSeveral DEF Sure, Several
  <2> QED
    BY <2>1, <2>2, AtMostOne
<1>5. ASSUME pc'[c] = "fin" PROVE (ddb[cur[c]] = db[cur[c]])'
  <2>1. CASE SyncDb(c)
    <3>1. cur[c] \in Files /\ Live(c, cur[c]) /\ ddb' = [ddb EXCEPT ![cur[c]] = db[cur[c]]]
      BY <2>1, SyncDbDoes
    <3>2. Reserved(c) = {cur[c]}
      BY <1>4, <3>1 DEF Live
    <3>3. cur'[c] = cur[c]
      <4>1. PICK d \in Files : d = cur[c]
        BY <3>1
      <4>2. cur' = [cur EXCEPT ![c] = Min({d})]
        BY <1>1, <2>1, <3>2, <4>1 DEF SyncDb
      <4>3. Min({d}) = d
        BY <4>1, MinReserved, <3>2 DEF Reserved
      <4> QED
        BY <1>1, <4>1, <4>2, <4>3 DEF Shapes
    <3>4. db' = db
      BY <2>1 DEF SyncDb
    <3> QED
      BY <1>1, <3>1, <3>3, <3>4 DEF FileShapes
  <2>2. ~NextFile(c)
    BY <1>1, <1>5 DEF NextFile, Committing, Shapes, PlaceSynced
  <2>3. CASE PlaySync(c)
    <3>1. db' = db /\ cur' = cur /\ op' = op
      BY <2>3 DEF PlaySync
    <3>2. PICK d \in Files : d = cur[c]
      BY <1>1, <2>3 DEF PlaySync, Control, Recovering, InTxn, LocksHeld, Inv, Base, TypeOK
    <3>3. CASE op[c] = "hot" \/ jw[c][d].mod
      BY <1>1, <2>3, <3>1, <3>2, <3>3 DEF PlaySync, FileShapes
    <3>4. CASE ~(op[c] = "hot" \/ jw[c][d].mod)
      <4>1. pc[c] = "play" /\ op[c] = "rollback"
        BY <1>1, <2>3, <3>4 DEF PlaySync, Control
      <4>2. Live(c, d)
        BY <3>2, <4>1, UndoIs
      <4>3. ddb[d] = db[d]
        BY <3>4, <4>2 DEF WriterSynced
      <4>4. ddb' = ddb
        BY <2>3, <3>2, <3>4 DEF PlaySync
      <4> QED
        BY <3>1, <3>2, <4>3, <4>4
    <3> QED
      BY <3>3, <3>4
  <2> QED
    BY <1>1, <1>5, <2>1, <2>2, <2>3 DEF Enters
<1>6. ASSUME op'[c] = "commit", pc'[c] = "next" PROVE FALSE
  <2>1. CASE Unlock(c)
    <3>1. op[c] = "commit" /\ pc[c] = "unlock"
      BY <1>1, <1>6, <2>1 DEF Unlock, Shapes
    <3>2. InTxn(c, cur[c])
      BY <1>1, <3>1 DEF Control
    <3>3. cur[c] \in Files
      BY <3>2 DEF InTxn, Inv, Base, TypeOK
    <3>4. Last(c)
      BY <1>4, <3>2, <3>3 DEF Last
    <3> QED
      BY <1>1, <1>6, <2>1, <3>4 DEF Unlock, Shapes
  <2>2. CASE DelSuper(c)
    <3>1. op[c] \in {"hot", "rollback"}
      BY <1>1, <2>2 DEF DelSuper, Control
    <3> QED
      BY <1>1, <1>6, <2>2, <3>1 DEF DelSuper, Shapes
  <2>3. ~NextFile(c)
    BY <1>1, <1>6 DEF NextFile, Shapes
  <2>4. CASE DeleteSuper(c)
    <3>1. Several(c)
      BY <2>4 DEF DeleteSuper, Inv, Phases, Stage
    <3> QED
      BY <3>1, OneNotSeveral DEF Sure
  <2>5. ~Rollback(c)
    BY <1>1, <1>6 DEF Rollback, Shapes
  <2> QED
    BY <1>1, <1>6, <2>1, <2>2, <2>3, <2>4, <2>5 DEF Enters
<1>7. ASSUME op'[c] = "commit", pc'[c] = "fin" PROVE mine'[c][cur'[c]] # None
  <2>1. ~PlaySync(c)
    BY <1>1, <1>7 DEF PlaySync, Control
  <2>2. ~NextFile(c)
    BY <1>1, <1>7 DEF NextFile, Committing, Shapes, PlaceSynced
  <2>3. SyncDb(c)
    BY <1>1, <1>7, <2>1, <2>2 DEF Enters
  <2> QED
    BY <1>7, <2>3, LastDone
<1> HIDE DEF At, Go
<1> QED
  BY <1>2, <1>3, <1>5, <1>6, <1>7 DEF PlaceSynced
-----------------------------------------------------------------------------
(* The same of the state after a step. *)

LEMMA OneAfter ==
  Inv' /\ OneFile' => \A d \in Files :
    /\ Store(d)' = Restored(db'[d], jnl'[d], {}) /\ Back(d)' = Restored(db'[d], djnl'[d], {})
<1>1. (Inv /\ OneFile => \A d \in Files :
         Store(d) = Restored(db[d], jnl[d], {}) /\ Back(d) = Restored(db[d], djnl[d], {}))'
  <2>1. Inv /\ OneFile => \A d \in Files :
         Store(d) = Restored(db[d], jnl[d], {}) /\ Back(d) = Restored(db[d], djnl[d], {})
    BY OneIs
  <2> QED
    BY <2>1, PTL
<1> QED
  BY <1>1

LEMMA FoundAfter ==
  Inv' /\ OneFile' => \A d \in Files : \A m \in Journals(d)' :
    IsHdr(m, 1) => IsHdr(jnl'[d], 1) \/ IsHdr(djnl'[d], 1)
<1>1. Inv /\ OneFile => \A d \in Files : \A m \in Journals(d) :
        IsHdr(m, 1) => IsHdr(jnl[d], 1) \/ IsHdr(djnl[d], 1)
  BY FoundIs
<1>2. (Inv /\ OneFile => \A d \in Files : \A m \in Journals(d) :
        IsHdr(m, 1) => IsHdr(jnl[d], 1) \/ IsHdr(djnl[d], 1))'
  BY <1>1, PTL
<1> QED
  BY <1>2

LEMMA CalmAfter ==
  Inv' /\ OneFile' => \A d \in Files :
    (ddb[d] = db[d])' /\ ~IsHdr(jnl'[d], 1) /\ (IsHdr(djnl'[d], 1) => d \in fresh') => Mixed(d)' /\ Covered(d)'
<1>1. Inv /\ OneFile => \A d \in Files :
         ddb[d] = db[d] /\ ~IsHdr(jnl[d], 1) /\ (IsHdr(djnl[d], 1) => d \in fresh) => Mixed(d) /\ Covered(d)
  BY CalmMixed DEF Covered
<1>2. (Inv /\ OneFile => \A d \in Files :
         ddb[d] = db[d] /\ ~IsHdr(jnl[d], 1) /\ (IsHdr(djnl[d], 1) => d \in fresh) => Mixed(d) /\ Covered(d))'
  BY <1>1, PTL
<1> QED
  BY <1>2

LEMMA SyncedAfter ==
  Inv' /\ OneFile' => \A d \in Files : SyncedTo(d)' /\ Covered(d)' => Mixed(d)'
<1>1. Inv /\ OneFile => \A d \in Files : SyncedTo(d) /\ Covered(d) => Mixed(d)
  BY SyncedMixed
<1>2. (Inv /\ OneFile => \A d \in Files : SyncedTo(d) /\ Covered(d) => Mixed(d))'
  BY <1>1, PTL
<1> QED
  BY <1>2

LEMMA LiveAfter ==
  Inv' /\ OneFile' => \A c \in Conns, d \in Files :
    Live(c, d)' /\ WriterSynced(c, d)' /\ GoneOnDisk(d)' => Mixed(d)' /\ Covered(d)'
<1>1. Inv /\ OneFile => \A c \in Conns, d \in Files :
        Live(c, d) /\ WriterSynced(c, d) /\ GoneOnDisk(d) => Mixed(d) /\ Covered(d)
  BY LiveMixed
<1>2. (Inv /\ OneFile => \A c \in Conns, d \in Files :
        Live(c, d) /\ WriterSynced(c, d) /\ GoneOnDisk(d) => Mixed(d) /\ Covered(d))'
  BY <1>1, PTL
<1> QED
  BY <1>2

LEMMA StillMixed ==
  ASSUME Inv, Inv', OneFile, OneFile', NEW e \in Files, Still(e), Mixed(e), Covered(e)
  PROVE  Mixed(e)' /\ Covered(e)'
<1>1. /\ db'[e] = db[e] /\ jnl'[e] = jnl[e] /\ ddb'[e] = ddb[e] /\ djnl'[e] = djnl[e]
      /\ e \in fresh' <=> e \in fresh
  BY DEF Still, Same
<1>2. Store(e)' = Store(e) /\ Back(e)' = Back(e)
  BY <1>1, OneIs, OneAfter
<1>3. Journals(e)' = Journals(e)
  BY <1>1 DEF Journals
<1>4. Mixed(e)'
  BY <1>1, <1>2, <1>3 DEF Mixed
<1>5. Covered(e)'
  BY <1>1 DEF Covered
<1> QED
  BY <1>4, <1>5

(* The playback of a hot journal changes what is in it.                    *)
LEMMA HotPlayCovers ==
  ASSUME Inv, NEW c \in Conns, op[c] = "hot", PlayTruncate(c) \/ PlayPage(c), NEW d, d = cur[c], Covered(d)
  PROVE  Covered(d)'
<1> USE DEF At
<1>1. d \in Files /\ IsHdr(jnl[d], 1) /\ Counts(jnl[d], supers)
  BY HotPlayDoes
<1>2. /\ jnl[d] \in Seq(JournalCell) /\ db[d] \in Seq(Page)
      /\ jnl[d][1].orig \in Nat /\ jnl[d][1].orig <= Len(db[d])
  <2>1. pc[c] \in {"play", "fin"}
    BY DEF PlayTruncate, PlayPage
  <2> QED
    BY <1>1, <2>1, HotIs
<1>3. PICK n \in Nat : n = jnl[d][1].orig /\ n <= Len(db[d])
  BY <1>2
<1>4. PICK f \in Seq(Page) : f = db[d]
  BY <1>2
<1>5. PICK j \in Seq(JournalCell) : j = jnl[d]
  BY <1>2
<1>6. PICK R : R = Records(j, Len(j))
  OBVIOUS
<1>7. PlayRecords(c, d) = R /\ PlayOrig(c, d) = n
  <2>1. pc[c] = "play"
    BY DEF PlayTruncate, PlayPage
  <2> QED
    BY <1>1, <1>3, <1>5, <1>6, <2>1, HotPlays
<1>8. FileShapes
  BY FileShapesOK DEF Inv, Base
<1>9. \A q \in 1 .. n : db'[d][q] = f[q] \/ q \in OldPages(j, R)
  <2>1. CASE PlayTruncate(c)
    <3>1. db'[d] = Cut(f, n)
      BY <1>1, <1>4, <1>7, <1>8, <2>1 DEF PlayTruncate, FileShapes
    <3>2. n <= Len(f)
      BY <1>3, <1>4
    <3>3. \A q \in 1 .. n : Cut(f, n)[q] = f[q]
      BY <3>2, CutIs
    <3> QED
      BY <3>1, <3>3
  <2>2. CASE PlayPage(c)
    <3>1. PICK S : S = ToPlay(c, d)
      OBVIOUS
    <3>2. PICK p : p = Min(S)
      OBVIOUS
    <3>3. S # {} /\ db'[d] = Put(f, p, OldPage(j, R, p), None)
      BY <1>1, <1>4, <1>5, <1>7, <1>8, <2>2, <3>1, <3>2 DEF PlayPage, FileShapes
    <3>4. S \subseteq OldPages(j, R) /\ S \subseteq Nat \ {0}
      BY <1>5, <1>7, <3>1 DEF ToPlay, OldPages
    <3>5. p \in S /\ p \in Nat \ {0}
      <4>1. S \in SUBSET Nat /\ S # {}
        BY <3>3, <3>4
      <4>2. Min(S) \in S
        BY <4>1, MinIs
      <4> QED
        BY <3>2, <3>4, <4>2
    <3>6. p \in OldPages(j, R)
      BY <3>4, <3>5
    <3>7. OldPage(j, R, p) \in Page
      <4>1. R \subseteq RecPlaces(j)
        BY <1>6, RecordsAreRecords
      <4>2. PICK i \in R : /\ i \in 1 .. Len(j) /\ j[i].k = "rec" /\ j[i].page = p
                           /\ OldPage(j, R, p) = j[i].old
        BY <3>6, <4>1, OldPageIs
      <4>3. j[i] \in JournalCell
        BY <4>2
      <4> QED
        BY <4>2, <4>3, CellTypes
    <3>8. PICK x \in Page : x = OldPage(j, R, p)
      BY <3>7
    <3>9. \A k \in 1 .. Len(f) : k # p => Put(f, p, x, None)[k] = f[k]
      BY <3>5, PutPage
    <3>10. ASSUME NEW q \in 1 .. n, q # p PROVE db'[d][q] = f[q]
      <4>1. q \in 1 .. Len(f)
        BY <1>3, <1>4
      <4> QED
        BY <3>3, <3>8, <3>9, <3>10, <4>1
    <3> QED
      BY <3>6, <3>10
  <2> QED
    BY <2>1, <2>2
<1>10. jnl' = jnl /\ ddb' = ddb
  BY DEF PlayTruncate, PlayPage
<1>11. \A q \in 1 .. n : ddb[d][q] = f[q] \/ q \in OldPages(j, R)
  BY <1>1, <1>3, <1>4, <1>5, <1>6 DEF Covered
<1>12. \A q \in 1 .. n : ddb'[d][q] = db'[d][q] \/ q \in OldPages(j, R)
  BY <1>9, <1>10, <1>11
<1> QED
  BY <1>1, <1>3, <1>5, <1>6, <1>10, <1>12 DEF Covered
-----------------------------------------------------------------------------
LEMMA NotNamed ==
  ASSUME Inv, OneFile, NEW d \in Files
  PROVE  SuperName(jnl[d]) = 0
<1>1. jnl[d] \in Seq(JournalCell) \cup {None} /\ Plain(jnl[d])
  BY OneIs DEF Inv, Supered, OneFileNoSupers
<1> QED
  BY <1>1, PlainUnnamed

(* The end of a transaction in a file whose pages are all on disk.         *)
LEMMA ZeroedFound ==
  ASSUME Inv, OneFile, NEW d \in Files, jnl[d] \in Seq(JournalCell), 1 \in 1 .. Len(jnl[d]),
         jnl'[d] = Put(jnl[d], 1, Zero, Zero), djnl'[d] = djnl[d], fresh' = fresh,
         NEW m \in Journals(d)', IsHdr(m, 1), m # None
  PROVE  m \in Journals(d)
<1>1. PICK j \in Seq(JournalCell) : j = jnl[d] /\ Len(j) >= 1
  OBVIOUS
<1>2. PICK g \in Seq(JournalCell) : g = Put(j, 1, Zero, Zero) /\ g = jnl'[d]
  BY <1>1, ZeroIs, PutCell
<1>3. g # None /\ j # None
  BY JournalAssumption
<1>4. m = djnl[d] \/ m \in Mixes(<< >>, g, Zero) \/ (djnl[d] # None /\ m \in Mixes(djnl[d], g, Zero))
  BY <1>2, <1>3 DEF Journals
<1>5. (djnl[d] = None \/ d \in fresh) /\ m \notin {djnl[d]} => m \in Mixes(<< >>, g, Zero)
  BY <1>2, <1>3 DEF Journals
<1>6. ~(djnl[d] = None \/ d \in fresh) => djnl[d] # None /\ m \in Mixes(djnl[d], g, Zero)
  BY <1>2, <1>3 DEF Journals
<1>7. ASSUME NEW old \in Seq(JournalCell), m \in Mixes(old, g, Zero) PROVE m \in Mixes(old, j, Zero)
  <2>1. m \in Seq(JournalCell)
    BY <1>7, ZeroIs, MixIs
  <2>2. 1 \in DOMAIN m /\ m[1] # Zero
    BY <2>1, CellIs, ZeroIs
  <2> QED
    BY <1>1, <1>2, <1>7, <2>2, MixZeroed
<1>8. CASE djnl[d] = None \/ d \in fresh
  <2>1. << >> \in Seq(JournalCell)
    OBVIOUS
  <2>2. m = djnl[d] \/ m \in Mixes(<< >>, j, Zero)
    BY <1>5, <1>7, <1>8, <2>1
  <2> QED
    BY <1>1, <1>3, <1>8, <2>2 DEF Journals
<1>9. CASE ~(djnl[d] = None \/ d \in fresh)
  <2>1. djnl[d] \in Seq(JournalCell)
    BY <1>9, OneIs
  <2>2. m \in Mixes(djnl[d], j, Zero)
    BY <1>6, <1>7, <1>9, <2>1
  <2> QED
    BY <1>1, <1>3, <1>9, <2>2 DEF Journals
<1> QED
  BY <1>8, <1>9

LEMMA FinMod ==
  ASSUME Inv, NEW c \in Conns, FinCommits(c), NEW d, d = cur[c]
  PROVE  d \in Files /\ Back(d) = Store(d)
<1>1. d \in Files /\ Live(c, d) /\ jw[c][d].off # 0
  BY CommitsIs
<1>2. op[c] = "commit" /\ pc[c] = "fin" /\ ~Committed(c)
  BY <1>1 DEF FinCommits, Committed
<1>3. jw[c][d].done
  BY <1>1, <1>2 DEF Inv, Phases, Stage, Live
<1>4. jw[c][d].mod
  BY <1>1, <1>2, <1>3 DEF Inv, Lives, DraftKept
<1> QED
  BY <1>1, <1>4, LiveBack

LEMMA FinMixed ==
  ASSUME Inv, Inv', OneFile, OneFile', NEW c \in Conns, Fin(c), PlaceSynced(c), NEW d, d = cur[c], Mixed(d)
  PROVE  Mixed(d)' /\ Covered(d)'
<1> USE DEF At
<1>1. d \in Files /\ jnl[d] \in Seq(JournalCell) /\ db' = db /\ ddb' = ddb /\ ~IsHdr(jnl'[d], 1)
  BY FinDoes
<1>2. ddb[d] = db[d]
  BY DEF PlaceSynced, Fin
<1>3. SuperName(jnl[d]) = 0
  BY <1>1, NotNamed
<1>4. CASE ~(JMode = "persist" /\ ~CutOff(c, d))
  <2>1. d \in fresh'
    BY <1>4 DEF Fin
  <2> QED
    BY <1>1, <1>2, <2>1, CalmAfter
<1>5. CASE JMode = "persist" /\ ~CutOff(c, d)
  <2>1. fresh' = fresh /\ djnl' = djnl
    BY <1>5 DEF Fin
  <2>2. jnl'[d] = Put(jnl[d], 1, Zero, Zero)
    <3>1. Finalised(c, d) = Put(jnl[d], 1, Zero, Zero)
      BY <1>5 DEF Finalised
    <3>2. FileShapes
      BY FileShapesOK DEF Inv, Base
    <3> QED
      BY <1>1, <3>1, <3>2 DEF Fin, FileShapes
  <2>3. Store(d)' = db[d] /\ Back(d)' = Back(d)
    <3>1. db'[d] \in Seq(Page) /\ jnl'[d] \in Seq(JournalCell) \cup {None}
      BY <1>1, FinDoes, OneIs
    <3>2. Restored(db'[d], jnl'[d], {}) = db'[d]
      BY <1>1, <3>1, RestoredType
    <3>3. Store(d)' = db[d]
      BY <1>1, <3>2, OneAfter
    <3>4. Back(d)' = Back(d)
      BY <1>1, <2>1, OneIs, OneAfter
    <3> QED
      BY <3>3, <3>4
  <2>4. ASSUME NEW m \in Journals(d)', NEW f \in Mixes(ddb'[d], db'[d], None)
        PROVE  Restored(f, m, {}) \in {db[d], Back(d)}
    <3>1. f \in Mixes(ddb[d], db[d], None)
      BY <1>1
    <3>2. f = db[d] /\ f \in Seq(Page)
      BY <1>1, <1>2, <3>1, PagesFound DEF Inv, Base
    <3>3. CASE ~IsHdr(m, 1)
      BY <3>2, <3>3 DEF Restored
    <3>4. CASE IsHdr(m, 1)
      <4>1. m # None
        BY <3>4, NoCell
      <4>2. CASE 1 \in 1 .. Len(jnl[d])
        <5>1. m \in Journals(d)
          BY <1>1, <2>1, <2>2, <3>4, <4>1, <4>2, ZeroedFound
        <5>2. Restored(f, m, {}) \in {Store(d), Back(d)}
          BY <3>1, <5>1 DEF Mixed
        <5>3. Store(d) \in {db[d], Back(d)}
          <6>1. CASE FinCommits(c)
            BY <6>1, FinMod
          <6>2. CASE ~FinCommits(c)
            BY <6>2, FinDoes
          <6> QED
            BY <6>1, <6>2
        <5> QED
          BY <5>2, <5>3
      <4>3. CASE 1 \notin 1 .. Len(jnl[d])
        <5>1. ~IsHdr(jnl[d], 1)
          BY <1>1, <4>3, CellIs
        <5>2. IsHdr(djnl[d], 1)
          BY <1>1, <2>1, <3>4, FoundAfter
        <5>3. op[c] = "commit" \/ op[c] = "rollback"
          BY <5>1, <5>2 DEF Fin, PlaceSynced, SyncedTo, Inv, Base, Control
        <5>4. jw[c][d].off # 0 /\ Live(c, d)
          <6>1. CASE op[c] = "commit"
            BY <6>1, CommitsIs DEF Fin, FinCommits, PlaceSynced
          <6>2. CASE op[c] = "rollback"
            BY <6>2, UndoIs DEF Fin
          <6> QED
            BY <5>3, <6>1, <6>2
        <5>5. JournalKept(c, d) /\ jw[c][d] \in JournalWriter
          BY <1>1, <5>4, LiveIs
        <5>6. Placed(jnl[d], jw[c][d])
          BY <5>4, <5>5 DEF JournalKept, Journal
        <5>7. Len(jnl[d]) \in Nat /\ jw[c][d].off \in Nat
          BY <1>1, <5>5 DEF JournalWriter
        <5> QED
          BY <4>3, <5>6, <5>7 DEF Placed
      <4> QED
        BY <4>2, <4>3
    <3> QED
      BY <3>3, <3>4
  <2>5. Mixed(d)'
    BY <2>3, <2>4 DEF Mixed
  <2>6. Covered(d)'
    BY <1>1, <1>2 DEF Covered
  <2> QED
    BY <2>5, <2>6
<1> QED
  BY <1>4, <1>5
-----------------------------------------------------------------------------
LEMMA MixedKept ==
  ASSUME Inv, Inv', Sure, Sure', OnDisk, NEW c \in Conns, Acts(c), setting' = setting, Heeds(c),
         NEW e \in Files
  PROVE  Mixed(e)' /\ Covered(e)'
<1> USE DEF At, Go
<1>1. Mixed(e) /\ Covered(e) /\ GoneOnDisk(e) /\ PlaceSynced(c) /\ OneFile /\ OneFile'
  BY DEF OnDisk, Sure
<1>2. GoneOnDisk(e)' /\ WriterSynced(c, e)'
  BY <1>1, GoneKept, WriterKept
<1>3. PlaceSynced(c)'
  BY PlaceActs DEF OnDisk
<1>4. FileShapes /\ Shapes /\ Control(c)
  BY FileShapesOK, ShapesOK DEF Inv, Base
<1>5. CASE Still(e)
  BY <1>1, <1>5, StillMixed
<1>6. CASE Live(c, e)'
  BY <1>1, <1>2, <1>6, LiveAfter
<1>7. CASE Works(c, e)
  BY <1>6, <1>7, WorksLive
<1>8. CASE e = cur[c] /\ SyncDb(c)
  <2>1. Live(c, e) /\ op' = op /\ op[c] = "commit" /\ pc'[c] \in {"prepare", "commit", "fin"}
    BY <1>8, SyncDbDoes
  <2>2. lock' = lock /\ reads' = reads
    BY <1>8 DEF SyncDb
  <2>3. pc'[c] = "fin" => mine'[c][cur'[c]] # None
    BY <1>8, LastDone
  <2>4. Live(c, e)'
    BY <2>1, <2>2, <2>3 DEF Live, InTxn, Committed, Undone
  <2> QED
    BY <1>6, <2>4
<1>9. CASE e = cur[c] /\ PlaySync(c)
  <2>1. pc[c] = "play" /\ pc'[c] = "fin" /\ op' = op /\ lock' = lock /\ reads' = reads /\ cur' = cur
    BY <1>4, <1>9 DEF PlaySync, Shapes
  <2>2. CASE op[c] = "rollback"
    <3>1. InTxn(c, e)
      BY <1>9, <2>1, <2>2, UndoIs
    <3>2. Live(c, e)'
      BY <2>1, <2>2, <3>1 DEF Live, InTxn, Committed, Undone
    <3> QED
      BY <1>6, <3>2
  <2>3. CASE op[c] # "rollback"
    <3>1. op[c] = "hot"
      BY <1>4, <2>1, <2>3 DEF Control
    <3>2. SyncedTo(e)'
      BY <1>3, <1>9, <2>1, <3>1 DEF PlaceSynced
    <3>3. Covered(e)'
      <4>1. ddb' = [ddb EXCEPT ![e] = db[e]] /\ db' = db
        BY <1>9, <3>1 DEF PlaySync
      <4>2. ddb'[e] = db'[e]
        BY <1>4, <4>1 DEF FileShapes
      <4> QED
        BY <4>2 DEF Covered
    <3> QED
      BY <1>1, <3>2, <3>3, SyncedAfter
  <2> QED
    BY <2>2, <2>3
<1>10. CASE e = cur[c] /\ HotEmpty(c)
  <2>1. CASE NoneAbove(c, e, RESERVED)
    <3>1. db' = db /\ ddb' = ddb /\ ddb[e] = db[e]
      BY <1>10, <2>1 DEF HotEmpty, Heeds
    <3>2. jnl'[e] = None /\ e \in fresh'
      BY <1>4, <1>10, <2>1 DEF HotEmpty, FileShapes
    <3>3. ~IsHdr(jnl'[e], 1)
      BY <3>2, NoCell
    <3> QED
      BY <1>1, <3>1, <3>2, <3>3, CalmAfter
  <2>2. CASE ~NoneAbove(c, e, RESERVED)
    <3>1. Still(e)
      BY <1>10, <2>2 DEF HotEmpty, Still, Same
    <3> QED
      BY <1>5, <3>1
  <2> QED
    BY <2>1, <2>2
<1>11. CASE e = cur[c] /\ HotOpen(c)
  <2>1. CASE StillThere(e)
    <3>1. op'[c] = "hot" /\ pc'[c] = "play" /\ cur' = cur /\ jnl' = jnl /\ db' = db /\ ddb' = ddb
      BY <1>4, <1>11, <2>1 DEF HotOpen, Shapes
    <3>2. SyncedTo(e)'
      BY <1>3, <1>11, <3>1 DEF PlaceSynced
    <3>3. Covered(e)'
      BY <1>1, <3>1 DEF Covered
    <3> QED
      BY <1>1, <3>2, <3>3, SyncedAfter
  <2>2. CASE ~StillThere(e)
    <3>1. Still(e)
      BY <1>11, <2>2 DEF HotOpen, Still, Same
    <3> QED
      BY <1>5, <3>1
  <2> QED
    BY <2>1, <2>2
<1>12. CASE e = cur[c] /\ Fin(c)
  BY <1>1, <1>12, FinMixed
<1>13. CASE e = cur[c] /\ FinSync(c)
  <2>1. jnl' = jnl /\ db' = db /\ ddb' = ddb /\ djnl'[e] = jnl[e] /\ e \notin fresh'
    BY <1>4, <1>13 DEF FinSync, FileShapes
  <2>2. SyncedTo(e)' /\ Covered(e)'
    BY <1>1, <2>1 DEF SyncedTo, Covered
  <2> QED
    BY <1>1, <2>2, SyncedAfter
<1>14. CASE e = cur[c] /\ op[c] = "hot" /\ (PlayTruncate(c) \/ PlayPage(c))
  <2>1. pc' = pc /\ op' = op /\ cur' = cur /\ pc[c] = "play"
    BY <1>14 DEF PlayTruncate, PlayPage
  <2>2. SyncedTo(e)'
    BY <1>3, <1>14, <2>1 DEF PlaceSynced
  <2>3. Covered(e)'
    BY <1>1, <1>14, HotPlayCovers
  <2> QED
    BY <1>1, <2>2, <2>3, SyncedAfter
<1> QED
  BY <1>5, <1>7, <1>8, <1>9, <1>10, <1>11, <1>12, <1>13, <1>14, StillOr DEF Settles

LEMMA OnDiskActs ==
  ASSUME Inv, Inv', Sure, Sure', OnDisk, NEW c \in Conns, Acts(c), setting' = setting, Heeds(c)
  PROVE  OnDisk'
<1>1. ASSUME NEW e \in Files PROVE Mixed(e)' /\ Covered(e)' /\ GoneOnDisk(e)'
  <2>1. GoneOnDisk(e)'
    BY GoneKept DEF OnDisk
  <2> QED
    BY <2>1, MixedKept
<1>2. ASSUME NEW o \in Conns PROVE PlaceSynced(o)'
  <2>1. CASE o = c
    BY <2>1, PlaceActs DEF OnDisk
  <2>2. CASE o # c
    BY <2>2, PlaceOthers DEF OnDisk
  <2> QED
    BY <2>1, <2>2
<1>3. ASSUME NEW o \in Conns, NEW e \in Files PROVE WriterSynced(o, e)'
  BY WriterKept
<1> QED
  BY <1>1, <1>2, <1>3 DEF OnDisk

(* A loss of power itself: what is found is on disk.                       *)
LEMMA OnDiskDark ==
  ASSUME Inv, Inv', Sure, Sure', Dark, setting' = setting
  PROVE  OnDisk'
<1>1. db' = ddb' /\ jnl' = djnl'
  BY DarkFiles
<1>2. /\ \A c \in Conns : pc'[c] = "run" /\ op'[c] = "read" /\ reads'[c] = {}
      /\ fresh' = {}
  BY DarkLocal
<1>3. ASSUME NEW d \in Files PROVE Mixed(d)' /\ Covered(d)' /\ GoneOnDisk(d)'
  <2>1. Covered(d)'
    BY <1>1 DEF Covered
  <2>2. SyncedTo(d)'
    BY <1>1, <1>2 DEF SyncedTo
  <2>3. Mixed(d)'
    BY <2>1, <2>2, SyncedAfter DEF Sure
  <2>4. GoneOnDisk(d)'
    BY <1>1 DEF GoneOnDisk
  <2> QED
    BY <2>1, <2>3, <2>4
<1>4. ASSUME NEW c \in Conns PROVE PlaceSynced(c)'
  BY <1>2 DEF PlaceSynced
<1>5. ASSUME NEW c \in Conns, NEW d \in Files PROVE WriterSynced(c, d)'
  BY <1>2 DEF WriterSynced, Live, InTxn
<1> QED
  BY <1>3, <1>4, <1>5 DEF OnDisk

LEMMA OnDiskInit ==
  ASSUME Init, Sure
  PROVE  OnDisk
<1>1. Inv
  BY InvInit
<1>2. /\ \A c \in Conns : pc[c] = "run" /\ op[c] = "read" /\ reads[c] = {}
      /\ \A d \in Files : db[d] = ddb[d] /\ jnl[d] = None /\ djnl[d] = None
  BY InitLocal
<1>3. fresh = {}
  BY DEF Init
<1>4. ASSUME NEW d \in Files PROVE Mixed(d) /\ Covered(d) /\ GoneOnDisk(d)
  <2>1. Covered(d)
    BY <1>2 DEF Covered
  <2>2. SyncedTo(d)
    BY <1>2, <1>3 DEF SyncedTo
  <2>3. Mixed(d)
    BY <1>1, <2>1, <2>2, SyncedMixed DEF Sure
  <2>4. GoneOnDisk(d)
    BY <1>2 DEF GoneOnDisk
  <2> QED
    BY <2>1, <2>3, <2>4
<1>5. ASSUME NEW c \in Conns PROVE PlaceSynced(c)
  BY <1>2 DEF PlaceSynced
<1>6. ASSUME NEW c \in Conns, NEW d \in Files PROVE WriterSynced(c, d)
  BY <1>2 DEF WriterSynced, Live, InTxn
<1> QED
  BY <1>4, <1>5, <1>6 DEF OnDisk

LEMMA OnDiskSame ==
  ASSUME OnDisk, UNCHANGED vars
  PROVE  OnDisk'
<1>1. /\ UNCHANGED << setting, db, jnl, supers, ddb, djnl, dsupers, fresh >>
      /\ UNCHANGED << lock, pc, op, cur, reads, cache, mine, jw, txn, sup, spill >>
  BY ShapesAgain
<1>2. \A d \in Files : Store(d)' = Store(d) /\ Back(d)' = Back(d)
  BY <1>1 DEF Store, Back
<1>3. ASSUME NEW d \in Files PROVE Mixed(d)' /\ Covered(d)' /\ GoneOnDisk(d)'
  <2>1. Mixed(d)
    BY DEF OnDisk
  <2>2. Journals(d)' = Journals(d)
    BY <1>1 DEF Journals
  <2>3. Mixed(d)'
    BY <1>1, <1>2, <2>1, <2>2 DEF Mixed
  <2>4. Covered(d)'
    BY <1>1 DEF OnDisk, Covered
  <2>5. GoneOnDisk(d)'
    BY <1>1 DEF OnDisk, GoneOnDisk, Finishing, JMode
  <2> QED
    BY <2>3, <2>4, <2>5
<1>4. ASSUME NEW c \in Conns PROVE PlaceSynced(c)'
  BY <1>1 DEF OnDisk, PlaceSynced, SyncedTo
<1>5. ASSUME NEW c \in Conns, NEW d \in Files PROVE WriterSynced(c, d)'
  <2>1. WriterSynced(c, d)
    BY DEF OnDisk
  <2>2. Live(c, d)' <=> Live(c, d)
    BY <1>1 DEF Live, InTxn, Committed, Undone
  <2> QED
    BY <1>1, <2>1, <2>2 DEF WriterSynced, SyncedBut
<1> QED
  BY <1>3, <1>4, <1>5 DEF OnDisk
-----------------------------------------------------------------------------
(* What a loss of power may put back is whole, too.                        *)
WholeBack == \A d \in Files : Back(d) \in Contents

LEMMA WholeBackKept ==
  ASSUME Inv, Whole, WholeBack, NEW c \in Conns, Acts(c)
  PROVE  WholeBack'
<1>1. Whole'
  BY WholeKept
<1>2. \A e \in Files : Store(e)' \in Contents
  BY <1>1 DEF Whole
<1>3. ASSUME NEW e \in Files, ~Delivers(c, e)
      PROVE  Back(e)' \in Contents
  <2>1. Back(e)' = Store(e)' \/ Back(e)' = Back(e)
    BY <1>3, BackMoves
  <2> QED
    BY <1>2, <2>1 DEF WholeBack
<1>4. ASSUME NEW e \in Files, Delivers(c, e)
      PROVE  Back(e)' \in Contents
  <2>1. db' = db /\ db[e] = mine[c][e] /\ Store(e)' = mine[c][e]
    BY <1>4, DeliversDoes
  <2>2. CASE DeleteSuper(c) /\ InTxn(c, e)
    <3>1. djnl[e] = jnl[e] /\ SuperName(jnl[e]) = txn[c] /\ txn[c] # 0
      BY <2>2, DeleteIs
    <3>2. djnl' = djnl /\ dsupers' = dsupers \ {txn[c]}
      BY <2>2 DEF DeleteSuper
    <3>3. ~Counts(djnl'[e], dsupers')
      BY <3>1, <3>2 DEF Counts
    <3>4. Back(e)' = db'[e]
      BY <3>3 DEF Back, Restored
    <3> QED
      BY <1>2, <2>1, <3>4
  <2>3. CASE Fin(c) /\ FinCommits(c) /\ e = cur[c]
    <3>1. djnl'[e] \in {djnl[e], None} /\ dsupers' = dsupers
      BY <2>3, FinDoes DEF Fin
    <3>2. CASE djnl'[e] = None
      <4>1. Back(e)' = db'[e]
        BY <3>2, NoCell DEF Back, Restored
      <4> QED
        BY <1>2, <2>1, <4>1
    <3>3. CASE djnl'[e] = djnl[e]
      <4>1. Back(e)' = Back(e)
        BY <2>1, <3>1, <3>3 DEF Back
      <4> QED
        BY <4>1 DEF WholeBack
    <3> QED
      BY <3>1, <3>2, <3>3
  <2> QED
    BY <1>4, <2>2, <2>3 DEF Delivers
<1> QED
  BY <1>3, <1>4 DEF WholeBack

LEMMA WholeBackInit ==
  ASSUME Init
  PROVE  WholeBack
<1>1. Whole
  BY WholeInit
<1> SUFFICES ASSUME NEW d \in Files PROVE Back(d) \in Contents
  BY DEF WholeBack
<1>2. jnl[d] = None /\ djnl[d] = None
  BY InitLocal
<1>3. Back(d) = db[d] /\ Store(d) = db[d]
  BY <1>2, NoCell DEF Back, Store, Restored
<1> QED
  BY <1>1, <1>3 DEF Whole

LEMMA WholeBackSame ==
  ASSUME WholeBack, UNCHANGED vars
  PROVE  WholeBack'
<1>1. UNCHANGED << setting, db, jnl, supers, ddb, djnl, dsupers, fresh >>
  BY ShapesAgain
<1>2. \A d \in Files : Back(d)' = Back(d)
  BY <1>1 DEF Back
<1> QED
  BY <1>2 DEF WholeBack

(* After a loss of power a file is what it was, or what it would fall back *)
(* to.                                                                     *)
LEMMA DarkStore ==
  ASSUME Inv, Sure, OnDisk, Dark, setting' = setting, NEW d \in Files
  PROVE  Store(d)' \in {Store(d), Back(d)} /\ Back(d)' = Store(d)'
<1>1. /\ jnl' \in {j \in [Files -> UNION {Journals(e) : e \in Files}] :
                     \A e \in Files : j[e] \in Journals(e)}
      /\ db' \in {f \in [Files -> UNION {Mixes(ddb[e], db[e], None) : e \in Files}] :
                    \A e \in Files : f[e] \in Mixes(ddb[e], db[e], None)}
  BY DEF Dark, PowerLoss
<1>2. PICK m : m = jnl'[d]
  OBVIOUS
<1>3. PICK f : f = db'[d]
  OBVIOUS
<1>4. m \in Journals(d)
  BY <1>1, <1>2
<1>5. f \in Mixes(ddb[d], db[d], None)
  BY <1>1, <1>3
<1>6. Mixed(d)
  BY DEF OnDisk
<1>7. Restored(f, m, {}) \in {Store(d), Back(d)}
  BY <1>4, <1>5, <1>6 DEF Mixed
<1>8. Inv' /\ OneFile'
  <2>1. Inv'
    BY DarkKeeps
  <2> QED
    BY <2>1 DEF Sure, OneFile
<1>9. Store(d)' = Restored(db'[d], jnl'[d], {}) /\ Back(d)' = Restored(db'[d], djnl'[d], {})
  BY <1>8, OneAfter
<1>10. djnl' = jnl'
  BY DarkFiles
<1>11. Store(d)' = Restored(f, m, {}) /\ Back(d)' = Restored(f, m, {})
  BY <1>2, <1>3, <1>9, <1>10
<1> QED
  BY <1>7, <1>11

LEMMA ContentsAre ==
  ASSUME NEW f \in Contents
  PROVE  f # None
<1>1. f \in Seq(Nat \X Nat)
  BY ContentsIs
<1>2. PICK n \in Nat : n = Len(f)
  BY <1>1
<1>3. f \in [1 .. n -> Page]
  BY <1>1, <1>2 DEF Page
<1>4. f \in Seq(Page)
  BY <1>3
<1> QED
  BY <1>4, JournalAssumption

LEMMA DarkStep ==
  ASSUME Inv, Sure, WholeBack, OnDisk, Dark, setting' = setting
  PROVE  \E D \in SUBSET Files : AC!PowerLoss(D)
<1> DEFINE D == {d \in Files : Left[d] # None /\ Store(d)' = Back(d)}
<1>1. ASSUME NEW d \in Files
      PROVE  /\ Held'[d] = IF d \in D THEN Left[d] ELSE Held[d]
             /\ Left'[d] = None
  <2>1. Store(d)' \in {Store(d), Back(d)} /\ Back(d)' = Store(d)'
    BY DarkStore
  <2>2. Held[d] = Store(d) /\ Held'[d] = Store(d)' /\ Left[d] = Fallback(d) /\ Left'[d] = Fallback(d)'
    BY AbstractIs
  <2>3. /\ Fallback(d) = IF Back(d) = Store(d) THEN None ELSE Back(d)
        /\ Fallback(d)' = IF Back(d)' = Store(d)' THEN None ELSE Back(d)'
    BY FallbackEq
  <2>4. CASE Left[d] = None
    <3>1. d \notin D
      BY <2>4
    <3>2. Back(d) = Store(d) \/ Back(d) = None
      BY <2>2, <2>3, <2>4
    <3>3. Back(d) # None
      BY ContentsAre DEF WholeBack
    <3> HIDE DEF D
    <3> QED
      BY <2>1, <2>2, <2>3, <3>1, <3>2, <3>3
  <2>5. CASE Left[d] # None /\ Store(d)' = Back(d)
    <3>1. d \in D
      BY <2>5
    <3> HIDE DEF D
    <3> QED
      BY <2>1, <2>2, <2>3, <2>5, <3>1
  <2>6. CASE Left[d] # None /\ Store(d)' # Back(d)
    <3>1. d \notin D
      BY <2>6
    <3> HIDE DEF D
    <3> QED
      BY <2>1, <2>2, <2>3, <2>6, <3>1
  <2> QED
    BY <2>4, <2>5, <2>6
<1>2. D \in SUBSET Files /\ \A d \in D : Left[d] # None
  OBVIOUS
<1> HIDE DEF D
<1>3. Held' = [d \in Files |-> IF d \in D THEN Left[d] ELSE Held[d]]
  <2>1. PICK F : F = Held'
    OBVIOUS
  <2>2. F = [d \in Files |-> F[d]] /\ \A d \in Files : F[d] = IF d \in D THEN Left[d] ELSE Held[d]
    BY <1>1, <2>1, AbstractShapes
  <2>3. F = [d \in Files |-> IF d \in D THEN Left[d] ELSE Held[d]]
    BY <2>2
  <2> QED
    BY <2>1, <2>3
<1>4. Left' = AC!Empty
  BY <1>1, AbstractShapes DEF AC!Empty
<1>5. \A c \in Conns, d \in Files : Seen'[c][d] = None /\ Drafted'[c][d] = None
  <2>1. \A c \in Conns : reads'[c] = {} /\ \A d \in Files : mine'[c][d] = None
    BY DarkLocal
  <2> QED
    BY <2>1, AbstractIs
<1>6. \A c \in Conns : Seen'[c] = AC!Empty /\ Drafted'[c] = AC!Empty
  BY <1>5, AbstractShapes DEF AC!Empty
<1>7. Seen' = [c \in Conns |-> AC!Empty] /\ Drafted' = [c \in Conns |-> AC!Empty]
  BY <1>6, AbstractShapes
<1>8. AC!PowerLoss(D)
  BY <1>2, <1>3, <1>4, <1>7 DEF AC!PowerLoss
<1> QED
  BY <1>2, <1>8

LEMMA DarkWhole ==
  ASSUME Inv, Sure, OnDisk, Dark, setting' = setting, Whole, WholeBack
  PROVE  Whole' /\ WholeBack'
<1>1. ASSUME NEW d \in Files PROVE Store(d)' \in Contents /\ Back(d)' \in Contents
  <2>1. Store(d)' \in {Store(d), Back(d)} /\ Back(d)' = Store(d)'
    BY DarkStore
  <2> QED
    BY <2>1 DEF Whole, WholeBack
<1>2. \A c \in Conns, d \in Files : mine'[c][d] = None
  BY DarkLocal
<1> QED
  BY <1>1, <1>2 DEF Whole, WholeBack

(* Only with one file and every sync may power be lost, and then every     *)
(* connection heeds what a loss of power asks of it.                       *)
Careful == (PowerLoss => Sure) /\ (Sure => \A c \in Conns : Heeds(c))

(* The same when power is lost: with one file and every sync, a            *)
(* transaction is there altogether or not at all, however the pages of the *)
(* file and of its journal reach the disk.                                 *)
THEOREM RecoveryIsAtomic == Spec /\ [][Careful]_vars => Atomic
<1> DEFINE Upheld == Inv /\ Whole /\ WholeBack /\ (Sure => OnDisk)
<1>1. Init => Upheld /\ AC!Init
  BY InvInit, WholeInit, WholeBackInit, OnDiskInit, InitRefines
<1>2. ASSUME Upheld, [Next]_vars, [Careful]_vars
      PROVE  Upheld' /\ [AC!Next]_<< Held, Left, Seen, Drafted >>
  <2>1. CASE UNCHANGED vars
    <3>1. Inv'
      BY <1>2, <2>1, InvSame
    <3>2. UNCHANGED << Held, Left, Seen, Drafted >>
      BY <2>1, SameRefines
    <3>3. \A d \in Files : Store(d)' = Store(d)
      BY <3>2, AbstractIs
    <3>4. Whole'
      BY <1>2, <2>1, <3>3, ShapesAgain DEF Whole
    <3>5. WholeBack'
      BY <1>2, <2>1, WholeBackSame
    <3>6. Sure' => Sure
      BY <2>1, ShapesAgain DEF Sure, OneFile, Full
    <3>7. Sure' => OnDisk'
      BY <1>2, <2>1, <3>6, OnDiskSame
    <3> QED
      BY <3>1, <3>2, <3>4, <3>5, <3>7
  <2>2. CASE Next /\ Careful
    <3>1. setting' = setting /\ (Sure' <=> Sure)
      BY <2>2 DEF Next, Sure, OneFile, Full
    <3>2. CASE PowerLoss
      <4>1. Sure /\ Dark
        BY <2>2, <3>2 DEF Careful, Dark, Sure
      <4>2. Inv'
        BY <1>2, <3>1, <4>1, DarkKeeps
      <4>3. Whole' /\ WholeBack'
        BY <1>2, <3>1, <4>1, DarkWhole
      <4>4. OnDisk'
        BY <1>2, <3>1, <4>1, <4>2, OnDiskDark
      <4>5. PICK D \in SUBSET Files : AC!PowerLoss(D)
        BY <1>2, <3>1, <4>1, DarkStep
      <4>6. AC!Next
        BY <4>5 DEF AC!Next
      <4> QED
        BY <4>2, <4>3, <4>4, <4>6
    <3>3. CASE ~PowerLoss
      <4>1. PICK c \in Conns : Acts(c)
        BY <2>2, <3>3, NextCases
      <4>2. Inv' /\ Whole' /\ WholeBack'
        BY <1>2, <3>1, <4>1, ActsKeep, WholeKept, WholeBackKept
      <4>3. AC!Next
        BY <1>2, <4>1, StepRefines
      <4>4. Sure' => OnDisk'
        <5> SUFFICES ASSUME Sure' PROVE OnDisk'
          OBVIOUS
        <5>1. Sure /\ OnDisk /\ Heeds(c)
          BY <1>2, <2>2, <3>1 DEF Careful
        <5> QED
          BY <1>2, <3>1, <4>1, <4>2, <5>1, OnDiskActs
      <4> QED
        BY <4>2, <4>3, <4>4
    <3> QED
      BY <3>2, <3>3
  <2> QED
    BY <1>2, <2>1, <2>2
<1>3. Upheld /\ [Next]_vars /\ [Careful]_vars => Upheld' /\ [AC!Next]_<< Held, Left, Seen, Drafted >>
  BY <1>2
<1> HIDE DEF Upheld
<1> QED
  BY <1>1, <1>3, PTL DEF Spec, Atomic, AC!Spec
=============================================================================
