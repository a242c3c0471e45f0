-------------------------- MODULE AppDefinedProofs ---------------------------
(***************************************************************************)
(* Theorems about AppDefined, for every set of handles, functions,         *)
(* collations and statements.                                              *)
(***************************************************************************)
EXTENDS AppDefined, TLAPS

(* The part of the type invariant that ownership rests on.                 *)
OwnTyped ==
  /\ held \in [Slots -> Handles \cup {None}]
  /\ hs \in [Handles -> {"free", "live", "broken"}]
  /\ lost \subseteq Handles

OwnInv == OwnTyped /\ OneOwner

(* Which slots each of the slot operators yields.                          *)
LEMMA SlotTypes ==
  /\ FuncSlots \subseteq Slots
  /\ CollSlots \subseteq Slots
  /\ ConnSlots \subseteq Slots
  /\ Autovacuum \in Slots
  /\ \A c \in Colls : CollSlot(c) \in CollSlots
  /\ \A s \in Stmts :
       /\ \A i \in Vars : VarSlot(s, i) \in Slots
       /\ \A a \in AuxArgs : AuxSlot(s, a) \in Slots
       /\ ResultSlot(s) \in Slots
       /\ ScratchSlots(s) \subseteq Slots
       /\ BoundSlots(s) \subseteq Slots
  BY DEF Slots, ConnSlots, FuncSlots, CollSlots, Autovacuum, VarSlots, AuxSlots,
         ResultSlots, CollSlot, VarSlot, AuxSlot, ResultSlot, ScratchSlots, BoundSlots
-----------------------------------------------------------------------------
(* The four things a call does with handles each preserve ownership.       *)

LEMMA ReleaseTyped ==
  ASSUME OwnTyped, NEW R \in SUBSET Slots, Release(R), UNCHANGED lost
  PROVE  OwnTyped'
  BY DEF OwnTyped, Release, DestroyHeld

LEMMA ReleaseOwn ==
  ASSUME OwnInv, NEW R \in SUBSET Slots, Release(R), UNCHANGED lost
  PROVE  OwnInv'
<1> USE DEF OwnInv, OneOwner
<1>1. OwnTyped'
  BY ReleaseTyped
<1>2. ASSUME NEW h \in Handles
      PROVE  hs'[h] = IF \E sl \in R : held[sl] = h THEN "free" ELSE hs[h]
  <2>1. CASE \E sl \in R : held[sl] = h
    <3>1. hs[h] = "live"
      BY <2>1 DEF HeldIffLive
    <3>2. \A sl1, sl2 \in R : held[sl1] = h /\ held[sl2] = h => sl1 = sl2
      BY HandlesAssumption DEF NoSharedHandle
    <3>3. QED
      BY <2>1, <3>1, <3>2 DEF Release, DestroyHeld
  <2>2. CASE ~ \E sl \in R : held[sl] = h
    BY <2>2 DEF Release, DestroyHeld
  <2>3. QED
    BY <2>1, <2>2
<1>3. DestroyedExactlyOnce'
  BY <1>2 DEF DestroyedExactlyOnce
<1>4. NoSharedHandle'
  BY DEF NoSharedHandle, Release
<1>5. LostNotHeld'
  BY HandlesAssumption DEF LostNotHeld, Release, OwnTyped
<1>6. HeldIffLive'
  <2> SUFFICES ASSUME NEW h \in Handles
               PROVE  hs'[h] = "live" <=> (h \in lost \/ \E sl \in Slots : held'[sl] = h)
    BY DEF HeldIffLive
  <2>1. CASE \E sl \in R : held[sl] = h
    <3>1. h \notin lost
      BY <2>1 DEF LostNotHeld
    <3>2. \A sl \in Slots : held'[sl] # h
      BY <2>1, HandlesAssumption DEF Release, NoSharedHandle
    <3>3. hs'[h] = "free"
      BY <2>1, <1>2
    <3>4. QED
      BY <3>1, <3>2, <3>3
  <2>2. CASE ~ \E sl \in R : held[sl] = h
    <3>1. hs'[h] = hs[h]
      BY <2>2, <1>2
    <3>2. \A sl \in Slots : held'[sl] = h <=> held[sl] = h
      BY <2>2, HandlesAssumption DEF Release
    <3>3. QED
      BY <3>1, <3>2 DEF HeldIffLive
  <2>3. QED
    BY <2>1, <2>2
<1>7. QED
  BY <1>1, <1>3, <1>4, <1>5, <1>6

LEMMA StoreOwn ==
  ASSUME OwnInv, NEW sl \in Slots, NEW h \in Free, Store(sl, h), UNCHANGED lost
  PROVE  OwnInv'
<1> USE DEF OwnInv, OneOwner
<1>1. h \in Handles /\ hs[h] = "free"
  BY DEF Free
<1>2. \A s \in Slots : held[s] # h
  BY <1>1 DEF HeldIffLive
<1>3. held' \in [Slots -> Handles \cup {None}]
      /\ \A s \in Slots : held'[s] = IF s = sl THEN h ELSE held[s]
  BY <1>1 DEF Store, OwnTyped
<1>4. /\ hs' \in [Handles -> {"free", "live", "broken"}]
      /\ \A g \in Handles :
           hs'[g] = IF g = h THEN "live" ELSE IF held[sl] = g THEN "free" ELSE hs[g]
  <2>1. \A g \in Handles : held[sl] = g => hs[g] = "live"
    BY DEF HeldIffLive
  <2>2. QED
    BY <1>1, <2>1 DEF Store, AddHandle, DestroyHeld, OwnTyped
<1>5. OwnTyped'
  BY <1>3, <1>4 DEF OwnTyped
<1>6. DestroyedExactlyOnce'
  BY <1>4 DEF DestroyedExactlyOnce
<1>7. NoSharedHandle'
  BY <1>2, <1>3 DEF NoSharedHandle
<1>8. LostNotHeld'
  BY <1>1, <1>3 DEF LostNotHeld, HeldIffLive
<1>9. HeldIffLive'
  <2> SUFFICES ASSUME NEW g \in Handles
               PROVE  hs'[g] = "live" <=> (g \in lost \/ \E s \in Slots : held'[s] = g)
    BY DEF HeldIffLive
  <2>1. CASE g = h
    BY <2>1, <1>3, <1>4
  <2>2. CASE g # h /\ held[sl] = g
    <3>1. g \notin lost
      BY <2>2 DEF LostNotHeld
    <3>2. \A s \in Slots : held'[s] # g
      BY <2>2, <1>3, HandlesAssumption DEF NoSharedHandle
    <3>3. QED
      BY <2>2, <3>1, <3>2, <1>4
  <2>3. CASE g # h /\ held[sl] # g
    <3>1. \A s \in Slots : held'[s] = g <=> held[s] = g
      BY <2>3, <1>3
    <3>2. hs'[g] = hs[g]
      BY <2>3, <1>4
    <3>3. QED
      BY <3>1, <3>2 DEF HeldIffLive
  <2>4. QED
    BY <2>1, <2>2, <2>3
<1>10. QED
  BY <1>5, <1>6, <1>7, <1>8, <1>9

LEMMA RefuseOwn ==
  ASSUME OwnInv, NEW h \in Free, Refuse(h), UNCHANGED lost
  PROVE  OwnInv'
<1>1. hs' = hs
  BY DEF Refuse, go_destroy, AddHandle, Free, OwnInv, OwnTyped
<1>2. QED
  BY <1>1 DEF Refuse, OwnInv, OwnTyped, OneOwner, DestroyedExactlyOnce, NoSharedHandle,
              HeldIffLive, LostNotHeld

LEMMA LoseOwn ==
  ASSUME OwnInv, NEW h \in Free,
         hs' = AddHandle(hs, h), lost' = lost \cup {h}, UNCHANGED held
  PROVE  OwnInv'
<1> USE DEF OwnInv, OneOwner, AddHandle, Free
<1>1. OwnTyped'
  BY DEF OwnTyped
<1>2. DestroyedExactlyOnce' /\ NoSharedHandle'
  BY DEF DestroyedExactlyOnce, NoSharedHandle, OwnTyped
<1>3. HeldIffLive'
  BY DEF HeldIffLive, OwnTyped
<1>4. LostNotHeld'
  BY DEF LostNotHeld, HeldIffLive, OwnTyped
<1>5. QED
  BY <1>1, <1>2, <1>3, <1>4

LEMMA KeepOwn ==
  ASSUME OwnInv, UNCHANGED << held, hs, lost >>
  PROVE  OwnInv'
  BY DEF OwnInv, OwnTyped, OneOwner, DestroyedExactlyOnce, NoSharedHandle, HeldIffLive,
         LostNotHeld
-----------------------------------------------------------------------------
(* Every step does one of five things with handles.                        *)
HandleStep ==
  \/ UNCHANGED << held, hs, lost >>
  \/ UNCHANGED lost /\ \E R \in SUBSET Slots : Release(R)
  \/ UNCHANGED lost /\ \E sl \in Slots, h \in Free : Store(sl, h)
  \/ UNCHANGED lost /\ \E h \in Free : Refuse(h)
  \/ UNCHANGED held /\ \E h \in Free : hs' = AddHandle(hs, h) /\ lost' = lost \cup {h}

LEMMA CloseZombieHandles ==
  ASSUME NEW z, NEW R \in SUBSET Slots, LeaveMutexAndCloseZombie(z, R), UNCHANGED lost
  PROVE  HandleStep
<1>1. R \cup ConnSlots \in SUBSET Slots
  BY DEF Slots
<1>2. QED
  BY <1>1 DEF LeaveMutexAndCloseZombie, HandleStep

LEMMA CompileHandles ==
  ASSUME NEW s \in Stmts, Compile(s), UNCHANGED lost
  PROVE  HandleStep
<1> DEFINE c == Sql[s].coll
<1>1. c # None => CollSlot(c) \in Slots
  BY SqlAssumption, SlotTypes
<1>2. QED
  BY <1>1 DEF Compile, HandleStep

LEMMA RegisterHandles == Register => HandleStep
<1> SUFFICES ASSUME Register PROVE HandleStep
  OBVIOUS
<1> USE SlotTypes DEF HandleStep
<1>1. ASSUME NEW f \in FuncSlots, DeleteFunction(f) PROVE HandleStep
  BY <1>1 DEF DeleteFunction
<1>2. ASSUME NEW f \in FuncSlots, NEW h \in Handles, CreateFunction(f, h) PROVE HandleStep
  BY <1>2 DEF CreateFunction
<1>3. ASSUME NEW c \in Colls, DeleteCollation(c) PROVE HandleStep
  BY <1>3 DEF DeleteCollation
<1>4. ASSUME NEW c \in Colls, NEW h \in Handles, CreateCollation(c, h) PROVE HandleStep
  BY <1>4 DEF CreateCollation
<1>5. ASSUME AutovacuumOff PROVE HandleStep
  BY <1>5 DEF AutovacuumOff
<1>6. ASSUME NEW h \in Handles, AutovacuumPages(h) PROVE HandleStep
  BY <1>6 DEF AutovacuumPages
<1>7. ASSUME SetAuthorizer PROVE HandleStep
  BY <1>7 DEF SetAuthorizer
<1>8. QED
  BY <1>1, <1>2, <1>3, <1>4, <1>5, <1>6, <1>7 DEF Register

LEMMA StatementHandles ==
  ASSUME NEW s \in Stmts, UseStatement(s) \/ RunFunction(s)
  PROVE  HandleStep
<1>1. ASSUME Prepare(s) \/ Step(s) PROVE HandleStep
  BY <1>1, CompileHandles DEF Prepare, Step, HandleStep
<1>2. ASSUME Finalize(s) PROVE HandleStep
  BY <1>2, SlotTypes, CloseZombieHandles DEF Finalize
<1> USE SlotTypes DEF HandleStep
<1>3. ASSUME VdbeHalt(s) PROVE HandleStep
  BY <1>3 DEF VdbeHalt
<1>4. ASSUME Reset(s) PROVE HandleStep
  BY <1>4 DEF Reset
<1>5. ASSUME ClearBindings(s) PROVE HandleStep
  BY <1>5 DEF ClearBindings
<1>6. ASSUME NEW i \in Vars, NEW h \in Handles, BindPointer(s, i, h) PROVE HandleStep
  BY <1>6 DEF BindPointer
<1>7. ASSUME CallFunction(s) PROVE HandleStep
  BY <1>7 DEF CallFunction
<1>8. ASSUME Return(s) PROVE HandleStep
  BY <1>8 DEF Return
<1>9. ASSUME ResultOther(s) PROVE HandleStep
  BY <1>9 DEF ResultOther
<1>10. ASSUME NEW h \in Handles, ResultPointer(s, h) PROVE HandleStep
  BY <1>10 DEF ResultPointer
<1>11. ASSUME NEW a \in AuxArgs, NEW h \in Handles, SetAuxdata(s, a, h) PROVE HandleStep
  BY <1>11 DEF SetAuxdata
<1>12. QED
  BY <1>1, <1>2, <1>3, <1>4, <1>5, <1>6, <1>7, <1>8, <1>9, <1>10, <1>11
     DEF UseStatement, RunFunction

LEMMA NextHandles == [Next]_vars => HandleStep
<1>1. Open \/ BackupInit \/ UNCHANGED vars => HandleStep
  BY DEF Open, BackupInit, vars, HandleStep
<1>2. BackupFinish => HandleStep
  BY CloseZombieHandles DEF BackupFinish
<1>3. \A v2 \in BOOLEAN : Close(v2) => HandleStep
  BY CloseZombieHandles DEF Close
<1>4. QED
  BY <1>1, <1>2, <1>3, RegisterHandles, StatementHandles DEF Next
-----------------------------------------------------------------------------
(* Every handle is owned once: by Go, by one slot, or lost to a connection *)
(* that was no longer open; go_destroy is called once for each.            *)

LEMMA InitOwn == Init => OwnInv
  BY HandlesAssumption DEF Init, OwnInv, OwnTyped, OneOwner, DestroyedExactlyOnce,
     NoSharedHandle, HeldIffLive, LostNotHeld

LEMMA NextOwn == OwnInv /\ [Next]_vars => OwnInv'
  BY NextHandles, ReleaseOwn, StoreOwn, RefuseOwn, LoseOwn, KeepOwn DEF HandleStep

(* No handle is destroyed twice, forgotten, or held in two places, however *)
(* registrations, bindings, runs and closing interleave and fail.          *)
THEOREM HandlesOwnedOnce == Spec => []OneOwner
<1>1. Init => OwnInv
  BY InitOwn
<1>2. OwnInv /\ [Next]_vars => OwnInv'
  BY NextOwn
<1>3. OwnInv => OneOwner
  BY DEF OwnInv
<1>4. QED
  BY <1>1, <1>2, <1>3, PTL DEF Spec
-----------------------------------------------------------------------------
(* Statements call only what is registered.                                *)

CallSlots == FuncSlots \cup CollSlots

(* Nothing that may run points to an entry without a callback, nor to a    *)
(* synthesised entry whose original has gone.                              *)
LinkedHeld ==
  \A s \in Stmts :
    MayRun(s) => \A sl \in prog[s] : held[sl] # None /\ Callback(sl) = held[sl]

ClosedIdle == conn = "closed" => ~connectionIsBusy

LinkInv == LinkedHeld /\ CopyFollowsOriginal /\ ClosedIdle

LEMMA SlotsApart ==
  /\ FuncSlots \cap CollSlots = {}
  /\ Autovacuum \notin CallSlots
  /\ \A sl \in CollSlots : sl[2] \in Colls /\ sl = CollSlot(sl[2])
  /\ \A c \in Colls : CollSlot(c)[2] = c
  /\ \A s \in Stmts :
       /\ \A i \in Vars : VarSlot(s, i) \notin CallSlots
       /\ \A a \in AuxArgs : AuxSlot(s, a) \notin CallSlots
       /\ ResultSlot(s) \notin CallSlots
       /\ ScratchSlots(s) \cap CallSlots = {}
       /\ BoundSlots(s) \cap CallSlots = {}
  BY DEF CallSlots, FuncSlots, CollSlots, Autovacuum, CollSlot, VarSlot, AuxSlot,
         ResultSlot, ScratchSlots, BoundSlots

(* What FindFunction returns is an entry with a function.                  *)
LEMMA FoundIsHeld ==
  ASSUME defined \subseteq FuncSlots, NEW call, FindFunction(call) # None
  PROVE  FindFunction(call) \in FuncSlots /\ held[FindFunction(call)] # None
<1> DEFINE fits == {f \in defined : f[2] = call[1] /\ matchQuality(f, call[2]) > 0}
           Best(f) == \A g \in fits : matchQuality(g, call[2]) <= matchQuality(f, call[2])
<1>1. \A f \in fits : matchQuality(f, call[2]) \in {1, 2}
  BY DEF matchQuality
<1>2. fits # {} => \E f \in fits : Best(f)
  <2>1. CASE \E f \in fits : matchQuality(f, call[2]) = 2
    BY <2>1, <1>1
  <2>2. CASE \A f \in fits : matchQuality(f, call[2]) = 1
    BY <2>2, <1>1
  <2>3. QED
    BY <2>1, <2>2, <1>1
<1>3. fits # {} => (CHOOSE f \in fits : Best(f)) \in defined
  BY <1>2
<1>4. QED
  BY <1>3 DEF FindFunction

(* A program links only to entries, whose type is that of prog.            *)
LEMMA LinkedTyped ==
  ASSUME TypeOK, NEW s \in Stmts, FunctionsFound(s)
  PROVE  /\ Linked(s) \in SUBSET CallSlots
         /\ \A sl \in Linked(s) \cap FuncSlots : held[sl] # None
         /\ \A sl \in Linked(s) \cap CollSlots :
              Sql[s].coll \in Colls /\ sl = CollSlot(Sql[s].coll)
<1>1. \A call \in Sql[s].calls :
        FindFunction(call) \in FuncSlots /\ held[FindFunction(call)] # None
  BY FoundIsHeld DEF FunctionsFound, TypeOK
<1>2. Sql[s].coll \in Colls \cup {None}
  BY SqlAssumption
<1>3. \A sl \in Linked(s) :
        \/ \E call \in Sql[s].calls : sl = FindFunction(call)
        \/ Sql[s].coll # None /\ sl = CollSlot(Sql[s].coll)
  BY DEF Linked
<1>4. Sql[s].coll # None => CollSlot(Sql[s].coll) \in CollSlots
  BY <1>2, SlotTypes
<1>5. \A sl \in FuncSlots : sl \notin CollSlots
  BY SlotsApart
<1>6. Linked(s) \in SUBSET CallSlots
  BY <1>1, <1>3, <1>4 DEF CallSlots
<1>7. \A sl \in Linked(s) \cap FuncSlots : held[sl] # None
  BY <1>1, <1>3, <1>4, <1>5
<1>8. \A sl \in Linked(s) \cap CollSlots :
        Sql[s].coll \in Colls /\ sl = CollSlot(Sql[s].coll)
  BY <1>1, <1>2, <1>3, <1>5
<1>9. QED
  BY <1>6, <1>7, <1>8

LEMMA CompileTyped ==
  ASSUME TypeOK, OwnTyped', NEW s \in Stmts, Compile(s)
  PROVE  /\ prog' \in [Stmts -> SUBSET CallSlots]
         /\ expired' \in [Stmts -> BOOLEAN]
         /\ copy' \in [Colls -> Handles \cup {None}]
<1> USE DEF TypeOK, OwnTyped
<1>1. Linked(s) \in SUBSET CallSlots
  BY LinkedTyped DEF Compile
<1>2. ExpirePreparedStatements \in [Stmts -> BOOLEAN]
  BY DEF ExpirePreparedStatements
<1>3. Sql[s].coll \in Colls \cup {None}
  BY SqlAssumption
<1>4. \A cp \in [Colls -> Handles \cup {None}] :
        Synthesised(cp, s) \in [Colls -> Handles \cup {None}]
  BY <1>3, SlotTypes DEF Synthesised
<1>5. \A c \in Colls : CopyDropped(c) \in [Colls -> Handles \cup {None}]
                       /\ ExpiredByColl(c) \in [Stmts -> BOOLEAN]
  BY <1>2 DEF CopyDropped, ExpiredByColl
<1>6. PICK exp \in [Stmts -> BOOLEAN], cp \in [Colls -> Handles \cup {None}] :
        Link(s, exp, cp)
  BY <1>3, <1>5 DEF Compile
<1>7. QED
  BY <1>1, <1>4, <1>6 DEF Link, CallSlots

LEMMA TypeStep ==
  ASSUME TypeOK, OwnTyped', [Next]_vars
  PROVE  TypeOK'
<1> USE DEF TypeOK, OwnTyped
<1>1. ExpirePreparedStatements \in [Stmts -> BOOLEAN]
  BY DEF ExpirePreparedStatements
<1>2. ASSUME NEW z \in {"open", "zombie", "closed"}, NEW R,
             LeaveMutexAndCloseZombie(z, R)
      PROVE  /\ conn' \in {"open", "zombie", "closed"}
             /\ defined' \subseteq FuncSlots
             /\ copy' \in [Colls -> Handles \cup {None}]
  BY <1>2 DEF LeaveMutexAndCloseZombie
<1>3. CASE Open
  BY <1>3 DEF Open, stmtVars
<1>4. CASE BackupInit
  BY <1>4 DEF BackupInit, stmtVars
<1>5. CASE BackupFinish
  BY <1>5, <1>2 DEF BackupFinish, stmtVars
<1>6. ASSUME NEW v2 \in BOOLEAN, Close(v2) PROVE TypeOK'
  BY <1>6, <1>2 DEF Close, stmtVars
<1>7. CASE Register
  <2>1. ASSUME NEW f \in FuncSlots, DeleteFunction(f) PROVE TypeOK'
    BY <2>1, <1>1 DEF DeleteFunction
  <2>2. ASSUME NEW f \in FuncSlots, NEW h \in Handles, CreateFunction(f, h) PROVE TypeOK'
    BY <2>2, <1>1 DEF CreateFunction
  <2>3. ASSUME NEW c \in Colls, DeleteCollation(c) PROVE TypeOK'
    BY <2>3, <1>1 DEF DeleteCollation, CopyDropped, ExpiredByColl
  <2>4. ASSUME NEW c \in Colls, NEW h \in Handles, CreateCollation(c, h) PROVE TypeOK'
    BY <2>4, <1>1 DEF CreateCollation, CopyDropped, ExpiredByColl
  <2>5. CASE AutovacuumOff
    BY <2>5 DEF AutovacuumOff, stmtVars
  <2>6. ASSUME NEW h \in Handles, AutovacuumPages(h) PROVE TypeOK'
    BY <2>6 DEF AutovacuumPages, stmtVars
  <2>7. CASE SetAuthorizer
    BY <2>7, <1>1 DEF SetAuthorizer
  <2>8. QED
    BY <1>7, <2>1, <2>2, <2>3, <2>4, <2>5, <2>6, <2>7 DEF Register
<1>8. ASSUME NEW s \in Stmts, UseStatement(s) PROVE TypeOK'
  <2>1. CASE Prepare(s)
    BY <2>1, CompileTyped DEF Prepare, CallSlots
  <2>2. CASE Step(s)
    BY <2>2, CompileTyped DEF Step, CallSlots
  <2>3. CASE VdbeHalt(s)
    BY <2>3 DEF VdbeHalt
  <2>4. CASE Reset(s)
    BY <2>4 DEF Reset
  <2>5. CASE ClearBindings(s)
    BY <2>5 DEF ClearBindings
  <2>6. CASE Finalize(s)
    BY <2>6, <1>2 DEF Finalize
  <2>7. ASSUME NEW i \in Vars, NEW h \in Handles, BindPointer(s, i, h) PROVE TypeOK'
    BY <2>7 DEF BindPointer
  <2>8. QED
    BY <1>8, <2>1, <2>2, <2>3, <2>4, <2>5, <2>6, <2>7 DEF UseStatement
<1>9. ASSUME NEW s \in Stmts, RunFunction(s) PROVE TypeOK'
  <2>1. CASE CallFunction(s)
    BY <2>1 DEF CallFunction
  <2>2. CASE Return(s)
    BY <2>2 DEF Return
  <2>3. CASE ResultOther(s)
    BY <2>3 DEF ResultOther, stmtVars
  <2>4. ASSUME NEW h \in Handles, ResultPointer(s, h) PROVE TypeOK'
    BY <2>4 DEF ResultPointer, stmtVars
  <2>5. ASSUME NEW a \in AuxArgs, NEW h \in Handles, SetAuxdata(s, a, h) PROVE TypeOK'
    BY <2>5 DEF SetAuxdata, stmtVars
  <2>6. QED
    BY <1>9, <2>1, <2>2, <2>3, <2>4, <2>5 DEF RunFunction
<1>10. CASE UNCHANGED vars
  BY <1>10 DEF vars
<1>11. QED
  BY <1>3, <1>4, <1>5, <1>6, <1>7, <1>8, <1>9, <1>10 DEF Next

LEMMA InitType == Init => TypeOK
<1> SUFFICES ASSUME Init PROVE TypeOK
  OBVIOUS
<1>1. expired \in [Stmts -> BOOLEAN] /\ utf16 \in BOOLEAN /\ backup \in BOOLEAN
  BY DEF Init
<1>2. prog \in [Stmts -> SUBSET (FuncSlots \cup CollSlots)]
  BY DEF Init
<1>3. held \in [Slots -> Handles \cup {None}] /\ copy \in [Colls -> Handles \cup {None}]
  BY DEF Init
<1>4. hs \in [Handles -> {"free", "live", "broken"}]
      /\ st \in [Stmts -> {"none", "ready", "run", "call", "halt"}]
  BY DEF Init
<1>5. QED
  BY <1>1, <1>2, <1>3, <1>4 DEF Init, TypeOK

(* Every variable keeps its type.                                          *)
THEOREM TypeCorrect == Spec => []TypeOK
<1>1. Init => TypeOK /\ OwnInv
  BY InitOwn, InitType
<1>2. TypeOK /\ OwnInv /\ [Next]_vars => TypeOK' /\ OwnInv'
  BY NextOwn, TypeStep DEF OwnInv
<1>3. QED
  BY <1>1, <1>2, PTL DEF Spec
-----------------------------------------------------------------------------
(* How calls leave the links of the statements that may run.               *)

(* The call replaces nothing that statements point to.                     *)
LEMMA QuietLink ==
  ASSUME TypeOK, LinkedHeld, CopyFollowsOriginal,
         \A s \in Stmts : MayRun(s)' => MayRun(s) /\ prog'[s] = prog[s],
         \A sl \in CallSlots : held'[sl] = held[sl],
         UNCHANGED << copy, utf16 >>
  PROVE  LinkedHeld' /\ CopyFollowsOriginal'
<1>1. \A sl \in CallSlots : Callback(sl)' = Callback(sl)
  BY SlotsApart DEF Callback, CollEntry, CallSlots
<1>2. LinkedHeld'
  BY <1>1 DEF LinkedHeld, TypeOK, CallSlots
<1>3. CopyFollowsOriginal'
  BY SlotTypes DEF CopyFollowsOriginal, CallSlots
<1>4. QED
  BY <1>2, <1>3

(* The call replaces or deletes what slot x holds.                         *)
LEMMA ReplaceLink ==
  ASSUME TypeOK, LinkedHeld, CopyFollowsOriginal, NEW x \in CallSlots,
         held[x] # None => ~VdbeActive /\ expired' = ExpirePreparedStatements,
         held[x] = None => UNCHANGED expired,
         UNCHANGED << st, prog, utf16 >>,
         \A sl \in CallSlots : sl # x => held'[sl] = held[sl],
         \A c \in Colls : copy'[c] = IF x = CollSlot(c) THEN None ELSE copy[c]
  PROVE  LinkedHeld' /\ CopyFollowsOriginal'
<1>1. CASE held[x] # None
  <2>1. \A s \in Stmts : ~MayRun(s)'
    BY <1>1 DEF MayRun, Running, VdbeActive, ExpirePreparedStatements, TypeOK
  <2>2. QED
    BY <2>1, SlotTypes DEF LinkedHeld, CopyFollowsOriginal, CallSlots
<1>2. CASE held[x] = None
  <2>1. \A s \in Stmts : MayRun(s)' => MayRun(s)
    BY <1>2 DEF MayRun, Running
  <2>2. \A sl \in CallSlots : sl # x => Callback(sl)' = Callback(sl)
    BY SlotsApart DEF Callback, CollEntry, CallSlots
  <2>3. ASSUME NEW s \in Stmts, MayRun(s)', NEW sl \in prog'[s]
        PROVE  held'[sl] # None /\ Callback(sl)' = held'[sl]
    <3>1. sl \in CallSlots /\ held[sl] # None /\ Callback(sl) = held[sl]
      BY <2>1, <2>3 DEF LinkedHeld, TypeOK, CallSlots
    <3>2. QED
      BY <3>1, <1>2, <2>2
  <2>4. CopyFollowsOriginal'
    BY SlotTypes DEF CopyFollowsOriginal, CallSlots
  <2>5. QED
    BY <2>3, <2>4 DEF LinkedHeld
<1>3. QED
  BY <1>1, <1>2

(* No statement is left: the connection may be freed.                      *)
LEMMA IdleLink ==
  ASSUME \A s \in Stmts : st'[s] = "none", \A c \in Colls : copy'[c] = None
  PROVE  LinkedHeld' /\ CopyFollowsOriginal'
  BY DEF LinkedHeld, MayRun, Running, CopyFollowsOriginal

(* A statement is compiled, perhaps after its collation was registered.    *)
LEMMA CompileLink ==
  ASSUME TypeOK, OwnTyped, OwnTyped', LinkedHeld, CopyFollowsOriginal,
         NEW s \in Stmts, Compile(s), UNCHANGED utf16,
         \A t \in Stmts \ {s} : st'[t] = st[t]
  PROVE  LinkedHeld' /\ CopyFollowsOriginal'
<1> DEFINE c == Sql[s].coll
<1>1. c \in Colls \cup {None}
  BY SqlAssumption
<1>2. /\ Linked(s) \in SUBSET CallSlots
      /\ \A sl \in Linked(s) \cap FuncSlots : held[sl] # None
      /\ \A sl \in Linked(s) \cap CollSlots : c \in Colls /\ sl = CollSlot(c)
  BY LinkedTyped DEF Compile
<1>3. /\ prog'[s] = Linked(s)
      /\ \A t \in Stmts \ {s} : prog'[t] = prog[t]
  BY DEF Compile, Link, TypeOK
<1>4. \A sl \in CallSlots : held'[sl] \in Handles \cup {None}
  BY SlotTypes DEF OwnTyped, CallSlots
<1>5. CASE /\ c # None => held[CollSlot(c)] # None
           /\ UNCHANGED << held, hs >>
           /\ Link(s, expired, copy)
  <2>1. \A d \in Colls :
          copy'[d] = IF utf16 /\ d = c /\ copy[d] = None THEN held[CollSlot(d)] ELSE copy[d]
    BY <1>1, <1>5, CollsAssumption DEF Link, Synthesised, TypeOK
  <2>2. CopyFollowsOriginal'
    BY <1>5, <2>1 DEF CopyFollowsOriginal
  <2>3. ASSUME NEW t \in Stmts \ {s}, MayRun(t)', NEW sl \in prog'[t]
        PROVE  held'[sl] # None /\ Callback(sl)' = held'[sl]
    <3>1. MayRun(t)
      BY <1>5, <2>3 DEF MayRun, Running, Link, TypeOK
    <3>2. sl \in CallSlots /\ held[sl] # None /\ Callback(sl) = held[sl]
      BY <3>1, <2>3, <1>3 DEF LinkedHeld, TypeOK, CallSlots
    <3>3. QED
      BY <3>2, <1>5, <2>1, SlotsApart DEF Callback, CollEntry
  <2>4. ASSUME NEW sl \in prog'[s]
        PROVE  held'[sl] # None /\ Callback(sl)' = held'[sl]
    <3>1. CASE sl \in CollSlots
      <4>1. c \in Colls /\ sl = CollSlot(c) /\ sl[2] = c
        BY <3>1, <2>4, <1>2, <1>3, SlotsApart
      <4>2. held[sl] # None
        BY <4>1, <1>5, CollsAssumption
      <4>3. utf16 => copy'[c] = held[sl]
        BY <4>1, <2>1 DEF CopyFollowsOriginal
      <4>4. QED
        BY <3>1, <4>1, <4>2, <4>3, <1>5 DEF Callback, CollEntry
    <3>2. CASE sl \notin CollSlots
      BY <3>2, <2>4, <1>2, <1>3, <1>5 DEF Callback, CallSlots
    <3>3. QED
      BY <3>1, <3>2
  <2>5. QED
    BY <2>2, <2>3, <2>4 DEF LinkedHeld
<1>6. CASE /\ c # None
           /\ ReplaceableColl(c)
           /\ \E h \in Free : Store(CollSlot(c), h)
           /\ Link(s, ExpiredByColl(c), CopyDropped(c))
  <2> DEFINE x == CollSlot(c)
  <2>1. c \in Colls /\ x \in CollSlots /\ x \in CallSlots /\ x \in Slots
    BY <1>1, <1>6, SlotTypes DEF CallSlots
  <2>2. held'[x] \in Handles /\ \A sl \in Slots : sl # x => held'[sl] = held[sl]
    BY <2>1, <1>6 DEF Store, Free, OwnTyped
  <2>3. \A d \in Colls :
          copy'[d] = IF d = c THEN (IF utf16 THEN held'[x] ELSE None) ELSE copy[d]
    BY <1>6, <2>1 DEF Link, Synthesised, CopyDropped, TypeOK
  <2>4. CopyFollowsOriginal'
    <3>1. \A d \in Colls : d # c => CollSlot(d) # x /\ CollSlot(d) \in Slots
      BY <2>1, SlotsApart, SlotTypes
    <3>2. QED
      BY <2>2, <2>3, <3>1 DEF CopyFollowsOriginal
  <2>5. ASSUME NEW t \in Stmts \ {s}, MayRun(t)', NEW sl \in prog'[t]
        PROVE  held'[sl] # None /\ Callback(sl)' = held'[sl]
    <3>1. held[x] = None
      BY <1>6, <2>5 DEF MayRun, Running, VdbeActive, ReplaceableColl, ExpiredByColl,
         ExpirePreparedStatements, Link, TypeOK
    <3>2. MayRun(t)
      BY <1>6, <2>5, <3>1 DEF MayRun, Running, ExpiredByColl, Link, TypeOK
    <3>3. sl \in CallSlots /\ held[sl] # None /\ Callback(sl) = held[sl]
      BY <3>2, <2>5, <1>3 DEF LinkedHeld, TypeOK, CallSlots
    <3>4. sl \in Slots /\ sl # x
      BY <3>1, <3>3, SlotTypes DEF CallSlots
    <3>5. sl \in CollSlots => sl[2] \in Colls /\ sl[2] # c /\ CollSlot(sl[2]) = sl
      BY <3>4, SlotsApart
    <3>6. QED
      BY <3>3, <3>4, <3>5, <2>2, <2>3 DEF Callback, CollEntry
  <2>6. ASSUME NEW sl \in prog'[s]
        PROVE  held'[sl] # None /\ Callback(sl)' = held'[sl]
    <3>1. CASE sl \in CollSlots
      <4>1. sl = x /\ sl[2] = c
        BY <3>1, <2>1, <2>6, <1>2, <1>3, SlotsApart
      <4>2. QED
        BY <3>1, <4>1, <2>1, <2>2, <2>3, HandlesAssumption DEF Callback, CollEntry
    <3>2. CASE sl \notin CollSlots
      <4>1. held[sl] # None /\ sl # x /\ sl \in Slots
        BY <3>2, <2>1, <2>6, <1>2, <1>3, SlotTypes DEF CallSlots
      <4>2. QED
        BY <3>2, <4>1, <2>2 DEF Callback
    <3>3. QED
      BY <3>1, <3>2
  <2>7. QED
    BY <2>4, <2>5, <2>6 DEF LinkedHeld
<1>7. QED
  BY <1>5, <1>6 DEF Compile
-----------------------------------------------------------------------------
LEMMA RegisterLink ==
  ASSUME TypeOK, OwnTyped', LinkedHeld, CopyFollowsOriginal, Register
  PROVE  LinkedHeld' /\ CopyFollowsOriginal'
<1> USE DEF TypeOK
<1>1. ASSUME NEW f \in FuncSlots, DeleteFunction(f)
      PROVE  LinkedHeld' /\ CopyFollowsOriginal'
  <2>1. f \in CallSlots /\ \A c \in Colls : f # CollSlot(c)
    BY SlotsApart, SlotTypes DEF CallSlots
  <2>2. \A sl \in CallSlots : sl # f => held'[sl] = held[sl]
    BY <1>1, SlotTypes DEF DeleteFunction, Release, CallSlots
  <2>3. QED
    BY <1>1, <2>1, <2>2, ReplaceLink DEF DeleteFunction
<1>2. ASSUME NEW f \in FuncSlots, NEW h \in Handles, CreateFunction(f, h)
      PROVE  LinkedHeld' /\ CopyFollowsOriginal'
  <2>1. f \in CallSlots /\ \A c \in Colls : f # CollSlot(c)
    BY SlotsApart, SlotTypes DEF CallSlots
  <2>2. CASE UNCHANGED << held, expired >>
    BY <1>2, <2>2, QuietLink DEF CreateFunction, MayRun, Running
  <2>3. CASE /\ held[f] # None => ~VdbeActive
             /\ Store(f, h)
             /\ expired' = IF held[f] # None THEN ExpirePreparedStatements ELSE expired
    <3>1. \A sl \in CallSlots : sl # f => held'[sl] = held[sl]
      BY <2>3, SlotTypes DEF Store, CallSlots
    <3>2. QED
      BY <1>2, <2>1, <2>3, <3>1, ReplaceLink DEF CreateFunction
  <2>4. QED
    BY <1>2, <2>2, <2>3 DEF CreateFunction, Refuse
<1>3. ASSUME NEW c \in Colls, CollSlot(c) \in CallSlots, ReplaceableColl(c),
             copy' = CopyDropped(c), expired' = ExpiredByColl(c),
             UNCHANGED << st, prog, utf16 >>,
             \A sl \in CallSlots : sl # CollSlot(c) => held'[sl] = held[sl]
      PROVE  LinkedHeld' /\ CopyFollowsOriginal'
  <2>1. \A d \in Colls : copy'[d] = IF CollSlot(c) = CollSlot(d) THEN None ELSE copy[d]
    BY <1>3, SlotsApart DEF CopyDropped
  <2>2. QED
    BY <1>3, <2>1, ReplaceLink DEF ReplaceableColl, ExpiredByColl
<1>4. ASSUME NEW c \in Colls, DeleteCollation(c)
      PROVE  LinkedHeld' /\ CopyFollowsOriginal'
  <2>1. \A sl \in CallSlots : sl # CollSlot(c) => held'[sl] = held[sl]
    BY <1>4, SlotTypes DEF DeleteCollation, Release, CallSlots
  <2>2. QED
    BY <1>4, <2>1, <1>3, SlotTypes DEF DeleteCollation, CallSlots
<1>5. ASSUME NEW c \in Colls, NEW h \in Handles, CreateCollation(c, h)
      PROVE  LinkedHeld' /\ CopyFollowsOriginal'
  <2>1. CASE UNCHANGED << held, copy, expired >>
    BY <1>5, <2>1, QuietLink DEF CreateCollation, MayRun, Running
  <2>2. CASE /\ ReplaceableColl(c)
             /\ Store(CollSlot(c), h)
             /\ copy' = CopyDropped(c)
             /\ expired' = ExpiredByColl(c)
    <3>1. \A sl \in CallSlots : sl # CollSlot(c) => held'[sl] = held[sl]
      BY <2>2, SlotTypes DEF Store, CallSlots
    <3>2. QED
      BY <1>5, <2>2, <3>1, <1>3, SlotTypes DEF CreateCollation, CallSlots
  <2>3. QED
    BY <1>5, <2>1, <2>2 DEF CreateCollation, Refuse
<1>6. ASSUME AutovacuumOff \/ \E h \in Handles : AutovacuumPages(h)
      PROVE  LinkedHeld' /\ CopyFollowsOriginal'
  <2>1. \A sl \in CallSlots : held'[sl] = held[sl]
    BY <1>6, SlotTypes, SlotsApart
       DEF AutovacuumOff, AutovacuumPages, Release, Store, Refuse, CallSlots
  <2>2. QED
    BY <1>6, <2>1, QuietLink DEF AutovacuumOff, AutovacuumPages, stmtVars, MayRun, Running
<1>7. ASSUME SetAuthorizer
      PROVE  LinkedHeld' /\ CopyFollowsOriginal'
  <2>1. \A s \in Stmts : MayRun(s)' => MayRun(s)
    BY <1>7 DEF SetAuthorizer, MayRun, Running, ExpirePreparedStatements
  <2>2. QED
    BY <1>7, <2>1, QuietLink DEF SetAuthorizer
<1>8. QED
  BY <1>1, <1>2, <1>4, <1>5, <1>6, <1>7 DEF Register

LEMMA CloseZombieLink ==
  ASSUME TypeOK, LinkedHeld, CopyFollowsOriginal,
         NEW z, NEW R \in SUBSET Slots, R \cap CallSlots = {},
         LeaveMutexAndCloseZombie(z, R), UNCHANGED utf16,
         \A s \in Stmts : MayRun(s)' => MayRun(s) /\ prog'[s] = prog[s]
  PROVE  LinkedHeld' /\ CopyFollowsOriginal'
<1>1. CASE z = "zombie" /\ ~connectionIsBusy'
  BY <1>1, IdleLink DEF LeaveMutexAndCloseZombie, connectionIsBusy
<1>2. CASE ~(z = "zombie" /\ ~connectionIsBusy')
  <2>1. \A sl \in CallSlots : held'[sl] = held[sl]
    BY <1>2, SlotTypes DEF LeaveMutexAndCloseZombie, Release, CallSlots
  <2>2. QED
    BY <1>2, <2>1, QuietLink DEF LeaveMutexAndCloseZombie
<1>3. QED
  BY <1>1, <1>2

LEMMA StatementLink ==
  ASSUME TypeOK, OwnTyped, OwnTyped', LinkedHeld, CopyFollowsOriginal,
         NEW s \in Stmts, UseStatement(s) \/ RunFunction(s)
  PROVE  LinkedHeld' /\ CopyFollowsOriginal'
<1> USE DEF TypeOK
<1>1. CASE Prepare(s)
  BY <1>1, CompileLink DEF Prepare
<1>2. CASE Step(s)
  <2>1. CASE expired[s]
    BY <1>2, <2>1, CompileLink DEF Step
  <2>2. CASE ~expired[s]
    <3>1. \A t \in Stmts : MayRun(t)' => MayRun(t)
      BY <1>2, <2>2 DEF Step, MayRun, Running
    <3>2. QED
      BY <1>2, <2>2, <3>1, QuietLink DEF Step
  <2>3. QED
    BY <2>1, <2>2
<1>3. CASE VdbeHalt(s) \/ Reset(s) \/ ClearBindings(s) \/ CallFunction(s)
           \/ Return(s) \/ ResultOther(s)
  <2>1. \A sl \in CallSlots : held'[sl] = held[sl]
    <3>1. ASSUME NEW R, Release(R), R \cap CallSlots = {}
          PROVE  \A sl \in CallSlots : held'[sl] = held[sl]
      BY <3>1, SlotTypes DEF Release, CallSlots
    <3>2. CASE VdbeHalt(s) \/ Reset(s)
      BY <3>1, <3>2, SlotsApart DEF VdbeHalt, Reset
    <3>3. CASE ClearBindings(s) \/ CallFunction(s)
      BY <3>1, <3>3, SlotsApart DEF ClearBindings, CallFunction
    <3>4. CASE Return(s) \/ ResultOther(s)
      BY <3>1, <3>4, SlotsApart DEF Return, ResultOther
    <3>5. QED
      BY <1>3, <3>2, <3>3, <3>4
  <2>2. \A t \in Stmts : MayRun(t)' => MayRun(t)
    BY <1>3 DEF VdbeHalt, Reset, ClearBindings, CallFunction, Return, ResultOther,
                stmtVars, MayRun, Running
  <2>3. QED
    BY <1>3, <2>1, <2>2, QuietLink
       DEF VdbeHalt, Reset, ClearBindings, CallFunction, Return, ResultOther, stmtVars
<1>4. CASE Finalize(s)
  <2>1. (ScratchSlots(s) \cup BoundSlots(s)) \cap CallSlots = {}
    BY SlotsApart
  <2>2. \A t \in Stmts : MayRun(t)' => MayRun(t) /\ prog'[t] = prog[t]
    BY <1>4 DEF Finalize, MayRun, Running
  <2>3. QED
    BY <1>4, <2>1, <2>2, SlotTypes, CloseZombieLink DEF Finalize
<1>5. ASSUME \/ \E i \in Vars, h \in Handles : BindPointer(s, i, h)
             \/ \E h \in Handles : ResultPointer(s, h)
             \/ \E a \in AuxArgs, h \in Handles : SetAuxdata(s, a, h)
      PROVE  LinkedHeld' /\ CopyFollowsOriginal'
  <2>1. \A sl \in CallSlots : held'[sl] = held[sl]
    <3>1. ASSUME NEW x, NEW h, Store(x, h), x \notin CallSlots
          PROVE  \A sl \in CallSlots : held'[sl] = held[sl]
      BY <3>1, SlotTypes DEF Store, CallSlots
    <3>2. ASSUME NEW i \in Vars, NEW h \in Handles, BindPointer(s, i, h)
          PROVE  \A sl \in CallSlots : held'[sl] = held[sl]
      BY <3>1, <3>2, SlotsApart DEF BindPointer, Refuse
    <3>3. ASSUME NEW h \in Handles, ResultPointer(s, h)
          PROVE  \A sl \in CallSlots : held'[sl] = held[sl]
      BY <3>1, <3>3, SlotsApart DEF ResultPointer
    <3>4. ASSUME NEW a \in AuxArgs, NEW h \in Handles, SetAuxdata(s, a, h)
          PROVE  \A sl \in CallSlots : held'[sl] = held[sl]
      BY <3>1, <3>4, SlotsApart DEF SetAuxdata, Refuse
    <3>5. QED
      BY <1>5, <3>2, <3>3, <3>4
  <2>2. \A t \in Stmts : MayRun(t)' => MayRun(t)
    BY <1>5 DEF BindPointer, ResultPointer, SetAuxdata, stmtVars, MayRun, Running
  <2>3. QED
    BY <1>5, <2>1, <2>2, QuietLink DEF BindPointer, ResultPointer, SetAuxdata, stmtVars
<1>6. QED
  BY <1>1, <1>2, <1>3, <1>4, <1>5 DEF UseStatement, RunFunction

LEMMA ClosedIdleStep ==
  ASSUME TypeOK, ClosedIdle, [Next]_vars
  PROVE  ClosedIdle'
<1> USE DEF ClosedIdle, connectionIsBusy
<1>1. ASSUME NEW s \in Stmts, UseStatement(s) \/ RunFunction(s), ~Finalize(s)
      PROVE  conn' = conn /\ UNCHANGED backup /\ (conn = "closed" => UNCHANGED st)
  BY <1>1 DEF TypeOK, UseStatement, RunFunction, Prepare, Step, Compile, VdbeHalt, Reset,
     ClearBindings, BindPointer, CallFunction, Return, ResultOther, ResultPointer,
     SetAuxdata, stmtVars
<1>2. CASE \E s \in Stmts : Finalize(s)
  BY <1>2 DEF Finalize, LeaveMutexAndCloseZombie
<1>3. CASE BackupFinish
  BY <1>3 DEF BackupFinish, LeaveMutexAndCloseZombie, stmtVars
<1>4. ASSUME NEW v2 \in BOOLEAN, Close(v2) PROVE ClosedIdle'
  BY <1>4 DEF Close, LeaveMutexAndCloseZombie, stmtVars
<1>5. CASE Open
  BY <1>5 DEF Open
<1>6. CASE BackupInit
  BY <1>6 DEF BackupInit
<1>7. CASE Register
  BY <1>7 DEF Register, DeleteFunction, CreateFunction, DeleteCollation, CreateCollation,
     AutovacuumOff, AutovacuumPages, SetAuthorizer, stmtVars
<1>8. CASE UNCHANGED vars
  BY <1>8 DEF vars
<1>9. QED
  BY <1>1, <1>2, <1>3, <1>4, <1>5, <1>6, <1>7, <1>8 DEF Next

LEMMA LinkStep ==
  ASSUME TypeOK, OwnTyped, OwnTyped', LinkInv, [Next]_vars
  PROVE  LinkInv'
<1> USE DEF LinkInv
<1>1. ClosedIdle'
  BY ClosedIdleStep
<1>2. CASE Open
  <2>1. \A s \in Stmts : ~MayRun(s)'
    BY <1>2 DEF Open, ClosedIdle, connectionIsBusy, stmtVars, MayRun, Running
  <2>2. QED
    BY <1>1, <1>2, <2>1 DEF Open, LinkedHeld, CopyFollowsOriginal
<1>3. CASE BackupInit
  BY <1>1, <1>3, QuietLink DEF BackupInit, stmtVars, MayRun, Running
<1>4. ASSUME NEW z, LeaveMutexAndCloseZombie(z, {}), UNCHANGED << utf16, stmtVars >>
      PROVE  LinkedHeld' /\ CopyFollowsOriginal'
  BY <1>4, CloseZombieLink DEF stmtVars, MayRun, Running
<1>5. CASE BackupFinish
  BY <1>1, <1>4, <1>5 DEF BackupFinish
<1>6. ASSUME NEW v2 \in BOOLEAN, Close(v2) PROVE LinkInv'
  BY <1>1, <1>4, <1>6 DEF Close
<1>7. CASE Register
  BY <1>1, <1>7, RegisterLink
<1>8. ASSUME NEW s \in Stmts, UseStatement(s) \/ RunFunction(s) PROVE LinkInv'
  BY <1>1, <1>8, StatementLink
<1>9. CASE UNCHANGED vars
  BY <1>1, <1>9, QuietLink DEF vars, MayRun, Running
<1>10. QED
  BY <1>2, <1>3, <1>5, <1>6, <1>7, <1>8, <1>9 DEF Next

AppInv == TypeOK /\ OwnInv /\ LinkInv

LEMMA AppInvariant == Spec => []AppInv
<1>1. Init => AppInv
  <2>1. ASSUME Init PROVE LinkInv
    BY <2>1 DEF Init, LinkInv, LinkedHeld, MayRun, Running, CopyFollowsOriginal, ClosedIdle,
       connectionIsBusy
  <2>2. QED
    BY <2>1, InitOwn, InitType DEF AppInv
<1>2. AppInv /\ [Next]_vars => AppInv'
  BY NextOwn, TypeStep, LinkStep DEF AppInv, OwnInv
<1>3. QED
  BY <1>1, <1>2, PTL DEF Spec

(* A statement that runs, or may run without being prepared again, calls   *)
(* only functions and collations that are registered and whose Go values   *)
(* are live.                                                               *)
THEOREM CallbacksLive == Spec => []LinkedCallbacksLive
<1>1. AppInv => LinkedCallbacksLive
  <2> SUFFICES ASSUME AppInv, NEW s \in Stmts, MayRun(s), NEW sl \in prog[s]
               PROVE  Callback(sl) \in Handles /\ hs[Callback(sl)] = "live"
    BY DEF LinkedCallbacksLive
  <2>1. sl \in Slots
    BY SlotTypes DEF AppInv, TypeOK
  <2>2. held[sl] # None /\ Callback(sl) = held[sl] /\ held[sl] \in Handles \cup {None}
    BY <2>1 DEF AppInv, LinkInv, LinkedHeld, TypeOK
  <2>3. QED
    BY <2>1, <2>2 DEF AppInv, OwnInv, OneOwner, HeldIffLive
<1>2. QED
  BY <1>1, AppInvariant, PTL

(* A synthesised collation never outlives the one it copies.               *)
THEOREM CopiesFollow == Spec => []CopyFollowsOriginal
<1>1. AppInv => CopyFollowsOriginal
  BY DEF AppInv, LinkInv
<1>2. QED
  BY <1>1, AppInvariant, PTL
-----------------------------------------------------------------------------
(* What a statement or the connection holds ends with it.                  *)

(* A statement keeps auxiliary data and results while it runs, and         *)
(* bindings until it is finalized.                                         *)
HoldsWhatItMay(s) ==
  /\ ~Running(s) => \A sl \in ScratchSlots(s) : held[sl] = None
  /\ st[s] # "call" => \A a \in AuxArgs \ ConstArgs : held[AuxSlot(s, a)] = None
  /\ st[s] = "none" => \A sl \in BoundSlots(s) : held[sl] = None

ScratchInv == \A s \in Stmts : HoldsWhatItMay(s)

ConnInv ==
  /\ ZombieInUse
  /\ conn = "closed" => \A sl \in ConnSlots : held[sl] = None

(* The slots of one statement are neither another's nor the connection's.  *)
LEMMA StmtSlotsApart ==
  ASSUME NEW s \in Stmts
  PROVE  /\ (ScratchSlots(s) \cup BoundSlots(s)) \cap ConnSlots = {}
         /\ ScratchSlots(s) \cap BoundSlots(s) = {}
         /\ \A t \in Stmts \ {s} :
              (ScratchSlots(s) \cup BoundSlots(s)) \cap (ScratchSlots(t) \cup BoundSlots(t)) = {}
         /\ \A i \in Vars : VarSlot(s, i) \in BoundSlots(s)
         /\ \A a \in AuxArgs : AuxSlot(s, a) \in ScratchSlots(s)
         /\ ResultSlot(s) \in ScratchSlots(s)
  BY DEF ScratchSlots, BoundSlots, AuxSlot, ResultSlot, VarSlot, ConnSlots, FuncSlots,
         CollSlots, Autovacuum

LEMMA ReleaseEmpties ==
  ASSUME NEW R, Release(R), NEW sl \in Slots
  PROVE  held'[sl] = IF sl \in R THEN None ELSE held[sl]
  BY DEF Release

LEMMA StoreFills ==
  ASSUME TypeOK, NEW x, NEW h, Store(x, h), NEW sl \in Slots, sl # x
  PROVE  held'[sl] = held[sl]
  BY DEF Store, TypeOK

LEMMA CloseZombieEmpties ==
  ASSUME NEW z, NEW R, LeaveMutexAndCloseZombie(z, R), NEW sl \in Slots
  PROVE  /\ held'[sl] # None => held[sl] # None /\ sl \notin R
         /\ conn' = "closed" /\ z # "closed" /\ sl \in ConnSlots => held'[sl] = None
         /\ conn' \in {z, "closed"}
  BY ReleaseEmpties DEF LeaveMutexAndCloseZombie

(* A call that concerns one statement, or none, leaves the others alone.   *)
LEMMA OneStmtScratch ==
  ASSUME ScratchInv, NEW s \in Stmts, HoldsWhatItMay(s)',
         \A t \in Stmts \ {s} : st'[t] = st[t],
         \A sl \in Slots \ (ConnSlots \cup ScratchSlots(s) \cup BoundSlots(s)) :
           held'[sl] # None => held[sl] # None
  PROVE  ScratchInv'
<1> SUFFICES ASSUME NEW t \in Stmts \ {s} PROVE HoldsWhatItMay(t)'
  BY DEF ScratchInv
<1>1. \A sl \in ScratchSlots(t) \cup BoundSlots(t) : held'[sl] # None => held[sl] # None
  BY StmtSlotsApart, SlotTypes
<1>2. QED
  BY <1>1, StmtSlotsApart DEF ScratchInv, HoldsWhatItMay, Running

LEMMA NoStmtScratch ==
  ASSUME ScratchInv, UNCHANGED st,
         \A sl \in Slots \ ConnSlots : held'[sl] # None => held[sl] # None
  PROVE  ScratchInv'
<1> SUFFICES ASSUME NEW t \in Stmts PROVE HoldsWhatItMay(t)'
  BY DEF ScratchInv
<1>1. \A sl \in ScratchSlots(t) \cup BoundSlots(t) : held'[sl] # None => held[sl] # None
  BY StmtSlotsApart, SlotTypes
<1>2. QED
  BY <1>1, StmtSlotsApart DEF ScratchInv, HoldsWhatItMay, Running

(* Compiling stores at most the handle of a collation.                     *)
LEMMA CompileFills ==
  ASSUME TypeOK, NEW s \in Stmts, Compile(s), NEW sl \in Slots \ ConnSlots
  PROVE  held'[sl] = held[sl]
<1> DEFINE c == Sql[s].coll
<1>1. CASE UNCHANGED << held, hs >>
  BY <1>1
<1>2. CASE c # None /\ \E h \in Free : Store(CollSlot(c), h)
  <2>1. CollSlot(c) \in ConnSlots
    BY <1>2, SqlAssumption, SlotTypes DEF ConnSlots
  <2>2. QED
    BY <1>2, <2>1, StoreFills
<1>3. QED
  BY <1>1, <1>2 DEF Compile

LEMMA RegisterScratch ==
  ASSUME TypeOK, ScratchInv, Register
  PROVE  ScratchInv'
<1>1. FuncSlots \subseteq ConnSlots /\ (\A c \in Colls : CollSlot(c) \in ConnSlots)
      /\ Autovacuum \in ConnSlots
  BY SlotTypes DEF ConnSlots
<1>2. UNCHANGED st
  BY DEF Register, DeleteFunction, CreateFunction, DeleteCollation, CreateCollation,
     AutovacuumOff, AutovacuumPages, SetAuthorizer, stmtVars
<1>3. ASSUME NEW x \in ConnSlots, NEW h, Release({x}) \/ Store(x, h) \/ UNCHANGED held
      PROVE  ScratchInv'
  BY <1>2, <1>3, ReleaseEmpties, StoreFills, NoStmtScratch
<1>4. ASSUME NEW f \in FuncSlots, DeleteFunction(f) PROVE ScratchInv'
  BY <1>1, <1>3, <1>4 DEF DeleteFunction
<1>5. ASSUME NEW f \in FuncSlots, NEW h \in Handles, CreateFunction(f, h) PROVE ScratchInv'
  BY <1>1, <1>3, <1>5 DEF CreateFunction, Refuse
<1>6. ASSUME NEW c \in Colls, DeleteCollation(c) PROVE ScratchInv'
  BY <1>1, <1>3, <1>6 DEF DeleteCollation
<1>7. ASSUME NEW c \in Colls, NEW h \in Handles, CreateCollation(c, h) PROVE ScratchInv'
  BY <1>1, <1>3, <1>7 DEF CreateCollation, Refuse
<1>8. ASSUME AutovacuumOff PROVE ScratchInv'
  BY <1>1, <1>3, <1>8 DEF AutovacuumOff
<1>9. ASSUME NEW h \in Handles, AutovacuumPages(h) PROVE ScratchInv'
  BY <1>1, <1>3, <1>9 DEF AutovacuumPages, Refuse
<1>10. ASSUME SetAuthorizer PROVE ScratchInv'
  BY <1>1, <1>3, <1>10 DEF SetAuthorizer
<1>11. QED
  BY <1>4, <1>5, <1>6, <1>7, <1>8, <1>9, <1>10 DEF Register

LEMMA StatementScratch ==
  ASSUME TypeOK, ScratchInv, NEW s \in Stmts, UseStatement(s) \/ RunFunction(s)
  PROVE  ScratchInv'
<1> USE DEF TypeOK
<1> DEFINE Mine == ConnSlots \cup ScratchSlots(s) \cup BoundSlots(s)
           Quiet == \A sl \in Slots \ Mine : held'[sl] # None => held[sl] # None
<1>1. /\ HoldsWhatItMay(s)
      /\ ScratchSlots(s) \subseteq Slots \ ConnSlots
      /\ BoundSlots(s) \subseteq Slots \ ConnSlots
      /\ \A a \in AuxArgs : AuxSlot(s, a) \in ScratchSlots(s)
  BY SlotTypes, StmtSlotsApart DEF ScratchInv
<1>2. ASSUME \A t \in Stmts \ {s} : st'[t] = st[t], Quiet, HoldsWhatItMay(s)'
      PROVE  ScratchInv'
  BY <1>2, OneStmtScratch
<1>3. ASSUME Prepare(s) \/ Step(s) PROVE ScratchInv'
  <2>1. \A sl \in Slots \ ConnSlots : held'[sl] = held[sl]
    BY <1>3, CompileFills DEF Prepare, Step
  <2>2. /\ \A t \in Stmts \ {s} : st'[t] = st[t]
        /\ st'[s] \in {"ready", "run"} /\ st[s] \in {"none", "ready", "halt"}
        /\ st'[s] = "ready" => ~Running(s)
    BY <1>3 DEF Prepare, Step, Running
  <2>3. HoldsWhatItMay(s)'
    BY <1>1, <2>1, <2>2 DEF HoldsWhatItMay, Running
  <2>4. QED
    BY <1>2, <2>1, <2>2, <2>3
<1>4. ASSUME VdbeHalt(s) \/ Reset(s) PROVE ScratchInv'
  <2>1. \A sl \in ScratchSlots(s) : held'[sl] = None
    BY <1>1, <1>4, ReleaseEmpties DEF VdbeHalt, Reset, HoldsWhatItMay, Running
  <2>2. Quiet /\ (\A t \in Stmts \ {s} : st'[t] = st[t]) /\ st'[s] # "none"
    BY <1>4, ReleaseEmpties DEF VdbeHalt, Reset
  <2>3. HoldsWhatItMay(s)'
    BY <1>1, <2>1, <2>2 DEF HoldsWhatItMay
  <2>4. QED
    BY <1>2, <2>2, <2>3
<1>5. ASSUME ClearBindings(s) \/ ResultOther(s) PROVE ScratchInv'
  BY <1>5, ReleaseEmpties, NoStmtScratch DEF ClearBindings, ResultOther, stmtVars
<1>6. ASSUME Finalize(s) PROVE ScratchInv'
  <2>1. \A sl \in Slots : held'[sl] # None
                          => held[sl] # None /\ sl \notin ScratchSlots(s) \cup BoundSlots(s)
    BY <1>6, CloseZombieEmpties DEF Finalize
  <2>2. HoldsWhatItMay(s)'
    BY <1>1, <2>1 DEF HoldsWhatItMay
  <2>3. QED
    BY <1>2, <1>6, <2>1, <2>2 DEF Finalize
<1>7. ASSUME NEW i \in Vars, NEW h \in Handles, BindPointer(s, i, h) PROVE ScratchInv'
  <2>1. CASE Refuse(h)
    BY <1>7, <2>1, NoStmtScratch DEF BindPointer, Refuse
  <2>2. CASE st[s] = "ready" /\ Store(VarSlot(s, i), h)
    <3>1. \A sl \in Slots \ BoundSlots(s) : held'[sl] = held[sl]
      BY <2>2, StoreFills, StmtSlotsApart
    <3>2. HoldsWhatItMay(s)'
      BY <1>1, <1>7, <2>2, <3>1, StmtSlotsApart DEF HoldsWhatItMay, Running, BindPointer
    <3>3. QED
      BY <1>2, <1>7, <3>1, <3>2 DEF BindPointer
  <2>3. QED
    BY <1>7, <2>1, <2>2 DEF BindPointer
<1>8. ASSUME CallFunction(s) PROVE ScratchInv'
  <2>1. HoldsWhatItMay(s)'
    BY <1>1, <1>8 DEF CallFunction, HoldsWhatItMay, Running
  <2>2. QED
    BY <1>2, <1>8, <2>1 DEF CallFunction
<1>9. ASSUME Return(s) PROVE ScratchInv'
  <2>1. Quiet /\ \A a \in AuxArgs \ ConstArgs : held'[AuxSlot(s, a)] = None
    BY <1>1, <1>9, ReleaseEmpties DEF Return
  <2>2. st' = [st EXCEPT ![s] = "run"]
    BY <1>9 DEF Return
  <2>3. HoldsWhatItMay(s)'
    BY <2>1, <2>2 DEF HoldsWhatItMay, Running
  <2>4. QED
    BY <1>2, <2>1, <2>2, <2>3
<1>10. ASSUME st[s] = "call", UNCHANGED st, NEW x \in ScratchSlots(s), NEW h,
              Store(x, h) \/ Refuse(h)
       PROVE  ScratchInv'
  <2>1. Quiet
    BY <1>10, StoreFills DEF Refuse
  <2>2. HoldsWhatItMay(s)'
    BY <1>10 DEF HoldsWhatItMay, Running
  <2>3. QED
    BY <1>2, <1>10, <2>1, <2>2
<1>11. ASSUME NEW h \in Handles, ResultPointer(s, h) PROVE ScratchInv'
  BY <1>10, <1>11, StmtSlotsApart DEF ResultPointer, stmtVars
<1>12. ASSUME NEW a \in AuxArgs, NEW h \in Handles, SetAuxdata(s, a, h) PROVE ScratchInv'
  BY <1>10, <1>12, StmtSlotsApart DEF SetAuxdata, stmtVars
<1>13. QED
  BY <1>3, <1>4, <1>5, <1>6, <1>7, <1>8, <1>9, <1>11, <1>12 DEF UseStatement, RunFunction

LEMMA ScratchStep ==
  ASSUME TypeOK, ScratchInv, [Next]_vars
  PROVE  ScratchInv'
<1>1. CASE Open \/ BackupInit \/ UNCHANGED vars
  BY <1>1, NoStmtScratch DEF Open, BackupInit, vars, stmtVars
<1>2. CASE BackupFinish \/ \E v2 \in BOOLEAN : Close(v2)
  BY <1>2, NoStmtScratch, CloseZombieEmpties DEF BackupFinish, Close, stmtVars
<1>3. QED
  BY <1>1, <1>2, RegisterScratch, StatementScratch DEF Next
-----------------------------------------------------------------------------
(* A connection that is closed holds nothing; a zombie is in use.          *)

LEMMA ConnStep ==
  ASSUME TypeOK, ClosedIdle, ConnInv, [Next]_vars
  PROVE  ConnInv'
<1> USE DEF TypeOK, ConnInv
<1>1. ASSUME NEW z, NEW R, z # "closed" \/ conn = "closed",
             LeaveMutexAndCloseZombie(z, R)
      PROVE  ConnInv'
  <2>1. ZombieInUse'
    BY <1>1 DEF LeaveMutexAndCloseZombie, ZombieInUse
  <2>2. ASSUME conn' = "closed", NEW sl \in ConnSlots PROVE held'[sl] = None
    BY <1>1, <2>2, CloseZombieEmpties DEF Slots
  <2>3. QED
    BY <2>1, <2>2
<1>2. CASE Open
  BY <1>2 DEF Open, ZombieInUse
<1>3. CASE BackupInit
  BY <1>3 DEF BackupInit, ZombieInUse
<1>4. CASE BackupFinish
  BY <1>1, <1>4 DEF BackupFinish
<1>5. ASSUME NEW v2 \in BOOLEAN, Close(v2) PROVE ConnInv'
  BY <1>1, <1>5 DEF Close
<1>6. CASE Register
  <2>1. UNCHANGED << conn, st, backup >> /\ (conn = "closed" => UNCHANGED held)
    BY <1>6 DEF Register, DeleteFunction, CreateFunction, DeleteCollation,
       CreateCollation, AutovacuumOff, AutovacuumPages, SetAuthorizer, stmtVars
  <2>2. QED
    BY <2>1 DEF ZombieInUse, connectionIsBusy
<1>7. ASSUME NEW s \in Stmts, UseStatement(s), ~Finalize(s) PROVE ConnInv'
  <2>1. /\ UNCHANGED << conn, backup >>
        /\ \A t \in Stmts : st[t] # "none" => st'[t] # "none"
        /\ st[s] # "none" \/ conn = "open"
    BY <1>7 DEF UseStatement, Prepare, Step, VdbeHalt, Reset, ClearBindings, BindPointer,
       Compile
  <2>2. conn # "closed"
    BY <2>1 DEF ClosedIdle, connectionIsBusy
  <2>3. QED
    BY <2>1, <2>2 DEF ZombieInUse, connectionIsBusy
<1>8. ASSUME NEW s \in Stmts, RunFunction(s) PROVE ConnInv'
  <2>1. /\ UNCHANGED << conn, backup >>
        /\ \A t \in Stmts : st[t] # "none" => st'[t] # "none"
        /\ st[s] # "none"
    BY <1>8 DEF RunFunction, CallFunction, Return, ResultOther, ResultPointer, SetAuxdata,
       stmtVars
  <2>2. QED
    BY <2>1 DEF ZombieInUse, ClosedIdle, connectionIsBusy
<1>9. ASSUME NEW s \in Stmts, Finalize(s) PROVE ConnInv'
  <2>1. conn # "closed"
    BY <1>9 DEF Finalize, ClosedIdle, connectionIsBusy
  <2>2. QED
    BY <1>1, <1>9, <2>1 DEF Finalize
<1>10. CASE UNCHANGED vars
  BY <1>10 DEF vars, ZombieInUse, connectionIsBusy
<1>11. QED
  BY <1>2, <1>3, <1>4, <1>5, <1>6, <1>7, <1>8, <1>9, <1>10 DEF Next

LEMMA HoldInvariant == Spec => [](AppInv /\ ScratchInv /\ ConnInv)
<1>1. Init => ScratchInv /\ ConnInv
  BY SlotTypes DEF Init, ScratchInv, HoldsWhatItMay, ConnInv, ZombieInUse, ConnSlots, Slots
<1>2. AppInv /\ ScratchInv /\ ConnInv /\ [Next]_vars => ScratchInv' /\ ConnInv'
  BY ScratchStep, ConnStep DEF AppInv, LinkInv
<1>3. QED
  BY <1>1, <1>2, AppInvariant, PTL DEF Spec

(* Auxiliary data and pointer results are destroyed when the run that made *)
(* them ends, however it ends.                                             *)
THEOREM ScratchIsReleased == Spec => []ScratchEndsWithRun
<1>1. ScratchInv => ScratchEndsWithRun
  BY DEF ScratchInv, HoldsWhatItMay, ScratchEndsWithRun
<1>2. QED
  BY <1>1, HoldInvariant, PTL

(* A connection closed while in use is freed by its last user.             *)
THEOREM ZombiesAreFreed == Spec => []ZombieInUse
<1>1. ConnInv => ZombieInUse
  BY DEF ConnInv
<1>2. QED
  BY <1>1, HoldInvariant, PTL

(* A closed connection has given back every handle that it, or one of its  *)
(* statements, accepted.                                                   *)
THEOREM ClosingReleases == Spec => []ClosedHoldsNothing
<1>1. ASSUME ClosedIdle, ScratchInv, ConnInv PROVE ClosedHoldsNothing
  <2> SUFFICES ASSUME conn = "closed", NEW sl \in Slots PROVE held[sl] = None
    BY <1>1 DEF ClosedHoldsNothing, ClosedIdle
  <2>1. \A s \in Stmts : st[s] = "none"
    BY <1>1 DEF ClosedIdle, connectionIsBusy
  <2>2. \/ sl \in ConnSlots
        \/ \E s \in Stmts : sl \in ScratchSlots(s) \cup BoundSlots(s)
    BY DEF Slots, VarSlots, AuxSlots, ResultSlots, ScratchSlots, BoundSlots, VarSlot,
       AuxSlot, ResultSlot
  <2>3. QED
    BY <1>1, <2>1, <2>2 DEF ConnInv, ScratchInv, HoldsWhatItMay, Running
<1>2. QED
  BY <1>1, HoldInvariant, PTL DEF AppInv, LinkInv

-----------------------------------------------------------------------------
(* What a running statement calls stays the same.                          *)

LEMMA RunningKeeps ==
  ASSUME AppInv, AppInv', [Next]_vars, NEW s \in Stmts, Running(s), Running(s)'
  PROVE  /\ prog'[s] = prog[s]
         /\ \A sl \in prog[s] : held'[sl] = held[sl]
<1>1. /\ prog[s] \subseteq CallSlots
      /\ \A sl \in prog[s] : sl \in Slots /\ held[sl] # None
  BY SlotTypes DEF AppInv, TypeOK, LinkInv, LinkedHeld, MayRun, CallSlots
<1>2. VdbeActive /\ connectionIsBusy'
  BY DEF VdbeActive, connectionIsBusy, Running
<1>3. CASE UNCHANGED << prog, held >>
  BY <1>3
<1>4. ASSUME NEW x \in Slots, NEW h, held[x] = None \/ x \notin CallSlots,
             Store(x, h) \/ Refuse(h) \/ UNCHANGED held
      PROVE  \A sl \in prog[s] : held'[sl] = held[sl]
  BY <1>1, <1>4, StoreFills DEF AppInv, Refuse
<1>5. ASSUME NEW R, R \cap CallSlots = {}, Release(R)
      PROVE  \A sl \in prog[s] : held'[sl] = held[sl]
  BY <1>1, <1>5, ReleaseEmpties
<1>6. CASE Register
  <2>1. UNCHANGED prog
    BY <1>6 DEF Register, DeleteFunction, CreateFunction, DeleteCollation,
       CreateCollation, AutovacuumOff, AutovacuumPages, SetAuthorizer, stmtVars
  <2>2. ASSUME NEW f \in FuncSlots, NEW h \in Handles, CreateFunction(f, h)
        PROVE  \A sl \in prog[s] : held'[sl] = held[sl]
    <3>1. f \in Slots
      BY SlotTypes
    <3>2. (held[f] = None /\ Store(f, h)) \/ Refuse(h) \/ UNCHANGED held
      BY <1>2, <2>2 DEF CreateFunction
    <3>3. QED
      BY <1>4, <3>1, <3>2 DEF Refuse
  <2>3. ASSUME NEW c \in Colls, NEW h \in Handles, CreateCollation(c, h)
        PROVE  \A sl \in prog[s] : held'[sl] = held[sl]
    <3>1. CollSlot(c) \in Slots
      BY SlotTypes
    <3>2. (held[CollSlot(c)] = None /\ Store(CollSlot(c), h)) \/ Refuse(h)
      BY <1>2, <2>3 DEF CreateCollation, ReplaceableColl
    <3>3. QED
      BY <1>4, <3>1, <3>2 DEF Refuse
  <2>4. ASSUME NEW h \in Handles, AutovacuumPages(h)
        PROVE  \A sl \in prog[s] : held'[sl] = held[sl]
    BY <1>4, <2>4, SlotTypes, SlotsApart DEF AutovacuumPages
  <2>5. ASSUME AutovacuumOff
        PROVE  \A sl \in prog[s] : held'[sl] = held[sl]
    BY <1>5, <2>5, SlotsApart DEF AutovacuumOff
  <2>6. QED
    BY <1>2, <1>6, <2>1, <2>2, <2>3, <2>4, <2>5 DEF Register, DeleteFunction,
       DeleteCollation, ReplaceableColl, SetAuthorizer
<1>7. ASSUME NEW z, NEW R, R \cap CallSlots = {}, LeaveMutexAndCloseZombie(z, R)
      PROVE  \A sl \in prog[s] : held'[sl] = held[sl]
  BY <1>2, <1>5, <1>7 DEF LeaveMutexAndCloseZombie
<1>8. CASE BackupFinish \/ \E v2 \in BOOLEAN : Close(v2)
  BY <1>7, <1>8 DEF BackupFinish, Close, stmtVars
<1>9. ASSUME NEW t \in Stmts, Prepare(t) \/ Step(t)
      PROVE  /\ prog'[s] = prog[s]
             /\ \A sl \in prog[s] : held'[sl] = held[sl]
  <2>1. t # s
    BY <1>9 DEF Prepare, Step, Running
  <2>2. CASE UNCHANGED << prog, held >>
    BY <2>2
  <2>3. CASE Compile(t)
    <3>1. prog'[s] = prog[s]
      BY <2>1, <2>3 DEF Compile, Link, AppInv, TypeOK
    <3>2. CASE UNCHANGED held
      BY <3>1, <3>2
    <3>3. CASE \E h \in Free : /\ Sql[t].coll # None
                               /\ ReplaceableColl(Sql[t].coll)
                               /\ Store(CollSlot(Sql[t].coll), h)
      <4>1. Sql[t].coll \in Colls
        BY <3>3, SqlAssumption
      <4>2. CollSlot(Sql[t].coll) \in Slots /\ held[CollSlot(Sql[t].coll)] = None
        BY <1>2, <3>3, <4>1, SlotTypes DEF ReplaceableColl
      <4>3. QED
        BY <1>1, <3>1, <3>3, <4>2, StoreFills DEF AppInv
    <3>4. QED
      BY <2>3, <3>2, <3>3 DEF Compile
  <2>4. QED
    BY <1>9, <2>2, <2>3 DEF Prepare, Step
<1>10. ASSUME NEW t \in Stmts, Finalize(t)
       PROVE  /\ prog'[s] = prog[s]
              /\ \A sl \in prog[s] : held'[sl] = held[sl]
  <2>1. t # s
    BY <1>10 DEF Finalize, Running, AppInv, TypeOK
  <2>2. (ScratchSlots(t) \cup BoundSlots(t)) \cap CallSlots = {}
    BY SlotsApart
  <2>3. prog'[s] = prog[s]
    BY <1>10, <2>1 DEF Finalize, AppInv, TypeOK
  <2>4. \A sl \in prog[s] : held'[sl] = held[sl]
    BY <1>7, <1>10, <2>2 DEF Finalize
  <2>5. QED
    BY <2>3, <2>4
<1>11. ASSUME NEW t \in Stmts, UseStatement(t), ~Prepare(t), ~Step(t), ~Finalize(t)
       PROVE  /\ prog'[s] = prog[s]
              /\ \A sl \in prog[s] : held'[sl] = held[sl]
  <2>1. CASE VdbeHalt(t) \/ Reset(t) \/ ClearBindings(t)
    BY <1>5, <2>1, SlotsApart DEF VdbeHalt, Reset, ClearBindings
  <2>2. ASSUME NEW i \in Vars, NEW h \in Handles, BindPointer(t, i, h)
        PROVE  /\ prog'[s] = prog[s]
               /\ \A sl \in prog[s] : held'[sl] = held[sl]
    BY <1>4, <2>2, SlotTypes, SlotsApart DEF BindPointer
  <2>3. QED
    BY <1>11, <2>1, <2>2 DEF UseStatement
<1>12. ASSUME NEW t \in Stmts, RunFunction(t)
       PROVE  /\ prog'[s] = prog[s]
              /\ \A sl \in prog[s] : held'[sl] = held[sl]
  <2>1. CASE CallFunction(t) \/ Return(t) \/ ResultOther(t)
    <3>1. /\ {AuxSlot(t, a) : a \in AuxArgs \ ConstArgs} \cap CallSlots = {}
          /\ {ResultSlot(t)} \cap CallSlots = {}
      BY SlotsApart
    <3>2. QED
      BY <1>5, <2>1, <3>1 DEF CallFunction, Return, ResultOther, stmtVars
  <2>2. ASSUME NEW h \in Handles, ResultPointer(t, h) \/ \E a \in AuxArgs : SetAuxdata(t, a, h)
        PROVE  /\ prog'[s] = prog[s]
               /\ \A sl \in prog[s] : held'[sl] = held[sl]
    BY <1>4, <2>2, SlotTypes, SlotsApart DEF ResultPointer, SetAuxdata, stmtVars
  <2>3. QED
    BY <1>12, <2>1, <2>2 DEF RunFunction
<1>13. CASE Open \/ BackupInit \/ UNCHANGED vars
  BY <1>13 DEF Open, BackupInit, vars, stmtVars
<1>14. QED
  BY <1>6, <1>8, <1>9, <1>10, <1>11, <1>12, <1>13 DEF Next

(* While a statement runs, no registration, deletion, recompilation or     *)
(* closing replaces a function or collation that its program calls.        *)
THEOREM RunKeepsCallbacks == Spec => RunningKeepsCallbacks
<1>1. ASSUME AppInv, AppInv', [Next]_vars
      PROVE  [\A s \in Stmts :
                Running(s) /\ Running(s)' =>
                  \A sl \in prog[s] : Callback(sl)' = Callback(sl)]_vars
  <2> SUFFICES ASSUME NEW s \in Stmts, Running(s), Running(s)', NEW sl \in prog[s]
               PROVE  Callback(sl)' = Callback(sl)
    OBVIOUS
  <2>1. prog'[s] = prog[s] /\ held'[sl] = held[sl]
    BY <1>1, RunningKeeps
  <2>2. Callback(sl) = held[sl]
    BY <1>1 DEF AppInv, LinkInv, LinkedHeld, MayRun
  <2>3. Callback(sl)' = held'[sl]
    BY <1>1, <2>1 DEF AppInv, LinkInv, LinkedHeld, MayRun
  <2>4. QED
    BY <2>1, <2>2, <2>3
<1>2. QED
  BY <1>1, AppInvariant, PTL DEF Spec, RunningKeepsCallbacks

-----------------------------------------------------------------------------
(* The glue keeps the ownership protocol it promises to Go.                *)

LEMMA GoAndLostApart ==
  << "go" >> \notin Slots /\ << "lost" >> \notin Slots /\ << "go" >> # << "lost" >>
  BY DEF Slots, ConnSlots, FuncSlots, CollSlots, Autovacuum, VarSlots, AuxSlots, ResultSlots

(* Under the invariant, OwnerOf needs none of its choices.                 *)
OwnersKnown ==
  \A h \in Handles :
    /\ OwnerOf(h) \in Slots \cup {<< "go" >>, << "lost" >>}
    /\ OwnerOf(h) = << "go" >> <=> hs[h] = "free"
    /\ OwnerOf(h) = << "lost" >> <=> h \in lost
    /\ \A sl \in Slots : OwnerOf(h) = sl <=> held[sl] = h

LEMMA OwnersAreKnown == OwnInv => OwnersKnown
<1> SUFFICES ASSUME OwnInv, NEW h \in Handles
             PROVE  /\ OwnerOf(h) \in Slots \cup {<< "go" >>, << "lost" >>}
                    /\ OwnerOf(h) = << "go" >> <=> hs[h] = "free"
                    /\ OwnerOf(h) = << "lost" >> <=> h \in lost
                    /\ \A sl \in Slots : OwnerOf(h) = sl <=> held[sl] = h
  BY DEF OwnersKnown
<1> USE DEF OwnInv, OwnTyped, OneOwner
<1> DEFINE in == {sl \in Slots : held[sl] = h}
<1>1. hs[h] \in {"free", "live"}
  BY DEF DestroyedExactlyOnce
<1>2. hs[h] = "live" <=> (h \in lost \/ in # {})
  BY DEF HeldIffLive
<1>3. h \in lost => in = {}
  BY DEF LostNotHeld
<1>4. \A sl \in Slots : held[sl] = h => in = {sl}
  BY HandlesAssumption DEF NoSharedHandle
<1>5. CASE hs[h] = "free"
  <2>1. OwnerOf(h) = << "go" >> /\ h \notin lost /\ in = {}
    BY <1>2, <1>5 DEF OwnerOf
  <2>2. QED
    BY <1>5, <2>1, GoAndLostApart
<1>6. CASE h \in lost
  <2>1. OwnerOf(h) = << "lost" >> /\ hs[h] = "live" /\ in = {}
    BY <1>2, <1>3, <1>6 DEF OwnerOf
  <2>2. QED
    BY <1>6, <2>1, GoAndLostApart
<1>7. ASSUME NEW x \in Slots, held[x] = h
      PROVE  /\ OwnerOf(h) = x
             /\ hs[h] = "live" /\ h \notin lost
             /\ \A sl \in Slots : OwnerOf(h) = sl <=> held[sl] = h
  <2>1. in = {x} /\ hs[h] = "live" /\ h \notin lost
    BY <1>2, <1>3, <1>4, <1>7
  <2>2. (CHOOSE y \in in : TRUE) = x
    BY <2>1
  <2>3. OwnerOf(h) = x
    BY <2>1, <2>2 DEF OwnerOf
  <2>4. QED
    BY <1>4, <1>7, <2>1, <2>3
<1>8. QED
  BY <1>1, <1>2, <1>5, <1>6, <1>7, GoAndLostApart

(* A step takes at most one handle, from those that are free, and fills no *)
(* slot with one that C had already.                                       *)
LEMMA HandleStepShape ==
  ASSUME OwnInv, OwnInv', HandleStep
  PROVE  /\ \A sl \in Slots : held'[sl] \in {held[sl], None} \cup Free
         /\ lost \subseteq lost' /\ lost' \subseteq lost \cup Free
         /\ \A g, h \in Free : hs'[g] # "free" /\ hs'[h] # "free" => g = h
<1> USE DEF OwnInv, OwnTyped, Free
<1>1. CASE UNCHANGED << held, hs, lost >>
  BY <1>1
<1>2. ASSUME UNCHANGED lost, NEW R \in SUBSET Slots, Release(R)
      PROVE  /\ \A sl \in Slots : held'[sl] \in {held[sl], None}
             /\ \A h \in Free : hs'[h] = "free"
  <2>1. \A h \in Free, sl \in Slots : held[sl] # h
    BY DEF OneOwner, HeldIffLive
  <2>2. QED
    BY <1>2, <2>1 DEF Release, DestroyHeld
<1>3. ASSUME UNCHANGED lost, NEW sl \in Slots, NEW h \in Free, Store(sl, h)
      PROVE  /\ \A s \in Slots : held'[s] \in {held[s], h}
             /\ \A g \in Free : g # h => hs'[g] = "free"
  <2>1. \A g \in Free, s \in Slots : held[s] # g
    BY DEF OneOwner, HeldIffLive
  <2>2. QED
    BY <1>3, <2>1 DEF Store, AddHandle, DestroyHeld
<1>4. ASSUME UNCHANGED lost, NEW h \in Free, Refuse(h)
      PROVE  UNCHANGED << held, hs >>
  BY <1>4 DEF Refuse, go_destroy, AddHandle
<1>5. ASSUME UNCHANGED held, NEW h \in Free, hs' = AddHandle(hs, h), lost' = lost \cup {h}
      PROVE  \A g \in Free : g # h => hs'[g] = "free"
  BY <1>5 DEF AddHandle
<1>6. QED
  BY <1>1, <1>2, <1>3, <1>4, <1>5 DEF HandleStep

LEMMA OwnershipStep ==
  ASSUME OwnInv, OwnInv', OwnersKnown, OwnersKnown', HandleStep
  PROVE  Ownership!Next
<1> DEFINE From(h) == OwnerOf(h)
           To(h) == OwnerOf(h)'
           Over(h) == From(h) = << "go" >> /\ To(h) \in Slots \cup {<< "lost" >>}
<1>1. ASSUME NEW h \in Handles
      PROVE  /\ From(h) \in Slots \cup {<< "go" >>, << "lost" >>}
             /\ To(h) \in Slots \cup {<< "go" >>, << "lost" >>}
             /\ From(h) = << "go" >> <=> hs[h] = "free"
             /\ To(h) = << "go" >> <=> hs'[h] = "free"
             /\ From(h) = << "lost" >> <=> h \in lost
             /\ To(h) = << "lost" >> <=> h \in lost'
             /\ \A sl \in Slots : (From(h) = sl <=> held[sl] = h)
                                 /\ (To(h) = sl <=> held'[sl] = h)
  BY DEF OwnersKnown
<1> HIDE DEF From, To
<1>2. ASSUME NEW h \in Handles, To(h) # From(h)
      PROVE  Over(h) \/ (From(h) \in Slots /\ To(h) = << "go" >>)
  <2>1. CASE From(h) = << "go" >>
    BY <1>1, <1>2, <2>1
  <2>2. CASE From(h) = << "lost" >>
    BY <1>1, <1>2, <2>2, HandleStepShape
  <2>3. ASSUME From(h) \in Slots PROVE To(h) = << "go" >>
    <3>1. h \notin Free /\ h # None
      BY <1>1, <2>3, GoAndLostApart, HandlesAssumption DEF Free
    <3>2. ~(To(h) \in Slots)
      BY <1>1, <1>2, <2>3, <3>1, HandleStepShape
    <3>3. To(h) # << "lost" >>
      BY <1>1, <2>3, <3>1, GoAndLostApart, HandleStepShape
    <3>4. QED
      BY <1>1, <3>2, <3>3
  <2>4. QED
    BY <1>1, <2>1, <2>2, <2>3
<1>3. ASSUME NEW g \in Handles, NEW h \in Handles, Over(g), Over(h)
      PROVE  g = h
  BY <1>1, <1>3, GoAndLostApart, HandleStepShape DEF Free
<1>4. ASSUME NEW g \in Handles, NEW h \in Handles, To(g) = To(h), To(g) \in Slots
      PROVE  g = h
  BY <1>1, <1>4
<1>5. QED
  BY <1>1, <1>2, <1>3, <1>4
     DEF From, To, Ownership!Next, Ownership!Owners, Ownership!HandedOver,
         Ownership!GivenBack

(* Whatever calls are made, Go sees each handle go over to one place, and  *)
(* come back from it at most once before the number is used again.         *)
THEOREM OwnershipKept == Spec => ImplementsOwnership
<1>1. Init => Ownership!Init
  <2> SUFFICES ASSUME Init PROVE \A h \in Handles : OwnerOf(h) = << "go" >>
    BY DEF Ownership!Init
  <2>1. OwnInv /\ OwnersKnown
    BY InitOwn, OwnersAreKnown
  <2>2. QED
    BY <2>1 DEF Init, OwnersKnown
<1>2. ASSUME OwnInv, OwnInv', OwnersKnown, OwnersKnown', [Next]_vars
      PROVE  Ownership!Next
  BY <1>2, NextHandles, OwnershipStep
<1>3. QED
  BY <1>1, <1>2, InitOwn, NextOwn, OwnersAreKnown, PTL
     DEF Spec, ImplementsOwnership, Ownership!Spec
=============================================================================
