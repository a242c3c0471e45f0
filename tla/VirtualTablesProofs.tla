------------------------- MODULE VirtualTablesProofs -------------------------
(***************************************************************************)
(* For any modules, tables and statements: the counts of VTables and of    *)
(* modules are the references there are, so that no instance and no module *)
(* goes while something refers to it, and none stays when nothing does.    *)
(***************************************************************************)
EXTENDS VirtualTables, FiniteSetTheorems, TLAPS

Users(v) == {s \in Stmts : prog[s] = v}
Owned(m) == {v \in VTables : of[v] = m}

(* A VTable belongs to one table, or is postponed.                         *)
OneTable ==
  /\ \A t, u \in Places : attached[t] # None /\ attached[t] = attached[u] => t = u
  /\ \A t \in Places : attached[t] \notin pending

RefsCount ==
  \A v \in VTables :
    refs[v] = Counted(VTablesOf(Places), v) + Counted(pending, v) + Counted(trans, v)
              + Cardinality(Users(v))

ModsCount == \A m \in Mods : modRefs[m] = Counted({registered}, m) + Cardinality(Owned(m))

(* A VTable that is freed has neither a module nor an instance.            *)
Linked ==
  \A v \in VTables : /\ refs[v] = 0 <=> of[v] = None
                     /\ refs[v] = 0 => inst[v] = "none"

(* Only tables of the schema of an open connection have VTables, so that   *)
(* none is forgotten when the schema or the connection goes.               *)
InSchema ==
  /\ \A t \in Tables : attached[t] # None => t \in created
  /\ conn # "open" => pending = {} /\ \A t \in Places : attached[t] = None

Run == \A s \in running : prog[s] # None

Counts == RefsCount /\ ModsCount /\ Linked
Inv == TypeOK /\ OneTable /\ Counts /\ InSchema /\ Run /\ CursorsHaveInstance
-----------------------------------------------------------------------------
(* Counting. *)

LEMMA Instances ==
  \A v \in VTables : \A S \in SUBSET Places :
    v \in VTablesOf(S) <=> \E t \in S : attached[t] = v
BY NoneAssumption DEF VTablesOf

LEMMA UsersCount ==
  ASSUME NEW p, NEW v
  PROVE  /\ IsFiniteSet({s \in Stmts : p[s] = v})
         /\ Cardinality({s \in Stmts : p[s] = v}) \in Nat
         /\ \A s \in Stmts : p[s] = v => Cardinality({r \in Stmts : p[r] = v}) > 0
<1> DEFINE U == {s \in Stmts : p[s] = v}
<1>1. IsFiniteSet(U)
  BY FiniteAssumption, FS_Subset
<1>2. Cardinality(U) \in Nat
  BY <1>1, FS_CardinalityType
<1>3. ASSUME NEW s \in Stmts, p[s] = v PROVE Cardinality(U) > 0
  <2>1. Cardinality(U) # 0
    BY <1>1, <1>3, FS_EmptySet
  <2> QED
    BY <1>2, <2>1
<1> QED
  BY <1>1, <1>2, <1>3

LEMMA OwnedCount ==
  ASSUME NEW o, NEW m
  PROVE  /\ IsFiniteSet({v \in VTables : o[v] = m})
         /\ Cardinality({v \in VTables : o[v] = m}) \in Nat
         /\ \A v \in VTables : o[v] = m => Cardinality({w \in VTables : o[w] = m}) > 0
<1> DEFINE U == {v \in VTables : o[v] = m}
<1>1. IsFiniteSet(U)
  BY FiniteAssumption, FS_Subset
<1>2. Cardinality(U) \in Nat
  BY <1>1, FS_CardinalityType
<1>3. ASSUME NEW v \in VTables, o[v] = m PROVE Cardinality(U) > 0
  <2>1. Cardinality(U) # 0
    BY <1>1, <1>3, FS_EmptySet
  <2> QED
    BY <1>2, <2>1
<1> QED
  BY <1>1, <1>2, <1>3

LEMMA OwnedIsNat == ASSUME NEW m PROVE Cardinality(Owned(m)) \in Nat
BY OwnedCount DEF Owned

(* A program that is compiled, or finalised.                               *)
LEMMA UserAdded ==
  ASSUME NEW p, NEW q, NEW s \in Stmts, NEW v, p[s] # v, q[s] = v,
         \A r \in Stmts \ {s} : p[r] = q[r]
  PROVE  Cardinality({r \in Stmts : q[r] = v}) = Cardinality({r \in Stmts : p[r] = v}) + 1
<1> DEFINE P == {r \in Stmts : p[r] = v}  Q == {r \in Stmts : q[r] = v}
<1>1. Q = P \cup {s} /\ s \notin P
  OBVIOUS
<1>2. IsFiniteSet(P)
  BY UsersCount
<1> QED
  BY <1>1, <1>2, FS_AddElement

LEMMA OwnedAdded ==
  ASSUME NEW p, NEW q, NEW v \in VTables, NEW m, p[v] # m, q[v] = m,
         \A w \in VTables \ {v} : p[w] = q[w]
  PROVE  Cardinality({w \in VTables : q[w] = m}) = Cardinality({w \in VTables : p[w] = m}) + 1
<1> DEFINE P == {w \in VTables : p[w] = m}  Q == {w \in VTables : q[w] = m}
<1>1. Q = P \cup {v} /\ v \notin P
  OBVIOUS
<1>2. IsFiniteSet(P)
  BY OwnedCount
<1> QED
  BY <1>1, <1>2, FS_AddElement

(* The count that is model-checked, for a table and the postponed ones.    *)
LEMMA OneTableCount ==
  ASSUME OneTable, NEW v \in VTables
  PROVE  Cardinality({t \in Places : attached[t] = v}) = Counted(VTablesOf(Places), v)
<1> DEFINE A == {t \in Places : attached[t] = v}
<1>1. CASE v \in VTablesOf(Places)
  <2>1. PICK t \in Places : attached[t] = v
    BY <1>1, Instances
  <2>2. A = {t}
    BY <2>1, NoneAssumption DEF OneTable
  <2>3. Cardinality(A) = 1
    BY <2>2, FS_Singleton
  <2> QED
    BY <1>1, <2>3 DEF Counted
<1>2. CASE v \notin VTablesOf(Places)
  <2>1. A = {}
    BY <1>2, Instances
  <2>2. Cardinality(A) = 0
    BY <2>1, FS_EmptySet
  <2> QED
    BY <1>2, <2>2 DEF Counted
<1> QED
  BY <1>1, <1>2

(* Tables that lose their VTables. *)
LEMMA Detached ==
  ASSUME Inv, NEW S \in SUBSET Places,
         attached' = [t \in Places |-> IF t \in S THEN None ELSE attached[t]]
  PROVE  /\ attached' \in [Places -> VTables \cup {None}]
         /\ \A t, u \in Places : attached'[t] # None /\ attached'[t] = attached'[u] => t = u
         /\ VTablesOf(Places)' = VTablesOf(Places) \ VTablesOf(S)
         /\ VTablesOf(S) \subseteq VTablesOf(Places)
         /\ VTablesOf(Places) \subseteq VTables
         /\ VTablesOf(Places) \cap pending = {}
<1>1. attached \in [Places -> VTables \cup {None}] /\ OneTable
  BY DEF Inv, TypeOK
<1>2. attached' \in [Places -> VTables \cup {None}]
  BY <1>1
<1>3. \A t, u \in Places : attached'[t] # None /\ attached'[t] = attached'[u] => t = u
  BY <1>1 DEF OneTable
<1>4. VTablesOf(Places)' = VTablesOf(Places) \ VTablesOf(S)
  BY <1>1 DEF VTablesOf, OneTable
<1>5. VTablesOf(Places) \cap pending = {}
  BY <1>1 DEF VTablesOf, OneTable
<1> QED
  BY <1>1, <1>2, <1>3, <1>4, <1>5 DEF VTablesOf
-----------------------------------------------------------------------------
LEMMA InitInv == Init => Inv
<1> SUFFICES ASSUME Init PROVE Inv
  OBVIOUS
<1> USE NoneAssumption DEF Init
<1>1. TypeOK
  BY DEF TypeOK
<1>2. OneTable /\ InSchema
  BY DEF OneTable, InSchema, Places
<1>7. Run /\ CursorsHaveInstance
  BY DEF Run, CursorsHaveInstance
<1>3. \A v \in VTables : Users(v) = {}
  BY DEF Users
<1>4. \A m \in Mods : Owned(m) = {}
  BY DEF Owned
<1>5. VTablesOf(Places) = {}
  BY DEF VTablesOf
<1>6. Counts
  BY <1>3, <1>4, <1>5, FS_EmptySet DEF Counts, RefsCount, ModsCount, Linked, Counted
<1> QED
  BY <1>1, <1>2, <1>6, <1>7 DEF Inv

(* References are given up, and what has none left is freed.               *)
LEMMA SettleCounts ==
  ASSUME Inv, NEW left \in [VTables -> Nat], \A v \in VTables : left[v] <= refs[v],
         NEW mods, Settle(left, mods),
         registered' \in Mods \cup {None},
         \A m \in Mods : mods[m] = Counted({registered'}, m) + Cardinality(Owned(m))
  PROVE  /\ refs' = left
         /\ of' \in [VTables -> Mods \cup {None}]
         /\ inst' \in [VTables -> {"none", "live", "freed"}]
         /\ modRefs' \in [Mods -> Nat]
         /\ ModsCount' /\ Linked'
         /\ \A v \in VTables : left[v] # 0 => inst'[v] = inst[v]
         /\ \A v \in VTables : inst'[v] = "none" => left[v] = 0 \/ inst[v] = "none"
<1> DEFINE gone == {v \in VTables : refs[v] > 0 /\ left[v] = 0}
<1>1. /\ TypeOK /\ Linked /\ ModsCount
  BY DEF Inv, Counts
<1>2. /\ refs' = left
      /\ modRefs' = [m \in Mods |-> mods[m] - Cardinality({v \in gone : of[v] = m})]
      /\ of' = [v \in VTables |-> IF v \in gone THEN None ELSE of[v]]
      /\ inst' = [v \in VTables |-> IF v \in gone THEN "none" ELSE inst[v]]
  BY DEF Settle
<1>3. /\ of' \in [VTables -> Mods \cup {None}]
      /\ inst' \in [VTables -> {"none", "live", "freed"}]
  BY <1>1, <1>2 DEF TypeOK
<1>4. Linked'
  BY <1>1, <1>2, NoneAssumption DEF TypeOK, Linked
<1>5. ASSUME NEW m \in Mods
      PROVE  Cardinality({v \in VTables : of'[v] = m})
             = Cardinality(Owned(m)) - Cardinality({v \in gone : of[v] = m})
  <2> DEFINE G == {v \in gone : of[v] = m}  O == {v \in VTables : of[v] = m}
  <2>1. {v \in VTables : of'[v] = m} = O \ G /\ O \cap G = G
    BY <1>2, NoneAssumption
  <2>2. IsFiniteSet(O)
    BY OwnedCount
  <2>3. Cardinality(O \ G) = Cardinality(O) - Cardinality(O \cap G)
    BY <2>2, FS_Difference
  <2> QED
    BY <2>1, <2>3 DEF Owned
<1>6. ASSUME NEW m \in Mods
      PROVE  modRefs'[m] \in Nat /\ modRefs'[m] = Counted({registered'}, m)
                                                 + Cardinality({v \in VTables : of'[v] = m})
  <2>1. modRefs'[m] = mods[m] - Cardinality({v \in gone : of[v] = m})
    BY <1>2
  <2>2. Cardinality({v \in VTables : of'[v] = m}) \in Nat
    BY OwnedCount
  <2>5. Cardinality(Owned(m)) \in Nat
    BY OwnedIsNat
  <2>6. mods[m] = Counted({registered'}, m) + Cardinality(Owned(m))
    OBVIOUS
  <2>3. Cardinality({v \in gone : of[v] = m}) \in Nat
    BY FiniteAssumption, FS_Subset, FS_CardinalityType
  <2>4. Counted({registered'}, m) \in Nat
    BY DEF Counted
  <2> DEFINE k == Counted({registered'}, m)  o == Cardinality({v \in VTables : of'[v] = m})
             g == Cardinality({v \in gone : of[v] = m})  old == Cardinality(Owned(m))
  <2>7. /\ modRefs'[m] = mods[m] - g /\ mods[m] = k + old /\ o = old - g
        /\ k \in Nat /\ o \in Nat /\ g \in Nat /\ old \in Nat
    BY <1>5, <2>1, <2>2, <2>3, <2>4, <2>5, <2>6
  <2> HIDE DEF k, o, g, old
  <2>8. modRefs'[m] \in Nat /\ modRefs'[m] = k + o
    BY <2>7
  <2> QED
    BY <2>8 DEF k, o
<1>7. ModsCount' /\ modRefs' \in [Mods -> Nat]
  BY <1>2, <1>6 DEF ModsCount, Counted, Owned
<1>8. \A v \in VTables : /\ left[v] # 0 => inst'[v] = inst[v]
                         /\ inst'[v] = "none" => left[v] = 0 \/ inst[v] = "none"
  BY <1>2
<1> QED
  BY <1>2, <1>3, <1>4, <1>7, <1>8

(* A VTable that is used has references.                                   *)
LEMMA Used ==
  ASSUME NEW v, NEW r \in Nat, NEW S, NEW P, NEW T, NEW p,
         r = Counted(S, v) + Counted(P, v) + Counted(T, v) + Cardinality({s \in Stmts : p[s] = v})
  PROVE  /\ r = 0 => v \notin S /\ v \notin P /\ v \notin T /\ \A s \in Stmts : p[s] # v
         /\ \A s \in Stmts : p[s] = v => r # 0
<1> DEFINE n == Cardinality({s \in Stmts : p[s] = v})
<1>1. n \in Nat /\ \A s \in Stmts : p[s] = v => n > 0
  BY UsersCount
<1> HIDE DEF n
<1> DEFINE a == Counted(S, v)  b == Counted(P, v)  c == Counted(T, v)
<1>2. /\ a \in Nat /\ b \in Nat /\ c \in Nat
      /\ a = 0 <=> v \notin S
      /\ b = 0 <=> v \notin P
      /\ c = 0 <=> v \notin T
  BY DEF Counted
<1>3. r = a + b + c + n
  BY DEF n
<1> HIDE DEF a, b, c
<1>4. r = 0 => a = 0 /\ b = 0 /\ c = 0 /\ n = 0
  BY <1>1, <1>2, <1>3
<1>5. n # 0 => r # 0
  BY <1>1, <1>2, <1>3
<1> QED
  BY <1>1, <1>2, <1>4, <1>5

LEMMA RefsUsed ==
  ASSUME Inv, NEW v \in VTables
  PROVE  /\ refs[v] = 0 => /\ v \notin VTablesOf(Places) /\ v \notin pending /\ v \notin trans
                           /\ \A s \in Stmts : prog[s] # v
         /\ refs[v] \in Nat
<1>1. refs[v] = Counted(VTablesOf(Places), v) + Counted(pending, v) + Counted(trans, v)
                + Cardinality({s \in Stmts : prog[s] = v})
  BY DEF Inv, Counts, RefsCount, Users
<1>2. refs[v] \in Nat
  BY DEF Inv, TypeOK
<1> QED
  BY <1>1, <1>2, Used

LEMMA CursorsKept ==
  ASSUME Inv, TypeOK', RefsCount', Run',
         cursors' \subseteq cursors, \A s \in cursors' : prog'[s] = prog[s],
         \A v \in VTables : refs'[v] # 0 => inst'[v] = inst[v]
  PROVE  CursorsHaveInstance'
<1> SUFFICES ASSUME NEW s \in cursors' PROVE inst'[prog'[s]] # "none"
  BY DEF CursorsHaveInstance
<1> DEFINE v == prog'[s]
<1>1. s \in Stmts /\ v \in VTables /\ prog[s] = v
  BY DEF TypeOK, Run
<1>2. refs'[v] \in Nat
  BY <1>1 DEF TypeOK
<1>3. refs'[v] = Counted(VTablesOf(Places)', v) + Counted(pending', v) + Counted(trans', v)
                 + Cardinality({r \in Stmts : prog'[r] = v})
  BY <1>1 DEF RefsCount, Users, Counted
<1> HIDE DEF v
<1>4. prog'[s] = v
  BY DEF v
<1>5. refs'[v] # 0
  <2> DEFINE n == Cardinality({r \in Stmts : prog'[r] = v})
  <2>1. n \in Nat /\ n > 0
    BY <1>1, <1>4, UsersCount
  <2> HIDE DEF n
  <2>2. refs'[v] = Counted(VTablesOf(Places)', v) + Counted(pending', v) + Counted(trans', v) + n
    BY <1>3 DEF n
  <2> QED
    BY <2>1, <2>2 DEF Counted
<1> QED
  BY <1>1, <1>5 DEF Inv, CursorsHaveInstance, v

(* Nothing that is counted changes.                                        *)
LEMMA CountsSame ==
  ASSUME Inv, UNCHANGED << registered, modRefs, attached, pending, refs, of, prog, trans >>
  PROVE  RefsCount' /\ ModsCount' /\ OneTable'
BY DEF Inv, Counts, RefsCount, ModsCount, OneTable, Users, Owned, VTablesOf
-----------------------------------------------------------------------------
(* Modules. *)

LEMMA ReplaceInv ==
  ASSUME Inv, conn = "open", NEW new \in Mods \cup {None}, new # registered,
         new \in Mods => modRefs[new] = 0, Replace(new), lost' \in SUBSET Mods,
         UNCHANGED << conn, created, vtableVars, prog, running, cursors, trans >>
  PROVE  Inv'
<1> DEFINE S == {Eponymous}
<1>1. /\ TypeOK /\ OneTable /\ Linked /\ InSchema /\ RefsCount /\ ModsCount
      /\ UNCHANGED << refs, of, inst >>
  BY DEF Inv, Counts, vtableVars
<1>2. attached' = [t \in Places |-> IF t \in S THEN None ELSE attached[t]]
  BY <1>1 DEF Replace, TypeOK
<1>3. pending' = pending \cup VTablesOf(S) /\ S \in SUBSET Places
  BY DEF Replace, Places
<1>4. /\ attached' \in [Places -> VTables \cup {None}]
      /\ \A t, u \in Places : attached'[t] # None /\ attached'[t] = attached'[u] => t = u
      /\ VTablesOf(Places)' = VTablesOf(Places) \ VTablesOf(S)
      /\ VTablesOf(S) \subseteq VTablesOf(Places)
      /\ VTablesOf(Places) \subseteq VTables
      /\ VTablesOf(Places) \cap pending = {}
  BY <1>2, <1>3, Detached
<1>5. \A m \in Mods : /\ modRefs'[m] = Counted({new}, m) + Cardinality(Owned(m))
                      /\ modRefs'[m] \in Nat
  <2> SUFFICES ASSUME NEW m \in Mods PROVE /\ modRefs'[m] = Counted({new}, m) + Cardinality(Owned(m))
                                           /\ modRefs'[m] \in Nat
    OBVIOUS
  <2> DEFINE o == Cardinality(Owned(m))
  <2>1. o \in Nat /\ modRefs[m] = Counted({registered}, m) + o
    BY <1>1, OwnedIsNat DEF ModsCount
  <2>2. modRefs'[m] = modRefs[m] + Counted({new}, m) - Counted({registered}, m)
    BY DEF Replace
  <2> HIDE DEF o
  <2>3. modRefs'[m] = Counted({new}, m) + o /\ modRefs'[m] \in Nat
    BY <2>1, <2>2 DEF Counted
  <2> QED
    BY <2>3 DEF o
<1>6. ModsCount' /\ registered' = new /\ modRefs' \in [Mods -> Nat]
  <2>1. registered' = new /\ \A m \in Mods : Owned(m)' = Owned(m)
    BY <1>1 DEF Replace, Owned
  <2>2. modRefs' \in [Mods -> Nat]
    BY <1>5 DEF Replace
  <2> QED
    BY <1>5, <2>1, <2>2 DEF ModsCount, Counted
<1>7. TypeOK'
  BY <1>1, <1>3, <1>4, <1>6 DEF TypeOK
<1>8. OneTable'
  <2>1. \A t \in Places : attached'[t] \in VTablesOf(Places)' \cup {None}
    BY <1>4 DEF VTablesOf
  <2>2. None \notin pending'
    BY <1>7, NoneAssumption DEF TypeOK
  <2> QED
    BY <1>3, <1>4, <2>1, <2>2 DEF OneTable
<1>9. RefsCount'
  <2> SUFFICES ASSUME NEW v \in VTables
               PROVE  Counted(VTablesOf(Places), v) + Counted(pending, v)
                      = Counted(VTablesOf(Places)', v) + Counted(pending', v)
    BY <1>1 DEF RefsCount, Users, Counted
  <2> QED
    BY <1>3, <1>4 DEF Counted
<1>10. InSchema' /\ Linked' /\ Run'
  <2>1. \A t \in Places : attached'[t] # None => attached[t] # None
    BY <1>2
  <2>2. InSchema'
    BY <1>1, <2>1 DEF InSchema, Places
  <2> QED
    BY <1>1, <2>2 DEF Linked, Run, Inv
<1>11. CursorsHaveInstance'
  BY <1>1 DEF Inv, CursorsHaveInstance
<1> QED
  BY <1>6, <1>7, <1>8, <1>9, <1>10, <1>11 DEF Inv, Counts

LEMMA CreateModuleInv ==
  ASSUME Inv, NEW m \in Mods, CreateModule(m)
  PROVE  Inv'
<1>1. CASE conn = "open" /\ Replace(m) /\ UNCHANGED lost
  <2>1. registered # m
    <3> SUFFICES ASSUME registered = m PROVE FALSE
      OBVIOUS
    <3>1. modRefs[m] = 0 /\ modRefs[m] = 1 + Cardinality(Owned(m))
      BY DEF CreateModule, Inv, Counts, ModsCount, Counted
    <3> QED
      BY <3>1, OwnedIsNat
  <2>2. lost' \in SUBSET Mods
    BY <1>1 DEF Inv, TypeOK
  <2> QED
    BY <1>1, <2>1, <2>2, ReplaceInv DEF CreateModule
<1>2. CASE conn = "zombie" /\ lost' = lost \cup {m}
           /\ UNCHANGED << registered, modRefs, attached, pending >>
  <2>1. RefsCount' /\ ModsCount' /\ OneTable'
    BY <1>2, CountsSame DEF CreateModule, vtableVars
  <2>2. TypeOK' /\ Linked' /\ InSchema' /\ Run' /\ CursorsHaveInstance'
    BY <1>2 DEF CreateModule, vtableVars, Inv, Counts, TypeOK, Linked, InSchema, Run,
                CursorsHaveInstance
  <2> QED
    BY <2>1, <2>2 DEF Inv, Counts
<1> QED
  BY <1>1, <1>2 DEF CreateModule

LEMMA DropModuleInv == ASSUME Inv, DropModule PROVE Inv'
<1>1. registered \in Mods /\ lost' \in SUBSET Mods
  BY DEF DropModule, Inv, TypeOK
<1> QED
  BY <1>1, NoneAssumption, ReplaceInv DEF DropModule
-----------------------------------------------------------------------------
(* Tables. *)

LEMMA ConstructCounts ==
  ASSUME Inv, NEW v \in VTables, NEW locks \in {0, 1}, Construct(v, locks),
         UNCHANGED registered
  PROVE  /\ registered \in Mods /\ refs[v] = 0 /\ refs' = [refs EXCEPT ![v] = 1 + locks]
         /\ refs' \in [VTables -> Nat] /\ of' \in [VTables -> Mods \cup {None}]
         /\ inst' \in [VTables -> {"none", "live", "freed"}] /\ modRefs' \in [Mods -> Nat]
         /\ ModsCount' /\ Linked'
         /\ \A w \in VTables : inst[w] # "none" => inst'[w] # "none"
         /\ v \notin VTablesOf(Places) /\ v \notin pending /\ v \notin trans
         /\ \A s \in Stmts : prog[s] # v
<1>1. TypeOK /\ Linked /\ ModsCount
  BY DEF Inv, Counts
<1>2. registered \in Mods /\ refs[v] = 0
  BY <1>1 DEF Construct, TypeOK
<1>3. /\ refs' = [refs EXCEPT ![v] = 1 + locks] /\ of' = [of EXCEPT ![v] = registered]
      /\ inst' = [inst EXCEPT ![v] = "live"]
      /\ modRefs' = [modRefs EXCEPT ![registered] = @ + 1]
  BY DEF Construct, NewInstance
<1>4. /\ refs' \in [VTables -> Nat] /\ of' \in [VTables -> Mods \cup {None}]
      /\ inst' \in [VTables -> {"none", "live", "freed"}] /\ modRefs' \in [Mods -> Nat]
  BY <1>1, <1>2, <1>3 DEF TypeOK
<1>5. Linked'
  BY <1>1, <1>2, <1>3, NoneAssumption DEF TypeOK, Linked
<1>6. ASSUME NEW m \in Mods
      PROVE  modRefs'[m] = Counted({registered}, m) + Cardinality({w \in VTables : of'[w] = m})
  <2>1. of[v] = None
    BY <1>1, <1>2 DEF Linked
  <2>2. CASE m = registered
    <3>1. Cardinality({w \in VTables : of'[w] = m}) = Cardinality({w \in VTables : of[w] = m}) + 1
      <4>1. /\ of[v] # m /\ of'[v] = m
            /\ \A w \in VTables \ {v} : of[w] = of'[w]
        BY <1>1, <1>2, <1>3, <2>1, <2>2, NoneAssumption DEF TypeOK
      <4> QED
        BY <4>1, OwnedAdded
    <3>2. modRefs'[m] = modRefs[m] + 1
      BY <1>1, <1>3, <2>2 DEF TypeOK
    <3>3. modRefs[m] = Counted({registered}, m) + Cardinality({w \in VTables : of[w] = m})
      BY <1>1 DEF ModsCount, Owned
    <3>4. Cardinality({w \in VTables : of[w] = m}) \in Nat
      BY OwnedCount
    <3> QED
      BY <3>1, <3>2, <3>3, <3>4 DEF Counted
  <2>3. CASE m # registered
    <3>1. {w \in VTables : of'[w] = m} = {w \in VTables : of[w] = m}
      BY <1>1, <1>2, <1>3, <2>1, <2>3, NoneAssumption DEF TypeOK
    <3>2. modRefs'[m] = modRefs[m]
      BY <1>1, <1>3, <2>3 DEF TypeOK
    <3> QED
      BY <1>1, <3>1, <3>2 DEF ModsCount, Owned
  <2> QED
    BY <2>2, <2>3
<1>7. ModsCount'
  BY <1>6 DEF ModsCount, Owned, Counted
<1>8. \A w \in VTables : inst[w] # "none" => inst'[w] # "none"
  BY <1>1, <1>3 DEF TypeOK
<1> QED
  BY <1>2, <1>3, <1>4, <1>5, <1>7, <1>8, RefsUsed

LEMMA CreateTableInv ==
  ASSUME Inv, NEW t \in Tables, NEW v \in VTables, CreateTable(t, v)
  PROVE  Inv'
<1>1. /\ TypeOK /\ OneTable /\ InSchema /\ RefsCount
      /\ conn = "open" /\ t \notin created /\ t \in Places
      /\ created' = created \cup {t} /\ attached' = [attached EXCEPT ![t] = v]
      /\ trans' = trans \cup {v} /\ Construct(v, 1)
      /\ UNCHANGED << conn, registered, lost, pending, prog, running, cursors >>
  BY DEF Inv, Counts, CreateTable, Places
<1>2. /\ registered \in Mods /\ refs[v] = 0 /\ refs' = [refs EXCEPT ![v] = 2]
      /\ refs' \in [VTables -> Nat] /\ of' \in [VTables -> Mods \cup {None}]
      /\ inst' \in [VTables -> {"none", "live", "freed"}] /\ modRefs' \in [Mods -> Nat]
      /\ ModsCount' /\ Linked'
      /\ \A w \in VTables : inst[w] # "none" => inst'[w] # "none"
      /\ v \notin VTablesOf(Places) /\ v \notin pending /\ v \notin trans
      /\ \A s \in Stmts : prog[s] # v
  BY <1>1, ConstructCounts
<1>3. attached[t] = None /\ \A u \in Places : attached[u] # v
  BY <1>1, <1>2, Instances DEF InSchema
<1>4. TypeOK'
  BY <1>1, <1>2 DEF TypeOK
<1>5. OneTable'
  BY <1>1, <1>2, <1>3 DEF OneTable, TypeOK
<1>6. VTablesOf(Places)' = VTablesOf(Places) \cup {v}
  BY <1>1, <1>3, NoneAssumption DEF VTablesOf, TypeOK
<1>7. RefsCount'
  <2> SUFFICES ASSUME NEW w \in VTables
               PROVE  refs'[w] = Counted(VTablesOf(Places)', w) + Counted(pending', w)
                                 + Counted(trans', w) + Cardinality(Users(w))
    BY <1>1 DEF RefsCount, Users
  <2> DEFINE n == Cardinality(Users(w))
  <2>1. refs[w] = Counted(VTablesOf(Places), w) + Counted(pending, w) + Counted(trans, w) + n
    BY <1>1 DEF RefsCount
  <2>2. n \in Nat
    BY UsersCount DEF Users
  <2> HIDE DEF n
  <2>3. refs'[w] = IF w = v THEN 2 ELSE refs[w]
    BY <1>1, <1>2 DEF TypeOK
  <2>4. refs'[w] = Counted(VTablesOf(Places)', w) + Counted(pending', w) + Counted(trans', w) + n
    BY <1>1, <1>2, <1>6, <2>1, <2>2, <2>3 DEF Counted
  <2> QED
    BY <2>4 DEF n
<1>8. InSchema'
  BY <1>1 DEF InSchema, TypeOK
<1>9. Run' /\ CursorsHaveInstance'
  BY <1>1, <1>2 DEF Inv, TypeOK, Run, CursorsHaveInstance
<1> QED
  BY <1>2, <1>4, <1>5, <1>7, <1>8, <1>9 DEF Inv, Counts

LEMMA CreateTableFailsInv ==
  ASSUME Inv, NEW v \in VTables, CreateTableFails(v)
  PROVE  Inv'
<1>1. /\ TypeOK /\ OneTable /\ InSchema /\ RefsCount
      /\ conn = "open" /\ Construct(v, 0)
      /\ attached' = [t \in Places |-> IF t \in Tables THEN None ELSE attached[t]]
      /\ pending' = pending \cup VTablesOf(Tables) \cup {v}
      /\ UNCHANGED << conn, registered, lost, created, prog, running, cursors, trans >>
  BY DEF Inv, Counts, CreateTableFails, Detach
<1>2. /\ registered \in Mods /\ refs[v] = 0 /\ refs' = [refs EXCEPT ![v] = 1]
      /\ refs' \in [VTables -> Nat] /\ of' \in [VTables -> Mods \cup {None}]
      /\ inst' \in [VTables -> {"none", "live", "freed"}] /\ modRefs' \in [Mods -> Nat]
      /\ ModsCount' /\ Linked'
      /\ \A w \in VTables : inst[w] # "none" => inst'[w] # "none"
      /\ v \notin VTablesOf(Places) /\ v \notin pending /\ v \notin trans
      /\ \A s \in Stmts : prog[s] # v
  BY <1>1, ConstructCounts
<1>3. /\ attached' \in [Places -> VTables \cup {None}]
      /\ \A t, u \in Places : attached'[t] # None /\ attached'[t] = attached'[u] => t = u
      /\ VTablesOf(Places)' = VTablesOf(Places) \ VTablesOf(Tables)
      /\ VTablesOf(Tables) \subseteq VTablesOf(Places)
      /\ VTablesOf(Places) \subseteq VTables
      /\ VTablesOf(Places) \cap pending = {}
  BY <1>1, Detached DEF Places
<1>4. TypeOK'
  BY <1>1, <1>2, <1>3 DEF TypeOK
<1>5. OneTable'
  <2>1. \A t \in Places : attached'[t] \in VTablesOf(Places)' \cup {None}
    BY <1>3 DEF VTablesOf
  <2>2. None \notin pending'
    BY <1>4, NoneAssumption DEF TypeOK
  <2> QED
    BY <1>1, <1>2, <1>3, <2>1, <2>2 DEF OneTable
<1>6. RefsCount'
  <2> SUFFICES ASSUME NEW w \in VTables
               PROVE  refs'[w] = Counted(VTablesOf(Places)', w) + Counted(pending', w)
                                 + Counted(trans', w) + Cardinality(Users(w))
    BY <1>1 DEF RefsCount, Users
  <2> DEFINE n == Cardinality(Users(w))
  <2>1. refs[w] = Counted(VTablesOf(Places), w) + Counted(pending, w) + Counted(trans, w) + n
    BY <1>1 DEF RefsCount
  <2>2. n \in Nat
    BY UsersCount DEF Users
  <2> HIDE DEF n
  <2>3. refs'[w] = IF w = v THEN 1 ELSE refs[w]
    BY <1>1, <1>2 DEF TypeOK
  <2>4. refs'[w] = Counted(VTablesOf(Places)', w) + Counted(pending', w) + Counted(trans', w) + n
    BY <1>1, <1>2, <1>3, <2>1, <2>2, <2>3 DEF Counted
  <2> QED
    BY <2>4 DEF n
<1>7. InSchema'
  <2>1. \A t \in Tables : attached'[t] = None
    BY <1>1 DEF Places
  <2> QED
    BY <1>1, <2>1 DEF InSchema
<1>8. Run' /\ CursorsHaveInstance'
  BY <1>1, <1>2 DEF Inv, TypeOK, Run, CursorsHaveInstance
<1> QED
  BY <1>2, <1>4, <1>5, <1>6, <1>7, <1>8 DEF Inv, Counts

LEMMA DropTableInv ==
  ASSUME Inv, NEW t \in Tables, DropTable(t)
  PROVE  Inv'
<1> DEFINE v == attached[t]  left == [refs EXCEPT ![v] = @ - 1]
<1>1. /\ TypeOK /\ OneTable /\ InSchema /\ RefsCount /\ ModsCount /\ Linked /\ t \in Places
      /\ UNCHANGED << conn, registered, lost, pending, prog, running, cursors, trans >>
      /\ conn = "open" /\ t \in created /\ v \in VTables /\ inst[v] = "live" /\ ~InUse(v)
  BY DEF Inv, Counts, DropTable, TypeOK, Places
<1>2. CASE FreedInstance(v, FALSE) /\ UNCHANGED << created, attached, refs, of, modRefs >>
  <2>1. RefsCount' /\ ModsCount' /\ OneTable'
    BY <1>1, <1>2, CountsSame
  <2>2. inst' = [inst EXCEPT ![v] = "freed"]
    BY <1>2 DEF FreedInstance
  <2>3. TypeOK' /\ InSchema' /\ Run'
    BY <1>1, <1>2, <2>2 DEF Inv, TypeOK, InSchema, Run
  <2>4. Linked'
    BY <1>1, <1>2, <2>2 DEF Linked, TypeOK
  <2>5. CursorsHaveInstance'
    BY <1>1, <2>2 DEF Inv, TypeOK, Run, CursorsHaveInstance
  <2> QED
    BY <2>1, <2>3, <2>4, <2>5 DEF Inv, Counts
<1>3. CASE /\ FreedInstance(v, TRUE)
           /\ created' = created \ {t}
           /\ attached' = [attached EXCEPT ![t] = None]
           /\ refs' = left
           /\ of' = [of EXCEPT ![v] = IF left[v] = 0 THEN None ELSE @]
           /\ modRefs' = [modRefs EXCEPT ![of[v]] = IF left[v] = 0 THEN @ - 1 ELSE @]
  <2>1. inst' = [inst EXCEPT ![v] = "none"]
    BY <1>3 DEF FreedInstance
  <2>2. v \in VTablesOf(Places) /\ v \notin pending
    BY <1>1, Instances DEF OneTable
  <2>3. refs[v] \in Nat /\ refs[v] # 0 /\ of[v] \in Mods
    BY <1>1, <2>2, RefsUsed DEF TypeOK, Linked
  <2>4. left \in [VTables -> Nat] /\ \A w \in VTables : left[w] = IF w = v THEN refs[v] - 1 ELSE refs[w]
    BY <1>1, <2>3 DEF TypeOK
  <2>5. of' \in [VTables -> Mods \cup {None}] /\ inst' \in [VTables -> {"none", "live", "freed"}]
    BY <1>1, <1>3, <2>1 DEF TypeOK
  <2>6. Linked'
    BY <1>1, <1>3, <2>1, <2>3, <2>4, NoneAssumption DEF Linked, TypeOK
  <2>7. ASSUME NEW m \in Mods
        PROVE  /\ modRefs'[m] = Counted({registered}, m) + Cardinality({w \in VTables : of'[w] = m})
               /\ modRefs'[m] \in Nat
    <3>1. modRefs[m] = Counted({registered}, m) + Cardinality({w \in VTables : of[w] = m})
      BY <1>1 DEF ModsCount, Owned
    <3>2. /\ Cardinality({w \in VTables : of[w] = m}) \in Nat
          /\ Cardinality({w \in VTables : of'[w] = m}) \in Nat
      BY OwnedCount
    <3>3. CASE left[v] = 0 /\ m = of[v]
      <4>1. /\ v \in VTables /\ of'[v] # m /\ of[v] = m
            /\ \A w \in VTables \ {v} : of'[w] = of[w]
        BY <1>1, <1>3, <2>3, <3>3, NoneAssumption DEF TypeOK
      <4>2. Cardinality({w \in VTables : of[w] = m}) = Cardinality({w \in VTables : of'[w] = m}) + 1
        <5> HIDE DEF v
        <5> QED
          BY <4>1, OwnedAdded
      <4>3. modRefs'[m] = modRefs[m] - 1
        BY <1>1, <1>3, <2>3, <3>3 DEF TypeOK
      <4> QED
        BY <3>1, <3>2, <4>2, <4>3 DEF Counted
    <3>4. CASE ~(left[v] = 0 /\ m = of[v])
      <4>1. {w \in VTables : of[w] = m} = {w \in VTables : of'[w] = m}
        BY <1>1, <1>3, <2>3, <3>4, NoneAssumption DEF TypeOK
      <4>2. modRefs'[m] = modRefs[m]
        BY <1>1, <1>3, <2>3, <3>4 DEF TypeOK
      <4> QED
        BY <1>1, <3>1, <4>1, <4>2 DEF TypeOK
    <3> QED
      BY <3>3, <3>4
  <2>8. ModsCount' /\ modRefs' \in [Mods -> Nat]
    <3>1. ModsCount'
      BY <1>1, <2>7 DEF ModsCount, Owned, Counted
    <3>2. DOMAIN modRefs' = Mods /\ modRefs' = [m \in Mods |-> modRefs'[m]]
      BY <1>1, <1>3 DEF TypeOK
    <3> QED
      BY <2>7, <3>1, <3>2
  <2>9. attached' = [u \in Places |-> IF u \in {t} THEN None ELSE attached[u]] /\ {t} \in SUBSET Places
    BY <1>1, <1>3 DEF TypeOK
  <2>10. /\ attached' \in [Places -> VTables \cup {None}]
         /\ \A u, w \in Places : attached'[u] # None /\ attached'[u] = attached'[w] => u = w
         /\ VTablesOf(Places)' = VTablesOf(Places) \ VTablesOf({t})
    BY <2>9, Detached
  <2>11. VTablesOf({t}) = {v}
    BY <1>1, NoneAssumption DEF VTablesOf
  <2>12. TypeOK'
    BY <1>1, <1>3, <2>4, <2>5, <2>8, <2>10 DEF TypeOK
  <2>13. OneTable'
    BY <1>1, <2>9, <2>10, <2>12, NoneAssumption DEF OneTable, TypeOK
  <2>14. RefsCount'
    <3> SUFFICES ASSUME NEW w \in VTables
                 PROVE  refs'[w] = Counted(VTablesOf(Places)', w) + Counted(pending, w)
                                   + Counted(trans, w) + Cardinality(Users(w))
      BY <1>1 DEF RefsCount, Users, Counted
    <3> DEFINE n == Cardinality(Users(w))
    <3>1. refs[w] = Counted(VTablesOf(Places), w) + Counted(pending, w) + Counted(trans, w) + n
      BY <1>1 DEF RefsCount
    <3>2. n \in Nat
      BY UsersCount DEF Users
    <3> HIDE DEF n
    <3>3. refs'[w] = IF w = v THEN refs[w] - 1 ELSE refs[w]
      BY <1>3, <2>4
    <3>4. VTablesOf(Places)' = VTablesOf(Places) \ {v}
      BY <2>10, <2>11
    <3> HIDE DEF v
    <3>5. refs'[w] = Counted(VTablesOf(Places)', w) + Counted(pending, w) + Counted(trans, w) + n
      BY <2>2, <3>1, <3>2, <3>3, <3>4 DEF Counted
    <3> QED
      BY <3>5 DEF n
  <2>15. InSchema' /\ Run'
    <3>1. \A u \in Tables : attached'[u] # None => u # t /\ attached[u] # None
      BY <2>9 DEF Places
    <3> QED
      BY <1>1, <1>3, <3>1 DEF Inv, InSchema, Run
  <2>16. CursorsHaveInstance'
    BY <1>1, <2>1 DEF Inv, TypeOK, Run, CursorsHaveInstance, InUse
  <2> QED
    BY <2>6, <2>8, <2>12, <2>13, <2>14, <2>15, <2>16 DEF Inv, Counts
<1> QED
  BY <1>2, <1>3 DEF DropTable

(* References are given up by tables, by the postponed, by the transaction *)
(* or by a statement that is finalised: what the step leaves of the counts *)
(* of VTables and of modules, and what it may do to the rest.              *)
Remain(left) ==
  \A v \in VTables :
    /\ left[v] \in Nat /\ left[v] <= refs[v]
    /\ left[v] = Counted(VTablesOf(Places)', v) + Counted(pending', v) + Counted(trans', v)
                 + Cardinality({s \in Stmts : prog'[s] = v})

ModsRemain(mods) ==
  /\ registered' \in Mods \cup {None}
  /\ \A m \in Mods : mods[m] = Counted({registered'}, m) + Cardinality(Owned(m))

Rest ==
  /\ conn \in {"open", "zombie", "closed"}
  /\ created \subseteq Tables
  /\ attached \in [Places -> VTables \cup {None}]
  /\ pending \subseteq VTables
  /\ prog \in [Stmts -> VTables \cup {None}]
  /\ cursors \subseteq running /\ running \subseteq Stmts
  /\ trans \subseteq VTables
  /\ OneTable /\ InSchema /\ Run

CursorsRemain ==
  UNCHANGED lost /\ cursors' \subseteq cursors /\ \A s \in cursors' : prog'[s] = prog[s]

LEMMA SettleInv ==
  ASSUME Inv, NEW left, left = [v \in VTables |-> left[v]], Remain(left),
         NEW mods, Settle(left, mods), ModsRemain(mods), Rest', CursorsRemain
  PROVE  Inv'
<1>0. /\ left \in [VTables -> Nat] /\ \A v \in VTables : left[v] <= refs[v]
      /\ registered' \in Mods \cup {None}
      /\ \A m \in Mods : mods[m] = Counted({registered'}, m) + Cardinality(Owned(m))
  BY DEF Remain, ModsRemain
<1>1. /\ refs' = left
      /\ of' \in [VTables -> Mods \cup {None}]
      /\ inst' \in [VTables -> {"none", "live", "freed"}]
      /\ modRefs' \in [Mods -> Nat]
      /\ ModsCount' /\ Linked'
      /\ \A v \in VTables : left[v] # 0 => inst'[v] = inst[v]
  BY <1>0, SettleCounts
<1>2. TypeOK'
  BY <1>0, <1>1 DEF Inv, TypeOK, Rest, CursorsRemain
<1>3. RefsCount'
  BY <1>1 DEF RefsCount, Users, Counted, Remain
<1>4. OneTable' /\ InSchema' /\ Run'
  BY DEF Rest
<1>5. CursorsHaveInstance'
  BY <1>1, <1>2, <1>3, <1>4, CursorsKept DEF CursorsRemain
<1> QED
  BY <1>1, <1>2, <1>3, <1>4, <1>5 DEF Inv, Counts

(* What the counts of a step that gives up references are compared with.   *)
LEMMA RefsSum ==
  ASSUME Inv, NEW v \in VTables
  PROVE  /\ refs[v] = Counted(VTablesOf(Places), v) + Counted(pending, v) + Counted(trans, v)
                      + Cardinality({s \in Stmts : prog[s] = v})
         /\ refs[v] \in Nat
         /\ Cardinality({s \in Stmts : prog[s] = v}) \in Nat
         /\ v \in VTablesOf(Places) => v \notin pending
<1>1. v \in VTablesOf(Places) => v \notin pending
  BY Instances DEF Inv, OneTable
<1>2. Cardinality({s \in Stmts : prog[s] = v}) \in Nat
  BY UsersCount
<1> QED
  BY <1>1, <1>2, RefsUsed DEF Inv, Counts, RefsCount, Users

LEMMA ModsSum == ASSUME Inv PROVE
  /\ registered \in Mods \cup {None}
  /\ \A m \in Mods : modRefs[m] = Counted({registered}, m) + Cardinality(Owned(m))
BY DEF Inv, Counts, ModsCount, TypeOK

LEMMA UnlockListInv == ASSUME Inv, UnlockList PROVE Inv'
<1> DEFINE left == [v \in VTables |-> refs[v] - Counted(pending, v)]
<1>1. /\ Settle(left, modRefs) /\ pending' = {}
      /\ UNCHANGED << conn, registered, lost, created, attached, prog, running, cursors, trans >>
  BY DEF UnlockList, Unlock
<1>2. VTablesOf(Places)' = VTablesOf(Places)
  BY <1>1 DEF VTablesOf
<1>3. ASSUME NEW v \in VTables
      PROVE  /\ left[v] \in Nat /\ left[v] <= refs[v]
             /\ left[v] = Counted(VTablesOf(Places)', v) + Counted(pending', v) + Counted(trans', v)
                          + Cardinality({s \in Stmts : prog'[s] = v})
  BY <1>1, <1>2, RefsSum DEF Counted
<1>4. Remain(left) /\ left = [v \in VTables |-> left[v]]
  BY <1>3 DEF Remain
<1> HIDE DEF left
<1>5. Rest' /\ CursorsRemain /\ ModsRemain(modRefs)
  BY <1>1, ModsSum DEF Inv, TypeOK, OneTable, InSchema, Run, Rest, CursorsRemain, ModsRemain
<1> QED
  BY <1>1, <1>4, <1>5, SettleInv

LEMMA ResetSchemaInv == ASSUME Inv, ResetSchema PROVE Inv'
<1> DEFINE old == VTablesOf(Tables)
<1>1. /\ attached' = [t \in Places |-> IF t \in Tables THEN None ELSE attached[t]]
      /\ Tables \in SUBSET Places
      /\ UNCHANGED << conn, registered, lost, created, prog, running, cursors, trans >>
  BY DEF ResetSchema, Detach, Places
<1>2. /\ attached' \in [Places -> VTables \cup {None}]
      /\ \A t, u \in Places : attached'[t] # None /\ attached'[t] = attached'[u] => t = u
      /\ VTablesOf(Places)' = VTablesOf(Places) \ old
      /\ old \subseteq VTablesOf(Places)
      /\ VTablesOf(Places) \subseteq VTables
      /\ VTablesOf(Places) \cap pending = {}
  BY <1>1, Detached
<1>3. \A t \in Places : attached'[t] \in VTablesOf(Places)' \cup {None}
  BY <1>2 DEF VTablesOf
<1>4. conn = "open" /\ \A t \in Tables : attached'[t] = None
  BY <1>1 DEF ResetSchema
<1>5. CASE pending' = pending \cup old /\ UNCHANGED << vtableVars, modRefs >>
  <2>1. TypeOK' /\ UNCHANGED << refs, of, inst, modRefs >>
    BY <1>1, <1>2, <1>5 DEF Inv, TypeOK, vtableVars
  <2>2. OneTable'
    <3>1. None \notin pending'
      BY <2>1, NoneAssumption DEF TypeOK
    <3> QED
      BY <1>2, <1>3, <1>5, <3>1 DEF OneTable
  <2>3. ASSUME NEW v \in VTables
        PROVE  refs'[v] = Counted(VTablesOf(Places)', v) + Counted(pending', v) + Counted(trans, v)
                          + Cardinality({s \in Stmts : prog[s] = v})
    BY <1>2, <1>5, <2>1, RefsSum DEF Counted
  <2>4. RefsCount'
    BY <1>1, <2>3 DEF RefsCount, Users, Counted
  <2>5. ModsCount' /\ Linked'
    BY <1>1, <2>1 DEF Inv, Counts, ModsCount, Owned, Linked
  <2>6. InSchema' /\ Run' /\ CursorsHaveInstance'
    BY <1>1, <1>4, <2>1 DEF Inv, InSchema, Run, CursorsHaveInstance
  <2> QED
    BY <2>1, <2>2, <2>4, <2>5, <2>6 DEF Inv, Counts
<1>6. CASE pending' = {} /\ Unlock(pending \cup old)
  <2> DEFINE left == [v \in VTables |-> refs[v] - Counted(pending \cup old, v)]
  <2>1. Settle(left, modRefs)
    BY <1>6 DEF Unlock
  <2>2. ASSUME NEW v \in VTables
        PROVE  /\ left[v] \in Nat /\ left[v] <= refs[v]
               /\ left[v] = Counted(VTablesOf(Places)', v) + Counted(pending', v) + Counted(trans', v)
                            + Cardinality({s \in Stmts : prog'[s] = v})
    BY <1>1, <1>2, <1>6, RefsSum DEF Counted
  <2>3. Remain(left) /\ left = [v \in VTables |-> left[v]]
    BY <2>2 DEF Remain
  <2> HIDE DEF left
  <2>4. OneTable' /\ InSchema' /\ Run'
    BY <1>1, <1>2, <1>4, <1>6 DEF Inv, OneTable, InSchema, Run
  <2>5. Rest'
    BY <1>1, <1>2, <1>6, <2>4 DEF Inv, TypeOK, Rest
  <2>6. CursorsRemain /\ ModsRemain(modRefs)
    BY <1>1, ModsSum DEF CursorsRemain, ModsRemain
  <2> QED
    BY <2>1, <2>3, <2>5, <2>6, SettleInv
<1> QED
  BY <1>5, <1>6 DEF ResetSchema
-----------------------------------------------------------------------------
(* Statements. *)

LEMMA PrepareInv ==
  ASSUME Inv, NEW s \in Stmts, NEW t \in Places, Prepare(s, t)
  PROVE  Inv'
<1>1. /\ TypeOK /\ OneTable /\ InSchema /\ RefsCount /\ ModsCount /\ Linked
      /\ conn = "open" /\ s \notin running /\ prog[s] = None /\ pending = {}
      /\ t = Eponymous \/ t \in created
      /\ UNCHANGED << conn, registered, lost, created, pending, running, cursors, trans >>
  BY DEF Inv, Counts, Prepare
<1>2. ASSUME NEW v \in VTables, prog' = [prog EXCEPT ![s] = v]
      PROVE  /\ prog' \in [Stmts -> VTables \cup {None}] /\ Run'
             /\ \A r \in cursors : prog'[r] = prog[r]
             /\ \A w \in VTables :
                  Cardinality({r \in Stmts : prog'[r] = w})
                  = Cardinality({r \in Stmts : prog[r] = w}) + (IF w = v THEN 1 ELSE 0)
  <2>1. prog' \in [Stmts -> VTables \cup {None}] /\ \A r \in Stmts : prog'[r] = IF r = s THEN v ELSE prog[r]
    BY <1>1, <1>2 DEF TypeOK
  <2>2. Run' /\ \A r \in cursors : prog'[r] = prog[r]
    BY <1>1, <2>1, NoneAssumption DEF Inv, Run, TypeOK
  <2>3. ASSUME NEW w \in VTables
        PROVE  Cardinality({r \in Stmts : prog'[r] = w})
               = Cardinality({r \in Stmts : prog[r] = w}) + (IF w = v THEN 1 ELSE 0)
    <3>1. CASE w = v
      <4>1. prog[s] # w /\ prog'[s] = w /\ \A r \in Stmts \ {s} : prog[r] = prog'[r]
        BY <1>1, <2>1, <3>1, NoneAssumption
      <4>2. Cardinality({r \in Stmts : prog'[r] = w}) = Cardinality({r \in Stmts : prog[r] = w}) + 1
        BY <4>1, UserAdded
      <4> QED
        BY <3>1, <4>2
    <3>2. CASE w # v
      <4>1. {r \in Stmts : prog'[r] = w} = {r \in Stmts : prog[r] = w}
        BY <1>1, <2>1, <3>2, NoneAssumption
      <4> DEFINE n == Cardinality({r \in Stmts : prog[r] = w})
      <4>2. n \in Nat /\ Cardinality({r \in Stmts : prog'[r] = w}) = n
        BY <4>1, UsersCount
      <4> HIDE DEF n
      <4>3. Cardinality({r \in Stmts : prog'[r] = w}) = n + (IF w = v THEN 1 ELSE 0)
        BY <3>2, <4>2
      <4> QED
        BY <4>3 DEF n
    <3> QED
      BY <3>1, <3>2
  <2> QED
    BY <2>1, <2>2, <2>3
<1>3. CASE /\ attached[t] # None
           /\ prog' = [prog EXCEPT ![s] = attached[t]]
           /\ refs' = [refs EXCEPT ![attached[t]] = @ + 1]
           /\ UNCHANGED << attached, of, inst, modRefs >>
  <2> DEFINE v == attached[t]
  <2>1. v \in VTables /\ v \in VTablesOf(Places)
    BY <1>1, <1>3, Instances DEF TypeOK
  <2>2. refs[v] \in Nat /\ refs[v] # 0
    BY <2>1, RefsUsed
  <2>3. refs' \in [VTables -> Nat] /\ \A w \in VTables : refs'[w] = refs[w] + (IF w = v THEN 1 ELSE 0)
    BY <1>1, <1>3, <2>1, <2>2 DEF TypeOK
  <2>4. /\ prog' \in [Stmts -> VTables \cup {None}] /\ Run'
        /\ \A r \in cursors : prog'[r] = prog[r]
        /\ \A w \in VTables :
             Cardinality({r \in Stmts : prog'[r] = w})
             = Cardinality({r \in Stmts : prog[r] = w}) + (IF w = v THEN 1 ELSE 0)
    BY <1>2, <1>3, <2>1
  <2>5. TypeOK'
    BY <1>1, <1>3, <2>3, <2>4 DEF TypeOK
  <2>6. VTablesOf(Places)' = VTablesOf(Places)
    BY <1>3 DEF VTablesOf
  <2> HIDE DEF v
  <2>7. ASSUME NEW w \in VTables
        PROVE  refs'[w] = Counted(VTablesOf(Places)', w) + Counted(pending', w) + Counted(trans', w)
                          + Cardinality({r \in Stmts : prog'[r] = w})
    <3> DEFINE n == Cardinality({r \in Stmts : prog[r] = w})
               new == Cardinality({r \in Stmts : prog'[r] = w})
               a == Counted(VTablesOf(Places), w) + Counted(pending, w) + Counted(trans, w)
    <3>1. refs[w] = a + n /\ refs[w] \in Nat /\ n \in Nat /\ a \in Nat
      BY RefsSum DEF Counted
    <3>2. new = n + (IF w = v THEN 1 ELSE 0) /\ refs'[w] = refs[w] + (IF w = v THEN 1 ELSE 0)
      BY <2>3, <2>4
    <3> HIDE DEF n, new, a
    <3>3. refs'[w] = a + new
      BY <3>1, <3>2
    <3> QED
      BY <1>1, <2>6, <3>3 DEF a, new
  <2>8. RefsCount'
    BY <2>7 DEF RefsCount, Users, Counted
  <2>9. Linked' /\ ModsCount' /\ OneTable' /\ InSchema'
    <3>1. \A w \in VTables : refs'[w] = 0 <=> refs[w] = 0
      <4> SUFFICES ASSUME NEW w \in VTables PROVE refs'[w] = 0 <=> refs[w] = 0
        OBVIOUS
      <4>1. refs[w] \in Nat /\ refs'[w] = refs[w] + (IF w = v THEN 1 ELSE 0)
        BY <2>3, RefsSum
      <4> QED
        BY <2>2, <4>1
    <3>2. Linked'
      BY <1>1, <1>3, <3>1 DEF Linked
    <3>3. ModsCount' /\ OneTable' /\ InSchema'
      BY <1>1, <1>3 DEF ModsCount, Owned, OneTable, InSchema
    <3> QED
      BY <3>2, <3>3
  <2>10. CursorsHaveInstance'
    BY <1>1, <1>3, <2>4 DEF Inv, CursorsHaveInstance
  <2> QED
    BY <2>4, <2>5, <2>8, <2>9, <2>10 DEF Inv, Counts
<1>4. ASSUME attached[t] = None, NEW v \in VTables, Construct(v, 1),
             attached' = [attached EXCEPT ![t] = v], prog' = [prog EXCEPT ![s] = v]
      PROVE  Inv'
  <2>1. /\ registered \in Mods /\ refs[v] = 0 /\ refs' = [refs EXCEPT ![v] = 2]
        /\ refs' \in [VTables -> Nat] /\ of' \in [VTables -> Mods \cup {None}]
        /\ inst' \in [VTables -> {"none", "live", "freed"}] /\ modRefs' \in [Mods -> Nat]
        /\ ModsCount' /\ Linked'
        /\ \A w \in VTables : inst[w] # "none" => inst'[w] # "none"
        /\ v \notin VTablesOf(Places) /\ v \notin pending /\ v \notin trans
        /\ \A r \in Stmts : prog[r] # v
    BY <1>1, <1>4, ConstructCounts
  <2>2. /\ prog' \in [Stmts -> VTables \cup {None}] /\ Run'
        /\ \A r \in cursors : prog'[r] = prog[r]
        /\ \A w \in VTables :
             Cardinality({r \in Stmts : prog'[r] = w})
             = Cardinality({r \in Stmts : prog[r] = w}) + (IF w = v THEN 1 ELSE 0)
    BY <1>2, <1>4
  <2>3. TypeOK'
    BY <1>1, <1>4, <2>1, <2>2 DEF TypeOK
  <2>4. \A u \in Places : attached[u] # v
    BY <2>1, Instances
  <2>5. OneTable'
    BY <1>1, <1>4, <2>1, <2>4 DEF OneTable, TypeOK
  <2>6. VTablesOf(Places)' = VTablesOf(Places) \cup {v}
    BY <1>1, <1>4, NoneAssumption DEF VTablesOf, TypeOK
  <2>7. ASSUME NEW w \in VTables
        PROVE  refs'[w] = Counted(VTablesOf(Places)', w) + Counted(pending', w) + Counted(trans', w)
                          + Cardinality({r \in Stmts : prog'[r] = w})
    <3> DEFINE n == Cardinality({r \in Stmts : prog[r] = w})
               new == Cardinality({r \in Stmts : prog'[r] = w})
    <3>1. /\ refs[w] = Counted(VTablesOf(Places), w) + Counted(pending, w) + Counted(trans, w) + n
          /\ refs[w] \in Nat /\ n \in Nat
      BY RefsSum
    <3>2. new = n + (IF w = v THEN 1 ELSE 0) /\ refs'[w] = IF w = v THEN 2 ELSE refs[w]
      BY <1>1, <2>1, <2>2 DEF TypeOK
    <3> HIDE DEF n, new
    <3>3. refs'[w] = Counted(VTablesOf(Places)', w) + Counted(pending', w) + Counted(trans', w) + new
      BY <1>1, <2>1, <2>6, <3>1, <3>2 DEF Counted
    <3> QED
      BY <3>3 DEF new
  <2>8. RefsCount'
    BY <2>7 DEF RefsCount, Users, Counted
  <2>9. InSchema'
    BY <1>1, <1>4, EponymousAssumption DEF InSchema, TypeOK
  <2>10. CursorsHaveInstance'
    BY <1>1, <2>1, <2>2 DEF Inv, CursorsHaveInstance, Run, TypeOK
  <2> QED
    BY <2>1, <2>2, <2>3, <2>5, <2>8, <2>9, <2>10 DEF Inv, Counts
<1> QED
  BY <1>3, <1>4 DEF Prepare

(* Steps that count nothing. *)
LEMMA StepInv == ASSUME Inv, NEW s \in Stmts, Step(s) PROVE Inv'
<1>1. /\ prog[s] # None /\ running' = running \cup {s}
      /\ UNCHANGED << conn, registered, modRefs, lost, created, attached, pending, refs, of, inst,
                      prog, cursors, trans >>
  BY DEF Step, moduleVars, vtableVars
<1>2. RefsCount' /\ ModsCount' /\ OneTable'
  BY <1>1, CountsSame
<1>3. TypeOK' /\ Linked' /\ InSchema' /\ Run' /\ CursorsHaveInstance'
  BY <1>1 DEF Inv, Counts, TypeOK, Linked, InSchema, Run, CursorsHaveInstance
<1> QED
  BY <1>2, <1>3 DEF Inv, Counts

LEMMA OpenCursorInv == ASSUME Inv, NEW s \in Stmts, OpenCursor(s) PROVE Inv'
<1>1. /\ s \in running /\ inst[prog[s]] # "none" /\ cursors' = cursors \cup {s}
      /\ UNCHANGED << conn, registered, modRefs, lost, created, attached, pending, refs, of, inst,
                      prog, running, trans >>
  BY DEF OpenCursor, moduleVars, vtableVars
<1>2. RefsCount' /\ ModsCount' /\ OneTable'
  BY <1>1, CountsSame
<1>3. TypeOK' /\ Linked' /\ InSchema' /\ Run' /\ CursorsHaveInstance'
  BY <1>1 DEF Inv, Counts, TypeOK, Linked, InSchema, Run, CursorsHaveInstance
<1> QED
  BY <1>2, <1>3 DEF Inv, Counts

LEMMA HaltInv == ASSUME Inv, NEW s \in Stmts, Halt(s) PROVE Inv'
<1>1. /\ running' = running \ {s} /\ cursors' = cursors \ {s}
      /\ UNCHANGED << conn, registered, modRefs, lost, created, attached, pending, refs, of, inst,
                      prog, trans >>
  BY DEF Halt, moduleVars, vtableVars
<1>2. RefsCount' /\ ModsCount' /\ OneTable'
  BY <1>1, CountsSame
<1>3. TypeOK' /\ Linked' /\ InSchema' /\ Run' /\ CursorsHaveInstance'
  BY <1>1 DEF Inv, Counts, TypeOK, Linked, InSchema, Run, CursorsHaveInstance
<1> QED
  BY <1>2, <1>3 DEF Inv, Counts

LEMMA OpenInv == ASSUME Inv, Open PROVE Inv'
<1>1. /\ conn = "closed" /\ conn' = "open"
      /\ UNCHANGED << registered, modRefs, lost, created, attached, pending, refs, of, inst,
                      prog, running, cursors, trans >>
  BY DEF Open, moduleVars, vtableVars
<1>2. RefsCount' /\ ModsCount' /\ OneTable'
  BY <1>1, CountsSame
<1>3. TypeOK' /\ Linked' /\ InSchema' /\ Run' /\ CursorsHaveInstance'
  BY <1>1 DEF Inv, Counts, TypeOK, Linked, InSchema, Run, CursorsHaveInstance
<1> QED
  BY <1>2, <1>3 DEF Inv, Counts

LEMMA BeginInv == ASSUME Inv, NEW s \in Stmts, Begin(s) PROVE Inv'
<1> DEFINE v == prog[s]
<1>1. /\ s \in running /\ inst[v] # "none" /\ v \notin trans /\ trans' = trans \cup {v}
      /\ refs' = [refs EXCEPT ![v] = @ + 1]
      /\ UNCHANGED << conn, registered, modRefs, lost, created, attached, pending, of, inst,
                      prog, running, cursors >>
  BY DEF Begin, moduleVars
<1>2. TypeOK /\ v \in VTables
  BY <1>1 DEF Inv, Run, TypeOK
<1> HIDE DEF v
<1>3. refs[v] # 0 /\ \A w \in VTables : refs'[w] = refs[w] + (IF w = v THEN 1 ELSE 0)
  BY <1>1, <1>2 DEF Inv, Counts, Linked, TypeOK
<1>4. TypeOK'
  BY <1>1, <1>2 DEF TypeOK
<1>5. VTablesOf(Places)' = VTablesOf(Places)
  BY <1>1 DEF VTablesOf
<1>6. ASSUME NEW w \in VTables
      PROVE  /\ refs'[w] = Counted(VTablesOf(Places), w) + Counted(pending, w) + Counted(trans', w)
                           + Cardinality({r \in Stmts : prog[r] = w})
             /\ refs'[w] = 0 <=> refs[w] = 0
  <2> DEFINE n == Cardinality({r \in Stmts : prog[r] = w})
             a == Counted(VTablesOf(Places), w) + Counted(pending, w)
  <2>1. refs[w] = a + Counted(trans, w) + n /\ refs[w] \in Nat /\ n \in Nat /\ a \in Nat
    BY RefsSum DEF Counted
  <2> HIDE DEF n, a
  <2>2. refs'[w] = a + Counted(trans', w) + n
    BY <1>1, <1>3, <2>1 DEF Counted
  <2>3. refs'[w] = 0 <=> refs[w] = 0
    BY <1>3, <2>1
  <2> QED
    BY <2>2, <2>3 DEF n, a
<1>7. RefsCount'
  BY <1>1, <1>5, <1>6 DEF RefsCount, Users, Counted
<1>8. Linked'
  BY <1>1, <1>6 DEF Inv, Counts, Linked
<1>9. ModsCount' /\ OneTable' /\ InSchema' /\ Run' /\ CursorsHaveInstance'
  BY <1>1 DEF Inv, Counts, ModsCount, Owned, OneTable, InSchema, Run, CursorsHaveInstance
<1> QED
  BY <1>4, <1>7, <1>8, <1>9 DEF Inv, Counts

LEMMA FinaliseInv == ASSUME Inv, Finalise PROVE Inv'
<1> DEFINE left == [v \in VTables |-> refs[v] - Counted(trans, v)]
<1>1. /\ Settle(left, modRefs) /\ trans' = {}
      /\ UNCHANGED << conn, registered, lost, created, attached, pending, prog, running, cursors >>
  BY DEF Finalise, Unlock
<1>2. VTablesOf(Places)' = VTablesOf(Places)
  BY <1>1 DEF VTablesOf
<1>3. ASSUME NEW v \in VTables
      PROVE  /\ left[v] \in Nat /\ left[v] <= refs[v]
             /\ left[v] = Counted(VTablesOf(Places)', v) + Counted(pending', v) + Counted(trans', v)
                          + Cardinality({s \in Stmts : prog'[s] = v})
  BY <1>1, <1>2, RefsSum DEF Counted
<1>4. Remain(left) /\ left = [v \in VTables |-> left[v]]
  BY <1>3 DEF Remain
<1> HIDE DEF left
<1>5. Rest' /\ CursorsRemain /\ ModsRemain(modRefs)
  BY <1>1, ModsSum DEF Inv, TypeOK, OneTable, InSchema, Run, Rest, CursorsRemain, ModsRemain
<1> QED
  BY <1>1, <1>4, <1>5, SettleInv

LEMMA RollbackInv == ASSUME Inv, Rollback PROVE Inv'
<1> DEFINE old == VTablesOf(Tables)
           left == [v \in VTables |-> refs[v] - Counted(trans, v) - Counted(pending \cup old, v)]
<1>1. /\ conn = "open" /\ created' \subseteq created
      /\ attached' = [t \in Places |-> IF t \in Tables THEN None ELSE attached[t]]
      /\ Tables \in SUBSET Places
      /\ Settle(left, modRefs) /\ trans' = {} /\ pending' = {}
      /\ UNCHANGED << conn, registered, lost, prog, running, cursors >>
  BY DEF Rollback, Detach, Places
<1>2. /\ attached' \in [Places -> VTables \cup {None}]
      /\ \A t, u \in Places : attached'[t] # None /\ attached'[t] = attached'[u] => t = u
      /\ VTablesOf(Places)' = VTablesOf(Places) \ old
      /\ old \subseteq VTablesOf(Places)
      /\ VTablesOf(Places) \cap pending = {}
  BY <1>1, Detached
<1>3. ASSUME NEW v \in VTables
      PROVE  /\ left[v] \in Nat /\ left[v] <= refs[v]
             /\ left[v] = Counted(VTablesOf(Places)', v) + Counted(pending', v) + Counted(trans', v)
                          + Cardinality({s \in Stmts : prog'[s] = v})
  BY <1>1, <1>2, RefsSum DEF Counted
<1>4. Remain(left) /\ left = [v \in VTables |-> left[v]]
  BY <1>3 DEF Remain
<1>5. \A t \in Tables : attached'[t] = None
  BY <1>1
<1> HIDE DEF left
<1>6. OneTable' /\ InSchema' /\ Run'
  BY <1>1, <1>2, <1>5 DEF Inv, OneTable, InSchema, Run
<1>7. Rest'
  BY <1>1, <1>2, <1>6 DEF Inv, TypeOK, Rest
<1>8. CursorsRemain /\ ModsRemain(modRefs)
  BY <1>1, ModsSum DEF CursorsRemain, ModsRemain
<1> QED
  BY <1>1, <1>4, <1>7, <1>8, SettleInv
-----------------------------------------------------------------------------
(* The connection. *)

(* The name of a module that is released.                                  *)
LEMMA Unregistered ==
  ASSUME Inv, registered' = None
  PROVE  ModsRemain([m \in Mods |-> modRefs[m] - Counted({registered}, m)])
<1>1. ASSUME NEW m \in Mods
      PROVE  modRefs[m] - Counted({registered}, m) = Counted({registered'}, m) + Cardinality(Owned(m))
  <2> DEFINE o == Cardinality(Owned(m))
  <2>1. o \in Nat /\ modRefs[m] = Counted({registered}, m) + o
    BY ModsSum, OwnedIsNat
  <2> HIDE DEF o
  <2>2. Counted({registered'}, m) = 0
    BY NoneAssumption DEF Counted
  <2>3. modRefs[m] - Counted({registered}, m) = Counted({registered'}, m) + o
    BY <2>1, <2>2 DEF Counted
  <2> QED
    BY <2>3 DEF o
<1> QED
  BY <1>1 DEF ModsRemain

LEMMA CloseInv == ASSUME Inv, NEW v2 \in BOOLEAN, Close(v2) PROVE Inv'
<1> DEFINE left == [v \in VTables |-> refs[v] - Counted(VTablesOf(Places), v)
                                      - Counted(pending, v) - Counted(trans, v)]
           busy == \E s \in Stmts : prog[s] # None
<1>1. /\ conn = "open" /\ attached' = [t \in Places |-> None] /\ pending' = {} /\ trans' = {}
      /\ UNCHANGED << lost, prog, running, cursors >>
  BY DEF Close, Freed
<1>2. VTablesOf(Places)' = {}
  BY <1>1 DEF VTablesOf
<1>3. ASSUME NEW v \in VTables
      PROVE  /\ left[v] \in Nat /\ left[v] <= refs[v]
             /\ left[v] = Counted(VTablesOf(Places)', v) + Counted(pending', v) + Counted(trans', v)
                          + Cardinality({s \in Stmts : prog'[s] = v})
  <2> DEFINE n == Cardinality({s \in Stmts : prog[s] = v})
             a == Counted(VTablesOf(Places), v)  b == Counted(pending, v)  c == Counted(trans, v)
  <2>1. refs[v] = a + b + c + n /\ n \in Nat /\ a \in Nat /\ b \in Nat /\ c \in Nat
    BY RefsSum DEF Counted
  <2>2. left[v] = refs[v] - a - b - c
    OBVIOUS
  <2> HIDE DEF n, a, b, c, left
  <2>3. left[v] \in Nat /\ left[v] <= refs[v] /\ left[v] = n
    BY <2>1, <2>2
  <2>4. Counted(VTablesOf(Places)', v) = 0 /\ Counted(pending', v) = 0 /\ Counted(trans', v) = 0
    BY <1>1, <1>2 DEF Counted
  <2> QED
    BY <1>1, <2>1, <2>3, <2>4 DEF n
<1>4. Remain(left) /\ left = [v \in VTables |-> left[v]]
  BY <1>3 DEF Remain
<1>5. OneTable' /\ InSchema' /\ Run'
  BY <1>1 DEF Inv, OneTable, InSchema, Run, Places
<1>6. CursorsRemain
  BY <1>1 DEF CursorsRemain
<1>7. CASE busy
  <2>1. /\ conn' \in {"open", "zombie", "closed"} /\ Settle(left, modRefs) /\ UNCHANGED << registered, created >>
    BY <1>7 DEF Close
  <2>2. Rest' /\ ModsRemain(modRefs)
    BY <1>1, <1>5, <2>1, ModsSum DEF Inv, TypeOK, Rest, ModsRemain
  <2> HIDE DEF left
  <2> QED
    BY <1>4, <1>6, <2>1, <2>2, SettleInv
<1>8. CASE ~busy
  <2> DEFINE mods == [m \in Mods |-> modRefs[m] - Counted({registered}, m)]
  <2>1. conn' = "closed" /\ registered' = None /\ created' = {} /\ Settle(left, mods)
    BY <1>8 DEF Close, Freed
  <2>2. Rest'
    BY <1>1, <1>5, <2>1 DEF Inv, TypeOK, Rest
  <2>3. ModsRemain(mods)
    BY <2>1, Unregistered
  <2> HIDE DEF left, mods
  <2> QED
    BY <1>4, <1>6, <2>1, <2>2, <2>3, SettleInv
<1> QED
  BY <1>7, <1>8

LEMMA FinalizeInv == ASSUME Inv, NEW s \in Stmts, Finalize(s) PROVE Inv'
<1> DEFINE last == conn = "zombie" /\ \A r \in Stmts \ {s} : prog[r] = None
           left == [v \in VTables |->
                      refs[v] - Counted({prog[s]}, v) - (IF last THEN Counted(trans, v) ELSE 0)]
<1>1. /\ prog[s] # None /\ prog' = [prog EXCEPT ![s] = None]
      /\ running' = running \ {s} /\ cursors' = cursors \ {s}
      /\ UNCHANGED << lost, attached, pending >>
  BY DEF Finalize
<1>2. TypeOK /\ OneTable /\ InSchema /\ Run
  BY DEF Inv
<1>3. /\ prog' \in [Stmts -> VTables \cup {None}] /\ Run'
      /\ \A r \in Stmts : prog'[r] = IF r = s THEN None ELSE prog[r]
  BY <1>1, <1>2 DEF TypeOK, Run
<1>4. VTablesOf(Places)' = VTablesOf(Places)
  BY <1>1 DEF VTablesOf
<1>5. ASSUME NEW v \in VTables
      PROVE  Cardinality({r \in Stmts : prog[r] = v})
             = Cardinality({r \in Stmts : prog'[r] = v}) + Counted({prog[s]}, v)
  <2>1. CASE prog[s] = v
    <3> DEFINE P == {r \in Stmts : prog'[r] = v}
    <3>1. s \notin P /\ {r \in Stmts : prog[r] = v} = P \cup {s}
      BY <1>3, <2>1, NoneAssumption
    <3>2. IsFiniteSet(P)
      BY UsersCount
    <3> HIDE DEF P
    <3>3. Cardinality({r \in Stmts : prog[r] = v}) = Cardinality(P) + 1
      BY <3>1, <3>2, FS_AddElement
    <3> QED
      BY <2>1, <3>3 DEF Counted, P
  <2>2. CASE prog[s] # v
    <3>1. {r \in Stmts : prog[r] = v} = {r \in Stmts : prog'[r] = v}
      BY <1>3, <2>2, NoneAssumption
    <3> DEFINE n == Cardinality({r \in Stmts : prog[r] = v})
    <3>2. n \in Nat /\ Cardinality({r \in Stmts : prog'[r] = v}) = n
      BY <3>1, UsersCount
    <3> HIDE DEF n
    <3>3. n = n + Counted({prog[s]}, v)
      BY <2>2, <3>2 DEF Counted
    <3> QED
      BY <3>2, <3>3 DEF n
  <2> QED
    BY <2>1, <2>2
<1>6. trans' = IF last THEN {} ELSE trans
  BY DEF Finalize, Freed
<1>7. ASSUME NEW v \in VTables
      PROVE  /\ left[v] \in Nat /\ left[v] <= refs[v]
             /\ left[v] = Counted(VTablesOf(Places)', v) + Counted(pending', v) + Counted(trans', v)
                          + Cardinality({r \in Stmts : prog'[r] = v})
  <2> DEFINE n == Cardinality({r \in Stmts : prog[r] = v})
             new == Cardinality({r \in Stmts : prog'[r] = v})
             a == Counted(VTablesOf(Places), v) + Counted(pending, v)
             c == Counted(trans, v)  d == Counted({prog[s]}, v)  e == Counted(trans', v)
  <2>1. /\ refs[v] = a + c + n /\ n \in Nat /\ new \in Nat
        /\ a \in Nat /\ c \in Nat /\ d \in Nat /\ n = new + d
        /\ e = IF last THEN 0 ELSE c
    <3>1. refs[v] = a + c + n /\ n \in Nat
      BY RefsSum DEF Counted
    <3>2. new \in Nat
      BY UsersCount
    <3>3. a \in Nat /\ c \in Nat /\ d \in Nat /\ e = IF last THEN 0 ELSE c
      BY <1>6 DEF Counted
    <3> QED
      BY <1>5, <3>1, <3>2, <3>3
  <2>2. left[v] = refs[v] - d - (IF last THEN c ELSE 0)
    OBVIOUS
  <2>3. Counted(VTablesOf(Places)', v) + Counted(pending', v) = a
    BY <1>1, <1>4
  <2> HIDE DEF n, new, a, c, d, e, left, last
  <2>4. left[v] \in Nat /\ left[v] <= refs[v] /\ left[v] = a + e + new
    BY <2>1, <2>2
  <2> QED
    BY <2>3, <2>4 DEF e, new
<1>8. Remain(left) /\ left = [v \in VTables |-> left[v]]
  BY <1>7 DEF Remain
<1>9. CursorsRemain
  BY <1>1, <1>2, <1>3 DEF TypeOK, CursorsRemain
<1>10. /\ attached' \in [Places -> VTables \cup {None}] /\ pending' \subseteq VTables
       /\ trans' \subseteq VTables /\ OneTable'
       /\ running' \subseteq Stmts /\ cursors' \subseteq running'
  BY <1>1, <1>2, <1>6 DEF TypeOK, OneTable
<1>11. CASE ~last
  <2>1. Settle(left, modRefs) /\ UNCHANGED << conn, registered, created >>
    BY <1>11 DEF Finalize
  <2>2. /\ conn' \in {"open", "zombie", "closed"} /\ created' \subseteq Tables /\ InSchema'
    BY <1>1, <1>2, <2>1 DEF TypeOK, InSchema
  <2>3. Rest' /\ ModsRemain(modRefs)
    BY <1>3, <1>10, <2>1, <2>2, ModsSum DEF Rest, ModsRemain
  <2> HIDE DEF left, last
  <2> QED
    BY <1>8, <1>9, <2>1, <2>3, SettleInv
<1>12. CASE last
  <2> DEFINE mods == [m \in Mods |-> modRefs[m] - Counted({registered}, m)]
  <2>1. conn' = "closed" /\ registered' = None /\ created' = {} /\ Settle(left, mods)
    BY <1>12 DEF Finalize, Freed
  <2>2. ModsRemain(mods)
    BY <2>1, Unregistered
  <2>3. InSchema'
    BY <1>1, <1>2, <1>12, <2>1 DEF InSchema, Places
  <2>4. Rest'
    BY <1>3, <1>10, <2>1, <2>3 DEF Rest
  <2> HIDE DEF left, last, mods
  <2> QED
    BY <1>8, <1>9, <2>1, <2>2, <2>4, SettleInv
<1> QED
  BY <1>11, <1>12
-----------------------------------------------------------------------------
LEMMA NextInv == ASSUME Inv, [Next]_vars PROVE Inv'
<1>1. CASE UNCHANGED vars
  <2>1. RefsCount' /\ ModsCount' /\ OneTable'
    BY <1>1, CountsSame DEF vars, moduleVars, vtableVars
  <2>2. TypeOK' /\ Linked' /\ InSchema' /\ Run' /\ CursorsHaveInstance'
    BY <1>1 DEF vars, moduleVars, vtableVars, Inv, Counts, TypeOK, Linked, InSchema, Run,
                CursorsHaveInstance
  <2> QED
    BY <2>1, <2>2 DEF Inv, Counts
<1>2. CASE Open
  BY <1>2, OpenInv
<1>3. CASE DropModule
  BY <1>3, DropModuleInv
<1>4. CASE ResetSchema
  BY <1>4, ResetSchemaInv
<1>5. CASE UnlockList
  BY <1>5, UnlockListInv
<1>6. CASE Finalise
  BY <1>6, FinaliseInv
<1>7. CASE Rollback
  BY <1>7, RollbackInv
<1>8. CASE \E v2 \in BOOLEAN : Close(v2)
  BY <1>8, CloseInv
<1>9. CASE \E m \in Mods : CreateModule(m)
  BY <1>9, CreateModuleInv
<1>10. CASE \E v \in VTables : CreateTableFails(v)
  BY <1>10, CreateTableFailsInv
<1>11. CASE \E v \in VTables, t \in Tables : CreateTable(t, v)
  BY <1>11, CreateTableInv
<1>12. CASE \E t \in Tables : DropTable(t)
  BY <1>12, DropTableInv
<1>13. CASE \E s \in Stmts : Step(s)
  BY <1>13, StepInv
<1>14. CASE \E s \in Stmts : OpenCursor(s)
  BY <1>14, OpenCursorInv
<1>15. CASE \E s \in Stmts : Begin(s)
  BY <1>15, BeginInv
<1>16. CASE \E s \in Stmts : Halt(s)
  BY <1>16, HaltInv
<1>17. CASE \E s \in Stmts : Finalize(s)
  BY <1>17, FinalizeInv
<1>18. CASE \E s \in Stmts, t \in Places : Prepare(s, t)
  BY <1>18, PrepareInv
<1> QED
  BY <1>1, <1>2, <1>3, <1>4, <1>5, <1>6, <1>7, <1>8, <1>9, <1>10, <1>11, <1>12, <1>13,
     <1>14, <1>15, <1>16, <1>17, <1>18 DEF Next

LEMMA Induction == Spec => []Inv
<1>1. Init => Inv
  BY InitInv
<1>2. Inv /\ [Next]_vars => Inv'
  BY NextInv
<1> QED
  BY <1>1, <1>2, PTL DEF Spec

(* Whatever the engine and its users do, each variable keeps its type:     *)
(* above all, the counts never fall below zero.                            *)
THEOREM Typed == Spec => []TypeOK
<1>1. Inv => TypeOK
  BY DEF Inv
<1> QED
  BY <1>1, Induction, PTL

(* nRef of a VTable is the number of tables, postponed disconnects,        *)
(* transactions and programs that refer to it, and nRefModule that of the  *)
(* VTables and names that refer to the module.                             *)
THEOREM CountsExact == Spec => []RefsExact
<1>1. ASSUME Inv PROVE RefsExact
  <2>1. ASSUME NEW v \in VTables
        PROVE  refs[v] = Cardinality({t \in Places : attached[t] = v})
                         + Counted(pending, v) + Counted(trans, v)
                         + Cardinality({s \in Stmts : prog[s] = v})
    BY <1>1, OneTableCount, RefsSum DEF Inv
  <2>2. ASSUME NEW m \in Mods
        PROVE  modRefs[m] = Counted({registered}, m) + Cardinality({v \in VTables : of[v] = m})
    BY <1>1, ModsSum DEF Owned
  <2> QED
    BY <2>1, <2>2 DEF RefsExact
<1> QED
  BY <1>1, Induction, PTL

(* An instance with an open cursor is neither disconnected nor destroyed,  *)
(* whatever becomes of its table, module, schema and connection.           *)
THEOREM CursorsSafe == Spec => []CursorsHaveInstance
<1>1. Inv => CursorsHaveInstance
  BY DEF Inv
<1> QED
  BY <1>1, Induction, PTL

(* A Go module is destroyed after the last of its instances.               *)
THEOREM ModulesLast == Spec => []ModuleOutlivesInstances
<1>1. ASSUME Inv PROVE ModuleOutlivesInstances
  <2> SUFFICES ASSUME NEW v \in VTables, inst[v] # "none"
               PROVE  of[v] \in Mods /\ modRefs[of[v]] > 0
    BY DEF ModuleOutlivesInstances
  <2>1. of[v] \in Mods
    BY <1>1 DEF Inv, Counts, Linked, TypeOK
  <2> DEFINE m == of[v]  n == Cardinality({w \in VTables : of[w] = m})
  <2>2. m \in Mods /\ m = of[v]
    BY <2>1
  <2> HIDE DEF m
  <2>3. n \in Nat /\ n > 0
    BY <2>2, OwnedCount
  <2>4. modRefs[m] = Counted({registered}, m) + n
    BY <1>1, <2>2, ModsSum DEF Owned
  <2> HIDE DEF n
  <2>5. modRefs[m] > 0
    BY <2>3, <2>4 DEF Counted
  <2> QED
    BY <2>2, <2>5
<1> QED
  BY <1>1, Induction, PTL

(* Only what is freed, or dropped with its table, loses its instance.      *)
LEMMA Disconnected ==
  ASSUME Inv, [Next]_vars, NEW v \in VTables, inst[v] # "none", inst'[v] = "none"
  PROVE  refs'[v] = 0 \/ created' # created
<1> USE DEF Inv, TypeOK
<1>1. CASE UNCHANGED inst
  BY <1>1
<1>2. ASSUME NEW left, NEW mods, Settle(left, mods) PROVE refs'[v] = 0
  BY <1>2 DEF Settle
<1>3. ASSUME NEW w \in VTables, NEW locks, Construct(w, locks) PROVE FALSE
  BY <1>3 DEF Construct, NewInstance
<1>4. ASSUME NEW t \in Tables, DropTable(t) PROVE created' # created
  BY <1>4 DEF DropTable, FreedInstance
<1>5. CASE ResetSchema
  BY <1>1, <1>2, <1>5 DEF ResetSchema, Unlock, vtableVars
<1>6. CASE UnlockList \/ Finalise \/ Rollback
  BY <1>2, <1>6 DEF UnlockList, Finalise, Rollback, Unlock
<1>7. CASE \E v2 \in BOOLEAN : Close(v2)
  BY <1>2, <1>7 DEF Close, Freed
<1>8. CASE \E s \in Stmts : Finalize(s)
  BY <1>2, <1>8 DEF Finalize, Freed
<1>9. CASE \E w \in VTables : CreateTableFails(w) \/ \E t \in Tables : CreateTable(t, w)
  BY <1>3, <1>9 DEF CreateTable, CreateTableFails
<1>10. CASE \E s \in Stmts, t \in Places : Prepare(s, t)
  BY <1>1, <1>3, <1>10 DEF Prepare
<1>11. CASE \/ UNCHANGED vars \/ Open \/ DropModule
            \/ \E m \in Mods : CreateModule(m)
            \/ \E s \in Stmts : Step(s) \/ OpenCursor(s) \/ Begin(s) \/ Halt(s)
  BY <1>1, <1>11 DEF vars, Open, DropModule, CreateModule, Step, OpenCursor, Begin, Halt, vtableVars
<1> QED
  BY <1>4, <1>5, <1>6, <1>7, <1>8, <1>9, <1>10, <1>11 DEF Next

(* An instance in a transaction is not disconnected before it has heard    *)
(* how the transaction ended, but for one whose table is dropped.          *)
THEOREM TransactionHeard == Spec => TransactionEndsFirst
<1>1. ASSUME Inv, Inv', [Next]_vars
      PROVE  [\A v \in trans : inst[v] # "none" /\ inst'[v] = "none"
                               => v \notin trans' \/ created' # created]_vars
  <2> SUFFICES ASSUME NEW v \in trans, inst[v] # "none", inst'[v] = "none", v \in trans'
               PROVE  created' # created
    OBVIOUS
  <2>1. v \in VTables
    BY <1>1 DEF Inv, TypeOK
  <2>2. refs'[v] # 0
    <3> DEFINE n == Cardinality({s \in Stmts : prog'[s] = v})
    <3>1. n \in Nat
      BY UsersCount
    <3>2. refs'[v] = Counted(VTablesOf(Places)', v) + Counted(pending', v) + Counted(trans', v) + n
      BY <1>1, <2>1 DEF Inv, Counts, RefsCount, Users, Counted
    <3> HIDE DEF n
    <3> QED
      BY <3>1, <3>2 DEF Counted
  <2> QED
    BY <1>1, <2>1, <2>2, Disconnected
<1> QED
  BY <1>1, Induction, PTL DEF Spec, TransactionEndsFirst
=============================================================================
