---------------------------- MODULE VirtualTables ----------------------------
(***************************************************************************)
(* Virtual tables written in Go (build/vtab.c and what it reaches in       *)
(* sqlite3.go), for one connection and one module name.                    *)
(*                                                                         *)
(* A module stands for a go_module with the handle in it.  The engine      *)
(* makes a VTable for each table it connects; the VTable owns an instance, *)
(* the go_vtab that Go gave a handle to.  Modules and VTables are freed by *)
(* reference counts, and what refers to them is spread over the schema,    *)
(* compiled programs, the transaction and a list of postponed disconnects. *)
(***************************************************************************)
EXTENDS Integers, FiniteSets

CONSTANTS Mods,        \* bound: modules that may be allocated at a time
          VTables,     \* bound: VTables that may be allocated at a time
          Tables,      \* tables made by CREATE VIRTUAL TABLE
          Eponymous,   \* the table that has the name of its module
          Stmts,       \* statements, each of which uses one table
          None

ASSUME NoneAssumption == None \notin Mods \cup VTables
ASSUME EponymousAssumption == Eponymous \notin Tables
ASSUME FiniteAssumption == IsFiniteSet(VTables) /\ IsFiniteSet(Stmts)

VARIABLES
  conn,         \* "open", "zombie" or "closed"
  registered,   \* the module now registered under the name
  modRefs,      \* nRefModule of each module, 0 if there is no such module
  lost,         \* modules that were refused without being destroyed
  created,      \* the tables in the schema
  attached,     \* the VTable of each table
  pending,      \* db->pDisconnect: VTables to unlock later
  refs,         \* nRef of each VTable, 0 if there is no such VTable
  of,           \* the module of each VTable
  inst,         \* its instance: "none", "live", or "freed" but still pointed to
  prog,         \* the VTable a statement's program refers to
  running,      \* statements that run
  cursors,      \* those with an open cursor
  trans         \* db->aVTrans: VTables that take part in the transaction

moduleVars == << registered, modRefs, lost >>
vtableVars == << refs, of, inst >>
vars == << conn, moduleVars, created, attached, pending, vtableVars,
           prog, running, cursors, trans >>

Places == Tables \cup {Eponymous}

Init ==
  /\ conn = "closed"
  /\ registered = None
  /\ modRefs = [m \in Mods |-> 0]
  /\ lost = {}
  /\ created = {}
  /\ attached = [t \in Places |-> None]
  /\ pending = {}
  /\ refs = [v \in VTables |-> 0]
  /\ of = [v \in VTables |-> None]
  /\ inst = [v \in VTables |-> "none"]
  /\ prog = [s \in Stmts |-> None]
  /\ running = {}
  /\ cursors = {}
  /\ trans = {}
-----------------------------------------------------------------------------
(* References. *)

Counted(S, v) == IF v \in S THEN 1 ELSE 0

\* Mutant: a VTable that is freed keeps its reference to the module.
SettleKeepsModule(left, mods) ==
  LET gone == {v \in VTables : refs[v] > 0 /\ left[v] = 0}
  IN  /\ refs' = left
      /\ modRefs' = mods
      /\ of' = [v \in VTables |-> IF v \in gone THEN None ELSE of[v]]
      /\ inst' = [v \in VTables |-> IF v \in gone THEN "none" ELSE inst[v]]

(* sqlite3VtabUnlock: a VTable without references disconnects its instance *)
(* and gives up its module; a module without references destroys its       *)
(* handle.  left are the references to VTables that remain, and mods those *)
(* to modules but for what the freed VTables give up.                      *)
Settle(left, mods) ==
  LET gone == {v \in VTables : refs[v] > 0 /\ left[v] = 0}
  IN  /\ refs' = left
      /\ modRefs' = [m \in Mods |-> mods[m] - Cardinality({v \in gone : of[v] = m})]
      /\ of' = [v \in VTables |-> IF v \in gone THEN None ELSE of[v]]
      /\ inst' = [v \in VTables |-> IF v \in gone THEN "none" ELSE inst[v]]

Unlock(S) == Settle([v \in VTables |-> refs[v] - Counted(S, v)], modRefs)

VTablesOf(S) == {attached[t] : t \in S} \ {None}

Detach == attached' = [t \in Places |-> IF t \in Tables THEN None ELSE attached[t]]

(* The create and connect wrappers: the instance of a call that fails is   *)
(* freed there and then, so that only a call that succeeds leaves one.     *)
NewInstance(v) == inst' = [inst EXCEPT ![v] = "live"]

(* vtabCallConstructor, if it succeeds: a new VTable, with the reference   *)
(* of the table and as many locks as the caller takes.                     *)
Construct(v, locks) ==
  /\ registered # None
  /\ refs[v] = 0
  /\ refs' = [refs EXCEPT ![v] = 1 + locks]
  /\ of' = [of EXCEPT ![v] = registered]
  /\ NewInstance(v)
  /\ modRefs' = [modRefs EXCEPT ![registered] = @ + 1]
-----------------------------------------------------------------------------
(* Modules. *)

\* Mutant: the module that is replaced is destroyed, whoever refers to it.
ReplaceDestroys(new) ==
  /\ registered' = new
  /\ modRefs' = [m \in Mods |-> IF m = registered THEN 0
                                ELSE IF m = new THEN 1 ELSE modRefs[m]]
  /\ attached' = [attached EXCEPT ![Eponymous] = None]
  /\ pending' = pending \cup VTablesOf({Eponymous})

(* sqlite3VtabCreateModule: the module that is replaced loses the          *)
(* reference of the hash table; its eponymous table is postponed.          *)
Replace(new) ==
  /\ registered' = new
  /\ modRefs' = [m \in Mods |-> modRefs[m] + Counted({new}, m) - Counted({registered}, m)]
  /\ attached' = [attached EXCEPT ![Eponymous] = None]
  /\ pending' = pending \cup VTablesOf({Eponymous})

(* A module that is refused for want of memory is destroyed at once; one   *)
(* for a connection that is not open is not.                               *)
CreateModule(m) ==
  /\ conn # "closed"
  /\ modRefs[m] = 0 /\ m \notin lost
  /\ \/ conn = "open" /\ Replace(m) /\ UNCHANGED lost
     \/ /\ conn = "zombie"
        /\ lost' = lost \cup {m}
        /\ UNCHANGED << registered, modRefs, attached, pending >>
  /\ UNCHANGED << conn, created, vtableVars, prog, running, cursors, trans >>

DropModule ==
  /\ conn = "open" /\ registered # None
  /\ Replace(None)
  /\ UNCHANGED << conn, lost, created, vtableVars, prog, running, cursors, trans >>
-----------------------------------------------------------------------------
(* Tables. *)

(* OP_VCreate: the instance is made by xCreate, and takes part in the      *)
(* transaction from the start.                                             *)
CreateTable(t, v) ==
  /\ conn = "open" /\ t \notin created
  /\ Construct(v, 1)
  /\ created' = created \cup {t}
  /\ attached' = [attached EXCEPT ![t] = v]
  /\ trans' = trans \cup {v}
  /\ UNCHANGED << conn, registered, lost, pending, prog, running, cursors >>

(* There was no memory for the transaction.  The statement fails, and with *)
(* it goes the schema it has changed: its VTables are postponed.           *)
CreateTableFails(v) ==
  /\ conn = "open"
  /\ Construct(v, 0)
  /\ Detach
  /\ pending' = pending \cup VTablesOf(Tables) \cup {v}
  /\ UNCHANGED << conn, registered, lost, created, prog, running, cursors, trans >>

\* Mutant: cursors are not looked at.
DropTableInUse(t) ==
  LET v == attached[t]
  IN  /\ conn = "open" /\ t \in created
      /\ v # None
      /\ LET left == [refs EXCEPT ![v] = @ - 1]
         IN  /\ refs' = left
             /\ inst' = [inst EXCEPT ![v] = "none"]
             /\ of' = [of EXCEPT ![v] = IF left[v] = 0 THEN None ELSE @]
             /\ modRefs' = [modRefs EXCEPT ![of[v]] = IF left[v] = 0 THEN @ - 1 ELSE @]
      /\ created' = created \ {t}
      /\ attached' = [attached EXCEPT ![t] = None]
      /\ UNCHANGED << conn, registered, lost, pending, prog, running, cursors, trans >>

InUse(v) == \E s \in cursors : prog[s] = v

(* The wrapper frees the instance whether or not xDestroy succeeded.       *)
FreedInstance(v, succeeded) ==
  inst' = [inst EXCEPT ![v] = IF succeeded THEN "none" ELSE "freed"]

(* OP_VDestroy: refused while a cursor is open.  If xDestroy fails, the    *)
(* engine keeps the table and its instance.                                *)
DropTable(t) ==
  LET v    == attached[t]
      left == [refs EXCEPT ![v] = @ - 1]
  IN  /\ conn = "open" /\ t \in created
      /\ v # None /\ inst[v] = "live" /\ ~InUse(v)
      /\ \/ /\ FreedInstance(v, TRUE)
            /\ created' = created \ {t}
            /\ attached' = [attached EXCEPT ![t] = None]
            /\ refs' = left
            /\ of' = [of EXCEPT ![v] = IF left[v] = 0 THEN None ELSE @]
            /\ modRefs' = [modRefs EXCEPT ![of[v]] = IF left[v] = 0 THEN @ - 1 ELSE @]
         \/ /\ FreedInstance(v, FALSE)
            /\ UNCHANGED << created, attached, refs, of, modRefs >>
  /\ UNCHANGED << conn, registered, lost, pending, prog, running, cursors, trans >>

(* The schema is read anew: the VTables of its tables are postponed, or    *)
(* unlocked at once if all of the schema goes.                             *)
ResetSchema ==
  LET old == VTablesOf(Tables)
  IN  /\ conn = "open" /\ old # {}
      /\ Detach
      /\ \/ pending' = pending \cup old /\ UNCHANGED << vtableVars, modRefs >>
         \/ pending' = {} /\ Unlock(pending \cup old)
      /\ UNCHANGED << conn, registered, lost, created, prog, running, cursors, trans >>
-----------------------------------------------------------------------------
(* Statements. *)

(* sqlite3Prepare: what was postponed is unlocked first, also if the text  *)
(* does not compile; then the table is connected, if it is not, and the    *)
(* program locks its VTable.                                               *)
UnlockList ==
  /\ conn = "open" /\ pending # {}
  /\ pending' = {}
  /\ Unlock(pending)
  /\ UNCHANGED << conn, registered, lost, created, attached, prog, running, cursors, trans >>

Prepare(s, t) ==
  /\ conn = "open" /\ s \notin running /\ prog[s] = None
  /\ t = Eponymous \/ t \in created
  /\ pending = {}
  /\ \/ /\ attached[t] # None
        /\ prog' = [prog EXCEPT ![s] = attached[t]]
        /\ refs' = [refs EXCEPT ![attached[t]] = @ + 1]
        /\ UNCHANGED << attached, of, inst, modRefs >>
     \/ /\ attached[t] = None
        /\ \E v \in VTables :
             /\ Construct(v, 1)
             /\ attached' = [attached EXCEPT ![t] = v]
             /\ prog' = [prog EXCEPT ![s] = v]
  /\ UNCHANGED << conn, registered, lost, created, pending, running, cursors, trans >>

Step(s) ==
  /\ prog[s] # None /\ s \notin running
  /\ running' = running \cup {s}
  /\ UNCHANGED << conn, moduleVars, created, attached, pending, vtableVars,
                  prog, cursors, trans >>

(* OP_VOpen: an instance that was destroyed is not opened.                 *)
OpenCursor(s) ==
  /\ s \in running \ cursors /\ inst[prog[s]] # "none"
  /\ cursors' = cursors \cup {s}
  /\ UNCHANGED << conn, moduleVars, created, attached, pending, vtableVars,
                  prog, running, trans >>

\* Mutant: the transaction does not lock the VTable.
BeginUnlocked(s) ==
  /\ s \in running /\ inst[prog[s]] # "none" /\ prog[s] \notin trans
  /\ trans' = trans \cup {prog[s]}
  /\ UNCHANGED << conn, moduleVars, created, attached, pending, vtableVars,
                  prog, running, cursors >>

(* OP_VBegin, for a table that is written.                                 *)
Begin(s) ==
  LET v == prog[s]
  IN  /\ s \in running /\ inst[v] # "none" /\ v \notin trans
      /\ trans' = trans \cup {v}
      /\ refs' = [refs EXCEPT ![v] = @ + 1]
  /\ UNCHANGED << conn, moduleVars, created, attached, pending, of, inst,
                  prog, running, cursors >>

Halt(s) ==
  /\ s \in running
  /\ running' = running \ {s}
  /\ cursors' = cursors \ {s}
  /\ UNCHANGED << conn, moduleVars, created, attached, pending, vtableVars, prog, trans >>

(* callFinaliser: xCommit or xRollback of every VTable in the transaction. *)
Finalise ==
  /\ conn # "closed" /\ trans # {}
  /\ trans' = {}
  /\ Unlock(trans)
  /\ UNCHANGED << conn, registered, lost, created, attached, pending, prog, running, cursors >>

(* sqlite3RollbackAll of a transaction that changed the schema: tables it  *)
(* created are no more, and all of the schema goes.                        *)
Rollback ==
  /\ conn = "open" /\ trans # {}
  /\ \E gone \in SUBSET {t \in created : attached[t] \in trans \cup {None}} :
       created' = created \ gone
  /\ trans' = {} /\ pending' = {}
  /\ Detach
  /\ Settle([v \in VTables |-> refs[v] - Counted(trans, v)
                               - Counted(pending \cup VTablesOf(Tables), v)], modRefs)
  /\ UNCHANGED << conn, registered, lost, prog, running, cursors >>
-----------------------------------------------------------------------------
(* The connection. *)

Open ==
  /\ conn = "closed"
  /\ conn' = "open"
  /\ UNCHANGED << moduleVars, created, attached, pending, vtableVars,
                  prog, running, cursors, trans >>

(* Freed at last: the modules that are still registered are released.      *)
Freed(left) ==
  /\ conn' = "closed"
  /\ registered' = None
  /\ created' = {}
  /\ trans' = {}
  /\ Settle(left, [m \in Mods |-> modRefs[m] - Counted({registered}, m)])

(* sqlite3Close: tables are disconnected and the transaction is rolled     *)
(* back before a busy connection is refused, or left as a zombie.          *)
Close(v2) ==
  LET left == [v \in VTables |-> refs[v] - Counted(VTablesOf(Places), v)
                                         - Counted(pending, v) - Counted(trans, v)]
  IN  /\ conn = "open"
      /\ attached' = [t \in Places |-> None]
      /\ pending' = {}
      /\ IF \E s \in Stmts : prog[s] # None
         THEN /\ conn' = IF v2 THEN "zombie" ELSE "open"
              /\ trans' = {}
              /\ Settle(left, modRefs)
              /\ UNCHANGED << registered, created >>
         ELSE Freed(left)
      /\ UNCHANGED << lost, prog, running, cursors >>

(* freeP4 unlocks; the last statement of a zombie frees the connection.    *)
Finalize(s) ==
  LET last == conn = "zombie" /\ \A r \in Stmts \ {s} : prog[r] = None
      left == [v \in VTables |->
                 refs[v] - Counted({prog[s]}, v) - (IF last THEN Counted(trans, v) ELSE 0)]
  IN  /\ prog[s] # None
      /\ prog' = [prog EXCEPT ![s] = None]
      /\ running' = running \ {s}
      /\ cursors' = cursors \ {s}
      /\ IF last THEN Freed(left)
         ELSE Settle(left, modRefs) /\ UNCHANGED << conn, registered, created, trans >>
      /\ UNCHANGED << lost, attached, pending >>
-----------------------------------------------------------------------------
(* The engine will use an instance the wrapper has freed: what it does is  *)
(* undefined from here on, and not followed.                               *)
Undefined == \E v \in VTables : inst[v] = "freed"

Next ==
  \/ Undefined /\ UNCHANGED vars
  \/ /\ ~Undefined
     /\ \/ Open \/ DropModule \/ ResetSchema \/ UnlockList \/ Finalise \/ Rollback
        \/ \E v2 \in BOOLEAN : Close(v2)
        \/ \E m \in Mods : CreateModule(m)
        \/ \E v \in VTables : CreateTableFails(v) \/ \E t \in Tables : CreateTable(t, v)
        \/ \E t \in Tables : DropTable(t)
        \/ \E s \in Stmts :
             \/ Step(s) \/ OpenCursor(s) \/ Begin(s) \/ Halt(s) \/ Finalize(s)
             \/ \E t \in Places : Prepare(s, t)

Spec == Init /\ [][Next]_vars
-----------------------------------------------------------------------------
TypeOK ==
  /\ conn \in {"open", "zombie", "closed"}
  /\ registered \in Mods \cup {None}
  /\ modRefs \in [Mods -> Nat]
  /\ lost \subseteq Mods
  /\ created \subseteq Tables
  /\ attached \in [Places -> VTables \cup {None}]
  /\ pending \subseteq VTables
  /\ refs \in [VTables -> Nat]
  /\ of \in [VTables -> Mods \cup {None}]
  /\ inst \in [VTables -> {"none", "live", "freed"}]
  /\ prog \in [Stmts -> VTables \cup {None}]
  /\ cursors \subseteq running /\ running \subseteq Stmts
  /\ trans \subseteq VTables

(* Each count is the number of references there are: a VTable or module is *)
(* freed when the last of them goes, neither earlier nor never.            *)
RefsExact ==
  /\ \A v \in VTables :
       refs[v] = Cardinality({t \in Places : attached[t] = v})
                 + Counted(pending, v) + Counted(trans, v)
                 + Cardinality({s \in Stmts : prog[s] = v})
  /\ \A m \in Mods :
       modRefs[m] = Counted({registered}, m) + Cardinality({v \in VTables : of[v] = m})

(* No instance is disconnected or destroyed while a cursor is open on it,  *)
(* although the table may be dropped, its module replaced, its schema      *)
(* reset or the connection closed meanwhile.                               *)
CursorsHaveInstance == \A s \in cursors : inst[prog[s]] # "none"

(* Go's module outlives its instances: it is there to be asked when an     *)
(* instance is disconnected long after the module was replaced.            *)
ModuleOutlivesInstances ==
  \A v \in VTables : inst[v] # "none" => of[v] \in Mods /\ modRefs[of[v]] > 0

(* An instance that takes part in a transaction hears how it ended before  *)
(* it is disconnected, unless its table is dropped.                        *)
TransactionEndsFirst ==
  [][\A v \in trans :
       inst[v] # "none" /\ inst'[v] = "none" => v \notin trans' \/ created' # created]_vars
=============================================================================
