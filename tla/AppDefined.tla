----------------------------- MODULE AppDefined ------------------------------
(***************************************************************************)
(* Application-defined SQL functions, collations, autovacuum callbacks,    *)
(* bound pointers, auxiliary data and pointer results of one connection,   *)
(* and the statements that use them (build/func.c, hooks.c, pointer.c and  *)
(* the parts of sqlite3.go they reach).                                    *)
(*                                                                         *)
(* The connection is used by one goroutine at a time, but calls nest: a    *)
(* statement that is running (between two rows, or inside a callback)      *)
(* leaves the caller free to register, delete, prepare, step or close.     *)
(***************************************************************************)
EXTENDS Integers

CONSTANTS Handles,     \* Go handles; freed ones are reused
          None,        \* the NULL handle
          Names,       \* function names
          Arities,     \* the nArg values functions are registered with; -1 is any
          Colls,       \* collation names
          Stmts,       \* prepared statements
          Vars,        \* parameters of a statement
          AuxArgs,     \* argument positions of the calls in a statement
          ConstArgs,   \* those whose expression is a constant
          Sql          \* what each statement's text refers to

ASSUME HandlesAssumption == None \notin Handles
ASSUME AritiesAssumption == Arities \subseteq Int
ASSUME CollsAssumption == None \notin Colls
ASSUME ConstArgsAssumption == ConstArgs \subseteq AuxArgs
ASSUME SqlAssumption ==
  Sql \in [Stmts -> [calls : SUBSET (Names \X Nat), coll : Colls \cup {None}]]

FuncSlots  == {"func"} \X Names \X Arities
CollSlots  == {"coll"} \X Colls
Autovacuum == << "autovacuum" >>
ConnSlots  == FuncSlots \cup CollSlots \cup {Autovacuum}

VarSlots   == {"var"} \X Stmts \X Vars
AuxSlots   == {"aux"} \X Stmts \X AuxArgs
ResultSlots == {"result"} \X Stmts
Slots      == ConnSlots \cup VarSlots \cup AuxSlots \cup ResultSlots

CollSlot(c)    == << "coll", c >>
VarSlot(s, i)  == << "var", s, i >>
AuxSlot(s, a)  == << "aux", s, a >>
ResultSlot(s)  == << "result", s >>

ScratchSlots(s) == {AuxSlot(s, a) : a \in AuxArgs} \cup {ResultSlot(s)}
BoundSlots(s)   == {VarSlot(s, i) : i \in Vars}

VARIABLES
  conn,      \* eOpenState: "open", "zombie" (closed, still in use) or "closed"
  utf16,     \* the encoding of the database is UTF-16
  backup,    \* a backup reads from this connection
  st,        \* statement: "none", "ready", "run", "call" (run, in a function), "halt"
  expired,   \* the statement must be prepared again before it runs
  prog,      \* the function and collation slots its program points to
  defined,   \* the function slots that have an entry, perhaps a deleted one
  copy,      \* the UTF-16 entry of a collation, synthesised from the UTF-8 one
  held,      \* the handle each slot holds
  hs,        \* Go's handle table: "free", "live", or "broken" by a bad destroy
  lost       \* handles accepted by no slot and never destroyed

stmtVars == << st, expired, prog >>
vars == << conn, utf16, backup, st, expired, prog, defined, copy, held, hs, lost >>
-----------------------------------------------------------------------------
(* Handles. *)

Free == {h \in Handles : hs[h] = "free"}

AddHandle(table, h) == [table EXCEPT ![h] = "live"]

go_destroy(table, h) ==
  [table EXCEPT ![h] = IF @ = "live" THEN "free" ELSE "broken"]

(* The table after the handles in R were destroyed, one call for each slot. *)
DestroyHeld(R) ==
  [h \in Handles |->
     IF \A sl \in R : held[sl] # h THEN hs[h]
     ELSE IF /\ hs[h] = "live"
             /\ \A sl1, sl2 \in R : held[sl1] = h /\ held[sl2] = h => sl1 = sl2
          THEN "free" ELSE "broken"]

Release(R) ==
  /\ hs' = DestroyHeld(R)
  /\ held' = [sl \in Slots |-> IF sl \in R THEN None ELSE held[sl]]

\* Mutant: what the slot held is forgotten, not destroyed.
StoreWithoutDestroy(sl, h) ==
  /\ hs' = AddHandle(hs, h)
  /\ held' = [held EXCEPT ![sl] = h]

Store(sl, h) ==
  /\ hs' = AddHandle(DestroyHeld({sl}), h)
  /\ held' = [held EXCEPT ![sl] = h]

\* Mutant: both the engine and the glue destroy the refused handle.
RefuseTwice(h) ==
  /\ hs' = go_destroy(go_destroy(AddHandle(hs, h), h), h)
  /\ UNCHANGED held

(* The call fails, and the destructor is called on what it was given.      *)
Refuse(h) ==
  /\ hs' = go_destroy(AddHandle(hs, h), h)
  /\ UNCHANGED held
-----------------------------------------------------------------------------
Running(s) == st[s] \in {"run", "call"}

VdbeActive == \E s \in Stmts : Running(s)

\* Mutant: statements keep the program compiled against the old entry.
ExpireNone == expired

ExpirePreparedStatements == [s \in Stmts |-> st[s] # "none"]

connectionIsBusy == backup \/ \E s \in Stmts : st[s] # "none"

\* Mutant: the autovacuum callback is not given back.
CloseZombieKeepsAutovacuum(c, R) ==
  IF c = "zombie" /\ ~connectionIsBusy'
  THEN /\ conn' = "closed"
       /\ Release(R \cup FuncSlots \cup CollSlots)
       /\ defined' = {}
       /\ copy' = [n \in Colls |-> None]
  ELSE /\ conn' = c
       /\ Release(R)
       /\ UNCHANGED << defined, copy >>

(* Frees a zombie connection that is no longer used, and with it every     *)
(* function, collation and callback; c is the state the call leaves the    *)
(* connection in, and R the slots the call itself has released.            *)
LeaveMutexAndCloseZombie(c, R) ==
  IF c = "zombie" /\ ~connectionIsBusy'
  THEN /\ conn' = "closed"
       /\ Release(R \cup ConnSlots)
       /\ defined' = {}
       /\ copy' = [n \in Colls |-> None]
  ELSE /\ conn' = c
       /\ Release(R)
       /\ UNCHANGED << defined, copy >>
-----------------------------------------------------------------------------
(* Registration. *)

(* createFunctionApi: a connection that is not open fails the safety check *)
(* before the destructor is taken charge of.  The destructor record, or a  *)
(* new entry, may not be allocated; an entry in use is not replaced.       *)
CreateFunction(f, h) ==
  /\ conn # "closed"
  /\ h \in Free
  /\ \/ /\ conn = "zombie"
        /\ hs' = AddHandle(hs, h)
        /\ lost' = lost \cup {h}
        /\ UNCHANGED << held, defined, expired >>
     \/ /\ conn = "open"
        /\ Refuse(h)
        /\ UNCHANGED << lost, defined, expired >>
     \/ /\ conn = "open"
        /\ held[f] # None => ~VdbeActive
        /\ Store(f, h)
        /\ defined' = defined \cup {f}
        /\ expired' = IF held[f] # None THEN ExpirePreparedStatements ELSE expired
        /\ UNCHANGED lost
  /\ UNCHANGED << conn, utf16, backup, st, prog, copy >>

(* The entry stays, without a function; with no entry nothing happens.     *)
DeleteFunction(f) ==
  /\ conn = "open"
  /\ held[f] # None
  /\ ~VdbeActive
  /\ Release({f})
  /\ expired' = ExpirePreparedStatements
  /\ UNCHANGED << conn, utf16, backup, st, prog, defined, copy, lost >>

(* Replacing or deleting a collation: the synthesised copies go with it.   *)
ReplaceableAlways(c) == TRUE       \* mutant: no BUSY while statements run
ReplaceableColl(c) == held[CollSlot(c)] # None => ~VdbeActive
CopyKept(c) == copy                \* mutant: only the UTF-8 entry is cleared
CopyDropped(c) == [copy EXCEPT ![c] = None]
ExpiredByColl(c) ==
  IF held[CollSlot(c)] # None THEN ExpirePreparedStatements ELSE expired

CreateCollation(c, h) ==
  /\ conn # "closed"
  /\ h \in Free
  /\ \/ /\ Refuse(h)
        /\ UNCHANGED << copy, expired >>
     \/ /\ conn = "open"
        /\ ReplaceableColl(c)
        /\ Store(CollSlot(c), h)
        /\ copy' = CopyDropped(c)
        /\ expired' = ExpiredByColl(c)
  /\ UNCHANGED << conn, utf16, backup, st, prog, defined, lost >>

DeleteCollation(c) ==
  /\ conn = "open"
  /\ held[CollSlot(c)] # None
  /\ ReplaceableColl(c)
  /\ Release({CollSlot(c)})
  /\ copy' = CopyDropped(c)
  /\ expired' = ExpiredByColl(c)
  /\ UNCHANGED << conn, utf16, backup, st, prog, defined, lost >>

AutovacuumPages(h) ==
  /\ conn # "closed"
  /\ h \in Free
  /\ IF conn = "open" THEN Store(Autovacuum, h) ELSE Refuse(h)
  /\ UNCHANGED << conn, utf16, backup, stmtVars, defined, copy, lost >>

AutovacuumOff ==
  /\ conn = "open"
  /\ Release({Autovacuum})
  /\ UNCHANGED << conn, utf16, backup, stmtVars, defined, copy, lost >>

(* Installing an authorizer has every statement prepared again; those that *)
(* run are left alone until they end.                                      *)
SetAuthorizer ==
  /\ conn = "open"
  /\ expired' = ExpirePreparedStatements
  /\ UNCHANGED << conn, utf16, backup, st, prog, defined, copy, held, hs, lost >>
-----------------------------------------------------------------------------
(* Statements. *)

matchQuality(f, nArg) ==
  CASE f[3] = nArg -> 2
    [] f[3] # nArg /\ f[3] = -1 -> 1
    [] OTHER -> 0

(* The best entry for a call, None if there is none or it was deleted.     *)
FindFunction(call) ==
  LET fits == {f \in defined : f[2] = call[1] /\ matchQuality(f, call[2]) > 0}
      best == CHOOSE f \in fits :
                \A g \in fits : matchQuality(g, call[2]) <= matchQuality(f, call[2])
  IN  IF fits = {} THEN None
      ELSE IF held[best] = None THEN None ELSE best

FunctionsAssumed(s) == TRUE        \* mutant: "no such function" is not reported
FunctionsFound(s) == \A call \in Sql[s].calls : FindFunction(call) # None

(* The entry of a collation for the encoding of the database.              *)
CollEntry(c) == IF utf16 THEN copy[c] ELSE held[CollSlot(c)]

Linked(s) ==
  {FindFunction(call) : call \in Sql[s].calls}
    \cup (IF Sql[s].coll = None THEN {} ELSE {CollSlot(Sql[s].coll)})

(* synthCollSeq: a collation that lacks an entry for the encoding of the   *)
(* database gets a copy of the UTF-8 one, without its destructor.          *)
Synthesised(cp, s) ==
  LET c == Sql[s].coll
  IN  IF utf16 /\ c # None
      THEN [cp EXCEPT ![c] = IF @ = None THEN held'[CollSlot(c)] ELSE @]
      ELSE cp

Link(s, exp, cp) ==
  /\ prog' = [prog EXCEPT ![s] = Linked(s)]
  /\ expired' = [exp EXCEPT ![s] = FALSE]
  /\ copy' = Synthesised(cp, s)

(* Compiles the statement's text.  For a collation without an entry the    *)
(* collation-needed callback is called, and it may register the collation. *)
Compile(s) ==
  /\ conn = "open"
  /\ FunctionsFound(s)
  /\ LET c == Sql[s].coll IN
     \/ /\ c # None => held[CollSlot(c)] # None
        /\ UNCHANGED << held, hs >>
        /\ Link(s, expired, copy)
     \/ /\ c # None
        /\ CollEntry(c) = None
        /\ ReplaceableColl(c)
        /\ \E h \in Free : Store(CollSlot(c), h)
        /\ Link(s, ExpiredByColl(c), CopyDropped(c))

Prepare(s) ==
  /\ st[s] = "none"
  /\ Compile(s)
  /\ st' = [st EXCEPT ![s] = "ready"]
  /\ UNCHANGED << conn, utf16, backup, defined, lost >>

(* sqlite3_step on a statement that does not run starts it; an expired one *)
(* is compiled again first, and keeps its bindings.                        *)
Step(s) ==
  /\ st[s] \in {"ready", "halt"}
  /\ IF expired[s] THEN Compile(s) ELSE UNCHANGED << expired, prog, copy, held, hs >>
  /\ st' = [st EXCEPT ![s] = "run"]
  /\ UNCHANGED << conn, utf16, backup, defined, lost >>

(* The program calls one of its functions; control is in Go until Return.  *)
CallFunction(s) ==
  /\ st[s] = "run"
  /\ prog[s] \cap FuncSlots # {}
  /\ st' = [st EXCEPT ![s] = "call"]
  /\ UNCHANGED << conn, utf16, backup, expired, prog, defined, copy, held, hs, lost >>

(* When the function returns, auxiliary data of arguments that are not     *)
(* constant is deleted.                                                    *)
Return(s) ==
  /\ st[s] = "call"
  /\ Release({AuxSlot(s, a) : a \in AuxArgs \ ConstArgs})
  /\ st' = [st EXCEPT ![s] = "run"]
  /\ UNCHANGED << conn, utf16, backup, expired, prog, defined, copy, lost >>

SetAuxdata(s, a, h) ==
  /\ st[s] = "call"
  /\ h \in Free
  /\ \/ held[AuxSlot(s, a)] = None /\ Refuse(h)      \* no memory for a new one
     \/ Store(AuxSlot(s, a), h)
  /\ UNCHANGED << conn, utf16, backup, stmtVars, defined, copy, lost >>

ResultPointer(s, h) ==
  /\ st[s] = "call"
  /\ h \in Free
  /\ Store(ResultSlot(s), h)
  /\ UNCHANGED << conn, utf16, backup, stmtVars, defined, copy, lost >>

(* Any other result in the same register.                                  *)
ResultOther(s) ==
  /\ st[s] = "call"
  /\ Release({ResultSlot(s)})
  /\ UNCHANGED << conn, utf16, backup, stmtVars, defined, copy, lost >>

(* The program ends or fails.  It may have found the schema changed.       *)
VdbeHalt(s) ==
  /\ st[s] = "run"
  /\ Release(ScratchSlots(s))
  /\ st' = [st EXCEPT ![s] = "halt"]
  /\ expired' \in {expired, [expired EXCEPT ![s] = TRUE]}
  /\ UNCHANGED << conn, utf16, backup, prog, defined, copy, lost >>

\* Mutant: a running program is rewound without being halted.
ResetWithoutHalt(s) ==
  /\ st[s] \in {"run", "halt"}
  /\ st' = [st EXCEPT ![s] = "ready"]
  /\ UNCHANGED << conn, utf16, backup, expired, prog, defined, copy, held, hs, lost >>

Reset(s) ==
  /\ st[s] \in {"run", "halt"}
  /\ Release(IF st[s] = "run" THEN ScratchSlots(s) ELSE {})
  /\ st' = [st EXCEPT ![s] = "ready"]
  /\ UNCHANGED << conn, utf16, backup, expired, prog, defined, copy, lost >>

(* Binding is refused unless the statement is ready, or if there is no     *)
(* such parameter.  The program may depend on the value that is replaced.  *)
BindPointer(s, i, h) ==
  /\ st[s] # "none"
  /\ h \in Free
  /\ \/ Refuse(h) /\ UNCHANGED expired
     \/ /\ st[s] = "ready"
        /\ Store(VarSlot(s, i), h)
        /\ expired' \in {expired, [expired EXCEPT ![s] = TRUE]}
  /\ UNCHANGED << conn, utf16, backup, st, prog, defined, copy, lost >>

(* Not refused while the statement runs.                                   *)
ClearBindings(s) ==
  /\ st[s] # "none"
  /\ Release(BoundSlots(s))
  /\ expired' \in {expired, [expired EXCEPT ![s] = TRUE]}
  /\ UNCHANGED << conn, utf16, backup, st, prog, defined, copy, lost >>

Finalize(s) ==
  /\ st[s] \notin {"none", "call"}
  /\ st' = [st EXCEPT ![s] = "none"]
  /\ expired' = [expired EXCEPT ![s] = FALSE]
  /\ prog' = [prog EXCEPT ![s] = {}]
  /\ UNCHANGED << utf16, backup, lost >>
  /\ LeaveMutexAndCloseZombie(conn, ScratchSlots(s) \cup BoundSlots(s))
-----------------------------------------------------------------------------
(* The connection. *)

Open ==
  /\ conn = "closed"
  /\ conn' = "open"
  /\ utf16' \in BOOLEAN
  /\ UNCHANGED << backup, stmtVars, defined, copy, held, hs, lost >>

BackupInit ==
  /\ conn = "open"
  /\ ~backup
  /\ backup' = TRUE
  /\ UNCHANGED << conn, utf16, stmtVars, defined, copy, held, hs, lost >>

\* Mutant: a zombie that waited for the backup is not freed.
BackupFinishLeavesZombie ==
  /\ backup
  /\ backup' = FALSE
  /\ UNCHANGED << conn, utf16, stmtVars, defined, copy, held, hs, lost >>

BackupFinish ==
  /\ backup
  /\ backup' = FALSE
  /\ UNCHANGED << utf16, stmtVars, lost >>
  /\ LeaveMutexAndCloseZombie(conn, {})

(* sqlite3_close refuses a busy connection; sqlite3_close_v2 leaves a      *)
(* zombie, that the last finalize or backup_finish frees.                  *)
Close(v2) ==
  /\ conn = "open"
  /\ v2 \/ ~connectionIsBusy
  /\ UNCHANGED << utf16, backup, stmtVars, lost >>
  /\ LeaveMutexAndCloseZombie("zombie", {})
-----------------------------------------------------------------------------
Init ==
  /\ conn = "closed"
  /\ utf16 = FALSE
  /\ backup = FALSE
  /\ st = [s \in Stmts |-> "none"]
  /\ expired = [s \in Stmts |-> FALSE]
  /\ prog = [s \in Stmts |-> {}]
  /\ defined = {}
  /\ copy = [c \in Colls |-> None]
  /\ held = [sl \in Slots |-> None]
  /\ hs = [h \in Handles |-> "free"]
  /\ lost = {}

Register ==
  \/ \E f \in FuncSlots : DeleteFunction(f) \/ \E h \in Handles : CreateFunction(f, h)
  \/ \E c \in Colls : DeleteCollation(c) \/ \E h \in Handles : CreateCollation(c, h)
  \/ AutovacuumOff
  \/ \E h \in Handles : AutovacuumPages(h)
  \/ SetAuthorizer

UseStatement(s) ==
  \/ Prepare(s)
  \/ Step(s)
  \/ VdbeHalt(s)
  \/ Reset(s)
  \/ ClearBindings(s)
  \/ Finalize(s)
  \/ \E i \in Vars, h \in Handles : BindPointer(s, i, h)

RunFunction(s) ==
  \/ CallFunction(s)
  \/ Return(s)
  \/ ResultOther(s)
  \/ \E h \in Handles : ResultPointer(s, h)
  \/ \E a \in AuxArgs, h \in Handles : SetAuxdata(s, a, h)

Next ==
  \/ Open
  \/ BackupInit
  \/ BackupFinish
  \/ \E v2 \in BOOLEAN : Close(v2)
  \/ Register
  \/ \E s \in Stmts : UseStatement(s) \/ RunFunction(s)

Spec == Init /\ [][Next]_vars
-----------------------------------------------------------------------------
(* Properties. *)

TypeOK ==
  /\ conn \in {"open", "zombie", "closed"}
  /\ utf16 \in BOOLEAN
  /\ backup \in BOOLEAN
  /\ st \in [Stmts -> {"none", "ready", "run", "call", "halt"}]
  /\ expired \in [Stmts -> BOOLEAN]
  /\ prog \in [Stmts -> SUBSET (FuncSlots \cup CollSlots)]
  /\ defined \subseteq FuncSlots
  /\ copy \in [Colls -> Handles \cup {None}]
  /\ held \in [Slots -> Handles \cup {None}]
  /\ hs \in [Handles -> {"free", "live", "broken"}]
  /\ lost \subseteq Handles

(* Every handle Go still has to keep is in exactly one slot, or was lost   *)
(* to a connection that was not open; no other is in a slot; go_destroy is *)
(* never called twice for one handle, nor for one Go never passed.         *)
DestroyedExactlyOnce == \A h \in Handles : hs[h] # "broken"
NoSharedHandle ==
  \A sl1, sl2 \in Slots : held[sl1] = held[sl2] /\ held[sl1] # None => sl1 = sl2
HeldIffLive ==
  \A h \in Handles :
    hs[h] = "live" <=> (h \in lost \/ \E sl \in Slots : held[sl] = h)
LostNotHeld == \A sl \in Slots : held[sl] \notin lost
OneOwner == DestroyedExactlyOnce /\ NoSharedHandle /\ HeldIffLive /\ LostNotHeld

(* The handle a compiled program finds in an entry it points to.           *)
Callback(sl) ==
  IF sl \in CollSlots THEN CollEntry(sl[2]) ELSE held[sl]

(* A statement that can run without being prepared again points only to    *)
(* entries that have a function or collation, and whose handle is live:    *)
(* it never calls a null pointer, nor into a Go value that was released.   *)
MayRun(s) == Running(s) \/ (st[s] \in {"ready", "halt"} /\ ~expired[s])
LinkedCallbacksLive ==
  \A s \in Stmts :
    MayRun(s) => \A sl \in prog[s] :
      Callback(sl) \in Handles /\ hs[Callback(sl)] = "live"

(* While a statement runs, what its program calls is not replaced.         *)
RunningKeepsCallbacks ==
  [][\A s \in Stmts :
       Running(s) /\ Running(s)' =>
         \A sl \in prog[s] : Callback(sl)' = Callback(sl)]_vars

(* The synthesised entry of a collation, which shares its handle without   *)
(* owning it, never outlives the registration it was copied from.          *)
CopyFollowsOriginal ==
  \A c \in Colls : copy[c] # None => copy[c] = held[CollSlot(c)]

(* Auxiliary data and pointer results end with the run that made them;     *)
(* auxiliary data of other than constant arguments with the call.          *)
ScratchEndsWithRun ==
  \A s \in Stmts :
    /\ ~Running(s) => \A sl \in ScratchSlots(s) : held[sl] = None
    /\ st[s] # "call" =>
         \A a \in AuxArgs \ ConstArgs : held[AuxSlot(s, a)] = None

(* A connection closed while in use waits for its users and no longer, and *)
(* then gives back every handle it accepted.                               *)
ZombieInUse == conn = "zombie" => connectionIsBusy
ClosedHoldsNothing ==
  conn = "closed" => ~connectionIsBusy /\ \A sl \in Slots : held[sl] = None

(* What Go sees of its handles is the abstract ownership protocol.         *)
OwnerOf(h) ==
  LET in == {sl \in Slots : held[sl] = h}
  IN  CASE hs[h] = "free" /\ in = {} -> << "go" >>
        [] hs[h] = "live" /\ in = {} -> << "lost" >>
        [] hs[h] = "live" /\ (\E sl \in in : in = {sl}) -> CHOOSE sl \in in : TRUE
        [] OTHER -> << "broken" >>

Ownership == INSTANCE HandleOwnership WITH
  Places <- Slots, Go <- << "go" >>, Lost <- << "lost" >>,
  owner <- [h \in Handles |-> OwnerOf(h)]
ImplementsOwnership == Ownership!Spec
=============================================================================
