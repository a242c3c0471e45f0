----------------------------- MODULE MCStatements -----------------------------
(***************************************************************************)
(* The two reasons for which a step of a statement starts over: its plan   *)
(* has expired, or a lock is held by another.  They share no state, so a   *)
(* behaviour follows one of them, and the other stands still.              *)
(***************************************************************************)
EXTENDS Reprepare, BusyHandler, TLC

MCValues == {-2, Null, 0, 2}

(* Which parameters the planner looks at, and how closely; 2 and 3 share a *)
(* bit.                                                                    *)
SharedValue == {(1 :> "small" @@ 2 :> a @@ 3 :> "value") : a \in {"no", "small"}}
SharedSmall == {(1 :> "small" @@ 2 :> a @@ 3 :> "small") : a \in {"no", "small"}}

(* A partial index or one on an expression makes the planner look closer,  *)
(* at a parameter or at one that shares its bit.                           *)
Deepening == {(1 :> "small" @@ 2 :> "small" @@ 3 :> "no"),
              (1 :> "value" @@ 2 :> "no" @@ 3 :> "value")}

PlanSettings == {[schemas |-> s] : s \in {SharedValue, SharedSmall, Deepening}}
MCSchemas == UNION {s.schemas : s \in PlanSettings}
-----------------------------------------------------------------------------
CONSTANTS c1, c2, c3, f1, f2

Begin(file, mode) == [op |-> "begin", file |-> file, mode |-> mode]
Commit == [op |-> "commit"]

(* Statements of their own, and those of a transaction.                    *)
OneFile ==
  {<<Begin(f1, mode), Commit>> : mode \in 1 .. 2}
  \cup {<<Begin(f1, mode)>> : mode \in 1 .. 3} \cup {<<Commit>>}
TwoFiles ==
  {<<Begin(f1, 2), Begin(f2, 1), Commit>>, <<Begin(f2, 2), Begin(f1, 2), Commit>>,
   <<Begin(f1, 2)>>, <<Begin(f2, 1)>>, <<Begin(f2, 2)>>, <<Commit>>}

BusySettings ==
  {[connections |-> {c1, c2, c3}, calls |-> OneFile, retries |-> 0, patient |-> TRUE],
   [connections |-> {c1, c2}, calls |-> TwoFiles, retries |-> 2, patient |-> FALSE]}
-----------------------------------------------------------------------------
(* The plan of a statement, while nobody has a lock; or the locks, while   *)
(* no plan changes.                                                        *)
Plans == setting \in PlanSettings

MCInit ==
  \/ Init /\ setting \in PlanSettings /\ schema \in setting.schemas /\ Idle
  \/ BusyInit /\ schema = << >> /\ dep = << >> /\ value = << >> /\ planned = << >>
     /\ exp = {} /\ sm = {} /\ expired = FALSE /\ running = FALSE /\ plans = {}

MCNext ==
  \/ Plans /\ Next /\ schema' \in setting.schemas /\ UNCHANGED busyVars
  \/ ~Plans /\ BusyNext /\ UNCHANGED vars

MCSpec ==
  /\ MCInit /\ [][MCNext]_<<vars, busyVars>>
  /\ Fairness
=============================================================================
