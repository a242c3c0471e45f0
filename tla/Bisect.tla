------------------------------- MODULE Bisect --------------------------------
(***************************************************************************)
(* build/bisect.sh: finding the SQLite commit that breaks the Go bindings. *)
(* git bisect run checks a commit out and runs the script again with       *)
(* --step; the exit status of that step judges the commit.  The step works *)
(* in directories that outlive it, and the whole run may be killed.        *)
(*                                                                         *)
(* Commits are numbered in order; git knows 0 to be good and LastCommit    *)
(* bad.                                                                    *)
(***************************************************************************)
EXTENDS Integers

CONSTANTS LastCommit,  \* the number of the bad commit given on the command line
          MaxKills     \* bound: how often the run is killed

ASSUME LastCommitAssumption == LastCommit \in Nat \ {0}
ASSUME MaxKillsAssumption == MaxKills \in Nat

Commits == 0 .. LastCommit
Nothing == -1

\* Where the step can fail on a commit, whatever the tests would say of it.
Obstacles == {"none", "configure", "make", "copy", "patch", "build", "compile"}

VARIABLES
  firstBad,    \* the first commit whose tests fail
  obstacle,    \* what stops the step at each commit
  good, bad,   \* git bisect: the last commit judged good, the first judged bad
  skipped,     \* git bisect: commits that could not be judged
  head,        \* the commit checked out in $SRC
  stage,       \* what the run does next
  out,         \* the commit whose amalgamation is in $OUT
  sources,     \* the commit whose sources are in build/
  patched,     \* how often the patches were applied to them
  translated,  \* the commit sqlite3.go was translated from
  status,      \* exit status of the step
  kills

history == << firstBad, obstacle >>
session == << good, bad, skipped >>
workFiles == << out, sources, patched, translated >>
bisectVars == << history, session, head, stage, workFiles, status, kills >>

\* Statements of the step, in order.
Following(s) ==
  CASE s = "empty" -> "configure" [] s = "configure" -> "copy"
    [] s = "copy" -> "patch"      [] s = "patch" -> "build"
    [] s = "build" -> "compile"   [] s = "compile" -> "test"

BisectInit ==
  /\ firstBad \in 1 .. LastCommit
  /\ obstacle \in [Commits -> Obstacles]
  /\ good = 0 /\ bad = LastCommit /\ skipped = {}
  /\ head = Nothing
  /\ stage = "idle"
  /\ out = Nothing /\ sources = Nothing /\ patched = 0 /\ translated = Nothing
  /\ status = 0
  /\ kills = 0
-----------------------------------------------------------------------------
(* The driver (lines 35-41).  A session left behind by a run that was      *)
(* killed is reset before a new one starts.                                *)
Start ==
  /\ stage = "idle"
  /\ good' = 0 /\ bad' = LastCommit /\ skipped' = {}
  /\ stage' = "pick"
  /\ UNCHANGED << history, head, workFiles, status, kills >>

Candidates == {c \in Commits : good < c /\ c < bad} \ skipped

(* git checks out a commit that is still in question and runs the step, or *)
(* ends: the trap on EXIT resets the session.                              *)
Pick ==
  /\ stage = "pick"
  /\ IF Candidates = {}
     THEN stage' = "done" /\ head' = Nothing
     ELSE stage' = "empty" /\ head' \in Candidates
  /\ UNCHANGED << history, session, workFiles, status, kills >>

(* git bisect run: 0 is good, 125 cannot be judged, anything else is bad.  *)
Judge ==
  /\ stage = "judge"
  /\ stage' = "pick"
  /\ good' = IF status = 0 THEN head ELSE good
  /\ skipped' = IF status = 125 THEN skipped \cup {head} ELSE skipped
  /\ bad' = IF status \notin {0, 125} THEN head ELSE bad
  /\ UNCHANGED << history, head, workFiles, status, kills >>
-----------------------------------------------------------------------------
(* The step (lines 45-77).                                                 *)

Exit(code) == stage' = "judge" /\ status' = code
Proceed == stage' = Following(stage) /\ UNCHANGED status

\* Mutant: the output directory is reused.
EmptyOutReused ==
  /\ stage = "empty"
  /\ Proceed
  /\ UNCHANGED << history, session, head, workFiles, kills >>

EmptyOut ==
  /\ stage = "empty"
  /\ out' = Nothing
  /\ Proceed
  /\ UNCHANGED << history, session, head, sources, patched, translated, kills >>

(* errexit is off in a subshell whose status is tested: make runs even if  *)
(* configure failed, and has nothing to do only if $OUT is empty.          *)
Made ==
  CASE obstacle[head] = "make" -> Nothing
    [] obstacle[head] = "configure" -> out
    [] OTHER -> head

ConfigureAndMake ==
  /\ stage = "configure"
  /\ IF Made = Nothing THEN Exit(125) ELSE Proceed
  /\ out' = Made
  /\ UNCHANGED << history, session, head, sources, patched, translated, kills >>

(* A fresh copy undoes the patches of the previous step, and is there even *)
(* if a file that is copied later is missing.                              *)
Copy ==
  /\ stage = "copy"
  /\ \/ sources' = out /\ patched' = 0
     \/ obstacle[head] = "copy" /\ UNCHANGED << sources, patched >>
  /\ IF obstacle[head] = "copy" THEN Exit(125) ELSE Proceed
  /\ UNCHANGED << history, session, head, out, translated, kills >>

Patch ==
  /\ stage = "patch"
  /\ IF obstacle[head] = "patch" THEN Exit(125) /\ UNCHANGED patched
     ELSE Proceed /\ patched' = patched + 1
  /\ UNCHANGED << history, session, head, out, sources, translated, kills >>

\* Mutant: build.sh without || exit 125, under errexit.
BuildOrBad ==
  /\ stage = "build"
  /\ IF obstacle[head] = "build" THEN Exit(1) /\ UNCHANGED translated
     ELSE Proceed /\ translated' = sources
  /\ UNCHANGED << history, session, head, out, sources, patched, kills >>

\* Mutant: a build that fails is tried again.
BuildRetried ==
  /\ stage = "build"
  /\ IF obstacle[head] = "build" THEN stage' = "empty" /\ UNCHANGED << status, translated >>
     ELSE Proceed /\ translated' = sources
  /\ UNCHANGED << history, session, head, out, sources, patched, kills >>

Build ==
  /\ stage = "build"
  /\ IF obstacle[head] = "build" THEN Exit(125) /\ UNCHANGED translated
     ELSE Proceed /\ translated' = sources
  /\ UNCHANGED << history, session, head, out, sources, patched, kills >>

(* ( ... go build || exit 125; go test ) && exit 0 || exit 1: the 125 ends *)
(* the subshell, and the || that follows turns it into 1.                  *)
Compile ==
  /\ stage = "compile"
  /\ IF obstacle[head] = "compile" THEN Exit(1) ELSE Proceed
  /\ UNCHANGED << history, session, head, workFiles, kills >>

Test ==
  /\ stage = "test"
  /\ Exit(IF translated < firstBad THEN 0 ELSE 1)
  /\ UNCHANGED << history, session, head, workFiles, kills >>
-----------------------------------------------------------------------------
(* The run is killed, and may be started again on whatever it left.        *)
Kill ==
  /\ stage \notin {"idle", "done"}
  /\ kills < MaxKills
  /\ kills' = kills + 1
  /\ stage' = "idle"
  /\ UNCHANGED << history, session, head, workFiles, status >>

Run == \/ Pick \/ EmptyOut \/ ConfigureAndMake \/ Copy \/ Patch \/ Build
       \/ Compile \/ Test \/ Judge

BisectNext == Start \/ Run \/ Kill

\* git and the shell run on until they end; that they are killed, or started
\* again, is nobody's duty.
BisectSpec == BisectInit /\ [][BisectNext]_bisectVars /\ WF_bisectVars(Run)
-----------------------------------------------------------------------------
BisectTypeOK ==
  /\ firstBad \in 1 .. LastCommit
  /\ obstacle \in [Commits -> Obstacles]
  /\ good \in Commits /\ bad \in Commits /\ skipped \subseteq Commits
  /\ head \in Commits \cup {Nothing}
  /\ {out, sources, translated} \subseteq Commits \cup {Nothing}
  /\ patched \in Nat
  /\ stage \in {"idle", "pick", "empty", "configure", "copy", "patch", "build",
               "compile", "test", "judge", "done"}
  /\ status \in {0, 1, 125}
  /\ kills \in 0 .. MaxKills

(* The tests run on what the commit under judgement was built from, with   *)
(* the patches applied once, whatever an earlier step or a killed run left *)
(* in $OUT, build/ and sqlite3.go.                                         *)
TestsJudgeThisCommit ==
  stage = "test" => translated = head /\ sources = head /\ patched = 1

(* The culprit lies between the two bounds, unless the bindings did not    *)
(* compile somewhere; a session without skipped commits ends at it.        *)
CulpritBracketed ==
  (\A c \in Commits : obstacle[c] # "compile") =>
    /\ good < firstBad /\ firstBad <= bad
    /\ stage = "done" /\ skipped = {} => bad = firstBad

(* build/bisect.sh:72: "A compile failure skips".                          *)
CompileFailureSkips ==
  \A c \in {good, bad} \ {0, LastCommit} : obstacle[c] # "compile"

(* A session that is not killed ends.                                      *)
SessionEnds == stage = "pick" ~> stage \in {"done", "idle"}
=============================================================================
