----------------------------- MODULE BusyHandler ------------------------------
(***************************************************************************)
(* Connections that wait for the locks of each other's files (sqlite3.go,  *)
(* build/hooks.c, build/busy_timeout.patch): a lock that is not to be had  *)
(* is tried again for as long as the busy handler says so, unless waiting  *)
(* could only keep the others waiting too.  Files have rollback journals.  *)
(***************************************************************************)
EXTENDS Integers, Sequences

CONSTANTS Connections, Files,
          Settings   \* the settings that are tried

\* An element of todo: a transaction on a file (2 write, 3 exclusive), or the commit.
Ops == [op : {"begin"}, file : Files, mode : 1 .. 3] \cup {[op |-> "commit"]}

Setting == [connections : SUBSET Connections,  \* bound: the connections there are
            calls : SUBSET Seq(Ops),           \* what one step of an application runs
            retries : Nat,                     \* go_busy_timeout gives up after so many,
            patient : BOOLEAN]                 \* or the busy handler never does

ASSUME BusyAssumption == Settings \subseteq Setting

VARIABLES
  setting,   \* one of the settings, for good
  lock,      \* what a connection holds of a file,
  trans,     \* its transaction there: 0 none, 1 read, 2 write,
  explicit,  \* whether BEGIN has been called,
  todo,      \* the transactions to begin, and the commit, of the step that runs,
  waiting,   \* whether the step is in the busy handler,
  nBusy,     \* how often that was called, -1 when it has given up
  rc         \* how the last step ended

state == <<lock, trans, explicit, todo, waiting, nBusy, rc>>
busyVars == <<setting, state>>

Locks == {"none", "shared", "reserved", "pending", "exclusive"}

Idle ==
  /\ lock = [c \in Connections |-> [f \in Files |-> "none"]]
  /\ trans = [c \in Connections |-> [f \in Files |-> 0]]
  /\ explicit = [c \in Connections |-> FALSE]
  /\ todo = [c \in Connections |-> << >>]
  /\ waiting = [c \in Connections |-> FALSE]
  /\ nBusy = [c \in Connections |-> 0]
  /\ rc = [c \in Connections |-> "ok"]

BusyInit == setting \in Settings /\ Idle

(***************************************************************************)
(* The locks of the VFS.                                                   *)
(***************************************************************************)
Bars == [shared |-> {"pending", "exclusive"},
         reserved |-> {"reserved", "pending", "exclusive"},
         exclusive |-> Locks \ {"none"}]
Barring(c, f, wanted) == {d \in Connections \ {c} : lock[d][f] \in Bars[wanted]}

\* The file and the lock that the first thing to do needs next; none at the end.
Current(c) == todo[c][1]
ToCommit(c) == {f \in Files : trans[c][f] = 2 /\ lock[c][f] # "exclusive"}
Target(mode) == CASE mode = 1 -> "shared" [] mode = 2 -> "reserved" [] mode = 3 -> "exclusive"
Holds(c, f, wanted) ==
  CASE wanted = "shared" -> lock[c][f] # "none"
    [] wanted = "reserved" -> lock[c][f] \notin {"none", "shared"}
    [] wanted = "exclusive" -> lock[c][f] = "exclusive"
Wanted(c) ==
  IF Current(c).op = "commit"
  THEN [file |-> CHOOSE f \in ToCommit(c) : TRUE, lock |-> "exclusive"]
  ELSE LET f == Current(c).file
           steps == CASE Current(c).mode = 1 -> <<"shared">>
                      [] Current(c).mode = 2 -> <<"shared", "reserved">>
                      [] Current(c).mode = 3 -> <<"shared", "reserved", "exclusive">>
           i == CHOOSE k \in DOMAIN steps : ~Holds(c, f, steps[k])
                                            /\ \A j \in 1 .. k - 1 : Holds(c, f, steps[j])
       IN [file |-> f, lock |-> steps[i]]
Complete(c) ==
  IF Current(c).op = "commit" THEN ToCommit(c) = {}
  ELSE Holds(c, Current(c).file, Target(Current(c).mode))

(***************************************************************************)
(* A step.                                                                 *)
(***************************************************************************)
Call(c) ==
  /\ c \in setting.connections /\ todo[c] = << >>
  /\ \E ops \in setting.calls :
       /\ ops = << [op |-> "commit"] >> => explicit[c]
       /\ Len(ops) > 1 /\ ops[Len(ops)].op = "commit" => ~explicit[c]
       /\ \A i \in DOMAIN ops : ops[i].op = "begin" /\ ops[i].mode = 3
                                  => trans[c][ops[i].file] = 0
       /\ todo' = [todo EXCEPT ![c] = ops]
  /\ nBusy' = [nBusy EXCEPT ![c] = 0]
  /\ rc' = [rc EXCEPT ![c] = "ok"]
  /\ UNCHANGED <<lock, trans, explicit, waiting>>

Released(c) == [f \in Files |-> "none"]

\* A transaction has all its locks: what follows is done in the same step.
Proceed(c) ==
  /\ todo[c] # << >> /\ Complete(c)
  /\ IF Current(c).op = "commit"
     THEN /\ lock' = [lock EXCEPT ![c] = Released(c)]
          /\ trans' = [trans EXCEPT ![c] = [f \in Files |-> 0]]
          /\ explicit' = [explicit EXCEPT ![c] = FALSE]
     ELSE /\ LET f == Current(c).file
                 t == IF Current(c).mode = 1 THEN 1 ELSE 2
             IN trans' = [trans EXCEPT ![c][f] = IF @ > t THEN @ ELSE t]
          /\ explicit' = IF Len(todo[c]) = 1 THEN [explicit EXCEPT ![c] = TRUE]
                         ELSE explicit
          /\ UNCHANGED lock
  /\ todo' = [todo EXCEPT ![c] = Tail(@)]
  /\ UNCHANGED <<waiting, nBusy, rc>>

Take(c) ==
  /\ todo[c] # << >> /\ ~Complete(c)
  /\ LET w == Wanted(c)
     IN /\ Barring(c, w.file, w.lock) = {}
        /\ lock' = [lock EXCEPT ![c][w.file] = w.lock]
  /\ waiting' = [waiting EXCEPT ![c] = FALSE]
  /\ UNCHANGED <<trans, explicit, todo, nBusy, rc>>

\* Mutant: who wants to write alone lets new readers in while it waits.
LeftWithReserved(c, w) ==
  IF trans[c][w.file] = 0 THEN "none" ELSE lock[c][w.file]
\* Who wants to write alone keeps new readers out.  Who could not begin gives up
\* what it has of the file, unless it is reading there.
LeftWith(c, w) ==
  IF w.lock = "exclusive" THEN "pending"
  ELSE IF trans[c][w.file] = 0 THEN "none" ELSE lock[c][w.file]

\* Mutant: the busy handler is asked by all.
MayWaitAlways(c, w) == TRUE

\* The busy handler is not asked by one that reads already: whoever has the lock it
\* wants may be waiting for it to stop reading.
MayWait(c, w) == w.lock # "reserved" \/ trans[c][w.file] = 0

\* sqliteBusyCallback of build/hooks.c, or an application's handler.
Goes(c) == nBusy[c] >= 0 /\ (setting.patient \/ nBusy[c] < setting.retries)
Asked(c) == [nBusy EXCEPT ![c] = IF setting.patient THEN 0 ELSE @ + 1]

Wait(c) ==
  /\ todo[c] # << >> /\ ~Complete(c)
  /\ LET w == Wanted(c)
     IN /\ Barring(c, w.file, w.lock) # {}
        /\ MayWait(c, w) /\ Goes(c)
        /\ lock' = [lock EXCEPT ![c][w.file] = LeftWith(c, w)]
  /\ waiting' = [waiting EXCEPT ![c] = TRUE]
  /\ nBusy' = Asked(c)
  /\ UNCHANGED <<trans, explicit, todo, rc>>

\* SQLITE_BUSY: a statement of its own is rolled back, a transaction is not.
GiveUp(c) ==
  /\ todo[c] # << >> /\ ~Complete(c)
  /\ LET w == Wanted(c)
     IN /\ Barring(c, w.file, w.lock) # {}
        /\ ~(MayWait(c, w) /\ Goes(c))
        /\ lock' = [lock EXCEPT ![c] = IF explicit[c]
                                       THEN [@ EXCEPT ![w.file] = LeftWith(c, w)]
                                       ELSE Released(c)]
        /\ nBusy' = [nBusy EXCEPT ![c] = IF MayWait(c, w) THEN -1 ELSE @]
  /\ trans' = [trans EXCEPT ![c] = IF explicit[c] THEN @ ELSE [f \in Files |-> 0]]
  /\ todo' = [todo EXCEPT ![c] = << >>]
  /\ waiting' = [waiting EXCEPT ![c] = FALSE]
  /\ rc' = [rc EXCEPT ![c] = "busy"]
  /\ UNCHANGED explicit

\* ROLLBACK needs no lock.
Rollback(c) ==
  /\ todo[c] = << >> /\ explicit[c]
  /\ lock' = [lock EXCEPT ![c] = Released(c)]
  /\ trans' = [trans EXCEPT ![c] = [f \in Files |-> 0]]
  /\ explicit' = [explicit EXCEPT ![c] = FALSE]
  /\ UNCHANGED <<todo, waiting, nBusy, rc>>

BusyStep(c) == Proceed(c) \/ Take(c) \/ Wait(c) \/ GiveUp(c)
BusyNext ==
  /\ UNCHANGED setting
  /\ \E c \in Connections : Call(c) \/ BusyStep(c) \/ Rollback(c)

\* A step runs on, and an application ends what it has begun.
Fairness == \A c \in Connections : WF_state(BusyStep(c)) /\ SF_state(Rollback(c))

BusySpec == BusyInit /\ [][BusyNext]_busyVars /\ Fairness

(***************************************************************************)
(* Properties.                                                             *)
(***************************************************************************)
Waits(c) == waiting[c] /\ todo[c] # << >>
WaitsFor(c) == IF Waits(c) THEN LET w == Wanted(c) IN Barring(c, w.file, w.lock) ELSE {}

\* No connections wait in their busy handlers for locks of one file that only they
\* keep from each other (the check in sqlite3BtreeBeginTrans before the handler is
\* invoked).
NoWaitCycle ==
  \A f \in Files : \A group \in SUBSET {c \in Connections : Waits(c) /\ Wanted(c).file = f} :
    group # {} => \E c \in group : WaitsFor(c) \cap group = {}

\* A step ends, with the locks it needs or with SQLITE_BUSY, if the busy handler has
\* an end; and a commit ends however long handlers wait, once the readers have gone:
\* no new ones come in between.
StepsEnd ==
  \A c \in Connections :
    todo[c] # << >> /\ (setting.patient => Current(c).op = "commit") ~> todo[c] = << >>
==============================================================================
