-------------------------------- MODULE MCWal --------------------------------
(***************************************************************************)
(* The settings under which the log is checked.                            *)
(***************************************************************************)
EXTENDS Wal

CONSTANTS a, b

Base == [conns |-> {a, b}, writers |-> {a}, checkpointers |-> {b}, marks |-> 1, txns |-> 2,
         frames |-> 2, modes |-> {"passive"}, full |-> FALSE, spills |-> 0, faults |-> 0,
         ckpts |-> 1]
Alone == [Base EXCEPT !.conns = {a}, !.checkpointers = {a}]

(* One writes and restarts the log, the other reads and checkpoints.       *)
Readers2 == [Base EXCEPT !.marks = 2, !.modes = {"passive", "truncate"}]
(* A second checkpoint is overtaken by a log that starts again.            *)
Overtaken == [Base EXCEPT !.frames = 1, !.ckpts = 2]
(* Both write.                                                             *)
Writers2 == [Base EXCEPT !.writers = {a, b}, !.checkpointers = {a}]
(* Crashes and losses of power, with synchronous=NORMAL: in transactions   *)
(* of both pages, and while the log starts again; and with FULL.           *)
Crashes == [Base EXCEPT !.ckpts = 0, !.faults = 1]
RestartAndCrashes == [Base EXCEPT !.frames = 1, !.faults = 1]
Durable == [Alone EXCEPT !.txns = 3, !.modes = {"passive", "truncate"}, !.full = TRUE,
                         !.faults = 1]
(* A cache too small for the transaction, savepoints, the log restarted,   *)
(* and crashes.                                                            *)
Spills == [Alone EXCEPT !.ckpts = 0, !.spills = 2]
SpillsAndRestart == [Alone EXCEPT !.frames = 1, !.spills = 2]
SpillsAndCrashes == [Alone EXCEPT !.txns = 1, !.frames = 3, !.spills = 2, !.faults = 1]

MCSettings == {Readers2, Overtaken, Writers2, Crashes, RestartAndCrashes, Durable,
               Spills, SpillsAndRestart, SpillsAndCrashes}
=============================================================================
