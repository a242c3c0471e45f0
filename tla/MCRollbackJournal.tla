--------------------------- MODULE MCRollbackJournal ---------------------------
(***************************************************************************)
(* The settings under which the rollback journal is checked.               *)
(***************************************************************************)
EXTENDS RollbackJournal

CONSTANTS c1, c2

Base == [conns |-> {c1, c2}, writers |-> {c1}, files |-> {1}, size |-> 1, grow |-> TRUE,
         txns |-> 2, spills |-> 0, faults |-> 1, mode |-> "delete", sync |-> "full"]

(* Two write, to a file that is empty or not.                              *)
Deleted(n) == [Base EXCEPT !.writers = {c1, c2}, !.size = n]
(* A journal is written over an older one, by a cache that is too small,   *)
(* or while another looks for it.                                          *)
Persistent(n) == [Base EXCEPT !.conns = {c1}, !.size = n, !.spills = 1, !.mode = "persist",
                              !.sync = "extra"]
PersistentSeen == [Persistent(1) EXCEPT !.conns = {c1, c2}, !.spills = 0]
(* What is written reaches the disk out of order.                          *)
Unordered == [Base EXCEPT !.conns = {c1}, !.size = 2, !.mode = "persist",
                          !.sync = "normal"]
CutOffUnordered == [Base EXCEPT !.conns = {c1}, !.size = 2, !.spills = 1, !.mode = "truncate",
                                !.sync = "normal"]
(* A transaction in two files, and one after it.                           *)
TwoFiles(C, m, s) == [Base EXCEPT !.conns = C, !.files = {1, 2}, !.grow = FALSE, !.txns = 1,
                                  !.mode = m, !.sync = s]
TwoFilesAgain == [TwoFiles({c1}, "persist", "extra") EXCEPT !.txns = 2]

MCSettings == {Deleted(0), Deleted(1), Persistent(1), Persistent(2), PersistentSeen,
               Unordered, CutOffUnordered, TwoFiles({c1, c2}, "delete", "extra"),
               TwoFiles({c1}, "truncate", "normal"), TwoFilesAgain}
=============================================================================
