---------------------------- MODULE AtomicCommit ------------------------------
(***************************************************************************)
(* What a rollback journal promises: a transaction changes all its files   *)
(* in one step, and nobody reads a file whose contents change.             *)
(***************************************************************************)
CONSTANTS Conns, Files, Contents, None

VARIABLES store,   \* the contents of each file, as its next reader finds it
          back,    \* what a loss of power may put in its place, or None
          seen,    \* what each connection reads in each file, or None
          draft    \* what it is about to commit there, or None

Empty == [d \in Files |-> None]

Init ==
  /\ store \in [Files -> Contents]
  /\ back = Empty
  /\ seen = [c \in Conns |-> Empty] /\ draft = [c \in Conns |-> Empty]

Read(c, d) ==
  /\ seen[c][d] = None
  /\ seen' = [seen EXCEPT ![c][d] = store[d]]
  /\ UNCHANGED << store, back, draft >>

Write(c, d) ==
  /\ seen[c][d] = store[d]
  /\ draft'[c][d] \in Contents
  /\ draft' = [draft EXCEPT ![c][d] = draft'[c][d]]
  /\ UNCHANGED << store, back, seen >>

(* All the files of a transaction.  What one file alone has got may be     *)
(* lost again until it is settled.                                         *)
Commit(c) ==
  LET D == {d \in Files : draft[c][d] # None} IN
  /\ D # {}
  /\ \A d \in D : \A o \in Conns \ {c} : seen[o][d] = None
  /\ store' = [d \in Files |-> IF d \in D THEN draft[c][d] ELSE store[d]]
  /\ seen' = [seen EXCEPT ![c] = [d \in Files |-> IF d \in D THEN draft[c][d] ELSE @[d]]]
  /\ draft' = [draft EXCEPT ![c] = Empty]
  /\ \/ back' = [d \in Files |-> IF d \in D THEN None ELSE back[d]]
     \/ /\ \E d \in Files : D = {d}
        /\ back' = [d \in Files |-> IF d \in D THEN store[d] ELSE back[d]]

(* A transaction ends or is rolled back, or its connection is gone.        *)
End(c, D) ==
  /\ seen' = [seen EXCEPT ![c] = [d \in Files |-> IF d \in D THEN None ELSE @[d]]]
  /\ draft' \in {draft, [draft EXCEPT ![c] = Empty]}
  /\ UNCHANGED << store, back >>

Abort(c) ==
  /\ draft' = [draft EXCEPT ![c] = Empty]
  /\ UNCHANGED << store, back, seen >>

Settle(D) ==
  /\ back' = [d \in Files |-> IF d \in D THEN None ELSE back[d]]
  /\ UNCHANGED << store, seen, draft >>

PowerLoss(D) ==
  /\ \A d \in D : back[d] # None
  /\ store' = [d \in Files |-> IF d \in D THEN back[d] ELSE store[d]]
  /\ back' = Empty
  /\ seen' = [c \in Conns |-> Empty] /\ draft' = [c \in Conns |-> Empty]

Next ==
  \/ \E c \in Conns : Commit(c) \/ Abort(c)
  \/ \E c \in Conns, d \in Files : Read(c, d) \/ Write(c, d)
  \/ \E c \in Conns, D \in SUBSET Files : End(c, D)
  \/ \E D \in SUBSET Files : Settle(D) \/ PowerLoss(D)

Spec == Init /\ [][Next]_<< store, back, seen, draft >>
=============================================================================
