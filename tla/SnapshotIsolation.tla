-------------------------- MODULE SnapshotIsolation --------------------------
(***************************************************************************)
(* What sqlite3.go promises the connections to one database: each          *)
(* transaction reads the last commit there was when it began, and commits  *)
(* only if it is still the last one.                                       *)
(***************************************************************************)
EXTENDS Integers

CONSTANTS Conns, MaxTxn

VARIABLES committed,   \* the last transaction that was committed
          snap         \* the one each connection reads, -1 if it reads none

Init == committed = 0 /\ snap = [c \in Conns |-> -1]

Begin(c) ==
  /\ snap[c] = -1
  /\ snap' = [snap EXCEPT ![c] = committed]
  /\ UNCHANGED committed

Commit(c) ==
  /\ snap[c] = committed
  /\ committed' \in committed + 1 .. MaxTxn
  /\ snap' = [snap EXCEPT ![c] = committed']

(* A transaction ends, or its connection does.                             *)
End(c) ==
  /\ snap' = [snap EXCEPT ![c] = -1]
  /\ UNCHANGED committed

(* What was written by a connection that stopped in its commit may turn up *)
(* as committed, while nobody writes.                                      *)
Complete ==
  /\ committed' \in committed .. MaxTxn
  /\ UNCHANGED snap

PowerLoss ==
  /\ committed' \in 0 .. committed
  /\ snap' = [c \in Conns |-> -1]

Next == Complete \/ PowerLoss \/ \E c \in Conns : Begin(c) \/ Commit(c) \/ End(c)

Spec == Init /\ [][Next]_<< committed, snap >>
=============================================================================
