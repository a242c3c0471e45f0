------------------------------ MODULE MCBisect -------------------------------
(* The bounds LastCommit and MaxKills are given in the configurations.           *)
EXTENDS Bisect
=============================================================================
