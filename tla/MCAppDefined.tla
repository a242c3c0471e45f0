---------------------------- MODULE MCAppDefined -----------------------------
EXTENDS AppDefined, TLC

CONSTANTS h1, h2, h3, s1, s2, f1, c1

MCHandles == {h1, h2, h3}
MCStmts == {s1, s2}
MCNames == {f1}
MCArities == {-1, 1}
MCColls == {c1}
MCVars == {1}
MCAuxArgs == {1, 2}
MCConstArgs == {1}
MCSql ==
  s1 :> [calls |-> {<< f1, 1 >>}, coll |-> None] @@
  s2 :> [calls |-> {}, coll |-> c1]

Symmetry == Permutations(MCHandles)
=============================================================================
