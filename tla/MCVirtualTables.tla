--------------------------- MODULE MCVirtualTables ---------------------------
EXTENDS VirtualTables, TLC

CONSTANTS m1, m2, v1, v2, v3, t1, t2, s1, s2

\* A module and the one that replaces it; a VTable for the table, one for the
\* eponymous table, and one for what either was connected to before.
MCMods == {m1, m2}
MCVTables == {v1, v2, v3}
MCTables == {t1, t2}
MCStmts == {s1, s2}

Symmetry == Permutations(MCMods) \cup Permutations(MCVTables) \cup Permutations(MCStmts) \cup Permutations(MCTables)
=============================================================================
