---------------------------- MODULE MCVfsRegistry ----------------------------
EXTENDS VfsRegistry

CONSTANTS n1, n2, n3, a1, a2, a3, db1, db2

\* Three names, so that a sweep meets two wrappers; an address for each name,
\* and none to spare: what is freed is used again.
MCNames == {n1, n2, n3}
MCAddrs == {a1, a2, a3}
MCFiles == {db1, db2}
=============================================================================
