--------------------------- MODULE MCTimeCollation ---------------------------
EXTENDS TimeCollation

\* A byte below 'Z', 'Z' itself, and a byte above it.
MCBytes == {1, 2, 3}
=============================================================================
