------------------------- MODULE MCCoordinatedStore -------------------------
\* CoordinatedStore with two processes, a term of two clock readings and a
\* record of a few entries.
EXTENDS CoordinatedStore, TLC

CONSTANTS n1, n2, v1, v2, c1, c2, note

HolderSymmetry == Permutations({n1, n2}) \cup Permutations({v1, v2}) \cup Permutations({c1, c2})
=============================================================================
