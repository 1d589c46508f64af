-------------------------- MODULE MCDataDirectory --------------------------
EXTENDS DataDirectory, TLC

CONSTANTS a1, a2, c1, t1, t2

\* Threads are alike.
Symmetry == Permutations(Threads)
=============================================================================
