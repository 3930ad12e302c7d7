------------------------- MODULE MCSharedBalancing -------------------------
EXTENDS SharedBalancing, TLC
CONSTANTS p1, p2, h1, h2
\* The host of an idle process, which Idle picks, is read by no action.
Symmetry == Permutations(Processes) \union Permutations(Hosts)
=============================================================================
