--------------------------- MODULE MCLoadBalancing ---------------------------
EXTENDS LoadBalancing, TLC
CONSTANTS r1, r2, i1, i2, i3, x1, x2, x3, x4
Symmetry == Permutations(Records) \union Permutations(Requests)
               \union Permutations(Instances \ {Watched})
=============================================================================
