--------------------------- MODULE MCSessionStore ---------------------------
EXTENDS SessionStore
CONSTANTS w1, w2, s1, s2, e1, e2, e3, e4
Symmetry == Permutations(Workers) \union Permutations(Sessions) \union Permutations(Entries)
\* The fields of an entry nothing points to are never read again.
LiveView == <<[e \in Referenced \ {NoEntry} |-> entry[e]], sessions, dict, order, timers,
              life, app, locks, control>>
=============================================================================
