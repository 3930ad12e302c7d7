--------------------------- MODULE MCFramework ----------------------------
(***************************************************************************)
(* Instances of SessionStore for TLC.  The run of the safety properties    *)
(* has three kinds of behaviours: requests and the timers over one         *)
(* session; quiet ones, of requests alone over two; and, where unit says   *)
(* so, the page cache of one session, whose variables nobody else uses.    *)
(***************************************************************************)
EXTENDS Requests, PageCache

CONSTANTS w1, w2, s1, s2, e1, e2, e3

VARIABLE unit

\* The fields of an entry nothing points to are never read again.
LiveView == <<[e \in Referenced \ {NoEntry} |-> entry[e]], sessions, dict, order, timers,
              life, app, locks, control>>
UnitView == <<unit, quiet, LiveView, pageVars>>
Symmetry == Permutations(Workers) \union Permutations(Sessions) \union Permutations(Entries)

\* Only one session is created.
OneSession == Cardinality(created') <= 1 /\ count' <= 2

UnitInit ==
    /\ unit \in {"store", "pages"}
    /\ RequestsInit /\ (unit = "pages" => quiet)
    /\ PagesInit
UnitNext ==
    \/ /\ unit = "store" /\ RequestsNext /\ (quiet \/ OneSession)
       /\ UNCHANGED <<unit, pageVars>>
    \/ unit = "pages" /\ PagesNext /\ UNCHANGED <<unit, requestVars>>
UnitSpec == UnitInit /\ [][UnitNext]_<<unit, requestVars, pageVars>>
=============================================================================
