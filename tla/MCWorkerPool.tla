---------------------------- MODULE MCWorkerPool ----------------------------
(***************************************************************************)
(* What ends in an application: a run of three kinds of behaviours, unit   *)
(* says which, and the variables of the others keep their values: the      *)
(* adaptor with two worker threads (WorkerPool as it is), the adaptor      *)
(* without, and the session store of an application without threads.       *)
(***************************************************************************)
EXTENDS WorkerPool, SessionStore

CONSTANTS c1, c2, c3, c4

VARIABLE unit

Inline == INSTANCE WorkerPool WITH WorkerThreadCountMax <- 0

everything == <<unit, poolVars, vars>>

\* The fields of an entry nothing points to are never read again.
UnitView ==
    <<unit, poolVars, [e \in Referenced \ {NoEntry} |-> entry[e]], sessions, dict, order,
      timers, life, app, locks, control>>

InStore == unit = "store" /\ UNCHANGED <<unit, poolVars>>
InPool(u) == unit = u /\ UNCHANGED <<unit, vars>>

UnitInit == unit \in {"threads", "inline", "store"} /\ PoolInit /\ Init
UnitNext ==
    \/ InPool("threads") /\ PoolNext
    \/ InPool("inline") /\ Inline!PoolNext
    \/ InStore /\ SerialNext

\* The fairness of PoolLiveSpec, and that of SerialLiveSpec.
Fairness ==
    /\ \A c \in Connections :
         WF_everything(\/ InPool("threads") /\ Serve(c)
                       \/ InPool("inline") /\ Inline!Serve(c))
    /\ \A w \in Workers : WF_everything(InStore /\ OthersIdle(w) /\ RequestStep(w))
    /\ SF_everything(InStore /\ OthersIdle(Main) /\ (TimerStep \/ TerminateStep(Main)))
    /\ WF_everything(InStore /\ OthersIdle(Main) /\ RefusalStep)
UnitSpec == UnitInit /\ [][UnitNext]_everything /\ Fairness
=============================================================================
