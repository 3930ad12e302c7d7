---------------------------- MODULE MCAdaptorEnds ---------------------------
(***************************************************************************)
(* What ends in the adaptors, with one request at a time: a run of three   *)
(* kinds of behaviours, and unit says which.  "balance" is LoadBalancing,  *)
(* "shared" SharedBalancing, "relay" ApacheModule.  The variables of the   *)
(* others keep their values.                                               *)
(***************************************************************************)
EXTENDS MCLoadBalancing, ApacheModule

CONSTANTS p1, h1
CONSTANTS Processes, Hosts, MaxApps, DefaultCount, MayRefuse, Loads, RETRY_COUNT, Numbers

VARIABLES unit
VARIABLES phase, instance_count, last_app_index, app_table, mem, up, serving

shared == <<phase, instance_count, last_app_index, app_table, mem, up, serving>>
everything == <<unit, vars, shared, requestVars>>
Shared == INSTANCE SharedBalancing WITH req <- serving, NoApp <- NoInstance

InBalance == unit = "balance" /\ UNCHANGED <<unit, shared, requestVars>>
InShared == unit = "shared" /\ UNCHANGED <<unit, vars, requestVars>>
InRelay == unit = "relay" /\ UNCHANGED <<unit, vars, shared>>

\* Initial files and clients are told apart where they are used.
UnitInit ==
    /\ unit \in {"balance", "shared", "relay"}
    /\ Init /\ Shared!Init /\ HandlerInit
    /\ unit # "balance" => file = NoFile
    /\ unit # "relay" => client = CHOOSE c \in Clients : TRUE
UnitNext ==
    \/ InBalance /\ Next
    \/ InShared /\ Shared!Next
    \/ InRelay /\ HandlerNext

\* The fairness of the three, of which one may step; and that time passes.
Fairness ==
    /\ WF_everything(\/ InBalance /\ \E r \in Requests : RequestStep(r)
                     \/ InShared /\ \E p \in Processes : Shared!RequestStep(p)
                     \/ InRelay /\ HandlerNext)
    /\ \A c \in Shared!Cells : WF_everything(InShared /\ Shared!Age(c))
UnitSpec == UnitInit /\ [][UnitNext]_everything /\ Fairness

\* The loop of gsw_handler ends (SharedBalancing).
HandlerEnds == Shared!HandlerEnds

\* An instance that is up is used again some day (SharedBalancing).
Recovers == Shared!Recovers

\* The handler of mod_gsweb ends (ApacheModule).
RequestEnds == unit = "relay" ~> Ended
=============================================================================
