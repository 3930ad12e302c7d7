--------------------------- MODULE MCAdaptorTurns ---------------------------
(***************************************************************************)
(* What web server processes do for requests: a run of four kinds of       *)
(* behaviours, and unit says which.  "choose" is LoadBalancing with three  *)
(* instances, "url" is AdaptorURL, "data" is AdaptorData, "handle" is      *)
(* GswHandler.  The variables of the others keep their values.             *)
(***************************************************************************)
EXTENDS MCLoadBalancing, HandlerURLs, GswHandler, AdaptorURL, AdaptorData

VARIABLE unit

everything == <<unit, vars, urlVars, dataVars, handlerVars>>

\* Texts of up to two letters.
SomeTexts == UNION {[1 .. n -> {"a", "b"}] : n \in 0 .. 2}

\* Initial values are told apart where they are used.
UnitInit ==
    /\ unit \in {"choose", "url", "data", "handle"}
    /\ HandleInit
    /\ unit # "handle" => client = CHOOSE c \in Clients : TRUE
    /\ Init /\ (unit # "choose" => file = NoFile)
    /\ IF unit = "url" THEN URLInit
       ELSE /\ url = <<>> /\ chosen = <<>> /\ parsed = [error |-> ""] /\ composed = <<>>
            /\ place = "parse"
    /\ IF unit = "data" THEN DataInit
       ELSE /\ kind = "none" /\ dict = NewDict(0) /\ content = <<>> /\ steps = 0
            /\ str = [text |-> <<>>, size |-> 0]
UnitNext ==
    \/ unit = "choose" /\ Next /\ UNCHANGED <<unit, urlVars, dataVars, handlerVars>>
    \/ unit = "url" /\ URLNext /\ UNCHANGED <<unit, vars, dataVars, handlerVars>>
    \/ unit = "data" /\ DataNext /\ UNCHANGED <<unit, vars, urlVars, handlerVars>>
    \/ unit = "handle" /\ HandleNext /\ UNCHANGED <<unit, vars, urlVars, dataVars>>
UnitSpec == UnitInit /\ [][UnitNext]_everything
=============================================================================
