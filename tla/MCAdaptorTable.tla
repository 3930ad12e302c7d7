--------------------------- MODULE MCAdaptorTable ---------------------------
(***************************************************************************)
(* The adaptor's table of applications and instances: a run of two kinds   *)
(* of behaviours, and unit says which.  "balance" is LoadBalancing as it   *)
(* is, with two requests; "read" is ConfigReader.  The variables of the    *)
(* other keep their values.                                                *)
(***************************************************************************)
EXTENDS MCLoadBalancing, ConfigFiles

VARIABLE unit

\* Initial files are told apart where they are read.
UnitInit ==
    /\ unit \in {"balance", "read"} /\ Init /\ ReaderInit
    /\ unit = "read" => file = NoFile
UnitNext ==
    \/ unit = "balance" /\ Next /\ CountIsKept /\ UNCHANGED <<unit, readerVars>>
    \/ unit = "read" /\ ReaderNext /\ UNCHANGED <<unit, vars>>
UnitSpec == UnitInit /\ [][UnitNext]_<<unit, vars, readerVars>>
=============================================================================
