----------------------------- MODULE FifoServer -----------------------------
(***************************************************************************)
(* What the request adaptor promises: a work-conserving server with Max    *)
(* places that serves connections in the order in which it admits them.    *)
(* Which connections are in service follows from the order of admission    *)
(* and from those completed: nothing else is state.                        *)
(***************************************************************************)
EXTENDS Integers, Sequences, FiniteSets

CONSTANTS
    Connections,
    Max             \* the number of connections served at a time

VARIABLES
    admitted,       \* the connections in the order of their admission
    completed       \* those no longer served

\* The places free from the start, and one more for each completed connection,
\* go to the connections in turn.
InService ==
    {admitted[i] : i \in {j \in 1 .. Len(admitted) : j <= Cardinality(completed) + Max}}
        \ completed

Init == admitted = <<>> /\ completed = {}

Admit(c) ==
    /\ \A i \in 1 .. Len(admitted) : admitted[i] # c
    /\ admitted' = Append(admitted, c)
    /\ UNCHANGED completed

Complete(c) ==
    /\ c \in InService
    /\ completed' = completed \union {c}
    /\ UNCHANGED admitted

Next == \E c \in Connections : Admit(c) \/ Complete(c)

Spec == Init /\ [][Next]_<<admitted, completed>>
=============================================================================
