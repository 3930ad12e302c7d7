-------------------------- MODULE RequestForwarding -------------------------
(***************************************************************************)
(* What a web server's adaptor promises of one request.  One instance at   *)
(* most gets it, once, and before it is settled what to answer; and it is  *)
(* answered once and whole, or left to the web server without having been  *)
(* given to anybody, or the answer of the instance ends the process.       *)
(***************************************************************************)
EXTENDS Integers, Sequences

CONSTANT NoAnswer

VARIABLES
    state,      \* open, settled or over
    headOnly,   \* whether the client wants no content
    got,        \* what an instance got, if one did
    given,      \* what the client got
    verdict     \* what the web server is told: none, OK, or that it is its turn

forwardingVars == <<state, headOnly, got, given, verdict>>

Init ==
    /\ state = "open" /\ headOnly \in BOOLEAN
    /\ got = <<>> /\ given = NoAnswer /\ verdict = "none"

\* An instance gets the request, and no other one after it.
Forward ==
    /\ state = "open" /\ got = <<>>
    /\ Len(got') = 1
    /\ UNCHANGED <<state, headOnly, given, verdict>>

\* The instance has begun to answer, or there is none to ask any more.
Settle ==
    /\ state = "open" /\ state' = "settled"
    /\ UNCHANGED <<headOnly, got, given, verdict>>

\* What comes from an instance is the answer of the one that got the request.
Answer ==
    /\ state = "settled" /\ state' = "over"
    /\ given' # NoAnswer
    /\ given'.body = IF headOnly THEN 0 ELSE given'.length
    /\ given'.from = "instance" => got # <<>>
    /\ verdict' = "OK"
    /\ UNCHANGED <<headOnly, got>>

\* The answer of the instance is not one the adaptor can read.
Die ==
    /\ state = "settled" /\ got # <<>> /\ state' = "over"
    /\ UNCHANGED <<headOnly, got, given, verdict>>

\* The request is not for the application, or cannot be read.
Leave ==
    /\ state = "open" /\ got = <<>> /\ state' = "over"
    /\ verdict' \in {"DECLINED", "HTTP_error"}
    /\ UNCHANGED <<headOnly, got, given>>

Next == Forward \/ Settle \/ Answer \/ Die \/ Leave

Spec == Init /\ [][Next]_forwardingVars
=============================================================================
