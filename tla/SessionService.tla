--------------------------- MODULE SessionService ---------------------------
(***************************************************************************)
(* What the sessions of an application without threads amount to: a        *)
(* request begins a session or takes one that is kept, and gives it back   *)
(* kept or over.  A session ends once, by its request or when it times out *)
(* between requests; one that is over is never served again.               *)
(***************************************************************************)
EXTENDS Integers

CONSTANT Sessions

VARIABLES
    status,         \* of each session: new, begun, kept or over
    serving,        \* the session in service, of at most one request
    active          \* how many sessions the application believes to live

serviceVars == <<status, serving, active>>

Init ==
    /\ status = [s \in Sessions |-> "new"]
    /\ serving = {}
    /\ active = 0

\* A request that has no session gets a new one.
Begin(s) ==
    /\ serving = {} /\ status[s] = "new"
    /\ status' = [status EXCEPT ![s] = "begun"]
    /\ serving' = {s}
    /\ active' = active + 1

\* A request that names a session gets that one.
Take(s) ==
    /\ serving = {} /\ status[s] = "kept"
    /\ serving' = {s}
    /\ UNCHANGED <<status, active>>

\* The session of the request in service is kept for the next one.
Keep(s) ==
    /\ serving = {s} /\ status[s] = "begun"
    /\ status' = [status EXCEPT ![s] = "kept"]
    /\ UNCHANGED <<serving, active>>

\* It is given back: a request never leaves a session behind that is neither
\* kept nor over.
Release(s) ==
    /\ serving = {s} /\ status[s] # "begun"
    /\ serving' = {}
    /\ UNCHANGED <<status, active>>

Over(s) ==
    /\ status' = [status EXCEPT ![s] = "over"]
    /\ active' = active - 1
    /\ UNCHANGED serving

\* The request in service terminates its session.
End(s) == serving = {s} /\ status[s] \in {"begun", "kept"} /\ Over(s)

\* A session that no request uses times out, or is shut down.
TimeOut(s) == serving = {} /\ status[s] = "kept" /\ Over(s)

Next ==
    \E s \in Sessions :
        Begin(s) \/ Take(s) \/ Keep(s) \/ Release(s) \/ End(s) \/ TimeOut(s)

Spec == Init /\ [][Next]_serviceVars
=============================================================================
