------------------------------ MODULE Requests ------------------------------
(***************************************************************************)
(* The requests of SessionStore with and without its timers: in a quiet    *)
(* behaviour no timer fires, so that nothing expires and nobody ends the   *)
(* application.  What is left there is what any number of requests do to   *)
(* each other's sessions.                                                  *)
(***************************************************************************)
EXTENDS SessionStore

VARIABLE quiet      \* in this behaviour no timer fires

requestVars == <<quiet, vars>>

WorkersNext == \E w \in Workers : WorkerStep(w)

RequestsInit == quiet \in BOOLEAN /\ Init
RequestsNext ==
    /\ \/ quiet /\ WorkersNext
       \/ ~quiet /\ Next
    /\ UNCHANGED quiet
RequestsSpec == RequestsInit /\ [][RequestsNext]_requestVars

CheckedOut(s) == dict[s] # NoEntry /\ entry[dict[s]].checkedOut

Using(s) == {w \in Workers : sess[w] = s /\ pc[w] \notin {"checkOut", "checkOutEntry"}}

\* Until a timer fires and outside the store's locked regions, a session owns
\* an autorelease pool exactly while its entry is checked out:
\* _createAutoreleasePool finds none.
RequestsKeepPool ==
    quiet /\ storeLock = Nobody => \A s \in Sessions : s \in pool <=> CheckedOut(s)

\* Until a timer fires, a terminated session stays in the store only while a
\* request that will take it out again uses it.
RequestsTerminate ==
    quiet => \A s \in sessions \intersect terminating : Using(s) # {}
=============================================================================
