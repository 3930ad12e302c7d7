----------------------------- MODULE WorkerPool -----------------------------
(***************************************************************************)
(* The request adaptor of an application (GSWDefaultAdaptor) and its       *)
(* worker threads (GSWWorkerThread).  The run loop of the main thread      *)
(* announces connections one at a time.  With threads, each connection     *)
(* gets a thread of its own, at most _workerThreadCountMax at a time; the  *)
(* others wait in an array from which an ending thread starts the next.    *)
(* Without threads the main thread serves the connection before it         *)
(* returns to the run loop.  Every access to the two arrays is a section   *)
(* under _selfLock that waits for nothing, hence one step here.            *)
(***************************************************************************)
EXTENDS Integers, Sequences, FiniteSets

CONSTANTS
    Connections,            \* connections from the web server, each made once
    WorkerThreadCountMax,   \* the configured _workerThreadCountMax
    MultiThreadEnabled,     \* the configured _isMultiThreadEnabled
    NoConnection

ASSUME ConfigurationAssumption ==
    /\ WorkerThreadCountMax \in Int
    /\ MultiThreadEnabled \in BOOLEAN
    /\ NoConnection \notin Connections

\* initWithName:arguments: turns threads off when there can be none, and
\* allows one connection at a time when they are off.
IsMultiThreadEnabled == MultiThreadEnabled /\ WorkerThreadCountMax >= 1
Places == IF IsMultiThreadEnabled THEN WorkerThreadCountMax ELSE 1

VARIABLES
    phase,      \* the adaptor is registered for events, unregistered, or the
                \* process has ended
    threads,    \* _threads: the connections that have a worker thread
    inline,     \* the connection the main thread serves itself
    waiting,    \* _waitingThreads
    stage,      \* how far each connection has come
    admitted    \* history: the connections in the order of their admission

poolVars == <<phase, threads, inline, waiting, stage, admitted>>

Stages ==
    {"new", "refused", "waiting", "reading", "dispatching", "sending", "done", "closed"}

PoolInit ==
    /\ phase = "registered"
    /\ threads = {} /\ inline = NoConnection /\ waiting = <<>>
    /\ stage = [c \in Connections |-> "new"]
    /\ admitted = <<>>

(***************************************************************************)
(* announceNewConnection:, when the main thread is in its run loop.        *)
(***************************************************************************)
Announced(c) ==
    /\ phase = "registered" /\ inline = NoConnection
    /\ stage[c] = "new"

\* The connection does not come from the host of the web server.
RefuseConnection(c) ==
    /\ Announced(c)
    /\ stage' = [stage EXCEPT ![c] = "refused"]
    /\ UNCHANGED <<phase, threads, inline, waiting, admitted>>

\* _workOnHandle
WorkOnHandle(c) ==
    /\ Announced(c)
    /\ Cardinality(threads) < Places
    /\ IF IsMultiThreadEnabled
       THEN threads' = threads \union {c} /\ UNCHANGED inline
       ELSE inline' = c /\ UNCHANGED threads
    /\ stage' = [stage EXCEPT ![c] = "reading"]
    /\ admitted' = Append(admitted, c)
    /\ UNCHANGED <<phase, waiting>>

\* _queueWorkOnHandle
QueueWorkOnHandle(c) ==
    /\ Announced(c)
    /\ Cardinality(threads) >= Places
    /\ waiting' = Append(waiting, c)
    /\ stage' = [stage EXCEPT ![c] = "waiting"]
    /\ admitted' = Append(admitted, c)
    /\ UNCHANGED <<phase, threads, inline>>

(***************************************************************************)
(* runOnce, on a worker thread or on the main thread.                      *)
(***************************************************************************)
\* The socket gives a request, or an error, a time-out or a request that did
\* not come through the web server ends the connection.
Read(c) ==
    /\ phase # "ended"
    /\ stage[c] = "reading"
    /\ \E next \in {"dispatching", "done"} : stage' = [stage EXCEPT ![c] = next]
    /\ UNCHANGED <<phase, threads, inline, waiting, admitted>>

\* dispatchRequest: gives a response, the last-ditch one, or none.
Dispatch(c) ==
    /\ phase # "ended"
    /\ stage[c] = "dispatching"
    /\ \E next \in {"sending", "done"} : stage' = [stage EXCEPT ![c] = next]
    /\ UNCHANGED <<phase, threads, inline, waiting, admitted>>

Send(c) ==
    /\ phase # "ended"
    /\ stage[c] = "sending"
    /\ stage' = [stage EXCEPT ![c] = "done"]
    /\ UNCHANGED <<phase, threads, inline, waiting, admitted>>

\* The main thread returns to its run loop.
ReturnToRunLoop(c) ==
    /\ phase # "ended"
    /\ stage[c] = "done" /\ inline = c
    /\ inline' = NoConnection
    /\ stage' = [stage EXCEPT ![c] = "closed"]
    /\ UNCHANGED <<phase, threads, waiting, admitted>>

\* Mutant: the ending thread starts nothing.
ExitStartsNothing(c) ==
    /\ phase # "ended"
    /\ stage[c] = "done" /\ c \in threads
    /\ threads' = threads \ {c}
    /\ stage' = [stage EXCEPT ![c] = "closed"]
    /\ UNCHANGED <<phase, inline, waiting, admitted>>

\* Mutant: the ending thread starts the connection that came last.
ExitStartsLast(c) ==
    /\ phase # "ended"
    /\ stage[c] = "done" /\ c \in threads
    /\ LET n == Len(waiting) IN
         IF n = 0
         THEN /\ threads' = threads \ {c}
              /\ stage' = [stage EXCEPT ![c] = "closed"]
              /\ UNCHANGED waiting
         ELSE /\ threads' = (threads \ {c}) \union {waiting[n]}
              /\ stage' = [stage EXCEPT ![c] = "closed", ![waiting[n]] = "reading"]
              /\ waiting' = SubSeq(waiting, 1, n - 1)
    /\ UNCHANGED <<phase, inline, admitted>>

\* workerThreadWillExit: the thread hands its place to the first connection
\* that waits.
WorkerThreadWillExit(c) ==
    /\ phase # "ended"
    /\ stage[c] = "done" /\ c \in threads
    /\ \/ /\ waiting = <<>>
          /\ threads' = threads \ {c}
          /\ stage' = [stage EXCEPT ![c] = "closed"]
          /\ UNCHANGED waiting
       \/ /\ waiting # <<>>
          /\ threads' = (threads \ {c}) \union {Head(waiting)}
          /\ stage' = [stage EXCEPT ![c] = "closed", ![Head(waiting)] = "reading"]
          /\ waiting' = Tail(waiting)
    /\ UNCHANGED <<phase, inline, admitted>>

(***************************************************************************)
(* The end of -[GSWApplication run]: unregisterForEvents, then the process *)
(* ends, whatever its threads are doing.                                   *)
(***************************************************************************)
UnregisterForEvents ==
    /\ phase = "registered" /\ inline = NoConnection
    /\ phase' = "unregistered"
    /\ UNCHANGED <<threads, inline, waiting, stage, admitted>>

EndProcess ==
    /\ phase = "unregistered"
    /\ phase' = "ended"
    /\ UNCHANGED <<threads, inline, waiting, stage, admitted>>

Serve(c) ==
    Read(c) \/ Dispatch(c) \/ Send(c) \/ ReturnToRunLoop(c) \/ WorkerThreadWillExit(c)

PoolNext ==
    \/ \E c \in Connections :
         RefuseConnection(c) \/ WorkOnHandle(c) \/ QueueWorkOnHandle(c) \/ Serve(c)
    \/ UnregisterForEvents \/ EndProcess

PoolSpec == PoolInit /\ [][PoolNext]_poolVars

\* Every thread goes on: reads end at SO_RCVTIMEO, and a request ends.
PoolLiveSpec == PoolSpec /\ \A c \in Connections : WF_poolVars(Serve(c))

(***************************************************************************)
(* Properties.                                                             *)
(***************************************************************************)
PoolTypeOK ==
    /\ phase \in {"registered", "unregistered", "ended"}
    /\ threads \subseteq Connections
    /\ inline \in Connections \union {NoConnection}
    /\ waiting \in Seq(Connections)
    /\ stage \in [Connections -> Stages]
    /\ admitted \in Seq(Connections)

\* Connections in service, and those whose service is over.
Serving == threads \union ({inline} \ {NoConnection})
Closed == {c \in Connections : stage[c] = "closed"}
Started == Len(admitted) - Len(waiting)

\* No more connections are served at a time than the configuration allows.
PoolBounded == Cardinality(Serving) <= Places

\* A connection waits only while every place is taken: nothing but an ending
\* thread would ever start it.
NoIdlePlace == waiting # <<>> => Cardinality(threads) = Places

\* The inductive invariant: which array a connection is in follows from its
\* place in the order of admission.
ModeInv ==
    IF IsMultiThreadEnabled THEN inline = NoConnection ELSE threads = {} /\ waiting = <<>>
AdmittedInv ==
    /\ \A i, j \in 1 .. Len(admitted) : admitted[i] = admitted[j] => i = j
    /\ \A i \in 1 .. Len(admitted) : stage[admitted[i]] \notin {"new", "refused"}
WaitingInv ==
    /\ Len(waiting) <= Len(admitted)
    /\ \A i \in 1 .. Len(waiting) : waiting[i] = admitted[Started + i]
StartedInv ==
    /\ Serving \union Closed = {admitted[i] : i \in 1 .. Started}
    /\ Serving \intersect Closed = {}
    /\ IsFiniteSet(Serving) /\ IsFiniteSet(Closed)
    /\ Cardinality(Serving) + Cardinality(Closed) = Started
PoolInv ==
    /\ PoolTypeOK
    /\ ModeInv /\ AdmittedInv /\ WaitingInv /\ StartedInv
    /\ PoolBounded /\ NoIdlePlace

\* The adaptor is a work-conserving server of that many places, first come first
\* served, for announceNewConnection: on the run loop and any ends of threads.
Server == INSTANCE FifoServer WITH completed <- Closed, Max <- Places
ServerSpec == Server!Spec

\* Every connection that is admitted is served to its end, unless the process
\* ends before.
AdmittedIsServed ==
    \A c \in Connections :
        stage[c] \in {"waiting", "reading"} ~> stage[c] = "closed" \/ phase = "ended"
=============================================================================
