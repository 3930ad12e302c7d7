-------------------------- MODULE WorkerPoolProofs --------------------------
(***************************************************************************)
(* WorkerPool keeps PoolInv and implements FifoServer, for every set of    *)
(* connections and every configuration.                                    *)
(***************************************************************************)
EXTENDS WorkerPool, FiniteSetTheorems, SequenceTheorems, TLAPS

\* What initWithName:arguments: makes of the configuration.
LEMMA PlacesProps == /\ Places \in Nat /\ Places >= 1
                  /\ (~IsMultiThreadEnabled => Places = 1)
                  /\ IsMultiThreadEnabled \in BOOLEAN
BY ConfigurationAssumption DEF Places, IsMultiThreadEnabled

\* The lengths and the cardinalities are natural numbers.
LEMMA CountProps ==
    ASSUME PoolInv
    PROVE  /\ Started \in Nat /\ Len(admitted) \in Nat /\ Len(waiting) \in Nat
           /\ Started <= Len(admitted)
           /\ Cardinality(Serving) \in Nat /\ Cardinality(Closed) \in Nat
           /\ waiting = <<>> <=> Len(waiting) = 0
<1>1. admitted \in Seq(Connections) /\ waiting \in Seq(Connections)
  BY DEF PoolInv, PoolTypeOK
<1>2. Cardinality(Serving) \in Nat /\ Cardinality(Closed) \in Nat
  BY FS_CardinalityType DEF PoolInv, StartedInv
<1>3. Len(waiting) <= Len(admitted)
  BY DEF PoolInv, WaitingInv
<1> QED BY <1>1, <1>2, <1>3, EmptySeq DEF Started

\* In each mode, what Serving is.
LEMMA ServingProps ==
    ASSUME PoolInv
    PROVE  /\ IsMultiThreadEnabled => Serving = threads
           /\ ~IsMultiThreadEnabled => Serving = {inline} \ {NoConnection}
           /\ waiting # <<>> => IsMultiThreadEnabled /\ Cardinality(Serving) = Places
           /\ threads \subseteq Serving
BY DEF PoolInv, ModeInv, Serving, NoIdlePlace

\* The connections in service are those whose turn it is.
LEMMA ServingIsInService ==
    ASSUME PoolInv
    PROVE  Server!InService = Serving
<1> DEFINE n == Cardinality(Closed) + Places
           turn == {j \in 1 .. Len(admitted) : j <= n}
<1>1. turn = 1 .. Started
  <2>1. CASE waiting = <<>>
    <3>1. Started = Len(admitted)
      BY <2>1, CountProps DEF Started
    <3>2. Started <= n
      BY CountProps, PlacesProps DEF PoolInv, PoolBounded, StartedInv
    <3> QED BY <3>1, <3>2, CountProps, PlacesProps
  <2>2. CASE waiting # <<>>
    <3>1. Started = n
      BY <2>2, ServingProps, CountProps, PlacesProps DEF PoolInv, StartedInv
    <3> QED BY <3>1, CountProps, PlacesProps
  <2> QED BY <2>1, <2>2
<1>2. {admitted[i] : i \in turn} = Serving \union Closed
  BY <1>1 DEF PoolInv, StartedInv
<1>3. Server!Cardinality(Closed) = Cardinality(Closed)
  BY DEF Server!Cardinality, Cardinality
<1>4. Server!InService = (Serving \union Closed) \ Closed
  BY <1>2, <1>3, Zenon DEF Server!InService
<1> QED BY <1>4 DEF PoolInv, StartedInv

\* A connection that is new or refused has not been admitted.
LEMMA NewIsNotAdmitted ==
    ASSUME PoolInv, NEW c \in Connections, stage[c] \in {"new", "refused"}
    PROVE  /\ \A i \in 1 .. Len(admitted) : admitted[i] # c
           /\ c \notin Serving /\ c \notin Closed
<1>1. \A i \in 1 .. Len(admitted) : admitted[i] # c
  BY DEF PoolInv, AdmittedInv
<1>2. 1 .. Started \subseteq 1 .. Len(admitted)
  BY CountProps
<1> QED BY <1>1, <1>2 DEF PoolInv, StartedInv

\* A connection of an application's arrays gets a place at once.
LEMMA WorkOnHandleInv ==
    ASSUME PoolInv, NEW c \in Connections, WorkOnHandle(c)
    PROVE  PoolInv'
<1> USE DEF PoolInv
<1>1. PoolTypeOK /\ stage[c] = "new" /\ inline = NoConnection
  BY DEF WorkOnHandle, Announced
<1>2. waiting = <<>> /\ waiting' = <<>> /\ Cardinality(threads) < Places
  <2>1. Cardinality(threads) < Places
    BY DEF WorkOnHandle
  <2>2. Cardinality(threads) # Places
    <3>1. CASE IsMultiThreadEnabled
      BY <2>1, <3>1, ServingProps, CountProps, PlacesProps
    <3>2. CASE ~IsMultiThreadEnabled
      BY <2>1, <3>2, FS_EmptySet, PlacesProps DEF ModeInv
    <3> QED BY <3>1, <3>2
  <2> QED BY <2>1, <2>2 DEF WorkOnHandle, NoIdlePlace
<1>3. c \notin Serving /\ c \notin Closed /\ \A i \in 1 .. Len(admitted) : admitted[i] # c
  BY <1>1, NewIsNotAdmitted
<1>4. Serving' = Serving \union {c}
  BY <1>1, ConfigurationAssumption DEF WorkOnHandle, Serving
<1>5. /\ stage' = [stage EXCEPT ![c] = "reading"]
      /\ Closed' = Closed
  BY <1>1 DEF WorkOnHandle, Closed, PoolTypeOK
<1>6. /\ admitted' \in Seq(Connections)
      /\ Len(admitted') = Len(admitted) + 1
      /\ \A i \in 1 .. Len(admitted) : admitted'[i] = admitted[i]
      /\ admitted'[Len(admitted) + 1] = c
  BY <1>1, AppendProperties DEF WorkOnHandle, PoolTypeOK
<1>7. PoolTypeOK'
  BY <1>1, <1>2, <1>5, <1>6 DEF PoolTypeOK, WorkOnHandle, Stages
<1>8. ModeInv'
  BY <1>1, <1>2 DEF ModeInv, WorkOnHandle
<1>9. AdmittedInv'
  <2>1. \A i \in 1 .. Len(admitted') : i \in 1 .. Len(admitted) \/ i = Len(admitted) + 1
    BY <1>6, CountProps
  <2>2. \A i \in 1 .. Len(admitted) : admitted[i] \in Connections
    BY <1>1 DEF PoolTypeOK
  <2>3. \A i, j \in 1 .. Len(admitted') : admitted'[i] = admitted'[j] => i = j
    BY <1>3, <1>6, <2>1 DEF AdmittedInv
  <2>4. \A d \in Connections \ {c} : stage'[d] = stage[d]
    BY <1>1, <1>5 DEF PoolTypeOK
  <2>5. stage'[c] = "reading"
    BY <1>1, <1>5 DEF PoolTypeOK
  <2>6. \A i \in 1 .. Len(admitted') : stage'[admitted'[i]] \notin {"new", "refused"}
    BY <1>3, <1>6, <2>1, <2>2, <2>4, <2>5 DEF AdmittedInv
  <2> QED BY <2>3, <2>6 DEF AdmittedInv
<1>10. Started = Len(admitted) /\ Started' = Len(admitted) + 1
  BY <1>2, <1>6, CountProps DEF Started
<1>11. WaitingInv'
  BY <1>2, <1>6, CountProps DEF WaitingInv
<1>12. StartedInv'
  <2>1. \A i : i \in 1 .. Started' <=> i \in 1 .. Started \/ i = Len(admitted) + 1
    BY <1>10, CountProps
  <2>2. {admitted'[i] : i \in 1 .. Started'} = {admitted[i] : i \in 1 .. Started} \union {c}
    BY <1>6, <1>10, <2>1
  <2>3. IsFiniteSet(Serving') /\ Cardinality(Serving') = Cardinality(Serving) + 1
    BY <1>3, <1>4, FS_AddElement DEF StartedInv
  <2> QED BY <1>3, <1>4, <1>5, <1>10, <2>2, <2>3, CountProps DEF StartedInv
<1>13. PoolBounded' /\ NoIdlePlace'
  <2>1. Cardinality(Serving) < Places
    <3>1. CASE IsMultiThreadEnabled
      BY <1>2, <3>1, ServingProps
    <3>2. CASE ~IsMultiThreadEnabled
      <4>1. Serving = {}
        BY <1>1, <3>2, ServingProps
      <4> QED BY <4>1, FS_EmptySet, PlacesProps
    <3> QED BY <3>1, <3>2
  <2>2. Cardinality(Serving') = Cardinality(Serving) + 1
    BY <1>3, <1>4, FS_AddElement DEF StartedInv
  <2>3. Places' = Places
    BY DEF Places, IsMultiThreadEnabled
  <2> QED BY <1>2, <2>1, <2>2, <2>3, CountProps, PlacesProps DEF PoolBounded, NoIdlePlace
<1> QED BY <1>7, <1>8, <1>9, <1>11, <1>12, <1>13

\* A connection goes to the end of the waiting array.
LEMMA QueueWorkOnHandleInv ==
    ASSUME PoolInv, NEW c \in Connections, QueueWorkOnHandle(c)
    PROVE  PoolInv'
<1> USE DEF PoolInv
<1>1. /\ PoolTypeOK /\ stage[c] = "new" /\ inline = NoConnection
      /\ Cardinality(threads) >= Places
      /\ UNCHANGED <<phase, threads, inline>>
  BY DEF QueueWorkOnHandle, Announced
<1>2. IsMultiThreadEnabled
  BY <1>1, FS_EmptySet, PlacesProps DEF ModeInv
<1>3. \A i \in 1 .. Len(admitted) : admitted[i] # c
  BY <1>1, NewIsNotAdmitted
<1>4. Serving' = Serving
  BY <1>1 DEF Serving
<1>5. /\ stage' = [stage EXCEPT ![c] = "waiting"]
      /\ Closed' = Closed
  BY <1>1 DEF QueueWorkOnHandle, Closed, PoolTypeOK
<1>6. /\ admitted' \in Seq(Connections)
      /\ Len(admitted') = Len(admitted) + 1
      /\ \A i \in 1 .. Len(admitted) : admitted'[i] = admitted[i]
      /\ admitted'[Len(admitted) + 1] = c
  BY <1>1, AppendProperties DEF QueueWorkOnHandle, PoolTypeOK
<1>7. /\ waiting' \in Seq(Connections)
      /\ Len(waiting') = Len(waiting) + 1
      /\ \A i \in 1 .. Len(waiting) : waiting'[i] = waiting[i]
      /\ waiting'[Len(waiting) + 1] = c
  BY <1>1, AppendProperties DEF QueueWorkOnHandle, PoolTypeOK
<1>8. PoolTypeOK'
  BY <1>1, <1>5, <1>6, <1>7 DEF PoolTypeOK, Stages
<1>9. ModeInv'
  BY <1>1, <1>2 DEF ModeInv, IsMultiThreadEnabled
<1>10. AdmittedInv'
  <2>1. \A i \in 1 .. Len(admitted') : i \in 1 .. Len(admitted) \/ i = Len(admitted) + 1
    BY <1>6, CountProps
  <2>2. \A i \in 1 .. Len(admitted) : admitted[i] \in Connections
    BY <1>1 DEF PoolTypeOK
  <2>3. \A i, j \in 1 .. Len(admitted') : admitted'[i] = admitted'[j] => i = j
    BY <1>3, <1>6, <2>1 DEF AdmittedInv
  <2>4. stage'[c] = "waiting" /\ \A d \in Connections : d # c => stage'[d] = stage[d]
    BY <1>1, <1>5 DEF PoolTypeOK
  <2>5. ASSUME NEW i \in 1 .. Len(admitted') PROVE stage'[admitted'[i]] \notin {"new", "refused"}
    <3>1. CASE i \in 1 .. Len(admitted)
      BY <1>3, <1>6, <2>2, <2>4, <3>1 DEF AdmittedInv
    <3>2. CASE i = Len(admitted) + 1
      BY <1>6, <2>4, <3>2
    <3> QED BY <2>1, <3>1, <3>2
  <2> QED BY <2>3, <2>5 DEF AdmittedInv
<1>11. Started' = Started
  BY <1>6, <1>7, CountProps DEF Started
<1>12. WaitingInv'
  <2>1. ASSUME NEW i \in 1 .. Len(waiting')
        PROVE  waiting'[i] = admitted'[Started' + i]
    <3>1. CASE i \in 1 .. Len(waiting)
      <4>1. Started + i \in 1 .. Len(admitted)
        BY <3>1, CountProps DEF Started
      <4> QED BY <1>6, <1>7, <1>11, <3>1, <4>1 DEF WaitingInv
    <3>2. CASE i = Len(waiting) + 1
      <4>1. Started + i = Len(admitted) + 1
        BY <3>2, CountProps DEF Started
      <4> QED BY <1>6, <1>7, <1>11, <3>2, <4>1
    <3> QED BY <1>7, <3>1, <3>2, CountProps
  <2> QED BY <1>6, <1>7, <2>1, CountProps DEF WaitingInv
<1>13. StartedInv'
  <2>1. 1 .. Started \subseteq 1 .. Len(admitted)
    BY CountProps
  <2>2. {admitted'[i] : i \in 1 .. Started'} = {admitted[i] : i \in 1 .. Started}
    BY <1>6, <1>11, <2>1
  <2> QED BY <1>4, <1>5, <1>11, <2>2 DEF StartedInv
<1>14. PoolBounded' /\ NoIdlePlace'
  <2>1. Cardinality(threads) = Places
    BY <1>1, <1>2, ServingProps, CountProps, PlacesProps DEF PoolBounded
  <2>2. Places' = Places
    BY DEF Places, IsMultiThreadEnabled
  <2> QED BY <1>1, <1>4, <2>1, <2>2 DEF PoolBounded, NoIdlePlace
<1> QED BY <1>8, <1>9, <1>10, <1>12, <1>13, <1>14

\* A step that leaves the arrays alone and closes no connection.
LEMMA StageInv ==
    ASSUME PoolInv, NEW c \in Connections,
           (RefuseConnection(c) \/ Read(c) \/ Dispatch(c) \/ Send(c))
    PROVE  PoolInv' /\ Closed' = Closed /\ admitted' = admitted
<1> USE DEF PoolInv
<1>1. /\ UNCHANGED <<phase, threads, inline, waiting, admitted>>
      /\ PoolTypeOK
  BY DEF RefuseConnection, Read, Dispatch, Send
<1>2. /\ stage[c] # "closed" /\ stage' \in [Connections -> Stages] /\ stage'[c] # "closed"
      /\ \A d \in Connections \ {c} : stage'[d] = stage[d]
      /\ \/ stage[c] \in {"new", "refused"}
         \/ stage'[c] \notin {"new", "refused"}
  BY <1>1 DEF RefuseConnection, Announced, Read, Dispatch, Send, PoolTypeOK, Stages
<1>3. Closed' = Closed
  BY <1>2 DEF Closed
<1>4. Serving' = Serving /\ Started' = Started
  BY <1>1 DEF Serving, Started
<1>5. PoolTypeOK'
  BY <1>1, <1>2 DEF PoolTypeOK
<1>6. AdmittedInv'
  <2>1. \A i \in 1 .. Len(admitted) : admitted[i] \in Connections
    BY <1>1 DEF PoolTypeOK
  <2>2. stage[c] \in {"new", "refused"} => \A i \in 1 .. Len(admitted) : admitted[i] # c
    BY NewIsNotAdmitted
  <2>3. ASSUME NEW i \in 1 .. Len(admitted)
        PROVE  stage'[admitted[i]] \notin {"new", "refused"}
    <3>1. CASE admitted[i] = c
      BY <1>2, <2>2, <3>1
    <3>2. CASE admitted[i] # c
      BY <1>2, <2>1, <3>2 DEF AdmittedInv
    <3> QED BY <3>1, <3>2
  <2> QED BY <1>1, <2>3 DEF AdmittedInv
<1>7. ModeInv' /\ WaitingInv' /\ StartedInv' /\ PoolBounded' /\ NoIdlePlace'
  BY <1>1, <1>3, <1>4
     DEF ModeInv, WaitingInv, StartedInv, PoolBounded, NoIdlePlace, Places, IsMultiThreadEnabled
<1> QED BY <1>1, <1>3, <1>5, <1>6, <1>7

\* A connection whose service ends, when nothing waits for its place.
LEMMA EndInv ==
    ASSUME PoolInv, NEW c \in Serving,
           UNCHANGED <<phase, waiting, admitted>>,
           stage' = [stage EXCEPT ![c] = "closed"],
           waiting = <<>>,
           threads' = threads \ {c},
           inline' = IF inline = c THEN NoConnection ELSE inline
    PROVE  PoolInv' /\ Closed' = Closed \union {c}
<1> USE DEF PoolInv
<1>1. PoolTypeOK /\ c \in Connections /\ c \notin Closed
  BY DEF StartedInv, PoolTypeOK, Serving
<1>2. Closed' = Closed \union {c}
  BY <1>1 DEF Closed, PoolTypeOK
<1>3. Serving' = Serving \ {c}
  BY <1>1, ConfigurationAssumption DEF Serving, PoolTypeOK
<1>4. PoolTypeOK'
  BY <1>1 DEF PoolTypeOK, Stages
<1>5. ModeInv'
  BY DEF ModeInv, IsMultiThreadEnabled
<1>6. AdmittedInv'
  <2>1. \A i \in 1 .. Len(admitted) : admitted[i] \in Connections
    BY <1>1 DEF PoolTypeOK
  <2> QED BY <1>1, <2>1 DEF AdmittedInv, PoolTypeOK
<1>7. Started' = Started /\ WaitingInv'
  BY DEF Started, WaitingInv
<1>8. /\ IsFiniteSet(Serving') /\ Cardinality(Serving') = Cardinality(Serving) - 1
      /\ IsFiniteSet(Closed') /\ Cardinality(Closed') = Cardinality(Closed) + 1
  BY <1>1, <1>2, <1>3, FS_AddElement, FS_RemoveElement DEF StartedInv
<1>9. StartedInv'
  <2>1. Serving' \union Closed' = Serving \union Closed /\ Serving' \intersect Closed' = {}
    BY <1>2, <1>3 DEF StartedInv
  <2> QED BY <1>7, <1>8, <2>1, CountProps DEF StartedInv
<1>10. PoolBounded' /\ NoIdlePlace'
  BY <1>8, CountProps, PlacesProps DEF PoolBounded, NoIdlePlace, Places, IsMultiThreadEnabled
<1> QED BY <1>2, <1>4, <1>5, <1>6, <1>7, <1>9, <1>10

\* An ending thread hands its place on.
LEMMA HandOverInv ==
    ASSUME PoolInv, NEW c \in threads,
           UNCHANGED <<phase, inline, admitted>>,
           waiting # <<>>,
           threads' = (threads \ {c}) \union {Head(waiting)},
           stage' = [stage EXCEPT ![c] = "closed", ![Head(waiting)] = "reading"],
           waiting' = Tail(waiting)
    PROVE  PoolInv' /\ Closed' = Closed \union {c}
<1> USE DEF PoolInv
<1> DEFINE h == Head(waiting)
<1>1. PoolTypeOK /\ c \in Connections /\ c \in Serving /\ c \notin Closed
  BY DEF StartedInv, PoolTypeOK, Serving
<1>2. IsMultiThreadEnabled /\ inline = NoConnection
  BY ServingProps DEF ModeInv
<1>3. /\ h \in Connections /\ h = waiting[1]
      /\ waiting' \in Seq(Connections)
      /\ Len(waiting) \in Nat /\ Len(waiting) >= 1
      /\ Len(waiting') = Len(waiting) - 1
      /\ \A i \in 1 .. Len(waiting') : waiting'[i] = waiting[i + 1]
  BY <1>1, HeadTailProperties, CountProps DEF PoolTypeOK
<1>4. h = admitted[Started + 1] /\ Started + 1 \in 1 .. Len(admitted)
  BY <1>3, CountProps DEF WaitingInv, Started
<1>5. h \notin Serving /\ h \notin Closed
  <2>1. \A i \in 1 .. Started : admitted[i] # h
    <3>1. \A i \in 1 .. Started : i \in 1 .. Len(admitted) /\ i # Started + 1
      BY CountProps
    <3> QED BY <1>4, <3>1 DEF AdmittedInv
  <2> QED BY <2>1 DEF StartedInv
<1> HIDE DEF h
<1>6. h # c /\ stage[h] # "closed"
  BY <1>1, <1>3, <1>5 DEF Closed
<1>7. stage' = [stage EXCEPT ![c] = "closed", ![h] = "reading"]
  BY DEF h
<1>8. Closed' = Closed \union {c}
  <2>1. stage'[c] = "closed" /\ stage'[h] = "reading"
    BY <1>1, <1>3, <1>6, <1>7 DEF PoolTypeOK
  <2>2. \A d \in Connections \ {c, h} : stage'[d] = stage[d]
    BY <1>1, <1>7 DEF PoolTypeOK
  <2> QED BY <1>1, <1>3, <1>6, <2>1, <2>2 DEF Closed
<1>9. Serving = threads /\ Serving' = (Serving \ {c}) \union {h}
  BY <1>2 DEF Serving, h
<1>10. PoolTypeOK'
  BY <1>1, <1>3, <1>7 DEF PoolTypeOK, Stages, h
<1>11. ModeInv'
  BY <1>2 DEF ModeInv, IsMultiThreadEnabled
<1>12. AdmittedInv'
  <2>1. \A i \in 1 .. Len(admitted) : admitted[i] \in Connections
    BY <1>1 DEF PoolTypeOK
  <2> QED BY <1>1, <1>3, <1>7, <2>1 DEF AdmittedInv, PoolTypeOK
<1>13. Started' = Started + 1
  BY <1>3, CountProps DEF Started
<1>14. WaitingInv'
  <2>1. ASSUME NEW i \in 1 .. Len(waiting')
        PROVE  waiting'[i] = admitted'[Started' + i]
    <3>1. i + 1 \in 1 .. Len(waiting) /\ Started' + i = Started + (i + 1)
      BY <1>3, <1>13, CountProps
    <3> QED BY <1>3, <3>1 DEF WaitingInv
  <2> QED BY <1>3, <2>1, CountProps DEF WaitingInv
<1>15. /\ IsFiniteSet(Serving') /\ Cardinality(Serving') = Cardinality(Serving)
       /\ IsFiniteSet(Closed') /\ Cardinality(Closed') = Cardinality(Closed) + 1
  <2>1. IsFiniteSet(Serving \ {c}) /\ Cardinality(Serving \ {c}) = Cardinality(Serving) - 1
    BY <1>1, FS_RemoveElement DEF StartedInv
  <2>2. h \notin Serving \ {c}
    BY <1>5
  <2>3. /\ IsFiniteSet(Serving')
        /\ Cardinality(Serving') = Cardinality(Serving \ {c}) + 1
    BY <1>9, <2>1, <2>2, FS_AddElement
  <2>4. IsFiniteSet(Closed') /\ Cardinality(Closed') = Cardinality(Closed) + 1
    BY <1>1, <1>8, FS_AddElement DEF StartedInv
  <2> QED BY <2>1, <2>3, <2>4, CountProps
<1>16. StartedInv'
  <2>1. \A i : i \in 1 .. Started' <=> i \in 1 .. Started \/ i = Started + 1
    BY <1>13, CountProps
  <2>2. {admitted'[i] : i \in 1 .. Started'} = {admitted[i] : i \in 1 .. Started} \union {h}
    BY <1>4, <2>1
  <2>3. Serving' \union Closed' = (Serving \union Closed) \union {h}
    BY <1>1, <1>8, <1>9
  <2>4. Serving' \intersect Closed' = {}
    BY <1>5, <1>6, <1>8, <1>9 DEF StartedInv
  <2>5. Serving' \union Closed' = {admitted'[i] : i \in 1 .. Started'}
    BY <2>2, <2>3 DEF StartedInv
  <2>6. Cardinality(Serving') + Cardinality(Closed') = Started'
    BY <1>13, <1>15, CountProps DEF StartedInv
  <2> QED BY <1>15, <2>4, <2>5, <2>6 DEF StartedInv
<1>17. PoolBounded' /\ NoIdlePlace'
  <2>1. Cardinality(threads) = Places /\ threads' = Serving'
    BY <1>9 DEF NoIdlePlace, h
  <2> QED BY <1>9, <1>15, <2>1 DEF PoolBounded, NoIdlePlace, Places, IsMultiThreadEnabled
<1> QED BY <1>8, <1>10, <1>11, <1>12, <1>14, <1>16, <1>17

\* The end of a connection's service, in either mode.
LEMMA CloseInv ==
    ASSUME PoolInv, NEW c \in Connections, (ReturnToRunLoop(c) \/ WorkerThreadWillExit(c))
    PROVE  PoolInv' /\ Closed' = Closed \union {c} /\ admitted' = admitted /\ c \in Serving
<1>1. CASE ReturnToRunLoop(c)
  <2>1. c \in Serving /\ ~IsMultiThreadEnabled /\ threads = {} /\ waiting = <<>>
    BY <1>1, ConfigurationAssumption DEF ReturnToRunLoop, Serving, PoolInv, ModeInv
  <2> QED BY <1>1, <2>1, EndInv DEF ReturnToRunLoop
<1>2. CASE WorkerThreadWillExit(c)
  <2>1. c \in threads /\ c \in Serving /\ inline = NoConnection
    BY <1>2 DEF WorkerThreadWillExit, Serving, PoolInv, ModeInv
  <2>2. CASE waiting = <<>>
    BY <1>2, <2>1, <2>2, EndInv, ConfigurationAssumption DEF WorkerThreadWillExit
  <2>3. CASE waiting # <<>>
    BY <1>2, <2>1, <2>3, HandOverInv DEF WorkerThreadWillExit
  <2> QED BY <1>2, <2>1, <2>2, <2>3 DEF WorkerThreadWillExit
<1> QED BY <1>1, <1>2

\* The start.
LEMMA PoolInvInit ==
    ASSUME PoolInit
    PROVE  PoolInv /\ Closed = {}
<1> USE DEF PoolInit
<1>1. Closed = {} /\ Serving = {}
  BY DEF Closed, Serving
<1>2. Started = 0
  BY DEF Started
<1>3. PoolTypeOK
  BY DEF PoolTypeOK, Stages
<1>4. IsFiniteSet({}) /\ Cardinality({}) = 0
  BY FS_EmptySet
<1> QED BY <1>1, <1>2, <1>3, <1>4, PlacesProps
        DEF PoolInv, ModeInv, AdmittedInv, WaitingInv, StartedInv, PoolBounded, NoIdlePlace

\* Steps that leave the pool alone.
LEMMA PoolUnchanged ==
    ASSUME PoolInv, UNCHANGED <<threads, inline, waiting, stage, admitted>>,
           phase' \in {"registered", "unregistered", "ended"}
    PROVE  PoolInv' /\ Closed' = Closed /\ admitted' = admitted
BY DEF PoolInv, PoolTypeOK, ModeInv, AdmittedInv, WaitingInv, StartedInv, PoolBounded,
       NoIdlePlace, Serving, Closed, Started, Places, IsMultiThreadEnabled

\* Every step keeps the invariant and is one of the abstract server.
LEMMA PoolInvNext ==
    ASSUME PoolInv, [PoolNext]_poolVars
    PROVE  PoolInv' /\ [Server!Next]_<<admitted, Closed>>
<1>1. ASSUME NEW c \in Connections,
             RefuseConnection(c) \/ Read(c) \/ Dispatch(c) \/ Send(c)
      PROVE  PoolInv' /\ [Server!Next]_<<admitted, Closed>>
  BY <1>1, StageInv
<1>2. ASSUME NEW c \in Connections, WorkOnHandle(c) \/ QueueWorkOnHandle(c)
      PROVE  PoolInv' /\ [Server!Next]_<<admitted, Closed>>
  <2>1. PoolInv'
    BY <1>2, WorkOnHandleInv, QueueWorkOnHandleInv
  <2>2. stage[c] = "new" /\ admitted' = Append(admitted, c)
    BY <1>2 DEF WorkOnHandle, QueueWorkOnHandle, Announced
  <2>3. Closed' = Closed
    BY <1>2, <2>2 DEF WorkOnHandle, QueueWorkOnHandle, Closed, PoolInv, PoolTypeOK
  <2>4. Server!Admit(c)
    BY <2>2, <2>3, NewIsNotAdmitted DEF Server!Admit
  <2> QED BY <2>1, <2>4 DEF Server!Next
<1>3. ASSUME NEW c \in Connections, ReturnToRunLoop(c) \/ WorkerThreadWillExit(c)
      PROVE  PoolInv' /\ [Server!Next]_<<admitted, Closed>>
  <2>1. PoolInv' /\ Closed' = Closed \union {c} /\ admitted' = admitted /\ c \in Serving
    BY <1>3, CloseInv
  <2>2. Server!Complete(c)
    BY <2>1, ServingIsInService DEF Server!Complete
  <2> QED BY <2>1, <2>2 DEF Server!Next
<1>4. CASE UnregisterForEvents \/ EndProcess \/ UNCHANGED poolVars
  <2>1. UNCHANGED <<threads, inline, waiting, stage, admitted>>
        /\ phase' \in {"registered", "unregistered", "ended"}
    BY <1>4 DEF UnregisterForEvents, EndProcess, poolVars, PoolInv, PoolTypeOK
  <2> QED BY <2>1, PoolUnchanged
<1> QED BY <1>1, <1>2, <1>3, <1>4 DEF PoolNext, Serve

\* The arrays of the adaptor follow from the order of admission, whatever the
\* threads do.
THEOREM PoolInvHolds == PoolSpec => []PoolInv
<1>1. PoolInit => PoolInv
  BY PoolInvInit
<1>2. PoolInv /\ [PoolNext]_poolVars => PoolInv'
  BY PoolInvNext
<1> QED BY <1>1, <1>2, PTL DEF PoolSpec

\* At most _workerThreadCountMax connections are served at a time, one when
\* the adaptor has no threads.
THEOREM PoolIsBounded == PoolSpec => []PoolBounded
<1>1. PoolInv => PoolBounded
  BY DEF PoolInv
<1> QED BY <1>1, PoolInvHolds, PTL

\* No connection waits while a place is free.
THEOREM NoPlaceIsIdle == PoolSpec => []NoIdlePlace
<1>1. PoolInv => NoIdlePlace
  BY DEF PoolInv
<1> QED BY <1>1, PoolInvHolds, PTL

\* The adaptor implements the work-conserving first-come-first-served server.
THEOREM ImplementsServer == PoolSpec => ServerSpec
<1>1. PoolInit => Server!Init
  BY PoolInvInit DEF PoolInit, Server!Init
<1>2. PoolInv /\ [PoolNext]_poolVars => [Server!Next]_<<admitted, Closed>>
  BY PoolInvNext
<1> QED BY <1>1, <1>2, PoolInvHolds, PTL DEF PoolSpec, ServerSpec, Server!Spec
=============================================================================
