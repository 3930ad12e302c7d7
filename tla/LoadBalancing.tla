--------------------------- MODULE LoadBalancing ---------------------------
(***************************************************************************)
(* One web server process of the GSWeb adaptor, for one application: the   *)
(* table of its instances (GSWApp, GSWAppInstance), the reload of the      *)
(* configuration file that fills it, and the requests that choose an       *)
(* instance, contact it, and choose another when it does not listen.       *)
(*                                                                         *)
(* Requests are what the process serves at a time: one in the builds for   *)
(* Apache, whose locks are empty (GSWLock.h), several in a build with      *)
(* locks.  What is done under g_lockAppList is one step; MarkNotResponding *)
(* does not take the lock, and is two.                                     *)
(*                                                                         *)
(* Time is abstracted to what is compared with it.  A mark that lasts for  *)
(* some seconds is "yes", then "ripe" when its time is over, and "no" when *)
(* the code has cleared it.                                                *)
(***************************************************************************)
EXTENDS Integers, Sequences, FiniteSets, SequencesExt

CONSTANTS
    Requests,     \* the requests the process serves at a time
    Instances,    \* the numbers that instances have in configurations
    Records,      \* identities of GSWAppInstance structures
    MaxAttempts,  \* APP_CONNECT_RETRIES_NB
    SwitchToKnownInstance,
    Watched,      \* the instance whose turn RoundRobin follows
    MaxEdits,     \* bound: changes of the configuration file
    MaxLeaks,     \* bound: no request begins once so many left a record opened
    AnyInstance, NoInstance, NoRecord

ASSUME InstancesAssumption ==
    /\ NoInstance \notin Instances
    /\ AnyInstance \notin Instances
    /\ NoRecord \notin Records
ASSUME FiniteAssumption == IsFiniteSet(Requests) /\ IsFiniteSet(Records)
ASSUME AttemptsAssumption ==
    /\ MaxAttempts \in Nat
    /\ MaxEdits \in Nat
    /\ MaxLeaks \in Nat
    /\ SwitchToKnownInstance \in BOOLEAN

VARIABLES
    file,           \* the configuration file: the instances of the application
    newer,          \* its time is after config_mtime
    readAge,        \* time since config_mtime: this second, less than 10 s, more
    loaded,         \* history: the configuration last read
    edits,          \* history: how often the file was changed
    order,          \* stInstancesDict: the records, as GSWDict_AllKeys lists them
    inst,           \* iInstance of each record; NoInstance: not allocated
    valid,          \* records whose fValid is TRUE
    dead,           \* timeNextRetryTime of each record
    opened,         \* uOpenedRequestsNb of each record
    last,           \* iLastInstanceIndex
    refuses,        \* GSWAppInfo.isRefused of each instance number
    unavailable,    \* unavailableUntil is in the future
    pc, want, keyed, left, held, notResponding, seen,
    leaked,         \* history: requests that ended and left a record opened
    passed          \* history: FindApp's choices since the turn of Watched

config == <<file, newer, readAge, loaded, edits>>
table == <<order, inst, valid, dead, opened, last, unavailable>>
request == <<want, keyed, left, held, notResponding, seen>>
vars == <<config, table, refuses, pc, request, leaked, passed>>

\* A configuration file that has the application with some instances, one that
\* has not or cannot be parsed, and none.
Application(c) == [kind |-> "application", has |-> c]
NoApp == [kind |-> "other", has |-> {}]
NoFile == [kind |-> "none", has |-> {}]
File == {Application(c) : c \in SUBSET Instances} \union {NoApp, NoFile}

Mark == {"no", "yes", "ripe"}
PC == {"idle", "load", "search", "dump", "found", "attempt", "connected",
       "marking", "failed"}

Dict == ToSet(order)
Allocated == {x \in Records : inst[x] # NoInstance}

\* The requests that raised x's count and have not lowered it.
Counted == {"found", "attempt", "connected", "marking"}
Holders(x) == {r \in Requests : held[r] = x /\ pc[r] \in Counted}

Goto(r, label) == pc' = [pc EXCEPT ![r] = label]

\* SendAppRequestToApp returns: the request's structure was on the stack.
Return(r) ==
    /\ Goto(r, "idle")
    /\ want' = [want EXCEPT ![r] = AnyInstance]
    /\ keyed' = [keyed EXCEPT ![r] = FALSE]
    /\ left' = [left EXCEPT ![r] = 0]
    /\ held' = [held EXCEPT ![r] = NoRecord]
    /\ notResponding' = [notResponding EXCEPT ![r] = FALSE]
    /\ seen' = [seen EXCEPT ![r] = 0]

Init ==
    /\ file \in File
    /\ newer = TRUE /\ readAge = "due" /\ loaded = NoApp /\ edits = 0
    /\ order = <<>>
    /\ inst = [x \in Records |-> NoInstance]
    /\ valid = {}
    /\ dead = [x \in Records |-> "no"]
    /\ opened = [x \in Records |-> 0]
    /\ last = 0
    /\ refuses = [i \in Instances |-> "no"]
    /\ unavailable = FALSE
    /\ pc = [r \in Requests |-> "idle"]
    /\ want = [r \in Requests |-> AnyInstance]
    /\ keyed = [r \in Requests |-> FALSE]
    /\ left = [r \in Requests |-> 0]
    /\ held = [r \in Requests |-> NoRecord]
    /\ notResponding = [r \in Requests |-> FALSE]
    /\ seen = [r \in Requests |-> 0]
    /\ leaked = [x \in Records |-> 0]
    /\ passed = [i \in Instances |-> 0]

(***************************************************************************)
(* GSWConfig_LoadConfiguration.                                            *)
(***************************************************************************)
\* Mutant: FreeNotValidInstances is forgotten.
KeptAll(c) == Dict

\* The records of the dictionary that configuration c still has.
Kept(c) == {x \in Dict : inst[x] \in c}

\* What GSWDict_AllKeys may list: the places of a table with holes are
\* abstracted to any order.
Listings(S) ==
    {q \in [1 .. Cardinality(S) -> S] :
        /\ \A j, k \in DOMAIN q : q[j] = q[k] => j = k
        /\ \A x \in S : \E k \in DOMAIN q : q[k] = x}

\* Mutant: the test of the count is forgotten.
FreeAnyway(S) == S

\* GSWAppInstance_FreeIFND: the records of S it frees when none is in use.
FreeIFND(S) == {x \in S : opened[x] = 0}

\* Records for new instances; the identity of a record that a request still
\* points to is not used again.
Fresh == Records \ (Allocated \union {held[r] : r \in Requests})

\* GSWConfig_PropListApplicationToApplication: instances of c that are not
\* known get the records fresh, those of the dictionary that are not in c are
\* removed, and freed unless requests are open.  The product that gives the
\* first index is rounded, to the number of instances itself at worst.
Apply(c) ==
    \E fresh \in [c \ {inst[x] : x \in Kept(c)} -> Fresh] :
        LET made == {fresh[i] : i \in DOMAIN fresh}
            now == Kept(c) \union made
            freed == FreeIFND(Dict \ now)
        IN  /\ \A i, j \in DOMAIN fresh : fresh[i] = fresh[j] => i = j
            /\ order' \in Listings(now)
            /\ inst' = [x \in Records |->
                          IF x \in made THEN CHOOSE i \in DOMAIN fresh : fresh[i] = x
                          ELSE IF x \in freed THEN NoInstance ELSE inst[x]]
            /\ valid' = now
            /\ dead' = [x \in Records |-> IF x \in now \union freed THEN "no" ELSE dead[x]]
            /\ last' \in 0 .. Cardinality(now)
            /\ unavailable' \in BOOLEAN
            /\ UNCHANGED opened

\* The file is looked at every CONFIG_FILE_STAT_INTERVAL seconds and read when
\* its time is after the last look.  A configuration without the application,
\* or that cannot be parsed, only makes its instances invalid.
LoadConfiguration ==
    \/ /\ readAge # "due" \/ file = NoFile
       /\ UNCHANGED <<config, table, passed>>
    \/ /\ readAge = "due" /\ file # NoFile /\ ~newer
       /\ readAge' = "now"
       /\ UNCHANGED <<file, newer, loaded, edits, table, passed>>
    \/ /\ readAge = "due" /\ file # NoFile /\ newer
       /\ readAge' = "now" /\ newer' = FALSE /\ loaded' = file
       /\ passed' = [i \in Instances |-> 0]
       /\ IF file = NoApp
          THEN valid' = {} /\ UNCHANGED <<order, inst, dead, opened, last, unavailable>>
          ELSE Apply(file.has)
       /\ UNCHANGED <<file, edits>>

(***************************************************************************)
(* GSWLoadBalancing.c: the choice of an instance.                          *)
(***************************************************************************)
\* A request without a request handler key starts a session, which an
\* instance may have refused.
Willing(r, x) == keyed[r] \/ refuses[inst[x]] # "yes"
Fit(r, x) == x \in valid /\ dead[x] # "yes" /\ Willing(r, x)

\* Mutant: the search begins with the first instance.
TurnFromFirst(k) == order[k]

\* The k-th instance after the last one.
Turn(k) == order[((last + k) % Len(order)) + 1]

\* Marks that FindApp clears when it looks at the records of S.
ClearMarks(r, S) ==
    /\ dead' = [x \in Records |-> IF x \in S /\ dead[x] = "ripe" THEN "no" ELSE dead[x]]
    /\ refuses' = [i \in Instances |->
                     IF /\ ~keyed[r] /\ refuses[i] = "ripe"
                        /\ \E x \in S : inst[x] = i /\ x \in valid /\ dead[x] # "yes"
                     THEN "no" ELSE refuses[i]]

\* Any later search of the request is FindApp's.
Choose(r, x) ==
    /\ want' = [want EXCEPT ![r] = AnyInstance]
    /\ held' = [held EXCEPT ![r] = x]
    /\ opened' = [opened EXCEPT ![x] = @ + 1]
    /\ Goto(r, IF notResponding[r] THEN "attempt" ELSE "found")

\* Counts the choices of each instance while Watched could have been chosen.
Follow(r, x) ==
    passed' = IF inst[x] # Watched /\ \E y \in Dict : inst[y] = Watched /\ Fit(r, y)
              THEN [passed EXCEPT ![inst[x]] = IF @ < 2 THEN @ + 1 ELSE 2]
              ELSE [i \in Instances |-> 0]

FindApp(r) ==
    /\ pc[r] = "search" /\ want[r] = AnyInstance
    /\ \E k \in 1 .. Len(order) :
         /\ Fit(r, Turn(k))
         /\ \A j \in 1 .. k - 1 : ~Fit(r, Turn(j))
         /\ last' = (last + k) % Len(order)
         /\ Choose(r, Turn(k))
         /\ ClearMarks(r, {Turn(j) : j \in 1 .. k})
         /\ Follow(r, Turn(k))
    /\ UNCHANGED <<config, order, inst, valid, unavailable, keyed, left,
                   notResponding, seen, leaked>>

FindAppFails(r) ==
    /\ pc[r] = "search" /\ want[r] = AnyInstance
    /\ \A k \in 1 .. Len(order) : ~Fit(r, Turn(k))
    /\ last' = IF order = <<>> THEN last ELSE last % Len(order)
    /\ ClearMarks(r, Dict)
    /\ Goto(r, IF notResponding[r] THEN "failed" ELSE "dump")
    /\ UNCHANGED <<config, order, inst, valid, opened, unavailable, request,
                   leaked, passed>>

\* FindInstance does not look at the mark of a dead instance.
FindInstance(r) ==
    /\ pc[r] = "search" /\ want[r] # AnyInstance
    /\ \E x \in Dict :
         /\ inst[x] = want[r] /\ x \in valid /\ Willing(r, x)
         /\ Choose(r, x)
         /\ refuses' = [refuses EXCEPT ![want[r]] = IF keyed[r] THEN @ ELSE "no"]
    /\ UNCHANGED <<config, order, inst, valid, dead, last, unavailable, keyed, left,
                   notResponding, seen, leaked, passed>>

\* The switch needs an application in the table.  A reload that leaves it without
\* instances takes it out, a request that frees its last one does not: with an
\* empty dictionary either may be the case.
FindInstanceFails(r) ==
    /\ pc[r] = "search" /\ want[r] # AnyInstance
    /\ \A x \in Dict : inst[x] = want[r] => ~(x \in valid /\ Willing(r, x))
    /\ \/ /\ SwitchToKnownInstance
          /\ \A x \in Dict : inst[x] # want[r]
          /\ want' = [want EXCEPT ![r] = AnyInstance]
          /\ Goto(r, "load")
       \/ /\ \/ ~SwitchToKnownInstance \/ order = <<>>
             \/ \E x \in Dict : inst[x] = want[r]
          /\ Goto(r, "dump") /\ UNCHANGED want
    /\ UNCHANGED <<config, table, refuses, keyed, left, held, notResponding, seen,
                   leaked, passed>>

\* GSWDict_RemoveKey for the record x.
Without(x) ==
    IF \E k \in DOMAIN order : order[k] = x
    THEN RemoveAt(order, CHOOSE k \in DOMAIN order : order[k] = x)
    ELSE order

\* Mutant: the count is not lowered.
LowerToSame(x, n) == UNCHANGED <<opened, inst, order>>

\* Mutant: an instance that is not valid is not freed.
LowerToOnly(x, n) ==
    opened' = [opened EXCEPT ![x] = n] /\ UNCHANGED <<inst, order>>

\* The count of x becomes n, and x is freed if it is not valid and not in use.
LowerTo(x, n) ==
    LET frees == x \notin valid /\ n = 0
    IN  /\ opened' = [opened EXCEPT ![x] = n]
        /\ inst' = IF frees THEN [inst EXCEPT ![x] = NoInstance] ELSE inst
        /\ order' = IF frees THEN Without(x) ELSE order

(***************************************************************************)
(* GSWAppRequest_SendAppRequestToApp.                                      *)
(***************************************************************************)
Begin(r) ==
    /\ pc[r] = "idle"
    /\ \A x \in Records : leaked[x] < MaxLeaks
    /\ \E w \in Instances \union {AnyInstance}, k \in BOOLEAN :
         /\ want' = [want EXCEPT ![r] = w]
         /\ keyed' = [keyed EXCEPT ![r] = k]
    /\ left' = [left EXCEPT ![r] = MaxAttempts]
    /\ notResponding' = [notResponding EXCEPT ![r] = FALSE]
    /\ Goto(r, "load")
    /\ UNCHANGED <<config, table, refuses, held, seen, leaked, passed>>

Load(r) ==
    /\ pc[r] = "load"
    /\ LoadConfiguration
    /\ Goto(r, "search")
    /\ UNCHANGED <<refuses, request, leaked>>

\* The answer lists the applications: none was found, or the URL asked for it.
Dump(r) ==
    /\ pc[r] \in {"idle", "dump"}
    /\ LoadConfiguration
    /\ Return(r)
    /\ UNCHANGED <<refuses, leaked>>

\* The request returns without lowering the count of what it holds.
Abandon(r) ==
    /\ leaked' = [leaked EXCEPT ![held[r]] = @ + 1]
    /\ Return(r)

CheckAvailable(r) ==
    /\ pc[r] = "found"
    /\ IF unavailable
       THEN Abandon(r)
       ELSE Goto(r, "attempt") /\ UNCHANGED <<request, leaked>>
    /\ UNCHANGED <<config, table, refuses, passed>>

\* GSWApp_Open succeeds; StartAppRequest clears the mark of a dead instance.
Connect(r) ==
    /\ pc[r] = "attempt" /\ left[r] > 0
    /\ left' = [left EXCEPT ![r] = @ - 1]
    /\ notResponding' = [notResponding EXCEPT ![r] = FALSE]
    /\ dead' = [dead EXCEPT ![held[r]] = "no"]
    /\ Goto(r, "connected")
    /\ UNCHANGED <<config, order, inst, valid, opened, last, unavailable, refuses,
                   want, keyed, held, seen, leaked, passed>>

\* GSWApp_Open fails; MarkNotResponding reads the count without a lock.
ConnectFails(r) ==
    /\ pc[r] = "attempt" /\ left[r] > 0
    /\ left' = [left EXCEPT ![r] = @ - 1]
    /\ notResponding' = [notResponding EXCEPT ![r] = TRUE]
    /\ seen' = [seen EXCEPT ![r] = opened[held[r]]]
    /\ Goto(r, "marking")
    /\ UNCHANGED <<config, table, refuses, want, keyed, held, leaked, passed>>

\* Mutant: the search for another instance gives the attempts back.
MarkAndStartAgain(r) ==
    /\ pc[r] = "marking"
    /\ LowerTo(held[r], seen[r] - 1)
    /\ dead' = [dead EXCEPT ![held[r]] = "yes"]
    /\ seen' = [seen EXCEPT ![r] = 0]
    /\ left' = [left EXCEPT ![r] = MaxAttempts] /\ Goto(r, "load")
    /\ UNCHANGED <<config, valid, last, unavailable, refuses, want, keyed, held,
                   notResponding, leaked, passed>>

\* MarkNotResponding writes the count; another instance is searched if
\* attempts remain, which takes one more.
MarkNotResponding(r) ==
    /\ pc[r] = "marking"
    /\ LowerTo(held[r], seen[r] - 1)
    /\ dead' = [dead EXCEPT ![held[r]] = "yes"]
    /\ seen' = [seen EXCEPT ![r] = 0]
    /\ IF left[r] > 0
       THEN left' = [left EXCEPT ![r] = @ - 1] /\ Goto(r, "load")
       ELSE Goto(r, "failed") /\ UNCHANGED left
    /\ UNCHANGED <<config, valid, last, unavailable, refuses, want, keyed, held,
                   notResponding, leaked, passed>>

\* The request is written: GSWApp_SendBlock has no failure to report, so that the
\* same instance is not tried again.  GetResponse always gives a response;
\* StopAppRequest; GSWAppInfo_Set when the instance refuses new sessions.
Respond(r) ==
    /\ pc[r] = "connected"
    /\ LowerTo(held[r], opened[held[r]] - 1)
    /\ \/ UNCHANGED refuses
       \/ refuses' = [refuses EXCEPT ![inst[held[r]]] = "yes"]
    /\ Return(r)
    /\ UNCHANGED <<config, valid, dead, last, unavailable, leaked, passed>>

\* The page that says the instance does not respond.
GiveUp(r) ==
    /\ \/ pc[r] = "attempt" /\ left[r] = 0 /\ Abandon(r)
       \/ pc[r] = "failed" /\ Return(r) /\ UNCHANGED leaked
    /\ UNCHANGED <<config, table, refuses, passed>>

(***************************************************************************)
(* The environment: the configuration file, and time.                      *)
(***************************************************************************)
\* A change in the second of the last look does not make the file newer.
EditFile ==
    /\ edits < MaxEdits
    /\ file' \in File \ {file}
    /\ newer' = (readAge # "now")
    /\ edits' = edits + 1
    /\ UNCHANGED <<readAge, loaded, table, refuses, pc, request, leaked, passed>>

Tick ==
    /\ readAge # "due"
    /\ readAge' = IF readAge = "now" THEN "recent" ELSE "due"
    /\ UNCHANGED <<file, newer, loaded, edits, table, refuses, pc, request, leaked, passed>>

RetryTimeComes ==
    /\ \E x \in Records : dead[x] = "yes" /\ dead' = [dead EXCEPT ![x] = "ripe"]
    /\ UNCHANGED <<config, order, inst, valid, opened, last, unavailable, refuses,
                   pc, request, leaked, passed>>

RefusalIsOver ==
    /\ \E i \in Instances : refuses[i] = "yes" /\ refuses' = [refuses EXCEPT ![i] = "ripe"]
    /\ UNCHANGED <<config, table, pc, request, leaked, passed>>

IsAvailable ==
    /\ unavailable /\ unavailable' = FALSE
    /\ UNCHANGED <<config, order, inst, valid, dead, opened, last, refuses, pc,
                   request, leaked, passed>>

RequestStep(r) ==
    \/ Load(r) \/ FindApp(r) \/ FindAppFails(r)
    \/ FindInstance(r) \/ FindInstanceFails(r)
    \/ pc[r] = "dump" /\ Dump(r)
    \/ CheckAvailable(r) \/ Connect(r) \/ ConnectFails(r) \/ MarkNotResponding(r)
    \/ Respond(r) \/ GiveUp(r)

Environment == EditFile \/ Tick \/ RetryTimeComes \/ RefusalIsOver \/ IsAvailable

Next ==
    \/ \E r \in Requests : Begin(r) \/ (pc[r] = "idle" /\ Dump(r)) \/ RequestStep(r)
    \/ Environment

\* No other request changes a count that MarkNotResponding has read.  Where
\* the process serves one request at a time every step is such a step.
CountIsKept ==
    \A r \in Requests : pc[r] = "marking" /\ pc'[r] = "marking" => UNCHANGED opened

Spec == Init /\ [][Next]_vars
OrderlySpec == Init /\ [][Next /\ CountIsKept]_vars
\* A request that has begun goes on: the waits for instances have time-outs.
LiveSpec == Spec /\ \A r \in Requests : WF_vars(RequestStep(r))

(***************************************************************************)
(* Properties.                                                             *)
(***************************************************************************)
TypeOK ==
    /\ file \in File /\ loaded \in File \ {NoFile}
    /\ newer \in BOOLEAN /\ readAge \in {"now", "recent", "due"} /\ edits \in Nat
    /\ order \in Seq(Records)
    /\ inst \in [Records -> Instances \union {NoInstance}]
    /\ valid \in SUBSET Records
    /\ dead \in [Records -> Mark] /\ refuses \in [Instances -> Mark]
    /\ opened \in [Records -> Nat] /\ leaked \in [Records -> Nat]
    /\ last \in Nat /\ unavailable \in BOOLEAN
    /\ pc \in [Requests -> PC]
    /\ want \in [Requests -> Instances \union {AnyInstance}]
    /\ keyed \in [Requests -> BOOLEAN] /\ notResponding \in [Requests -> BOOLEAN]
    /\ left \in [Requests -> Nat] /\ seen \in [Requests -> Nat]
    /\ held \in [Requests -> Records \union {NoRecord}]
    /\ \A r \in Requests : pc[r] \in Counted => held[r] \in Records
    /\ passed \in [Instances -> 0 .. 2]

\* uOpenedRequestsNb is the number of requests that hold the instance and of
\* those that ended without lowering it, over retries, reloads and failures.
OpenedIsAccounted ==
    \A x \in Records : opened[x] = Cardinality(Holders(x)) + leaked[x]

\* A request never holds an instance that a reload or another request freed
\* (GSWAppInstance_FreeIFND): it may use it until it gives up its hold.
HeldIsInMemory ==
    \A r \in Requests : pc[r] \in Counted => held[r] \in Allocated

\* An instance that is out of the dictionary is kept only while its count is
\* raised: StopAppRequest and MarkNotResponding free what a reload could not.
DroppedIsFreed ==
    \A x \in Allocated \ Dict : opened[x] > 0

\* The valid instances of the dictionary are those of the configuration last
\* read, each once: instances that come back are not entered beside the
\* record they had, and what StopAppRequest frees is not in use.
DictIsConfiguration ==
    /\ \A j, k \in DOMAIN order : order[j] = order[k] => j = k
    /\ \A x, y \in Dict : inst[x] = inst[y] => x = y
    /\ Dict \subseteq Allocated
    /\ IF loaded = NoApp THEN valid = {}
       ELSE valid = Dict /\ {inst[x] : x \in Dict} = loaded.has

\* While an instance could be chosen, FindApp chooses no other one twice
\* before it: dead, resurrected and refusing ones on the way do not cost it
\* its turn, nor do requests for a given instance.
RoundRobin == \A i \in Instances : passed[i] <= 1

\* Where one request is served at a time, what it holds is in the dictionary
\* and valid: a reload comes before a choice and never between a choice and
\* the attempts, although FindApp reloads in the middle of a request.
HeldIsConfigured ==
    \A r \in Requests : pc[r] \in Counted => held[r] \in valid

\* The retries of SendAppRequestToApp end: every request gets an answer,
\* whatever the instances do and however the configuration changes.
RequestIsAnswered == \A r \in Requests : pc[r] # "idle" ~> pc[r] = "idle"

\* "Read configuration from p_pszConfigPath if the file changed since
\* p_pLastReadTime" (GSWConfig.c:242): what is in use after the file was
\* looked at is what the file says.
ChangesAreRead == [][readAge = "due" /\ readAge' = "now" => loaded' = file]_vars

\* The inductive invariant: with it, a count that is not raised means that
\* nothing points to the record, and a count read by MarkNotResponding is
\* still the count when it is written.
LBInv ==
    /\ TypeOK
    /\ OpenedIsAccounted
    /\ DictIsConfiguration
    /\ DroppedIsFreed
    /\ valid \subseteq Dict
    /\ \A x \in Records \ Allocated : opened[x] = 0
    /\ \A r \in Requests : pc[r] = "marking" => seen[r] = opened[held[r]]

\* The inductive invariant of RoundRobin: an instance that was chosen once since
\* the turn of Watched comes after Watched in the next turns.
TurnsInv ==
    \A i \in Instances :
        passed[i] # 0 =>
            /\ passed[i] = 1 /\ valid = Dict
            /\ \E m, k \in 1 .. Len(order) :
                 m < k /\ inst[Turn(m)] = Watched /\ inst[Turn(k)] = i
=============================================================================
