--------------------------- MODULE SharedBalancing ---------------------------
(***************************************************************************)
(* mod_gsw, the adaptor for Apache 2.  The directives of the server's      *)
(* configuration fill one table of instances per virtual host.  Server     *)
(* processes then serve requests side by side; what they know of the       *)
(* instances is in shared memory, one cell for each instance, and every    *)
(* access to it under the global mutex is one step.                        *)
(*                                                                         *)
(* The instances belong to one application and are named by total_index.   *)
(* Times are abstracted to whether they are more than 300 seconds ago.     *)
(***************************************************************************)
EXTENDS Integers, Sequences, FiniteSets, SequencesExt

CONSTANTS
    Processes,     \* the requests that are served at a time
    Hosts,         \* the virtual hosts of the configuration
    MaxApps,       \* bound: App directives
    DefaultCount,  \* DEFAULT_APP_COUNT
    MayRefuse,     \* instances that may refuse new sessions
    Loads,         \* values of x-webobjects-loadaverage, 0 among them
    RETRY_COUNT,   \* 3 in the code
    Numbers,       \* the instances that URLs name
    AnyInstance, NoApp

ASSUME CountsAssumption == MaxApps \in Nat /\ DefaultCount \in Nat /\ RETRY_COUNT \in Nat \ {0}
ASSUME NamesAssumption ==
    /\ Hosts # {} /\ Numbers \subseteq 0 .. MaxApps /\ 0 \in Loads
    /\ {AnyInstance, NoApp} \intersect (0 .. MaxApps) = {}

VARIABLES
    phase,           \* "config", then "run"
    instance_count, last_app_index,
    app_table,       \* for each host the total_index of its applications
    mem,             \* the cells of shared memory, and the page behind them
    up,              \* instances that accept connections
    req              \* what each process works on

config == <<phase, instance_count, last_app_index, app_table>>
vars == <<config, mem, up, req>>

Cells == 0 .. MaxApps
CellType == [old : BOOLEAN, load : Loads, unreachable : BOOLEAN, refusing : BOOLEAN]
Empty == [old |-> TRUE, load |-> 0, unreachable |-> FALSE, refusing |-> FALSE]

\* What handle_request makes of an exchange: the request could not be written,
\* there was no status line or a wrong one; or what the status says.
Failure == {"unsent", "silent", "garbled"}
Final == {"ok", "moved", "refused", "error"}

\* slow: request_time is more than 300 seconds ago.  History: failed holds the
\* instances that the request itself marked, while they are marked.
Idle == [pc |-> "idle", host |-> CHOOSE h \in Hosts : TRUE, want |-> AnyInstance,
         app |-> NoApp, tries |-> 0, answer |-> "none", slow |-> FALSE,
         failed |-> {}]

Init ==
    /\ phase = "config" /\ instance_count = DefaultCount /\ last_app_index = 0
    /\ app_table = [h \in Hosts |-> <<>>]
    /\ mem = [c \in Cells |-> Empty]
    /\ up = Cells
    /\ req = [p \in Processes |-> Idle]

(***************************************************************************)
(* The configuration.                                                      *)
(***************************************************************************)
\* InstanceCount: a second directive is refused unless the first said the default.
SetInstCount ==
    /\ phase = "config" /\ instance_count = DefaultCount
    /\ instance_count' \in 1 .. MaxApps
    /\ UNCHANGED <<phase, last_app_index, app_table, mem, up, req>>

\* App: the server does not start with more than it accepts.
SetApp(h) ==
    /\ phase = "config" /\ last_app_index < MaxApps
    /\ ~(instance_count < last_app_index)
    /\ app_table' = [app_table EXCEPT ![h] = Append(@, last_app_index)]
    /\ last_app_index' = last_app_index + 1
    /\ UNCHANGED <<phase, instance_count, mem, up, req>>

\* The segment gets instance_count cells, all zero.
PostConfig ==
    /\ phase = "config" /\ phase' = "run"
    /\ mem' = [c \in Cells |-> Empty]
    /\ UNCHANGED <<instance_count, last_app_index, app_table, up, req>>

(***************************************************************************)
(* find_app.                                                               *)
(***************************************************************************)
\* The cell that find_app_by_name looks at for the k-th entry of a table: its
\* position in the table, while marks are written to the cell total_index.
CellOf(k) == k - 1

Places(h) == 1 .. Len(app_table[h])

\* The places of a table that have no cell: App accepts one directive too many,
\* and InstanceCount may come after all of them.
Beyond(h) == {k \in Places(h) : CellOf(k) >= instance_count}

\* read_shared_mem copies the instance_count cells.  What find_app_by_name takes
\* for the cell of a place beyond is whatever lies behind the copy.
Copied(behind) == [c \in Cells |-> IF c < instance_count THEN mem[c] ELSE behind[c + 1]]

Marked(copy, k) ==
    ~copy[CellOf(k)].old /\ (copy[CellOf(k)].unreachable \/ copy[CellOf(k)].refusing)

\* The last of those with the least load among the instances without a mark;
\* a table of one entry gives it although it could not be reached.
FindByName(copy, h) ==
    LET free == {k \in Places(h) : ~Marked(copy, k)}
        least == {k \in free : \A j \in free : copy[CellOf(k)].load <= copy[CellOf(j)].load}
    IN  IF least # {} THEN app_table[h][CHOOSE k \in least : \A j \in least : j <= k]
        ELSE IF Len(app_table[h]) = 1 /\ copy[CellOf(1)].unreachable THEN app_table[h][1]
        ELSE NoApp

\* A number in the URL gives its entry, whatever its marks, or nothing.
FindApp(copy, p) ==
    IF req[p].want = AnyInstance THEN FindByName(copy, req[p].host)
    ELSE IF req[p].want \in ToSet(app_table[req[p].host]) THEN req[p].want
    ELSE NoApp

(***************************************************************************)
(* gsw_handler and handle_request.                                         *)
(***************************************************************************)
Begin(p) ==
    /\ phase = "run" /\ req[p].pc = "idle"
    /\ \E h \in Hosts, w \in Numbers \union {AnyInstance} :
         req' = [req EXCEPT ![p].pc = "search", ![p].host = h, ![p].want = w]
    /\ UNCHANGED <<config, mem, up>>

\* Where an attempt without an answer leads: the loop goes on, or the page
\* with the status of the instances ends the request.
AnotherOrPage(p) == IF req[p].tries < RETRY_COUNT THEN "attempt" ELSE "reply"

\* The shared memory is copied and the choice made on the copy.  Before the
\* first attempt ap_setup_client_block may refuse the request's body.
Search(p) ==
    /\ req[p].pc = "search"
    /\ \E next \in {"attempt", "reply"}, behind \in [Beyond(req[p].host) -> CellType] :
         LET found == FindApp(Copied(behind), p)
         IN  /\ req[p].tries > 0 => next = AnotherOrPage(p)
             /\ req[p].tries = 0 /\ found = NoApp => next = "reply"
             /\ req' = [req EXCEPT ![p].pc = next, ![p].app = found]
    /\ UNCHANGED <<config, mem, up>>

\* Mutant: an attempt is not counted.
ConnectForFree(p) ==
    /\ req[p].pc = "attempt" /\ req[p].app # NoApp
    /\ req' = [req EXCEPT ![p].slow = FALSE, ![p].pc =
                 IF req[p].app \in up THEN "connected" ELSE "unreachable"]
    /\ UNCHANGED <<config, mem, up>>

Connect(p) ==
    /\ req[p].pc = "attempt" /\ req[p].app # NoApp
    /\ req' = [req EXCEPT ![p].slow = FALSE, ![p].tries = @ + 1, ![p].pc =
                 IF req[p].app \in up THEN "connected" ELSE "unreachable"]
    /\ UNCHANGED <<config, mem, up>>

\* find_app found nothing between two attempts, and handle_request reads the
\* host's name through a null pointer: the process dies with its request.
Crash(p) ==
    /\ req[p].pc = "attempt" /\ req[p].app = NoApp
    /\ req' = [req EXCEPT ![p] = [Idle EXCEPT !.pc = "dead"]]
    /\ UNCHANGED <<config, mem, up>>

\* What lies behind the copy, or behind the page that the segment ends in, need
\* not be the process's to read and write.  Else a mark goes to the rest of the page.
Fault(p) ==
    /\ \/ /\ req[p].pc = "search" /\ req[p].want = AnyInstance
          /\ Beyond(req[p].host) # {}
       \/ req[p].pc \in {"unreachable", "record"} /\ req[p].app >= instance_count
    /\ req' = [req EXCEPT ![p] = [Idle EXCEPT !.pc = "dead"]]
    /\ UNCHANGED <<config, mem, up>>

\* The server starts another process, which attaches to the same memory.
ChildInit(p) ==
    /\ req[p].pc = "dead"
    /\ req' = [req EXCEPT ![p] = Idle]
    /\ UNCHANGED <<config, mem, up>>

\* Mutant: the cell of the next instance is marked.
MarkNext(p) ==
    /\ req[p].pc = "unreachable"
    /\ mem' = [mem EXCEPT ![req[p].app + 1].old = FALSE,
                          ![req[p].app + 1].unreachable = TRUE]
    /\ req' = [req EXCEPT ![p].pc = "search", ![p].app = NoApp,
                          ![p].failed = @ \union {req[p].app}]
    /\ UNCHANGED <<config, up>>

MarkUnreachable(p) ==
    /\ req[p].pc = "unreachable"
    /\ mem' = [mem EXCEPT ![req[p].app].old = FALSE, ![req[p].app].unreachable = TRUE]
    /\ req' = [req EXCEPT ![p].pc = "search", ![p].app = NoApp,
                          ![p].failed = @ \union {req[p].app}]
    /\ UNCHANGED <<config, up>>

\* The request is written and the answer read.  An answer that is not HTTP
\* ends the attempt without any record of it; from one that ends within its
\* headers handle_request may never come back (GswHandler).
Exchange(p) ==
    /\ req[p].pc = "connected"
    /\ \/ \E a \in Failure \union Final :
            /\ req[p].app \notin up => a \in {"unsent", "silent"}
            /\ a = "refused" => req[p].app \in MayRefuse
            /\ req' = [req EXCEPT
                 ![p].answer = IF a = "garbled" THEN "none" ELSE a,
                 ![p].pc = IF a = "garbled" THEN AnotherOrPage(p) ELSE "record"]
       \/ req' = [req EXCEPT ![p].pc = "endless"]
    /\ UNCHANGED <<config, mem, up>>

\* Mutant: an instance that answers stays unreachable.
UpdateTimes(p) ==
    \E n \in Loads, o \in BOOLEAN :
        mem' = [mem EXCEPT ![req[p].app].old = o, ![req[p].app].load = n]

\* update_app_statistics.  A request that could not be written has no load,
\* and a request_time that was never assigned.
UpdateStatistics(p) ==
    \E n \in Loads, o \in BOOLEAN :
        /\ IF req[p].answer = "unsent" THEN n = 0 ELSE o = req[p].slow
        /\ mem' = [mem EXCEPT ![req[p].app].old = o, ![req[p].app].load = n,
                              ![req[p].app].unreachable = FALSE]

MarkRefusing(p) ==
    mem' = [mem EXCEPT ![req[p].app].old = FALSE, ![req[p].app].refusing = TRUE]

\* The request in hand after the marks of the cells in C no longer count.
Unmarked(C) == [q \in Processes |-> [req[q] EXCEPT !.failed = @ \ C]]

\* Mutant: the handler returns a 200 only.
AfterRecordOnlyOk(p) == IF req[p].answer = "ok" THEN "reply" ELSE AnotherOrPage(p)

\* What gsw_handler does with the status.
AfterRecord(p) == IF req[p].answer \in Final THEN "reply" ELSE AnotherOrPage(p)

\* The end of handle_request.  A 302 to a new session that the instance
\* refused leaves a mark, anything else a record of the answer.
Record(p) ==
    /\ req[p].pc = "record"
    /\ LET told == IF req[p].answer = "refused" THEN req ELSE Unmarked({req[p].app})
       IN  req' = [told EXCEPT
           ![p].pc = AfterRecord(p), ![p].slow = FALSE,
           ![p].answer = IF @ \in Final THEN @ ELSE "none"]
    /\ IF req[p].answer = "refused" THEN MarkRefusing(p) ELSE UpdateStatistics(p)
    /\ UNCHANGED <<config, up>>

\* The answer, an error status or the page goes to the client.
Return(p) ==
    /\ req[p].pc = "reply"
    /\ req' = [req EXCEPT ![p] = Idle]
    /\ UNCHANGED <<config, mem, up>>

(***************************************************************************)
(* The environment: instances, and time.                                   *)
(***************************************************************************)
StartOrStop(c) ==
    /\ phase = "run" /\ c < last_app_index
    /\ up' = IF c \in up THEN up \ {c} ELSE up \union {c}
    /\ UNCHANGED <<config, mem, req>>

\* 300 seconds have gone by since last_request_time.
Age(c) ==
    /\ ~mem[c].old
    /\ mem' = [mem EXCEPT ![c].old = TRUE]
    /\ req' = Unmarked({c})
    /\ UNCHANGED <<config, up>>

AnswerTakesLong(p) ==
    /\ req[p].pc = "connected" /\ ~req[p].slow
    /\ req' = [req EXCEPT ![p].slow = TRUE]
    /\ UNCHANGED <<config, mem, up>>

RequestStep(p) ==
    \/ Search(p) \/ Connect(p) \/ Crash(p) \/ Fault(p) \/ ChildInit(p)
    \/ MarkUnreachable(p) \/ Exchange(p) \/ Record(p) \/ Return(p)

Next ==
    \/ SetInstCount \/ PostConfig
    \/ \E h \in Hosts : SetApp(h)
    \/ \E p \in Processes : Begin(p) \/ RequestStep(p) \/ AnswerTakesLong(p)
    \/ \E c \in Cells : StartOrStop(c) \/ Age(c)

Spec == Init /\ [][Next]_vars
\* Connections have time-outs, so that what began goes on, and time passes.
LiveSpec ==
    /\ Spec
    /\ \A p \in Processes : WF_vars(RequestStep(p))
    /\ \A c \in Cells : WF_vars(Age(c))

(***************************************************************************)
(* Properties.                                                             *)
(***************************************************************************)
Labels == {"idle", "search", "attempt", "connected", "unreachable", "record",
           "reply", "endless", "dead"}
TypeOK ==
    /\ phase \in {"config", "run"}
    /\ instance_count \in Nat /\ last_app_index \in 0 .. MaxApps
    /\ app_table \in [Hosts -> Seq(Cells)]
    /\ mem \in [Cells -> CellType]
    /\ up \subseteq Cells
    /\ req \in [Processes ->
         [pc : Labels, host : Hosts, want : Cells \union {AnyInstance},
          app : Cells \union {NoApp}, tries : 0 .. RETRY_COUNT,
          answer : Failure \union Final \union {"none"}, slow : BOOLEAN,
          failed : SUBSET Cells]]

\* The mark of instance c can be seen in the table of h: it has a cell, and its
\* place in the table is that cell.
InPlace(h, c) ==
    /\ c < instance_count
    /\ \A k \in Places(h) : app_table[h][k] = c => CellOf(k) = c

\* With more than one instance, a request that names none does not try one
\* that it found unreachable itself, unless that one answered another process,
\* 300 seconds went by, or find_app looks for the mark in the wrong cell or in
\* none: retries go to other instances, although marks are written and read by
\* all processes and the choice is made on a copy.
TriesAnother ==
    \A p \in Processes :
        /\ req[p].pc = "attempt" /\ req[p].want = AnyInstance
        /\ Len(app_table[req[p].host]) > 1
        => \A c \in req[p].failed : InPlace(req[p].host, c) => req[p].app # c

\* A request, and the body that comes with it, is never sent again once an
\* instance has answered it with a status.
SentAgainOnlyUnanswered ==
    \A p \in Processes :
        req[p].pc \in {"attempt", "search"} => req[p].answer \notin Final

\* The retries of gsw_handler end whatever the instances do, unless an answer
\* that ends within its headers keeps handle_request.
HandlerEnds ==
    \A p \in Processes : req[p].pc # "idle" ~> req[p].pc \in {"idle", "endless"}

\* "enable unreachable instances after some time" (mod_gsw.c:376): an instance
\* that is up for good and does not refuse sessions is looked at again by all
\* requests, although requests for it go on renewing the time of its mark.
Recovers ==
    \A c \in Cells \ MayRefuse :
        <>[](phase = "run" /\ c \in up) => <>[](mem[c].old \/ ~mem[c].unreachable)

\* "return value ... OK (we did our thing)" (mod_gsw.c:1231): the handler
\* returns, and its process with it goes on to the next request.  Every
\* instance has its cell.
HandlerReturns ==
    instance_count >= last_app_index => \A p \in Processes : req[p].pc # "dead"
=============================================================================
