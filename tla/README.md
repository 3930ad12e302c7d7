# A TLA+ model of GNUstepWeb

GNUstepWeb (GSWeb) is an application server in Objective-C after WebObjects: an
application process keeps sessions and pages in memory and answers HTTP
requests, and a C module inside the web server spreads the requests over the
instances of the applications. This directory models the parts of both in which
threads, timers, processes, requests and failures meet. `PROJECT.json` maps
every definition to the lines it translates, and lists the hazards of the code.

    tlc -workers 2 -config Framework_safety.cfg MCFramework
    tlapm SessionStoreProofs.tla

## Inventory

| component | source (src/) | state | operations | what must hold | here |
|---|---|---|---|---|---|
| session store | GSWeb/GSWSessionStore.m, GSWServerSessionStore.m | dictionary of sessions, recursive lock | check out, check in, remove | a session is used under its mark; a terminated one leaves | SessionStore, SessionService, Requests |
| time-out manager | GSWeb/GSWSessionTimeOutManager.m, GSWSessionTimeOut.m | dictionary and array of entries, a timer, lock with a limit | update, handleTimer:, resetTimer, refusal timer, killing timer | the collections agree; a timer is set while there are entries | SessionStore |
| session life | GSWeb/GSWSession.m | `_isTerminating`, autorelease pool | terminate, create and release the pool | terminated once; one pool at a time | SessionStore |
| page caches | GSWeb/GSWSession.m, GSWTransactionRecord.m | stack of context arrays, records, permanent cache | savePage:, restorePageForContextID:, savePageInPermanentCache: | going back gives what was shown; the least recent page goes first | PageCache |
| session count and refusal | GSWeb/GSWApplication.m | count, refusing flag, global lock | create, discount, refuseNewSessions: | the count is exact; refusal ends the application | SessionStore |
| component requests | GSWeb/GSWComponentRequestHandler.m | none of its own | _handleRequest:, dispatch to a page | what it checked out it checks in; an action runs once | SessionStore, PageCache |
| request adaptor, worker threads | GSWeb/GSWDefaultAdaptor.m, GSWWorkerThread.m | array of threads, array of waiting connections, lock | announce, start, queue, exit, unregister | bounded, work-conserving, in order | WorkerPool, FifoServer |
| load balancing | GSWAdaptors/common/GSWLoadBalancing.c, GSWApp.c, GSWAppRequest.c | instances, dead and refusing marks, open requests | find, mark, start, stop, retry | fair; open requests are counted; no instance in use is freed; every request gets an answer | LoadBalancing |
| adaptor configuration | GSWAdaptors/common/GSWConfig.c, GSWPropList.c, GSWTemplates.c | table of applications, settings, time of the last read | reload | instances in use survive a reload; changes are read; the file is in force | LoadBalancing, ConfigReader |
| URLs of the adaptor | GSWAdaptors/common/GSWURLUtil.c | none | parse, compose | the instance reads what the client asked for | AdaptorURL |
| requests and answers of the adaptor | GSWAdaptors/common/GSWHTTPRequest.c, GSWHTTPResponse.c, GSWHTTPHeaders.c, GSWAppConnectSocket.c | blocks, descriptors | build, send, receive, free | whole answers; what was taken is given back | RequestRelay |
| containers and strings of the adaptor | GSWAdaptors/common/GSWDict.c, GSWString.c, GSWUtil.c | arrays with holes, growing buffers | add, remove, find, replace | a dictionary is a map; buffers are long enough | AdaptorData |
| Apache 1.3 module | GSWAdaptors/Apache/mod_gsweb.c | none of its own | translate, handle | one answer for each request; every request ends | ApacheModule, RequestForwarding |
| Apache 2 module | GSWAdaptors/Apache2/mod_gsw.c | directives, cells in shared memory | configure, choose, try, mark, record, relay | retries go elsewhere and end; instances that are back are used again; the instance named is addressed | SharedBalancing, GswHandler |
| Netscape module | GSWAdaptors/netscape | | | | not modelled: cannot be built |
| action and resource request handlers | GSWeb/GSWActionRequestHandler.m, GSWResourceManager.m and others | none of their own; caches | handle, look up | as component requests; what is cached is what was computed | not modelled |
| statistics | GSWeb/GSWStatisticsStore.m, GSWAdaptors/common/GSWStats.c | counters under one lock | willHandle, didHandle | counts add up | not modelled |
| requests, responses, HTTP, element IDs, templates, dynamic elements, associations, mail, debugging | GSWeb/ | owned by one thread, mostly text | | | not modelled |
| lifebeat | GSWeb/GSWLifebeatThread.m | none: `sendMessage:` is empty | | | not modelled |
| display groups, long response page and extensions, examples, tests | GSWDatabase/, GSWExtensions/, Examples/, Testing/ | | | | not modelled |

How they interact. The main thread runs the run loop: it accepts connections
(`announceNewConnection:`), and fires the timers of the time-out manager. Each
connection is served by a worker thread of its own, or by the main thread when
threads are off. Serving it dispatches a request through the application to a
request handler, which creates a session or checks one out of the store, uses
it, and checks it in. Sessions end because a request terminates them, because
they time out, or because the application refuses new sessions and shuts the
rest down. Three locks order this: the store's (recursive), the time-out
manager's (not recursive, with a limit of `GSLOCK_DELAY_S` seconds, after which
an exception is raised), and the application's (recursive). In front of the applications, each process
of the web server has a table of their instances, which it fills from a
configuration file and looks up for every request. The processes of Apache 1.3 share nothing; those of Apache 2
(mod_gsw) share one cell of memory for each instance. All of them talk to the
instances by HTTP only.

What is hard. `handleTimer:` changes the manager's collections under the
application's lock and not under the manager's, while check-ins change them
under the manager's and the store's. Nothing keeps two requests from using one
session. A wait for the manager's lock may fail, after which a request tries its
check-in again. In the web server, the configuration is reloaded in the middle of
a request that looks for another instance, and may drop the instances that
requests are working on. In mod_gsw, a process chooses from a copy of memory that
others write, marks are lifted by time that each request moves on, and the loop
of retries depends on what an instance manages to say before it breaks off. The
hazards of the code are listed, each at its line, in `PROJECT.json`.

## Modules

### SessionStore

One module, since the locks and the timers tie its parts together: the store,
the time-out manager, `terminate`, and the count of sessions. A step is what a
thread does between two points at which another thread can be seen: taking a
lock, or touching data that nothing protects. `pc[t]` is the place of a thread
in the code, `sess[t]` and `ent[t]` are its session and its time-out entry.

| actions | code |
|---|---|
| Create, Created, CreateNil, CreateRaises | `_initializeSessionInContext:`, `createSessionForRequest:` |
| Restore, LockStore, CheckOut | `checkOutSessionWithID:request:`; the session is read before the lock is taken |
| Save, LockStore, CheckIn, Update, Move, Add, AddTimer | `saveSessionForContext:`, `_checkInSessionForContext:`, `updateTimeOutForSessionWithID:timeOut:` |
| MgrLockFails | the manager's lock is not had in time; `_handleRequest:` saves again, at most three times in all |
| Terminate, Mark, Discount, AfterDiscount | `-[GSWSession terminate]`, `_discountTerminatedSession` |
| Refuse, AfterRefuse | `refuseNewSessions:` |
| FallDue | time passes for an entry |
| FireTimer, HandleTimer, Scan, ScanRaises, Expire, Drop, EndScan | `handleTimer:` with `resetTimer` |
| FireRefusal, RefusalCheck, RefusalRemove, RefusalDrop, RefusalDone | `handleTimerRefusingSessions:` |
| FireKill, KillLockApp, Kill | `handleTimerKillingApplication:` |

Time is abstracted to one flag of each entry, that it has fallen due; a check-in
clears it. A message to a collection is one step: a torn `NSMutableArray` is not
modelled. Entry objects have identities, because the array and the dictionary
are joined by them; an identity is used again only when nothing refers to it.
Session IDs are drawn at random in the code and are drawn once here.

`Spec` is the full system, and `SerialSpec` is the application without worker
threads, in which a request and a timer never overlap and no creation of a session
fails (one that raises leaves the count raised for ever). `SessionService` is what that
application promises: a session is begun by a request, kept, taken by later requests,
and is over once, by its request or between requests; the count of active sessions
follows each step. A session is kept (`Status`) while it is in the store or on its way
out of it (`TimingOut`), and over when it is marked; the session in service (`Served`)
is the one in the hands of a request; the count lags behind it (`Active`) by a session
that is counted and not yet created, or over and not yet discounted. With threads this
is not so (see Findings). The module `Requests` has behaviours with timers and, when `quiet`
says so, without, for what requests alone do to each other's sessions and their
autorelease pools. `control` is the place of a thread with what
it has in hand.

### WorkerPool and FifoServer

`WorkerPool` is the request adaptor (`PoolSpec`): the two arrays, the stages of each
connection, and both modes. All accesses to the arrays are short sections under
one lock, hence single steps. `FifoServer` is what it promises: connections are
admitted in some order, the first `Places` of those not completed are in service,
and nothing else is state. `WorkerPool` implements it, with `completed` mapped to
the connections whose service is over. The refinement says at once that the
pool is bounded, that no place is idle while a connection waits, and that no
connection overtakes another. `admitted` is a history variable.

### PageCache

The pages of one session. `stack` is `_contextArrayStack`, a sequence of
sequences of context numbers; `records` maps contexts to their transaction
records; `permIds` and `perm` are the permanent cache. Pages are numbers.

| actions | code |
|---|---|
| Begin | a request for a page, a reload, or a step back to any earlier response: `awakeInContext:` |
| RestorePage, RestoreAnswer | `restorePageForContextID:`; `_dispatchWithPreparedPage:` looks for the page that answered the same request before (`_contextIDMatchingIDsInContext:`) |
| InvokeAction | the action runs, with the same page or another one as its result |
| SavePageInPermanentCache, SaveCurrentPage with SavePage, TrimArray, TrimStack | the methods of these names |
| Sleep | `sleepInContext:` |

`shown`, `used` and `ran` are history variables: what a client got in each
context, when it was last used, and which actions ran. `MaxContexts` bounds the
responses. One request at a time uses the session; SessionStore is where two
requests meet in one.

### LoadBalancing

One process of the web server, for one application: the table of instances
(GSWApp.c), the reload (GSWConfig.c), the choice of an instance
(GSWLoadBalancing.c) and the request that contacts it (GSWAppRequest.c). The
configuration file and the instances are the environment.

| actions | code |
|---|---|
| Begin | `GSWAppRequest_HandleRequest`: any instance, or the one the URL or the cookie names |
| Load, Dump with LoadConfiguration, Apply | `GSWConfig_LoadConfiguration`, `GSWConfig_ReadIFND`, `GSWConfig_PropListApplicationToApplication` |
| FindApp, FindAppFails, FindInstance, FindInstanceFails | the functions of these names; a failure is an action of its own |
| CheckAvailable, Connect, ConnectFails, Respond, GiveUp | `GSWAppRequest_SendAppRequestToApp`, with `StartAppRequest` in Connect and `StopAppRequest` in Respond; sending never fails (below) |
| MarkNotResponding | its second half; ConnectFails reads the count |
| EditFile | the file is changed, broken, removed or restored |
| Tick, RetryTimeComes, RefusalIsOver, IsAvailable | time passes for the file, a dead instance, a refusing one, an unavailable application |

A structure `GSWAppInstance` is a member of `Records`, apart from the number of
the instance it stands for: an instance that is dropped in use and comes back
has two. `inst` gives each record its number, and `NoInstance` to those that are
not allocated. `order` is the dictionary, as the list of its keys; a reload may
arrange it in any order. `opened` is `uOpenedRequestsNb`. `leaked` is a history
variable: requests that end without lowering the count they raised, when the
application is unavailable, and when the attempts run out with an instance in
hand. `passed` is a history variable for RoundRobin alone.

A request is served by a process alone in every build for Apache, whose locks
are empty. `Requests` of more than one is a build with locks: what is done under
`g_lockAppList` is one step. `MarkNotResponding` does not take that lock. `Spec`
allows another request to change a count between its read and its write, and
`OrderlySpec` is `Spec` without such steps; for one request they are the same.

Time is kept as what is compared with it: a mark that lasts is set, then ripe,
then cleared by the code that finds it so. The age of the last look at the file
is less than a second, less than ten, or more.

### ConfigReader and ConfigFiles

What is in force after any sequence of files: settings with their defaults, the
applications and instances that a load creates, updates, keeps because they are
in use, or frees, the pages that may be built and the templates for them.
LoadBalancing has when the file is read and one application; ConfigReader has all
of its entries and several applications. A structure is its key with a
generation, so that a freed one is not mistaken for its successor.
ReadConfiguration is `GSWConfig_LoadConfiguration` with what it does to the
structures, in one step; TakeInstance and ReleaseInstance are the requests. A file
that lists an application without instances has it freed, whoever holds one of those it
had; the last request on such an instance follows the pointer to the freed structure
(ReleaseDangling): the process dies of it, or goes on, and may lower the counter of an
application that has that place now. `emptied` is a history variable, that a file did so
while a request held an instance, and `InMemory` says that nothing else leads there. Tables
are functions on the keys that are there. HasRoom keeps a load from needing more
structures of one key than `Gens`. `ConfigFiles` is the set of
files that TLC tries: any of four entries for each name, with everything said or
almost nothing, two sets of global settings, and a file that does not parse.

### AdaptorURL

`GSWParseURL` and `GSWComposeURL` over tokens. `Find`, `Part` and `NameStops` are
the pointer arithmetic, with the null pointer where the code has one. An URL is
parsed, gets the number of the instance that was chosen, is composed, and perhaps
again for another instance; `place` is how far it has come.

### RequestRelay, ApacheModule and RequestForwarding

`ApacheModule` is `GSWeb_Translation` and `GSWeb_Handler` of the Apache 1.3
module; it extends `RequestRelay`, which has the common part that it calls:
building the request, the attempts on instances, sending, reading the answer, and
the error pages. A request is the record of what is told apart (method, length, the
sequence of its headers, how much of the content came): a dictionary of headers gets each
header appended, whether it has it or not. What `stHeadersDict` of an application may be
when an instance is found is `OwnHeaders`, which a reload in an attempt changes. `heap`
counts what is allocated and not given back: requests, contents, responses, names, and of
a connection the descriptor, the two streams and the handle; and, as "stray", how often a
closed descriptor was closed again. `sent` is a history variable: what an instance got.
`stage` is the place in the code; the specification is `HandlerSpec`.

`GSWApp_SendBlock` of the Apache builds reports no failure, since the count of `fwrite` is
never below zero and `fflush` is not asked. A request whose connection is gone is therefore
sent all the same, and what is missing is the answer: it is a page, not another attempt. So
no second instance gets a request after a first one was connected (`OneRequestIsSent`), and
the attempts are about connections only.

A header of an answer without a colon sends `GSWHTTPResponse_AddHeader` beyond the end of
the line. What it finds is left from longer lines, the stack, or nothing that can be read:
either the header is taken (ReceiveHeader), or the process dies (ReceiveColonless, stage
"died"). What else it may change on the stack is not modelled.

| actions | code |
|---|---|
| Translation, CheckURI, SetupRefused, BuildRequest | up to the request's structure |
| CopyHeaders, ReadContent, ReadBlock, NoContent | what the client sends, which may break off |
| CheckUnavailable, RelayConnect, RelayConnectFails, SendRequest, CloseConnection, RelayGiveUp | `GSWAppRequest_SendAppRequestToApp`, GSWAppConnectSocket.c |
| ReceiveFirstLine, ReceiveHeader, ReceiveColonless, ReceiveContent | `GSWHTTPResponse_GetResponse` |
| SendResponse, DieSendResponse, ReleaseRequest | the answer and the end |

`RequestForwarding` is what the module promises of one request: one instance at most gets
it, once, and before it is settled what to answer; and it is answered once and whole, or
left to the web server before any instance got it, or the answer of the instance that got
it ends the process. A request is settled (`State`) from the first line of an answer on,
or when a page takes the place of one, so that an answer that breaks off is not asked for
again elsewhere. `sent` and `out` are what the instance and the client got, and `ret` is
the verdict.

### AdaptorData

`AdaptorData` has the dictionary of GSWDict.c (elements with holes, found without
regard to case where the code does) and the string of GSWString.c with the
replacement of marks. A behaviour is about one container and one kind of client;
`content` is what the client put in (`DataSpec`). `ReplacedFrom`, what a replacement is
for, is not code: it takes the marks from left to right and joins what is between them
and the values.

### SharedBalancing, GswHandler and HandlerURLs

`SharedBalancing` is mod_gsw with several processes. It begins in the
configuration (SetInstCount, SetApp, PostConfig), because directives decide which
cell of the shared memory an instance has. Then processes take requests:

| actions | code |
|---|---|
| Begin, Search | `gsw_handler`, `find_app`, `find_app_by_name` on a copy of the memory |
| Connect, MarkUnreachable, Crash | `connect_host`, `mark_unreachable`; `handle_request` with no instance |
| Fault | `find_app_by_name`, `mark_unreachable`, `mark_refusing`, `update_app_statistics` beyond the cells |
| Exchange, Record | the rest of `handle_request` with `mark_refusing` and `update_app_statistics` |
| Return, ChildInit | the end of the handler; a new process in the place of a dead one |
| StartOrStop, Age, AnswerTakesLong | instances, and time |

Each access to the memory is under the module's global mutex, hence one step.
`set_App` accepts one directive more than there are cells (`mod_gsw.c:1094`), and
`InstanceCount` may follow the directives. The table of a host then has places beyond the
copy that `read_shared_mem` makes (`Beyond`), where `find_app_by_name` reads what lies
behind it: any value (`Copied`), or nothing that it may read (Fault). A mark of an instance
without a cell goes to the rest of the last page of the segment, or faults. That
`find_app_by_name` also clears two fields of what it finds there is not modelled.
Times are kept as whether they are more than 300 seconds ago.

`GswHandler` is one request through the same handler with what SharedBalancing
leaves out (`HandleSpec`): its URL, which `find_app` and `fixRequestString` take apart
differently, the method and the body, the lines of the answer, the content that is
relayed, the status page. `HandlerURLs` is the set of its URLs, instances and
answers.

### Other modules

`ArrayLemmas` holds lemmas on appending to, removing from, cutting and joining
sequences, on the least and greatest element of a set of numbers, and on loops as
recursive functions. `SessionStoreProofs`,
`WorkerPoolProofs`, `LoadBalancingProofs` (with AdaptorData), `PageCacheProofs`, `ConfigReaderProofs`,
`ApacheModuleProofs` (with the URLs that the module uses) and
`SharedBalancingProofs` (with the handler) hold the theorems. The modules `MC...`
extend the components of a run and declare the values of the configurations, the
symmetry, and a view that leaves out the fields of entries that nothing refers to.
The variables and specifications of the components have names of their own, so that
a run checks the definitions the theorems are about.

Components that do not share state are run together, to keep the runs few: such an
MC module has a variable `unit` that is drawn at the start and never changes, takes
the steps of one component, and leaves the variables of the others as they are.
A run is then the disjoint union of its units; it is not their product, and says
nothing about two of them at once. Where fairness is stated, it is the fairness of
the unit that runs.

## Runs

| run | units and instance | shows |
|---|---|---|
| framework_safety | store: 2 request threads, 1 session, 3 entries, all timers, all failures; quiet: 2 threads, 2 sessions, no timers; pages: 2 pages in the stack, 1 permanent, 5 responses | the collections of the time-out manager agree; threads deadlock in one way only; a checked out session owns its pool; a terminated one does not come back; going back gives what was shown, pages go in the order of their use, a repeated request is not run again |
| framework_liveness | threads: 4 connections, 2 threads; inline: 4 connections, none; store: no worker threads, 2 sessions, all timers | with threads the adaptor implements the abstract server; with them and without it serves what it admits; the store implements the service of sessions; stored sessions have entries, the count is exact, refusal takes effect, a timer is set, timed-out sessions leave |
| adaptor_table | balance: 2 requests, 1 instance, 3 records, 3 attempts, 2 edits; read: 2 applications, 2 numbers, 2 generations, 3 loads | counts are exact; nothing in use is freed; what was dropped is freed; the dictionary is the configuration; the file is in force; an instance outlives its application in one case only |
| adaptor_turns | choose: 1 request, 3 instances; url: all URLs of up to 6 tokens; data: 4 operations, capacities of 2 and 3; handle: the URLs of HandlerURLs, 2 instances, 2 attempts | no instance is passed over; composed URLs fit and say the same; a dictionary is a map, marks are replaced once; the instance named by an URL gets the rest of it |
| shared_processes | 2 processes, 2 instances of which one may refuse, 2 virtual hosts, 1 or 2 cells, up to 2 directives, 2 attempts | a retry goes to an instance that this request has not found dead; what was answered is not sent again |
| adaptor_ends | balance: 1 request, 1 instance, 4 attempts; shared: 1 process, 2 instances; relay: contents, answers and headers of an application of up to 2, 3 attempts | the module implements the abstract forwarding: one sending at most, with each header once, then one whole answer or page to the client; nothing left allocated; every request ends; an instance that is back is used again |
| session_once | 2 threads, 1 session | **violation**: a session is terminated and discounted twice |
| session_pool | 2 threads, 1 session | **violation**: the assertion on the session's autorelease pool fails |
| session_softshutdown | 1 request thread, 1 session | **violation**: the loop of the refusal timer does not end |
| balancing_config | 1 request, 1 instance, 1 change | **violation**: a change of the file is not read |
| shared_crash | 1 process, 2 instances | **violation**: a retry that finds no instance uses a null pointer |
| config_missing | as the unit read | **violation**: a missing host ends the process instead of being logged |

Bounds. `MaxCount` stops the creation of sessions when the count has reached
it; it is there because failures raise the count for ever. Two request threads
and the main thread give every pair of actors that can meet on the same data,
and one session in use by requests and a timer at once is the case the
violations of sessions need (session_softshutdown with one request). `Entries` has one identity more than can be
referred to at a time in the unit store, so that a discarded entry and its successor
coexist. Four connections for two threads leave two waiting while both places
are taken and one waiting after the first hand-over, which makes an overtaking
visible. For the page caches, `PageCacheSize` is 2 and five responses are enough to
fill the stack, trim it, go back to a page of each kind, and save another one.

For LoadBalancing, `MaxAttempts` is 2 to 4 instead of 10: a failed connection
of an instance of the load balancing takes two attempts, so that 2 and 4 attempts end
with an instance found that is not tried any more, and 3 with a failure after which none is
looked for. `MaxEdits` is
2: the one instance is dropped while in use and comes back, with a second record,
or the file is broken and repaired. The third record is there because an
identity is not used again while a request points to it. In the unit choose nothing
is edited, since a reload starts the rounds anew; three instances give the
watched one two others that die, come back and refuse in every order. `MaxLeaks`
stops new requests once a record has been left raised so many times; a request
already under way may leave it raised once more. Without it the counts grow for
ever. For ConfigReader, three loads are an entry, its change, and its return, and
`Gens` is 2 because a freed structure can be referred to beside one successor.

Six tokens hold an extension, a number, three slashes and a letter, so that
each part of an URL can be there, be empty or be missing; longer URLs repeat the
same cases. The containers grow at 2 and 3 elements instead of 16 and 4096 bytes,
so that five operations fill, leave holes, fill them and grow.
mod_gsw tries three times
(`RETRY_COUNT`) in adaptor_ends and shared_crash, and twice in shared_processes and GswHandler: two attempts
have a retry, which is what their properties are about, and a second retry finds the marks as
the first one may. Two hosts share two instances in every way: one has both, each has one, of
which the second has its place at 0 and its cell at 1, and one or two cells leave one of them out or none. Two instances of which one may refuse, and two
processes, have every combination of marks that a choice tells apart. Blocks of a
content are counted up to two, which is one that comes and one that does not.

`CHECK_DEADLOCK FALSE`: the process ends, all connections are
served, all session IDs are drawn, a count was left raised, a request of the
adaptor is over, and in the unit store
threads can wait for each other for ever (next paragraph).

One deadlock, and no other. A check-in holds the store's and the manager's lock
when it takes the application's to add a timer (GSWSessionTimeOutManager.m:144);
`handleTimer:` holds the application's when it takes the store's (line 170). Both
waits are without limit. The state is reachable in framework_safety; `OnlyDeadlock`
is that threads wait for each other in a circle in no other way. Safety
properties hold around it, and this is why the liveness of sessions is stated
for the application without threads.

Fairness. In framework_liveness, for the store: a request that has begun goes on (weak fairness of
`RequestStep`), and the run loop fires its timers although requests come again
and again (strong fairness of the timer's steps; a run loop serves its timers and
its file handles in turn). Nothing obliges a request to come, to terminate a
session, or to end its use of one other than by its own next step. For the
pool: a thread that serves a connection goes on, since reads are limited by
`SO_RCVTIMEO` and a thread is scheduled; nothing obliges connections to come or
the process to end. In adaptor_ends: a request that has begun goes
on. In LoadBalancing and RequestRelay connecting, sending and receiving have
time-outs. mod_gsw sets none on its sockets; there the assumption is that the
kernel, or the end of the instance, lets `read` return some day, with an answer or
without. Weak fairness of the request's next step is one formula over the three units,
of which one only ever steps. Besides, time passes (`Age`): 300 seconds after it was set a mark is
old. Nothing is assumed of the instances or of the file. HandlerEnds excepts
answers that end within their headers: at the end of a stream `read_sock_line`
may give an unassigned character as a line for ever (pc "endless"), which is a
hazard in `PROJECT.json`. For session_softshutdown, `LiveSpec` of SessionStore gives
every step of the main thread strong fairness and every request's weak fairness:
the loop runs for ever although it is scheduled for ever.

## Proofs

Proved for every value of the constants from the assumptions named in the modules,
and from the hypotheses in the last column, if any:

| theorem | statement | if |
|---|---|---|
| SessionStoreProofs!InvariantHolds | Spec => []IInv | |
| TypeCorrect, EntriesAreScanned, EntriesAreUnique, LocksAreNested | Spec => []TypeOK, []DictIsScanned, []NoEntryTwice, []ManagerUnderStore | |
| StoredIsWatched, CountOfSessions, RefusalEndsIt, EntriesAreWatched | SerialSpec => []StoredHasEntry, []CountIsExact, []RefusalTakesEffect, []TimerIsSet | |
| NoOtherDeadlock | Spec => []OnlyDeadlock | |
| ScanComesToAnEnd | Spec => each step of `handleTimer:` lowers ToScan | |
| PoolIsNewWithoutThreads, TerminatedOnceWithoutThreads | SerialSpec => []PoolIsNew, []TerminatedOnce | |
| SoftShutdownTakesThreads | SerialSpec => [](pc[Main] # "refusalLoop") | |
| ImplementsService | SerialSpec => ServiceSpec | |
| PoolFollowsCheckOut, TerminatedIsRemoved | RequestsSpec => []RequestsKeepPool, []RequestsTerminate | |
| PageCacheProofs!PagesAreKept | PagesSpec => []PCInv | PageCacheSize is a natural number |
| BacktrackIsSafe, EvictionIsLRU | PagesSpec => []BacktrackGivesWhatWasShown, []LeastRecentGoesFirst | the same |
| ReloadDoesNotRunTheAction | PagesSpec => ActionRunsOnce | the same |
| WorkerPoolProofs!PoolInvHolds | PoolSpec => []PoolInv | |
| PoolIsBounded, NoPlaceIsIdle | PoolSpec => []PoolBounded, []NoIdlePlace | |
| ImplementsServer | PoolSpec => ServerSpec | |
| LoadBalancingProofs!TableIsConsistent | OrderlySpec => []LBInv | |
| CountsAreExact, NoneHeldIsFreed, NoneDroppedIsKept, TableIsConfiguration | OrderlySpec => []OpenedIsAccounted, []HeldIsInMemory, []DroppedIsFreed, []DictIsConfiguration | |
| TurnsAreKept | OrderlySpec => []RoundRobin | |
| OneRequestIsConsistent | Spec => [](OpenedIsAccounted /\ DroppedIsFreed /\ DictIsConfiguration) | one request at a time |
| OneRequestHoldsConfigured | Spec => []HeldIsConfigured | one request at a time |
| DictionaryIsMap, MarksReplacedOnce | DataSpec => []DictIsMap, []MarksAreReplaced | |
| ConfigReaderProofs!TableIsKept | ReaderSpec => []TableInv | |
| FileIsInForce, DictionariesHold | ReaderSpec => []InForce, []InMemory | |
| ApacheModuleProofs!RequestIsAccounted | HandlerSpec => []AMInv | |
| AnsweredOnce, NoPartOfAnAnswer, SentToOneInstance, AllGivenBack | HandlerSpec => []OneAnswer, []WholeAnswer, []OneRequestIsSent, []GivenBack | |
| ImplementsForwarding | HandlerSpec => ForwardingSpec | |
| EachStepIsNearer | HandlerSpec => each step lowers Phase, or Left in the same Phase | |
| ComposedURLFits | URLSpec => []BufferIsEnough | |
| ReadsTheSame | URLSpec => []InstanceReadsTheSame | the prefix begins the URL (Leading = 0) |
| SharedBalancingProofs!TypeCorrect, AnsweredIsNotSent | Spec => []TypeOK, []SentAgainOnlyUnanswered | |
| RetryGoesElsewhere | Spec => []TriesAnother | |
| RetriesComeToAnEnd | Spec => each step of a request under way lowers ToEnd | |
| NamedIsAddressed | HandleSpec => []InstanceIsAddressed | |

The hypotheses say what the code has. The size of the page cache is read as an
unsigned number. An alias other than `/GSWeb` has letters before it that an instance takes for
its own prefix. Of the assumptions in the modules, TableAssumption is that the name
of an application has no slash, TokensAssumption that the web server has taken the
query off, DataAssumption that a hole is not a pair and that texts are sequences, RetriesAssumption that the limit of attempts is a natural number, and FilesAssumption what kinds of values the entries of a file have.
Bounds of the model (`MaxCount`, `MaxLoads`, `Gens`, `MaxContexts`, `MaxLength`,
`MaxLeaks`, `MaxTokens`) are constants like any other: the theorems hold for all of
them.

*Sessions.* `IInv` strengthens the properties with what makes them inductive. That
the array holds no entry twice needs that the entry a request adds is not in the
array (`EntKnown`), which between Move and Add needs that no other thread adds it,
which needs that at most one thread is between them: the manager's lock (`MgrHeld`),
since the main thread never adds. `DictIsScanned` needs that each entry in the
dictionary carries the session it is filed under (`SidKnown`), because
`handleTimer:` removes by the entry's session ID. That the locks nest is `StoreHeld`
with `MgrHeld`. For NoOtherDeadlock, `PlacesInv` adds that only the
main thread ever holds the application's lock, and at which places a request holds the
store's. A set of threads that all wait for one another has a holder of each lock
that is waited for in it; the locks nest but in `handleTimer:`, so that a circle has the
main thread in `expire` and a worker in `addTimer` (`DeadlockIsKnown`).

`SerialInv` adds that one thread at most is at work, and says for each of its places
what is unfinished: the count is the number of the sessions but for one that is being
made or discounted; a stored session has an entry, and what the timer drops was taken
out of the store before (`StoredInv`, which needs that the index of the scan still
points to the expired entry, `ScanInv`); the timer is set unless a check-in is about
to set it or `handleTimer:` runs (`TimerInv`); while the application refuses and the
count is low, it is ending, or somebody has seen that it is low (`RefusalInv`).
For ImplementsService, `LifeInv` says that no session is on neither side of a step: a
request that checks in has its session in the store or over, a session that is over is
in the store only until the check-in that will take it out, and what a timer ends has
left the store. `ServiceWorker` and `ServiceMain` then map each step: a new session and a
session restored are Begin and Take, the mark is End or TimeOut, the first check-in is
Keep, the end of a check-in or a failed check-out is Release, and the rest, the locks, the
entries and the count before and after, changes nothing of the service.
TerminatedOnceWithoutThreads is `SerialInv` again, and PoolIsNewWithoutThreads needs
that a session has a pool only while it is served (`PoolServed`). For
SoftShutdownTakesThreads, `ShutdownInv` says that a session that lives is in the store,
in its request's hands or timing out, so that when the refusal timer looks every
session is in the store and has an entry of its own (`StoredAreScanned`): the count is
at most the number of entries, and `RefusalInv` has ended the application before
(`RefusalComesFirst`).
`ToScan` counts the steps of the scan from its index, which requests never move: they
only append to the array.
`RequestsInv` is for any number of requests without timers: a session has its
pool while its entry is checked out or the request that clears the mark still holds
the store's lock, and a terminated one that is in the store is used by a request that
has its check-in before it.

*Pages.* `PCInv` relates the stack, the records and what clients were shown:
contexts of one array show one page, each of them with a record (`StackOK`); a later
array has a context used as late as any of an earlier one (`InOrder`), from which the
order of eviction follows; the record of a context in which an action ran keeps that
request (`RanInv`), so that a request that finds no match runs nothing whose page is
still in the stack.

*Worker pool.* `PoolInv` says that the waiting array is the end of the order of
admission (`WaitingInv`) and that the connections served or closed are its beginning
(`StartedInv`), counted without repetition. The refinement follows: the abstract
set in service is the beginning of the order less the closed ones, and the places
filled are `Places` whenever something waits.

*Load balancing.* `LBInv` ties the counts to the table. That nothing in use is freed
needs that counts are exact, because the code frees what has a count of zero
(`HeldIsCounted`). That counts stay exact needs that the count MarkNotResponding
writes is the one it read less one, the last part of `LBInv`, and that a record
not allocated has a count of zero, or a new instance would begin with the count of
an old one. That a request's last step frees a dropped record and not its
successor needs that the dictionary has each record and each number once and
holds allocated records only. `ApplyKeeps` is the argument for the reload and
`LowerKeeps` the one for the end of a request. For RoundRobin, `TurnsInv` counts the
turns from the index of the last choice: an instance chosen once since the turn of the
watched one comes after it in the next turns, and a choice skips only what cannot be
chosen.

*Configuration.* `TableInv` is `InMemory`, that keys agree with what they lead to and
that what is valid is in its dictionary (`KeysInv`), and that the settings are those
of the last file (`FileInv`). That the application of every instance is in memory while no
file has emptied one in use needs that an application which goes with a load has no
instance but those that the load frees. A load is taken apart as the code does it: what each
application reads, what it drops and frees, which applications stay (`ListedProps`
to `TableInvNext`).

*A request in Apache 1.3.* `AMInv` gives for each place what is allocated of each kind
(`HeapInv`), how much of the content came (`ContentInv`), and in which order the headers
stand: those of the handler up to the first connection, and the request's method with the
headers of the application behind them from then on, after which there is one sending and no
other connection (`SentInv`). A response on its way to the client has all of its content (`ResponseInv`). For
ImplementsForwarding, `ForwardInv` says that an answer that is read was asked for;
`ForwardNext` maps the steps, of which most are stutters. For EachStepIsNearer the places of
the handler are numbered down to its end, and at a place with a loop what is left of it goes
down: the bytes of a content, the attempts, the lines of an answer.

*URLs.* `URLInv` says that what is composed are components that the parser gives,
with another number. That the buffer is long enough is a sum of lengths
(`LengthIsRight`). For InstanceReadsTheSame the composed URL is laid out
(`AppAt` to `EndAt`): each component stands behind its mark at the place that the ones
before it leave (`PlacesAre`, `WhatIsSent`), no component has the mark that ends it,
and the parser finds each mark where the layout has it (`SeenProps`,
`AfterNameReads`, `ParseReads`). For mod_gsw, `AddressInv` says that what was sent is
`fixRequestString` of the URL and an instance that `find_app` found in it;
`BothReadTheSame` is that the two functions, which look for different marks, agree on
the name and on what stands behind the number.

*Marks in shared memory.* `MarksInv`: the marks a request set are in their cells while it
goes on, unless it knows better, and so the choice avoids the instances whose place in the
table is their cell (`InPlace`), whatever stands at other places and beyond the copy.

*Retries of mod_gsw.* `ToEnd` is the attempts and the places that a request still has
before it. No step of another process, an instance or time raises it (`OthersStay`),
and each of its own lowers it or is its last (`StepLeads`).

*Containers.* `ContainerInv` says what a dictionary is to its client: for a map, each key
is at one place with the value it was put in with (`Maps`), for headers there is no hole
and the elements are what was put in. Adding is one fact for all three ways of it
(`AddProps`: a pair comes into a place that held none, the others stay). Loops are
recursive functions over the turns: `LoopRuns` is that there is such a function,
`LoopIs` that it keeps to its values, `EachTurn` is induction over the turns, from the
least turn that breaks it. `StrInv` is the invariant of the replacement's loop: the text
in front of the next mark is final, and what was to come is that text and
`ReplacedFrom` of the rest, in the text as it now is. It is kept because what is
replaced behind a place does not depend on what stands before it (`ShiftedFrom`), and
the rest of the text only moves (`TurnProps`).

IInv, TypeOK, PoolInv, PoolBounded, LBInv, HeldIsConfigured, ManagerUnderStore, SerialInv,
LifeInv, PlacesInv, PoolServed, ShutdownInv, RequestsInv, PCInv, TableInv, AMInv, ForwardInv and OneAnswer are proved and are not runs' properties of
their own: they are parts of what the proofs need, or follow from it.

Every invariant, action property and abstract specification of a passing run is stated
by a theorem. Only model-checked is liveness (what must happen under fairness), which
is out of the prover's reach. Of what ends, the half that is not about fairness is
proved: ScanComesToAnEnd, EachStepIsNearer and RetriesComeToAnEnd say that what is
under way has a bound on its steps that nothing else raises. That the steps are taken
(the handler is never stuck, and a fair scheduler moves it) is what the runs add. The loop of
the soft shutdown has no such bound, and session_softshutdown shows it. ImplementsServer is for any number of threads; a
WorkerThreadCountMax of 0, the pool without threads, is one of them.

## Findings

Six comments or assertions of the source that the code does not meet:
a session is terminated more than once (GSWSession.m:512), a checked-out session can
meet its old autorelease pool (GSWSession.m:878), the soft shutdown may loop for
ever (GSWSessionTimeOutManager.m:436), a configuration file changed in the
second in which it was last looked at is not read (GSWConfig.c:281), a retry of
mod_gsw that finds no instance reads through a null pointer (mod_gsw.c:1293), and
an entry of the configuration without host or port frees a constant
(GSWPropList.c:203). `PROJECT.json` has the details.
The first three need two threads, which is proved: in `SerialSpec` a session is
terminated once, none meets its old pool, and the loop of the soft shutdown is not
reached, since once sessions are few enough for it the application is ending already.
A creation that fails spoils the last of these.

Seen while modelling, where nothing in the repository says otherwise and no
property is stated: mod_gsw leaves its socket open after a status line that is not
HTTP (mod_gsw.c:853); a body that cannot be read is dropped, while its
content-length is sent (mod_gsw.c:801); headers of an application are added again
at each load (GSWConfig.c:390); times and marks in the shared memory are written
at one index and read at another when several applications are configured
(mod_gsw.c:377); the page for an application that does not respond reads an
instance that a reload may have freed (GSWAppRequest.c:255); a file that lists an
application without instances frees it while a request holds one of those it had, and the
end of that request follows the pointer (GSWConfig.c:1076, GSWApp.c:190); `set_App` accepts
one instance more than there are cells, and find_app then reads, and clears, behind its copy
of the memory (mod_gsw.c:1094, 377); the descriptor of an instance is closed three times, of a
connection without its second stream twice (GSWAppConnectSocket.c:184, 143), which fails
without harm in the processes of Apache 1.3, with one thread each, and could close the
descriptor of another request with threads; a failure to send is never seen
(GSWAppConnectSocket.c:262); a header without a colon is looked for beyond its line
(GSWHTTPResponse.c:321); the copy of a host's entry is 4 bytes too long for its block with
pointers of 8 bytes, one address, and no room left by rounding (GSWUtil.c:476), and its
addresses are placed by a pointer cut to an unsigned int (GSWUtil.c:505).

## Plan

1. LoadBalancing and RequestRelay as one: which application's headers a retry takes.
2. A theorem for GSWList.c when more of it than the list of keys is modelled.

## Not modelled

The Netscape module calls the common part with argument lists that it no longer
has, and cannot be built. The statistics of the adaptor and the printing of its
pages, logging and trimming are text without control. In the framework, parsing,
rendering, associations, element IDs and messages are owned by one thread and are
text; the action and resource handlers, the statistics store and the lifebeat
thread keep no state that another part reads. The extensions and display groups are
libraries for applications.

The copy of a host's entry in GSWUtil.c is arithmetic on pointers that is right or wrong by their
size, of which the code says nothing.

Of the adaptor's C, the modelled functions are mapped as a whole; what remains is
headers, declarations, comments, logging, page text and hooks that do nothing. Of
the framework, the C part is headers with interfaces: its logic is in Objective-C, which
the map covers apart.
