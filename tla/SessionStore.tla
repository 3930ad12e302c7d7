---------------------------- MODULE SessionStore ----------------------------
(***************************************************************************)
(* The life of sessions in a GNUstepWeb application process: the server    *)
(* session store (GSWSessionStore, GSWServerSessionStore), its time-out    *)
(* manager (GSWSessionTimeOutManager), the session's terminate method and  *)
(* the application's count of active sessions.                             *)
(*                                                                         *)
(* Worker threads run requests.  The main thread runs the run loop, hence  *)
(* the time-out timer, the refusal timer and the timer that kills the      *)
(* process, one at a time.  A step of the model is what a thread does      *)
(* between two points at which another thread can be seen: acquiring a     *)
(* lock, or touching data the code does not protect.  One message to a     *)
(* collection is one step.                                                 *)
(*                                                                         *)
(* Locks: storeLock is GSWSessionStore._lock and appLock is                *)
(* GSWApplication._globalLock, both recursive and waited for without       *)
(* limit; mgrLock is GSWSessionTimeOutManager._selfLock, not recursive,    *)
(* whose wait ends with an exception after GSLOCK_DELAY_S seconds.         *)
(***************************************************************************)
EXTENDS Integers, Sequences, FiniteSets, SequencesExt

CONSTANTS
    Workers,    \* the request threads
    Main,       \* the thread of the application's run loop
    Sessions,   \* session IDs, each drawn at most once
    Entries,    \* identities of GSWSessionTimeOut objects
    MinActive,  \* _minimumActiveSessionsCount
    MaxCount,   \* bound: no session is begun once the count has reached it
    Nobody, NoSession, NoEntry

ASSUME ThreadsAssumption ==
    /\ Main \notin Workers
    /\ Nobody \notin Workers \union {Main}
ASSUME ValuesAssumption ==
    /\ NoSession \notin Sessions
    /\ NoEntry \notin Entries
    /\ MinActive \in Int
    /\ MaxCount \in Int

Threads == Workers \union {Main}

VARIABLES
    sessions,       \* keys of GSWServerSessionStore._sessions
    dict,           \* _sessionTimeOuts: session ID -> entry
    order,          \* _sessionOrderedTimeOuts
    entry,          \* the fields of each GSWSessionTimeOut
    timer,          \* _timer: absent, made, in the run loop, or fired
    superseded,     \* a timer replaced by resetTimer is still in the run loop
    killing,        \* handleTimerKillingApplication: is scheduled, or fired
    created,        \* session objects created so far
    terminating,    \* sessions whose _isTerminating is YES
    pool,           \* sessions that own an _autoreleasePool
    count,          \* _activeSessionsCount
    refusing,       \* _refusingNewSessions
    appTerminating, \* GSWApplication._terminating
    storeLock, mgrLock, appLock,
    pc, sess, ent,  \* where each thread is, its session, its entry
    low,            \* the count a thread saw was within the minimum
    tries,          \* failed check-ins of the thread's request
    index           \* handleTimer's index

store == <<sessions>>
manager == <<dict, order, entry>>
timers == <<timer, superseded, killing>>
life == <<created, terminating, pool>>
app == <<count, refusing, appTerminating>>
locks == <<storeLock, mgrLock, appLock>>
control == <<pc, sess, ent, low, tries, index>>
vars == <<store, manager, timers, life, app, locks, control>>

Entry == [sid : Sessions \union {NoSession}, checkedOut : BOOLEAN, due : BOOLEAN]

WorkerPC ==
    {"idle", "creating", "refused", "checkOut", "checkOutEntry", "inUse",
     "marking", "discounting", "discounted",
     "checkIn", "checkInEntry", "update", "move", "add", "addTimer", "exited"}
MainPC ==
    {"idle", "fired", "scan", "expire", "drop",
     "marking", "discounting", "discounted",
     "refusalCheck", "refusalLoop", "refusalDrop",
     "kill", "killLocked", "exited"}

(***************************************************************************)
(* Helpers.                                                                *)
(***************************************************************************)
\* -[NSMutableArray removeObject:]; the array never holds an object twice.
Without(seq, e) ==
    IF \E i \in DOMAIN seq : seq[i] = e
    THEN RemoveAt(seq, CHOOSE i \in DOMAIN seq : seq[i] = e)
    ELSE seq

\* An entry object something still points to: its memory is not reused.
Referenced ==
    ToSet(order) \union {dict[s] : s \in Sessions} \union {ent[t] : t \in Threads}

\* _sessionTimeOutForSessionID: finds the entry e of s or enters a new one.
\* New entries are neither checked out nor due.
FindOrEnter(s, e) ==
    \/ /\ dict[s] = e
       /\ e # NoEntry
       /\ UNCHANGED <<dict, order>>
    \/ /\ dict[s] = NoEntry
       /\ e \in Entries \ Referenced
       /\ dict' = [dict EXCEPT ![s] = e]
       /\ order' = Append(order, e)

\* The fields of e once FindOrEnter(s, e) is done.
Found(s, e) ==
    IF dict[s] = e THEN entry[e]
    ELSE [sid |-> s, checkedOut |-> FALSE, due |-> FALSE]

\* A worker's request is over, whatever it was doing.
Finish(w) ==
    /\ pc' = [pc EXCEPT ![w] = "idle"]
    /\ sess' = [sess EXCEPT ![w] = NoSession]
    /\ tries' = [tries EXCEPT ![w] = 0]

Goto(t, label) == pc' = [pc EXCEPT ![t] = label]

Init ==
    /\ sessions = {} /\ order = <<>>
    /\ dict = [s \in Sessions |-> NoEntry]
    /\ entry = [e \in Entries |->
                  [sid |-> NoSession, checkedOut |-> FALSE, due |-> FALSE]]
    /\ timer = "none" /\ superseded = FALSE /\ killing = "no"
    /\ created = {} /\ terminating = {} /\ pool = {}
    /\ count = 0 /\ refusing = FALSE /\ appTerminating = FALSE
    /\ storeLock = Nobody /\ mgrLock = Nobody /\ appLock = Nobody
    /\ pc = [t \in Threads |-> "idle"]
    /\ sess = [t \in Threads |-> NoSession]
    /\ ent = [t \in Threads |-> NoEntry]
    /\ low = [t \in Threads |-> FALSE]
    /\ tries = [w \in Workers |-> 0]
    /\ index = 0

(***************************************************************************)
(* Requests: a new session, or one checked out of the store.               *)
(***************************************************************************)
\* _initializeSessionInContext: counts the session before creating it.
Create(w) ==
    /\ pc[w] = "idle"
    /\ appLock = Nobody
    /\ created # Sessions /\ count < MaxCount
    /\ count' = count + 1
    /\ Goto(w, "creating")
    /\ UNCHANGED <<store, manager, timers, life, refusing, appTerminating,
                   locks, sess, ent, low, tries, index>>

Created(w) ==
    /\ pc[w] = "creating"
    /\ \E s \in Sessions \ created :
         /\ created' = created \union {s}
         /\ sess' = [sess EXCEPT ![w] = s]
    /\ Goto(w, "inUse")
    /\ UNCHANGED <<store, manager, timers, terminating, pool, app, locks,
                   ent, low, tries, index>>

\* createSessionForRequest: returns nil.
CreateNil(w) ==
    /\ pc[w] = "creating"
    /\ appLock = Nobody
    /\ count' = count - 1
    /\ Finish(w)
    /\ UNCHANGED <<store, manager, timers, life, refusing, appTerminating,
                   locks, ent, low, index>>

\* createSessionForRequest: raises.
CreateRaises(w) ==
    /\ pc[w] = "creating"
    /\ Finish(w)
    /\ UNCHANGED <<store, manager, timers, life, app, locks, ent, low, index>>

\* checkOutSessionWithID: reads the store before it takes its lock.
Restore(w) ==
    /\ pc[w] = "idle"
    /\ \E s \in sessions : sess' = [sess EXCEPT ![w] = s]
    /\ Goto(w, "checkOut")
    /\ UNCHANGED <<store, manager, timers, life, app, locks, ent, low, tries, index>>

\* Mutant: the store is entered without its lock.
LockStoreIgnored(w) ==
    /\ \/ pc[w] = "checkOut" /\ Goto(w, "checkOutEntry")
       \/ pc[w] = "checkIn" /\ Goto(w, "checkInEntry")
    /\ UNCHANGED <<store, manager, timers, life, app, locks, sess, ent, low, tries, index>>

LockStore(w) ==
    /\ storeLock = Nobody
    /\ \/ pc[w] = "checkOut" /\ Goto(w, "checkOutEntry")
       \/ pc[w] = "checkIn" /\ Goto(w, "checkInEntry")
    /\ storeLock' = w
    /\ UNCHANGED <<store, manager, timers, life, app, mgrLock, appLock,
                   sess, ent, low, tries, index>>

\* Mutant: a session that is checked out already is returned without unlocking.
CheckOutStaysLocked(w) ==
    /\ pc[w] = "checkOutEntry"
    /\ mgrLock = Nobody
    /\ \E e \in Entries :
         LET s == sess[w]
             free == ~Found(s, e).checkedOut
         IN /\ FindOrEnter(s, e)
            /\ \/ /\ ~free
                  /\ Goto(w, "inUse")
                  /\ UNCHANGED <<pool, entry, storeLock>>
               \/ /\ free /\ s \in sessions /\ s \notin pool
                  /\ pool' = pool \union {s}
                  /\ entry' = [entry EXCEPT ![e] =
                                 [Found(s, e) EXCEPT !.checkedOut = TRUE]]
                  /\ Goto(w, "inUse")
                  /\ storeLock' = Nobody
    /\ UNCHANGED <<store, timers, created, terminating, app, mgrLock, appLock,
                   sess, ent, low, tries, index>>

\* The locked part of checkOutSessionWithID:.
CheckOut(w) ==
    /\ pc[w] = "checkOutEntry"
    /\ mgrLock = Nobody
    /\ \E e \in Entries :
         LET s == sess[w]
             free == ~Found(s, e).checkedOut
         IN /\ FindOrEnter(s, e)
            /\ \/ /\ ~free
                  /\ Goto(w, "inUse")
                  /\ UNCHANGED <<pool, entry, sess, tries>>
               \/ /\ free /\ (s \notin sessions \/ s \in pool)
                  /\ entry' = [entry EXCEPT ![e] = Found(s, e)]
                  /\ Finish(w)
                  /\ UNCHANGED pool
               \/ /\ free /\ s \in sessions /\ s \notin pool
                  /\ pool' = pool \union {s}
                  /\ entry' = [entry EXCEPT ![e] =
                                 [Found(s, e) EXCEPT !.checkedOut = TRUE]]
                  /\ Goto(w, "inUse")
                  /\ UNCHANGED <<sess, tries>>
    /\ storeLock' = Nobody
    /\ UNCHANGED <<store, timers, created, terminating, app, mgrLock, appLock,
                   ent, low, index>>

(***************************************************************************)
(* -[GSWSession terminate], called by a request or by a timer of Main.     *)
(***************************************************************************)
\* Mutant: terminate does not test _isTerminating.
TerminateAgain(w) ==
    /\ pc[w] = "inUse"
    /\ Goto(w, "marking")
    /\ UNCHANGED <<store, manager, timers, life, app, locks, sess, ent, low, tries, index>>

\* The test of _isTerminating, in a request.
Terminate(w) ==
    /\ pc[w] = "inUse"
    /\ sess[w] \notin terminating
    /\ Goto(w, "marking")
    /\ UNCHANGED <<store, manager, timers, life, app, locks, sess, ent, low, tries, index>>

Mark(t) ==
    /\ pc[t] = "marking"
    /\ terminating' = terminating \union {sess[t]}
    /\ Goto(t, "discounting")
    /\ UNCHANGED <<store, manager, timers, created, pool, app, locks,
                   sess, ent, low, tries, index>>

\* _discountTerminatedSession, under the application's lock.
Discount(t) ==
    /\ pc[t] = "discounting"
    /\ appLock \in {Nobody, t}
    /\ count' = count - 1
    /\ low' = [low EXCEPT ![t] = count' <= MinActive]
    /\ Goto(t, "discounted")
    /\ UNCHANGED <<store, manager, timers, life, refusing, appTerminating, locks,
                   sess, ent, tries, index>>

\* Its test of isRefusingNewSessions, after the unlock.
AfterDiscount(t) ==
    /\ pc[t] = "discounted"
    /\ appTerminating' = (appTerminating \/ (refusing /\ low[t]))
    /\ low' = [low EXCEPT ![t] = FALSE]
    /\ IF t \in Workers THEN Goto(t, "inUse") /\ UNCHANGED sess
       ELSE IF mgrLock = t THEN Goto(t, "refusalDrop") /\ UNCHANGED sess
       ELSE Goto(t, "scan") /\ sess' = [sess EXCEPT ![t] = NoSession]
    /\ UNCHANGED <<store, manager, timers, life, count, refusing, locks,
                   ent, tries, index>>

(***************************************************************************)
(* saveSessionForContext: and _checkInSessionForContext:.                  *)
(***************************************************************************)
Save(w) ==
    /\ pc[w] = "inUse"
    /\ Goto(w, "checkIn")
    /\ UNCHANGED <<store, manager, timers, life, app, locks, sess, ent, low, tries, index>>

\* Mutant: _checkInSessionForContext: saves a terminating session too.
CheckInKeepsTerminated(w) ==
    /\ pc[w] = "checkInEntry"
    /\ mgrLock = Nobody
    /\ \E e \in Entries :
         /\ FindOrEnter(sess[w], e)
         /\ entry' = [entry EXCEPT ![e] = [Found(sess[w], e) EXCEPT !.checkedOut = FALSE]]
    /\ sessions' = sessions \union {sess[w]}
    /\ Goto(w, "update")
    /\ UNCHANGED <<timers, life, app, locks, sess, ent, low, tries, index>>

CheckIn(w) ==
    /\ pc[w] = "checkInEntry"
    /\ mgrLock = Nobody
    /\ LET s == sess[w] IN
         /\ \E e \in Entries :
              /\ FindOrEnter(s, e)
              /\ entry' = [entry EXCEPT ![e] = [Found(s, e) EXCEPT !.checkedOut = FALSE]]
         /\ sessions' = IF s \in terminating THEN sessions \ {s} ELSE sessions \union {s}
    /\ Goto(w, "update")
    /\ UNCHANGED <<timers, life, app, locks, sess, ent, low, tries, index>>

\* updateTimeOutForSessionWithID: in three steps, as handleTimer changes the
\* same collections without the manager's lock.
Update(w) ==
    /\ pc[w] = "update"
    /\ mgrLock = Nobody
    /\ mgrLock' = w
    /\ \E e \in Entries :
         /\ FindOrEnter(sess[w], e)
         /\ entry' = [entry EXCEPT ![e] = Found(sess[w], e)]
         /\ ent' = [ent EXCEPT ![w] = e]
    /\ Goto(w, "move")
    /\ UNCHANGED <<store, timers, life, app, storeLock, appLock,
                   sess, low, tries, index>>

\* Mutant: the entry is not taken out before it is added again.
MoveForgets(w) ==
    /\ pc[w] = "move"
    /\ Goto(w, "add")
    /\ UNCHANGED <<store, manager, timers, life, app, locks, sess, ent, low, tries, index>>

Move(w) ==
    /\ pc[w] = "move"
    /\ order' = Without(order, ent[w])
    /\ Goto(w, "add")
    /\ UNCHANGED <<store, dict, entry, timers, life, app, locks,
                   sess, ent, low, tries, index>>

\* resetTimer replaces _timer when it is not valid, and else only when the
\* earliest time-out comes before it.
MayReset(t) ==
    \/ timer \in {"none", "fired"} /\ timer' = t /\ UNCHANGED superseded
    \/ timer \in {"made", "set"} /\ timer' = t /\ superseded' = TRUE

\* What a check-in leaves behind when it returns.
CheckInDone(w) ==
    /\ storeLock' = Nobody
    /\ mgrLock' = Nobody
    /\ pool' = pool \ {sess[w]}
    /\ ent' = [ent EXCEPT ![w] = NoEntry]
    /\ Finish(w)

Add(w) ==
    /\ pc[w] = "add"
    /\ order' = Append(order, ent[w])
    /\ entry' = [entry EXCEPT ![ent[w]].due = FALSE]
    /\ \/ /\ MayReset("made")
          /\ Goto(w, "addTimer")
          /\ UNCHANGED <<pool, storeLock, mgrLock, sess, ent, tries>>
       \/ /\ timer \in {"made", "set"}
          /\ CheckInDone(w)
          /\ UNCHANGED <<timer, superseded>>
    /\ UNCHANGED <<store, dict, killing, created, terminating, app, appLock, low, index>>

\* -[GSWApplication addTimer:] takes the application's lock.
AddTimer(w) ==
    /\ pc[w] = "addTimer"
    /\ appLock = Nobody
    /\ timer' = "set"
    /\ CheckInDone(w)
    /\ UNCHANGED <<store, manager, superseded, killing, created, terminating, app,
                   appLock, low, index>>

\* The wait for the manager's lock reaches its limit: the refusal timer holds
\* it and waits for the store's lock, which w holds.  _handleRequest: tries
\* to save a session three times, then the request ends.
MgrLockFails(w) ==
    /\ pc[w] \in {"checkOutEntry", "checkInEntry", "update"}
    /\ mgrLock = Main /\ pc[Main] = "refusalLoop" /\ order # <<>>
    /\ storeLock' = Nobody
    /\ IF pc[w] = "checkOutEntry" \/ tries[w] = 2
       THEN Finish(w)
       ELSE /\ tries' = [tries EXCEPT ![w] = @ + 1]
            /\ Goto(w, "checkIn")
            /\ UNCHANGED sess
    /\ UNCHANGED <<store, manager, timers, life, app, mgrLock, appLock, ent, low, index>>

(***************************************************************************)
(* refuseNewSessions:                                                      *)
(***************************************************************************)
Refuse(w) ==
    /\ pc[w] = "idle"
    /\ \/ refusing' = TRUE /\ Goto(w, "refused")
       \/ refusing' = FALSE /\ UNCHANGED pc
    /\ UNCHANGED <<store, manager, timers, life, count, appTerminating, locks,
                   sess, ent, low, tries, index>>

\* Mutant: the count must be below the minimum.
AfterRefuseBelow(w) ==
    /\ pc[w] = "refused"
    /\ appTerminating' = (appTerminating \/ (refusing /\ count < MinActive))
    /\ Goto(w, "idle")
    /\ UNCHANGED <<store, manager, timers, life, count, refusing, locks,
                   sess, ent, low, tries, index>>

AfterRefuse(w) ==
    /\ pc[w] = "refused"
    /\ appTerminating' = (appTerminating \/ (refusing /\ count <= MinActive))
    /\ Goto(w, "idle")
    /\ UNCHANGED <<store, manager, timers, life, count, refusing, locks,
                   sess, ent, low, tries, index>>

(***************************************************************************)
(* handleTimer: on the main thread.                                        *)
(***************************************************************************)
InHandleTimer ==
    \/ pc[Main] \in {"scan", "expire", "drop"}
    \/ pc[Main] \in {"marking", "discounting", "discounted"} /\ mgrLock # Main

\* Leaves one level of the recursive application lock: a kill that failed
\* keeps a level of its own.
UnlockApp == appLock' = IF killing = "fired" THEN Main ELSE Nobody

\* Time passes.  handleTimer reads the clock once, so nothing falls due for
\* it while it runs.
FallDue ==
    /\ ~InHandleTimer /\ pc[Main] # "exited"
    /\ \E i \in DOMAIN order :
         /\ ~entry[order[i]].due
         /\ entry' = [entry EXCEPT ![order[i]].due = TRUE]
    /\ UNCHANGED <<store, dict, order, timers, life, app, locks, control>>

FireTimer ==
    /\ pc[Main] = "idle"
    /\ ~appTerminating
    /\ \/ timer = "set" /\ timer' = "fired" /\ UNCHANGED superseded
       \/ superseded /\ superseded' \in BOOLEAN /\ UNCHANGED timer
    /\ Goto(Main, "fired")
    /\ UNCHANGED <<store, manager, killing, life, app, locks, sess, ent, low, tries, index>>

\* Mutant: the scan skips the last entry.
HandleTimerSkips ==
    /\ pc[Main] = "fired"
    /\ appLock \in {Nobody, Main}
    /\ appLock' = Main
    /\ index' = IF order = <<>> THEN 0 ELSE Len(order) - 1
    /\ Goto(Main, "scan")
    /\ UNCHANGED <<store, manager, timers, life, app, storeLock, mgrLock,
                   sess, ent, low, tries>>

HandleTimer ==
    /\ pc[Main] = "fired"
    /\ appLock \in {Nobody, Main}
    /\ appLock' = Main
    /\ index' = Len(order)
    /\ Goto(Main, "scan")
    /\ UNCHANGED <<store, manager, timers, life, app, storeLock, mgrLock,
                   sess, ent, low, tries>>

Scan ==
    /\ pc[Main] = "scan"
    /\ index \in DOMAIN order
    /\ IF entry[order[index]].due
       THEN /\ ent' = [ent EXCEPT ![Main] = order[index]]
            /\ Goto(Main, "expire")
            /\ UNCHANGED index
       ELSE /\ index' = index - 1
            /\ UNCHANGED <<ent, pc>>
    /\ UNCHANGED <<store, manager, timers, life, app, locks, sess, low, tries>>

\* objectAtIndex: raises if the array has shrunk below the index.
ScanRaises ==
    /\ pc[Main] = "scan"
    /\ index > Len(order)
    /\ index' = 0
    /\ UnlockApp
    /\ Goto(Main, "idle")
    /\ UNCHANGED <<store, manager, timers, life, app, storeLock, mgrLock,
                   sess, ent, low, tries>>

\* removeSessionWithID: under the store's lock.
RemoveFromStore ==
    LET s == entry[ent'[Main]].sid IN
    /\ storeLock = Nobody
    /\ sess' = [sess EXCEPT ![Main] = IF s \in sessions THEN s ELSE NoSession]
    /\ sessions' = sessions \ {s}

\* Mutant: the entry goes, the session stays in the store.
ExpireKeeps ==
    /\ pc[Main] = "expire"
    /\ Goto(Main, "drop")
    /\ UNCHANGED <<store, manager, timers, life, app, locks, sess, ent, low, tries, index>>

Expire ==
    /\ pc[Main] = "expire"
    /\ ent' = ent
    /\ RemoveFromStore
    /\ Goto(Main, "drop")
    /\ UNCHANGED <<manager, timers, life, app, locks, low, tries, index>>

\* Mutant: the entry leaves the array only.
DropEntryHalf ==
    /\ order' = Without(order, ent[Main])
    /\ ent' = [ent EXCEPT ![Main] = NoEntry]
    /\ UNCHANGED <<dict, entry>>

\* The entry of Main leaves both collections of the manager.
DropEntry ==
    /\ dict' = [dict EXCEPT ![entry[ent[Main]].sid] = NoEntry]
    /\ order' = Without(order, ent[Main])
    /\ ent' = [ent EXCEPT ![Main] = NoEntry]
    /\ UNCHANGED entry

Drop ==
    /\ pc[Main] = "drop"
    /\ DropEntry
    /\ index' = index - 1
    /\ IF sess[Main] = NoSession \/ sess[Main] \in terminating
       THEN Goto(Main, "scan") /\ sess' = [sess EXCEPT ![Main] = NoSession]
       ELSE Goto(Main, "marking") /\ UNCHANGED sess
    /\ UNCHANGED <<store, timers, life, app, locks, low, tries>>

\* Mutant: the timer is not set again.
EndScanForgets ==
    /\ pc[Main] = "scan"
    /\ index = 0
    /\ UnlockApp
    /\ Goto(Main, "idle")
    /\ UNCHANGED <<store, manager, timers, life, app, storeLock, mgrLock,
                   sess, ent, low, tries, index>>

\* resetTimer and addTimer: at the end of the scan.
EndScan ==
    /\ pc[Main] = "scan"
    /\ index = 0
    /\ \/ order # <<>> /\ MayReset("set")
       \/ order # <<>> /\ timer \in {"made", "set"} /\ UNCHANGED <<timer, superseded>>
       \/ /\ order = <<>>
          /\ timer' = "none"
          /\ superseded' = (superseded \/ timer \in {"made", "set"})
    /\ UnlockApp
    /\ Goto(Main, "idle")
    /\ UNCHANGED <<store, manager, killing, life, app, storeLock, mgrLock,
                   sess, ent, low, tries, index>>

(***************************************************************************)
(* handleTimerRefusingSessions: and handleTimerKillingApplication:.        *)
(***************************************************************************)
\* The timer repeats; when the lock cannot be had, it is only rescheduled.
FireRefusal ==
    /\ pc[Main] = "idle"
    /\ ~appTerminating /\ killing = "no"
    /\ mgrLock = Nobody
    /\ mgrLock' = Main
    /\ Goto(Main, "refusalCheck")
    /\ UNCHANGED <<store, manager, timers, life, app, storeLock, appLock,
                   sess, ent, low, tries, index>>

RefusalCheck ==
    /\ pc[Main] = "refusalCheck"
    /\ IF refusing /\ Len(order) <= MinActive
       THEN Goto(Main, "refusalLoop") /\ UNCHANGED mgrLock
       ELSE Goto(Main, "idle") /\ mgrLock' = Nobody
    /\ UNCHANGED <<store, manager, timers, life, app, storeLock, appLock,
                   sess, ent, low, tries, index>>

\* The loop stays on an entry whose session is not in the store.
RefusalRemove ==
    /\ pc[Main] = "refusalLoop"
    /\ order # <<>>
    /\ ent' = [ent EXCEPT ![Main] = Last(order)]
    /\ RemoveFromStore
    /\ Goto(Main, IF sess'[Main] = NoSession THEN "refusalLoop"
                  ELSE IF sess'[Main] \in terminating THEN "refusalDrop" ELSE "marking")
    /\ UNCHANGED <<manager, timers, life, app, locks, low, tries, index>>

RefusalDrop ==
    /\ pc[Main] = "refusalDrop"
    /\ DropEntry
    /\ sess' = [sess EXCEPT ![Main] = NoSession]
    /\ Goto(Main, "refusalLoop")
    /\ UNCHANGED <<store, timers, life, app, locks, low, tries, index>>

RefusalDone ==
    /\ pc[Main] = "refusalLoop"
    /\ order = <<>>
    /\ killing' = "scheduled"
    /\ mgrLock' = Nobody
    /\ ent' = [ent EXCEPT ![Main] = NoEntry]
    /\ Goto(Main, "idle")
    /\ UNCHANGED <<store, manager, timer, superseded, life, app, storeLock, appLock,
                   sess, low, tries, index>>

FireKill ==
    /\ pc[Main] = "idle"
    /\ killing = "scheduled" /\ ~appTerminating
    /\ killing' = "fired"
    /\ Goto(Main, "kill")
    /\ UNCHANGED <<store, manager, timer, superseded, life, app, locks,
                   sess, ent, low, tries, index>>

KillLockApp ==
    /\ pc[Main] = "kill"
    /\ appLock \in {Nobody, Main}
    /\ appLock' = Main
    /\ Goto(Main, "killLocked")
    /\ UNCHANGED <<store, manager, timers, life, app, storeLock, mgrLock,
                   sess, ent, low, tries, index>>

\* exit(0) once the manager's lock is had.  A check-in that holds it may wait
\* for the application's lock: the wait of Main reaches its limit, and the
\* exception leaves the application locked.
Kill ==
    /\ pc[Main] = "killLocked"
    /\ \/ mgrLock = Nobody /\ mgrLock' = Main /\ pc' = [t \in Threads |-> "exited"]
       \/ /\ \E w \in Workers : mgrLock = w /\ pc[w] = "addTimer"
          /\ Goto(Main, "idle")
          /\ UNCHANGED mgrLock
    /\ UNCHANGED <<store, manager, timers, life, app, storeLock, appLock,
                   sess, ent, low, tries, index>>

(***************************************************************************)
(* The next-state relations.                                               *)
(***************************************************************************)
TerminateStep(t) == Mark(t) \/ Discount(t) \/ AfterDiscount(t)

\* A step that continues a request already begun.
RequestStep(w) ==
    \/ Created(w) \/ LockStore(w) \/ CheckOut(w) \/ TerminateStep(w)
    \/ Save(w) \/ CheckIn(w) \/ Update(w) \/ Move(w) \/ Add(w) \/ AddTimer(w)
    \/ AfterRefuse(w)

FailureStep(w) == CreateNil(w) \/ CreateRaises(w) \/ MgrLockFails(w)

WorkerStep(w) ==
    Create(w) \/ Restore(w) \/ Refuse(w) \/ Terminate(w) \/ RequestStep(w)

TimerStep ==
    \/ FireTimer \/ HandleTimer \/ Scan \/ ScanRaises \/ Expire \/ Drop \/ EndScan

RefusalStep ==
    \/ FireRefusal \/ RefusalCheck \/ RefusalRemove \/ RefusalDrop \/ RefusalDone
    \/ FireKill \/ KillLockApp \/ Kill

MainStep == TimerStep \/ RefusalStep \/ TerminateStep(Main)

Next ==
    \/ \E w \in Workers : WorkerStep(w) \/ FailureStep(w)
    \/ MainStep
    \/ FallDue

Spec == Init /\ [][Next]_vars

\* The adaptor without threads runs a request to its end on the main thread; here
\* no creation of a session fails.
OthersIdle(t) == \A u \in Threads \ {t} : pc[u] = "idle"
SerialNext ==
    \/ \E w \in Workers : OthersIdle(w) /\ WorkerStep(w)
    \/ OthersIdle(Main) /\ MainStep
    \/ FallDue
SerialSpec == Init /\ [][SerialNext]_vars

(***************************************************************************)
(* Properties.                                                             *)
(***************************************************************************)
TypeOK ==
    /\ sessions \subseteq Sessions
    /\ dict \in [Sessions -> Entries \union {NoEntry}]
    /\ order \in Seq(Entries)
    /\ entry \in [Entries -> Entry]
    /\ timer \in {"none", "made", "set", "fired"}
    /\ superseded \in BOOLEAN
    /\ killing \in {"no", "scheduled", "fired"}
    /\ created \subseteq Sessions
    /\ terminating \subseteq Sessions
    /\ pool \subseteq Sessions
    /\ count \in Int
    /\ refusing \in BOOLEAN /\ appTerminating \in BOOLEAN
    /\ {storeLock, mgrLock, appLock} \subseteq Threads \union {Nobody}
    /\ pc \in [Threads -> WorkerPC \union MainPC]
    /\ sess \in [Threads -> Sessions \union {NoSession}]
    /\ ent \in [Threads -> Entries \union {NoEntry}]
    /\ low \in [Threads -> BOOLEAN]
    /\ tries \in [Workers -> 0 .. 2]
    /\ index \in Nat

\* Every entry the dictionary knows is in the array handleTimer scans, but
\* while updateTimeOutForSessionWithID: moves it to the end of the array.
DictIsScanned ==
    \A s \in Sessions :
        dict[s] = NoEntry \/ dict[s] \in ToSet(order)
        \/ \E w \in Workers : pc[w] = "add" /\ ent[w] = dict[s]

\* The array never holds an entry twice, so that removing an expired entry
\* removes it for good (removeObject: in handleTimer and updateTimeOut...).
NoEntryTwice ==
    \A i, j \in DOMAIN order : order[i] = order[j] => i = j

\* A request takes the manager's lock only under the store's lock: requests
\* never wait for each other there, and the 360 s limit is met only when the
\* refusal timer holds the lock.
ManagerUnderStore == mgrLock \in Workers => storeLock = mgrLock

\* u holds the lock that t waits for, for ever if need be.
WaitsFor(t, u) ==
    /\ t # u
    /\ \/ storeLock = u /\ pc[t] \in {"checkOut", "checkIn", "expire"}
       \/ storeLock = u /\ pc[t] = "refusalLoop" /\ order # <<>>
       \/ appLock = u /\ pc[t] \in {"addTimer", "discounting", "fired", "kill"}
Deadlocked(S) == S # {} /\ \A t \in S : \E u \in S : WaitsFor(t, u)

\* The only deadlock of the three locks is the one between a check-in that
\* adds a timer (GSWSessionTimeOutManager.m:144) and handleTimer that expires
\* an entry (line 170): no other threads ever wait for each other.
OnlyDeadlock ==
    \A S \in SUBSET Threads :
        Deadlocked(S) =>
            /\ Main \in S /\ pc[Main] = "expire"
            /\ \E w \in S : storeLock = w /\ pc[w] = "addTimer"

\* The inductive invariant behind the four: who holds which lock at which
\* label, and which entry a thread is at work on.
StoreHeld ==
    \A w \in Workers :
        pc[w] \in {"checkOutEntry", "checkInEntry", "update", "move", "add", "addTimer"}
            => storeLock = w
MgrHeld ==
    /\ \A w \in Workers : pc[w] \in {"move", "add", "addTimer"} <=> mgrLock = w
    /\ pc[Main] \in {"refusalCheck", "refusalLoop", "refusalDrop"} => mgrLock = Main
SessKnown ==
    /\ \A w \in Workers :
         pc[w] \notin {"idle", "creating", "refused", "exited"} => sess[w] \in Sessions
    /\ pc[Main] = "marking" => sess[Main] \in Sessions
EntKnown ==
    /\ \A w \in Workers : pc[w] \in {"move", "add"} => ent[w] \in Entries
    /\ \A w \in Workers : pc[w] = "add" => ent[w] \notin ToSet(order)
    /\ pc[Main] \in {"expire", "drop"} => index > 0
SidKnown == \A s \in Sessions : dict[s] # NoEntry => entry[dict[s]].sid = s
IInv ==
    /\ TypeOK
    /\ StoreHeld /\ MgrHeld /\ SessKnown
    /\ EntKnown /\ SidKnown /\ NoEntryTwice /\ DictIsScanned

\* A session in the store has an entry, so it times out some day.
StoredHasEntry ==
    storeLock = Nobody /\ pc[Main] \notin {"expire", "drop"} =>
        \A s \in sessions : dict[s] # NoEntry

\* The application counts the sessions that live or are being made.
CountIsExact ==
    count = Cardinality(created \ terminating)
            + Cardinality({w \in Workers : pc[w] = "creating"})
            + Cardinality({t \in Threads : pc[t] = "discounting"})

\* An application that refuses sessions and has few enough terminates, once
\* every thread that changed the count or the flag has looked at the other.
RefusalTakesEffect ==
    refusing /\ count <= MinActive /\ (\A t \in Threads : pc[t] = "idle")
        => appTerminating

\* While there are entries to watch, a timer is in the run loop.
TimerIsSet ==
    order # <<>> /\ (\A t \in Threads : pc[t] = "idle") => timer = "set"

(***************************************************************************)
(* An application without threads implements the service of sessions.      *)
(***************************************************************************)
\* The timer of Main has taken s out of the store and is about to end it.
TimingOut(s) == sess[Main] = s /\ pc[Main] \in {"drop", "marking"}
Status ==
    [s \in Sessions |->
        IF s \notin created THEN "new"
        ELSE IF s \in terminating THEN "over"
        ELSE IF s \in sessions \/ TimingOut(s) THEN "kept"
        ELSE "begun"]
Served == {sess[w] : w \in Workers} \ {NoSession}

\* The count changes before a session is created and after it is over.
Active ==
    count - Cardinality({w \in Workers : pc[w] = "creating"})
          - Cardinality({t \in Threads : pc[t] = "discounting"})

\* Sessions of an application without threads begin, are kept and taken, and
\* end once, between GSWServerSessionStore, handleTimer and terminate: none is
\* lost, none comes back once over, and the count follows.
Service == INSTANCE SessionService WITH status <- Status, serving <- Served, active <- Active
ServiceSpec == Service!Spec

(***************************************************************************)
(* Liveness.  Every request goes on and the run loop fires its timers; the *)
(* requests' callers owe nothing.                                          *)
(***************************************************************************)
SerialFairness ==
    /\ \A w \in Workers : WF_vars(OthersIdle(w) /\ RequestStep(w))
    /\ SF_vars(OthersIdle(Main) /\ (TimerStep \/ TerminateStep(Main)))
    /\ WF_vars(OthersIdle(Main) /\ RefusalStep)
SerialLiveSpec == SerialSpec /\ SerialFairness

\* A session that has timed out leaves the store, or is used again, or the
\* application ends.
TimedOutLeaves ==
    \A s \in Sessions :
        (s \in sessions /\ dict[s] # NoEntry /\ entry[dict[s]].due)
            ~> (s \notin sessions \/ ~entry[dict[s]].due \/ appTerminating \/ pc[Main] = "exited")

(***************************************************************************)
(* What comments of the source say and the code does not do.               *)
(***************************************************************************)
\* GSWSession.m:512 terminates a session once only.
TerminatedOnce == count >= Cardinality(created \ terminating)

\* GSWSession.m:878 asserts that a checked out session has no pool yet.
PoolIsNew ==
    \A w \in Workers :
        pc[w] = "checkOutEntry" /\ sess[w] \in sessions \intersect pool
            => dict[sess[w]] # NoEntry /\ entry[dict[sess[w]]].checkedOut

\* GSWSessionTimeOutManager.m:432 and 486: the refusal timer shuts all
\* sessions down and then ends the application.
LiveSpec == Spec /\ SF_vars(MainStep)
                 /\ \A w \in Workers : WF_vars(RequestStep(w) \/ MgrLockFails(w))
SoftShutdownEnds == pc[Main] = "refusalLoop" ~> killing # "no"
=============================================================================
