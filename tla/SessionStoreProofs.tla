------------------------- MODULE SessionStoreProofs -------------------------
(***************************************************************************)
(* The inductive invariants of SessionStore, for every number of threads,  *)
(* sessions and time-out entries: IInv of the whole system, SerialInv of   *)
(* an application without threads, RequestsInv of the requests alone.      *)
(***************************************************************************)
EXTENDS Requests, ArrayLemmas, FiniteSetTheorems

\* What removeObject: leaves of an array that holds nothing twice.
LEMMA WithoutProps ==
    ASSUME NEW S, NEW seq \in Seq(S), NEW e,
           \A i, j \in DOMAIN seq : seq[i] = seq[j] => i = j
    PROVE  /\ Without(seq, e) \in Seq(S)
           /\ ToSet(Without(seq, e)) = ToSet(seq) \ {e}
           /\ \A i, j \in DOMAIN Without(seq, e) :
                  Without(seq, e)[i] = Without(seq, e)[j] => i = j
<1>1. CASE ~ \E i \in DOMAIN seq : seq[i] = e
  BY <1>1 DEF Without, ToSet
<1>2. CASE \E i \in DOMAIN seq : seq[i] = e
  <2> DEFINE k == CHOOSE i \in DOMAIN seq : seq[i] = e
  <2>1. k \in 1 .. Len(seq) /\ seq[k] = e
    BY <1>2
  <2>2. Without(seq, e) = RemoveAt(seq, k)
    BY <1>2 DEF Without
  <2> HIDE DEF k
  <2>3. RemoveAt(seq, k) \in Seq(S)
    BY <2>1, RemoveAtProps
  <2>4. /\ ToSet(RemoveAt(seq, k)) \subseteq ToSet(seq)
        /\ ToSet(seq) \ {seq[k]} \subseteq ToSet(RemoveAt(seq, k))
        /\ seq[k] \notin ToSet(RemoveAt(seq, k))
        /\ \A i, j \in DOMAIN RemoveAt(seq, k) :
              RemoveAt(seq, k)[i] = RemoveAt(seq, k)[j] => i = j
    BY <2>1, RemoveAtRange
  <2> QED BY <2>1, <2>2, <2>3, <2>4
<1> QED BY <1>1, <1>2

\* Looking an entry up, or entering a new one, while nobody holds the lock of
\* the manager.
LEMMA FindOrEnterProps ==
    ASSUME IInv, mgrLock = Nobody,
           NEW s \in Sessions, NEW e \in Entries, FindOrEnter(s, e)
    PROVE  /\ dict' \in [Sessions -> Entries \union {NoEntry}]
           /\ order' \in Seq(Entries)
           /\ \A i, j \in DOMAIN order' : order'[i] = order'[j] => i = j
           /\ \A r \in Sessions : dict'[r] # NoEntry => dict'[r] \in ToSet(order')
           /\ dict'[s] = e
           /\ \A r \in Sessions \ {s} : dict'[r] = dict[r] /\ dict[r] # e
           /\ \A t \in Threads : ent[t] \notin ToSet(order) =>
                ent[t] \notin ToSet(order') \/ ent[t] = NoEntry
           /\ Found(s, e) \in Entry /\ Found(s, e).sid = s
<1> USE DEF Threads
<1>1. \A w \in Workers : pc[w] # "add"
  BY ThreadsAssumption DEF IInv, MgrHeld
<1>2. \A r \in Sessions : dict[r] # NoEntry => dict[r] \in ToSet(order)
  BY <1>1 DEF IInv, DictIsScanned
<1>3. TypeOK /\ (\A i, j \in DOMAIN order : order[i] = order[j] => i = j)
  BY DEF IInv, NoEntryTwice
<1>4. CASE dict[s] = e /\ UNCHANGED <<dict, order>>
  <2>1. e # NoEntry
    BY ValuesAssumption
  <2>2. \A r \in Sessions \ {s} : dict[r] # e
    BY <1>4, <2>1 DEF IInv, SidKnown
  <2>3. Found(s, e) = entry[e] /\ entry[e] \in Entry /\ entry[e].sid = s
    BY <1>3, <1>4, <2>1 DEF IInv, SidKnown, Found, TypeOK
  <2> QED BY <1>2, <1>3, <1>4, <2>2, <2>3 DEF TypeOK
<1>5. CASE /\ dict[s] = NoEntry
           /\ e \in Entries \ Referenced
           /\ dict' = [dict EXCEPT ![s] = e]
           /\ order' = Append(order, e)
  <2>1. /\ e \notin ToSet(order)
        /\ \A r \in Sessions : dict[r] # e
        /\ \A t \in Threads : ent[t] # e
    BY <1>5 DEF Referenced
  <2>2. /\ order' \in Seq(Entries)
        /\ ToSet(order') = ToSet(order) \union {e}
        /\ \A i, j \in DOMAIN order' : order'[i] = order'[j] => i = j
    BY <1>3, <1>5, <2>1, AppendRange DEF TypeOK
  <2>3. Found(s, e) = [sid |-> s, checkedOut |-> FALSE, due |-> FALSE]
    BY <1>5, ValuesAssumption DEF Found
  <2>4. Found(s, e) \in Entry /\ Found(s, e).sid = s
    BY <2>3 DEF Entry
  <2>5. /\ dict' \in [Sessions -> Entries \union {NoEntry}]
        /\ dict'[s] = e
        /\ \A r \in Sessions \ {s} : dict'[r] = dict[r]
    BY <1>3, <1>5 DEF TypeOK
  <2> QED BY <1>2, <2>1, <2>2, <2>4, <2>5
<1> QED BY <1>4, <1>5 DEF FindOrEnter

\* Dropping the entry of Main from both collections.
LEMMA DropEntryProps ==
    ASSUME IInv, DropEntry
    PROVE  /\ dict' \in [Sessions -> Entries \union {NoEntry}]
           /\ order' \in Seq(Entries)
           /\ NoEntryTwice'
           /\ ToSet(order') = ToSet(order) \ {ent[Main]}
           /\ ent' \in [Threads -> Entries \union {NoEntry}]
           /\ \A w \in Workers : ent'[w] = ent[w]
           /\ \A s \in Sessions : dict'[s] # NoEntry =>
                dict'[s] = dict[s] /\ dict[s] # ent[Main]
<1>1. TypeOK /\ NoEntryTwice /\ SidKnown
  BY DEF IInv
<1>2. /\ order' \in Seq(Entries)
      /\ NoEntryTwice'
      /\ ToSet(order') = ToSet(order) \ {ent[Main]}
  BY <1>1, WithoutProps DEF DropEntry, TypeOK, NoEntryTwice
<1>3. /\ dict' \in [Sessions -> Entries \union {NoEntry}]
      /\ ent' \in [Threads -> Entries \union {NoEntry}]
  BY <1>1 DEF DropEntry, TypeOK
<1>4. \A w \in Workers : ent'[w] = ent[w]
  BY <1>1, ThreadsAssumption DEF DropEntry, TypeOK, Threads
<1>5. ASSUME NEW s \in Sessions, dict'[s] # NoEntry
      PROVE  dict'[s] = dict[s] /\ dict[s] # ent[Main]
  <2>1. dict' = [dict EXCEPT ![entry[ent[Main]].sid] = NoEntry]
    BY DEF DropEntry
  <2>2. s # entry[ent[Main]].sid /\ dict'[s] = dict[s]
    BY <1>1, <1>5, <2>1 DEF TypeOK
  <2> QED BY <1>1, <1>5, <2>2 DEF SidKnown
<1> QED BY <1>2, <1>3, <1>4, <1>5

\* The steps of a request that leave the entries of the manager alone.
LEMMA RequestStepInv ==
    ASSUME IInv, NEW w \in Workers,
           (Create(w) \/ Created(w) \/ CreateNil(w) \/ CreateRaises(w) \/
               Restore(w) \/ LockStore(w) \/ Terminate(w) \/ Save(w)
               \/ AddTimer(w) \/ MgrLockFails(w) \/ Refuse(w) \/
               AfterRefuse(w))
    PROVE  IInv'
<1> USE ThreadsAssumption, ValuesAssumption
    DEF IInv, TypeOK, WorkerPC, MainPC, Entry, StoreHeld, MgrHeld, SessKnown, EntKnown,
        SidKnown, NoEntryTwice, DictIsScanned, Threads, Goto,
        store, manager, timers, life, app, locks, control
<1>1. CASE Create(w)
  BY <1>1 DEF Create
<1>2. CASE Created(w)
  BY <1>2 DEF Created
<1>3. CASE CreateNil(w)
  BY <1>3 DEF CreateNil, Finish
<1>4. CASE CreateRaises(w)
  BY <1>4 DEF CreateRaises, Finish
<1>5. CASE Restore(w)
  BY <1>5 DEF Restore
<1>6. CASE LockStore(w)
  <2> USE <1>6 DEF LockStore
  <2>1. TypeOK'
    OBVIOUS
  <2>2. StoreHeld' /\ MgrHeld' /\ SessKnown'
    OBVIOUS
  <2>3. EntKnown' /\ SidKnown' /\ NoEntryTwice' /\ DictIsScanned'
    OBVIOUS
  <2> QED BY <2>1, <2>2, <2>3
<1>7. CASE Terminate(w)
  BY <1>7 DEF Terminate
<1>8. CASE Save(w)
  BY <1>8 DEF Save
<1>9. CASE AddTimer(w)
  BY <1>9 DEF AddTimer, CheckInDone, Finish
<1>10. CASE MgrLockFails(w)
  <2> USE <1>10 DEF MgrLockFails, Finish
  <2>1. CASE pc[w] = "checkOutEntry" \/ tries[w] = 2
    <3>1. /\ pc' = [pc EXCEPT ![w] = "idle"]
          /\ sess' = [sess EXCEPT ![w] = NoSession]
          /\ tries' \in [Workers -> 0 .. 2]
      BY <2>1
    <3>2. TypeOK'
      BY <3>1
    <3> QED BY <3>1, <3>2
  <2>2. CASE ~(pc[w] = "checkOutEntry" \/ tries[w] = 2)
    <3>1. tries' \in [Workers -> 0 .. 2]
      BY <2>2
    <3> QED BY <2>2, <3>1
  <2> QED BY <2>1, <2>2
<1>11. CASE Refuse(w)
  <2> USE <1>11 DEF Refuse
  <2>1. /\ refusing' \in BOOLEAN
        /\ pc' = pc \/ pc' = [pc EXCEPT ![w] = "refused"]
    OBVIOUS
  <2>2. CASE pc' = pc
    BY <2>1, <2>2
  <2>3. CASE pc' = [pc EXCEPT ![w] = "refused"]
    BY <2>1, <2>3
  <2> QED BY <2>1, <2>2, <2>3
<1>12. CASE AfterRefuse(w)
  BY <1>12 DEF AfterRefuse
<1> QED BY <1>1, <1>2, <1>3, <1>4, <1>5, <1>6, <1>7, <1>8, <1>9, <1>10, <1>11, <1>12

\* The steps of terminate.
LEMMA TerminateStepInv ==
    ASSUME IInv, NEW t \in Threads,
           (Mark(t) \/ Discount(t) \/ AfterDiscount(t))
    PROVE  IInv'
<1> USE ThreadsAssumption, ValuesAssumption
    DEF IInv, TypeOK, WorkerPC, MainPC, Entry, StoreHeld, MgrHeld, SessKnown, EntKnown,
        SidKnown, NoEntryTwice, DictIsScanned, Threads, Goto,
        store, manager, timers, life, app, locks, control
<1>1. CASE Mark(t)
  BY <1>1 DEF Mark
<1>2. CASE Discount(t)
  BY <1>2 DEF Discount
<1>3. CASE AfterDiscount(t)
  BY <1>3 DEF AfterDiscount
<1> QED BY <1>1, <1>2, <1>3

\* The steps of the timers of Main that leave the entries alone.
LEMMA TimerStepInv ==
    ASSUME IInv, (FireTimer \/ HandleTimer \/ Scan \/ ScanRaises \/ Expire \/ EndScan
               \/ FireRefusal \/ RefusalCheck \/ RefusalRemove \/
               RefusalDone \/ FireKill \/ KillLockApp \/ Kill)
    PROVE  IInv'
<1> USE ThreadsAssumption, ValuesAssumption
    DEF IInv, TypeOK, WorkerPC, MainPC, Entry, StoreHeld, MgrHeld, SessKnown, EntKnown,
        SidKnown, NoEntryTwice, DictIsScanned, Threads, Goto,
        store, manager, timers, life, app, locks, control
<1>1. CASE FireTimer
  BY <1>1 DEF FireTimer
<1>2. CASE HandleTimer
  BY <1>2 DEF HandleTimer
<1>3. CASE Scan
  <2> USE <1>3 DEF Scan
  <2>1. order[index] \in Entries /\ index > 0 /\ index - 1 \in Nat
    OBVIOUS
  <2>2. CASE entry[order[index]].due
    <3>1. /\ ent' = [ent EXCEPT ![Main] = order[index]]
          /\ pc' = [pc EXCEPT ![Main] = "expire"]
          /\ index' = index
      BY <2>2
    <3>2. /\ \A w \in Workers : ent'[w] = ent[w] /\ pc'[w] = pc[w]
          /\ ent' \in [Threads -> Entries \union {NoEntry}]
          /\ pc' \in [Threads -> WorkerPC \union MainPC]
      BY <2>1, <3>1
    <3>3. TypeOK'
      BY <3>1, <3>2
    <3> QED BY <2>1, <3>1, <3>2, <3>3
  <2>3. CASE ~entry[order[index]].due
    BY <2>1, <2>3
  <2> QED BY <2>2, <2>3
<1>4. CASE ScanRaises
  BY <1>4 DEF ScanRaises, UnlockApp
<1>5. CASE Expire
  BY <1>5 DEF Expire, RemoveFromStore
<1>6. CASE EndScan
  <2> USE <1>6 DEF EndScan, UnlockApp
  <2>1. /\ timer' \in {"none", "made", "set", "fired"}
        /\ superseded' \in BOOLEAN
    BY DEF MayReset
  <2>2. appLock' \in Threads \union {Nobody}
    OBVIOUS
  <2> QED BY <2>1, <2>2
<1>7. CASE FireRefusal
  BY <1>7 DEF FireRefusal
<1>8. CASE RefusalCheck
  <2> USE <1>8 DEF RefusalCheck
  <2>1. mgrLock' \in Threads \union {Nobody}
    OBVIOUS
  <2>2. /\ pc' \in [Threads -> WorkerPC \union MainPC]
        /\ \A w \in Workers : pc'[w] = pc[w]
        /\ pc'[Main] \in {"refusalLoop", "idle"}
    OBVIOUS
  <2>3. TypeOK'
    BY <2>1, <2>2
  <2>4. StoreHeld' /\ MgrHeld' /\ SessKnown'
    BY <2>2
  <2>5. EntKnown' /\ SidKnown' /\ NoEntryTwice' /\ DictIsScanned'
    BY <2>2
  <2> QED BY <2>3, <2>4, <2>5
<1>9. CASE RefusalRemove
  <2> USE <1>9 DEF RefusalRemove, RemoveFromStore
  <2>0. Last(order) \in Entries
    BY <1>9 DEF RefusalRemove, Last
  <2>1. TypeOK'
    BY <2>0
  <2>2. StoreHeld' /\ MgrHeld' /\ SessKnown'
    BY <2>0
  <2>3. EntKnown' /\ SidKnown' /\ NoEntryTwice' /\ DictIsScanned'
    BY <2>0
  <2> QED BY <2>1, <2>2, <2>3
<1>10. CASE RefusalDone
  BY <1>10 DEF RefusalDone
<1>11. CASE FireKill
  BY <1>11 DEF FireKill
<1>12. CASE KillLockApp
  BY <1>12 DEF KillLockApp
<1>13. CASE Kill
  <2> USE <1>13 DEF Kill
  <2>1. CASE mgrLock = Nobody /\ mgrLock' = Main /\ pc' = [t \in Threads |-> "exited"]
    BY <2>1
  <2>2. CASE ~(mgrLock = Nobody /\ mgrLock' = Main /\ pc' = [t \in Threads |-> "exited"])
    BY <2>2
  <2> QED BY <2>1, <2>2
<1> QED BY <1>1, <1>2, <1>3, <1>4, <1>5, <1>6, <1>7, <1>8, <1>9, <1>10, <1>11, <1>12, <1>13

\* The entries once a request has looked one up and set its fields.
LEMMA EntriesAfterFind ==
    ASSUME IInv, mgrLock = Nobody,
           NEW s \in Sessions, NEW e \in Entries, FindOrEnter(s, e),
           NEW f \in Entry, f.sid = s, entry' = [entry EXCEPT ![e] = f]
    PROVE  /\ dict' \in [Sessions -> Entries \union {NoEntry}]
           /\ order' \in Seq(Entries)
           /\ entry' \in [Entries -> Entry]
           /\ NoEntryTwice' /\ SidKnown' /\ DictIsScanned'
<1>1. /\ dict' \in [Sessions -> Entries \union {NoEntry}]
      /\ order' \in Seq(Entries)
      /\ \A i, j \in DOMAIN order' : order'[i] = order'[j] => i = j
      /\ \A r \in Sessions : dict'[r] # NoEntry => dict'[r] \in ToSet(order')
      /\ dict'[s] = e
      /\ \A r \in Sessions \ {s} : dict'[r] = dict[r] /\ dict[r] # e
  BY FindOrEnterProps
<1>2. entry \in [Entries -> Entry] /\ dict \in [Sessions -> Entries \union {NoEntry}]
  BY DEF IInv, TypeOK
<1>3. entry' \in [Entries -> Entry]
  BY <1>2
<1>4. ASSUME NEW r \in Sessions, dict'[r] # NoEntry
      PROVE  entry'[dict'[r]].sid = r
  <2>1. CASE r = s
    BY <1>1, <1>2, <2>1
  <2>2. CASE r # s
    <3>1. dict'[r] = dict[r] /\ dict[r] # e /\ dict[r] \in Entries
      BY <1>1, <1>2, <1>4, <2>2
    <3>2. entry[dict[r]].sid = r
      BY <1>4, <3>1 DEF IInv, SidKnown
    <3> QED BY <1>2, <3>1, <3>2
  <2> QED BY <2>1, <2>2
<1>5. NoEntryTwice' /\ SidKnown' /\ DictIsScanned'
  BY <1>1, <1>4 DEF NoEntryTwice, SidKnown, DictIsScanned
<1> QED BY <1>1, <1>3, <1>5

\* The steps of a request that look an entry up.
LEMMA FindStepInv ==
    ASSUME IInv, NEW w \in Workers, (CheckOut(w) \/ CheckIn(w) \/ Update(w))
    PROVE  IInv'
<1>1. TypeOK /\ StoreHeld /\ MgrHeld /\ SessKnown /\ EntKnown
  BY DEF IInv
<1>2. \A e \in Entries :
        FindOrEnter(sess[w], e) /\ mgrLock = Nobody /\ sess[w] \in Sessions =>
            Found(sess[w], e) \in Entry /\ Found(sess[w], e).sid = sess[w]
  BY FindOrEnterProps
<1> USE ThreadsAssumption, ValuesAssumption DEF Threads
<1>3. CASE CheckOut(w)
  <2>1. mgrLock = Nobody /\ sess[w] \in Sessions
    BY <1>1, <1>3 DEF CheckOut, SessKnown
  <2>2. PICK e \in Entries :
          LET s == sess[w]
              free == ~Found(s, e).checkedOut
          IN /\ FindOrEnter(s, e)
             /\ \/ /\ ~free
                   /\ Goto(w, "inUse")
                   /\ UNCHANGED <<pool, entry, sess, tries>>
                \/ /\ free /\ (s \notin sessions \/ s \in pool)
                   /\ entry' = [entry EXCEPT ![e] = Found(s, e)]
                   /\ Finish(w)
                   /\ UNCHANGED pool
                \/ /\ free /\ s \in sessions /\ s \notin pool
                   /\ pool' = pool \union {s}
                   /\ entry' = [entry EXCEPT ![e] =
                                 [Found(s, e) EXCEPT !.checkedOut = TRUE]]
                   /\ Goto(w, "inUse")
                   /\ UNCHANGED <<sess, tries>>
    BY <1>3 DEF CheckOut
  <2>3. FindOrEnter(sess[w], e) /\ Found(sess[w], e) \in Entry /\ Found(sess[w], e).sid = sess[w]
    BY <1>2, <2>1, <2>2
  <2>4. \E f \in Entry : f.sid = sess[w] /\ entry' = [entry EXCEPT ![e] = f]
    <3>1. CASE Found(sess[w], e).checkedOut
      <4>1. Found(sess[w], e) = entry[e]
        BY <3>1 DEF Found
      <4>2. entry' = entry
        BY <2>2, <3>1
      <4> QED BY <1>1, <2>3, <4>1, <4>2 DEF TypeOK
    <3>2. CASE ~Found(sess[w], e).checkedOut
      <4> DEFINE f == [Found(sess[w], e) EXCEPT !.checkedOut = TRUE]
      <4>1. f \in Entry /\ f.sid = sess[w]
        BY <2>3 DEF Entry
      <4> QED BY <2>2, <2>3, <3>2, <4>1
    <3> QED BY <3>1, <3>2
  <2>5. /\ dict' \in [Sessions -> Entries \union {NoEntry}]
        /\ order' \in Seq(Entries)
        /\ entry' \in [Entries -> Entry]
        /\ NoEntryTwice' /\ SidKnown' /\ DictIsScanned'
    BY <2>1, <2>3, <2>4, EntriesAfterFind
  <2>6. /\ pool' \subseteq Sessions
        /\ sess' = sess \/ sess' = [sess EXCEPT ![w] = NoSession]
        /\ tries' \in [Workers -> 0 .. 2]
        /\ \/ pc' = [pc EXCEPT ![w] = "inUse"] /\ sess' = sess
           \/ pc' = [pc EXCEPT ![w] = "idle"]
    BY <1>1, <2>1, <2>2 DEF TypeOK, Finish, Goto
  <2>7. /\ storeLock' = Nobody
        /\ UNCHANGED <<store, timers, created, terminating, app, mgrLock, appLock,
                       ent, low, index>>
    BY <1>3 DEF CheckOut
  <2>8. TypeOK'
    <3>1. pc' \in [Threads -> WorkerPC \union MainPC]
      BY <1>1, <2>6 DEF TypeOK, WorkerPC
    <3>2. sess' \in [Threads -> Sessions \union {NoSession}]
      BY <1>1, <2>6 DEF TypeOK
    <3> QED BY <1>1, <2>5, <2>6, <2>7, <3>1, <3>2 DEF TypeOK, store, timers, app
  <2>9. StoreHeld' /\ MgrHeld' /\ SessKnown' /\ EntKnown'
    <3>1. \A u \in Workers : u # w => storeLock # w \/ pc[u] \notin
            {"checkOutEntry", "checkInEntry", "update", "move", "add", "addTimer"}
      BY <1>1 DEF StoreHeld
    <3>2. pc[w] = "checkOutEntry" /\ storeLock = w
      BY <1>1, <1>3 DEF CheckOut, StoreHeld
    <3> QED BY <1>1, <2>1, <2>6, <2>7, <3>1, <3>2
            DEF TypeOK, StoreHeld, MgrHeld, SessKnown, EntKnown
  <2> QED BY <2>5, <2>8, <2>9 DEF IInv
<1>4. CASE CheckIn(w)
  <2>1. mgrLock = Nobody /\ sess[w] \in Sessions
    BY <1>1, <1>4 DEF CheckIn, SessKnown
  <2>2. PICK e \in Entries :
          /\ FindOrEnter(sess[w], e)
          /\ entry' = [entry EXCEPT ![e] = [Found(sess[w], e) EXCEPT !.checkedOut = FALSE]]
    BY <1>4 DEF CheckIn
  <2> DEFINE f == [Found(sess[w], e) EXCEPT !.checkedOut = FALSE]
  <2>3. f \in Entry /\ f.sid = sess[w]
    BY <1>2, <2>1, <2>2 DEF Entry
  <2> HIDE DEF f
  <2>4. /\ dict' \in [Sessions -> Entries \union {NoEntry}]
        /\ order' \in Seq(Entries)
        /\ entry' \in [Entries -> Entry]
        /\ NoEntryTwice' /\ SidKnown' /\ DictIsScanned'
    BY <2>1, <2>2, <2>3, EntriesAfterFind DEF f
  <2>5. /\ sessions' \subseteq Sessions
        /\ pc[w] = "checkInEntry" /\ pc' = [pc EXCEPT ![w] = "update"]
        /\ UNCHANGED <<timers, life, app, locks, sess, ent, low, tries, index>>
    BY <1>1, <1>4, <2>1 DEF CheckIn, Goto, TypeOK
  <2>6. TypeOK'
    BY <1>1, <2>4, <2>5 DEF TypeOK, WorkerPC, timers, life, app, locks
  <2>7. StoreHeld' /\ MgrHeld' /\ SessKnown' /\ EntKnown'
    BY <1>1, <2>1, <2>5 DEF TypeOK, StoreHeld, MgrHeld, SessKnown, EntKnown, locks
  <2> QED BY <2>4, <2>6, <2>7 DEF IInv
<1>5. CASE Update(w)
  <2>1. mgrLock = Nobody /\ sess[w] \in Sessions
    BY <1>1, <1>5 DEF Update, SessKnown
  <2>2. PICK e \in Entries :
          /\ FindOrEnter(sess[w], e)
          /\ entry' = [entry EXCEPT ![e] = Found(sess[w], e)]
          /\ ent' = [ent EXCEPT ![w] = e]
    BY <1>5 DEF Update
  <2>3. /\ dict' \in [Sessions -> Entries \union {NoEntry}]
        /\ order' \in Seq(Entries)
        /\ entry' \in [Entries -> Entry]
        /\ NoEntryTwice' /\ SidKnown' /\ DictIsScanned'
    BY <1>2, <2>1, <2>2, EntriesAfterFind
  <2>4. /\ pc[w] = "update" /\ pc' = [pc EXCEPT ![w] = "move"]
        /\ mgrLock' = w
        /\ UNCHANGED <<store, timers, life, app, storeLock, appLock,
                       sess, low, tries, index>>
    BY <1>5 DEF Update, Goto
  <2>5. TypeOK'
    BY <1>1, <2>2, <2>3, <2>4 DEF TypeOK, WorkerPC, store, timers, life, app
  <2>6. StoreHeld' /\ MgrHeld' /\ SessKnown' /\ EntKnown'
    BY <1>1, <2>1, <2>2, <2>4 DEF TypeOK, StoreHeld, MgrHeld, SessKnown, EntKnown
  <2> QED BY <2>3, <2>5, <2>6 DEF IInv
<1> QED BY <1>3, <1>4, <1>5

\* The steps that move an entry to the end of the array, under the lock of
\* the manager.
LEMMA MoveStepInv ==
    ASSUME IInv, NEW w \in Workers, (Move(w) \/ Add(w))
    PROVE  IInv'
<1>1. TypeOK /\ StoreHeld /\ MgrHeld /\ SessKnown /\ EntKnown /\ SidKnown
      /\ NoEntryTwice /\ DictIsScanned
  BY DEF IInv
<1> USE ThreadsAssumption, ValuesAssumption DEF Threads
<1>2. CASE Move(w)
  <2>1. /\ order' = Without(order, ent[w])
        /\ pc[w] = "move" /\ pc' = [pc EXCEPT ![w] = "add"]
        /\ UNCHANGED <<store, dict, entry, timers, life, app, locks,
                       sess, ent, low, tries, index>>
    BY <1>2 DEF Move, Goto
  <2>2. /\ order' \in Seq(Entries)
        /\ ToSet(order') = ToSet(order) \ {ent[w]}
        /\ NoEntryTwice'
    BY <1>1, <2>1, WithoutProps DEF TypeOK, NoEntryTwice
  <2>3. mgrLock = w /\ ent[w] \in Entries /\ \A u \in Workers : pc[u] # "add"
    BY <1>1, <2>1 DEF MgrHeld, EntKnown
  <2>4. TypeOK'
    BY <1>1, <2>1, <2>2 DEF TypeOK, WorkerPC, store, timers, life, app, locks
  <2>5. StoreHeld' /\ MgrHeld' /\ SessKnown'
    BY <1>1, <2>1 DEF TypeOK, StoreHeld, MgrHeld, SessKnown, locks
  <2>6. pc' \in [Threads -> WorkerPC \union MainPC] /\ pc'[w] = "add"
        /\ \A u \in Threads \ {w} : pc'[u] = pc[u]
    BY <1>1, <2>1 DEF TypeOK, WorkerPC
  <2>7. EntKnown' /\ SidKnown'
    BY <1>1, <2>1, <2>2, <2>3, <2>6 DEF EntKnown, SidKnown
  <2>8. DictIsScanned'
    <3>1. \A s \in Sessions : dict[s] = NoEntry \/ dict[s] \in ToSet(order)
      BY <1>1, <2>3 DEF DictIsScanned
    <3>2. dict' = dict /\ ent' = ent
      BY <2>1
    <3> QED BY <2>2, <2>6, <3>1, <3>2 DEF DictIsScanned
  <2> QED BY <2>2, <2>4, <2>5, <2>7, <2>8 DEF IInv
<1>3. CASE Add(w)
  <2>1. /\ order' = Append(order, ent[w])
        /\ entry' = [entry EXCEPT ![ent[w]].due = FALSE]
        /\ pc[w] = "add"
        /\ UNCHANGED <<store, dict, killing, created, terminating, app, appLock, low, index>>
    BY <1>3 DEF Add
  <2>2. mgrLock = w /\ storeLock = w /\ sess[w] \in Sessions
        /\ ent[w] \in Entries /\ ent[w] \notin ToSet(order)
    BY <1>1, <2>1 DEF StoreHeld, MgrHeld, SessKnown, EntKnown
  <2>3. /\ order' \in Seq(Entries)
        /\ ToSet(order') = ToSet(order) \union {ent[w]}
        /\ NoEntryTwice'
    BY <1>1, <2>1, <2>2, AppendRange DEF TypeOK, NoEntryTwice
  <2>4. entry' \in [Entries -> Entry] /\ \A e \in Entries : entry'[e].sid = entry[e].sid
    <3>1. entry \in [Entries -> Entry] /\ entry[ent[w]] \in Entry
      BY <1>1, <2>2 DEF TypeOK
    <3>2. entry' = [entry EXCEPT ![ent[w]] = [entry[ent[w]] EXCEPT !.due = FALSE]]
      BY <2>1
    <3>3. /\ [entry[ent[w]] EXCEPT !.due = FALSE] \in Entry
          /\ [entry[ent[w]] EXCEPT !.due = FALSE].sid = entry[ent[w]].sid
      BY <3>1 DEF Entry
    <3> QED BY <2>2, <3>1, <3>2, <3>3
  <2>5. \/ /\ pc' = [pc EXCEPT ![w] = "addTimer"]
           /\ UNCHANGED <<pool, storeLock, mgrLock, sess, ent, tries>>
        \/ /\ pc' = [pc EXCEPT ![w] = "idle"]
           /\ storeLock' = Nobody /\ mgrLock' = Nobody
           /\ pool' = pool \ {sess[w]}
           /\ ent' = [ent EXCEPT ![w] = NoEntry]
           /\ sess' = [sess EXCEPT ![w] = NoSession]
           /\ tries' = [tries EXCEPT ![w] = 0]
    BY <1>3 DEF Add, CheckInDone, Finish, Goto
  <2>6. timer' \in {"none", "made", "set", "fired"} /\ superseded' \in BOOLEAN
    BY <1>1, <1>3 DEF Add, MayReset, TypeOK
  <2>7. TypeOK'
    <3>1. pc' \in [Threads -> WorkerPC \union MainPC]
      BY <1>1, <2>5 DEF TypeOK, WorkerPC
    <3>2. /\ sess' \in [Threads -> Sessions \union {NoSession}]
          /\ ent' \in [Threads -> Entries \union {NoEntry}]
      BY <1>1, <2>5 DEF TypeOK
    <3>3. pool' \subseteq Sessions /\ tries' \in [Workers -> 0 .. 2]
      BY <1>1, <2>5 DEF TypeOK
    <3>4. {storeLock', mgrLock', appLock'} \subseteq Threads \union {Nobody}
      BY <1>1, <2>1, <2>5 DEF TypeOK
    <3> QED BY <1>1, <2>1, <2>3, <2>4, <2>6, <3>1, <3>2, <3>3, <3>4 DEF TypeOK, store, app
  <2>8. \A u \in Workers \ {w} : pc[u] \notin
           {"checkOutEntry", "checkInEntry", "update", "move", "add", "addTimer"}
    BY <1>1, <2>2 DEF StoreHeld
  <2>9. \A u \in Threads \ {w} : pc'[u] = pc[u] /\ sess'[u] = sess[u] /\ ent'[u] = ent[u]
    BY <1>1, <2>5 DEF TypeOK
  <2>10. \/ pc'[w] = "addTimer" /\ storeLock' = storeLock /\ mgrLock' = mgrLock /\ sess' = sess
         \/ pc'[w] = "idle" /\ storeLock' = Nobody /\ mgrLock' = Nobody
    <3>1. pc \in [Threads -> WorkerPC \union MainPC] /\ w \in Threads
      BY <1>1 DEF TypeOK
    <3> QED BY <2>5, <3>1
  <2>11. StoreHeld' /\ MgrHeld' /\ SessKnown' /\ EntKnown'
    BY <1>1, <2>1, <2>2, <2>8, <2>9, <2>10 DEF StoreHeld, MgrHeld, SessKnown, EntKnown
  <2>12. SidKnown' /\ DictIsScanned'
    <3>1. \A s \in Sessions : dict[s] = NoEntry \/ dict[s] \in ToSet(order')
      BY <1>1, <2>3, <2>8 DEF DictIsScanned
    <3>2. dict' = dict /\ \A s \in Sessions : dict[s] # NoEntry => dict[s] \in Entries
      BY <1>1, <2>1 DEF TypeOK
    <3> QED BY <1>1, <2>4, <3>1, <3>2 DEF SidKnown, DictIsScanned
  <2> QED BY <2>3, <2>7, <2>11, <2>12 DEF IInv
<1> QED BY <1>2, <1>3

\* The steps of Main that drop an entry.
LEMMA DropStepInv ==
    ASSUME IInv, (Drop \/ RefusalDrop)
    PROVE  IInv'
<1>1. TypeOK /\ StoreHeld /\ MgrHeld /\ SessKnown /\ EntKnown /\ SidKnown
      /\ NoEntryTwice /\ DictIsScanned
  BY DEF IInv
<1> USE ThreadsAssumption, ValuesAssumption DEF Threads
<1>2. /\ dict' \in [Sessions -> Entries \union {NoEntry}]
      /\ order' \in Seq(Entries)
      /\ NoEntryTwice'
      /\ ToSet(order') = ToSet(order) \ {ent[Main]}
      /\ ent' \in [Threads -> Entries \union {NoEntry}]
      /\ \A w \in Workers : ent'[w] = ent[w]
      /\ \A s \in Sessions : dict'[s] # NoEntry =>
           dict'[s] = dict[s] /\ dict[s] # ent[Main]
      /\ entry' = entry
  BY DropEntryProps DEF Drop, RefusalDrop, DropEntry
<1>3. /\ sess' = sess /\ sess[Main] # NoSession /\ pc[Main] = "drop"
         /\ pc' = [pc EXCEPT ![Main] = "marking"]
      \/ /\ sess' = [sess EXCEPT ![Main] = NoSession]
         /\ pc[Main] = "drop" /\ pc' = [pc EXCEPT ![Main] = "scan"]
      \/ /\ sess' = [sess EXCEPT ![Main] = NoSession]
         /\ pc[Main] = "refusalDrop" /\ pc' = [pc EXCEPT ![Main] = "refusalLoop"]
  BY DEF Drop, RefusalDrop, Goto
<1>4. index' \in Nat
  BY <1>1 DEF Drop, RefusalDrop, EntKnown, TypeOK
<1>5. UNCHANGED <<store, timers, life, app, locks, low, tries>>
  BY DEF Drop, RefusalDrop
<1>6. TypeOK'
  BY <1>1, <1>2, <1>3, <1>4, <1>5 DEF TypeOK, MainPC, store, timers, life, app, locks
<1>7. \A w \in Workers : pc'[w] = pc[w] /\ sess'[w] = sess[w] /\ ent'[w] = ent[w]
  BY <1>1, <1>2, <1>3 DEF TypeOK
<1>8. StoreHeld' /\ MgrHeld'
  BY <1>1, <1>3, <1>5, <1>7 DEF StoreHeld, MgrHeld, locks, TypeOK
<1>9. SessKnown'
  BY <1>1, <1>3, <1>7 DEF SessKnown, TypeOK
<1>10. EntKnown'
  BY <1>1, <1>2, <1>3, <1>7 DEF EntKnown, TypeOK
<1>11. SidKnown' /\ DictIsScanned'
  BY <1>1, <1>2, <1>7 DEF SidKnown, DictIsScanned
<1> QED BY <1>2, <1>6, <1>8, <1>9, <1>10, <1>11 DEF IInv

\* The passing of time, and a step of something else.
LEMMA FallDueInv ==
    ASSUME IInv, FallDue
    PROVE  IInv'
<1>1. TypeOK
  BY DEF IInv
<1>2. PICK i \in DOMAIN order : entry' = [entry EXCEPT ![order[i]].due = TRUE]
  BY DEF FallDue
<1>3. UNCHANGED <<store, dict, order, timers, life, app, locks, control>>
  BY DEF FallDue
<1>4. order[i] \in Entries
  BY <1>1 DEF TypeOK
<1>5. entry' \in [Entries -> Entry] /\ \A e \in Entries : entry'[e].sid = entry[e].sid
  BY <1>1, <1>2, <1>4 DEF TypeOK, Entry
<1>6. TypeOK'
  BY <1>1, <1>3, <1>5 DEF TypeOK, store, timers, life, app, locks, control
<1>7. StoreHeld' /\ MgrHeld' /\ SessKnown' /\ EntKnown' /\ NoEntryTwice' /\ DictIsScanned'
  BY <1>3 DEF IInv, StoreHeld, MgrHeld, SessKnown, EntKnown, NoEntryTwice, DictIsScanned,
              locks, control
<1>8. SidKnown'
  <2>1. dict' = dict /\ \A s \in Sessions : dict[s] # NoEntry => dict[s] \in Entries
    BY <1>1, <1>3 DEF TypeOK
  <2> QED BY <1>5, <2>1 DEF IInv, SidKnown
<1> QED BY <1>6, <1>7, <1>8 DEF IInv

\* Every step of the system preserves the invariant.
LEMMA NextInv ==
    ASSUME IInv, [Next]_vars
    PROVE  IInv'
<1>1. CASE Next
  <2>1. ASSUME NEW w \in Workers, WorkerStep(w) \/ FailureStep(w)
        PROVE  IInv'
    <3>1. w \in Threads
      BY DEF Threads
    <3> QED BY <2>1, <3>1, RequestStepInv, TerminateStepInv, FindStepInv, MoveStepInv
            DEF WorkerStep, FailureStep, RequestStep, TerminateStep
  <2>2. CASE MainStep
    <3>1. Main \in Threads
      BY DEF Threads
    <3> QED BY <2>2, <3>1, TimerStepInv, TerminateStepInv, DropStepInv
            DEF MainStep, TimerStep, RefusalStep, TerminateStep
  <2> QED BY <1>1, <2>1, <2>2, FallDueInv DEF Next
<1>2. CASE UNCHANGED vars
  <2> USE <1>2 DEF vars, store, manager, timers, life, app, locks, control
  <2>1. TypeOK'
    BY DEF IInv, TypeOK
  <2>2. StoreHeld' /\ MgrHeld' /\ SessKnown' /\ EntKnown' /\ SidKnown' /\ NoEntryTwice'
        /\ DictIsScanned'
    BY DEF IInv, StoreHeld, MgrHeld, SessKnown, EntKnown, SidKnown, NoEntryTwice,
           DictIsScanned
  <2> QED BY <2>1, <2>2 DEF IInv
<1> QED BY <1>1, <1>2

\* A started application satisfies the invariant.
LEMMA InitInv ==
    ASSUME Init
    PROVE  IInv
<1> USE ThreadsAssumption, ValuesAssumption DEF Init, Threads
<1>1. TypeOK
  <2>1. order \in Seq(Entries)
    OBVIOUS
  <2>2. entry \in [Entries -> Entry]
    BY DEF Entry
  <2>3. pc \in [Threads -> WorkerPC \union MainPC]
    BY DEF WorkerPC
  <2>4. /\ dict \in [Sessions -> Entries \union {NoEntry}]
        /\ sess \in [Threads -> Sessions \union {NoSession}]
        /\ ent \in [Threads -> Entries \union {NoEntry}]
        /\ low \in [Threads -> BOOLEAN]
        /\ tries \in [Workers -> 0 .. 2]
    OBVIOUS
  <2>5. /\ {storeLock, mgrLock, appLock} \subseteq Threads \union {Nobody}
        /\ sessions \subseteq Sessions /\ created \subseteq Sessions
        /\ terminating \subseteq Sessions /\ pool \subseteq Sessions
        /\ count \in Int /\ index \in Nat
    OBVIOUS
  <2>6. /\ superseded \in BOOLEAN /\ refusing \in BOOLEAN /\ appTerminating \in BOOLEAN
        /\ timer \in {"none", "made", "set", "fired"}
        /\ killing \in {"no", "scheduled", "fired"}
    OBVIOUS
  <2> QED BY <2>1, <2>2, <2>3, <2>4, <2>5, <2>6 DEF TypeOK
<1>2. StoreHeld /\ MgrHeld /\ SessKnown /\ EntKnown
  BY DEF StoreHeld, MgrHeld, SessKnown, EntKnown
<1>3. SidKnown /\ NoEntryTwice /\ DictIsScanned
  BY DEF SidKnown, NoEntryTwice, DictIsScanned
<1> QED BY <1>1, <1>2, <1>3 DEF IInv

\* The invariant holds of the application with all its threads, timers and
\* failures, whatever their number.
THEOREM InvariantHolds == Spec => []IInv
<1>1. Init => IInv
  BY InitInv
<1>2. IInv /\ [Next]_vars => IInv'
  BY NextInv
<1> QED BY <1>1, <1>2, PTL DEF Spec

\* Every variable keeps its type.
THEOREM TypeCorrect == Spec => []TypeOK
<1>1. IInv => TypeOK
  BY DEF IInv
<1> QED BY <1>1, InvariantHolds, PTL

\* Every entry in the dictionary of the time-out manager is in the array that
\* its timer scans, but for the one that a check-in is moving: no session's
\* time-out is forgotten, though the timer changes both without the lock.
THEOREM EntriesAreScanned == Spec => []DictIsScanned
<1>1. IInv => DictIsScanned
  BY DEF IInv
<1> QED BY <1>1, InvariantHolds, PTL

\* The array of the time-out manager never holds an entry twice.
THEOREM EntriesAreUnique == Spec => []NoEntryTwice
<1>1. IInv => NoEntryTwice
  BY DEF IInv
<1> QED BY <1>1, InvariantHolds, PTL

\* A request that holds the manager's lock holds the store's lock as well.
THEOREM LocksAreNested == Spec => []ManagerUnderStore
<1>1. IInv => ManagerUnderStore
  BY DEF IInv, MgrHeld, StoreHeld, ManagerUnderStore
<1> QED BY <1>1, InvariantHolds, PTL

\* Who holds the store's and the application's lock, and at which places.
PlacesInv ==
    /\ pc[Main] \in MainPC /\ \A w \in Workers : pc[w] \in WorkerPC
    /\ storeLock \in Workers \union {Nobody} /\ appLock \in {Main, Nobody}
    /\ \A w \in Workers : storeLock = w =>
         pc[w] \in {"checkOutEntry", "checkInEntry", "update", "move", "add", "addTimer", "exited"}

\* A step of a request gives back each lock it leaves.
LEMMA PlacesWorker ==
    ASSUME IInv, PlacesInv, NEW w \in Workers, WorkerStep(w) \/ FailureStep(w)
    PROVE  PlacesInv'
<1> USE ThreadsAssumption
    DEF PlacesInv, Threads, TypeOK, WorkerPC, MainPC, Goto, Finish, CheckInDone,
        store, manager, timers, life, app, locks, control
<1>0. TypeOK /\ (pc[w] \in {"checkOutEntry", "checkInEntry", "update", "move", "add", "addTimer"}
                   => storeLock = w)
  BY DEF IInv, StoreHeld
<1>1. CASE Create(w)
  BY <1>0, <1>1 DEF Create
<1>2. CASE Created(w)
  BY <1>0, <1>2 DEF Created
<1>3. CASE CreateNil(w)
  BY <1>0, <1>3 DEF CreateNil
<1>4. CASE CreateRaises(w)
  BY <1>0, <1>4 DEF CreateRaises
<1>5. CASE Restore(w)
  BY <1>0, <1>5 DEF Restore
<1>6. CASE Refuse(w)
  BY <1>0, <1>6 DEF Refuse
<1>7. CASE Terminate(w)
  BY <1>0, <1>7 DEF Terminate
<1>8. CASE LockStore(w)
  BY <1>0, <1>8 DEF LockStore
<1>9. CASE CheckOut(w)
  BY <1>0, <1>9 DEF CheckOut
<1>10. CASE Mark(w)
  BY <1>0, <1>10 DEF Mark
<1>11. CASE Discount(w)
  BY <1>0, <1>11 DEF Discount
<1>12. CASE AfterDiscount(w)
  BY <1>0, <1>12 DEF AfterDiscount
<1>13. CASE Save(w)
  BY <1>0, <1>13 DEF Save
<1>14. CASE CheckIn(w)
  BY <1>0, <1>14 DEF CheckIn
<1>15. CASE Update(w)
  BY <1>0, <1>15 DEF Update
<1>16. CASE Move(w)
  BY <1>0, <1>16 DEF Move
<1>17. CASE Add(w)
  BY <1>0, <1>17 DEF Add
<1>18. CASE AddTimer(w)
  BY <1>0, <1>18 DEF AddTimer
<1>19. CASE AfterRefuse(w)
  BY <1>0, <1>19 DEF AfterRefuse
<1>20. CASE MgrLockFails(w)
  BY <1>0, <1>20 DEF MgrLockFails
<1> QED BY <1>1, <1>2, <1>3, <1>4, <1>5, <1>6, <1>7, <1>8, <1>9, <1>10, <1>11, <1>12, <1>13,
   <1>14, <1>15, <1>16, <1>17, <1>18, <1>19, <1>20
   DEF WorkerStep, RequestStep, TerminateStep, FailureStep

\* So does a step of a timer of Main.
LEMMA PlacesMain ==
    ASSUME IInv, PlacesInv, MainStep
    PROVE  PlacesInv'
<1> USE ThreadsAssumption
    DEF PlacesInv, Threads, TypeOK, WorkerPC, MainPC, Goto,
        store, manager, timers, life, app, locks, control
<1>0. TypeOK
  BY DEF IInv
<1>1. CASE FireTimer
  BY <1>0, <1>1 DEF FireTimer
<1>2. CASE HandleTimer
  BY <1>0, <1>2 DEF HandleTimer
<1>3. CASE Scan
  BY <1>0, <1>3 DEF Scan
<1>4. CASE ScanRaises
  BY <1>0, <1>4 DEF ScanRaises, UnlockApp
<1>5. CASE Expire
  BY <1>0, <1>5 DEF Expire, RemoveFromStore
<1>6. CASE Drop
  BY <1>0, <1>6 DEF Drop, DropEntry
<1>7. CASE EndScan
  BY <1>0, <1>7 DEF EndScan, UnlockApp
<1>8. CASE FireRefusal
  BY <1>0, <1>8 DEF FireRefusal
<1>9. CASE RefusalCheck
  BY <1>0, <1>9 DEF RefusalCheck
<1>10. CASE RefusalRemove
  BY <1>0, <1>10 DEF RefusalRemove, RemoveFromStore
<1>11. CASE RefusalDrop
  BY <1>0, <1>11 DEF RefusalDrop
<1>12. CASE RefusalDone
  BY <1>0, <1>12 DEF RefusalDone
<1>13. CASE FireKill
  BY <1>0, <1>13 DEF FireKill
<1>14. CASE KillLockApp
  BY <1>0, <1>14 DEF KillLockApp
<1>15. CASE Kill
  BY <1>0, <1>15 DEF Kill
<1>16. CASE Mark(Main)
  BY <1>0, <1>16 DEF Mark
<1>17. CASE Discount(Main)
  BY <1>0, <1>17 DEF Discount
<1>18. CASE AfterDiscount(Main)
  BY <1>0, <1>18 DEF AfterDiscount
<1> QED BY <1>1, <1>2, <1>3, <1>4, <1>5, <1>6, <1>7, <1>8, <1>9, <1>10, <1>11, <1>12, <1>13,
   <1>14, <1>15, <1>16, <1>17, <1>18
   DEF MainStep, TimerStep, RefusalStep, TerminateStep

\* A set of threads that wait for each other is the known one.
LEMMA DeadlockIsKnown ==
    ASSUME IInv, PlacesInv
    PROVE  OnlyDeadlock
<1> USE ThreadsAssumption DEF Threads
<1> SUFFICES ASSUME NEW S \in SUBSET Threads, Deadlocked(S)
             PROVE  /\ Main \in S /\ pc[Main] = "expire"
                    /\ \E w \in S : storeLock = w /\ pc[w] = "addTimer"
  BY DEF OnlyDeadlock
<1>1. /\ S # {} /\ \A t \in S : \E u \in S : WaitsFor(t, u)
      /\ S \subseteq Workers \union {Main}
  BY DEF Deadlocked
\* Who holds the store waits for Main at most, and only to add a timer.
<1>2. ASSUME NEW t \in S, NEW u \in S, WaitsFor(t, u), storeLock = t
      PROVE  u = Main /\ appLock = Main /\ pc[t] = "addTimer" /\ t \in Workers
  BY <1>1, <1>2 DEF WaitsFor, PlacesInv
<1>3. Main \in S
  <2>1. CASE \E t \in S : storeLock = t
    BY <1>1, <1>2, <2>1
  <2>2. CASE ~ \E t \in S : storeLock = t
    <3>1. \A t \in S, u \in S : WaitsFor(t, u) => u = Main
      BY <1>1, <2>2 DEF WaitsFor, PlacesInv
    <3> QED BY <1>1, <3>1
  <2> QED BY <2>1, <2>2
<1>4. PICK w \in S : WaitsFor(Main, w)
  BY <1>1, <1>3
<1>5. storeLock = w /\ w \in Workers /\ pc[Main] \in {"expire", "refusalLoop"}
  BY <1>1, <1>4 DEF WaitsFor, PlacesInv, MainPC
<1>6. pc[w] = "addTimer"
  BY <1>1, <1>2, <1>5
<1>7. pc[Main] # "refusalLoop"
  BY <1>5, <1>6 DEF IInv, MgrHeld
<1> QED BY <1>3, <1>5, <1>6, <1>7

\* Of the three locks, held and waited for by any number of request threads and by
\* the timers, only one deadlock can come: a check-in holds the store's lock and
\* waits for the application's, to add a timer, while handleTimer holds that one
\* and waits for the store's, to expire an entry.
THEOREM NoOtherDeadlock == Spec => []OnlyDeadlock
<1>1. Init => PlacesInv
  BY ThreadsAssumption DEF Init, PlacesInv, Threads, WorkerPC, MainPC
<1>2. IInv /\ PlacesInv /\ [Next]_vars => PlacesInv'
  <2> SUFFICES ASSUME IInv, PlacesInv, [Next]_vars PROVE PlacesInv'
    OBVIOUS
  <2>1. CASE FallDue \/ UNCHANGED vars
    <3>1. UNCHANGED <<locks, control>>
      BY <2>1 DEF FallDue, vars
    <3> QED BY <3>1 DEF PlacesInv, locks, control
  <2> QED BY <2>1, PlacesWorker, PlacesMain DEF Next
<1>3. IInv /\ PlacesInv => OnlyDeadlock
  BY DeadlockIsKnown
<1> QED BY <1>1, <1>2, <1>3, InvariantHolds, PTL DEF Spec

(***************************************************************************)
(* handleTimer: comes to an end.                                           *)
(***************************************************************************)
\* The steps of the scan that are left: those for the entries before the index
\* and those for the entry at hand.
ToScan ==
    6 * index + CASE pc[Main] = "scan" -> 5
                  [] pc[Main] = "expire" -> 4
                  [] pc[Main] = "drop" -> 3
                  [] pc[Main] = "marking" -> 8
                  [] pc[Main] = "discounting" -> 7
                  [] OTHER -> 6

\* Requests leave the scan where it is.
LEMMA WorkersLeaveScan ==
    ASSUME TypeOK, NEW w \in Workers, WorkerStep(w) \/ FailureStep(w)
    PROVE  pc'[Main] = pc[Main] /\ index' = index
<1> USE ThreadsAssumption DEF Threads, TypeOK, Goto, Finish, CheckInDone, control
<1>1. CASE Create(w) \/ Created(w) \/ Restore(w) \/ Refuse(w) \/ Terminate(w) \/ AfterRefuse(w)
  BY <1>1 DEF Create, Created, Restore, Refuse, Terminate, AfterRefuse
<1>2. CASE LockStore(w) \/ CheckOut(w) \/ Save(w) \/ CheckIn(w)
  BY <1>2 DEF LockStore, CheckOut, Save, CheckIn
<1>3. CASE TerminateStep(w)
  BY <1>3 DEF TerminateStep, Mark, Discount, AfterDiscount
<1>4. CASE Update(w) \/ Move(w) \/ Add(w) \/ AddTimer(w)
  BY <1>4 DEF Update, Move, Add, AddTimer
<1>5. CASE FailureStep(w)
  BY <1>5 DEF FailureStep, CreateNil, CreateRaises, MgrLockFails
<1> QED BY <1>1, <1>2, <1>3, <1>4, <1>5 DEF WorkerStep, RequestStep

\* While requests change the array it scans, each step of handleTimer leaves fewer
\* to come, of which there is a natural number, or is its last one.  The loop of
\* the soft shutdown on the same array has no such bound.
THEOREM ScanComesToAnEnd ==
    Spec => [][InHandleTimer /\ InHandleTimer' =>
                  \/ pc'[Main] = pc[Main] /\ index' = index
                  \/ ToScan' \in Nat /\ ToScan' < ToScan]_vars
<1>1. TypeOK /\ TypeOK' /\ [Next]_vars =>
        [InHandleTimer /\ InHandleTimer' =>
            \/ pc'[Main] = pc[Main] /\ index' = index
            \/ ToScan' \in Nat /\ ToScan' < ToScan]_vars
  <2> SUFFICES ASSUME TypeOK, TypeOK', Next, InHandleTimer, InHandleTimer'
               PROVE  \/ pc'[Main] = pc[Main] /\ index' = index
                      \/ ToScan' \in Nat /\ ToScan' < ToScan
    OBVIOUS
  <2>1. /\ index \in Nat /\ index' \in Nat /\ Main \in Threads /\ Main \notin Workers
        /\ pc \in [Threads -> WorkerPC \union MainPC]
    BY ThreadsAssumption DEF TypeOK, Threads
  <2>2. CASE \E w \in Workers : WorkerStep(w) \/ FailureStep(w)
    BY <2>2, WorkersLeaveScan
  <2>3. CASE FallDue
    BY <2>3 DEF FallDue, control
  <2>4. CASE TimerStep
    <3>1. CASE FireTimer \/ HandleTimer
      BY <2>1, <3>1 DEF FireTimer, HandleTimer, InHandleTimer
    <3>2. CASE ScanRaises \/ EndScan
      BY <2>1, <3>2 DEF ScanRaises, EndScan, InHandleTimer, Goto
    <3>3. CASE Scan
      BY <2>1, <3>3 DEF Scan, Goto, ToScan
    <3>4. CASE Expire
      BY <2>1, <3>4 DEF Expire, Goto, ToScan
    <3>5. CASE Drop
      BY <2>1, <3>5 DEF Drop, Goto, ToScan
    <3> QED BY <2>4, <3>1, <3>2, <3>3, <3>4, <3>5 DEF TimerStep
  <2>5. CASE RefusalStep
    <3>1. CASE FireRefusal \/ RefusalCheck \/ RefusalRemove \/ RefusalDrop \/ RefusalDone
      BY <2>1, <3>1 DEF FireRefusal, RefusalCheck, RefusalRemove, RefusalDrop, RefusalDone,
         InHandleTimer
    <3>2. CASE FireKill \/ KillLockApp \/ Kill
      BY <2>1, <3>2 DEF FireKill, KillLockApp, Kill, InHandleTimer
    <3> QED BY <2>5, <3>1, <3>2 DEF RefusalStep
  <2>6. CASE TerminateStep(Main)
    <3>1. CASE Mark(Main)
      BY <2>1, <3>1 DEF Mark, Goto, control, ToScan
    <3>2. CASE Discount(Main)
      BY <2>1, <3>2 DEF Discount, Goto, ToScan
    <3>3. CASE AfterDiscount(Main)
      BY <2>1, <3>3 DEF AfterDiscount, Goto, InHandleTimer, ToScan
    <3> QED BY <2>6, <3>1, <3>2, <3>3 DEF TerminateStep
  <2> QED BY <2>2, <2>3, <2>4, <2>5, <2>6 DEF Next, MainStep
<1> QED BY <1>1, TypeCorrect, PTL DEF Spec

(***************************************************************************)
(* An application without threads: one thread at a time is at work.        *)
(***************************************************************************)
OneActive ==
    \/ \A t \in Threads : pc[t] = "exited"
    \/ \A t, u \in Threads : pc[t] # "idle" /\ pc[u] # "idle" => t = u

\* A timer of Main is in terminate, or has the manager's lock, for the refusal.
InTerminate == pc[Main] \in {"marking", "discounting", "discounted"}
MainHolds ==
    mgrLock = Main => pc[Main] \in {"refusalCheck", "refusalLoop", "refusalDrop", "exited"} \/ InTerminate

\* Sessions in the store, in a request or in terminate were created.
KnownInv ==
    /\ sessions \subseteq created /\ terminating \subseteq created
    /\ \A w \in Workers :
         /\ pc[w] \notin {"idle", "creating", "refused", "exited"} => sess[w] \in created
         /\ pc[w] \in {"checkOut", "checkOutEntry"} => sess[w] \in sessions
    /\ \A t \in Threads : pc[t] = "marking" => sess[t] \in created \ terminating
    /\ pc[Main] = "drop" => sess[Main] \in created \union {NoSession}

\* What is in the store has an entry; what is dropped is not in the store.
StoredInv ==
    /\ \A s \in sessions : dict[s] # NoEntry
    /\ pc[Main] \in {"drop", "refusalDrop"} \/ (InTerminate /\ mgrLock = Main)
         => ent[Main] \in Entries /\ entry[ent[Main]].sid \notin sessions

\* The index of the scan is in the array, at the entry that expires.
ScanInv ==
    /\ pc[Main] = "scan" \/ (InTerminate /\ mgrLock # Main) => index <= Len(order)
    /\ pc[Main] \in {"expire", "drop"} => index \in DOMAIN order /\ ent[Main] = order[index]

TimerInv ==
    /\ timer = "made" => \E w \in Workers : pc[w] = "addTimer"
    /\ order # <<>> /\ timer # "set" =>
         \/ \E w \in Workers : pc[w] \in {"update", "move", "add", "addTimer"}
         \/ pc[Main] \in {"fired", "scan", "expire", "drop", "exited"}
         \/ InTerminate /\ mgrLock # Main

RefusalInv ==
    refusing /\ count <= MinActive =>
        \/ appTerminating \/ pc[Main] = "exited"
        \/ \E w \in Workers : pc[w] = "refused"
        \/ \E t \in Threads : pc[t] = "discounted" /\ low[t]

SerialInv ==
    /\ IInv /\ OneActive /\ MainHolds /\ KnownInv /\ StoredInv /\ ScanInv /\ TimerInv /\ RefusalInv
    /\ IsFiniteSet(created) /\ CountIsExact

\* How many threads are at a label, when at most one is at work.
LEMMA AtLabel ==
    ASSUME NEW S, NEW f, NEW t, NEW label, \A u \in S \ {t} : f[u] # label
    PROVE  Cardinality({u \in S : f[u] = label}) = IF t \in S /\ f[t] = label THEN 1 ELSE 0
<1>1. CASE t \in S /\ f[t] = label
  <2>1. {u \in S : f[u] = label} = {t}
    BY <1>1
  <2> QED BY <1>1, <2>1, FS_Singleton
<1>2. CASE ~(t \in S /\ f[t] = label)
  <2>1. {u \in S : f[u] = label} = {}
    BY <1>2
  <2> QED BY <1>2, <2>1, FS_EmptySet
<1> QED BY <1>1, <1>2

\* The count, when only t is at work.
Counted(t, n, living, f) ==
    n = Cardinality(living) + (IF t \in Workers /\ f[t] = "creating" THEN 1 ELSE 0)
                            + (IF f[t] = "discounting" THEN 1 ELSE 0)

OthersRest(t, f) == \A u \in Threads \ {t} : f[u] \in {"idle", "exited"}

\* Who is at the labels that the count tells apart, when only t is at work.
LEMMA AtLabels ==
    ASSUME NEW t \in Threads, NEW f, OthersRest(t, f)
    PROVE  /\ Cardinality({w \in Workers : f[w] = "creating"})
                = IF t \in Workers /\ f[t] = "creating" THEN 1 ELSE 0
           /\ Cardinality({u \in Threads : f[u] = "discounting"})
                = IF f[t] = "discounting" THEN 1 ELSE 0
<1>1. \A u \in Workers \ {t} : f[u] # "creating"
  BY DEF Threads, OthersRest
<1>2. \A u \in Threads \ {t} : f[u] # "discounting"
  BY DEF OthersRest
<1>3. Cardinality({w \in Workers : f[w] = "creating"})
        = IF t \in Workers /\ f[t] = "creating" THEN 1 ELSE 0
  BY <1>1, AtLabel
<1>4. Cardinality({u \in Threads : f[u] = "discounting"})
        = IF t \in Threads /\ f[t] = "discounting" THEN 1 ELSE 0
  <2> DEFINE S == Threads
  <2>1. \A u \in S \ {t} : f[u] # "discounting"
    BY <1>2
  <2> HIDE DEF S
  <2>2. Cardinality({u \in S : f[u] = "discounting"})
          = IF t \in S /\ f[t] = "discounting" THEN 1 ELSE 0
    BY <2>1, AtLabel
  <2> QED BY <2>2 DEF S
<1> QED BY <1>3, <1>4

\* The count of CountIsExact, when only t is at work.
LEMMA CountOf ==
    ASSUME NEW t \in Threads, NEW f, NEW n, NEW living, OthersRest(t, f)
    PROVE  n = Cardinality(living)
               + Cardinality({w \in Workers : f[w] = "creating"})
               + Cardinality({u \in Threads : f[u] = "discounting"})
           <=> Counted(t, n, living, f)
BY AtLabels DEF Counted

\* A step of one thread that is the only one at work keeps the count, if what it
\* adds to the sessions that live and to the labels is what it adds to the count.
LEMMA CountStep ==
    ASSUME SerialInv, NEW t \in Threads, OthersIdle(t),
           OthersRest(t, pc'),
           IsFiniteSet(created'), Counted(t, count, created \ terminating, pc)
             => Counted(t, count', created' \ terminating', pc')
    PROVE  IsFiniteSet(created') /\ CountIsExact'
<1>1. OthersRest(t, pc)
  BY DEF OthersIdle, OthersRest
<1>2. Counted(t, count, created \ terminating, pc)
  BY <1>1, CountOf DEF SerialInv, CountIsExact
<1>3. Counted(t, count', created' \ terminating', pc')
  BY <1>2
<1> QED BY <1>3, CountOf DEF CountIsExact

\* A step of a request is one of its own thread.
LEMMA WorkerFrame ==
    ASSUME TypeOK, NEW w \in Workers, WorkerStep(w), NEW u \in Threads \ {w}
    PROVE  pc'[u] = pc[u] /\ sess'[u] = sess[u] /\ low'[u] = low[u]
<1> USE DEF TypeOK, Goto, Finish, CheckInDone, control
<1>1. CASE Create(w)
  BY <1>1 DEF Create
<1>2. CASE Created(w)
  BY <1>2 DEF Created
<1>3. CASE Restore(w)
  BY <1>3 DEF Restore
<1>4. CASE Refuse(w)
  BY <1>4 DEF Refuse
<1>5. CASE Terminate(w)
  BY <1>5 DEF Terminate
<1>6. CASE LockStore(w)
  BY <1>6 DEF LockStore
<1>7. CASE CheckOut(w)
  BY <1>7 DEF CheckOut
<1>8. CASE Mark(w)
  BY <1>8 DEF Mark
<1>9. CASE Discount(w)
  BY <1>9 DEF Discount
<1>10. CASE AfterDiscount(w)
  BY <1>10 DEF AfterDiscount
<1>11. CASE Save(w)
  BY <1>11 DEF Save
<1>12. CASE CheckIn(w)
  BY <1>12 DEF CheckIn
<1>13. CASE Update(w)
  BY <1>13 DEF Update
<1>14. CASE Move(w)
  BY <1>14 DEF Move
<1>15. CASE Add(w)
  BY <1>15 DEF Add
<1>16. CASE AddTimer(w)
  BY <1>16 DEF AddTimer
<1>17. CASE AfterRefuse(w)
  BY <1>17 DEF AfterRefuse
<1> QED BY <1>1, <1>2, <1>3, <1>4, <1>5, <1>6, <1>7, <1>8, <1>9, <1>10, <1>11, <1>12, <1>13,
   <1>14, <1>15, <1>16, <1>17 DEF WorkerStep, RequestStep, TerminateStep

\* While the request of w runs, the steps of w keep the invariant.
LEMMA SerialWorker ==
    ASSUME SerialInv, NEW w \in Workers, OthersIdle(w), WorkerStep(w), IInv'
    PROVE  SerialInv'
<1> USE ThreadsAssumption, ValuesAssumption DEF Threads
<1>1. /\ w \in Threads /\ Main \in Threads /\ w # Main
      /\ \A u \in Threads \ {w} : pc[u] = "idle" /\ pc'[u] = "idle"
      /\ pc[Main] = "idle" /\ pc'[Main] = "idle"
  BY WorkerFrame DEF SerialInv, IInv, OthersIdle
<1>2. OneActive'
  BY <1>1 DEF OneActive
<1>3. ScanInv'
  BY <1>1 DEF ScanInv, InTerminate
<1>4. mgrLock # Main
  BY <1>1 DEF SerialInv, MainHolds, InTerminate
<1>5. TypeOK /\ KnownInv /\ TimerInv /\ RefusalInv /\ SessKnown /\ \A s \in sessions : dict[s] # NoEntry
  BY DEF SerialInv, IInv, StoredInv
<1>6. /\ mgrLock' # Main /\ KnownInv' /\ TimerInv' /\ RefusalInv'
      /\ \A s \in sessions' : dict'[s] # NoEntry
  <2>1. CASE Create(w)
    BY <2>1, <1>1, <1>4, <1>5 DEF Create, Goto, TypeOK, store, manager, timers, life, app,
       locks, control, KnownInv, TimerInv, InTerminate, RefusalInv
  <2>2. CASE Created(w)
    BY <2>2, <1>1, <1>4, <1>5 DEF Created, Goto, TypeOK, store, manager, timers, life, app,
       locks, control, KnownInv, TimerInv, InTerminate, RefusalInv
  <2>3. CASE Restore(w)
    BY <2>3, <1>1, <1>4, <1>5 DEF Restore, Goto, TypeOK, store, manager, timers, life, app,
       locks, control, KnownInv, TimerInv, InTerminate, RefusalInv
  <2>4. CASE Refuse(w)
    BY <2>4, <1>1, <1>4, <1>5 DEF Refuse, Goto, TypeOK, store, manager, timers, life, app,
       locks, control, KnownInv, TimerInv, InTerminate, RefusalInv
  <2>5. CASE Terminate(w)
    BY <2>5, <1>1, <1>4, <1>5 DEF Terminate, Goto, TypeOK, store, manager, timers, life, app,
       locks, control, KnownInv, TimerInv, InTerminate, RefusalInv
  <2>6. CASE LockStore(w)
    BY <2>6, <1>1, <1>4, <1>5 DEF LockStore, Goto, TypeOK, store, manager, timers, life, app,
       locks, control, KnownInv, TimerInv, InTerminate, RefusalInv
  <2>7. CASE CheckOut(w)
    <3> USE <2>7 DEF CheckOut, Goto, FindOrEnter, Finish, TypeOK, store, manager, timers, life,
       app, locks, control
    <3>1. mgrLock' # Main
      BY <1>1, <1>4
    <3>2. \A s \in sessions' : dict'[s] # NoEntry
      BY <1>5
    <3>3. KnownInv'
      BY <1>1, <1>5 DEF KnownInv
    <3>4. TimerInv'
      <4>1. dict[sess[w]] # NoEntry
        BY <1>5 DEF KnownInv
      <4>2. /\ order' = order /\ UNCHANGED timers
            /\ pc[w] = "checkOutEntry" /\ pc'[w] \in {"idle", "inUse"}
        BY <1>5, <4>1
      <4> HIDE <2>7 DEF CheckOut
      <4> QED BY <1>1, <1>5, <4>2 DEF TimerInv, InTerminate
    <3>5. RefusalInv'
      BY <1>1, <1>5 DEF RefusalInv
    <3> QED BY <3>1, <3>2, <3>3, <3>4, <3>5
  <2>8. CASE Mark(w)
    BY <2>8, <1>1, <1>4, <1>5 DEF Mark, Goto, TypeOK, store, manager, timers, life, app, locks,
       control, KnownInv, TimerInv, InTerminate, RefusalInv
  <2>9. CASE Discount(w)
    BY <2>9, <1>1, <1>4, <1>5 DEF Discount, Goto, TypeOK, store, manager, timers, life, app,
       locks, control, KnownInv, TimerInv, InTerminate, RefusalInv
  <2>10. CASE AfterDiscount(w)
    BY <2>10, <1>1, <1>4, <1>5 DEF AfterDiscount, Goto, TypeOK, store, manager, timers, life,
       app, locks, control, KnownInv, TimerInv, InTerminate, RefusalInv
  <2>11. CASE Save(w)
    BY <2>11, <1>1, <1>4, <1>5 DEF Save, Goto, TypeOK, store, manager, timers, life, app, locks,
       control, KnownInv, TimerInv, InTerminate, RefusalInv
  <2>12. CASE CheckIn(w)
    <3> USE <2>12 DEF CheckIn, Goto, FindOrEnter, TypeOK, store, manager, timers, life, app,
       locks, control
    <3>1. mgrLock' # Main
      BY <1>1, <1>4
    <3>2. \A s \in sessions' : dict'[s] # NoEntry
      <4>1. sess[w] \in Sessions /\ mgrLock = Nobody
        BY <1>5 DEF SessKnown
      <4>2. PICK e \in Entries : FindOrEnter(sess[w], e)
        OBVIOUS
      <4>3. dict'[sess[w]] = e /\ \A s \in Sessions \ {sess[w]} : dict'[s] = dict[s]
        BY <4>1, <4>2, FindOrEnterProps DEF SerialInv
      <4>4. sessions' \subseteq sessions \union {sess[w]} /\ sessions \subseteq Sessions
        BY <1>5
      <4> HIDE <2>12 DEF CheckIn
      <4> QED BY <1>5, <4>3, <4>4
    <3>3. KnownInv'
      BY <1>1, <1>5 DEF KnownInv
    <3>4. TimerInv'
      BY <1>1, <1>5 DEF TimerInv, InTerminate
    <3>5. RefusalInv'
      BY <1>1, <1>5 DEF RefusalInv
    <3> QED BY <3>1, <3>2, <3>3, <3>4, <3>5
  <2>13. CASE Update(w)
    BY <2>13, <1>1, <1>4, <1>5 DEF Update, Goto, FindOrEnter, TypeOK, store, manager, timers,
       life, app, locks, control, KnownInv, TimerInv, InTerminate, RefusalInv
  <2>14. CASE Move(w)
    BY <2>14, <1>1, <1>4, <1>5 DEF Move, Goto, TypeOK, store, manager, timers, life, app, locks,
       control, KnownInv, TimerInv, InTerminate, RefusalInv
  <2>15. CASE Add(w)
    BY <2>15, <1>1, <1>4, <1>5 DEF Add, Goto, MayReset, CheckInDone, Finish, TypeOK, store,
       manager, timers, life, app, locks, control, KnownInv, TimerInv, InTerminate, RefusalInv
  <2>16. CASE AddTimer(w)
    BY <2>16, <1>1, <1>4, <1>5 DEF AddTimer, Goto, CheckInDone, Finish, TypeOK, store, manager,
       timers, life, app, locks, control, KnownInv, TimerInv, InTerminate, RefusalInv
  <2>17. CASE AfterRefuse(w)
    BY <2>17, <1>1, <1>4, <1>5 DEF AfterRefuse, Goto, TypeOK, store, manager, timers, life, app,
       locks, control, KnownInv, TimerInv, InTerminate, RefusalInv
  <2> QED BY <2>1, <2>2, <2>3, <2>4, <2>5, <2>6, <2>7, <2>8, <2>9, <2>10, <2>11, <2>12, <2>13,
     <2>14, <2>15, <2>16, <2>17 DEF WorkerStep, RequestStep, TerminateStep
<1>7. MainHolds' /\ StoredInv'
  BY <1>1, <1>6 DEF MainHolds, StoredInv, InTerminate
<1>8. /\ IsFiniteSet(created')
      /\ Counted(w, count, created \ terminating, pc)
           => Counted(w, count', created' \ terminating', pc')
  <2> USE DEF Counted, Goto, Finish, CheckInDone, TypeOK, store, manager, timers, life, app,
     locks, control
  <2>1. created \ terminating \subseteq created /\ IsFiniteSet(created)
        /\ IsFiniteSet(created \ terminating)
        /\ Cardinality(created \ terminating) \in Nat
    BY FS_Subset, FS_CardinalityType DEF SerialInv
  <2>2. CASE Created(w)
    <3>1. PICK s \in Sessions \ created : created' = created \union {s}
      BY <2>2 DEF Created
    <3>2. created' \ terminating' = (created \ terminating) \union {s} /\ s \notin created \ terminating
      BY <1>5, <2>2, <3>1 DEF Created, KnownInv
    <3>3. /\ IsFiniteSet(created')
          /\ Cardinality(created' \ terminating') = Cardinality(created \ terminating) + 1
      BY <2>1, <3>1, <3>2, FS_AddElement
    <3>4. /\ count' = count /\ count \in Int /\ w \in Workers
          /\ pc[w] = "creating" /\ pc'[w] = "inUse"
      BY <1>1, <1>5, <2>2 DEF Created
    <3> QED BY <2>1, <3>3, <3>4
  <2>3. CASE Mark(w)
    <3>1. sess[w] \in created \ terminating /\ created' = created
          /\ created' \ terminating' = (created \ terminating) \ {sess[w]}
      BY <1>1, <1>5, <2>3 DEF Mark, KnownInv
    <3>2. Cardinality(created' \ terminating') = Cardinality(created \ terminating) - 1
      BY <2>1, <3>1, FS_RemoveElement
    <3>3. /\ count' = count /\ count \in Int
          /\ pc[w] = "marking" /\ pc'[w] = "discounting"
      BY <1>1, <1>5, <2>3 DEF Mark
    <3> QED BY <2>1, <3>1, <3>2, <3>3
  <2>4. CASE Create(w)
    BY <1>1, <1>5, <2>1, <2>4 DEF Create
  <2>5. CASE Discount(w)
    BY <1>1, <1>5, <2>1, <2>5 DEF Discount
  <2>6. CASE ~(Created(w) \/ Mark(w) \/ Create(w) \/ Discount(w))
    <3>1. /\ UNCHANGED <<created, terminating, count>>
          /\ pc[w] \notin {"creating", "discounting"} /\ pc'[w] \notin {"creating", "discounting"}
      BY <1>1, <1>5, <2>6 DEF WorkerStep, RequestStep, TerminateStep, Restore, Refuse, Terminate,
         LockStore, CheckOut, AfterDiscount, Save, CheckIn, Update, Move, Add, AddTimer, AfterRefuse
    <3> QED BY <1>1, <2>1, <3>1
  <2> QED BY <2>2, <2>3, <2>4, <2>5, <2>6
<1>9. CountIsExact'
  <2>1. w \in Threads /\ OthersRest(w, pc')
    BY <1>1 DEF OthersRest
  <2> HIDE DEF Threads
  <2> QED BY <1>8, <2>1, CountStep
<1> QED BY <1>1, <1>2, <1>3, <1>6, <1>7, <1>8, <1>9 DEF SerialInv

\* The length of an array without one of its objects.
LEMMA WithoutLen ==
    ASSUME NEW S, NEW seq \in Seq(S), NEW e
    PROVE  /\ (\E i \in DOMAIN seq : seq[i] = e) => Len(Without(seq, e)) = Len(seq) - 1
           /\ Without(seq, e) # <<>> => seq # <<>>
<1>1. CASE ~ \E i \in DOMAIN seq : seq[i] = e
  BY <1>1 DEF Without
<1>2. CASE \E i \in DOMAIN seq : seq[i] = e
  <2> DEFINE k == CHOOSE i \in DOMAIN seq : seq[i] = e
  <2>1. k \in 1 .. Len(seq)
    BY <1>2
  <2>2. Without(seq, e) = RemoveAt(seq, k)
    BY <1>2 DEF Without
  <2> HIDE DEF k
  <2> QED BY <2>1, <2>2, RemoveAtProps
<1> QED BY <1>1, <1>2

\* While a timer of Main runs, its steps keep the invariant.
LEMMA SerialMain ==
    ASSUME SerialInv, OthersIdle(Main), MainStep, IInv'
    PROVE  SerialInv'
<1> USE ThreadsAssumption, ValuesAssumption DEF Threads
<1>1. /\ \A w \in Workers : pc[w] = "idle"
      /\ Main \in Threads /\ Main \notin Workers
  BY DEF OthersIdle
<1>2. /\ TypeOK /\ KnownInv /\ TimerInv /\ RefusalInv /\ StoredInv /\ ScanInv /\ MainHolds
      /\ TypeOK'
  BY DEF SerialInv, IInv
<1>3. /\ EntKnown /\ SessKnown /\ \A w \in Workers : mgrLock # w
      /\ pc[Main] \in {"refusalCheck", "refusalLoop", "refusalDrop"} => mgrLock = Main
  BY <1>1 DEF SerialInv, IInv, MgrHeld
<1>4. timer # "made"
  BY <1>1, <1>2 DEF TimerInv
<1>5. Kill \/ /\ \A w \in Workers : pc'[w] = "idle"
              /\ MainHolds' /\ KnownInv' /\ StoredInv' /\ ScanInv' /\ TimerInv' /\ RefusalInv'
  <2>1. CASE FireTimer
    BY <2>1, <1>1, <1>2, <1>3, <1>4 DEF FireTimer, Goto, TypeOK, store, manager, timers, life,
       app, locks, control, MainHolds, InTerminate, KnownInv, StoredInv, ScanInv, TimerInv,
       RefusalInv
  <2>2. CASE HandleTimer
    BY <2>2, <1>1, <1>2, <1>3, <1>4 DEF HandleTimer, Goto, TypeOK, store, manager, timers, life,
       app, locks, control, MainHolds, InTerminate, KnownInv, StoredInv, ScanInv, TimerInv,
       RefusalInv
  <2>3. CASE Scan
    BY <2>3, <1>1, <1>2, <1>3, <1>4 DEF Scan, Goto, TypeOK, store, manager, timers, life, app,
       locks, control, MainHolds, InTerminate, KnownInv, StoredInv, ScanInv, TimerInv,
       RefusalInv
  <2>4. CASE ScanRaises
    BY <2>4, <1>1, <1>2, <1>3 DEF ScanRaises, Goto, UnlockApp, TypeOK, store, manager, timers,
       life, app, locks, control, MainHolds, InTerminate, KnownInv, StoredInv, ScanInv,
       RefusalInv
  <2>5. CASE Expire
    <3> USE <2>5 DEF Expire, Goto, RemoveFromStore, TypeOK, store, manager, timers, life, app,
       locks, control
    <3>1. \A w \in Workers : pc'[w] = "idle"
      BY <1>1, <1>2
    <3>2. MainHolds'
      BY <1>2, <1>3 DEF MainHolds, InTerminate
    <3>3. KnownInv'
      BY <1>1, <1>2, <1>3, <3>1 DEF KnownInv
    <3>4. StoredInv'
      <4>1. order[index] \in Entries /\ ent[Main] = order[index]
        BY <1>2 DEF ScanInv
      <4> QED BY <1>2, <4>1 DEF StoredInv, InTerminate
    <3>5. ScanInv'
      BY <1>2, <1>3 DEF ScanInv, InTerminate, MainHolds
    <3>6. TimerInv'
      BY <1>1, <1>2, <1>3, <1>4, <3>1 DEF TimerInv, InTerminate
    <3>7. RefusalInv'
      BY <1>1, <1>2, <3>1 DEF RefusalInv
    <3> QED BY <3>1, <3>2, <3>3, <3>4, <3>5, <3>6, <3>7
  <2>6. CASE Drop
    <3> USE <2>6 DEF Drop, Goto, DropEntry, TypeOK, store, manager, timers, life, app, locks,
       control
    <3>1. \A w \in Workers : pc'[w] = "idle"
      BY <1>1, <1>2
    <3>2. MainHolds'
      BY <1>2, <1>3 DEF MainHolds, InTerminate
    <3>3. KnownInv'
      BY <1>1, <1>2, <1>3, <3>1 DEF KnownInv
    <3>a. /\ ent[Main] \in Entries /\ entry[ent[Main]].sid \notin sessions
          /\ \A s \in sessions : s # entry[ent[Main]].sid /\ s \in Sessions
      BY <1>2, <1>3 DEF StoredInv, InTerminate
    <3>b. /\ Len(order') = Len(Without(order, ent[Main])) /\ order \in Seq(Entries)
          /\ order' # <<>> => order # <<>>
      BY <1>2, WithoutLen
    <3>4. StoredInv'
      <4>1. \A s \in sessions' : dict'[s] # NoEntry
        BY <1>2, <3>a DEF StoredInv
      <4>2. mgrLock' # Main /\ pc'[Main] \in {"scan", "marking"}
        BY <1>2, <1>3 DEF MainHolds, InTerminate
      <4> QED BY <4>1, <4>2 DEF StoredInv, InTerminate, MainHolds
    <3>5. ScanInv'
      <4>1. index \in DOMAIN order /\ ent[Main] = order[index]
        BY <1>2 DEF ScanInv
      <4>2. Len(order') = Len(order) - 1
        BY <1>2, <4>1, WithoutLen
      <4> QED BY <1>2, <4>1, <4>2 DEF ScanInv, InTerminate
    <3>6. TimerInv'
      <4>1. order' # <<>> => order # <<>>
        BY <3>b
      <4>2. timer' = timer
        OBVIOUS
      <4>3. mgrLock # Main /\ mgrLock' # Main /\ pc'[Main] \in {"scan", "marking"}
        BY <1>2, <1>3 DEF MainHolds, InTerminate
      <4> QED BY <1>1, <1>2, <1>4, <4>1, <4>2, <4>3 DEF TimerInv, InTerminate, MainHolds
    <3>7. RefusalInv'
      BY <1>1, <1>2, <3>1 DEF RefusalInv
    <3> QED BY <3>1, <3>2, <3>3, <3>4, <3>5, <3>6, <3>7
  <2>7. CASE EndScan
    BY <2>7, <1>1, <1>2, <1>3, <1>4 DEF EndScan, Goto, UnlockApp, MayReset, TypeOK, store,
       manager, timers, life, app, locks, control, MainHolds, InTerminate, KnownInv, StoredInv,
       ScanInv, TimerInv, RefusalInv
  <2>8. CASE FireRefusal
    BY <2>8, <1>1, <1>2, <1>3, <1>4 DEF FireRefusal, Goto, TypeOK, store, manager, timers, life,
       app, locks, control, MainHolds, InTerminate, KnownInv, StoredInv, ScanInv, TimerInv,
       RefusalInv
  <2>9. CASE RefusalCheck
    BY <2>9, <1>1, <1>2, <1>3, <1>4 DEF RefusalCheck, Goto, TypeOK, store, manager, timers,
       life, app, locks, control, MainHolds, InTerminate, KnownInv, StoredInv, ScanInv,
       TimerInv, RefusalInv
  <2>10. CASE RefusalRemove
    <3> USE <2>10 DEF RefusalRemove, Goto, RemoveFromStore, TypeOK, store, manager, timers,
       life, app, locks, control
    <3>1. \A w \in Workers : pc'[w] = "idle"
      BY <1>1, <1>2
    <3>2. MainHolds'
      BY <1>2, <1>3 DEF MainHolds, InTerminate
    <3>3. KnownInv'
      BY <1>1, <1>2, <1>3, <3>1 DEF KnownInv
    <3>4. StoredInv'
      <4>1. Last(order) \in Entries
        BY <1>2 DEF Last
      <4>2. ent'[Main] = Last(order)
        BY <1>2
      <4>3. sessions' = sessions \ {entry[ent'[Main]].sid}
        OBVIOUS
      <4> QED BY <1>2, <4>1, <4>2, <4>3 DEF StoredInv, InTerminate
    <3>5. ScanInv'
      BY <1>2, <1>3 DEF ScanInv, InTerminate, MainHolds
    <3>6. TimerInv'
      BY <1>1, <1>2, <1>3, <1>4, <3>1 DEF TimerInv, InTerminate
    <3>7. RefusalInv'
      BY <1>1, <1>2, <3>1 DEF RefusalInv
    <3> QED BY <3>1, <3>2, <3>3, <3>4, <3>5, <3>6, <3>7
  <2>11. CASE RefusalDrop
    <3> USE <2>11 DEF RefusalDrop, Goto, DropEntry, TypeOK, store, manager, timers, life, app,
       locks, control
    <3>1. \A w \in Workers : pc'[w] = "idle"
      BY <1>1, <1>2
    <3>2. MainHolds'
      BY <1>2, <1>3 DEF MainHolds, InTerminate
    <3>3. KnownInv'
      BY <1>1, <1>2, <1>3, <3>1 DEF KnownInv
    <3>a. /\ ent[Main] \in Entries /\ entry[ent[Main]].sid \notin sessions
          /\ \A s \in sessions : s # entry[ent[Main]].sid /\ s \in Sessions
      BY <1>2, <1>3 DEF StoredInv, InTerminate
    <3>b. /\ Len(order') = Len(Without(order, ent[Main])) /\ order \in Seq(Entries)
          /\ order' # <<>> => order # <<>>
      BY <1>2, WithoutLen
    <3>4. StoredInv'
      <4>1. \A s \in sessions' : dict'[s] # NoEntry
        BY <1>2, <3>a DEF StoredInv
      <4>2. pc'[Main] = "refusalLoop"
        BY <1>2, <1>3 DEF MainHolds, InTerminate
      <4> QED BY <4>1, <4>2 DEF StoredInv, InTerminate, MainHolds
    <3>5. ScanInv'
      BY <1>2, <1>3 DEF ScanInv, InTerminate, MainHolds
    <3>6. TimerInv'
      <4>1. order' # <<>> => order # <<>>
        BY <3>b
      <4>2. timer' = timer
        OBVIOUS
      <4>3. pc[Main] = "refusalDrop" /\ mgrLock = Main
        BY <1>2, <1>3 DEF MainHolds, InTerminate
      <4> QED BY <1>1, <1>2, <1>4, <4>1, <4>2, <4>3 DEF TimerInv, InTerminate, MainHolds
    <3>7. RefusalInv'
      BY <1>1, <1>2, <3>1 DEF RefusalInv
    <3> QED BY <3>1, <3>2, <3>3, <3>4, <3>5, <3>6, <3>7
  <2>12. CASE RefusalDone
    BY <2>12, <1>1, <1>2, <1>3, <1>4 DEF RefusalDone, Goto, TypeOK, store, manager, timers,
       life, app, locks, control, MainHolds, InTerminate, KnownInv, StoredInv, ScanInv,
       TimerInv, RefusalInv
  <2>13. CASE FireKill
    BY <2>13, <1>1, <1>2, <1>3, <1>4 DEF FireKill, Goto, TypeOK, store, manager, timers, life,
       app, locks, control, MainHolds, InTerminate, KnownInv, StoredInv, ScanInv, TimerInv,
       RefusalInv
  <2>14. CASE KillLockApp
    BY <2>14, <1>1, <1>2, <1>3, <1>4 DEF KillLockApp, Goto, TypeOK, store, manager, timers,
       life, app, locks, control, MainHolds, InTerminate, KnownInv, StoredInv, ScanInv,
       TimerInv, RefusalInv
  <2>15. CASE Mark(Main)
    <3> USE <2>15 DEF Mark, Goto, TypeOK, store, manager, timers, life, app, locks, control
    <3>1. \A w \in Workers : pc'[w] = "idle"
      BY <1>1, <1>2
    <3>2. MainHolds'
      BY <1>2, <1>3 DEF MainHolds, InTerminate
    <3>3. KnownInv'
      BY <1>1, <1>2, <1>3, <3>1 DEF KnownInv
    <3>4. StoredInv'
      BY <1>2, <1>3 DEF StoredInv, InTerminate, MainHolds
    <3>5. ScanInv'
      BY <1>2, <1>3 DEF ScanInv, InTerminate, MainHolds
    <3>6. TimerInv'
      BY <1>1, <1>2, <1>3, <1>4, <3>1 DEF TimerInv, InTerminate
    <3>7. RefusalInv'
      BY <1>1, <1>2, <3>1 DEF RefusalInv
    <3> QED BY <3>1, <3>2, <3>3, <3>4, <3>5, <3>6, <3>7
  <2>16. CASE Discount(Main)
    <3> USE <2>16 DEF Discount, Goto, TypeOK, store, manager, timers, life, app, locks, control
    <3>1. \A w \in Workers : pc'[w] = "idle"
      BY <1>1, <1>2
    <3>2. MainHolds'
      BY <1>2, <1>3 DEF MainHolds, InTerminate
    <3>3. KnownInv'
      BY <1>1, <1>2, <1>3, <3>1 DEF KnownInv
    <3>4. StoredInv'
      BY <1>2, <1>3 DEF StoredInv, InTerminate, MainHolds
    <3>5. ScanInv'
      BY <1>2, <1>3 DEF ScanInv, InTerminate, MainHolds
    <3>6. TimerInv'
      BY <1>1, <1>2, <1>3, <1>4, <3>1 DEF TimerInv, InTerminate
    <3>7. RefusalInv'
      BY <1>1, <1>2, <3>1 DEF RefusalInv
    <3> QED BY <3>1, <3>2, <3>3, <3>4, <3>5, <3>6, <3>7
  <2>17. CASE AfterDiscount(Main)
    <3> USE <2>17 DEF AfterDiscount, Goto, TypeOK, store, manager, timers, life, app, locks, control
    <3>1. \A w \in Workers : pc'[w] = "idle"
      BY <1>1, <1>2
    <3>2. MainHolds'
      BY <1>2, <1>3 DEF MainHolds, InTerminate
    <3>3. KnownInv'
      BY <1>1, <1>2, <1>3, <3>1 DEF KnownInv
    <3>4. StoredInv'
      BY <1>2, <1>3 DEF StoredInv, InTerminate, MainHolds
    <3>5. ScanInv'
      BY <1>2, <1>3 DEF ScanInv, InTerminate, MainHolds
    <3>6. TimerInv'
      BY <1>1, <1>2, <1>3, <1>4, <3>1 DEF TimerInv, InTerminate
    <3>7. RefusalInv'
      BY <1>1, <1>2, <3>1 DEF RefusalInv
    <3> QED BY <3>1, <3>2, <3>3, <3>4, <3>5, <3>6, <3>7
  <2>18. CASE Kill
    BY <2>18
  <2> QED BY <2>1, <2>2, <2>3, <2>4, <2>5, <2>6, <2>7, <2>8, <2>9, <2>10, <2>11, <2>12, <2>13,
     <2>14, <2>15, <2>16, <2>17, <2>18 DEF MainStep, TimerStep, RefusalStep, TerminateStep
<1>6. Kill => /\ \A t \in Threads : pc'[t] = "exited"
              /\ MainHolds' /\ KnownInv' /\ StoredInv' /\ ScanInv' /\ TimerInv' /\ RefusalInv'
              /\ UNCHANGED <<created, terminating, count>> /\ pc[Main] = "killLocked"
  <2> SUFFICES ASSUME Kill
               PROVE  /\ \A t \in Threads : pc'[t] = "exited"
                      /\ MainHolds' /\ KnownInv' /\ StoredInv' /\ ScanInv' /\ TimerInv' /\ RefusalInv'
                      /\ UNCHANGED <<created, terminating, count>> /\ pc[Main] = "killLocked"
    OBVIOUS
  <2>1. /\ pc[Main] = "killLocked"
        /\ mgrLock' = Main /\ pc' = [t \in Threads |-> "exited"]
        /\ UNCHANGED <<store, manager, timers, life, app>>
    BY <1>3 DEF Kill
  <2> QED BY <1>2, <1>4, <2>1 DEF MainHolds, KnownInv, StoredInv, ScanInv, TimerInv, RefusalInv,
     InTerminate,
             store, manager, timers, life, app
<1>7. OneActive'
  BY <1>1, <1>5, <1>6 DEF OneActive
<1>8. /\ IsFiniteSet(created')
      /\ Counted(Main, count, created \ terminating, pc)
           => Counted(Main, count', created' \ terminating', pc')
  <2> USE DEF Counted, Goto, TypeOK, store, manager, timers, life, app, locks, control
  <2>1. created \ terminating \subseteq created /\ IsFiniteSet(created)
        /\ IsFiniteSet(created \ terminating)
        /\ Cardinality(created \ terminating) \in Nat
    BY FS_Subset, FS_CardinalityType DEF SerialInv
  <2>2. CASE Mark(Main)
    <3>1. sess[Main] \in created \ terminating /\ created' = created
          /\ created' \ terminating' = (created \ terminating) \ {sess[Main]}
      BY <1>1, <1>2, <2>2 DEF Mark, KnownInv
    <3>2. Cardinality(created' \ terminating') = Cardinality(created \ terminating) - 1
      BY <2>1, <3>1, FS_RemoveElement
    <3>3. /\ count' = count /\ count \in Int
          /\ pc[Main] = "marking" /\ pc'[Main] = "discounting"
      BY <1>1, <1>2, <2>2 DEF Mark
    <3> QED BY <1>1, <2>1, <3>1, <3>2, <3>3
  <2>3. CASE Discount(Main)
    BY <1>1, <1>2, <2>1, <2>3 DEF Discount
  <2>4. CASE ~(Mark(Main) \/ Discount(Main) \/ Kill)
    <3>1. /\ UNCHANGED <<created, terminating, count>>
          /\ pc[Main] # "discounting" /\ pc'[Main] # "discounting"
      BY <1>1, <1>2, <2>4 DEF MainStep, TimerStep, RefusalStep, TerminateStep,
         FireTimer, HandleTimer, Scan, ScanRaises, Expire, RemoveFromStore, Drop, EndScan,
         FireRefusal, RefusalCheck, RefusalRemove, RefusalDrop, RefusalDone, FireKill, KillLockApp,
         AfterDiscount
    <3> QED BY <1>1, <2>1, <3>1
  <2>5. CASE Kill
    BY <1>1, <1>6, <2>1, <2>5
  <2> QED BY <2>2, <2>3, <2>4, <2>5
<1>9. CountIsExact'
  <2>1. Main \in Threads /\ OthersRest(Main, pc')
    BY <1>1, <1>5, <1>6 DEF OthersRest
  <2> HIDE DEF Threads
  <2> QED BY <1>8, <2>1, CountStep
<1> QED BY <1>5, <1>6, <1>7, <1>8, <1>9 DEF SerialInv

\* Time passes between any two steps.
LEMMA SerialFallDue ==
    ASSUME SerialInv, FallDue, IInv'
    PROVE  SerialInv'
<1>1. TypeOK /\ OneActive /\ MainHolds /\ KnownInv /\ StoredInv /\ ScanInv /\ TimerInv
      /\ RefusalInv /\ IsFiniteSet(created) /\ CountIsExact
  BY DEF SerialInv, IInv
<1>2. UNCHANGED <<store, dict, order, timers, life, app, locks, control>>
  BY DEF FallDue
<1>3. \A e \in Entries : entry'[e].sid = entry[e].sid
  <2>1. PICK i \in DOMAIN order : entry' = [entry EXCEPT ![order[i]].due = TRUE]
    BY DEF FallDue
  <2>2. order[i] \in Entries /\ entry \in [Entries -> Entry]
    BY <1>1 DEF TypeOK
  <2> QED BY <2>1, <2>2 DEF Entry
<1>4. OneActive' /\ MainHolds' /\ KnownInv' /\ ScanInv' /\ TimerInv' /\ RefusalInv'
      /\ IsFiniteSet(created)'
  BY <1>1, <1>2 DEF OneActive, MainHolds, KnownInv, ScanInv, TimerInv, RefusalInv, InTerminate,
     store, timers, life, app, locks, control
<1>5. StoredInv'
  BY <1>1, <1>2, <1>3 DEF StoredInv, InTerminate, store, locks, control
<1>6. CountIsExact'
  BY <1>1, <1>2 DEF CountIsExact, life, app, control
<1> QED BY <1>4, <1>5, <1>6 DEF SerialInv

\* Every step of an application without threads keeps its invariant.
LEMMA SerialNextInv ==
    ASSUME SerialInv, [SerialNext]_vars
    PROVE  SerialInv'
<1>1. IInv'
  <2>1. [Next]_vars
    BY DEF SerialNext, Next
  <2> QED BY <2>1, NextInv DEF SerialInv
<1>2. CASE SerialNext
  BY <1>1, <1>2, SerialWorker, SerialMain, SerialFallDue DEF SerialNext
<1>3. CASE UNCHANGED vars
  <2>1. OneActive' /\ MainHolds' /\ KnownInv' /\ ScanInv' /\ TimerInv' /\ RefusalInv'
        /\ StoredInv' /\ IsFiniteSet(created)'
    BY <1>3 DEF SerialInv, OneActive, MainHolds, KnownInv, ScanInv, TimerInv, RefusalInv, StoredInv,
       InTerminate, vars, store, manager, timers, life, app, locks, control
  <2>2. CountIsExact'
    BY <1>3 DEF SerialInv, CountIsExact, vars, life, app, control
  <2> QED BY <1>1, <2>1, <2>2 DEF SerialInv
<1> QED BY <1>2, <1>3

\* It holds when the application starts.
LEMMA SerialInitInv ==
    ASSUME Init
    PROVE  SerialInv
<1> USE ThreadsAssumption DEF Init, Threads
<1>1. IInv
  BY InitInv
<1>2. OneActive /\ MainHolds /\ KnownInv /\ StoredInv /\ ScanInv /\ TimerInv /\ RefusalInv
  BY DEF OneActive, MainHolds, KnownInv, StoredInv, ScanInv, TimerInv, RefusalInv, InTerminate
<1>3. IsFiniteSet(created) /\ Cardinality(created \ terminating) = 0
  <2>1. created \ terminating = {} /\ created = {}
    OBVIOUS
  <2> QED BY <2>1, FS_EmptySet
<1>4. /\ Cardinality({w \in Workers : pc[w] = "creating"}) = 0
      /\ Cardinality({t \in Threads : pc[t] = "discounting"}) = 0
  <2>1. /\ {w \in Workers : pc[w] = "creating"} = {}
        /\ {t \in Threads : pc[t] = "discounting"} = {}
    OBVIOUS
  <2> HIDE DEF Init, Threads
  <2> QED BY <2>1, FS_EmptySet
<1>5. CountIsExact
  <2>1. count = 0
    OBVIOUS
  <2> HIDE DEF Init, Threads
  <2> QED BY <1>3, <1>4, <2>1 DEF CountIsExact
<1> QED BY <1>1, <1>2, <1>3, <1>5 DEF SerialInv

\* One thread at a time is at work: its invariant.
LEMMA SerialInvariant == SerialSpec => []SerialInv
<1>1. Init => SerialInv
  BY SerialInitInv
<1>2. SerialInv /\ [SerialNext]_vars => SerialInv'
  BY SerialNextInv
<1> QED BY <1>1, <1>2, PTL DEF SerialSpec

\* In an application without threads a session in the store has an entry in
\* the time-out manager, but while its timer removes it: no session stays
\* for ever because nothing watches it.
THEOREM StoredIsWatched == SerialSpec => []StoredHasEntry
<1>1. SerialInv => StoredHasEntry
  BY DEF SerialInv, StoredInv, StoredHasEntry
<1> QED BY <1>1, SerialInvariant, PTL

\* In an application without threads the number of active sessions that
\* decides on refusal and termination is the number of sessions that live or
\* are being made, whatever requests, terminations and time-outs follow.
THEOREM CountOfSessions == SerialSpec => []CountIsExact
<1>1. SerialInv => CountIsExact
  BY DEF SerialInv
<1> QED BY <1>1, SerialInvariant, PTL

\* In an application without threads that refuses new sessions, the end of
\* the last session it waits for ends the application.
THEOREM RefusalEndsIt == SerialSpec => []RefusalTakesEffect
<1>1. SerialInv => RefusalTakesEffect
  BY ThreadsAssumption DEF SerialInv, RefusalInv, RefusalTakesEffect, Threads
<1> QED BY <1>1, SerialInvariant, PTL

\* In an application without threads the timer is in the run loop whenever
\* there is an entry to watch and no request or timer at work.
THEOREM EntriesAreWatched == SerialSpec => []TimerIsSet
<1>1. SerialInv => TimerIsSet
  BY ThreadsAssumption DEF SerialInv, TimerInv, TimerIsSet, InTerminate, Threads
<1> QED BY <1>1, SerialInvariant, PTL

\* While nobody but one request is at work, a session has a pool only between
\* the check-out of that request and the end of its check-in.
PoolServed ==
    \A s \in pool : \E w \in Workers :
        sess[w] = s /\ pc[w] \notin {"idle", "creating", "refused", "checkOut", "checkOutEntry", "exited"}

LEMMA PoolServedWorker ==
    ASSUME SerialInv, PoolServed, NEW w \in Workers, OthersIdle(w), WorkerStep(w)
    PROVE  PoolServed'
<1> USE ThreadsAssumption DEF Threads
<1>1. TypeOK
  BY DEF SerialInv, IInv
<1>2. \A u \in Workers \ {w} : pc[u] = "idle"
  BY DEF OthersIdle
<1>3. \A s \in pool : sess[w] = s
        /\ pc[w] \notin {"idle", "creating", "refused", "checkOut", "checkOutEntry", "exited"}
  BY <1>2 DEF PoolServed
<1>4. SUFFICES \A s \in pool' : sess'[w] = s
        /\ pc'[w] \notin {"idle", "creating", "refused", "checkOut", "checkOutEntry", "exited"}
  BY DEF PoolServed
<1> USE DEF TypeOK, Goto, Finish, CheckInDone, store, manager, timers, life, app, locks, control
<1>5. CASE Create(w) \/ Created(w) \/ Restore(w) \/ Refuse(w) \/ Terminate(w) \/ AfterRefuse(w)
  BY <1>1, <1>3, <1>5 DEF Create, Created, Restore, Refuse, Terminate, AfterRefuse
<1>6. CASE LockStore(w) \/ CheckOut(w) \/ Save(w) \/ CheckIn(w)
  BY <1>1, <1>3, <1>6 DEF LockStore, CheckOut, Save, CheckIn
<1>7. CASE TerminateStep(w)
  BY <1>1, <1>3, <1>7 DEF TerminateStep, Mark, Discount, AfterDiscount
<1>8. CASE Update(w) \/ Move(w) \/ Add(w) \/ AddTimer(w)
  BY <1>1, <1>3, <1>8 DEF Update, Move, Add, AddTimer
<1> QED BY <1>5, <1>6, <1>7, <1>8 DEF WorkerStep, RequestStep

\* The timers run when no request does, and so no session has a pool.
LEMMA PoolServedMain ==
    ASSUME SerialInv, PoolServed, OthersIdle(Main), MainStep
    PROVE  PoolServed'
<1>1. pool = {}
  BY ThreadsAssumption DEF PoolServed, OthersIdle, Threads
<1>2. UNCHANGED pool
  BY DEF MainStep, TimerStep, RefusalStep, TerminateStep, FireTimer, HandleTimer, Scan, ScanRaises,
     Expire, Drop, EndScan, FireRefusal, RefusalCheck, RefusalRemove, RefusalDrop, RefusalDone,
     FireKill, KillLockApp, Kill, Mark, Discount, AfterDiscount, life
<1> QED BY <1>1, <1>2 DEF PoolServed

\* In an application without threads a session that is checked out has no
\* autorelease pool left from an earlier request, as GSWSession.m:878 asserts:
\* that a run finds one takes two threads.
THEOREM PoolIsNewWithoutThreads == SerialSpec => []PoolIsNew
<1>1. Init => PoolServed
  BY DEF Init, PoolServed
<1>2. SerialInv /\ PoolServed /\ [SerialNext]_vars => PoolServed'
  <2> SUFFICES ASSUME SerialInv, PoolServed, [SerialNext]_vars
               PROVE  PoolServed'
    OBVIOUS
  <2>1. CASE FallDue \/ UNCHANGED vars
    BY <2>1 DEF FallDue, vars, life, control, PoolServed
  <2> QED BY <2>1, PoolServedWorker, PoolServedMain DEF SerialNext
<1>3. SerialInv /\ PoolServed => PoolIsNew
  <2> SUFFICES ASSUME SerialInv, PoolServed, NEW w \in Workers, pc[w] = "checkOutEntry",
                      sess[w] \in pool
               PROVE  FALSE
    BY DEF PoolIsNew
  <2> QED BY ThreadsAssumption DEF SerialInv, OneActive, PoolServed, Threads
<1> QED BY <1>1, <1>2, <1>3, SerialInvariant, PTL DEF SerialSpec

\* In an application without threads no session is discounted twice
\* (GSWSession.m:512): that the count falls below the number of the sessions
\* takes two threads that terminate one.
THEOREM TerminatedOnceWithoutThreads == SerialSpec => []TerminatedOnce
<1>1. SerialInv => TerminatedOnce
  <2> SUFFICES ASSUME SerialInv
               PROVE  TerminatedOnce
    OBVIOUS
  <2>1. PICK t \in Threads : OthersRest(t, pc)
    <3>1. CASE \A u \in Threads : pc[u] = "exited"
      BY <3>1 DEF Threads, OthersRest
    <3>2. CASE \A u, v \in Threads : pc[u] # "idle" /\ pc[v] # "idle" => u = v
      BY <3>2 DEF Threads, OthersRest
    <3> QED BY <3>1, <3>2 DEF SerialInv, OneActive
  <2>2. Counted(t, count, created \ terminating, pc)
    BY <2>1, CountOf DEF SerialInv, CountIsExact
  <2>3. Cardinality(created \ terminating) \in Nat
    BY FS_Difference, FS_CardinalityType DEF SerialInv
  <2> QED BY <2>2, <2>3 DEF TerminatedOnce, Counted, SerialInv, IInv, TypeOK
<1> QED BY <1>1, SerialInvariant, PTL

(***************************************************************************)
(* An application without threads implements SessionService.               *)
(***************************************************************************)
\* A request that will check s in again has it.
WillCheckIn(s) ==
    \E w \in Workers :
        sess[w] = s /\ pc[w] \in {"inUse", "marking", "discounting", "discounted", "checkIn", "checkInEntry"}

\* A request has a session from its check-out or creation to its end, and
\* leaves it in the store or over; one that is over leaves the store; one that
\* times out has left it.
LifeInv ==
    /\ \A w \in Workers :
         /\ pc[w] \in {"idle", "creating", "refused", "exited"} => sess[w] = NoSession
         /\ pc[w] \in {"update", "move", "add", "addTimer"}
              => sess[w] \in sessions \union terminating
    /\ \A s \in sessions \intersect terminating : WillCheckIn(s)
    /\ pc[Main] \in {"drop", "marking"} => sess[Main] \notin sessions

\* A step of a request keeps LifeInv.
LEMMA LifeWorker ==
    ASSUME SerialInv, LifeInv, NEW w \in Workers, OthersIdle(w), WorkerStep(w)
    PROVE  LifeInv'
<1> USE ThreadsAssumption, ValuesAssumption DEF Threads
<1>1. /\ Main \in Threads /\ w # Main /\ w \in Threads
      /\ \A u \in Workers \ {w} : pc[u] = "idle" /\ pc'[u] = "idle" /\ sess'[u] = sess[u]
      /\ pc[Main] = "idle" /\ pc'[Main] = "idle"
  BY WorkerFrame DEF SerialInv, IInv, OthersIdle
<1>2. /\ TypeOK /\ KnownInv /\ SessKnown
      /\ \A u \in Workers \ {w} : sess'[u] = NoSession
      /\ \A s \in sessions \intersect terminating : sess[w] = s
            /\ pc[w] \in {"inUse", "marking", "discounting", "discounted", "checkIn", "checkInEntry"}
  BY <1>1 DEF SerialInv, IInv, LifeInv, WillCheckIn
<1> DEFINE Mine ==
      /\ pc[w] \in {"idle", "creating", "refused", "exited"} => sess[w] = NoSession
      /\ pc[w] \in {"update", "move", "add", "addTimer"} => sess[w] \in sessions \union terminating
      /\ \A s \in sessions \intersect terminating : sess[w] = s
            /\ pc[w] \in {"inUse", "marking", "discounting", "discounted", "checkIn", "checkInEntry"}
<1>3. Mine
  BY <1>2 DEF LifeInv
<1>4. Mine'
  <2> USE <1>2, <1>3 DEF Goto, Finish, CheckInDone, TypeOK, store, manager, timers, life, app,
       locks, control
  <2>1. CASE Create(w)
    BY <2>1 DEF Create
  <2>2. CASE Created(w)
    BY <2>2 DEF Created
  <2>3. CASE Restore(w)
    BY <2>3 DEF Restore
  <2>4. CASE Refuse(w)
    BY <2>4 DEF Refuse
  <2>5. CASE Terminate(w)
    BY <2>5 DEF Terminate
  <2>6. CASE LockStore(w)
    BY <2>6 DEF LockStore
  <2>7. CASE CheckOut(w)
    BY <2>7 DEF CheckOut
  <2>8. CASE Mark(w)
    BY <2>8 DEF Mark
  <2>9. CASE Discount(w)
    BY <2>9 DEF Discount
  <2>10. CASE AfterDiscount(w)
    BY <2>10 DEF AfterDiscount
  <2>11. CASE Save(w)
    BY <2>11 DEF Save
  <2>12. CASE CheckIn(w)
    BY <2>12 DEF CheckIn
  <2>13. CASE Update(w)
    BY <2>13 DEF Update
  <2>14. CASE Move(w)
    BY <2>14 DEF Move
  <2>15. CASE Add(w)
    BY <2>15 DEF Add
  <2>16. CASE AddTimer(w)
    BY <2>16 DEF AddTimer
  <2>17. CASE AfterRefuse(w)
    BY <2>17 DEF AfterRefuse
  <2> QED BY <2>1, <2>2, <2>3, <2>4, <2>5, <2>6, <2>7, <2>8, <2>9, <2>10, <2>11, <2>12, <2>13,
     <2>14, <2>15, <2>16, <2>17 DEF WorkerStep, RequestStep, TerminateStep
<1> HIDE DEF Mine
<1>5. \A s \in sessions' \intersect terminating' : WillCheckIn(s)'
  BY <1>4 DEF Mine, WillCheckIn
<1>6. \A u \in Workers :
        /\ pc'[u] \in {"idle", "creating", "refused", "exited"} => sess'[u] = NoSession
        /\ pc'[u] \in {"update", "move", "add", "addTimer"}
             => sess'[u] \in sessions' \union terminating'
  BY <1>1, <1>2, <1>4 DEF Mine
<1> QED BY <1>1, <1>5, <1>6 DEF LifeInv

\* A step of a timer of Main keeps LifeInv.
LEMMA LifeMain ==
    ASSUME SerialInv, LifeInv, OthersIdle(Main), MainStep
    PROVE  LifeInv'
<1> USE ThreadsAssumption, ValuesAssumption DEF Threads
<1>1. /\ Main \in Threads
      /\ TypeOK /\ SessKnown /\ KnownInv
      /\ \A w \in Workers : pc[w] = "idle" /\ sess[w] = NoSession
      /\ sessions \intersect terminating = {}
      /\ pc[Main] \in {"drop", "marking"} => sess[Main] \notin sessions
  BY DEF SerialInv, IInv, OthersIdle, LifeInv, WillCheckIn
<1>2. /\ \A w \in Workers : pc'[w] \in {"idle", "exited"} /\ sess'[w] = NoSession
      /\ sessions' \intersect terminating' = {}
      /\ pc'[Main] \in {"drop", "marking"} => sess'[Main] \notin sessions'
  <2> USE <1>1 DEF Goto, TypeOK, store, manager, timers, life, app, locks, control
  <2>1. CASE FireTimer
    BY <2>1 DEF FireTimer
  <2>2. CASE HandleTimer
    BY <2>2 DEF HandleTimer
  <2>3. CASE Scan
    BY <2>3 DEF Scan
  <2>4. CASE ScanRaises
    BY <2>4 DEF ScanRaises
  <2>5. CASE Expire
    BY <2>5 DEF Expire, RemoveFromStore
  <2>6. CASE Drop
    BY <2>6 DEF Drop
  <2>7. CASE EndScan
    BY <2>7 DEF EndScan
  <2>8. CASE FireRefusal
    BY <2>8 DEF FireRefusal
  <2>9. CASE RefusalCheck
    BY <2>9 DEF RefusalCheck
  <2>10. CASE RefusalRemove
    BY <2>10 DEF RefusalRemove, RemoveFromStore
  <2>11. CASE RefusalDrop
    BY <2>11 DEF RefusalDrop
  <2>12. CASE RefusalDone
    BY <2>12 DEF RefusalDone
  <2>13. CASE FireKill
    BY <2>13 DEF FireKill
  <2>14. CASE KillLockApp
    BY <2>14 DEF KillLockApp
  <2>15. CASE Kill
    BY <2>15 DEF Kill
  <2>16. CASE Mark(Main)
    BY <2>16 DEF Mark
  <2>17. CASE Discount(Main)
    BY <2>17 DEF Discount
  <2>18. CASE AfterDiscount(Main)
    BY <2>18 DEF AfterDiscount
  <2> QED BY <2>1, <2>2, <2>3, <2>4, <2>5, <2>6, <2>7, <2>8, <2>9, <2>10, <2>11, <2>12, <2>13,
     <2>14, <2>15, <2>16, <2>17, <2>18 DEF MainStep, TimerStep, RefusalStep, TerminateStep
<1> QED BY <1>2 DEF LifeInv

\* What becomes of the sessions, of those created, terminated and kept.
LifeOf(c, t, k) ==
    [s \in Sessions |->
        IF s \notin c THEN "new"
        ELSE IF s \in t THEN "over"
        ELSE IF s \in k THEN "kept"
        ELSE "begun"]

\* The count without the sessions that thread t is about to create or discounts.
ActiveOf(t, n, f) ==
    n - (IF t \in Workers /\ f[t] = "creating" THEN 1 ELSE 0)
      - (IF f[t] = "discounting" THEN 1 ELSE 0)

\* The session in service, when no request but that of w has one.
LEMMA ServedBy ==
    ASSUME NEW w \in Workers, NEW f, \A u \in Workers \ {w} : f[u] = NoSession
    PROVE  {f[u] : u \in Workers} \ {NoSession} = {f[w]} \ {NoSession}
OBVIOUS

\* A step of a request is one of the service, or leaves the service as it is.
LEMMA ServiceWorker ==
    ASSUME SerialInv, LifeInv, NEW w \in Workers, OthersIdle(w), WorkerStep(w)
    PROVE  [Service!Next]_<<Status, Served, Active>>
<1> USE ThreadsAssumption, ValuesAssumption
<1>1. /\ Main \in Threads /\ w # Main /\ w \in Threads
      /\ \A u \in Threads \ {w} : pc[u] = "idle" /\ pc'[u] = "idle" /\ sess'[u] = sess[u]
      /\ Workers \subseteq Threads
  BY WorkerFrame DEF SerialInv, IInv, OthersIdle, Threads
<1>2. /\ TypeOK /\ KnownInv /\ SessKnown
      /\ \A u \in Workers \ {w} : sess[u] = NoSession /\ sess'[u] = NoSession
      /\ pc[w] \in {"idle", "creating", "refused", "exited"} => sess[w] = NoSession
      /\ pc[w] \in {"update", "move", "add", "addTimer"} => sess[w] \in sessions \union terminating
      /\ \A s \in sessions \intersect terminating :
           sess[w] = s /\ pc[w] \notin {"idle", "creating", "refused", "checkOut", "checkOutEntry"}
  BY <1>1 DEF SerialInv, IInv, LifeInv, WillCheckIn
<1>3. /\ Served = {sess[w]} \ {NoSession}
      /\ Served' = {sess'[w]} \ {NoSession}
  BY <1>2, ServedBy DEF Served
<1>4. /\ Active = ActiveOf(w, count, pc)
      /\ Active' = ActiveOf(w, count', pc')
  <2>1. OthersRest(w, pc) /\ OthersRest(w, pc')
    BY <1>1 DEF OthersRest
  <2> QED BY <1>1, <2>1, AtLabels DEF Active, ActiveOf
<1>5. /\ Status = LifeOf(created, terminating, sessions)
      /\ Status' = LifeOf(created', terminating', sessions')
  BY <1>1 DEF Status, LifeOf, TimingOut
<1> DEFINE Stays ==
      /\ LifeOf(created', terminating', sessions') = LifeOf(created, terminating, sessions)
      /\ sess'[w] = sess[w] /\ ActiveOf(w, count', pc') = ActiveOf(w, count, pc)
<1>6. ASSUME Stays PROVE [Service!Next]_<<Status, Served, Active>>
  BY <1>3, <1>4, <1>5, <1>6
<1>a. ASSUME sess[w] \in created, sess[w] \in sessions \union terminating,
             sess'[w] = NoSession, UNCHANGED <<sessions, created, terminating, count>>,
             pc[w] \notin {"creating", "discounting"}, pc'[w] = "idle"
      PROVE  [Service!Next]_<<Status, Served, Active>>
  <2>1. sess[w] \in Sessions /\ sess[w] # NoSession
    BY <1>a, <1>2 DEF TypeOK
  <2>2. Served = {sess[w]} /\ Served' = {}
    BY <1>3, <1>a, <2>1
  <2>3. Status' = Status /\ Active' = Active /\ Status[sess[w]] # "begun"
    BY <1>4, <1>5, <1>a, <2>1 DEF LifeOf, ActiveOf
  <2> QED BY <2>1, <2>2, <2>3 DEF Service!Next, Service!Release
<1> HIDE DEF Stays
<1> USE <1>1, <1>2 DEF Goto, Finish, CheckInDone, TypeOK, store, manager, timers, life, app,
     locks, control
<1>7. CASE Create(w)
  BY <1>7, <1>6 DEF Create, Stays, ActiveOf
<1>8. CASE Created(w)
  <2>1. PICK s \in Sessions \ created :
              created' = created \union {s} /\ sess' = [sess EXCEPT ![w] = s]
    BY <1>8 DEF Created
  <2>2. Served = {} /\ Served' = {s}
    BY <1>3, <1>8, <2>1 DEF Created
  <2>3. Active \in Int /\ Active' = Active + 1
    BY <1>4, <1>8 DEF Created, ActiveOf
  <2>4. Status[s] = "new" /\ Status' = [Status EXCEPT ![s] = "begun"]
    BY <1>5, <1>8, <2>1 DEF Created, LifeOf, KnownInv
  <2> QED BY <2>1, <2>2, <2>3, <2>4 DEF Service!Next, Service!Begin
<1>9. CASE Restore(w)
  <2>1. PICK s \in sessions : sess' = [sess EXCEPT ![w] = s]
    BY <1>9 DEF Restore
  <2>2. Served = {} /\ Served' = {s}
    BY <1>3, <1>9, <2>1 DEF Restore
  <2>3. Active' = Active
    BY <1>4, <1>9 DEF Restore, ActiveOf
  <2>4. Status[s] = "kept" /\ Status' = Status
    BY <1>5, <1>9, <2>1 DEF Restore, LifeOf, KnownInv
  <2> QED BY <2>1, <2>2, <2>3, <2>4 DEF Service!Next, Service!Take
<1>10. CASE Refuse(w)
  BY <1>10, <1>6 DEF Refuse, Stays, ActiveOf
<1>11. CASE Terminate(w)
  BY <1>11, <1>6 DEF Terminate, Stays, ActiveOf
<1>12. CASE LockStore(w)
  BY <1>12, <1>6 DEF LockStore, Stays, ActiveOf
<1>13. CASE CheckOut(w)
  <2>1. CASE pc'[w] = "inUse"
    BY <1>13, <2>1, <1>6 DEF CheckOut, Stays, ActiveOf
  <2>2. CASE pc'[w] # "inUse"
    <3>1. /\ pc'[w] = "idle" /\ sess'[w] = NoSession /\ pc[w] = "checkOutEntry"
          /\ UNCHANGED <<sessions, created, terminating, count>>
      BY <1>13, <2>2 DEF CheckOut
    <3> QED BY <3>1, <1>a DEF KnownInv
  <2> QED BY <2>1, <2>2
<1>14. CASE Mark(w)
  <2>1. sess[w] \in created \ terminating /\ sess[w] \in Sessions /\ sess[w] # NoSession
    BY <1>14 DEF Mark, KnownInv
  <2>2. Served = {sess[w]} /\ Served' = Served
    BY <1>3, <1>14, <2>1 DEF Mark
  <2>3. Active \in Int /\ Active' = Active - 1
    BY <1>4, <1>14 DEF Mark, ActiveOf
  <2>4. Status[sess[w]] \in {"begun", "kept"} /\ Status' = [Status EXCEPT ![sess[w]] = "over"]
    BY <1>5, <1>14, <2>1 DEF Mark, LifeOf
  <2> QED BY <2>1, <2>2, <2>3, <2>4 DEF Service!Next, Service!End, Service!Over
<1>15. CASE Discount(w)
  BY <1>15, <1>6 DEF Discount, Stays, ActiveOf
<1>16. CASE AfterDiscount(w)
  BY <1>16, <1>6 DEF AfterDiscount, Stays, ActiveOf
<1>17. CASE Save(w)
  BY <1>17, <1>6 DEF Save, Stays, ActiveOf
<1>18. CASE CheckIn(w)
  <2>1. sess[w] \in created /\ sess[w] \in Sessions /\ sess[w] # NoSession
    BY <1>18 DEF CheckIn, KnownInv
  <2>2. UNCHANGED <<created, terminating, count>> /\ sess'[w] = sess[w] /\ Active' = Active
    BY <1>4, <1>18 DEF CheckIn, ActiveOf
  <2>3. CASE sess[w] \in terminating \/ sess[w] \in sessions
    <3>1. LifeOf(created', terminating', sessions') = LifeOf(created, terminating, sessions)
      BY <1>18, <2>2, <2>3 DEF CheckIn, LifeOf
    <3> QED BY <1>3, <1>5, <2>2, <3>1
  <2>4. CASE ~(sess[w] \in terminating \/ sess[w] \in sessions)
    <3>1. Served = {sess[w]} /\ Served' = Served
      BY <1>3, <2>1, <2>2
    <3>2. Status[sess[w]] = "begun" /\ Status' = [Status EXCEPT ![sess[w]] = "kept"]
      BY <1>5, <1>18, <2>1, <2>2, <2>4 DEF CheckIn, LifeOf
    <3> QED BY <2>1, <2>2, <3>1, <3>2 DEF Service!Next, Service!Keep
  <2> QED BY <2>3, <2>4
<1>19. CASE Update(w)
  BY <1>19, <1>6 DEF Update, Stays, ActiveOf
<1>20. CASE Move(w)
  BY <1>20, <1>6 DEF Move, Stays, ActiveOf
<1>21. CASE Add(w)
  <2>1. CASE pc'[w] = "addTimer"
    BY <1>21, <2>1, <1>6 DEF Add, Stays, ActiveOf
  <2>2. CASE pc'[w] # "addTimer"
    <3>1. /\ pc'[w] = "idle" /\ sess'[w] = NoSession /\ pc[w] = "add"
          /\ UNCHANGED <<sessions, created, terminating, count>>
      BY <1>21, <2>2 DEF Add
    <3> QED BY <3>1, <1>a DEF KnownInv
  <2> QED BY <2>1, <2>2
<1>22. CASE AddTimer(w)
  <2>1. /\ pc'[w] = "idle" /\ sess'[w] = NoSession /\ pc[w] = "addTimer"
        /\ UNCHANGED <<sessions, created, terminating, count>>
    BY <1>22 DEF AddTimer
  <2> QED BY <2>1, <1>a DEF KnownInv
<1>23. CASE AfterRefuse(w)
  BY <1>23, <1>6 DEF AfterRefuse, Stays, ActiveOf
<1> QED BY <1>7, <1>8, <1>9, <1>10, <1>11, <1>12, <1>13, <1>14, <1>15, <1>16, <1>17, <1>18,
   <1>19, <1>20, <1>21, <1>22, <1>23
   DEF WorkerStep, RequestStep, TerminateStep

\* So is a step of a timer of Main: it ends a session or leaves the service.
LEMMA ServiceMain ==
    ASSUME SerialInv, LifeInv, OthersIdle(Main), MainStep
    PROVE  [Service!Next]_<<Status, Served, Active>>
<1> USE ThreadsAssumption, ValuesAssumption
<1>1. /\ Main \in Threads /\ Main \notin Workers /\ Threads = Workers \union {Main}
      /\ TypeOK /\ KnownInv /\ SessKnown
      /\ \A w \in Workers : pc[w] = "idle" /\ sess[w] = NoSession
      /\ sessions \intersect terminating = {}
  BY DEF SerialInv, IInv, OthersIdle, LifeInv, WillCheckIn, Threads
<1> DEFINE Quiet ==
      /\ \A w \in Workers : pc'[w] \in {"idle", "exited"} /\ sess'[w] = NoSession
<1>2. ASSUME Quiet
      PROVE  /\ Served = {} /\ Served' = {}
             /\ Active = ActiveOf(Main, count, pc) /\ Active' = ActiveOf(Main, count', pc')
  <2>1. OthersRest(Main, pc) /\ OthersRest(Main, pc')
    BY <1>1, <1>2 DEF OthersRest
  <2>2. Served = {} /\ Served' = {}
    BY <1>1, <1>2 DEF Served
  <2> QED BY <1>1, <2>1, <2>2, AtLabels DEF Active, ActiveOf
<1> DEFINE Stays ==
      /\ Quiet /\ Status' = Status
      /\ ActiveOf(Main, count', pc') = ActiveOf(Main, count, pc)
<1>3. ASSUME Stays PROVE [Service!Next]_<<Status, Served, Active>>
  BY <1>2, <1>3
<1> HIDE DEF Stays
<1> USE <1>1 DEF Goto, TypeOK, store, manager, timers, life, app, locks, control
<1>4. CASE FireTimer
  BY <1>4, <1>3 DEF FireTimer, Stays, Status, TimingOut, ActiveOf
<1>5. CASE HandleTimer
  BY <1>5, <1>3 DEF HandleTimer, Stays, Status, TimingOut, ActiveOf
<1>6. CASE Scan
  BY <1>6, <1>3 DEF Scan, Stays, Status, TimingOut, ActiveOf
<1>7. CASE ScanRaises
  BY <1>7, <1>3 DEF ScanRaises, Stays, Status, TimingOut, ActiveOf
<1>8. CASE Expire
  BY <1>8, <1>3 DEF Expire, RemoveFromStore, Stays, Status, TimingOut, ActiveOf
<1>9. CASE Drop
  BY <1>9, <1>3 DEF Drop, Stays, Status, TimingOut, ActiveOf
<1>10. CASE EndScan
  BY <1>10, <1>3 DEF EndScan, Stays, Status, TimingOut, ActiveOf
<1>11. CASE FireRefusal
  BY <1>11, <1>3 DEF FireRefusal, Stays, Status, TimingOut, ActiveOf
<1>12. CASE RefusalCheck
  BY <1>12, <1>3 DEF RefusalCheck, Stays, Status, TimingOut, ActiveOf
<1>13. CASE RefusalRemove
  BY <1>13, <1>3 DEF RefusalRemove, RemoveFromStore, Stays, Status, TimingOut, ActiveOf
<1>14. CASE RefusalDrop
  BY <1>14, <1>3 DEF RefusalDrop, Stays, Status, TimingOut, ActiveOf
<1>15. CASE RefusalDone
  BY <1>15, <1>3 DEF RefusalDone, Stays, Status, TimingOut, ActiveOf
<1>16. CASE FireKill
  BY <1>16, <1>3 DEF FireKill, Stays, Status, TimingOut, ActiveOf
<1>17. CASE KillLockApp
  BY <1>17, <1>3 DEF KillLockApp, Stays, Status, TimingOut, ActiveOf
<1>18. CASE Kill
  BY <1>18, <1>3 DEF Kill, Stays, Status, TimingOut, ActiveOf
<1>19. CASE Mark(Main)
  <2>1. sess[Main] \in created \ terminating /\ sess[Main] \in Sessions
        /\ (sess[Main] \in sessions \/ TimingOut(sess[Main]))
    BY <1>19 DEF Mark, KnownInv, TimingOut
  <2>2. Quiet
    BY <1>19 DEF Mark
  <2>3. Active \in Int /\ Active' = Active - 1
    BY <1>2, <1>19, <2>2 DEF Mark, ActiveOf
  <2>4. Status[sess[Main]] = "kept" /\ Status' = [Status EXCEPT ![sess[Main]] = "over"]
    <3>1. /\ pc[Main] = "marking" /\ pc'[Main] = "discounting" /\ UNCHANGED <<sess, sessions, created>>
          /\ terminating' = terminating \union {sess[Main]}
      BY <1>19 DEF Mark
    <3>2. \A s \in Sessions : TimingOut(s) <=> s = sess[Main]
      BY <3>1 DEF TimingOut
    <3>3. \A s \in Sessions : ~TimingOut(s)'
      BY <3>1 DEF TimingOut
    <3>4. Status[sess[Main]] = "kept"
      BY <2>1, <3>2 DEF Status
    <3> HIDE <1>1 DEF TypeOK, Goto
    <3>5. \A s \in Sessions : Status'[s] = IF s = sess[Main] THEN "over" ELSE Status[s]
      BY <2>1, <3>1, <3>2, <3>3 DEF Status
    <3>6. Status = [s \in Sessions |-> Status[s]] /\ Status' = [s \in Sessions |-> Status'[s]]
      BY DEF Status
    <3> HIDE DEF Status
    <3> QED BY <2>1, <3>4, <3>5, <3>6
  <2> HIDE DEF Quiet
  <2> QED BY <1>2, <2>1, <2>2, <2>3, <2>4 DEF Service!Next, Service!TimeOut, Service!Over
<1>20. CASE Discount(Main)
  BY <1>20, <1>3 DEF Discount, Stays, Status, TimingOut, ActiveOf
<1>21. CASE AfterDiscount(Main)
  BY <1>21, <1>3 DEF AfterDiscount, Stays, Status, TimingOut, ActiveOf
<1> QED BY <1>4, <1>5, <1>6, <1>7, <1>8, <1>9, <1>10, <1>11, <1>12, <1>13, <1>14, <1>15, <1>16,
   <1>17, <1>18, <1>19, <1>20, <1>21
   DEF MainStep, TimerStep, RefusalStep, TerminateStep

\* An application without threads serves sessions as SessionService does: a
\* request that finds its session gets one that lives, a session ends once, by
\* its request or between requests, and is never served again, none is left
\* behind neither kept nor over, and the count of active sessions follows each
\* step.
THEOREM ImplementsService == SerialSpec => ServiceSpec
<1>1. Init => LifeInv /\ Service!Init
  <2> SUFFICES ASSUME Init PROVE LifeInv /\ Service!Init
    OBVIOUS
  <2>1. LifeInv
    BY ThreadsAssumption DEF Init, LifeInv, Threads
  <2>2. Status = [s \in Sessions |-> "new"] /\ Served = {}
    BY DEF Init, Status, Served, Threads
  <2>3. Active = 0
    <3>1. Main \in Threads /\ OthersRest(Main, pc) /\ count = 0 /\ pc[Main] = "idle"
      BY DEF Init, OthersRest, Threads
    <3> QED BY <3>1, AtLabels, ThreadsAssumption DEF Active
  <2> QED BY <2>1, <2>2, <2>3 DEF Service!Init
<1>2. /\ SerialInv /\ LifeInv /\ [SerialNext]_vars
      => LifeInv' /\ [Service!Next]_<<Status, Served, Active>>
  <2> SUFFICES ASSUME SerialInv, LifeInv, [SerialNext]_vars
               PROVE  LifeInv' /\ [Service!Next]_<<Status, Served, Active>>
    OBVIOUS
  <2>1. ASSUME NEW w \in Workers, OthersIdle(w), WorkerStep(w)
        PROVE  LifeInv' /\ [Service!Next]_<<Status, Served, Active>>
    BY <2>1, LifeWorker, ServiceWorker
  <2>2. CASE OthersIdle(Main) /\ MainStep
    BY <2>2, LifeMain, ServiceMain
  <2>3. CASE FallDue \/ UNCHANGED vars
    <3>1. UNCHANGED <<store, life, app, control>>
      BY <2>3 DEF FallDue, vars
    <3>2. LifeInv'
      BY <3>1 DEF LifeInv, WillCheckIn, store, life, control
    <3>3. UNCHANGED <<Status, Served, Active>>
      BY <3>1 DEF Status, TimingOut, Served, Active, store, life, app, control
    <3> QED BY <3>2, <3>3
  <2> QED BY <2>1, <2>2, <2>3 DEF SerialNext
<1> QED BY <1>1, <1>2, SerialInvariant, PTL
   DEF SerialSpec, ServiceSpec, Service!Spec, Service!serviceVars

(***************************************************************************)
(* Without threads the soft shutdown has nothing to do.                    *)
(***************************************************************************)
\* Every session that lives is in the store, in the hands of its request, or
\* timing out; the refusal timer finds an application that does not end yet.
ShutdownInv ==
    /\ \A s \in created \ terminating : s \in sessions \/ WillCheckIn(s) \/ TimingOut(s)
    /\ mgrLock = Main => pc[Main] \in {"refusalCheck", "exited"}
    /\ pc[Main] = "refusalCheck" => ~appTerminating

\* There are no more sessions in the store than entries in the array.
LEMMA StoredAreScanned ==
    ASSUME IInv, StoredInv, \A w \in Workers : pc[w] = "idle"
    PROVE  IsFiniteSet(sessions) /\ Cardinality(sessions) <= Len(order)
<1> DEFINE f == [i \in 1 .. Len(order) |-> entry[order[i]].sid]
           T == {f[i] : i \in 1 .. Len(order)}
<1>1. order \in Seq(Entries) /\ Len(order) \in Nat /\ sessions \subseteq Sessions
  BY DEF IInv, TypeOK
<1>2. sessions \subseteq T
  <2> SUFFICES ASSUME NEW s \in sessions PROVE \E i \in 1 .. Len(order) : f[i] = s
    OBVIOUS
  <2>1. dict[s] # NoEntry /\ s \in Sessions
    BY <1>1 DEF StoredInv
  <2>2. dict[s] \in ToSet(order) /\ entry[dict[s]].sid = s
    BY <2>1 DEF IInv, DictIsScanned, SidKnown
  <2>3. PICK i \in 1 .. Len(order) : order[i] = dict[s]
    BY <2>2, <1>1 DEF ToSet
  <2> QED BY <2>2, <2>3
<1>3. IsFiniteSet(1 .. Len(order)) /\ Cardinality(1 .. Len(order)) = Len(order)
  BY <1>1, FS_Interval
<1>4. f \in Surjection(1 .. Len(order), T)
  BY DEF Surjection
<1> HIDE DEF f, T
<1>5. IsFiniteSet(T) /\ Cardinality(T) <= Len(order)
  BY <1>3, <1>4, FS_Surjection
<1>6. IsFiniteSet(sessions) /\ Cardinality(sessions) <= Cardinality(T)
  BY <1>2, <1>5, FS_Subset
<1>7. Cardinality(sessions) \in Nat /\ Cardinality(T) \in Nat
  BY <1>5, <1>6, FS_CardinalityType
<1> QED BY <1>1, <1>5, <1>6, <1>7

\* An application that refuses and has as few entries as that has ended before.
LEMMA RefusalComesFirst ==
    ASSUME SerialInv, ShutdownInv, OthersIdle(Main), pc[Main] = "refusalCheck", refusing
    PROVE  Len(order) > MinActive
<1> USE ThreadsAssumption, ValuesAssumption DEF Threads
<1>1. /\ \A w \in Workers : pc[w] = "idle" /\ OthersRest(Main, pc)
      /\ Main \in Threads /\ Main \notin Workers
  BY DEF OthersIdle, OthersRest
<1>2. /\ order \in Seq(Entries) /\ Len(order) \in Nat /\ count \in Int
      /\ IInv /\ StoredInv /\ RefusalInv /\ IsFiniteSet(created) /\ CountIsExact
  BY DEF SerialInv, IInv, TypeOK
<1>3. created \ terminating \subseteq sessions
  BY <1>1 DEF ShutdownInv, WillCheckIn, TimingOut
<1>4. Counted(Main, count, created \ terminating, pc)
  BY <1>1, <1>2, CountOf DEF CountIsExact, OthersIdle, OthersRest
<1>5. count = Cardinality(created \ terminating) + 0 + 0
  BY <1>1, <1>4 DEF Counted
<1>6. /\ IsFiniteSet(sessions) /\ Cardinality(sessions) <= Len(order)
      /\ Cardinality(created \ terminating) <= Cardinality(sessions)
  BY <1>1, <1>2, <1>3, StoredAreScanned, FS_Subset
<1>7. Cardinality(sessions) \in Nat /\ Cardinality(created \ terminating) \in Nat
  BY <1>3, <1>6, FS_Subset, FS_CardinalityType
<1>8. count <= Len(order)
  BY <1>2, <1>5, <1>6, <1>7
<1>9. ~ (count <= MinActive)
  BY <1>1 , <1>2 DEF RefusalInv, ShutdownInv
<1> QED BY <1>2, <1>8, <1>9

\* A step of a request keeps ShutdownInv.
LEMMA ShutdownWorker ==
    ASSUME SerialInv, ShutdownInv, NEW w \in Workers, OthersIdle(w), WorkerStep(w)
    PROVE  ShutdownInv'
<1> USE ThreadsAssumption, ValuesAssumption DEF Threads
<1>1. /\ Main \in Threads /\ w # Main /\ w \in Threads
      /\ \A u \in Workers \ {w} : pc[u] = "idle"
      /\ pc[Main] = "idle" /\ pc'[Main] = "idle"
  BY WorkerFrame DEF SerialInv, IInv, OthersIdle
<1> DEFINE Living ==
      /\ mgrLock # Main
      /\ \A s \in created \ terminating : s \in sessions \/
            /\ sess[w] = s
            /\ pc[w] \in {"inUse", "marking", "discounting", "discounted", "checkIn", "checkInEntry"}
<1>2. TypeOK /\ KnownInv /\ Living
  BY <1>1 DEF SerialInv, IInv, ShutdownInv, WillCheckIn, TimingOut
<1>3. Living'
  <2> USE <1>1, <1>2 DEF Goto, Finish, CheckInDone, TypeOK, store, manager, timers, life, app,
       locks, control
  <2>1. CASE Create(w)
    BY <2>1 DEF Create
  <2>2. CASE Created(w)
    BY <2>2 DEF Created
  <2>3. CASE Restore(w)
    BY <2>3 DEF Restore
  <2>4. CASE Refuse(w)
    BY <2>4 DEF Refuse
  <2>5. CASE Terminate(w)
    BY <2>5 DEF Terminate
  <2>6. CASE LockStore(w)
    BY <2>6 DEF LockStore
  <2>7. CASE CheckOut(w)
    BY <2>7 DEF CheckOut, KnownInv
  <2>8. CASE Mark(w)
    BY <2>8 DEF Mark
  <2>9. CASE Discount(w)
    BY <2>9 DEF Discount
  <2>10. CASE AfterDiscount(w)
    BY <2>10 DEF AfterDiscount
  <2>11. CASE Save(w)
    BY <2>11 DEF Save
  <2>12. CASE CheckIn(w)
    BY <2>12 DEF CheckIn
  <2>13. CASE Update(w)
    BY <2>13 DEF Update
  <2>14. CASE Move(w)
    BY <2>14 DEF Move
  <2>15. CASE Add(w)
    BY <2>15 DEF Add
  <2>16. CASE AddTimer(w)
    BY <2>16 DEF AddTimer
  <2>17. CASE AfterRefuse(w)
    BY <2>17 DEF AfterRefuse
  <2> QED BY <2>1, <2>2, <2>3, <2>4, <2>5, <2>6, <2>7, <2>8, <2>9, <2>10, <2>11, <2>12, <2>13,
     <2>14, <2>15, <2>16, <2>17 DEF WorkerStep, RequestStep, TerminateStep
<1> HIDE DEF Living
<1>4. \A s \in created' \ terminating' : s \in sessions' \/ WillCheckIn(s)'
  BY <1>3 DEF Living, WillCheckIn
<1>5. mgrLock' # Main
  BY <1>3 DEF Living
<1> QED BY <1>1, <1>4, <1>5 DEF ShutdownInv

\* A step of a timer of Main keeps ShutdownInv.
LEMMA ShutdownMain ==
    ASSUME SerialInv, ShutdownInv, OthersIdle(Main), MainStep
    PROVE  ShutdownInv'
<1> USE ThreadsAssumption, ValuesAssumption DEF Threads
<1> DEFINE Living == \A s \in created \ terminating : s \in sessions \/ TimingOut(s)
           Locked == /\ mgrLock = Main => pc[Main] \in {"refusalCheck", "exited"}
                     /\ pc[Main] = "refusalCheck" => ~appTerminating
<1>1. /\ Main \in Threads /\ Main \notin Workers
      /\ TypeOK /\ \A w \in Workers : pc[w] = "idle" /\ mgrLock # w
      /\ pc[Main] \in {"refusalCheck", "refusalLoop", "refusalDrop"} => mgrLock = Main
      /\ Living /\ Locked
  BY DEF SerialInv, IInv, OthersIdle, ShutdownInv, WillCheckIn, MgrHeld
<1>2. Living' /\ Locked'
  <2> USE <1>1 DEF Goto, TypeOK, TimingOut, store, manager, timers, life, app, locks, control
  <2>1. CASE FireTimer
    BY <2>1 DEF FireTimer
  <2>2. CASE HandleTimer
    BY <2>2 DEF HandleTimer
  <2>3. CASE Scan
    BY <2>3 DEF Scan
  <2>4. CASE ScanRaises
    BY <2>4 DEF ScanRaises, UnlockApp
  <2>5. CASE Expire
    BY <2>5 DEF Expire, RemoveFromStore
  <2>6. CASE Drop
    BY <2>6 DEF Drop
  <2>7. CASE EndScan
    BY <2>7 DEF EndScan, UnlockApp
  <2>8. CASE FireRefusal
    BY <2>8 DEF FireRefusal
  <2>9. CASE RefusalCheck
    <3>1. ~ (refusing /\ Len(order) <= MinActive)
      <4>1. pc[Main] = "refusalCheck" /\ Len(order) \in Nat
        BY <2>9 DEF RefusalCheck
      <4> QED BY <4>1, RefusalComesFirst
    <3> QED BY <2>9, <3>1 DEF RefusalCheck
  <2>10. CASE RefusalRemove \/ RefusalDrop \/ RefusalDone
    BY <2>10 DEF RefusalRemove, RefusalDrop, RefusalDone
  <2>11. CASE FireKill
    BY <2>11 DEF FireKill
  <2>12. CASE KillLockApp
    BY <2>12 DEF KillLockApp
  <2>13. CASE Kill
    BY <2>13 DEF Kill
  <2>14. CASE Mark(Main)
    BY <2>14 DEF Mark
  <2>15. CASE Discount(Main)
    BY <2>15 DEF Discount
  <2>16. CASE AfterDiscount(Main)
    BY <2>16 DEF AfterDiscount
  <2> QED BY <2>1, <2>2, <2>3, <2>4, <2>5, <2>6, <2>7, <2>8, <2>9, <2>10, <2>11, <2>12, <2>13,
     <2>14, <2>15, <2>16 DEF MainStep, TimerStep, RefusalStep, TerminateStep
<1> QED BY <1>2 DEF ShutdownInv

\* In an application without threads, none of whose sessions fails to be created,
\* the loop of handleTimerRefusingSessions: (GSWSessionTimeOutManager.m:436) is not
\* reached: once sessions are few enough for it the application is ending already.
\* That a run finds it there for ever takes two threads or a creation that failed.
THEOREM SoftShutdownTakesThreads == SerialSpec => [](pc[Main] # "refusalLoop")
<1>1. Init => ShutdownInv
  BY ThreadsAssumption DEF Init, ShutdownInv, Threads
<1>2. SerialInv /\ ShutdownInv /\ [SerialNext]_vars => ShutdownInv'
  <2> SUFFICES ASSUME SerialInv, ShutdownInv, [SerialNext]_vars
               PROVE  ShutdownInv'
    OBVIOUS
  <2>1. CASE FallDue \/ UNCHANGED vars
    BY <2>1 DEF FallDue, vars, store, life, app, locks, control, ShutdownInv, WillCheckIn, TimingOut
  <2> QED BY <2>1, ShutdownWorker, ShutdownMain DEF SerialNext
<1>3. SerialInv /\ ShutdownInv => pc[Main] # "refusalLoop"
  BY DEF SerialInv, IInv, MgrHeld, ShutdownInv
<1> QED BY <1>1, <1>2, <1>3, SerialInvariant, PTL DEF SerialSpec

(***************************************************************************)
(* An application whose timers do not fire.                                *)
(***************************************************************************)
\* w checks s in, and has cleared the mark of its entry.
ChecksIn(w, s) ==
    storeLock = w /\ sess[w] = s /\ pc[w] \in {"update", "move", "add", "addTimer"}
PoolInv ==
    \A s \in Sessions :
        /\ s \in pool => CheckedOut(s) \/ \E w \in Workers : ChecksIn(w, s)
        /\ CheckedOut(s) => s \in pool /\ \A w \in Workers : ~ChecksIn(w, s)

RequestsInv ==
    /\ IInv /\ pc[Main] = "idle" /\ mgrLock # Main
    /\ PoolInv
    /\ \A s \in sessions \intersect terminating : WillCheckIn(s)

\* What a request that has looked an entry up makes of who is checked out.
LEMMA CheckedOutAfterFind ==
    ASSUME IInv, mgrLock = Nobody,
           NEW s \in Sessions, NEW e \in Entries, FindOrEnter(s, e),
           NEW f \in Entry, entry' = [entry EXCEPT ![e] = f]
    PROVE  /\ \A r \in Sessions \ {s} : CheckedOut(r)' <=> CheckedOut(r)
           /\ CheckedOut(s)' <=> f.checkedOut
           /\ Found(s, e).checkedOut <=> CheckedOut(s)
<1>1. /\ dict' \in [Sessions -> Entries \union {NoEntry}]
      /\ dict'[s] = e
      /\ \A r \in Sessions \ {s} : dict'[r] = dict[r] /\ dict[r] # e
  BY FindOrEnterProps
<1>2. /\ entry \in [Entries -> Entry] /\ dict \in [Sessions -> Entries \union {NoEntry}]
      /\ e # NoEntry
  BY ValuesAssumption DEF IInv, TypeOK
<1>3. \A r \in Sessions \ {s} : CheckedOut(r)' <=> CheckedOut(r)
  BY <1>1, <1>2 DEF CheckedOut
<1>4. CheckedOut(s)' <=> f.checkedOut
  BY <1>1, <1>2 DEF CheckedOut
<1>5. Found(s, e).checkedOut <=> CheckedOut(s)
  <2>1. CASE dict[s] = e
    BY <1>2, <2>1 DEF Found, CheckedOut
  <2>2. CASE dict[s] # e
    <3>1. dict[s] = NoEntry
      BY <2>2 DEF FindOrEnter
    <3>2. Found(s, e) = [sid |-> s, checkedOut |-> FALSE, due |-> FALSE]
      BY <2>2 DEF Found
    <3> QED BY <3>1, <3>2 DEF CheckedOut
  <2> QED BY <2>1, <2>2
<1> QED BY <1>3, <1>4, <1>5

\* A step that leaves every session as checked out as it was.
LEMMA PoolStays ==
    ASSUME PoolInv, pool' = pool,
           \A s \in Sessions : CheckedOut(s)' <=> CheckedOut(s),
           \A u \in Workers, s \in Sessions : ChecksIn(u, s)' <=> ChecksIn(u, s)
    PROVE  PoolInv'
BY DEF PoolInv

\* The end of a check-in, which releases the pool of its session.
LEMMA PoolReleased ==
    ASSUME PoolInv, NEW w \in Workers, sess[w] \in Sessions, ChecksIn(w, sess[w]),
           pool' = pool \ {sess[w]}, storeLock' = Nobody,
           \A s \in Sessions : CheckedOut(s)' <=> CheckedOut(s)
    PROVE  PoolInv'
<1>1. \A s \in Sessions, u \in Workers : ~ChecksIn(u, s)'
  BY ThreadsAssumption DEF ChecksIn
<1>2. \A s \in Sessions \ {sess[w]}, u \in Workers : ~ChecksIn(u, s)
  BY DEF ChecksIn
<1>3. ~CheckedOut(sess[w])
  BY DEF PoolInv
<1> QED BY <1>1, <1>2, <1>3 DEF PoolInv

\* The steps of a request that leave the entries, the pools and the store.
LEMMA QuietStep ==
    ASSUME RequestsInv, NEW w \in Workers,
           Create(w) \/ Created(w) \/ Restore(w) \/ Refuse(w) \/ Terminate(w) \/ LockStore(w)
           \/ Mark(w) \/ Discount(w) \/ AfterDiscount(w) \/ Save(w) \/ AfterRefuse(w)
    PROVE  /\ mgrLock' # Main /\ PoolInv'
           /\ \A s \in sessions' \intersect terminating' : WillCheckIn(s)'
<1> USE ThreadsAssumption DEF Threads
<1>1. /\ TypeOK /\ PoolInv /\ mgrLock # Main
      /\ \A s \in sessions \intersect terminating : WillCheckIn(s)
  BY DEF RequestsInv, IInv
<1>2. /\ UNCHANGED <<sessions, dict, entry, pool>> /\ mgrLock' = mgrLock
      /\ pc[w] \notin {"update", "move", "add", "addTimer"}
      /\ pc'[w] \notin {"update", "move", "add", "addTimer"}
      /\ storeLock' = storeLock \/ (storeLock = Nobody /\ storeLock' = w)
      /\ pc[w] \in {"inUse", "marking", "discounting", "discounted", "checkIn", "checkInEntry"} =>
           /\ sess'[w] = sess[w]
           /\ pc'[w] \in {"inUse", "marking", "discounting", "discounted", "checkIn", "checkInEntry"}
      /\ \/ terminating' = terminating
         \/ terminating' = terminating \union {sess[w]} /\ pc[w] = "marking"
  <2>0. pc \in [Threads -> WorkerPC \union MainPC] /\ w \in Threads
    BY <1>1 DEF TypeOK
  <2> HIDE DEF Threads
  <2> USE <2>0 DEF Goto, store, manager, timers, life, app, locks, control
  <2>1. CASE Create(w)
    BY <2>1 DEF Create
  <2>2. CASE Created(w)
    BY <2>2 DEF Created
  <2>3. CASE Restore(w)
    BY <2>3 DEF Restore
  <2>4. CASE Refuse(w)
    BY <2>4 DEF Refuse
  <2>5. CASE Terminate(w)
    BY <2>5 DEF Terminate
  <2>6. CASE LockStore(w)
    BY <2>6 DEF LockStore
  <2>7. CASE Mark(w)
    BY <2>7 DEF Mark
  <2>8. CASE Discount(w)
    BY <2>8 DEF Discount
  <2>9. CASE AfterDiscount(w)
    BY <2>9 DEF AfterDiscount
  <2>10. CASE Save(w)
    BY <2>10 DEF Save
  <2>11. CASE AfterRefuse(w)
    BY <2>11 DEF AfterRefuse
  <2> QED BY <2>1, <2>2, <2>3, <2>4, <2>5, <2>6, <2>7, <2>8, <2>9, <2>10, <2>11
<1>3. \A u \in Workers \ {w} : pc'[u] = pc[u] /\ sess'[u] = sess[u]
  BY <1>1, WorkerFrame DEF WorkerStep, RequestStep, TerminateStep
<1>4. PoolInv'
  <2>1. \A s \in Sessions : CheckedOut(s)' <=> CheckedOut(s)
    BY <1>2 DEF CheckedOut
  <2>2. \A u \in Workers, s \in Sessions : ChecksIn(u, s)' <=> ChecksIn(u, s)
    BY <1>2, <1>3 DEF ChecksIn
  <2> QED BY <1>1, <1>2, <2>1, <2>2, PoolStays
<1>5. ASSUME NEW s \in sessions' \intersect terminating'
      PROVE  WillCheckIn(s)'
  <2>1. CASE s \in terminating
    <3>1. WillCheckIn(s)
      BY <1>1, <1>2, <2>1
    <3> QED BY <1>2, <1>3, <3>1 DEF WillCheckIn
  <2>2. CASE s \notin terminating
    <3>1. s = sess[w] /\ pc[w] = "marking"
      BY <1>2, <2>2
    <3> QED BY <1>2, <1>3, <3>1 DEF WillCheckIn
  <2> QED BY <2>1, <2>2
<1> QED BY <1>1, <1>2, <1>4, <1>5

\* The steps of a request in the locked regions.
LEMMA LockedStep ==
    ASSUME RequestsInv, NEW w \in Workers,
           CheckOut(w) \/ CheckIn(w) \/ Update(w) \/ Move(w) \/ Add(w) \/ AddTimer(w)
    PROVE  /\ mgrLock' # Main /\ PoolInv'
           /\ \A r \in sessions' \intersect terminating' : WillCheckIn(r)'
<1>1. /\ IInv /\ TypeOK /\ PoolInv /\ mgrLock # Main /\ w \in Threads /\ Nobody # w /\ Main # w
      /\ Nobody # Main
      /\ \A r \in sessions \intersect terminating : WillCheckIn(r)
  BY ThreadsAssumption DEF RequestsInv, IInv, Threads
<1>2. /\ storeLock = w /\ sess[w] \in Sessions
      /\ pc[w] \in {"move", "add", "addTimer"} => mgrLock = w
      /\ pc[w] \in {"move", "add"} => ent[w] \in Entries
      /\ \A u \in Workers, r \in Sessions : ChecksIn(u, r) <=>
           u = w /\ r = sess[w] /\ pc[w] \in {"update", "move", "add", "addTimer"}
  BY DEF CheckOut, CheckIn, Update, Move, Add, AddTimer, RequestsInv, IInv, StoreHeld, MgrHeld,
         SessKnown, EntKnown, ChecksIn
<1>3. PICK s \in Sessions : s = sess[w]
  BY <1>2
<1>4. \A u \in Workers \ {w} : pc'[u] = pc[u] /\ sess'[u] = sess[u]
  BY <1>1, WorkerFrame DEF WorkerStep, RequestStep, TerminateStep, Threads
<1>5. ASSUME sessions' \intersect terminating' \subseteq sessions \intersect terminating,
             NEW gone, 
             pc[w] \in {"inUse", "marking", "discounting", "discounted", "checkIn", "checkInEntry"}
                => gone = sess[w] /\ gone \notin sessions' \intersect terminating'
      PROVE  \A r \in sessions' \intersect terminating' : WillCheckIn(r)'
  <2> SUFFICES ASSUME NEW r \in sessions' \intersect terminating'
               PROVE  WillCheckIn(r)'
    OBVIOUS
  <2>1. WillCheckIn(r)
    BY <1>1, <1>5
  <2> QED BY <1>5, <1>4, <2>1 DEF WillCheckIn
<1>6. CASE CheckOut(w)
  <2>1. /\ mgrLock = Nobody /\ storeLock' = Nobody /\ mgrLock' = mgrLock
        /\ UNCHANGED <<sessions, terminating>> /\ pc[w] = "checkOutEntry"
    BY <1>1, <1>6 DEF CheckOut, Goto, Finish, store, TypeOK
  <2>2. PICK e \in Entries :
          LET free == ~Found(s, e).checkedOut
          IN /\ FindOrEnter(s, e)
             /\ \/ /\ ~free
                   /\ Goto(w, "inUse")
                   /\ UNCHANGED <<pool, entry, sess, tries>>
                \/ /\ free /\ (s \notin sessions \/ s \in pool)
                   /\ entry' = [entry EXCEPT ![e] = Found(s, e)]
                   /\ Finish(w)
                   /\ UNCHANGED pool
                \/ /\ free /\ s \in sessions /\ s \notin pool
                   /\ pool' = pool \union {s}
                   /\ entry' = [entry EXCEPT ![e] =
                                 [Found(s, e) EXCEPT !.checkedOut = TRUE]]
                   /\ Goto(w, "inUse")
                   /\ UNCHANGED <<sess, tries>>
    BY <1>3, <1>6 DEF CheckOut
  <2>3. Found(s, e) \in Entry /\ FindOrEnter(s, e)
    BY <1>1, <1>2, <2>1, <2>2, FindOrEnterProps
  <2> DEFINE f == IF pool' = pool THEN Found(s, e)
                  ELSE [Found(s, e) EXCEPT !.checkedOut = TRUE]
  <2>4. f \in Entry
    BY <2>3 DEF Entry
  <2>5. entry' = [entry EXCEPT ![e] = f]
    <3>1. CASE Found(s, e).checkedOut
      <4>1. Found(s, e) = entry[e] /\ entry' = entry /\ pool' = pool
        BY <2>2, <3>1 DEF Found
      <4> QED BY <1>1, <4>1 DEF TypeOK
    <3>2. CASE ~Found(s, e).checkedOut
      BY <2>2, <3>2
    <3> QED BY <3>1, <3>2
  <2>6. /\ \A r \in Sessions \ {s} : CheckedOut(r)' <=> CheckedOut(r)
        /\ CheckedOut(s)' <=> f.checkedOut
        /\ Found(s, e).checkedOut <=> CheckedOut(s)
    <3> HIDE DEF f
    <3> QED BY <1>1, <1>2, <2>1, <2>3, <2>4, <2>5, CheckedOutAfterFind
  <2>7. \A u \in Workers, r \in Sessions : ~ChecksIn(u, r) /\ ~ChecksIn(u, r)'
    BY <1>1, <1>2, <2>1, ThreadsAssumption DEF ChecksIn
  <2>8. \/ pool' = pool
        \/ pool' = pool \union {s} /\ s \notin pool
    BY <2>2
  <2>9. PoolInv'
    <3>1. CASE pool' = pool
      <4>1. \A r \in Sessions : CheckedOut(r)' <=> CheckedOut(r)
        BY <2>6, <3>1
      <4> QED BY <1>1, <2>7, <3>1, <4>1, PoolStays
    <3>2. CASE pool' # pool
      <4>1. f.checkedOut
        BY <2>3, <3>2 DEF Entry
      <4>2. pool' = pool \union {s} /\ CheckedOut(s)'
        BY <2>6, <2>8, <3>2, <4>1
      <4> HIDE DEF f
      <4> QED BY <1>1, <1>2, <2>6, <2>7, <4>2 DEF PoolInv
    <3> QED BY <3>1, <3>2
  <2> HIDE DEF f
  <2>10. \A r \in sessions' \intersect terminating' : WillCheckIn(r)'
    BY <1>3, <1>5, <2>1
  <2> QED BY <1>1, <2>1, <2>9, <2>10
<1>7. CASE CheckIn(w)
  <2>1. /\ mgrLock = Nobody /\ mgrLock' = mgrLock /\ storeLock' = storeLock
        /\ UNCHANGED <<terminating, pool, sess>> /\ pc[w] = "checkInEntry" /\ pc'[w] = "update"
        /\ sessions' = IF s \in terminating THEN sessions \ {s}
                       ELSE sessions \union {s}
    BY <1>3, <1>1, <1>7 DEF CheckIn, Goto, life, locks, TypeOK
  <2>2. PICK e \in Entries :
          /\ FindOrEnter(s, e)
          /\ entry' = [entry EXCEPT ![e] = [Found(s, e) EXCEPT !.checkedOut = FALSE]]
    BY <1>3, <1>7 DEF CheckIn
  <2>3. Found(s, e) \in Entry
    BY <1>1, <1>2, <2>1, <2>2, FindOrEnterProps
  <2> DEFINE f == [Found(s, e) EXCEPT !.checkedOut = FALSE]
  <2>4. f \in Entry /\ ~f.checkedOut
    BY <2>3 DEF Entry
  <2>5. FindOrEnter(s, e) /\ entry' = [entry EXCEPT ![e] = f]
    BY <2>2
  <2> HIDE DEF f
  <2>6. /\ \A r \in Sessions \ {s} : CheckedOut(r)' <=> CheckedOut(r)
        /\ ~CheckedOut(s)'
    BY <1>1, <1>2, <2>1, <2>4, <2>5, CheckedOutAfterFind
  <2>7. \A u \in Workers, r \in Sessions :
          ~ChecksIn(u, r) /\ (ChecksIn(u, r)' <=> u = w /\ r = s)
    BY <1>3, <1>2, <1>4, <2>1 DEF ChecksIn
  <2>8. PoolInv'
    BY <1>1, <1>2, <2>1, <2>6, <2>7 DEF PoolInv
  <2>9. \A r \in sessions' \intersect terminating' : WillCheckIn(r)'
    BY <1>3, <1>5, <2>1
  <2> QED BY <1>1, <2>1, <2>8, <2>9
<1>8. CASE Update(w)
  <2>1. /\ mgrLock = Nobody /\ mgrLock' = w /\ storeLock' = storeLock
        /\ UNCHANGED <<sessions, terminating, pool, sess>> /\ pc[w] = "update" /\ pc'[w] = "move"
    BY <1>1, <1>8 DEF Update, Goto, store, life, TypeOK
  <2>2. PICK e \in Entries :
          FindOrEnter(s, e) /\ entry' = [entry EXCEPT ![e] = Found(s, e)]
    BY <1>3, <1>8 DEF Update
  <2>3. Found(s, e) \in Entry
    BY <1>1, <1>2, <2>1, <2>2, FindOrEnterProps
  <2>4. \A r \in Sessions : CheckedOut(r)' <=> CheckedOut(r)
    BY <1>1, <1>2, <2>1, <2>2, <2>3, CheckedOutAfterFind
  <2>5. \A u \in Workers, r \in Sessions : ChecksIn(u, r)' <=> ChecksIn(u, r)
    BY <1>4, <2>1 DEF ChecksIn
  <2>6. \A r \in sessions' \intersect terminating' : WillCheckIn(r)'
    BY <1>3, <1>5, <2>1
  <2> QED BY <1>1, <2>1, <2>4, <2>5, <2>6, PoolStays
<1>9. CASE Move(w)
  <2>1. /\ UNCHANGED <<sessions, terminating, pool, sess, dict, entry, mgrLock, storeLock>>
        /\ pc[w] = "move" /\ pc'[w] = "add"
    BY <1>1, <1>9 DEF Move, Goto, store, life, locks, TypeOK
  <2>2. \A r \in Sessions : CheckedOut(r)' <=> CheckedOut(r)
    BY <2>1 DEF CheckedOut
  <2>3. \A u \in Workers, r \in Sessions : ChecksIn(u, r)' <=> ChecksIn(u, r)
    BY <1>4, <2>1 DEF ChecksIn
  <2>4. \A r \in sessions' \intersect terminating' : WillCheckIn(r)'
    BY <1>5, <2>1
  <2> QED BY <1>1, <2>1, <2>2, <2>3, <2>4, PoolStays
<1>10. CASE Add(w) \/ AddTimer(w)
  <2>1. /\ UNCHANGED <<sessions, terminating, dict>>
        /\ pc[w] \in {"add", "addTimer"}
        /\ \/ pc'[w] = "addTimer" /\ UNCHANGED <<pool, storeLock, mgrLock, sess>>
           \/ /\ pool' = pool \ {sess[w]} /\ storeLock' = Nobody /\ mgrLock' = Nobody
    BY <1>1, <1>10 DEF Add, AddTimer, CheckInDone, Finish, Goto, store, manager, life, TypeOK
  <2>2. \A e \in Entries : entry'[e].checkedOut = entry[e].checkedOut
    BY <1>1, <1>2, <1>10 DEF Add, AddTimer, manager, TypeOK, Entry
  <2>3. \A r \in Sessions : CheckedOut(r)' <=> CheckedOut(r)
    BY <1>1, <2>1, <2>2 DEF CheckedOut, TypeOK
  <2>4. ChecksIn(w, sess[w])
    BY <1>2, <2>1
  <2>5. PoolInv'
    <3>1. CASE pc'[w] = "addTimer" /\ UNCHANGED <<pool, storeLock, mgrLock, sess>>
      <4>1. \A u \in Workers, r \in Sessions : ChecksIn(u, r)' <=> ChecksIn(u, r)
        BY <1>4, <2>1, <3>1 DEF ChecksIn
      <4> QED BY <1>1, <2>3, <3>1, <4>1, PoolStays
    <3>2. CASE pool' = pool \ {sess[w]} /\ storeLock' = Nobody
      BY <1>1, <1>2, <2>3, <2>4, <3>2, PoolReleased
    <3> QED BY <2>1, <3>1, <3>2
  <2>6. \A r \in sessions' \intersect terminating' : WillCheckIn(r)'
    BY <1>5, <2>1
  <2> QED BY <1>1, <2>1, <2>5, <2>6
<1> QED BY <1>6, <1>7, <1>8, <1>9, <1>10

\* Every step of the requests keeps their invariant.
LEMMA RequestsNextInv ==
    ASSUME RequestsInv, [WorkersNext]_vars
    PROVE  RequestsInv'
<1>1. IInv'
  <2>1. [Next]_vars
    BY DEF WorkersNext, Next
  <2> QED BY <2>1, NextInv DEF RequestsInv
<1>2. ASSUME NEW w \in Workers, WorkerStep(w)
      PROVE  RequestsInv'
  <2>1. pc'[Main] = "idle"
    BY <1>2, WorkerFrame, ThreadsAssumption DEF RequestsInv, IInv, Threads
  <2>2. mgrLock' # Main /\ PoolInv' /\ \A s \in sessions' \intersect terminating' : WillCheckIn(s)'
    BY <1>2, QuietStep, LockedStep DEF WorkerStep, RequestStep, TerminateStep
  <2> QED BY <1>1, <2>1, <2>2 DEF RequestsInv
<1>3. CASE UNCHANGED vars
  <2>1. pc'[Main] = "idle" /\ mgrLock' # Main
    BY <1>3 DEF RequestsInv, vars, locks, control
  <2>2. PoolInv' /\ \A s \in sessions' \intersect terminating' : WillCheckIn(s)'
    BY <1>3 DEF RequestsInv, PoolInv, CheckedOut, ChecksIn, WillCheckIn, vars, store, manager,
       life, locks, control
  <2> QED BY <1>1, <2>1, <2>2 DEF RequestsInv
<1> QED BY <1>2, <1>3 DEF WorkersNext

\* The invariant of the requests holds in a quiet behaviour.
LEMMA RequestsInvariant == RequestsSpec => [](quiet => RequestsInv)
<1>1. RequestsInit => (quiet => RequestsInv)
  <2> SUFFICES ASSUME Init PROVE RequestsInv
    BY DEF RequestsInit
  <2>1. IInv
    BY InitInv
  <2> QED BY <2>1, ThreadsAssumption DEF Init, RequestsInv, PoolInv, CheckedOut, Threads
<1>2. (quiet => RequestsInv) /\ [RequestsNext]_requestVars => (quiet => RequestsInv)'
  <2> SUFFICES ASSUME quiet => RequestsInv, [RequestsNext]_requestVars, quiet'
               PROVE  RequestsInv'
    OBVIOUS
  <2>1. quiet /\ [WorkersNext]_vars
    BY DEF RequestsNext, requestVars
  <2> QED BY <2>1, RequestsNextInv
<1> QED BY <1>1, <1>2, PTL DEF RequestsSpec

\* As long as no timer fires, a session owns an autorelease pool exactly while
\* its entry is checked out, whatever requests share it: a check-out never
\* finds the pool of another request, which is what makes it fail.
THEOREM PoolFollowsCheckOut == RequestsSpec => []RequestsKeepPool
<1>1. (quiet => RequestsInv) => RequestsKeepPool
  BY ThreadsAssumption DEF RequestsInv, PoolInv, ChecksIn, RequestsKeepPool
<1> QED BY <1>1, RequestsInvariant, PTL

\* As long as no timer fires, a terminated session is in the store only while
\* a request has it that will check it in, and so take it out of the store.
THEOREM TerminatedIsRemoved == RequestsSpec => []RequestsTerminate
<1>1. (quiet => RequestsInv) => RequestsTerminate
  BY DEF RequestsInv, WillCheckIn, RequestsTerminate, Using
<1> QED BY <1>1, RequestsInvariant, PTL
=============================================================================
