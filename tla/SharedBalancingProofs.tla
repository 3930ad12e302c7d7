----------------------- MODULE SharedBalancingProofs -----------------------
(***************************************************************************)
(* Proofs about mod_gsw: its balancing (SharedBalancing), for any number   *)
(* of processes, App directives and retries, and the request that an       *)
(* instance gets (GswHandler), for any URL and any instances configured.   *)
(***************************************************************************)
EXTENDS SharedBalancing, GswHandler, ArrayLemmas

(***************************************************************************)
(* The inductive invariant.                                                *)
(***************************************************************************)
RequestType ==
    [pc : Labels, host : Hosts, want : Cells \union {AnyInstance},
     app : Cells \union {NoApp}, tries : 0 .. RETRY_COUNT,
     answer : Failure \union Final \union {"none"}, slow : BOOLEAN, failed : SUBSET Cells]

\* Where a request is says how often it was tried, whether it has an instance
\* and whether it has an answer.
PlaceOK(r) ==
    /\ r.pc \in {"idle", "dead"} => r.failed = {} /\ r.tries = 0
    /\ r.pc = "attempt" => r.tries < RETRY_COUNT
    /\ r.pc \in {"connected", "unreachable", "record"} => r.app \in Cells
    /\ r.pc \in {"idle", "dead", "search", "attempt", "connected", "unreachable"} =>
         r.answer = "none"

\* There are requests in a running server only.
RequestsOK ==
    \A p \in Processes : PlaceOK(req[p]) /\ (phase = "config" => req[p].pc = "idle")

\* The marks that a request set are there, unless it knows better.
MarksAreThere ==
    \A p \in Processes : \A c \in req[p].failed : ~mem[c].old /\ mem[c].unreachable

\* From the choice of an instance to the record of its answer it is none that
\* the request marked where find_app sees the mark.
AnotherIsTried ==
    \A p \in Processes :
        /\ req[p].pc \in {"attempt", "connected", "record"} /\ req[p].want = AnyInstance
        /\ Len(app_table[req[p].host]) > 1
        => \A c \in req[p].failed : InPlace(req[p].host, c) => req[p].app # c

SBInv == TypeOK /\ RequestsOK
MarksInv == MarksAreThere /\ AnotherIsTried

(***************************************************************************)
(* Lemmas.                                                                 *)
(***************************************************************************)
\* find_app_by_name gives an instance of the table, and with more than one
\* instance one without a mark.
LEMMA FindByNameIs ==
  ASSUME TypeOK, NEW h \in Hosts, NEW copy
  PROVE  \/ FindByName(copy, h) = NoApp
         \/ \E k \in Places(h) : /\ FindByName(copy, h) = app_table[h][k]
                                 /\ Len(app_table[h]) > 1 => ~Marked(copy, k)
<1> DEFINE free == {k \in Places(h) : ~Marked(copy, k)}
           least == {k \in free : \A j \in free : copy[CellOf(k)].load <= copy[CellOf(j)].load}
           last == CHOOSE k \in least : \A j \in least : j <= k
<1>1. Len(app_table[h]) \in Nat  BY DEF TypeOK
<1>2. CASE least # {}
  <2>1. least \subseteq 1 .. Len(app_table[h])  BY DEF Places
  <2>a. least \subseteq 0 .. Len(app_table[h])  BY <1>1, <2>1
  <2>2. \E k \in least : \A j \in least : j <= k  BY <1>1, <1>2, <2>a, GreatestOf
  <2>3. last \in least  BY <2>2
  <2>4. FindByName(copy, h) = app_table[h][last]  BY <1>2 DEF FindByName
  <2>5. last \in Places(h) /\ ~Marked(copy, last)  BY <2>3
  <2>6. QED  BY <2>4, <2>5
<1>3. CASE least = {}
  <2>1. FindByName(copy, h) = IF Len(app_table[h]) = 1 /\ copy[CellOf(1)].unreachable
                        THEN app_table[h][1] ELSE NoApp
    BY <1>3 DEF FindByName
  <2>2. CASE Len(app_table[h]) = 1  BY <2>1, <2>2 DEF Places
  <2>3. CASE Len(app_table[h]) # 1  BY <2>1, <2>3
  <2>4. QED  BY <2>2, <2>3
<1>4. QED  BY <1>2, <1>3

LEMMA FindAppType ==
  ASSUME TypeOK, NEW p \in Processes, NEW copy
  PROVE  FindApp(copy, p) \in Cells \union {NoApp}
<1>1. req[p].host \in Hosts  BY DEF TypeOK
<1>2. \A h \in Hosts : \A k \in Places(h) : app_table[h][k] \in Cells
  BY DEF TypeOK, Places
<1>3. FindByName(copy, req[p].host) \in Cells \union {NoApp}
  BY <1>1, <1>2, FindByNameIs
<1>4. req[p].want # AnyInstance => req[p].want \in Cells  BY DEF TypeOK
<1>5. QED  BY <1>3, <1>4 DEF FindApp

LEMMA IdleType ==
  /\ Idle \in RequestType /\ PlaceOK(Idle) /\ Idle.pc = "idle"
  /\ [Idle EXCEPT !.pc = "dead"] \in RequestType
  /\ PlaceOK([Idle EXCEPT !.pc = "dead"])
<1>1. (CHOOSE h \in Hosts : TRUE) \in Hosts  BY NamesAssumption
<1>2. 0 \in 0 .. RETRY_COUNT  BY CountsAssumption
<1>3. Idle \in RequestType  BY <1>1, <1>2 DEF Idle, RequestType, Labels
<1>4. [Idle EXCEPT !.pc = "dead"] \in RequestType  BY <1>3 DEF RequestType, Labels
<1>5. PlaceOK(Idle) /\ Idle.pc = "idle" /\ PlaceOK([Idle EXCEPT !.pc = "dead"])
  BY DEF Idle, PlaceOK
<1>6. QED  BY <1>3, <1>4, <1>5

\* A step of one request.
LEMMA OneRequest ==
  ASSUME SBInv, NEW p \in Processes, NEW r \in RequestType, PlaceOK(r),
         req' = [req EXCEPT ![p] = r], mem' = mem \/ mem' \in [Cells -> CellType],
         UNCHANGED config, UNCHANGED up, phase # "config"
  PROVE  SBInv'
  BY DEF SBInv, TypeOK, RequestType, CellType, RequestsOK, config

\* Marks that count no longer.
LEMMA UnmarkedKeeps ==
  ASSUME SBInv, NEW C
  PROVE  /\ Unmarked(C) \in [Processes -> RequestType]
         /\ \A q \in Processes :
              /\ PlaceOK(Unmarked(C)[q]) /\ Unmarked(C)[q].failed = req[q].failed \ C
              /\ Unmarked(C)[q].tries = req[q].tries /\ Unmarked(C)[q].answer = req[q].answer
              /\ Unmarked(C)[q].pc = req[q].pc /\ Unmarked(C)[q].app = req[q].app
              /\ Unmarked(C)[q].want = req[q].want /\ Unmarked(C)[q].host = req[q].host
<1>1. \A q \in Processes : req[q] \in RequestType /\ PlaceOK(req[q])
  BY DEF SBInv, TypeOK, RequestsOK, RequestType
<1>2. \A q \in Processes : /\ [req[q] EXCEPT !.failed = @ \ C] \in RequestType
  BY <1>1 DEF RequestType
<1>3. \A q \in Processes : PlaceOK([req[q] EXCEPT !.failed = @ \ C])
  BY <1>1 DEF RequestType, PlaceOK
<1>4. \A q \in Processes : Unmarked(C)[q] = [req[q] EXCEPT !.failed = @ \ C]
  BY DEF Unmarked
<1>5. Unmarked(C) \in [Processes -> RequestType]  BY <1>2 DEF Unmarked
<1>6. QED  BY <1>1, <1>3, <1>4, <1>5 DEF RequestType

\* What the record of an answer makes of the cell.
LEMMA RecordedType ==
  ASSUME SBInv, NEW p \in Processes, Record(p), req[p].app \in Cells
  PROVE  mem' \in [Cells -> CellType]
<1>1. mem \in [Cells -> CellType]  BY DEF SBInv, TypeOK, CellType
<1>2. CASE MarkRefusing(p)  BY <1>1, <1>2 DEF MarkRefusing, CellType
<1>3. CASE UpdateStatistics(p)  BY <1>1, <1>3 DEF UpdateStatistics, CellType
<1>4. QED  BY <1>2, <1>3 DEF Record

LEMMA SBInvInit == Init => SBInv
<1> SUFFICES ASSUME Init PROVE SBInv
  OBVIOUS
<1>1. app_table \in [Hosts -> Seq(Cells)]  BY EmptySeq DEF Init
<1>2. TypeOK
  BY <1>1, IdleType, CountsAssumption, NamesAssumption DEF Init, TypeOK, RequestType, CellType, Cells, Empty
<1>3. RequestsOK  BY IdleType DEF Init, RequestsOK
<1>4. QED  BY <1>2, <1>3 DEF SBInv

LEMMA SBInvNext == SBInv /\ [Next]_vars => SBInv'
<1> SUFFICES ASSUME SBInv, [Next]_vars PROVE SBInv'
  OBVIOUS
<1> USE CountsAssumption, NamesAssumption DEF SBInv
<1>1. ASSUME NEW p \in Processes, Begin(p) PROVE SBInv'
  <2>0. PICK h \in Hosts, w \in Numbers \union {AnyInstance} :
          req' = [req EXCEPT ![p].pc = "search", ![p].host = h, ![p].want = w]
    BY <1>1 DEF Begin
  <2> DEFINE r == [req[p] EXCEPT !.pc = "search", !.host = h, !.want = w]
  <2>1. req' = [req EXCEPT ![p] = r]  BY <2>0 DEF TypeOK
  <2>2. req[p] \in RequestType  BY DEF TypeOK, RequestType
  <2>3. w \in Cells \union {AnyInstance}  BY DEF Cells
  <2>4. r \in RequestType  BY <2>2, <2>3 DEF RequestType, Labels
  <2>5. PlaceOK(r) /\ phase # "config"
    BY <1>1, <2>2 DEF Begin, RequestsOK, PlaceOK, RequestType
  <2> HIDE DEF r
  <2>6. QED  BY <1>1, <2>1, <2>4, <2>5, OneRequest DEF Begin, config
<1>2. ASSUME NEW p \in Processes, Search(p) PROVE SBInv'
  <2>0. PICK copy :
          \E next \in {"attempt", "reply"} :
            /\ req[p].tries > 0 => next = AnotherOrPage(p)
            /\ req' = [req EXCEPT ![p] = [req[p] EXCEPT !.pc = next, !.app = FindApp(copy, p)]]
    BY <1>2 DEF Search, TypeOK
  <2>1. PICK next \in {"attempt", "reply"} :
          /\ req[p].tries > 0 => next = AnotherOrPage(p)
          /\ req' = [req EXCEPT ![p] = [req[p] EXCEPT !.pc = next, !.app = FindApp(copy, p)]]
    BY <2>0
  <2> DEFINE r == [req[p] EXCEPT !.pc = next, !.app = FindApp(copy, p)]
  <2>2. req[p] \in RequestType /\ req[p].pc = "search"
    BY <1>2 DEF Search, TypeOK, RequestType
  <2>3. r \in RequestType  BY <2>2, FindAppType DEF RequestType, Labels
  <2>4. PlaceOK(r)
    BY <2>1, <2>2 DEF RequestsOK, PlaceOK, RequestType, AnotherOrPage
  <2>5. phase # "config"  BY <2>2 DEF RequestsOK
  <2>6. UNCHANGED <<config, mem, up>>  BY <1>2 DEF Search
  <2>7. req' = [req EXCEPT ![p] = r]  BY <2>1
  <2> HIDE DEF r
  <2>8. QED  BY <2>3, <2>4, <2>5, <2>6, <2>7, OneRequest
<1>3. ASSUME NEW p \in Processes, Connect(p) PROVE SBInv'
  <2> DEFINE r == [req[p] EXCEPT !.slow = FALSE, !.tries = @ + 1, !.pc =
                     IF req[p].app \in up THEN "connected" ELSE "unreachable"]
  <2>1. req' = [req EXCEPT ![p] = r]  BY <1>3 DEF Connect, TypeOK
  <2>2. /\ req[p] \in RequestType /\ req[p].pc = "attempt" /\ req[p].app # NoApp
        /\ req[p].tries < RETRY_COUNT
    BY <1>3 DEF Connect, TypeOK, RequestType, RequestsOK, PlaceOK
  <2>a. req[p].tries + 1 \in 0 .. RETRY_COUNT  BY <2>2 DEF RequestType
  <2>3. r \in RequestType  BY <2>2, <2>a DEF RequestType, Labels
  <2>4. PlaceOK(r)  BY <2>2 DEF RequestsOK, PlaceOK, RequestType
  <2>5. phase # "config"  BY <2>2 DEF RequestsOK
  <2> HIDE DEF r
  <2>6. QED  BY <1>3, <2>1, <2>3, <2>4, <2>5, OneRequest DEF Connect, config
<1>4. ASSUME NEW p \in Processes, Crash(p) \/ Fault(p) PROVE SBInv'
  <2>1. /\ req' = [req EXCEPT ![p] = [Idle EXCEPT !.pc = "dead"]]
        /\ req[p].pc \in {"attempt", "search", "unreachable", "record"}
        /\ UNCHANGED <<config, mem, up>>
    BY <1>4 DEF Crash, Fault
  <2>2. phase # "config"  BY <2>1 DEF RequestsOK
  <2>3. QED  BY <2>1, <2>2, IdleType, OneRequest
<1>5. ASSUME NEW p \in Processes, ChildInit(p) PROVE SBInv'
  <2>1. req' \in [Processes -> RequestType]
    BY <1>5, IdleType DEF ChildInit, Idle, TypeOK, RequestType, Labels, Failure, Final
  <2>2. \A q \in Processes : PlaceOK(req'[q]) /\ (phase = "config" => req'[q].pc = "idle")
    BY <1>5, IdleType DEF ChildInit, Idle, RequestsOK, PlaceOK, TypeOK, RequestType, Failure, Final
  <2>3. QED  BY <1>5, <2>1, <2>2 DEF ChildInit, TypeOK, RequestType, RequestsOK, config
<1>6. ASSUME NEW p \in Processes, MarkUnreachable(p) PROVE SBInv'
  <2> DEFINE r == [req[p] EXCEPT !.pc = "search", !.app = NoApp,
                                 !.failed = @ \union {req[p].app}]
  <2>1. req' = [req EXCEPT ![p] = r]  BY <1>6 DEF MarkUnreachable, TypeOK
  <2>2. req[p] \in RequestType /\ req[p].pc = "unreachable" /\ req[p].app \in Cells
    BY <1>6 DEF MarkUnreachable, TypeOK, RequestType, RequestsOK, PlaceOK
  <2>3. r \in RequestType  BY <2>2 DEF RequestType, Labels
  <2>4. PlaceOK(r)  BY <2>2 DEF RequestsOK, PlaceOK, RequestType
  <2>5. phase # "config"  BY <2>2 DEF RequestsOK
  <2>6. mem' \in [Cells -> CellType]
    <3>1. mem \in [Cells -> CellType]  BY DEF TypeOK, CellType
    <3>2. mem' = [mem EXCEPT ![req[p].app].old = FALSE, ![req[p].app].unreachable = TRUE]
      BY <1>6 DEF MarkUnreachable
    <3>3. QED  BY <2>2, <3>1, <3>2 DEF CellType
  <2> HIDE DEF r
  <2>7. QED  BY <1>6, <2>1, <2>3, <2>4, <2>5, <2>6, OneRequest DEF MarkUnreachable, config
<1>7. ASSUME NEW p \in Processes, Exchange(p) PROVE SBInv'
  <2>1. /\ req[p] \in RequestType /\ req[p].pc = "connected" /\ req[p].app \in Cells
        /\ req[p].answer = "none"
    BY <1>7 DEF Exchange, TypeOK, RequestType, RequestsOK, PlaceOK
  <2>2. phase # "config"  BY <2>1 DEF RequestsOK
  <2>3. \E r : req' = [req EXCEPT ![p] = r] /\ r \in RequestType /\ PlaceOK(r)
    <3>1. CASE req' = [req EXCEPT ![p].pc = "endless"]
      <4>1. req' = [req EXCEPT ![p] = [req[p] EXCEPT !.pc = "endless"]]
        BY <3>1 DEF TypeOK
      <4>2. [req[p] EXCEPT !.pc = "endless"] \in RequestType
        BY <2>1 DEF RequestType, Labels
      <4>3. PlaceOK([req[p] EXCEPT !.pc = "endless"])
        BY <2>1 DEF PlaceOK, RequestType
      <4>4. QED  BY <4>1, <4>2, <4>3
    <3>2. ASSUME NEW a \in Failure \union Final,
                 req' = [req EXCEPT ![p].answer = IF a = "garbled" THEN "none" ELSE a,
                                    ![p].pc = IF a = "garbled" THEN AnotherOrPage(p) ELSE "record"]
          PROVE  \E r : req' = [req EXCEPT ![p] = r] /\ r \in RequestType /\ PlaceOK(r)
      <4> DEFINE r == [req[p] EXCEPT !.answer = IF a = "garbled" THEN "none" ELSE a,
                                     !.pc = IF a = "garbled" THEN AnotherOrPage(p) ELSE "record"]
      <4>1. req' = [req EXCEPT ![p] = r]  BY <3>2 DEF TypeOK
      <4>2. AnotherOrPage(p) \in {"attempt", "reply"}
            /\ (AnotherOrPage(p) = "attempt" => req[p].tries < RETRY_COUNT)
        BY DEF AnotherOrPage
      <4>3. r \in RequestType  BY <2>1, <4>2 DEF RequestType, Labels
      <4>4. PlaceOK(r)  BY <2>1, <4>2 DEF PlaceOK, RequestType
      <4>5. QED  BY <4>1, <4>3, <4>4
    <3>3. QED  BY <1>7, <3>1, <3>2 DEF Exchange
  <2>4. QED  BY <1>7, <2>2, <2>3, OneRequest DEF Exchange, config
<1>8. ASSUME NEW p \in Processes, Record(p) PROVE SBInv'
  <2>1. /\ req[p] \in RequestType /\ req[p].pc = "record" /\ req[p].app \in Cells
    BY <1>8 DEF Record, TypeOK, RequestType, RequestsOK, PlaceOK
  <2>2. phase # "config"  BY <2>1 DEF RequestsOK
  <2> DEFINE told == IF req[p].answer = "refused" THEN req ELSE Unmarked({req[p].app})
             r == [told[p] EXCEPT !.pc = AfterRecord(p), !.slow = FALSE,
                                  !.answer = IF @ \in Final THEN @ ELSE "none"]
  <2>3. /\ told \in [Processes -> RequestType]
        /\ \A q \in Processes : /\ PlaceOK(told[q])
                                /\ told[q].tries = req[q].tries /\ told[q].answer = req[q].answer
    <3>1. CASE req[p].answer = "refused"
      BY <3>1 DEF RequestsOK, TypeOK, RequestType
    <3>2. CASE req[p].answer # "refused"
      <4>1. told = Unmarked({req[p].app})  BY <3>2
      <4>2. QED  BY <4>1, UnmarkedKeeps
    <3>3. QED  BY <3>1, <3>2
  <2>4. AfterRecord(p) \in {"attempt", "reply"}
        /\ (AfterRecord(p) = "attempt" => /\ req[p].tries < RETRY_COUNT
                                          /\ req[p].answer \notin Final)
    BY DEF AfterRecord, AnotherOrPage
  <2>5. req' = [told EXCEPT ![p] = r]
    <3> HIDE DEF told
    <3>1. req' = [told EXCEPT ![p].pc = AfterRecord(p), ![p].slow = FALSE,
                              ![p].answer = IF @ \in Final THEN @ ELSE "none"]
      BY <1>8 DEF Record, told
    <3>2. QED  BY <2>3, <3>1
  <2> HIDE DEF told
  <2>6. r \in RequestType
    <3>1. told[p] \in RequestType  BY <2>3
    <3>2. QED  BY <2>4, <3>1 DEF RequestType, Labels
  <2>7. PlaceOK(r)  BY <2>3, <2>4 DEF PlaceOK, RequestType
  <2>8. req' \in [Processes -> RequestType] /\ \A q \in Processes : PlaceOK(req'[q])
    BY <2>3, <2>5, <2>6, <2>7
  <2>9. mem' \in [Cells -> CellType]
    BY <1>8, <2>1, RecordedType
  <2>10. QED  BY <1>8, <2>2, <2>8, <2>9 DEF Record, TypeOK, RequestType, CellType, RequestsOK, config
<1>9. ASSUME NEW p \in Processes, Return(p) PROVE SBInv'
  <2>1. req' \in [Processes -> RequestType]
    BY <1>9, IdleType DEF Return, Idle, TypeOK, RequestType, Labels, Failure, Final
  <2>2. \A q \in Processes : PlaceOK(req'[q]) /\ (phase = "config" => req'[q].pc = "idle")
    BY <1>9, IdleType DEF Return, Idle, RequestsOK, PlaceOK, TypeOK, RequestType, Failure, Final
  <2>3. QED  BY <1>9, <2>1, <2>2 DEF Return, TypeOK, RequestType, RequestsOK, config
<1>10. ASSUME NEW p \in Processes, AnswerTakesLong(p) PROVE SBInv'
  <2> DEFINE r == [req[p] EXCEPT !.slow = TRUE]
  <2>1. req' = [req EXCEPT ![p] = r]  BY <1>10 DEF AnswerTakesLong, TypeOK
  <2>2. req[p] \in RequestType /\ req[p].pc = "connected"
    BY <1>10 DEF AnswerTakesLong, TypeOK, RequestType
  <2>3. r \in RequestType /\ PlaceOK(r)
    BY <2>2 DEF RequestType, RequestsOK, PlaceOK
  <2>4. phase # "config"  BY <2>2 DEF RequestsOK
  <2> HIDE DEF r
  <2>5. QED  BY <1>10, <2>1, <2>3, <2>4, OneRequest DEF AnswerTakesLong, config
<1>11. ASSUME SetInstCount PROVE SBInv'
  <2>1. TypeOK'  BY <1>11 DEF SetInstCount, TypeOK, RequestType, CellType, Empty, Cells, vars, config
  <2>2. RequestsOK'  BY <1>11 DEF SetInstCount, RequestsOK, PlaceOK, TypeOK, Unmarked, vars, config
  <2>3. QED  BY <2>1, <2>2
<1>12. ASSUME PostConfig PROVE SBInv'
  <2>1. TypeOK'  BY <1>12 DEF PostConfig, TypeOK, RequestType, CellType, Empty, Cells, vars, config
  <2>2. RequestsOK'  BY <1>12 DEF PostConfig, RequestsOK, PlaceOK, TypeOK, Unmarked, vars, config
  <2>3. QED  BY <2>1, <2>2
<1>13. ASSUME NEW h \in Hosts, SetApp(h) PROVE SBInv'
  <2>1. TypeOK'  BY <1>13 DEF SetApp, TypeOK, RequestType, CellType, Empty, Cells, vars, config
  <2>2. RequestsOK'  BY <1>13 DEF SetApp, RequestsOK, PlaceOK, TypeOK, Unmarked, vars, config
  <2>3. QED  BY <2>1, <2>2
<1>14. ASSUME NEW c \in Cells, StartOrStop(c) PROVE SBInv'
  <2>1. TypeOK'  BY <1>14 DEF StartOrStop, TypeOK, RequestType, CellType, Empty, Cells, vars, config
  <2>2. RequestsOK'  BY <1>14 DEF StartOrStop, RequestsOK, PlaceOK, TypeOK, Unmarked, vars, config
  <2>3. QED  BY <2>1, <2>2
<1>15. ASSUME NEW c \in Cells, Age(c) PROVE SBInv'
  <2>1. mem' \in [Cells -> CellType]  BY <1>15 DEF Age, TypeOK, CellType
  <2>2. /\ req' \in [Processes -> RequestType]
        /\ \A q \in Processes : PlaceOK(req'[q]) /\ req'[q].pc = req[q].pc
    BY <1>15, UnmarkedKeeps DEF Age
  <2>3. TypeOK'  BY <1>15, <2>1, <2>2 DEF Age, TypeOK, RequestType, CellType, config
  <2>4. RequestsOK'  BY <1>15, <2>2 DEF Age, RequestsOK, config
  <2>5. QED  BY <2>3, <2>4
<1>16. ASSUME UNCHANGED vars PROVE SBInv'
  <2>1. TypeOK'  BY <1>16 DEF TypeOK, RequestType, CellType, Empty, Cells, vars, config
  <2>2. RequestsOK'  BY <1>16 DEF RequestsOK, PlaceOK, TypeOK, Unmarked, vars, config
  <2>3. QED  BY <2>1, <2>2
<1> QED  BY <1>1, <1>2, <1>3, <1>4, <1>5, <1>6, <1>7, <1>8, <1>9, <1>10, <1>11, <1>12, <1>13, <1>14, <1>15, <1>16 DEF Next, RequestStep

\* What a request marked where find_app sees it is not what it tries next.
LEMMA MarksInvNext == SBInv /\ SBInv' /\ MarksInv /\ [Next]_vars => MarksInv'
<1> SUFFICES ASSUME SBInv, SBInv', MarksInv, [Next]_vars PROVE MarksInv'
  OBVIOUS
<1> USE CountsAssumption, NamesAssumption DEF SBInv, MarksInv
<1>1. ASSUME NEW h \in Hosts, SetApp(h) PROVE MarksInv'
  <2>2. MarksAreThere'  BY <1>1 DEF SetApp, MarksAreThere
  <2>3. AnotherIsTried'  BY <1>1 DEF SetApp, AnotherIsTried, RequestsOK
  <2>4. QED  BY <2>2, <2>3
<1>2. ASSUME UNCHANGED <<req, app_table, instance_count>>, MarksAreThere' PROVE MarksInv'
  <2>1. AnotherIsTried'  BY <1>2 DEF AnotherIsTried, InPlace, Places
  <2>2. QED  BY <1>2, <2>1
<1>3. CASE SetInstCount
  <2>1. MarksAreThere'  BY <1>3 DEF SetInstCount, MarksAreThere
  <2>2. AnotherIsTried'  BY <1>3 DEF SetInstCount, AnotherIsTried, RequestsOK
  <2>3. QED  BY <2>1, <2>2
<1>4. CASE PostConfig
  <2>1. \A p \in Processes : req[p].failed = {}
    BY <1>4 DEF PostConfig, RequestsOK, PlaceOK
  <2>2. MarksAreThere'  BY <1>4, <2>1 DEF PostConfig, MarksAreThere
  <2>3. QED  BY <1>2, <1>4, <2>2 DEF PostConfig
<1>5. ASSUME NEW c \in Cells, StartOrStop(c) PROVE MarksInv'
  BY <1>2, <1>5 DEF StartOrStop, MarksAreThere, config
<1>6. ASSUME NEW c \in Cells, Age(c) PROVE MarksInv'
  <2>1. \A q \in Processes :
          /\ req'[q].failed = req[q].failed \ {c} /\ req'[q].pc = req[q].pc
          /\ req'[q].app = req[q].app /\ req'[q].want = req[q].want /\ req'[q].host = req[q].host
    BY <1>6, UnmarkedKeeps DEF Age
  <2>2. \A d \in Cells \ {c} : mem'[d] = mem[d]  BY <1>6 DEF Age, TypeOK
  <2>3. \A q \in Processes : req[q].failed \subseteq Cells  BY DEF TypeOK
  <2>4. MarksAreThere'  BY <2>1, <2>2, <2>3 DEF MarksAreThere
  <2>5. UNCHANGED <<app_table, instance_count>>  BY <1>6 DEF Age, config
  <2>6. \A h, d : InPlace(h, d)' = InPlace(h, d)  BY <2>5 DEF InPlace, Places
  <2>7. AnotherIsTried'  BY <2>1, <2>5, <2>6 DEF AnotherIsTried
  <2>8. QED  BY <2>4, <2>7
<1>7. ASSUME NEW p \in Processes, UNCHANGED <<config, mem>>,
             \A q \in Processes \ {p} : req'[q] = req[q],
             req'[p].failed \subseteq req[p].failed,
             /\ req'[p].pc \in {"attempt", "connected", "record"} /\ req'[p].want = AnyInstance
             /\ Len(app_table[req'[p].host]) > 1
             => \A c \in req'[p].failed : InPlace(req'[p].host, c) => req'[p].app # c
      PROVE  MarksInv'
  <2>1. \A h, c : InPlace(h, c)' = InPlace(h, c)  BY <1>7 DEF config, InPlace, Places
  <2>2. MarksAreThere'  BY <1>7 DEF MarksAreThere
  <2>3. AnotherIsTried'  BY <1>7, <2>1 DEF config, AnotherIsTried
  <2>4. QED  BY <2>2, <2>3
<1>8. ASSUME NEW p \in Processes, Begin(p) PROVE MarksInv'
  <2>1. /\ \A q \in Processes \ {p} : req'[q] = req[q]
        /\ req'[p].failed = req[p].failed /\ req'[p].pc = "search"
    BY <1>8 DEF Begin, TypeOK
  <2>2. QED  BY <1>7, <1>8, <2>1 DEF Begin
<1>9. ASSUME NEW p \in Processes, Search(p) PROVE MarksInv'
  <2> DEFINE h == req[p].host
  <2>0. PICK behind \in [Beyond(h) -> CellType] :
          \E next \in {"attempt", "reply"} :
            req' = [req EXCEPT ![p].pc = next, ![p].app = FindApp(Copied(behind), p)]
    BY <1>9 DEF Search
  <2> DEFINE copy == Copied(behind)
  <2>1. /\ \A q \in Processes \ {p} : req'[q] = req[q]
        /\ req'[p].failed = req[p].failed /\ req'[p].app = FindApp(copy, p)
        /\ req'[p].want = req[p].want /\ req'[p].host = h
    BY <2>0 DEF TypeOK
  <2>2. ASSUME req[p].want = AnyInstance, Len(app_table[h]) > 1,
               NEW c \in req[p].failed, InPlace(h, c)
        PROVE  FindApp(copy, p) # c
    <3>1. h \in Hosts /\ c \in Cells  BY DEF TypeOK
    <3>2. FindApp(copy, p) = FindByName(copy, h)  BY <2>2 DEF FindApp
    <3>3. copy[c] = mem[c]  BY <2>2, <3>1 DEF InPlace, Copied
    <3>4. CASE FindByName(copy, h) = NoApp  BY <3>1, <3>2, <3>4 DEF Cells
    <3>5. ASSUME NEW k \in Places(h), FindByName(copy, h) = app_table[h][k],
                 Len(app_table[h]) > 1 => ~Marked(copy, k), FindByName(copy, h) = c
          PROVE  FALSE
      <4>1. ~Marked(copy, k) /\ CellOf(k) = c  BY <2>2, <3>5 DEF InPlace
      <4>2. ~(~mem[c].old /\ mem[c].unreachable)  BY <3>3, <4>1 DEF Marked
      <4>3. QED  BY <4>2 DEF MarksAreThere
    <3> HIDE DEF copy
    <3>6. QED  BY <3>1, <3>2, <3>4, <3>5, FindByNameIs
  <2> HIDE DEF copy, h
  <2>3. QED  BY <1>7, <1>9, <2>1, <2>2 DEF Search, h
<1>10. ASSUME NEW p \in Processes, Connect(p) PROVE MarksInv'
  <2>1. /\ \A q \in Processes \ {p} : req'[q] = req[q]
        /\ req'[p].failed = req[p].failed /\ req'[p].app = req[p].app
        /\ req'[p].want = req[p].want /\ req'[p].host = req[p].host
    BY <1>10 DEF Connect, TypeOK
  <2>2. QED  BY <1>7, <1>10, <2>1 DEF Connect, AnotherIsTried
<1>11. ASSUME NEW p \in Processes, Crash(p) \/ Fault(p) \/ ChildInit(p) \/ Return(p) PROVE MarksInv'
  <2>1. /\ \A q \in Processes \ {p} : req'[q] = req[q]
        /\ req'[p].failed = {} /\ req'[p].pc \in {"idle", "dead"}
    <3>1. CASE Crash(p) \/ Fault(p)
      <4>1. req' = [req EXCEPT ![p] = [Idle EXCEPT !.pc = "dead"]]
        BY <3>1 DEF Crash, Fault
      <4>2. QED  BY <4>1, IdleType DEF PlaceOK, RequestType, TypeOK
    <3>2. CASE ChildInit(p) \/ Return(p)
      BY <3>2, IdleType DEF ChildInit, Return, PlaceOK, TypeOK
    <3>3. QED  BY <1>11, <3>1, <3>2
  <2>2. QED  BY <1>7, <1>11, <2>1 DEF Crash, Fault, ChildInit, Return
<1>12. ASSUME NEW p \in Processes, MarkUnreachable(p) PROVE MarksInv'
  <2>1. /\ \A q \in Processes \ {p} : req'[q] = req[q]
        /\ req'[p].failed = req[p].failed \union {req[p].app} /\ req'[p].pc = "search"
    BY <1>12 DEF MarkUnreachable, TypeOK
  <2>2. \A c \in Cells : mem'[c] = IF c = req[p].app
                                   THEN [mem[c] EXCEPT !.old = FALSE, !.unreachable = TRUE]
                                   ELSE mem[c]
    BY <1>12 DEF MarkUnreachable, TypeOK
  <2>3. \A c \in Cells : DOMAIN mem[c] = {"old", "load", "unreachable", "refusing"}
    BY DEF TypeOK, CellType
  <2>4. \A c \in Cells : (~mem[c].old /\ mem[c].unreachable) \/ c = req[p].app
                         => ~mem'[c].old /\ mem'[c].unreachable
    BY <2>2, <2>3
  <2>5. \A q \in Processes : req'[q].failed \subseteq Cells  BY DEF TypeOK
  <2>6. MarksAreThere'  BY <2>1, <2>4, <2>5 DEF MarksAreThere
  <2>7. UNCHANGED <<app_table, instance_count>>  BY <1>12 DEF MarkUnreachable, config
  <2>8. \A h, d : InPlace(h, d)' = InPlace(h, d)  BY <2>7 DEF InPlace, Places
  <2>9. AnotherIsTried'  BY <2>1, <2>7, <2>8 DEF AnotherIsTried
  <2>10. QED  BY <2>6, <2>9
<1>13. ASSUME NEW p \in Processes, Exchange(p) PROVE MarksInv'
  <2>1. /\ \A q \in Processes \ {p} : req'[q] = req[q]
        /\ req'[p].failed = req[p].failed /\ req'[p].app = req[p].app
        /\ req'[p].want = req[p].want /\ req'[p].host = req[p].host
    <3>1. CASE req' = [req EXCEPT ![p].pc = "endless"]
      BY <3>1 DEF TypeOK
    <3>2. ASSUME NEW a \in Failure \union Final,
                 req' = [req EXCEPT ![p].answer = IF a = "garbled" THEN "none" ELSE a,
                                    ![p].pc = IF a = "garbled" THEN AnotherOrPage(p) ELSE "record"]
          PROVE  /\ \A q \in Processes \ {p} : req'[q] = req[q]
                 /\ req'[p].failed = req[p].failed /\ req'[p].app = req[p].app
                 /\ req'[p].want = req[p].want /\ req'[p].host = req[p].host
      BY <3>2 DEF TypeOK
    <3>3. QED  BY <1>13, <3>1, <3>2 DEF Exchange
  <2>2. QED  BY <1>7, <1>13, <2>1 DEF Exchange, AnotherIsTried
<1>14. ASSUME NEW p \in Processes, AnswerTakesLong(p) PROVE MarksInv'
  <2>1. /\ \A q \in Processes \ {p} : req'[q] = req[q]
        /\ req'[p].failed = req[p].failed /\ req'[p].app = req[p].app
        /\ req'[p].want = req[p].want /\ req'[p].host = req[p].host
    BY <1>14 DEF AnswerTakesLong, TypeOK
  <2>2. QED  BY <1>7, <1>14, <2>1 DEF AnswerTakesLong, AnotherIsTried
<1>15. ASSUME NEW p \in Processes, Record(p) PROVE MarksInv'
  <2> DEFINE a == req[p].app
  <2>1. a \in Cells /\ req[p].pc = "record"  BY <1>15 DEF Record, RequestsOK, PlaceOK
  <2>2. \A c \in Cells \ {a} : mem'[c] = mem[c]
    <3>1. CASE MarkRefusing(p)  BY <2>1, <3>1 DEF MarkRefusing, TypeOK
    <3>2. CASE UpdateStatistics(p)  BY <2>1, <3>2 DEF UpdateStatistics, TypeOK
    <3>3. QED  BY <1>15, <3>1, <3>2 DEF Record
  <2>3. \A q \in Processes : /\ req'[q].app = req[q].app /\ req'[q].want = req[q].want
                             /\ req'[q].host = req[q].host
                             /\ req'[q].failed \subseteq req[q].failed
                             /\ req[p].answer # "refused" => a \notin req'[q].failed
                             /\ q # p => req'[q].pc = req[q].pc
    <3> DEFINE told == IF req[p].answer = "refused" THEN req ELSE Unmarked({a})
    <3>1. /\ told \in [Processes -> RequestType]
          /\ \A q \in Processes :
               /\ told[q].app = req[q].app /\ told[q].want = req[q].want
               /\ told[q].host = req[q].host /\ told[q].pc = req[q].pc
               /\ told[q].failed \subseteq req[q].failed
               /\ req[p].answer # "refused" => a \notin told[q].failed
      <4>1. CASE req[p].answer = "refused"  BY <4>1 DEF TypeOK, RequestType
      <4>2. CASE req[p].answer # "refused"  BY <4>2, UnmarkedKeeps
      <4>3. QED  BY <4>1, <4>2
    <3>2. req' = [told EXCEPT ![p].pc = AfterRecord(p), ![p].slow = FALSE,
                              ![p].answer = IF @ \in Final THEN @ ELSE "none"]
      BY <1>15 DEF Record
    <3> HIDE DEF told
    <3>3. \A q \in Processes :
            /\ req'[q].app = told[q].app /\ req'[q].want = told[q].want
            /\ req'[q].host = told[q].host /\ req'[q].failed = told[q].failed
            /\ q # p => req'[q].pc = told[q].pc
      BY <3>1, <3>2 DEF RequestType
    <3>4. QED  BY <3>1, <3>3
  <2>4. req[p].answer = "refused" => /\ mem'[a].unreachable = mem[a].unreachable
                                     /\ ~mem'[a].old
    <3>1. mem[a] \in CellType  BY <2>1 DEF TypeOK, CellType
    <3>2. CASE req[p].answer = "refused"
      <4>1. mem' = [mem EXCEPT ![a].old = FALSE, ![a].refusing = TRUE]
        BY <1>15, <3>2 DEF Record, MarkRefusing
      <4>2. mem'[a] = [mem[a] EXCEPT !.old = FALSE, !.refusing = TRUE]
        BY <2>1, <4>1 DEF TypeOK
      <4>3. QED  BY <3>1, <4>2 DEF CellType
    <3>3. QED  BY <3>2
  <2>5. \A q \in Processes : req[q].failed \subseteq Cells  BY DEF TypeOK
  <2>6. MarksAreThere'  BY <2>2, <2>3, <2>4, <2>5 DEF MarksAreThere
  <2>7. UNCHANGED <<app_table, instance_count>>  BY <1>15 DEF Record, config
  <2>8. \A h, d : InPlace(h, d)' = InPlace(h, d)  BY <2>7 DEF InPlace, Places
  <2>9. AnotherIsTried'  BY <2>1, <2>3, <2>7, <2>8 DEF AnotherIsTried
  <2>10. QED  BY <2>6, <2>9
<1>16. CASE UNCHANGED vars
  BY <1>2, <1>16 DEF vars, config, MarksAreThere
<1>17. QED
  BY <1>1, <1>3, <1>4, <1>5, <1>6, <1>8, <1>9, <1>10, <1>11, <1>12, <1>13, <1>14, <1>15, <1>16
     DEF Next, RequestStep

(***************************************************************************)
(* Theorems.                                                               *)
(***************************************************************************)
\* The tables, the cells and the requests keep their types: no request is sent
\* more than RETRY_COUNT times, and all that is marked is the cell of an instance
\* that was configured, which instance_count may not reach.
THEOREM TypeCorrect == Spec => []TypeOK
<1>1. SBInv /\ [Next]_vars => SBInv'  BY SBInvNext
<1>2. SBInv => TypeOK  BY DEF SBInv
<1>3. QED  BY <1>1, <1>2, SBInvInit, PTL DEF Spec

\* A request that an instance has answered is not sent again.
THEOREM AnsweredIsNotSent == Spec => []SentAgainOnlyUnanswered
<1>1. SBInv /\ [Next]_vars => SBInv'  BY SBInvNext
<1>2. SBInv => SentAgainOnlyUnanswered
  BY DEF SBInv, RequestsOK, PlaceOK, SentAgainOnlyUnanswered, Final
<1>3. QED  BY <1>1, <1>2, SBInvInit, PTL DEF Spec

\* With more than one instance in the table of its host, whatever the hosts and
\* their tables are, a retry does not go to an instance that the request itself
\* found unreachable and whose mark find_app looks for where it was written.
THEOREM RetryGoesElsewhere == Spec => []TriesAnother
<1>1. Init => MarksInv
  <2> SUFFICES ASSUME Init PROVE MarksInv
    OBVIOUS
  <2>1. QED  BY IdleType DEF Init, MarksInv, MarksAreThere, AnotherIsTried, PlaceOK
<1>2. SBInv /\ MarksInv /\ [Next]_vars => SBInv' /\ MarksInv'
  BY SBInvNext, MarksInvNext
<1>3. MarksInv => TriesAnother  BY DEF MarksInv, AnotherIsTried, TriesAnother
<1>4. QED  BY <1>1, <1>2, <1>3, SBInvInit, PTL DEF Spec

(***************************************************************************)
(* The attempts of gsw_handler come to an end.                             *)
(***************************************************************************)
Working == {"search", "attempt", "connected", "unreachable", "record", "reply"}
Stays(p) == req'[p].pc = req[p].pc /\ req'[p].tries = req[p].tries
Leaves(p) == req'[p].pc \in {"idle", "dead", "endless"}

\* The steps that are left: those of the attempts to come and of this one.
ToEnd(p) ==
    5 * (RETRY_COUNT - req[p].tries)
    + CASE req[p].pc = "connected" -> 4
        [] req[p].pc \in {"unreachable", "record"} -> 3
        [] req[p].pc = "search" -> 2
        [] req[p].pc = "attempt" -> 1
        [] OTHER -> 0

\* Only the step of a process itself moves its request on.
LEMMA OthersStay ==
  ASSUME SBInv, NEW p \in Processes, NEW q \in Processes \ {p},
         Begin(q) \/ RequestStep(q) \/ AnswerTakesLong(q)
  PROVE  Stays(p)
<1>1. req \in [Processes -> RequestType]  BY DEF SBInv, TypeOK, RequestType
<1>2. CASE Record(q)
  <2>1. /\ Unmarked({req[q].app})[p].pc = req[p].pc
        /\ Unmarked({req[q].app})[p].tries = req[p].tries
        /\ Unmarked({req[q].app}) \in [Processes -> RequestType]
    BY UnmarkedKeeps
  <2>2. QED  BY <1>1, <1>2, <2>1 DEF Record, Stays
<1>3. CASE Begin(q) \/ Search(q) \/ Connect(q) \/ Crash(q) \/ Fault(q) \/ ChildInit(q)
             \/ MarkUnreachable(q) \/ Exchange(q) \/ Return(q) \/ AnswerTakesLong(q)
  BY <1>1, <1>3 DEF Begin, Search, Connect, Crash, Fault, ChildInit, MarkUnreachable, Exchange,
     Return, AnswerTakesLong, Stays
<1>4. QED  BY <1>2, <1>3 DEF RequestStep

\* Where a step of its own leads a request.
LEMMA StepLeads ==
  ASSUME SBInv, NEW p \in Processes, RequestStep(p)
  PROVE  \/ Leaves(p)
         \/ /\ req'[p].tries = req[p].tries
            /\ \/ req[p].pc = "search" /\ req'[p].pc \in {"attempt", "reply"}
               \/ req[p].pc = "unreachable" /\ req'[p].pc = "search"
               \/ req[p].pc = "connected" /\ req'[p].pc \in {"attempt", "reply", "record"}
               \/ req[p].pc = "record" /\ req'[p].pc \in {"attempt", "reply"}
         \/ /\ req[p].pc = "attempt" /\ req'[p].pc \in {"connected", "unreachable"}
            /\ req'[p].tries = req[p].tries + 1
<1>1. req \in [Processes -> RequestType] /\ req[p] \in RequestType
  BY DEF SBInv, TypeOK, RequestType
<1> USE DEF RequestType, AnotherOrPage
<1>2. CASE Search(p)
  BY <1>1, <1>2 DEF Search
<1>3. CASE Connect(p)
  BY <1>1, <1>3 DEF Connect
<1>4. CASE Crash(p) \/ Fault(p) \/ ChildInit(p) \/ Return(p)
  BY <1>1, <1>4, IdleType DEF Crash, Fault, ChildInit, Return, Leaves
<1>5. CASE MarkUnreachable(p)
  BY <1>1, <1>5 DEF MarkUnreachable
<1>6. CASE Exchange(p)
  <2>1. req[p].pc = "connected" /\ AnotherOrPage(p) \in {"attempt", "reply"}
    BY <1>6 DEF Exchange
  <2>2. CASE req' = [req EXCEPT ![p].pc = "endless"]
    BY <1>1, <2>2 DEF Leaves
  <2>3. ASSUME NEW a \in Failure \union Final,
               req' = [req EXCEPT ![p].answer = IF a = "garbled" THEN "none" ELSE a,
                                  ![p].pc = IF a = "garbled" THEN AnotherOrPage(p) ELSE "record"]
        PROVE  /\ req'[p].tries = req[p].tries
               /\ req'[p].pc \in {"attempt", "reply", "record"}
    <3> HIDE DEF AnotherOrPage
    <3>1. QED  BY <1>1, <2>1, <2>3
  <2>4. QED  BY <1>6, <2>1, <2>2, <2>3 DEF Exchange
<1>7. CASE Record(p)
  <2>1. /\ Unmarked({req[p].app})[p].tries = req[p].tries
        /\ Unmarked({req[p].app}) \in [Processes -> RequestType]
    BY UnmarkedKeeps
  <2>2. req'[p].tries = req[p].tries /\ req'[p].pc = AfterRecord(p) /\ req[p].pc = "record"
    BY <1>1, <1>7, <2>1 DEF Record
  <2>3. QED  BY <2>2 DEF AfterRecord
<1>8. QED  BY <1>2, <1>3, <1>4, <1>5, <1>6, <1>7 DEF RequestStep

\* A request that a process works on moves on only towards its end, whatever other
\* processes, instances and time do meanwhile: each of its steps leaves it with
\* fewer to come, of which there is a natural number, or is its last one.
THEOREM RetriesComeToAnEnd ==
  Spec => [][\A p \in Processes :
                req[p].pc \in Working => \/ Stays(p) \/ Leaves(p)
                                         \/ ToEnd(p)' \in Nat /\ ToEnd(p)' < ToEnd(p)]_vars
<1>1. SBInv /\ SBInv' /\ [Next]_vars =>
        [\A p \in Processes :
            req[p].pc \in Working => \/ Stays(p) \/ Leaves(p)
                                     \/ ToEnd(p)' \in Nat /\ ToEnd(p)' < ToEnd(p)]_vars
  <2> SUFFICES ASSUME SBInv, SBInv', Next, NEW p \in Processes, req[p].pc \in Working
               PROVE  Stays(p) \/ Leaves(p) \/ (ToEnd(p)' \in Nat /\ ToEnd(p)' < ToEnd(p))
    OBVIOUS
  <2>1. /\ RETRY_COUNT \in Nat /\ req[p].tries \in 0 .. RETRY_COUNT
        /\ req'[p].tries \in 0 .. RETRY_COUNT
    BY CountsAssumption DEF SBInv, TypeOK
  <2>2. CASE RequestStep(p)
    BY <2>1, <2>2, StepLeads DEF ToEnd
  <2>3. CASE Begin(p)
    BY <2>3 DEF Begin, Working
  <2>4. CASE AnswerTakesLong(p)
    BY <2>4 DEF AnswerTakesLong, Stays, SBInv, TypeOK
  <2>5. CASE \E q \in Processes \ {p} : Begin(q) \/ RequestStep(q) \/ AnswerTakesLong(q)
    BY <2>5, OthersStay
  <2>6. CASE SetInstCount \/ PostConfig \/ \E h \in Hosts : SetApp(h)
    BY <2>6 DEF SetInstCount, PostConfig, SetApp, Stays
  <2>7. CASE \E c \in Cells : StartOrStop(c)
    BY <2>7 DEF StartOrStop, Stays
  <2>8. CASE \E c \in Cells : Age(c)
    BY <2>8, UnmarkedKeeps DEF Age, Stays
  <2>9. QED  BY <2>2, <2>3, <2>4, <2>5, <2>6, <2>7, <2>8 DEF Next
<1>2. SBInv /\ [Next]_vars => SBInv'  BY SBInvNext
<1>3. QED  BY <1>1, <1>2, SBInvInit, PTL DEF Spec

(***************************************************************************)
(* The request line that an instance gets.                                 *)
(***************************************************************************)
\* index() finds the first place.
LEMMA IndexProps ==
    ASSUME NEW V, NEW u \in Seq(V), NEW T
    PROVE  /\ Index(u, T) \in 0 .. Len(u)
           /\ Index(u, T) = 0 => \A k \in 1 .. Len(u) : u[k] \notin T
           /\ Index(u, T) # 0 => /\ u[Index(u, T)] \in T
                                 /\ \A k \in 1 .. Index(u, T) - 1 : u[k] \notin T
<1>1. CASE \E k \in DOMAIN u : u[k] \in T
  <2> DEFINE P == {k \in DOMAIN u : u[k] \in T}
  <2>1. P \in SUBSET Nat /\ P # {}  BY <1>1
  <2>2. Min(P) \in P /\ \A y \in P : Min(P) <= y  BY <2>1, MinProps
  <2>3. Index(u, T) = Min(P)  BY <1>1 DEF Index
  <2> HIDE DEF P
  <2>4. Index(u, T) \in 1 .. Len(u) /\ u[Index(u, T)] \in T  BY <2>2, <2>3 DEF P
  <2>5. ASSUME NEW k \in 1 .. Index(u, T) - 1 PROVE u[k] \notin T
    <3>1. k \in DOMAIN u /\ k < Min(P)  BY <2>3, <2>4
    <3>2. k \notin P  BY <2>2, <2>3, <2>4, <3>1
    <3> QED BY <3>1, <3>2 DEF P
  <2> QED BY <2>4, <2>5
<1>2. CASE ~\E k \in DOMAIN u : u[k] \in T
  BY <1>2 DEF Index
<1> QED BY <1>1, <1>2

\* What stands before the first place, and after it.
LEMMA BeforeAfterProps ==
    ASSUME NEW V, NEW u \in Seq(V), NEW T
    PROVE  /\ Before(u, T) \in Seq(V) /\ After(u, T) \in Seq(V)
           /\ Len(Before(u, T)) = IF Index(u, T) = 0 THEN Len(u) ELSE Index(u, T) - 1
           /\ Len(After(u, T)) = IF Index(u, T) = 0 THEN 0 ELSE Len(u) - Index(u, T)
           /\ \A k \in 1 .. Len(Before(u, T)) : Before(u, T)[k] = u[k]
           /\ \A k \in 1 .. Len(After(u, T)) : After(u, T)[k] = u[Index(u, T) + k]
<1> DEFINE x == Index(u, T)
<1>1. x \in 0 .. Len(u) /\ Len(u) \in Nat  BY IndexProps
<1>2. CASE x = 0  BY <1>2 DEF Before, After
<1>3. CASE x # 0
  <2>1. \A k \in 1 .. x - 1 : u[k] \in V  BY <1>1
  <2>2. \A k \in x + 1 .. Len(u) : u[k] \in V  BY <1>1
  <2>3. Before(u, T) = SubSeq(u, 1, x - 1) /\ After(u, T) = SubSeq(u, x + 1, Len(u))
    BY <1>3 DEF Before, After
  <2> HIDE DEF x
  <2>4. /\ SubSeq(u, 1, x - 1) \in Seq(V) /\ Len(SubSeq(u, 1, x - 1)) = x - 1
        /\ \A k \in 1 .. x - 1 : SubSeq(u, 1, x - 1)[k] = u[k]
    BY <1>1, <1>3, <2>1
  <2>5. /\ SubSeq(u, x + 1, Len(u)) \in Seq(V) /\ Len(SubSeq(u, x + 1, Len(u))) = Len(u) - x
        /\ \A k \in 1 .. Len(u) - x : SubSeq(u, x + 1, Len(u))[k] = u[x + k]
    BY <1>1, <1>3, <2>2
  <2> QED BY <1>1, <1>3, <2>3, <2>4, <2>5 DEF x
<1> QED BY <1>2, <1>3

\* There is only one first place.
IsFirst(u, T, x) == /\ x \in 1 .. Len(u) /\ u[x] \in T
                    /\ \A j \in 1 .. x - 1 : u[j] \notin T

LEMMA FirstIs ==
    ASSUME NEW V, NEW u \in Seq(V), NEW T, NEW x, IsFirst(u, T, x)
    PROVE  /\ Index(u, T) = x
           /\ Before(u, T) \in Seq(V) /\ Len(Before(u, T)) = x - 1
           /\ \A k \in 1 .. x - 1 : Before(u, T)[k] = u[k]
           /\ After(u, T) \in Seq(V) /\ Len(After(u, T)) = Len(u) - x
           /\ \A k \in 1 .. Len(u) - x : After(u, T)[k] = u[x + k]
<1>1. Index(u, T) = x  BY IndexProps DEF IsFirst
<1>2. x # 0 /\ Len(u) \in Nat /\ x \in Nat  BY DEF IsFirst
<1>3. /\ Before(u, T) \in Seq(V) /\ Len(Before(u, T)) = x - 1
      /\ \A k \in 1 .. Len(Before(u, T)) : Before(u, T)[k] = u[k]
  BY <1>1, <1>2, BeforeAfterProps
<1>4. /\ After(u, T) \in Seq(V) /\ Len(After(u, T)) = Len(u) - x
      /\ \A k \in 1 .. Len(After(u, T)) : After(u, T)[k] = u[x + k]
  BY <1>1, <1>2, BeforeAfterProps
<1> QED BY <1>1, <1>3, <1>4

\* Where an instance is named, find_app and fixRequestString read the same.
LEMMA BothReadTheSame ==
    ASSUME NEW V, NEW url \in Seq(V), NEW n, Number(url) # NoTarget,
           WoaExtension \notin {"/", "?"},
           \A k \in DOMAIN AppName(url) : AppName(url)[k] # "/"
    PROVE  /\ FixRequestString(url, n).name = AppName(url)
           /\ FixRequestString(url, n).rest = After(After(After(url, {WoaExtension}), {"/"}), {"/"})
<1> DEFINE U == URI(url)
           E == {WoaExtension}
           S == {"/"}
           e == Index(U, E)
           UV == After(U, E)
           X == After(url, E)
           s == Index(UV, S)
<1>1. /\ U \in Seq(V) /\ Len(U) <= Len(url) /\ Len(url) \in Nat /\ Len(U) \in Nat
      /\ \A k \in 1 .. Len(U) : U[k] = url[k]
  BY BeforeAfterProps, IndexProps DEF URI
<1>2. /\ e \in 0 .. Len(U)
      /\ e # 0 => U[e] \in E /\ \A k \in 1 .. e - 1 : U[k] \notin E
  BY <1>1, IndexProps
<1>3. UV \in Seq(V) /\ (e = 0 => Len(UV) = 0)
  BY <1>1, BeforeAfterProps
<1>4. /\ s \in 0 .. Len(UV)
      /\ After(UV, S) \in Seq(V) /\ (s = 0 => Len(After(UV, S)) = 0)
      /\ s # 0 => UV[s] \in S /\ \A k \in 1 .. s - 1 : UV[k] \notin S
  <2> HIDE DEF UV
  <2>1. After(UV, S) \in Seq(V) /\ (s = 0 => Len(After(UV, S)) = 0)
    BY <1>3, BeforeAfterProps
  <2> QED BY <1>3, <2>1, IndexProps
<1>5. Index(After(UV, S), S) > 1
  BY DEF Number, InstancePart
<1>6. s # 0 /\ e # 0
  <2>1. Len(After(UV, S)) # 0  BY <1>4, <1>5, IndexProps
  <2>2. s # 0  BY <1>4, <2>1
  <2>3. Len(UV) # 0  BY <1>4, <2>2
  <2> QED BY <1>3, <2>2, <2>3
<1>7. /\ Before(U, E) \in Seq(V) /\ Len(Before(U, E)) = e - 1
      /\ \A k \in 1 .. e - 1 : Before(U, E)[k] = U[k]
      /\ Len(UV) = Len(U) - e /\ \A k \in 1 .. Len(U) - e : UV[k] = U[e + k]
  <2> HIDE DEF U, e
  <2>1. IsFirst(U, E, e)  BY <1>1, <1>2, <1>6 DEF IsFirst
  <2> HIDE DEF E
  <2> QED BY <1>1, <2>1, FirstIs
<1>8. AppName(url) = Before(U, E)
  BY DEF AppName
<1>9. \A k \in 1 .. e - 1 : url[k] # "/" /\ url[k] \notin E
  <2> SUFFICES ASSUME NEW k \in 1 .. e - 1 PROVE url[k] # "/" /\ url[k] \notin E
    OBVIOUS
  <2>1. k \in 1 .. Len(U) /\ k \in DOMAIN AppName(url)  BY <1>1, <1>2, <1>7, <1>8
  <2> QED BY <1>1, <1>2, <1>6, <1>7, <1>8, <2>1
<1>10. url[e] = WoaExtension /\ e \in 1 .. Len(url)
  BY <1>1, <1>2, <1>6
<1> HIDE DEF e, s, U, UV
<1>11. /\ X \in Seq(V) /\ Len(X) = Len(url) - e
       /\ \A k \in 1 .. Len(url) - e : X[k] = url[e + k]
  <2>1. IsFirst(url, E, e)  BY <1>9, <1>10 DEF IsFirst
  <2> HIDE DEF E
  <2> QED BY <2>1, FirstIs
<1> HIDE DEF X
<1>12. s \in 1 .. Len(X) /\ X[s] = "/" /\ \A k \in 1 .. s - 1 : X[k] # "/"
  <2>1. Len(UV) \in Nat /\ s \in 1 .. Len(UV)  BY <1>3, <1>4, <1>6
  <2>2. Len(UV) <= Len(X)  BY <1>1, <1>7, <1>10, <1>11
  <2>3. ASSUME NEW k \in 1 .. Len(UV) PROVE UV[k] = X[k]
    <3>1. UV[k] = U[e + k] /\ e + k \in 1 .. Len(U)  BY <1>1, <1>7, <1>10, <2>1
    <3>2. X[k] = url[e + k]  BY <1>10, <1>11, <2>1, <2>2
    <3> QED BY <1>1, <3>1, <3>2
  <2> QED BY <1>4, <1>6, <2>1, <2>3, <2>2
<1>13. /\ After(X, S) \in Seq(V) /\ Len(After(X, S)) = Len(X) - s
       /\ \A k \in 1 .. Len(X) - s : After(X, S)[k] = X[s + k]
  <2>1. IsFirst(X, S, s)  BY <1>12 DEF IsFirst
  <2> QED BY <1>11, <2>1, FirstIs
<1>14. e + s \in 1 .. Len(url) /\ url[e + s] = "/" /\ \A k \in 1 .. (e + s) - 1 : url[k] # "/"
  <2>1. e + s \in 1 .. Len(url) /\ url[e + s] = "/"  BY <1>10, <1>11, <1>12
  <2>2. ASSUME NEW k \in 1 .. (e + s) - 1 PROVE url[k] # "/"
    <3>1. CASE k < e  BY <1>9, <1>10, <3>1
    <3>2. CASE k = e  BY <1>10, <3>2
    <3>3. CASE k > e
      <4>1. k - e \in 1 .. s - 1 /\ k - e \in 1 .. Len(url) - e
        BY <1>10, <1>11, <1>12, <3>3
      <4>2. X[k - e] = url[e + (k - e)] /\ e + (k - e) = k  BY <1>10, <1>11, <4>1
      <4> QED BY <1>12, <4>1, <4>2
    <3> QED BY <1>10, <3>1, <3>2, <3>3
  <2> QED BY <2>1, <2>2
<1>15. /\ After(url, S) \in Seq(V) /\ Len(After(url, S)) = Len(url) - (e + s)
       /\ \A k \in 1 .. Len(url) - (e + s) : After(url, S)[k] = url[(e + s) + k]
       /\ Before(url, S) \in Seq(V) /\ Len(Before(url, S)) = (e + s) - 1
       /\ \A k \in 1 .. (e + s) - 1 : Before(url, S)[k] = url[k]
  <2> DEFINE x == e + s
  <2>1. IsFirst(url, S, x)  BY <1>14 DEF IsFirst
  <2> HIDE DEF x
  <2>2. /\ After(url, S) \in Seq(V) /\ Len(After(url, S)) = Len(url) - x
        /\ \A k \in 1 .. Len(url) - x : After(url, S)[k] = url[x + k]
        /\ Before(url, S) \in Seq(V) /\ Len(Before(url, S)) = x - 1
        /\ \A k \in 1 .. x - 1 : Before(url, S)[k] = url[k]
    BY <2>1, FirstIs
  <2> QED BY <2>2 DEF x
<1>16. After(url, S) = After(X, S)
  <2>1. Len(After(url, S)) = Len(After(X, S))  BY <1>10, <1>11, <1>12, <1>13, <1>15
  <2>2. ASSUME NEW k \in 1 .. Len(After(url, S)) PROVE After(url, S)[k] = After(X, S)[k]
    <3>1. k \in 1 .. Len(X) - s /\ s + k \in 1 .. Len(url) - e
      BY <1>10, <1>11, <1>12, <1>13, <1>15, <2>1
    <3>2. After(X, S)[k] = url[e + (s + k)]  BY <1>11, <1>13, <3>1
    <3>3. k \in 1 .. Len(url) - (e + s) /\ e + (s + k) = (e + s) + k
      BY <1>10, <1>12, <1>15, <2>2
    <3> QED BY <1>15, <3>2, <3>3
  <2> QED BY <1>13, <1>15, <2>1, <2>2, SeqEqual
<1>17. Before(Before(url, S), E) = AppName(url)
  <2> DEFINE B == Before(url, S)
  <2>1. /\ B \in Seq(V) /\ e \in 1 .. Len(B)
        /\ \A k \in 1 .. e : B[k] = url[k]
    BY <1>10, <1>12, <1>15
  <2> HIDE DEF B
  <2>2. B[e] \in E /\ \A k \in 1 .. e - 1 : B[k] \notin E
    <3>1. \A k \in 1 .. e - 1 : k \in 1 .. e  BY <1>10
    <3> QED BY <1>9, <1>10, <2>1, <3>1
  <2>3. /\ Before(B, E) \in Seq(V) /\ Len(Before(B, E)) = e - 1
        /\ \A k \in 1 .. e - 1 : Before(B, E)[k] = B[k]
    <3>1. IsFirst(B, E, e)  BY <2>1, <2>2 DEF IsFirst
    <3> HIDE DEF E
    <3> QED BY <2>1, <3>1, FirstIs
  <2>4. ASSUME NEW k \in 1 .. e - 1 PROVE Before(B, E)[k] = AppName(url)[k]
    <3>1. k \in 1 .. e /\ k \in 1 .. Len(U)  BY <1>1, <1>2, <1>10
    <3> QED BY <1>1, <1>7, <1>8, <2>1, <2>3, <3>1
  <2>5. AppName(url) \in Seq(V) /\ Len(Before(B, E)) = Len(AppName(url))
        /\ \A k \in 1 .. Len(Before(B, E)) : Before(B, E)[k] = AppName(url)[k]
    BY <1>7, <1>8, <2>3, <2>4
  <2>6. Before(B, E) = AppName(url)  BY <2>3, <2>5, SeqEqual
  <2> QED BY <2>6 DEF B
<1> QED BY <1>16, <1>17 DEF FixRequestString, X

\* The instance that a request has is one that was found for its URL, and what
\* was sent is the request line for such an instance.
AddressInv ==
    /\ client \in Clients
    /\ target # NoTarget => target \in Found(client.url)
    /\ sent # Nothing =>
         \E a \in Found(client.url) : sent.url = FixRequestString(client.url, a[2])

LEMMA AddressInvNext == AddressInv /\ [HandleNext]_handlerVars => AddressInv'
<1> SUFFICES ASSUME AddressInv, [HandleNext]_handlerVars PROVE AddressInv'
  OBVIOUS
<1>1. CASE FindTarget
  BY <1>1 DEF FindTarget, AddressInv
<1>2. CASE SendRequest
  <2>1. target \in Found(client.url) /\ sent'.url = FixRequestString(client.url, target[2])
    BY <1>2 DEF SendRequest, AddressInv
  <2> QED BY <1>2, <2>1 DEF SendRequest, AddressInv
<1>3. CASE Translate \/ SetupRefused \/ ReadPostData \/ ConnectHostFails \/ NullTarget
           \/ WriteFails \/ ReadStatusLine \/ ReadHeaders \/ RelayContent \/ Switch \/ SendPage
  <2>1. UNCHANGED <<client, target, sent>>
    BY <1>3 DEF Translate, SetupRefused, ReadPostData, ConnectHostFails, NullTarget,
                WriteFails, ReadStatusLine, ReadHeaders, RelayContent, Switch, SendPage
  <2> QED BY <2>1 DEF AddressInv
<1>4. CASE UNCHANGED handlerVars
  BY <1>4 DEF handlerVars, AddressInv
<1> QED BY <1>1, <1>2, <1>3, <1>4 DEF HandleNext

\* mod_gsw.c, find_app and fixRequestString: the instance that an URL names gets
\* the request under its own name and number, with all that follows the number.
THEOREM NamedIsAddressed == HandleSpec => []InstanceIsAddressed
<1>1. HandleInit => AddressInv
  BY DEF HandleInit, AddressInv
<1>2. AddressInv /\ [HandleNext]_handlerVars => AddressInv'
  BY AddressInvNext
<1>3. AddressInv => InstanceIsAddressed
  <2> SUFFICES ASSUME AddressInv, Number(client.url) # NoTarget, sent # Nothing
               PROVE  InstanceIsAddressed
    BY DEF InstanceIsAddressed
  <2> DEFINE url == client.url
  <2>1. PICK a \in Found(url) : sent.url = FixRequestString(url, a[2])
    BY DEF AddressInv
  <2>2. a = <<AppName(url), Number(url)>> /\ a \in Table
    BY <2>1 DEF Found
  <2>3. url \in Seq(ToSet(url)) /\ WoaExtension \notin {"/", "?"}
        /\ \A k \in DOMAIN AppName(url) : AppName(url)[k] # "/"
    BY <2>2, TableAssumption DEF AddressInv, Clients
  <2> HIDE DEF url
  <2>4. /\ FixRequestString(url, a[2]).name = AppName(url)
        /\ FixRequestString(url, a[2]).rest
             = After(After(After(url, {WoaExtension}), {"/"}), {"/"})
    BY <2>3, BothReadTheSame DEF url
  <2>5. FixRequestString(url, a[2]).number = Number(url)
    BY <2>2 DEF FixRequestString
  <2> QED BY <2>1, <2>4, <2>5 DEF InstanceIsAddressed, url
<1> QED BY <1>1, <1>2, <1>3, PTL DEF HandleSpec
=============================================================================
