------------------------- MODULE ConfigReaderProofs -------------------------
(***************************************************************************)
(* ConfigReader keeps TableInv, for all names and numbers and whatever the *)
(* files say, in whatever order they are read and requests come and go.    *)
(***************************************************************************)
EXTENDS ConfigReader, ArrayLemmas, FiniteSetTheorems

\* Entries of a file name applications and their instances.
LEMMA ListedProps ==
    ASSUME NEW file \in Files
    PROVE  LET listed == ListedIn(file)
           IN  /\ DOMAIN listed \subseteq Names
               /\ \A n \in DOMAIN listed :
                    /\ listed[n] \in EntriesOfFiles
                    /\ listed[n].instances \subseteq Numbers
                    /\ listed[n].templates \in {"own", Absent}
<1>1. CASE file.parses
  BY <1>1, FilesAssumption DEF ListedIn, EntriesOfFiles
<1>2. CASE ~file.parses
  <2>1. ListedIn(file) = <<>>  BY <1>2 DEF ListedIn
  <2>2. DOMAIN <<>> = {}  OBVIOUS
  <2> QED BY <2>1, <2>2
<1> QED BY <1>1, <1>2

\* What the dictionary has of an application.
LEMMA HeldProps ==
    ASSUME TableInv, NEW n \in Names
    PROVE  /\ Held(n) \subseteq DOMAIN instance
           /\ \A x \in Held(n) : x \in InstIds /\ x[1] = n /\ n \in DOMAIN dict
                                 /\ instance[x].app = dict[n]
           /\ \A x, y \in Held(n) : x[2] = y[2] => x = y
<1>1. CASE n \in DOMAIN dict
  <2>1. dict[n] \in DOMAIN app /\ dict[n][1] = n
    BY <1>1 DEF TableInv, InMemory, KeysInv
  <2>2. Held(n) = app[dict[n]].instances
    BY <1>1 DEF Held
  <2>3. \A x \in Held(n) : x \in DOMAIN instance /\ instance[x].app = dict[n]
    BY <2>1, <2>2 DEF TableInv, InMemory
  <2>4. \A x \in Held(n) : x \in InstIds /\ x[1] = n
    BY <2>1, <2>3 DEF TableInv, ReaderTypeOK, KeysInv
  <2>5. \A x, y \in Held(n) : x[2] = y[2] => x = y
    BY <2>1, <2>2 DEF TableInv, KeysInv
  <2> QED BY <1>1, <2>3, <2>4, <2>5
<1>2. CASE n \notin DOMAIN dict
  BY <1>2 DEF Held
<1> QED BY <1>1, <1>2

\* The structure that gets an entry is the one of the dictionary, or a new one
\* to which nothing points.
LEMMA TargetProps ==
    ASSUME TableInv, NEW n \in Names, n \in DOMAIN dict \/ FreeApps(n) # {}
    PROVE  /\ Target(n) \in AppIds /\ Target(n)[1] = n
           /\ n \in DOMAIN dict => Target(n) = dict[n] /\ Target(n) \in DOMAIN app
           /\ n \notin DOMAIN dict => /\ Target(n) \notin DOMAIN app
                                      /\ \A x \in DOMAIN instance : instance[x].app # Target(n)
<1>1. CASE n \in DOMAIN dict
  BY <1>1 DEF Target, TableInv, ReaderTypeOK, InMemory, KeysInv
<1>2. CASE n \notin DOMAIN dict
  <2>1. FreshApp(n) \in FreeApps(n)  BY <1>2 DEF FreshApp
  <2> QED BY <1>2, <2>1 DEF Target, FreeApps
<1> QED BY <1>1, <1>2

\* The instances of an entry: one for each number, that of the dictionary or new.
LEMMA ReadProps ==
    ASSUME TableInv, NEW n \in Names, NEW e,
           e.instances \subseteq Numbers,
           \A k \in e.instances : Current(n, k) # {} \/ FreeInsts(n, k) # {}
    PROVE  /\ \A x \in Read(n, e) : /\ x \in InstIds /\ x[1] = n /\ x[2] \in e.instances
                                    /\ x \in DOMAIN instance => x \in Held(n)
           /\ \A k \in e.instances : \E x \in Read(n, e) : x[2] = k
           /\ \A x, y \in Read(n, e) : x[2] = y[2] => x = y
<1> DEFINE One(k) == IF Current(n, k) # {} THEN Current(n, k) ELSE {FreshInst(n, k)}
<1>1. \A k : Current(n, k) = {x \in Held(n) : x[2] = k}
  BY DEF Current, Held
<1>2. ASSUME NEW k \in e.instances
      PROVE  /\ One(k) # {}
             /\ \A x \in One(k) : /\ x \in InstIds /\ x[1] = n /\ x[2] = k
                                  /\ x \in DOMAIN instance => x \in Held(n)
             /\ \A x, y \in One(k) : x = y
  <2>1. CASE Current(n, k) # {}
    BY <1>1, <2>1, HeldProps
  <2>2. CASE Current(n, k) = {}
    <3>1. FreshInst(n, k) \in FreeInsts(n, k)  BY <2>2 DEF FreshInst
    <3> QED BY <2>2, <3>1 DEF FreeInsts
  <2> QED BY <2>1, <2>2
<1>3. Read(n, e) = UNION {One(k) : k \in e.instances}
  BY DEF Read
<1> HIDE DEF One
<1> QED BY <1>2, <1>3

\* Where all numbers are different, there are as many instances as numbers.
LEMMA SameNumber ==
    ASSUME NEW S, NEW N \in SUBSET Numbers, {x[2] : x \in S} = N,
           \A x, y \in S : x[2] = y[2] => x = y
    PROVE  IsFiniteSet(S) /\ Cardinality(S) = Cardinality(N) /\ Cardinality(S) \in Nat
<1>1. IsFiniteSet(N)  BY FilesAssumption, FS_Subset
<1> DEFINE f == [k \in N |-> CHOOSE x \in S : x[2] = k]
<1>2. \A k \in N : f[k] \in S /\ f[k][2] = k  OBVIOUS
<1>3. f \in [N -> S]  BY <1>2
<1>4. \A k, l \in N : f[k] = f[l] => k = l  BY <1>2
<1>5. \A x \in S : \E k \in N : f[k] = x  BY <1>2
<1>6. f \in Bijection(N, S)
  BY <1>3, <1>4, <1>5 DEF Bijection, Injection, Surjection, IsInjective
<1>7. ExistsBijection(N, S)  BY <1>6 DEF ExistsBijection
<1> QED BY <1>1, <1>7, FS_Bijection, FS_CardinalityType

\* What an instance without a dictionary is kept for.
LEMMA DroppedIsOpened ==
    ASSUME TableInv, NEW x \in DOMAIN instance, x \notin Held(x[1])
    PROVE  instance[x].opened = 1
<1>1. x \in InstIds /\ instance[x] \in InstStructures
  BY DEF TableInv, ReaderTypeOK
<1>2. instance[x].opened \in {0, 1} /\ instance[x].app[1] = x[1]
  BY <1>1 DEF InstStructures, TableInv, KeysInv
<1>3. ASSUME instance[x].opened = 0 PROVE FALSE
  <2>1. instance[x].app \in DOMAIN app /\ x \in app[instance[x].app].instances
    BY <1>3 DEF TableInv, InMemory
  <2>2. x[1] \in DOMAIN dict /\ dict[x[1]] = instance[x].app
    BY <1>2, <2>1 DEF TableInv, InMemory
  <2> QED BY <2>1, <2>2 DEF Held
<1> QED BY <1>2, <1>3

\* A file is read to its end.
ReadsAll(file) ==
    LET listed == ListedIn(file)
    IN  /\ HasRoom(listed)
        /\ global' = GlobalSettings(IF file.parses THEN file.global ELSE NoSettings)
        /\ dict' = [n \in Remaining(listed) |->
                      IF n \in DOMAIN listed THEN Target(n) ELSE dict[n]]
        /\ app' = [a \in KeptApps(listed) |->
                     IF a[1] \in DOMAIN listed THEN AppOf(a[1], listed[a[1]]) ELSE app[a]]
        /\ instance' =
             [x \in (DOMAIN instance \ AllGone(listed)) \union AllRead(listed) |->
                IF x \in AllRead(listed)
                THEN [app |-> Target(x[1]), valid |-> TRUE,
                      opened |-> IF x \in DOMAIN instance THEN instance[x].opened ELSE 0]
                ELSE [instance[x] EXCEPT !.valid = FALSE]]
        /\ lastFile' = file
        /\ emptied' = (emptied \/ Empties(listed)) /\ UNCHANGED crashed

\* Which structures there are after a file was read.
LEMMA StructuresAfter ==
    ASSUME TableInv, NEW file \in Files, ReadsAll(file)
    PROVE  LET listed == ListedIn(file)
           IN  /\ \A n \in DOMAIN listed : listed[n].instances # {} =>
                    /\ n \in DOMAIN dict' /\ dict'[n] = Target(n)
                    /\ Target(n) \in DOMAIN app'
                    /\ app'[Target(n)] = AppOf(n, listed[n])
               /\ \A n \in DOMAIN dict' :
                    \/ n \in DOMAIN listed /\ listed[n].instances # {}
                    \/ /\ n \in DOMAIN dict \ DOMAIN listed
                       /\ dict'[n] = dict[n] /\ dict[n] \in DOMAIN app'
                       /\ app'[dict[n]] = app[dict[n]]
               /\ \A a \in DOMAIN app' :
                    \/ /\ a[1] \in DOMAIN listed /\ listed[a[1]].instances # {}
                       /\ a = Target(a[1])
                    \/ /\ a \in DOMAIN app /\ a[1] \notin DOMAIN listed
                       /\ a[1] \in DOMAIN dict' /\ dict'[a[1]] = a
                       /\ app'[a] = app[a]
<1> DEFINE listed == ListedIn(file)
<1>1. DOMAIN listed \subseteq Names  BY ListedProps
<1>2. \A n \in DOMAIN listed : Target(n)[1] = n
  BY <1>1, TargetProps DEF ReadsAll, HasRoom
<1>3. \A n \in DOMAIN dict : dict[n] \in DOMAIN app /\ dict[n][1] = n
  BY DEF TableInv, InMemory, KeysInv
<1>4. \A a \in DOMAIN app : a[1] \in DOMAIN dict /\ dict[a[1]] = a
  BY DEF TableInv, InMemory
<1>5. DOMAIN dict' = Remaining(listed) /\ DOMAIN app' = KeptApps(listed)
  BY DEF ReadsAll
<1>6. \A n \in Remaining(listed) :
        dict'[n] = IF n \in DOMAIN listed THEN Target(n) ELSE dict[n]
  BY DEF ReadsAll
<1>7. \A a \in KeptApps(listed) :
        app'[a] = IF a[1] \in DOMAIN listed THEN AppOf(a[1], listed[a[1]]) ELSE app[a]
  BY DEF ReadsAll
<1>8. \A n \in DOMAIN listed : listed[n].instances # {} =>
        n \in Remaining(listed) /\ Target(n) \in KeptApps(listed)
  BY DEF Remaining, KeptApps
<1>9. \A n \in Remaining(listed) :
        \/ n \in DOMAIN listed /\ listed[n].instances # {}
        \/ n \in DOMAIN dict \ DOMAIN listed /\ dict[n] \in KeptApps(listed)
  BY <1>3 DEF Remaining, KeptApps
<1>10. \A a \in KeptApps(listed) :
         \/ a[1] \in DOMAIN listed /\ listed[a[1]].instances # {} /\ a = Target(a[1])
         \/ a \in DOMAIN app /\ a[1] \notin DOMAIN listed /\ a[1] \in Remaining(listed)
  BY <1>2, <1>4 DEF Remaining, KeptApps
<1> HIDE DEF listed
<1>11. \A n \in DOMAIN listed : listed[n].instances # {} =>
         /\ n \in DOMAIN dict' /\ dict'[n] = Target(n)
         /\ Target(n) \in DOMAIN app' /\ app'[Target(n)] = AppOf(n, listed[n])
  BY <1>2, <1>5, <1>6, <1>7, <1>8
<1>12. \A n \in DOMAIN dict' :
         \/ n \in DOMAIN listed /\ listed[n].instances # {}
         \/ /\ n \in DOMAIN dict \ DOMAIN listed
            /\ dict'[n] = dict[n] /\ dict[n] \in DOMAIN app' /\ app'[dict[n]] = app[dict[n]]
  BY <1>3, <1>5, <1>6, <1>7, <1>9
<1>13. \A a \in DOMAIN app' :
         \/ a[1] \in DOMAIN listed /\ listed[a[1]].instances # {} /\ a = Target(a[1])
         \/ /\ a \in DOMAIN app /\ a[1] \notin DOMAIN listed
            /\ a[1] \in DOMAIN dict' /\ dict'[a[1]] = a /\ app'[a] = app[a]
  BY <1>4, <1>5, <1>6, <1>7, <1>10
<1> QED BY <1>11, <1>12, <1>13 DEF listed

\* Which instances there are, and what they are.
LEMMA InstancesAfter ==
    ASSUME TableInv, NEW file \in Files, ReadsAll(file)
    PROVE  LET listed == ListedIn(file)
           IN  /\ \A n \in DOMAIN listed : \A x \in Read(n, listed[n]) :
                    /\ x \in DOMAIN instance' /\ x[1] = n
                    /\ instance'[x].app = Target(n) /\ instance'[x].valid
               /\ \A x \in DOMAIN instance' :
                    \/ x[1] \in DOMAIN listed /\ x \in Read(x[1], listed[x[1]])
                    \/ /\ x \in DOMAIN instance
                       /\ instance'[x] = [instance[x] EXCEPT !.valid = FALSE]
                       /\ x[1] \notin DOMAIN listed \/ instance[x].opened = 1
               /\ \A x \in DOMAIN instance : x[1] \notin DOMAIN listed =>
                    /\ x \in DOMAIN instance'
                    /\ instance'[x] = [instance[x] EXCEPT !.valid = FALSE]
               /\ instance' \in [DOMAIN instance' -> InstStructures]
               /\ DOMAIN instance' \subseteq InstIds
<1> DEFINE listed == ListedIn(file)
<1>1. DOMAIN listed \subseteq Names /\ \A n \in DOMAIN listed : listed[n].instances \subseteq Numbers
  BY ListedProps
<1>2. \A n \in DOMAIN listed : \A x \in Read(n, listed[n]) :
        x \in InstIds /\ x[1] = n /\ (x \in DOMAIN instance => x \in Held(n))
  BY <1>1, ReadProps DEF ReadsAll, HasRoom
<1>3. \A n \in DOMAIN listed : Target(n) \in AppIds
  BY <1>1, TargetProps DEF ReadsAll, HasRoom
<1>4. \A x : x \in AllRead(listed) <=> \E n \in DOMAIN listed : x \in Read(n, listed[n])
  BY DEF AllRead
<1>5. \A x : x \in AllGone(listed) <=> \E n \in DOMAIN listed : x \in FreeNotValid(n, listed[n])
  BY DEF AllGone
<1>6. \A x \in AllRead(listed) : x[1] \in DOMAIN listed /\ x \in Read(x[1], listed[x[1]])
  BY <1>2, <1>4
<1>7. \A n \in DOMAIN listed : \A x \in FreeNotValid(n, listed[n]) : x[1] = n
  BY <1>1, HeldProps DEF FreeNotValid
<1>8. DOMAIN instance' = (DOMAIN instance \ AllGone(listed)) \union AllRead(listed)
  BY DEF ReadsAll
<1>9. \A x \in DOMAIN instance' :
        instance'[x] = IF x \in AllRead(listed)
                       THEN [app |-> Target(x[1]), valid |-> TRUE,
                             opened |-> IF x \in DOMAIN instance THEN instance[x].opened ELSE 0]
                       ELSE [instance[x] EXCEPT !.valid = FALSE]
  BY <1>8 DEF ReadsAll
<1>10. \A x \in DOMAIN instance : instance[x] \in InstStructures /\ x \in InstIds
  BY DEF TableInv, ReaderTypeOK
<1>11. ASSUME NEW x \in DOMAIN instance, x \notin AllRead(listed), x \notin AllGone(listed),
              x[1] \in DOMAIN listed
       PROVE  instance[x].opened = 1
  <2>1. CASE x \in Held(x[1])
    <3>1. x \notin Read(x[1], listed[x[1]])  BY <1>4, <1>11
    <3>2. instance[x].opened # 0  BY <1>5, <1>11, <2>1, <3>1 DEF FreeNotValid
    <3> QED BY <1>10, <3>2 DEF InstStructures
  <2> QED BY <2>1, DroppedIsOpened
<1> HIDE DEF listed
<1>12. \A n \in DOMAIN listed : \A x \in Read(n, listed[n]) :
         /\ x \in DOMAIN instance' /\ x[1] = n
         /\ instance'[x].app = Target(n) /\ instance'[x].valid
  <2> SUFFICES ASSUME NEW n \in DOMAIN listed, NEW x \in Read(n, listed[n])
               PROVE  /\ x \in DOMAIN instance' /\ x[1] = n
                      /\ instance'[x].app = Target(n) /\ instance'[x].valid
    OBVIOUS
  <2>1. x \in AllRead(listed) /\ x[1] = n  BY <1>2, <1>4
  <2>2. x \in DOMAIN instance'  BY <1>8, <2>1
  <2> QED BY <1>9, <2>1, <2>2
<1>13. \A x \in DOMAIN instance' :
         \/ x[1] \in DOMAIN listed /\ x \in Read(x[1], listed[x[1]])
         \/ /\ x \in DOMAIN instance
            /\ instance'[x] = [instance[x] EXCEPT !.valid = FALSE]
            /\ x[1] \notin DOMAIN listed \/ instance[x].opened = 1
  BY <1>6, <1>8, <1>9, <1>11
<1>14. \A x \in DOMAIN instance : x[1] \notin DOMAIN listed =>
         /\ x \in DOMAIN instance'
         /\ instance'[x] = [instance[x] EXCEPT !.valid = FALSE]
  <2> SUFFICES ASSUME NEW x \in DOMAIN instance, x[1] \notin DOMAIN listed
               PROVE  /\ x \in DOMAIN instance'
                      /\ instance'[x] = [instance[x] EXCEPT !.valid = FALSE]
    OBVIOUS
  <2>1. x \notin AllRead(listed)  BY <1>6
  <2>2. x \notin AllGone(listed)  BY <1>5, <1>7
  <2> QED BY <1>8, <1>9, <2>1, <2>2
<1>15. ASSUME NEW x \in DOMAIN instance' PROVE instance'[x] \in InstStructures /\ x \in InstIds
  <2>1. CASE x \in AllRead(listed)
    <3>1. Target(x[1]) \in AppIds /\ x \in InstIds  BY <1>2, <1>3, <1>6, <2>1
    <3> DEFINE o == IF x \in DOMAIN instance THEN instance[x].opened ELSE 0
    <3>2. o \in {0, 1}  BY <1>10 DEF InstStructures
    <3>3. instance'[x] = [app |-> Target(x[1]), valid |-> TRUE, opened |-> o]
      BY <1>9, <1>15, <2>1
    <3> HIDE DEF o
    <3> QED BY <3>1, <3>2, <3>3 DEF InstStructures
  <2>2. CASE x \notin AllRead(listed)
    <3>1. x \in DOMAIN instance  BY <1>8, <2>2
    <3> QED BY <1>9, <1>10, <2>2, <3>1 DEF InstStructures
  <2> QED BY <2>1, <2>2
<1>16. instance' = [x \in DOMAIN instance' |-> instance'[x]]
  BY DEF ReadsAll
<1> QED BY <1>12, <1>13, <1>14, <1>15, <1>16 DEF listed

\* The fields that an entry sets, of a structure that has all.
Changed(r, c, s, u, t, h, i, freed) ==
    [[r EXCEPT !.canDump = c, !.switch = s, !.until = u, !.templates = t, !.headers = h]
       EXCEPT !.instances = i, !.usage = @ - freed]

LEMMA FieldsAreSet ==
    ASSUME NEW r \in AppStructures, NEW c, NEW s, NEW u, NEW t, NEW h, NEW i, NEW freed
    PROVE  Changed(r, c, s, u, t, h, i, freed)
                 = [canDump |-> c, switch |-> s, until |-> u, templates |-> t, headers |-> h,
                    instances |-> i, usage |-> r.usage - freed]
<1> DEFINE
     q1 == [r EXCEPT !.canDump = c]
     q2 == [q1 EXCEPT !.switch = s]
     q3 == [q2 EXCEPT !.until = u]
     q4 == [q3 EXCEPT !.templates = t]
     q5 == [q4 EXCEPT !.headers = h]
     q6 == [q5 EXCEPT !.instances = i]
     q7 == [q6 EXCEPT !.usage = @ - freed]
<1>1. r = [canDump |-> r.canDump, switch |-> r.switch, until |-> r.until, templates |-> r.templates,
           headers |-> r.headers, instances |-> r.instances, usage |-> r.usage]
  BY DEF AppStructures
<1>2. q1 = [canDump |-> c, switch |-> r.switch, until |-> r.until, templates |-> r.templates,
            headers |-> r.headers, instances |-> r.instances, usage |-> r.usage]
  BY <1>1
<1> HIDE DEF q1
<1>3. q2 = [canDump |-> c, switch |-> s, until |-> r.until, templates |-> r.templates,
            headers |-> r.headers, instances |-> r.instances, usage |-> r.usage]
  BY <1>2
<1> HIDE DEF q2
<1>4. q3 = [canDump |-> c, switch |-> s, until |-> u, templates |-> r.templates,
            headers |-> r.headers, instances |-> r.instances, usage |-> r.usage]
  BY <1>3
<1> HIDE DEF q3
<1>5. q4 = [canDump |-> c, switch |-> s, until |-> u, templates |-> t,
            headers |-> r.headers, instances |-> r.instances, usage |-> r.usage]
  BY <1>4
<1> HIDE DEF q4
<1>6. q5 = [canDump |-> c, switch |-> s, until |-> u, templates |-> t,
            headers |-> h, instances |-> r.instances, usage |-> r.usage]
  BY <1>5
<1> HIDE DEF q5
<1>7. q6 = [canDump |-> c, switch |-> s, until |-> u, templates |-> t,
            headers |-> h, instances |-> i, usage |-> r.usage]
  BY <1>6
<1> HIDE DEF q6
<1>8. q7 = [canDump |-> c, switch |-> s, until |-> u, templates |-> t,
            headers |-> h, instances |-> i, usage |-> r.usage - freed]
  BY <1>7
<1> HIDE DEF q7
<1> QED BY <1>8 DEF Changed, q1, q2, q3, q4, q5, q6, q7

\* The structure of an application that was read.
LEMMA AppOfProps ==
    ASSUME TableInv, NEW file \in Files, HasRoom(ListedIn(file)),
           NEW n \in DOMAIN ListedIn(file)
    PROVE  LET e == ListedIn(file)[n]
           IN  /\ AppOf(n, e) \in AppStructures
               /\ AppOf(n, e).instances = Read(n, e)
               /\ AppOf(n, e).canDump = (e.canDump = "YES")
               /\ AppOf(n, e).switch = (e.switch # "NO")
               /\ AppOf(n, e).until = UnavailableUntil(e.until)
               /\ AppOf(n, e).templates = e.templates
               /\ e.header # Absent => Contains(AppOf(n, e).headers, e.header)
<1> DEFINE e == ListedIn(file)[n]
           Headers == {f.header : f \in EntriesOfFiles}
           old == IF n \in DOMAIN dict THEN app[dict[n]] ELSE NewApp
           freed == FreeNotValid(n, e)
<1>1. n \in Names /\ e \in EntriesOfFiles /\ e.instances \subseteq Numbers
      /\ e.templates \in {"own", Absent}
  BY ListedProps
<1>2. old \in AppStructures
  <2>1. CASE n \in DOMAIN dict
    BY <2>1 DEF TableInv, ReaderTypeOK, InMemory
  <2>2. CASE n \notin DOMAIN dict
    <3>1. <<>> \in Seq(Headers)  OBVIOUS
    <3> QED BY <2>2, <3>1 DEF NewApp, AppStructures
  <2> QED BY <2>1, <2>2
<1>3. Cardinality(freed) \in Nat
  <2>1. {x[2] : x \in Held(n)} \subseteq Numbers
    <3>1. \A x \in InstIds : x[2] \in Numbers  BY DEF InstIds
    <3> QED BY <1>1, <3>1, HeldProps
  <2>2. IsFiniteSet(Held(n))  BY <1>1, <2>1, HeldProps, SameNumber
  <2>3. freed \subseteq Held(n)  BY DEF FreeNotValid
  <2> QED BY <2>2, <2>3, FS_Subset, FS_CardinalityType
<1>4. \A x \in Read(n, e) : x \in InstIds
  <2>1. \A k \in e.instances : Current(n, k) # {} \/ FreeInsts(n, k) # {}
    BY DEF HasRoom
  <2> QED BY <1>1, <2>1, ReadProps
<1> HIDE DEF old, freed, e
<1> DEFINE h == IF e.header = Absent THEN old.headers ELSE Append(old.headers, e.header)
<1>5. h \in Seq(Headers) /\ (e.header # Absent => Contains(h, e.header))
  <2>1. old.headers \in Seq(Headers) /\ e.header \in Headers
    BY <1>1, <1>2 DEF AppStructures
  <2>2. CASE e.header = Absent  BY <2>1, <2>2
  <2>3. CASE e.header # Absent
    <3>1. h = Append(old.headers, e.header)  BY <2>3
    <3>2. h \in Seq(Headers) /\ Len(h) = Len(old.headers) + 1 /\ h[Len(h)] = e.header
      BY <2>1, <3>1
    <3>3. Len(h) \in 1 .. Len(h)  BY <2>1, <3>2
    <3> QED BY <3>2, <3>3 DEF Contains
  <2> QED BY <2>2, <2>3
<1> HIDE DEF h
<1>6. AppOf(n, e) = [canDump |-> e.canDump = "YES", switch |-> e.switch # "NO",
                     until |-> UnavailableUntil(e.until), templates |-> e.templates,
                     headers |-> h, instances |-> Read(n, e),
                     usage |-> old.usage - Cardinality(freed)]
  <2>1. h = IF e.header = Absent THEN old.headers ELSE Append(old.headers, e.header)
    BY DEF h
  <2> DEFINE canDump == e.canDump = "YES"
             switch == e.switch # "NO"
             until == UnavailableUntil(e.until)
             read == Read(n, e)
             number == Cardinality(freed)
  <2>2. AppOf(n, e) = Changed(old, canDump, switch, until, e.templates, h, read, number)
    BY <2>1, Zenon DEF AppOf, Settled, Changed, old, freed
  <2> HIDE DEF canDump, switch, until, read, number
  <2>3. AppOf(n, e) = [canDump |-> canDump, switch |-> switch, until |-> until,
                       templates |-> e.templates, headers |-> h, instances |-> read,
                       usage |-> old.usage - number]
    BY <1>2, <2>2, FieldsAreSet
  <2> QED BY <2>3, Zenon DEF canDump, switch, until, read, number
<1>7. UnavailableUntil(e.until) \in
        {<<0, 0>>} \union {UnavailableUntil(f.until) : f \in EntriesOfFiles}
  BY <1>1
<1>8. old.usage - Cardinality(freed) \in Int
  BY <1>2, <1>3 DEF AppStructures
<1>9. AppOf(n, e) \in AppStructures
  BY <1>1, <1>4, <1>5, <1>6, <1>7, <1>8 DEF AppStructures
<1> QED BY <1>5, <1>6, <1>9 DEF e

\* The dictionaries and the structures fit together after a file was read.
LEMMA ReadKeepsStructures ==
    ASSUME TableInv, NEW file \in Files, ReadsAll(file)
    PROVE  ReaderTypeOK' /\ InMemory' /\ KeysInv'
<1> DEFINE listed == ListedIn(file)
<1>1. HasRoom(listed) /\ DOMAIN listed \subseteq Names
      /\ \A n \in DOMAIN listed : listed[n].instances \subseteq Numbers
  BY ListedProps DEF ReadsAll
<1>2. \A n \in DOMAIN listed : Target(n) \in AppIds /\ Target(n)[1] = n
  BY <1>1, TargetProps DEF HasRoom
<1>3. \A n \in DOMAIN listed : /\ AppOf(n, listed[n]) \in AppStructures
                               /\ AppOf(n, listed[n]).instances = Read(n, listed[n])
  BY <1>1, AppOfProps
<1>4. \A n \in DOMAIN listed :
        /\ \A x \in Read(n, listed[n]) : x[1] = n /\ x[2] \in listed[n].instances
        /\ \A x, y \in Read(n, listed[n]) : x[2] = y[2] => x = y
  BY <1>1, ReadProps DEF HasRoom
<1>5. /\ \A n \in DOMAIN listed : listed[n].instances # {} =>
           /\ n \in DOMAIN dict' /\ dict'[n] = Target(n)
           /\ Target(n) \in DOMAIN app' /\ app'[Target(n)] = AppOf(n, listed[n])
      /\ \A n \in DOMAIN dict' :
           \/ n \in DOMAIN listed /\ listed[n].instances # {}
           \/ /\ n \in DOMAIN dict \ DOMAIN listed
              /\ dict'[n] = dict[n] /\ dict[n] \in DOMAIN app' /\ app'[dict[n]] = app[dict[n]]
      /\ \A a \in DOMAIN app' :
           \/ a[1] \in DOMAIN listed /\ listed[a[1]].instances # {} /\ a = Target(a[1])
           \/ /\ a \in DOMAIN app /\ a[1] \notin DOMAIN listed
              /\ a[1] \in DOMAIN dict' /\ dict'[a[1]] = a /\ app'[a] = app[a]
  BY StructuresAfter
<1>6. /\ \A n \in DOMAIN listed : \A x \in Read(n, listed[n]) :
           /\ x \in DOMAIN instance' /\ x[1] = n
           /\ instance'[x].app = Target(n) /\ instance'[x].valid
      /\ \A x \in DOMAIN instance' :
           \/ x[1] \in DOMAIN listed /\ x \in Read(x[1], listed[x[1]])
           \/ /\ x \in DOMAIN instance
              /\ instance'[x] = [instance[x] EXCEPT !.valid = FALSE]
              /\ x[1] \notin DOMAIN listed \/ instance[x].opened = 1
      /\ \A x \in DOMAIN instance : x[1] \notin DOMAIN listed =>
           x \in DOMAIN instance' /\ instance'[x] = [instance[x] EXCEPT !.valid = FALSE]
      /\ instance' \in [DOMAIN instance' -> InstStructures]
      /\ DOMAIN instance' \subseteq InstIds
  BY InstancesAfter
<1>7. \A x \in DOMAIN instance :
        /\ instance[x] \in InstStructures
        /\ [instance[x] EXCEPT !.valid = FALSE].app = instance[x].app
        /\ [instance[x] EXCEPT !.valid = FALSE].opened = instance[x].opened
        /\ ~[instance[x] EXCEPT !.valid = FALSE].valid
  BY DEF TableInv, ReaderTypeOK, InstStructures
<1>8. /\ dict' = [n \in DOMAIN dict' |-> dict'[n]]
      /\ app' = [a \in DOMAIN app' |-> app'[a]]
  BY DEF ReadsAll
<1> HIDE DEF listed
<1>9. ReaderTypeOK'
  <2>1. \A n \in DOMAIN dict' : n \in Names /\ dict'[n] \in AppIds
    BY <1>1, <1>2, <1>5 DEF TableInv, ReaderTypeOK
  <2>2. \A a \in DOMAIN app' : a \in AppIds /\ app'[a] \in AppStructures
    BY <1>2, <1>3, <1>5 DEF TableInv, ReaderTypeOK
  <2>3. dict' \in [DOMAIN dict' -> AppIds]  BY <1>8, <2>1
  <2>4. app' \in [DOMAIN app' -> AppStructures]  BY <1>8, <2>2
  <2> QED BY <1>6, <2>1, <2>2, <2>3, <2>4 DEF ReaderTypeOK
<1>10. InMemory'
  <2>1. \A n \in DOMAIN dict' : dict'[n] \in DOMAIN app'
    BY <1>5
  <2>2. ASSUME NEW a \in DOMAIN app'
        PROVE  /\ a[1] \in DOMAIN dict' /\ dict'[a[1]] = a
               /\ \A x \in app'[a].instances : x \in DOMAIN instance' /\ instance'[x].app = a
    <3>1. CASE a[1] \in DOMAIN listed /\ listed[a[1]].instances # {} /\ a = Target(a[1])
      BY <1>3, <1>5, <1>6, <3>1
    <3>2. CASE /\ a \in DOMAIN app /\ a[1] \notin DOMAIN listed
               /\ a[1] \in DOMAIN dict' /\ dict'[a[1]] = a /\ app'[a] = app[a]
      <4>1. \A x \in app[a].instances : x \in DOMAIN instance /\ instance[x].app = a /\ x[1] = a[1]
        BY <3>2 DEF TableInv, InMemory, KeysInv
      <4> QED BY <1>6, <1>7, <3>2, <4>1
    <3> QED BY <1>5, <2>2, <3>1, <3>2
  <2>3. ASSUME NEW x \in DOMAIN instance'
        PROVE  \/ instance'[x].opened > 0
               \/ instance'[x].app \in DOMAIN app' /\ x \in app'[instance'[x].app].instances
    <3>1. CASE x[1] \in DOMAIN listed /\ x \in Read(x[1], listed[x[1]])
      BY <1>3, <1>4, <1>5, <1>6, <3>1
    <3>2. CASE /\ x \in DOMAIN instance
               /\ instance'[x] = [instance[x] EXCEPT !.valid = FALSE]
               /\ instance[x].opened = 1
      BY <1>7, <3>2
    <3>3. CASE /\ x \in DOMAIN instance
               /\ instance'[x] = [instance[x] EXCEPT !.valid = FALSE]
               /\ x[1] \notin DOMAIN listed
      <4>1. CASE instance[x].opened > 0
        BY <1>7, <3>3, <4>1
      <4>2. CASE instance[x].app \in DOMAIN app /\ x \in app[instance[x].app].instances
        <5> DEFINE a == instance[x].app
        <5>1. a[1] = x[1] /\ a[1] \in DOMAIN dict /\ dict[a[1]] = a
          BY <3>3, <4>2 DEF TableInv, InMemory, KeysInv
        <5>2. a \in DOMAIN app' /\ app'[a] = app[a]
          <6>1. x[1] \in DOMAIN dict'
            BY <3>3, <4>2, <5>1 DEF ReadsAll, Remaining, listed
          <6> QED BY <1>5, <3>3, <5>1, <6>1
        <5> QED BY <1>7, <3>3, <4>2, <5>2
      <4> QED BY <3>3, <4>1, <4>2 DEF TableInv, InMemory
    <3> QED BY <1>6, <2>3, <3>1, <3>2, <3>3
  <2>4. ASSUME ~emptied', NEW x \in DOMAIN instance'
        PROVE  instance'[x].app \in DOMAIN app'
    <3>1. ~emptied /\ ~Empties(listed)  BY <2>4 DEF ReadsAll, listed
    <3>2. CASE x[1] \in DOMAIN listed /\ x \in Read(x[1], listed[x[1]])
      BY <1>4, <1>5, <1>6, <3>2
    <3>3. CASE /\ x \in DOMAIN instance
               /\ instance'[x] = [instance[x] EXCEPT !.valid = FALSE]
               /\ x[1] \notin DOMAIN listed \/ instance[x].opened = 1
      <4> DEFINE a == instance[x].app
                 n == x[1]
      <4>1. a \in DOMAIN app /\ a[1] = n /\ n \in DOMAIN dict /\ dict[n] = a
        BY <3>1, <3>3 DEF TableInv, InMemory, KeysInv
      <4>2. instance'[x].app = a  BY <1>7, <3>3
      <4>3. CASE n \notin DOMAIN listed
        <5>1. n \in DOMAIN dict'
          BY <4>1, <4>3 DEF ReadsAll, Remaining, listed
        <5> QED BY <1>5, <4>1, <4>2, <4>3, <5>1
      <4>4. CASE n \in DOMAIN listed /\ listed[n].instances = {}
        <5>1. Empties(listed)  BY <3>3, <4>1, <4>4 DEF Empties
        <5> QED BY <3>1, <5>1
      <4>5. CASE n \in DOMAIN listed /\ listed[n].instances # {}
        <5>1. Target(n) = a  BY <4>1 DEF Target
        <5> QED BY <1>5, <4>2, <4>5, <5>1
      <4> QED BY <4>3, <4>4, <4>5
    <3> QED BY <1>6, <2>4, <3>2, <3>3
  <2>5. ~emptied' => crashed' # "dangling"
    BY DEF ReadsAll, TableInv, InMemory
  <2> QED BY <2>1, <2>2, <2>3, <2>4, <2>5 DEF InMemory
<1>11. KeysInv'
  <2>1. \A n \in DOMAIN dict' : dict'[n][1] = n
    BY <1>2, <1>5 DEF TableInv, KeysInv
  <2>2. ASSUME NEW x \in DOMAIN instance' PROVE instance'[x].app[1] = x[1]
    <3>1. CASE x[1] \in DOMAIN listed /\ x \in Read(x[1], listed[x[1]])
      BY <1>2, <1>6, <3>1
    <3>2. CASE x \in DOMAIN instance /\ instance'[x] = [instance[x] EXCEPT !.valid = FALSE]
      <4>1. instance'[x].app = instance[x].app  BY <1>7, <3>2
      <4> QED BY <3>2, <4>1 DEF TableInv, KeysInv
    <3> QED BY <1>6, <2>2, <3>1, <3>2
  <2>3. \A a \in DOMAIN app' : \A x, y \in app'[a].instances : x[2] = y[2] => x = y
    <3> SUFFICES ASSUME NEW a \in DOMAIN app'
                 PROVE  \A x, y \in app'[a].instances : x[2] = y[2] => x = y
      OBVIOUS
    <3>1. CASE a[1] \in DOMAIN listed /\ listed[a[1]].instances # {} /\ a = Target(a[1])
      BY <1>3, <1>4, <1>5, <3>1
    <3>2. CASE a \in DOMAIN app /\ app'[a] = app[a]
      BY <3>2 DEF TableInv, KeysInv
    <3> QED BY <1>5, <3>1, <3>2
  <2>4. ASSUME NEW x \in DOMAIN instance', instance'[x].valid
        PROVE  instance'[x].app \in DOMAIN app' /\ x \in app'[instance'[x].app].instances
    <3>1. x[1] \in DOMAIN listed /\ x \in Read(x[1], listed[x[1]])
      <4>1. CASE x \in DOMAIN instance /\ instance'[x] = [instance[x] EXCEPT !.valid = FALSE]
        <5>1. ~instance'[x].valid  BY <1>7, <4>1
        <5> QED BY <2>4, <5>1
      <4> QED BY <1>6, <2>4, <4>1
    <3> QED BY <1>3, <1>4, <1>5, <1>6, <3>1
  <2> QED BY <2>1, <2>2, <2>3, <2>4 DEF KeysInv
<1> QED BY <1>9, <1>10, <1>11

\* And they have what the file says.
LEMMA ReadKeepsFile ==
    ASSUME TableInv, NEW file \in Files, ReadsAll(file)
    PROVE  FileInv'
<1> DEFINE listed == ListedIn(file)
<1>1. HasRoom(listed) /\ DOMAIN listed \subseteq Names
      /\ \A n \in DOMAIN listed : listed[n].instances \subseteq Numbers
  BY ListedProps DEF ReadsAll
<1>2. \A n \in DOMAIN listed :
        /\ AppOf(n, listed[n]).instances = Read(n, listed[n])
        /\ AppOf(n, listed[n]).canDump = (listed[n].canDump = "YES")
        /\ AppOf(n, listed[n]).switch = (listed[n].switch # "NO")
        /\ AppOf(n, listed[n]).until = UnavailableUntil(listed[n].until)
        /\ AppOf(n, listed[n]).templates = listed[n].templates
        /\ listed[n].header # Absent => Contains(AppOf(n, listed[n]).headers, listed[n].header)
  BY <1>1, AppOfProps
<1>3. \A n \in DOMAIN listed :
        /\ {x[2] : x \in Read(n, listed[n])} = listed[n].instances
        /\ Cardinality(Read(n, listed[n])) = Cardinality(listed[n].instances)
  <2> SUFFICES ASSUME NEW n \in DOMAIN listed
               PROVE  /\ {x[2] : x \in Read(n, listed[n])} = listed[n].instances
                      /\ Cardinality(Read(n, listed[n])) = Cardinality(listed[n].instances)
    OBVIOUS
  <2>1. /\ \A x \in Read(n, listed[n]) : x[2] \in listed[n].instances
        /\ \A k \in listed[n].instances : \E x \in Read(n, listed[n]) : x[2] = k
        /\ \A x, y \in Read(n, listed[n]) : x[2] = y[2] => x = y
    BY <1>1, ReadProps DEF HasRoom
  <2>2. {x[2] : x \in Read(n, listed[n])} = listed[n].instances
    BY <2>1
  <2> QED BY <1>1, <2>1, <2>2, SameNumber
<1>4. /\ \A n \in DOMAIN listed : listed[n].instances # {} =>
           /\ n \in DOMAIN dict' /\ dict'[n] = Target(n)
           /\ app'[Target(n)] = AppOf(n, listed[n])
      /\ \A n \in DOMAIN dict' :
           \/ n \in DOMAIN listed /\ listed[n].instances # {}
           \/ /\ n \in DOMAIN dict \ DOMAIN listed
              /\ dict'[n] = dict[n] /\ app'[dict[n]] = app[dict[n]]
  BY StructuresAfter
<1>5. /\ \A n \in DOMAIN listed : \A x \in Read(n, listed[n]) : instance'[x].valid
      /\ \A x \in DOMAIN instance : x[1] \notin DOMAIN listed =>
           instance'[x] = [instance[x] EXCEPT !.valid = FALSE]
  BY InstancesAfter
<1>6. \A n \in DOMAIN dict : \A x \in app[dict[n]].instances :
        /\ x \in DOMAIN instance /\ x[1] = n
        /\ ~[instance[x] EXCEPT !.valid = FALSE].valid
  BY DEF TableInv, InMemory, KeysInv, ReaderTypeOK, InstStructures
<1>7. file # Absent => (Listed)' = listed
  BY DEF ReadsAll, Listed
<1>8. /\ lastFile' = file
      /\ global'.templates = IF file.parses THEN file.global.templates ELSE Absent
  BY DEF ReadsAll, GlobalSettings, NoSettings
<1> HIDE DEF listed
<1>9. ASSUME NEW n \in DOMAIN listed, n \in DOMAIN dict'
      PROVE  /\ app'[dict'[n]] = AppOf(n, listed[n])
             /\ ValidOf(n)' = Read(n, listed[n])
  <2>1. app'[dict'[n]] = AppOf(n, listed[n])  BY <1>4, <1>9
  <2> QED BY <1>2, <1>5, <2>1 DEF ValidOf
<1>10. ASSUME NEW n \in DOMAIN dict' \ DOMAIN listed
       PROVE  ValidOf(n)' = {}
  <2>1. n \in DOMAIN dict /\ app'[dict'[n]] = app[dict[n]]  BY <1>4, <1>10
  <2>2. ASSUME NEW x \in app[dict[n]].instances PROVE ~instance'[x].valid
    <3>1. x \in DOMAIN instance /\ x[1] \notin DOMAIN listed  BY <1>6, <1>10, <2>1
    <3>2. instance'[x] = [instance[x] EXCEPT !.valid = FALSE]  BY <1>5, <3>1
    <3> QED BY <1>6, <2>1, <3>2
  <2> QED BY <2>1, <2>2 DEF ValidOf
<1>11. ASSUME file # Absent PROVE SettingsAreRead'
  <2>1. \A n \in DOMAIN listed : (n \in DOMAIN dict') <=> (listed[n].instances # {})
    BY <1>4
  <2>2. ASSUME NEW n \in DOMAIN dict' \intersect DOMAIN listed
        PROVE  LET e == listed[n]
                   a == app'[dict'[n]]
               IN  /\ a.canDump = (e.canDump = "YES") /\ a.switch = (e.switch # "NO")
                   /\ a.until = UnavailableUntil(e.until) /\ a.templates = e.templates
                   /\ e.header # Absent => Contains(a.headers, e.header)
                   /\ {x[2] : x \in ValidOf(n)'} = e.instances
                   /\ Cardinality(ValidOf(n)') = Cardinality(e.instances)
    BY <1>2, <1>3, <1>9
  <2> QED BY <1>7, <1>10, <1>11, <2>1, <2>2 DEF SettingsAreRead
<1> QED BY <1>8, <1>11 DEF FileInv

\* Settings stay as they are while the file, and which instances are valid, do.
LEMMA FileIsKept ==
    ASSUME TableInv, UNCHANGED <<lastFile, global, dict>>,
           \A n \in DOMAIN dict :
               /\ app'[dict[n]].canDump = app[dict[n]].canDump
               /\ app'[dict[n]].switch = app[dict[n]].switch
               /\ app'[dict[n]].until = app[dict[n]].until
               /\ app'[dict[n]].templates = app[dict[n]].templates
               /\ app'[dict[n]].headers = app[dict[n]].headers
               /\ ValidOf(n)' = ValidOf(n)
    PROVE  FileInv'
<1>1. Listed' = Listed  BY DEF Listed
<1>2. ASSUME SettingsAreRead PROVE SettingsAreRead'
  <2>1. \A n \in DOMAIN Listed : (n \in DOMAIN dict') <=> (Listed[n].instances # {})
    BY <1>2 DEF SettingsAreRead
  <2>2. ASSUME NEW n \in DOMAIN dict \intersect DOMAIN Listed
        PROVE  LET e == Listed[n]
                   a == app'[dict'[n]]
               IN  /\ a.canDump = (e.canDump = "YES") /\ a.switch = (e.switch # "NO")
                   /\ a.until = UnavailableUntil(e.until) /\ a.templates = e.templates
                   /\ e.header # Absent => Contains(a.headers, e.header)
                   /\ {x[2] : x \in ValidOf(n)'} = e.instances
                   /\ Cardinality(ValidOf(n)') = Cardinality(e.instances)
    BY <1>2 DEF SettingsAreRead
  <2>3. \A n \in DOMAIN dict \ DOMAIN Listed : ValidOf(n)' = {}
    BY <1>2 DEF SettingsAreRead
  <2> QED BY <1>1, <2>1, <2>2, <2>3 DEF SettingsAreRead
<1> QED BY <1>2 DEF TableInv, FileInv

\* A valid instance may be taken or given back.
LEMMA OpenedKeeps ==
    ASSUME TableInv, NEW x \in DOMAIN instance, instance[x].valid, NEW o \in {0, 1},
           instance' = [instance EXCEPT ![x].opened = o],
           UNCHANGED <<lastFile, global, dict, app, emptied, crashed>>
    PROVE  TableInv'
<1>1. \A y \in DOMAIN instance : instance[y] \in InstStructures
  BY DEF TableInv, ReaderTypeOK
<1>2. /\ DOMAIN instance' = DOMAIN instance
      /\ instance' = [y \in DOMAIN instance' |-> instance'[y]]
  OBVIOUS
<1>3. ASSUME NEW y \in DOMAIN instance
      PROVE  /\ instance'[y] \in InstStructures
             /\ instance'[y].app = instance[y].app /\ instance'[y].valid = instance[y].valid
             /\ y # x => instance'[y] = instance[y]
  <2>1. CASE y = x
    <3>1. instance'[y] = [instance[y] EXCEPT !.opened = o]  BY <2>1
    <3> QED BY <1>1, <2>1, <3>1 DEF InstStructures
  <2>2. CASE y # x  BY <1>1, <2>2
  <2> QED BY <2>1, <2>2
<1>4. ReaderTypeOK'
  BY <1>2, <1>3 DEF TableInv, ReaderTypeOK
<1>5. KeysInv'
  BY <1>2, <1>3 DEF TableInv, KeysInv
<1>6. InMemory'
  <2>1. instance[x].app \in DOMAIN app /\ x \in app[instance[x].app].instances
    BY DEF TableInv, KeysInv
  <2>2. ASSUME NEW y \in DOMAIN instance
        PROVE  \/ instance'[y].opened > 0
               \/ instance'[y].app \in DOMAIN app /\ y \in app[instance'[y].app].instances
    <3>1. CASE y = x  BY <1>3, <2>1, <3>1
    <3>2. CASE y # x
      <4>1. instance'[y] = instance[y]  BY <1>3, <3>2
      <4> QED BY <4>1 DEF TableInv, InMemory
    <3> QED BY <3>1, <3>2
  <2>3. /\ \A n \in DOMAIN dict : dict[n] \in DOMAIN app
        /\ \A a \in DOMAIN app :
             /\ a[1] \in DOMAIN dict /\ dict[a[1]] = a
             /\ \A y \in app[a].instances : y \in DOMAIN instance' /\ instance'[y].app = a
    BY <1>2, <1>3 DEF TableInv, InMemory
  <2>4. ~emptied => /\ crashed # "dangling"
                    /\ \A y \in DOMAIN instance : instance'[y].app \in DOMAIN app
    BY <1>3 DEF TableInv, InMemory
  <2> QED BY <1>2, <2>2, <2>3, <2>4 DEF InMemory
<1>7. FileInv'
  <2>1. \A n \in DOMAIN dict : \A y \in app[dict[n]].instances : y \in DOMAIN instance
    BY DEF TableInv, InMemory
  <2>2. \A n \in DOMAIN dict : ValidOf(n)' = ValidOf(n)
    BY <1>3, <2>1 DEF ValidOf
  <2> QED BY <2>2, FileIsKept
<1> QED BY <1>4, <1>5, <1>6, <1>7 DEF TableInv

\* One that is not valid goes when it is given back, whatever the counters of the
\* applications become.
LEMMA ReleaseOfGoneKeeps ==
    ASSUME TableInv, NEW x \in DOMAIN instance, ~instance[x].valid,
           instance' = WithoutInstance(x), UNCHANGED <<lastFile, global, dict, emptied, crashed>>,
           DOMAIN app' = DOMAIN app, app' = [b \in DOMAIN app' |-> app'[b]],
           \A b \in DOMAIN app :
               /\ app'[b] \in AppStructures
               /\ app'[b].instances = app[b].instances \ {x}
               /\ app'[b].canDump = app[b].canDump /\ app'[b].switch = app[b].switch
               /\ app'[b].until = app[b].until
               /\ app'[b].templates = app[b].templates /\ app'[b].headers = app[b].headers
    PROVE  TableInv'
<1>1. /\ DOMAIN instance' = DOMAIN instance \ {x}
      /\ \A y \in DOMAIN instance' : instance'[y] = instance[y]
      /\ instance' = [y \in DOMAIN instance' |-> instance'[y]]
  BY DEF WithoutInstance
<1>2. ReaderTypeOK'
  <2>1. app' \in [DOMAIN app' -> AppStructures] /\ DOMAIN app' \subseteq AppIds
    BY DEF TableInv, ReaderTypeOK
  <2>2. instance' \in [DOMAIN instance' -> InstStructures] /\ DOMAIN instance' \subseteq InstIds
    <3>1. \A y \in DOMAIN instance' : instance'[y] \in InstStructures /\ y \in InstIds
      BY <1>1 DEF TableInv, ReaderTypeOK
    <3> QED BY <1>1, <3>1
  <2> QED BY <2>1, <2>2 DEF TableInv, ReaderTypeOK
<1>3. KeysInv'
  BY <1>1 DEF TableInv, KeysInv
<1>4. InMemory'
  BY <1>1 DEF TableInv, InMemory
<1>5. FileInv'
  <2>1. \A n \in DOMAIN dict : dict[n] \in DOMAIN app
                               /\ \A y \in app[dict[n]].instances : y \in DOMAIN instance
    BY DEF TableInv, InMemory
  <2>2. \A n \in DOMAIN dict : ValidOf(n)' = ValidOf(n)
    BY <1>1, <2>1 DEF ValidOf
  <2> QED BY <2>1, <2>2, FileIsKept
<1> QED BY <1>2, <1>3, <1>4, <1>5 DEF TableInv

\* The counter of an application is lowered, and it may lose an instance.
LEMMA CountedOff ==
    ASSUME TableInv, NEW x \in DOMAIN instance, NEW a \in DOMAIN app, NEW gone,
           app' = [app EXCEPT ![a].instances = @ \ gone, ![a].usage = @ - 1]
    PROVE  /\ DOMAIN app' = DOMAIN app /\ app' = [b \in DOMAIN app' |-> app'[b]]
           /\ \A b \in DOMAIN app :
                /\ app'[b] \in AppStructures
                /\ app'[b].instances = IF b = a THEN app[b].instances \ gone ELSE app[b].instances
                /\ app'[b].canDump = app[b].canDump /\ app'[b].switch = app[b].switch
                /\ app'[b].until = app[b].until
                /\ app'[b].templates = app[b].templates /\ app'[b].headers = app[b].headers
<1>1. \A b \in DOMAIN app : app[b] \in AppStructures
  BY DEF TableInv, ReaderTypeOK
<1>2. DOMAIN app' = DOMAIN app /\ app' = [b \in DOMAIN app' |-> app'[b]]
  BY DEF TableInv, ReaderTypeOK
<1> DEFINE q == [app[a] EXCEPT !.instances = @ \ gone]
<1>3. app'[a] = [q EXCEPT !.usage = @ - 1]
  OBVIOUS
<1>4. /\ q \in AppStructures /\ q.instances = app[a].instances \ gone
      /\ q.canDump = app[a].canDump /\ q.switch = app[a].switch /\ q.until = app[a].until
      /\ q.templates = app[a].templates /\ q.headers = app[a].headers
  BY <1>1 DEF AppStructures
<1> HIDE DEF q
<1>5. /\ app'[a] \in AppStructures /\ app'[a].instances = app[a].instances \ gone
      /\ app'[a].canDump = app[a].canDump /\ app'[a].switch = app[a].switch
      /\ app'[a].until = app[a].until
      /\ app'[a].templates = app[a].templates /\ app'[a].headers = app[a].headers
  <2> DEFINE u == q.usage - 1
  <2>1. app'[a] = [q EXCEPT !.usage = u]  BY <1>3
  <2>2. u \in Int  BY <1>4 DEF AppStructures
  <2> HIDE DEF u
  <2> QED BY <1>4, <2>1, <2>2 DEF AppStructures
<1>6. \A b \in DOMAIN app \ {a} : app'[b] = app[b]
  OBVIOUS
<1> QED BY <1>1, <1>2, <1>5, <1>6

\* Every step keeps the invariant.
LEMMA TableInvNext == TableInv /\ [ReaderNext]_readerVars => TableInv'
<1> SUFFICES ASSUME TableInv, [ReaderNext]_readerVars PROVE TableInv'
  OBVIOUS
<1>1. ASSUME UNCHANGED <<lastFile, global, dict, app, instance, emptied>>,
             crashed' = "dangling" => crashed = "dangling" \/ emptied
      PROVE  TableInv'
  <2>1. \A n \in DOMAIN dict : ValidOf(n)' = ValidOf(n)  BY <1>1 DEF ValidOf
  <2>2. FileInv'  BY <1>1, <2>1, FileIsKept
  <2>3. ReaderTypeOK' /\ InMemory' /\ KeysInv'
    BY <1>1 DEF TableInv, ReaderTypeOK, InMemory, KeysInv
  <2> QED BY <2>2, <2>3 DEF TableInv
<1>2. ASSUME NEW file \in Files, ReadConfiguration(file) PROVE TableInv'
  <2>1. CASE Incomplete(ListedIn(file))
    <3>1. UNCHANGED <<lastFile, global, dict, app, instance, emptied>> /\ crashed' = "missing"
      BY <1>2, <2>1 DEF ReadConfiguration
    <3> QED BY <1>1, <3>1
  <2>2. CASE ~Incomplete(ListedIn(file))
    <3>1. ReadsAll(file)  BY <1>2, <2>2 DEF ReadConfiguration, ReadsAll
    <3> QED BY <3>1, ReadKeepsStructures, ReadKeepsFile DEF TableInv
  <2> QED BY <2>1, <2>2
<1>3. ASSUME NEW x \in InstIds, TakeInstance(x) PROVE TableInv'
  BY <1>3, OpenedKeeps DEF TakeInstance
<1>4. ASSUME NEW x \in InstIds, ReleaseInstance(x) PROVE TableInv'
  <2>1. CASE instance[x].valid
    BY <1>4, <2>1, OpenedKeeps DEF ReleaseInstance
  <2>2. CASE ~instance[x].valid
    <3> DEFINE a == instance[x].app
    <3>1. /\ x \in DOMAIN instance /\ a \in DOMAIN app /\ instance' = WithoutInstance(x)
          /\ ~instance[x].valid
          /\ app' = [app EXCEPT ![a].instances = @ \ {x}, ![a].usage = @ - 1]
          /\ UNCHANGED <<lastFile, global, dict, emptied, crashed>>
      BY <1>4, <2>2 DEF ReleaseInstance
    <3>2. \A b \in DOMAIN app \ {a} : x \notin app[b].instances
      BY DEF TableInv, InMemory
    <3> HIDE DEF a
    <3>3. /\ DOMAIN app' = DOMAIN app /\ app' = [b \in DOMAIN app' |-> app'[b]]
          /\ \A b \in DOMAIN app :
               /\ app'[b] \in AppStructures
               /\ app'[b].instances = IF b = a THEN app[b].instances \ {x} ELSE app[b].instances
               /\ app'[b].canDump = app[b].canDump /\ app'[b].switch = app[b].switch
               /\ app'[b].until = app[b].until
               /\ app'[b].templates = app[b].templates /\ app'[b].headers = app[b].headers
      BY <3>1, CountedOff
    <3>4. \A b \in DOMAIN app : app'[b].instances = app[b].instances \ {x}
      BY <3>2, <3>3
    <3> QED BY <3>1, <3>3, <3>4, ReleaseOfGoneKeeps
  <2> QED BY <2>1, <2>2
<1>5. ASSUME NEW x \in InstIds, ReleaseDangling(x) PROVE TableInv'
  <2>1. /\ x \in DOMAIN instance /\ instance[x].app \notin DOMAIN app /\ ~instance[x].valid
        /\ UNCHANGED <<lastFile, global, dict, emptied>>
    BY <1>5 DEF ReleaseDangling
  <2>2. emptied /\ \A b \in DOMAIN app : x \notin app[b].instances
    BY <2>1 DEF TableInv, InMemory
  <2>3. CASE crashed' = "dangling" /\ UNCHANGED <<app, instance>>
    BY <1>1, <2>1, <2>2, <2>3
  <2>4. CASE instance' = WithoutInstance(x) /\ UNCHANGED <<app, crashed>>
    <3>1. DOMAIN app' = DOMAIN app /\ app' = [b \in DOMAIN app' |-> app'[b]]
          /\ \A b \in DOMAIN app : app'[b] \in AppStructures
      BY <2>4 DEF TableInv, ReaderTypeOK
    <3> QED BY <2>1, <2>2, <2>4, <3>1, ReleaseOfGoneKeeps
  <2>5. ASSUME NEW a \in DOMAIN app, instance' = WithoutInstance(x), UNCHANGED crashed,
               app' = [app EXCEPT ![a].usage = @ - 1]
        PROVE  TableInv'
    <3>1. app[a] \in AppStructures  BY DEF TableInv, ReaderTypeOK
    <3>2. app' = [app EXCEPT ![a].instances = @ \ {}, ![a].usage = @ - 1]
      <4> DEFINE q == [app[a] EXCEPT !.instances = @ \ {}]
      <4>1. q = app[a]  BY <3>1 DEF AppStructures
      <4>2. [app EXCEPT ![a].instances = @ \ {}, ![a].usage = @ - 1]
              = [app EXCEPT ![a] = [q EXCEPT !.usage = @ - 1]]
        OBVIOUS
      <4> QED BY <2>5, <4>1, <4>2
    <3>3. /\ DOMAIN app' = DOMAIN app /\ app' = [b \in DOMAIN app' |-> app'[b]]
          /\ \A b \in DOMAIN app :
               /\ app'[b] \in AppStructures
               /\ app'[b].instances = IF b = a THEN app[b].instances \ {} ELSE app[b].instances
               /\ app'[b].canDump = app[b].canDump /\ app'[b].switch = app[b].switch
               /\ app'[b].until = app[b].until
               /\ app'[b].templates = app[b].templates /\ app'[b].headers = app[b].headers
      BY <2>1, <3>2, CountedOff
    <3>4. \A b \in DOMAIN app : app'[b].instances = app[b].instances \ {x}
      BY <2>2, <3>3
    <3> QED BY <2>1, <2>5, <3>3, <3>4, ReleaseOfGoneKeeps
  <2> QED BY <1>5, <2>3, <2>4, <2>5 DEF ReleaseDangling
<1> QED BY <1>1, <1>2, <1>3, <1>4, <1>5 DEF ReaderNext, readerVars

LEMMA TableInvInit == ReaderInit => TableInv
<1> SUFFICES ASSUME ReaderInit PROVE TableInv
  OBVIOUS
<1>1. DOMAIN <<>> = {}  OBVIOUS
<1>2. dict = <<>> /\ app = <<>> /\ instance = <<>> /\ lastFile = Absent /\ crashed = "no"
  BY DEF ReaderInit
<1>3. \A S : <<>> \in [DOMAIN <<>> -> S]  BY <1>1
<1> QED BY <1>1, <1>2, <1>3 DEF TableInv, ReaderTypeOK, InMemory, KeysInv, FileInv

\* The inductive invariant, of every name, number and file.
THEOREM TableIsKept == ReaderSpec => []TableInv
<1>1. ReaderInit => TableInv  BY TableInvInit
<1>2. TableInv /\ [ReaderNext]_readerVars => TableInv'  BY TableInvNext
<1> QED BY <1>1, <1>2, PTL DEF ReaderSpec

\* GSWConfig.c, GSWApp.c: the dictionaries hold what is in memory, and what is
\* in memory is in a dictionary or in use; unless the file took all instances of
\* an application that it still lists while one was in use, the application of
\* every instance is in memory and no instance that goes follows a pointer to a
\* structure that is gone.
THEOREM DictionariesHold == ReaderSpec => []InMemory
<1>1. TableInv => InMemory  BY DEF TableInv
<1> QED BY <1>1, TableIsKept, PTL

\* The pages that are built show what the file allows.
LEMMA PagesFollow == TableInv /\ lastFile # Absent => PagesAreAllowed
<1> SUFFICES ASSUME TableInv, lastFile # Absent PROVE PagesAreAllowed
  OBVIOUS
<1>1. /\ lastFile \in Files /\ SettingsAreRead
      /\ global.templates = IF lastFile.parses THEN lastFile.global.templates ELSE Absent
  BY DEF TableInv, FileInv
<1>2. /\ Absent # "own" /\ Absent # "common"
      /\ lastFile.parses => lastFile.global.templates \in {"common", Absent}
  BY <1>1, FilesAssumption
<1>3. \A n \in DOMAIN dict : app[dict[n]].templates \in {"own", Absent}
  BY DEF TableInv, ReaderTypeOK, InMemory, AppStructures
<1>4. \A n \in DOMAIN dict \intersect DOMAIN Listed :
        /\ app[dict[n]].canDump = (Listed[n].canDump = "YES")
        /\ app[dict[n]].templates = Listed[n].templates
  BY <1>1 DEF SettingsAreRead
<1>5. \A n \in DumpGSWApps(FALSE) \intersect DOMAIN Listed : Listed[n].canDump = "YES"
  BY <1>4 DEF DumpGSWApps
<1>6. ASSUME NEW n \in Names, NEW exist \in SUBSET {"own", "common"}
      PROVE  LET template == GetTemplate(n, exist)
             IN  /\ template \in exist \union {Absent}
                 /\ template = "common" => lastFile.parses /\ lastFile.global.templates = "common"
                 /\ template = "own" /\ n \in DOMAIN Listed => Listed[n].templates = "own"
  <2> DEFINE own == IF n \in DOMAIN dict THEN app[dict[n]].templates ELSE Absent
             template == GetTemplate(n, exist)
  <2>1. template = IF own \in exist THEN own
                   ELSE IF global.templates \in exist THEN global.templates ELSE Absent
    BY DEF GetTemplate
  <2>2. own \in {"own", Absent}  BY <1>3
  <2>3. own = "own" /\ n \in DOMAIN Listed => Listed[n].templates = "own"
    BY <1>2, <1>4
  <2>4. global.templates \in {"common", Absent} /\ "own" # "common"
        /\ (global.templates = "common" =>
              lastFile.parses /\ lastFile.global.templates = "common")
    BY <1>1, <1>2
  <2> HIDE DEF own, template
  <2>5. /\ template \in exist \union {Absent}
        /\ template = "common" => lastFile.parses /\ lastFile.global.templates = "common"
        /\ template = "own" /\ n \in DOMAIN Listed => Listed[n].templates = "own"
    BY <1>2, <2>1, <2>2, <2>3, <2>4
  <2> QED BY <2>5 DEF template
<1> QED BY <1>5, <1>6 DEF PagesAreAllowed

\* GSWConfig.c: after a load, the file is in force, whatever was read before and
\* whatever requests are under way.
THEOREM FileIsInForce == ReaderSpec => []InForce
<1>1. TableInv => InForce
  BY PagesFollow DEF TableInv, FileInv, InForce
<1> QED BY <1>1, TableIsKept, PTL
=============================================================================
