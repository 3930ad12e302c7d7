------------------------ MODULE LoadBalancingProofs ------------------------
(***************************************************************************)
(* LoadBalancing keeps LBInv and TurnsInv where no count is changed while  *)
(* a request marks its instance, for any numbers of requests, instances    *)
(* and records.  A process that serves one request at a time is such a     *)
(* case.  And the containers behind it (AdaptorData): a dictionary is a    *)
(* map to its client, and a string gets each value for its mark, for all   *)
(* keys, values and texts.                                                 *)
(***************************************************************************)
EXTENDS LoadBalancing, AdaptorData, ArrayLemmas, FiniteSetTheorems

\* A request that is counted holds a record in memory whose count is raised.
LEMMA HeldIsCounted ==
    ASSUME LBInv, NEW r \in Requests, pc[r] \in Counted
    PROVE  /\ held[r] \in Records /\ held[r] \in Allocated
           /\ opened[held[r]] \in Nat /\ opened[held[r]] >= 1
<1> DEFINE x == held[r]
<1>1. x \in Records /\ opened[x] \in Nat /\ leaked[x] \in Nat
  BY DEF LBInv, TypeOK
<1>2. IsFiniteSet(Holders(x))
  BY FiniteAssumption, FS_Subset DEF Holders
<1>3. Holders(x) # {}
  BY DEF Holders
<1>4. Cardinality(Holders(x)) \in Nat /\ Cardinality(Holders(x)) # 0
  BY <1>2, <1>3, FS_CardinalityType, FS_EmptySet
<1>5. opened[x] = Cardinality(Holders(x)) + leaked[x]
  BY <1>1 DEF LBInv, OpenedIsAccounted
<1>6. opened[x] >= 1
  BY <1>1, <1>4, <1>5
<1>7. x \in Allocated
  BY <1>1, <1>6 DEF LBInv
<1> QED BY <1>1, <1>6, <1>7

\* The counts are right when no request begins or ends to hold a record.
LEMMA SameHolders ==
    ASSUME LBInv, UNCHANGED <<opened, leaked>>,
           \A q \in Requests : /\ pc'[q] \in Counted <=> pc[q] \in Counted
                               /\ pc[q] \in Counted => held'[q] = held[q]
    PROVE  OpenedIsAccounted'
<1>1. \A x \in Records : Holders(x)' = Holders(x)
  BY DEF Holders
<1> QED BY <1>1 DEF LBInv, OpenedIsAccounted

\* Holders when only r changes its place.
LEMMA HoldersOfOne ==
    ASSUME NEW r \in Requests, NEW x \in Records,
           \A q \in Requests \ {r} : pc'[q] = pc[q] /\ held'[q] = held[q]
    PROVE  /\ IsFiniteSet(Holders(x)) /\ Cardinality(Holders(x)) \in Nat
           /\ pc'[r] \in Counted /\ held'[r] = x /\ r \notin Holders(x)
                => Cardinality(Holders(x)') = Cardinality(Holders(x)) + 1
           /\ pc'[r] \notin Counted /\ r \in Holders(x)
                => Cardinality(Holders(x)') = Cardinality(Holders(x)) - 1
           /\ ~(pc'[r] \in Counted /\ held'[r] = x) /\ r \notin Holders(x)
                => Holders(x)' = Holders(x)
<1>1. IsFiniteSet(Holders(x)) /\ Cardinality(Holders(x)) \in Nat
  BY FiniteAssumption, FS_Subset, FS_CardinalityType DEF Holders
<1>2. ASSUME pc'[r] \in Counted, held'[r] = x, r \notin Holders(x)
      PROVE  Cardinality(Holders(x)') = Cardinality(Holders(x)) + 1
  <2>1. Holders(x)' = Holders(x) \union {r}
    BY <1>2 DEF Holders
  <2> QED BY <1>1, <1>2, <2>1, FS_AddElement
<1>3. ASSUME pc'[r] \notin Counted, r \in Holders(x)
      PROVE  Cardinality(Holders(x)') = Cardinality(Holders(x)) - 1
  <2>1. Holders(x)' = Holders(x) \ {r}
    BY <1>3 DEF Holders
  <2> QED BY <1>1, <1>3, <2>1, FS_RemoveElement
<1>4. ASSUME ~(pc'[r] \in Counted /\ held'[r] = x), r \notin Holders(x)
      PROVE  Holders(x)' = Holders(x)
  BY <1>4 DEF Holders
<1> QED BY <1>1, <1>2, <1>3, <1>4

\* What does not depend on the requests' places.
DictInv ==
    /\ DictIsConfiguration
    /\ DroppedIsFreed
    /\ valid \subseteq Dict
    /\ \A x \in Records \ Allocated : opened[x] = 0

SeenInv == \A r \in Requests : pc[r] = "marking" => seen[r] = opened[held[r]]

LEMMA Parts == LBInv <=> TypeOK /\ OpenedIsAccounted /\ DictInv /\ SeenInv
BY DEF LBInv, DictInv, SeenInv

LEMMA DictSame ==
    ASSUME DictInv, UNCHANGED <<order, inst, valid, opened, loaded>>
    PROVE  DictInv'
BY DEF DictInv, DictIsConfiguration, DroppedIsFreed, Dict, Allocated

\* A count read by MarkNotResponding is kept by the steps of others.
LEMMA SeenSame ==
    ASSUME SeenInv, CountIsKept, NEW r \in Requests,
           \A q \in Requests \ {r} : /\ pc'[q] = pc[q] /\ held'[q] = held[q]
                                     /\ seen'[q] = seen[q],
           pc'[r] # "marking"
    PROVE  SeenInv'
BY DEF SeenInv, CountIsKept

\* GSWDict_RemoveKey removes the record, which the dictionary had at most once.
LEMMA WithoutProps ==
    ASSUME order \in Seq(Records), NEW x \in Records,
           \A j, k \in DOMAIN order : order[j] = order[k] => j = k
    PROVE  /\ Without(x) \in Seq(Records)
           /\ ToSet(Without(x)) = Dict \ {x}
           /\ \A j, k \in DOMAIN Without(x) : Without(x)[j] = Without(x)[k] => j = k
<1>1. CASE \E k \in DOMAIN order : order[k] = x
  <2> DEFINE k == CHOOSE i \in DOMAIN order : order[i] = x
  <2>1. k \in 1 .. Len(order) /\ order[k] = x
    BY <1>1
  <2>2. Without(x) = RemoveAt(order, k)
    BY <1>1 DEF Without
  <2> HIDE DEF k
  <2>3. RemoveAt(order, k) \in Seq(Records)
    BY <2>1, RemoveAtProps
  <2> QED BY <2>1, <2>2, <2>3, RemoveAtRange DEF Dict
<1>2. CASE ~\E k \in DOMAIN order : order[k] = x
  BY <1>2 DEF Without, Dict, ToSet
<1> QED BY <1>1, <1>2

\* What the reload makes of the table.
LEMMA ApplyKeeps ==
    ASSUME TypeOK, DictInv, NEW c \in SUBSET Instances, Apply(c),
           loaded' = Application(c)
    PROVE  /\ order' \in Seq(Records)
           /\ inst' \in [Records -> Instances \union {NoInstance}]
           /\ valid' \in SUBSET Records
           /\ dead' \in [Records -> Mark]
           /\ last' \in Nat /\ unavailable' \in BOOLEAN
           /\ UNCHANGED opened
           /\ DictInv'
<1> USE InstancesAssumption
<1> DEFINE D == c \ {inst[x] : x \in Kept(c)}
<1>1. PICK fresh \in [D -> Fresh] :
         LET made == {fresh[i] : i \in DOMAIN fresh}
             now == Kept(c) \union made
             freed == FreeIFND(Dict \ now)
         IN  /\ \A i, j \in DOMAIN fresh : fresh[i] = fresh[j] => i = j
             /\ order' \in Listings(now)
             /\ inst' = [x \in Records |->
                           IF x \in made THEN CHOOSE i \in DOMAIN fresh : fresh[i] = x
                           ELSE IF x \in freed THEN NoInstance ELSE inst[x]]
             /\ valid' = now
             /\ dead' = [x \in Records |-> IF x \in now \union freed THEN "no" ELSE dead[x]]
             /\ last' \in 0 .. Cardinality(now)
             /\ unavailable' \in BOOLEAN
             /\ UNCHANGED opened
  BY DEF Apply
<1> DEFINE made == {fresh[i] : i \in D}
           now == Kept(c) \union made
           freed == FreeIFND(Dict \ now)
<1>2. /\ \A i, j \in D : fresh[i] = fresh[j] => i = j
      /\ order' \in Listings(now)
      /\ inst' = [x \in Records |->
                    IF x \in made THEN CHOOSE i \in D : fresh[i] = x
                    ELSE IF x \in freed THEN NoInstance ELSE inst[x]]
      /\ valid' = now
      /\ dead' = [x \in Records |-> IF x \in now \union freed THEN "no" ELSE dead[x]]
      /\ last' \in 0 .. Cardinality(now)
      /\ unavailable' \in BOOLEAN
      /\ UNCHANGED opened
  BY <1>1
<1>3. Dict \subseteq Records /\ Dict \subseteq Allocated
  BY DEF TypeOK, DictInv, DictIsConfiguration, Allocated
<1>4. made \subseteq Records \ Allocated
  BY DEF Fresh
<1>5. /\ now \subseteq Records /\ made \intersect Kept(c) = {}
      /\ freed \subseteq Dict /\ freed \intersect now = {}
  BY <1>3, <1>4 DEF Kept, FreeIFND
<1>6. IsFiniteSet(now) /\ Cardinality(now) \in Nat
  BY <1>5, FiniteAssumption, FS_Subset, FS_CardinalityType
<1> HIDE DEF now, made, freed, D
<1>7. /\ order' \in Seq(Records) /\ ToSet(order') = now
      /\ \A j, k \in DOMAIN order' : order'[j] = order'[k] => j = k
  <2>1. /\ order' \in [1 .. Cardinality(now) -> now]
        /\ \A j, k \in DOMAIN order' : order'[j] = order'[k] => j = k
        /\ \A x \in now : \E k \in DOMAIN order' : order'[k] = x
    BY <1>2 DEF Listings
  <2>2. order' \in [1 .. Cardinality(now) -> Records]
    BY <2>1, <1>5
  <2>3. order' \in Seq(Records)
    BY <2>2, <1>6
  <2>4. ToSet(order') = now
    BY <2>1 DEF ToSet
  <2> QED BY <2>1, <2>3, <2>4
<1>8. \A x \in made : /\ inst'[x] \in D /\ fresh[inst'[x]] = x
                      /\ inst'[x] \in c /\ inst'[x] \notin {inst[y] : y \in Kept(c)}
  <2> SUFFICES ASSUME NEW x \in made
               PROVE  /\ inst'[x] \in D /\ fresh[inst'[x]] = x
    BY DEF D
  <2>1. x \in Records /\ inst'[x] = CHOOSE i \in D : fresh[i] = x
    BY <1>2, <1>4
  <2>2. \E i \in D : fresh[i] = x
    BY DEF made
  <2> QED BY <2>1, <2>2
<1>9. \A x \in Kept(c) : inst'[x] = inst[x] /\ inst[x] \in c /\ x \in Dict
  BY <1>2, <1>3, <1>5 DEF Kept, now
<1>10. \A x \in Records \ now : inst'[x] = IF x \in freed THEN NoInstance ELSE inst[x]
  BY <1>2 DEF now
<1>11. inst' \in [Records -> Instances \union {NoInstance}]
  <2>1. \A x \in Records : inst'[x] \in Instances \union {NoInstance}
    <3>1. \A x \in Records : inst[x] \in Instances \union {NoInstance}
      BY DEF TypeOK
    <3>2. \A x \in Records : x \in made \/ x \in Kept(c) \/ x \in Records \ now
      BY DEF now
    <3> QED BY <1>8, <1>9, <1>10, <3>1, <3>2
  <2> QED BY <2>1, <1>2
<1>12. dead' \in [Records -> Mark]
  BY <1>2 DEF TypeOK, Mark
<1>13. DictIsConfiguration'
  <2>1. \A x, y \in now : inst'[x] = inst'[y] => x = y
    <3> SUFFICES ASSUME NEW x \in now, NEW y \in now, inst'[x] = inst'[y]
                 PROVE  x = y
      OBVIOUS
    <3>1. CASE x \in made /\ y \in made
      BY <3>1, <1>8
    <3>2. CASE x \in Kept(c) /\ y \in Kept(c)
      BY <3>2, <1>9 DEF DictInv, DictIsConfiguration
    <3>3. CASE x \in made /\ y \in Kept(c)
      BY <3>3, <1>8, <1>9
    <3>4. CASE x \in Kept(c) /\ y \in made
      BY <3>4, <1>8, <1>9
    <3> QED BY <3>1, <3>2, <3>3, <3>4 DEF now
  <2>2. {inst'[x] : x \in now} = c
    <3>1. \A x \in now : inst'[x] \in c
      BY <1>8, <1>9 DEF now
    <3>2. ASSUME NEW i \in c PROVE \E x \in now : inst'[x] = i
      <4>1. CASE i \in {inst[x] : x \in Kept(c)}
        BY <4>1, <1>9 DEF now
      <4>2. CASE i \notin {inst[x] : x \in Kept(c)}
        <5>1. i \in D
          BY <4>2 DEF D
        <5>2. fresh[i] \in made
          BY <5>1 DEF made
        <5>3. inst'[fresh[i]] = i
          BY <5>1, <5>2, <1>2, <1>8
        <5> QED BY <5>2, <5>3 DEF now
      <4> QED BY <4>1, <4>2
    <3> QED BY <3>1, <3>2
  <2>3. now \subseteq Allocated'
    <3>1. \A x \in now : inst'[x] \in Instances
      BY <1>8, <1>9 DEF now
    <3> QED BY <3>1, <1>5 DEF Allocated
  <2>4. loaded' # NoApp /\ (loaded').has = c
    BY DEF Application, NoApp
  <2> QED BY <2>1, <2>2, <2>3, <2>4, <1>2, <1>7 DEF DictIsConfiguration, Dict
<1>14. DroppedIsFreed'
  <2> SUFFICES ASSUME NEW x \in Records, inst'[x] # NoInstance, x \notin now
               PROVE  opened[x] > 0
    BY <1>2, <1>7 DEF DroppedIsFreed, Allocated, Dict
  <2>1. x \notin freed /\ inst[x] # NoInstance
    BY <1>10
  <2>2. CASE x \in Dict
    BY <2>1, <2>2 DEF freed, FreeIFND, TypeOK
  <2>3. CASE x \notin Dict
    BY <2>1, <2>3 DEF DictInv, DroppedIsFreed, Allocated
  <2> QED BY <2>2, <2>3
<1>15. \A x \in Records \ Allocated' : opened'[x] = 0
  <2> SUFFICES ASSUME NEW x \in Records, inst'[x] = NoInstance
               PROVE  opened[x] = 0
    BY <1>2 DEF Allocated
  <2>1. x \notin now
    BY <1>7, <1>13 DEF DictIsConfiguration, Dict, Allocated
  <2>2. CASE x \in freed
    BY <2>2 DEF freed, FreeIFND
  <2>3. CASE x \notin freed
    BY <2>1, <2>3, <1>10 DEF DictInv, Allocated
  <2> QED BY <2>2, <2>3
<1>16. (valid \subseteq Dict)'
  BY <1>2, <1>7 DEF Dict
<1>17. valid' \in SUBSET Records /\ last' \in Nat
  BY <1>2, <1>5, <1>6
<1> QED BY <1>2, <1>7, <1>11, <1>12, <1>13, <1>14, <1>15, <1>16, <1>17 DEF DictInv

\* The types of what a reload changes, and of what the requests change.
TableOK ==
    /\ file \in File /\ loaded \in File \ {NoFile}
    /\ newer \in BOOLEAN /\ readAge \in {"now", "recent", "due"} /\ edits \in Nat
    /\ order \in Seq(Records)
    /\ inst \in [Records -> Instances \union {NoInstance}]
    /\ valid \in SUBSET Records
    /\ dead \in [Records -> Mark]
    /\ opened \in [Records -> Nat]
    /\ last \in Nat /\ unavailable \in BOOLEAN
    /\ passed \in [Instances -> 0 .. 2]

RequestOK ==
    /\ refuses \in [Instances -> Mark] /\ leaked \in [Records -> Nat]
    /\ pc \in [Requests -> PC]
    /\ want \in [Requests -> Instances \union {AnyInstance}]
    /\ keyed \in [Requests -> BOOLEAN] /\ notResponding \in [Requests -> BOOLEAN]
    /\ left \in [Requests -> Nat] /\ seen \in [Requests -> Nat]
    /\ held \in [Requests -> Records \union {NoRecord}]
    /\ \A r \in Requests : pc[r] \in Counted => held[r] \in Records

LEMMA Types == TypeOK <=> TableOK /\ RequestOK
BY DEF TypeOK, TableOK, RequestOK

LEMMA Together ==
    ASSUME TableOK', RequestOK', OpenedIsAccounted', DictInv', SeenInv'
    PROVE  LBInv'
BY DEF LBInv, DictInv, SeenInv, TypeOK, TableOK, RequestOK

LEMMA TableSame ==
    ASSUME TableOK, UNCHANGED <<config, table, passed>>
    PROVE  TableOK'
BY DEF TableOK, config, table

LEMMA LoadKeeps ==
    ASSUME TypeOK, DictInv, LoadConfiguration
    PROVE  TableOK' /\ DictInv' /\ UNCHANGED opened
<1>1. TableOK
  BY Types
<1>2. CASE UNCHANGED <<config, table, passed>>
  BY <1>1, <1>2, TableSame, DictSame DEF config, table
<1>3. CASE readAge' = "now" /\ UNCHANGED <<file, newer, loaded, edits, table, passed>>
  <2>1. TableOK'
    BY <1>1, <1>3 DEF TableOK, table
  <2> QED BY <1>3, <2>1, DictSame DEF table
<1>4. CASE /\ file # NoFile
           /\ readAge' = "now" /\ newer' = FALSE /\ loaded' = file
           /\ passed' = [i \in Instances |-> 0]
           /\ UNCHANGED <<file, edits>>
           /\ IF file = NoApp
              THEN valid' = {} /\ UNCHANGED <<order, inst, dead, opened, last, unavailable>>
              ELSE Apply(file.has)
  <2>1. /\ file' \in File /\ loaded' \in File \ {NoFile} /\ newer' \in BOOLEAN
        /\ readAge' \in {"now", "recent", "due"} /\ edits' \in Nat
        /\ passed' \in [Instances -> 0 .. 2]
    <3>1. \A i \in Instances : 0 \in 0 .. 2
      OBVIOUS
    <3>2. [i \in Instances |-> 0] \in [Instances -> 0 .. 2]
      BY <3>1
    <3>3. newer' \in BOOLEAN /\ readAge' \in {"now", "recent", "due"}
      BY <1>4
    <3> QED BY <1>1, <1>4, <3>2, <3>3 DEF TableOK
  <2>2. CASE file = NoApp
    <3>1. TableOK'
      BY <1>1, <1>4, <2>1, <2>2 DEF TableOK
    <3>2. DictInv'
      BY <1>4, <2>2 DEF DictInv, DictIsConfiguration, DroppedIsFreed, Dict, Allocated
    <3> QED BY <1>4, <2>2, <3>1, <3>2
  <2>3. CASE file # NoApp
    <3>1. PICK c \in SUBSET Instances : file = Application(c)
      BY <1>1, <1>4, <2>3 DEF TableOK, File
    <3>2. file.has = c
      BY <3>1 DEF Application
    <3>3. Apply(c) /\ loaded' = Application(c)
      BY <1>4, <2>3, <3>1, <3>2
    <3>4. /\ order' \in Seq(Records)
          /\ inst' \in [Records -> Instances \union {NoInstance}]
          /\ valid' \in SUBSET Records
          /\ dead' \in [Records -> Mark]
          /\ last' \in Nat /\ unavailable' \in BOOLEAN
          /\ UNCHANGED opened
          /\ DictInv'
      BY <3>3, ApplyKeeps
    <3>5. opened' \in [Records -> Nat]
      BY <1>1, <3>4 DEF TableOK
    <3> QED BY <2>1, <3>4, <3>5 DEF TableOK
  <2> QED BY <2>2, <2>3
<1> QED BY <1>2, <1>3, <1>4 DEF LoadConfiguration

\* The count of a record in memory is lowered.
LEMMA LowerKeeps ==
    ASSUME TypeOK, DictInv, NEW x \in Allocated, opened[x] >= 1,
           LowerTo(x, opened[x] - 1), UNCHANGED <<valid, loaded>>
    PROVE  /\ order' \in Seq(Records)
           /\ inst' \in [Records -> Instances \union {NoInstance}]
           /\ opened' \in [Records -> Nat]
           /\ opened' = [opened EXCEPT ![x] = @ - 1]
           /\ DictInv'
<1> USE InstancesAssumption
<1> DEFINE n == opened[x] - 1
<1>1. x \in Records /\ n \in Nat /\ opened \in [Records -> Nat]
  BY DEF TypeOK, Allocated
<1>2. opened' = [opened EXCEPT ![x] = n] /\ opened' \in [Records -> Nat]
  BY <1>1 DEF LowerTo
<1>3. order \in Seq(Records) /\ \A j, k \in DOMAIN order : order[j] = order[k] => j = k
  BY DEF TypeOK, DictInv, DictIsConfiguration
<1>4. CASE x \notin valid /\ n = 0
  <2>1. inst' = [inst EXCEPT ![x] = NoInstance] /\ order' = Without(x)
    BY <1>4 DEF LowerTo
  <2>2. /\ order' \in Seq(Records) /\ Dict' = Dict \ {x}
        /\ \A j, k \in DOMAIN order' : order'[j] = order'[k] => j = k
    BY <1>1, <1>3, <2>1, WithoutProps DEF Dict
  <2>3. inst' \in [Records -> Instances \union {NoInstance}]
    BY <2>1 DEF TypeOK
  <2>4. Allocated' = Allocated \ {x} /\ \A y \in Records \ {x} : inst'[y] = inst[y]
    BY <2>1, <1>1 DEF Allocated, TypeOK
  <2>5. Dict \subseteq Records
    BY DEF DictInv, DictIsConfiguration, Allocated
  <2>6. loaded # NoApp => Dict' = Dict
    BY <1>4, <2>2 DEF DictInv, DictIsConfiguration
  <2>7. IF loaded' = NoApp THEN valid' = {}
        ELSE valid' = Dict' /\ {inst'[y] : y \in Dict'} = (loaded').has
    <3>1. \A y \in Dict' : inst'[y] = inst[y]
      BY <2>2, <2>4, <2>5
    <3>2. {inst'[y] : y \in Dict'} = {inst[y] : y \in Dict'}
      BY <3>1
    <3> QED BY <2>6, <3>2 DEF DictInv, DictIsConfiguration
  <2>8. DictIsConfiguration'
    <3>1. \A y, z \in Dict' : inst'[y] = inst'[z] => y = z
      BY <2>2, <2>4, <2>5 DEF DictInv, DictIsConfiguration
    <3>2. Dict' \subseteq Allocated'
      BY <2>2, <2>4 DEF DictInv, DictIsConfiguration
    <3> QED BY <2>2, <2>7, <3>1, <3>2 DEF DictIsConfiguration
  <2>9. DroppedIsFreed'
    BY <1>1, <1>2, <2>2, <2>4 DEF DictInv, DroppedIsFreed, Allocated
  <2>10. (valid \subseteq Dict)'
    BY <1>4, <2>2 DEF DictInv
  <2>11. \A y \in Records \ Allocated' : opened'[y] = 0
    BY <1>1, <1>2, <1>4, <2>4 DEF DictInv
  <2> QED BY <1>2, <2>2, <2>3, <2>8, <2>9, <2>10, <2>11 DEF DictInv
<1>5. CASE ~(x \notin valid /\ n = 0)
  <2>1. UNCHANGED <<inst, order>>
    BY <1>5 DEF LowerTo
  <2>2. Dict' = Dict /\ Allocated' = Allocated
    BY <2>1 DEF Dict, Allocated
  <2>3. DictIsConfiguration'
    BY <2>1, <2>2 DEF DictInv, DictIsConfiguration
  <2>4. DroppedIsFreed'
    BY <1>1, <1>2, <1>5, <2>2 DEF DictInv, DroppedIsFreed, Allocated
  <2>5. (valid \subseteq Dict)' /\ \A y \in Records \ Allocated' : opened'[y] = 0
    BY <1>1, <1>2, <2>2 DEF DictInv
  <2> QED BY <1>2, <2>1, <2>3, <2>4, <2>5 DEF DictInv, TypeOK
<1> QED BY <1>4, <1>5

\* The counts when r begins to hold x.
LEMMA AccountTaken ==
    ASSUME TypeOK, OpenedIsAccounted, NEW r \in Requests, NEW x \in Records,
           \A q \in Requests \ {r} : pc'[q] = pc[q] /\ held'[q] = held[q],
           pc[r] \notin Counted, pc'[r] \in Counted, held'[r] = x,
           opened' = [opened EXCEPT ![x] = @ + 1], UNCHANGED leaked
    PROVE  OpenedIsAccounted'
<1> SUFFICES ASSUME NEW y \in Records
             PROVE  opened'[y] = Cardinality(Holders(y)') + leaked[y]
  BY DEF OpenedIsAccounted
<1>1. r \notin Holders(y)
  BY DEF Holders
<1>2. /\ opened[y] = Cardinality(Holders(y)) + leaked[y]
      /\ opened[y] \in Nat /\ leaked[y] \in Nat /\ opened \in [Records -> Nat]
  BY DEF OpenedIsAccounted, TypeOK
<1>3. CASE y = x
  BY <1>1, <1>2, <1>3, HoldersOfOne
<1>4. CASE y # x
  BY <1>1, <1>2, <1>4, HoldersOfOne
<1> QED BY <1>3, <1>4

\* The counts when r no longer holds its record, having lowered the count or not.
LEMMA AccountReleased ==
    ASSUME TypeOK, OpenedIsAccounted, NEW r \in Requests,
           \A q \in Requests \ {r} : pc'[q] = pc[q] /\ held'[q] = held[q],
           pc[r] \in Counted, pc'[r] \notin Counted,
           \/ opened' = [opened EXCEPT ![held[r]] = @ - 1] /\ UNCHANGED leaked
           \/ leaked' = [leaked EXCEPT ![held[r]] = @ + 1] /\ UNCHANGED opened
    PROVE  OpenedIsAccounted'
<1> SUFFICES ASSUME NEW y \in Records
             PROVE  opened'[y] = Cardinality(Holders(y)') + leaked'[y]
  BY DEF OpenedIsAccounted
<1>1. r \in Holders(y) <=> y = held[r]
  BY DEF Holders
<1>2. /\ opened[y] = Cardinality(Holders(y)) + leaked[y]
      /\ opened[y] \in Nat /\ leaked[y] \in Nat
      /\ opened \in [Records -> Nat] /\ leaked \in [Records -> Nat]
  BY DEF OpenedIsAccounted, TypeOK
<1>3. CASE y = held[r]
  <2>1. /\ Cardinality(Holders(y)) \in Nat
        /\ Cardinality(Holders(y)') = Cardinality(Holders(y)) - 1
    BY <1>1, <1>3, HoldersOfOne
  <2> QED BY <1>2, <1>3, <2>1
<1>4. CASE y # held[r]
  <2>1. Holders(y)' = Holders(y)
    BY <1>1, <1>4, HoldersOfOne
  <2> QED BY <1>2, <1>4, <2>1
<1> QED BY <1>3, <1>4

\* What a step of r leaves of the other requests, from the form of its updates.
Others(r) ==
    \A q \in Requests \ {r} : /\ pc'[q] = pc[q] /\ held'[q] = held[q]
                              /\ seen'[q] = seen[q]

\* SendAppRequestToApp returns, having lowered the count of what it held, held
\* nothing, or left the count raised.
LEMMA ReturnKeeps ==
    ASSUME RequestOK, NEW r \in Requests, Return(r),
           refuses' \in [Instances -> Mark], leaked' \in [Records -> Nat]
    PROVE  RequestOK' /\ Others(r) /\ pc'[r] = "idle"
<1>1. /\ pc' = [pc EXCEPT ![r] = "idle"]
      /\ held' = [held EXCEPT ![r] = NoRecord]
      /\ seen' = [seen EXCEPT ![r] = 0]
  BY DEF Return, Goto
<1>2. Others(r) /\ pc'[r] = "idle" /\ pc' \in [Requests -> PC]
  BY <1>1 DEF RequestOK, Others, PC
<1>3. \A q \in Requests : pc'[q] \in Counted => held'[q] \in Records
  BY <1>1, <1>2 DEF RequestOK, Others, Counted
<1> QED BY <1>1, <1>2, <1>3 DEF Return, RequestOK

LEMMA LoadStep ==
    ASSUME LBInv, CountIsKept, NEW r \in Requests, Load(r)
    PROVE  LBInv'
<1>1. TypeOK /\ TableOK /\ RequestOK /\ DictInv /\ SeenInv
  BY Parts, Types
<1>2. TableOK' /\ DictInv' /\ UNCHANGED opened
  BY <1>1, LoadKeeps DEF Load
<1>3. /\ pc[r] = "load" /\ pc' = [pc EXCEPT ![r] = "search"]
      /\ UNCHANGED <<refuses, request, leaked>>
  BY DEF Load, Goto
<1>4. Others(r) /\ pc'[r] = "search"
  BY <1>1, <1>3 DEF RequestOK, Others, request
<1>5. RequestOK'
  BY <1>1, <1>3, <1>4 DEF RequestOK, request, PC, Counted
<1>6. OpenedIsAccounted'
  BY <1>2, <1>3, <1>4, SameHolders DEF Others, Counted, request
<1>7. SeenInv'
  BY <1>1, <1>4, SeenSame DEF Others
<1> QED BY <1>2, <1>5, <1>6, <1>7, Together

LEMMA DumpStep ==
    ASSUME LBInv, CountIsKept, NEW r \in Requests, Dump(r)
    PROVE  LBInv'
<1>1. TypeOK /\ TableOK /\ RequestOK /\ DictInv /\ SeenInv
  BY Parts, Types
<1>2. TableOK' /\ DictInv' /\ UNCHANGED opened
  BY <1>1, LoadKeeps DEF Dump
<1>3. pc[r] \in {"idle", "dump"} /\ Return(r) /\ UNCHANGED <<refuses, leaked>>
  BY DEF Dump
<1>4. RequestOK' /\ Others(r) /\ pc'[r] = "idle"
  BY <1>1, <1>3, ReturnKeeps DEF RequestOK
<1>5. OpenedIsAccounted'
  BY <1>2, <1>3, <1>4, SameHolders DEF Others, Counted
<1>6. SeenInv'
  BY <1>1, <1>4, SeenSame DEF Others
<1> QED BY <1>2, <1>4, <1>5, <1>6, Together

\* FindApp and FindInstance choose a record of the dictionary.
LEMMA ChooseKeeps ==
    ASSUME LBInv, CountIsKept, NEW r \in Requests, NEW x \in Dict, pc[r] = "search",
           Choose(r, x), opened' \in [Records -> Nat] => TableOK',
           refuses' \in [Instances -> Mark],
           UNCHANGED <<loaded, order, inst, valid, keyed, left, notResponding, seen, leaked>>
    PROVE  LBInv'
<1>1. TypeOK /\ TableOK /\ RequestOK /\ DictInv /\ SeenInv /\ OpenedIsAccounted
  BY Parts, Types
<1>2. x \in Records /\ x \in Allocated
  BY <1>1 DEF DictInv, DictIsConfiguration, Allocated
<1>3. /\ want' = [want EXCEPT ![r] = AnyInstance]
      /\ held' = [held EXCEPT ![r] = x]
      /\ opened' = [opened EXCEPT ![x] = @ + 1]
      /\ pc' = [pc EXCEPT ![r] = IF notResponding[r] THEN "attempt" ELSE "found"]
  BY DEF Choose, Goto
<1>4. Others(r) /\ pc'[r] \in {"attempt", "found"} /\ held'[r] = x
  BY <1>1, <1>3 DEF RequestOK, Others
<1>5. opened' \in [Records -> Nat]
  BY <1>1, <1>2, <1>3 DEF TableOK
<1>6. RequestOK'
  <2>1. pc' \in [Requests -> PC] /\ held' \in [Requests -> Records \union {NoRecord}]
    BY <1>1, <1>2, <1>3 DEF RequestOK, PC
  <2>2. \A q \in Requests : pc'[q] \in Counted => held'[q] \in Records
    BY <1>1, <1>2, <1>4 DEF RequestOK, Others
  <2> QED BY <1>1, <1>3, <2>1, <2>2 DEF RequestOK
<1>7. OpenedIsAccounted'
  BY <1>1, <1>2, <1>3, <1>4, AccountTaken DEF Others, Counted
<1>8. DictInv'
  <2>1. Dict' = Dict /\ Allocated' = Allocated
    BY DEF Dict, Allocated
  <2>2. DictIsConfiguration'
    BY <1>1, <2>1 DEF DictInv, DictIsConfiguration
  <2>3. DroppedIsFreed' /\ \A y \in Records \ Allocated' : opened'[y] = 0
    BY <1>1, <1>2, <1>3, <2>1 DEF DictInv, DroppedIsFreed, Allocated, TableOK
  <2> QED BY <1>1, <2>1, <2>2, <2>3 DEF DictInv
<1>9. SeenInv'
  BY <1>1, <1>4, SeenSame DEF Others
<1> QED BY <1>5, <1>6, <1>7, <1>8, <1>9, Together

\* The marks and the history of the choices keep their types.
LEMMA ClearMarksOK ==
    ASSUME TypeOK, NEW r, NEW S, ClearMarks(r, S)
    PROVE  dead' \in [Records -> Mark] /\ refuses' \in [Instances -> Mark]
BY DEF TypeOK, ClearMarks, Mark

LEMMA FollowOK ==
    ASSUME TypeOK, NEW r, NEW x, Follow(r, x)
    PROVE  passed' \in [Instances -> 0 .. 2]
<1>1. \A n \in 0 .. 2 : (IF n < 2 THEN n + 1 ELSE 2) \in 0 .. 2
  OBVIOUS
<1>2. 0 \in 0 .. 2
  OBVIOUS
<1>3. passed \in [Instances -> 0 .. 2]
  BY DEF TypeOK
<1>4. CASE passed' = [passed EXCEPT ![inst[x]] = IF @ < 2 THEN @ + 1 ELSE 2]
  BY <1>1, <1>3, <1>4
<1>5. CASE passed' = [i \in Instances |-> 0]
  BY <1>2, <1>5
<1> QED BY <1>4, <1>5 DEF Follow

\* The k-th place after the last one is a place.
LEMMA TurnIsInDict ==
    ASSUME TypeOK, NEW k \in 1 .. Len(order)
    PROVE  /\ Turn(k) \in Dict
           /\ (last + k) % Len(order) \in Nat
<1>1. order \in Seq(Records) /\ last \in Nat
  BY DEF TypeOK
<1>2. Len(order) \in Nat /\ Len(order) > 0 /\ last + k \in Nat
  BY <1>1
<1>3. (last + k) % Len(order) \in 0 .. Len(order) - 1
  BY <1>2
<1>4. ((last + k) % Len(order)) + 1 \in DOMAIN order
  BY <1>1, <1>2, <1>3
<1> QED BY <1>3, <1>4 DEF Turn, Dict, ToSet

\* The record a request marks or releases is lowered, and maybe freed.
LEMMA ReleaseKeeps ==
    ASSUME LBInv, CountIsKept, NEW r \in Requests, pc[r] \in Counted,
           LowerTo(held[r], opened[held[r]] - 1),
           pc'[r] \notin Counted, Others(r), RequestOK',
           dead' \in [Records -> Mark],
           UNCHANGED <<config, valid, last, unavailable, leaked, passed>>
    PROVE  LBInv'
<1>1. TypeOK /\ TableOK /\ RequestOK /\ DictInv /\ SeenInv /\ OpenedIsAccounted
  BY Parts, Types
<1>2. held[r] \in Allocated /\ opened[held[r]] >= 1
  BY HeldIsCounted
<1>3. /\ order' \in Seq(Records)
      /\ inst' \in [Records -> Instances \union {NoInstance}]
      /\ opened' \in [Records -> Nat]
      /\ opened' = [opened EXCEPT ![held[r]] = @ - 1]
      /\ DictInv'
  BY <1>1, <1>2, LowerKeeps DEF config
<1>4. TableOK'
  BY <1>1, <1>3 DEF TableOK, config
<1>5. OpenedIsAccounted'
  BY <1>1, <1>3, AccountReleased DEF Others
<1>6. SeenInv'
  BY <1>1, SeenSame DEF Others, Counted
<1> QED BY <1>3, <1>4, <1>5, <1>6, Together

\* The request ends and leaves the count raised, or had lowered it.
LEMMA AbandonKeeps ==
    ASSUME LBInv, CountIsKept, NEW r \in Requests, pc[r] \in Counted, Abandon(r),
           UNCHANGED <<config, table, refuses, passed>>
    PROVE  LBInv'
<1>1. TypeOK /\ TableOK /\ RequestOK /\ DictInv /\ SeenInv /\ OpenedIsAccounted
  BY Parts, Types
<1>2. Return(r) /\ leaked' = [leaked EXCEPT ![held[r]] = @ + 1]
  BY DEF Abandon
<1>3. leaked' \in [Records -> Nat] /\ refuses' \in [Instances -> Mark]
  BY <1>1, <1>2 DEF RequestOK
<1>4. RequestOK' /\ Others(r) /\ pc'[r] = "idle"
  BY <1>1, <1>2, <1>3, ReturnKeeps
<1>5. TableOK'
  BY <1>1, TableSame
<1>6. DictInv'
  BY <1>1, DictSame DEF table, config
<1>7. OpenedIsAccounted'
  BY <1>1, <1>2, <1>4, AccountReleased DEF Others, Counted, table
<1>8. SeenInv'
  BY <1>1, <1>4, SeenSame DEF Others
<1> QED BY <1>4, <1>5, <1>6, <1>7, <1>8, Together

\* The request goes on and holds what it held, or nothing: only marks change.
LEMMA GoesOnKeeps ==
    ASSUME LBInv, CountIsKept, NEW r \in Requests, Others(r),
           pc'[r] # "marking",
           pc'[r] \in Counted <=> pc[r] \in Counted,
           held'[r] = held[r],
           RequestOK', TableOK',
           UNCHANGED <<loaded, order, inst, valid, opened, leaked>>
    PROVE  LBInv'
<1>1. DictInv /\ SeenInv /\ RequestOK
  BY Parts, Types
<1>2. DictInv'
  BY <1>1, DictSame
<1>3. OpenedIsAccounted'
  BY SameHolders DEF Others
<1>4. SeenInv'
  BY <1>1, SeenSame DEF Others
<1> QED BY <1>2, <1>3, <1>4, Together

\* A step of a request keeps the inductive invariant.
LEMMA RequestStepKeeps ==
    ASSUME LBInv, CountIsKept, NEW r \in Requests,
           Begin(r) \/ (pc[r] = "idle" /\ Dump(r)) \/ RequestStep(r)
    PROVE  LBInv'
<1>0. TypeOK /\ TableOK /\ RequestOK /\ DictInv /\ SeenInv /\ OpenedIsAccounted
  BY Parts, Types
<1>1. CASE Begin(r)
  <2>1. /\ pc[r] = "idle" /\ pc' = [pc EXCEPT ![r] = "load"]
        /\ UNCHANGED <<config, table, refuses, held, seen, leaked, passed>>
    BY <1>1 DEF Begin, Goto
  <2>2. Others(r) /\ pc'[r] = "load" /\ held'[r] = held[r] /\ pc' \in [Requests -> PC]
    BY <1>0, <2>1 DEF RequestOK, Others, PC
  <2>3. RequestOK'
    <3>1. /\ want' \in [Requests -> Instances \union {AnyInstance}]
          /\ keyed' \in [Requests -> BOOLEAN]
          /\ left' \in [Requests -> Nat]
          /\ notResponding' \in [Requests -> BOOLEAN]
      BY <1>0, <1>1, AttemptsAssumption DEF Begin, RequestOK
    <3> QED BY <1>0, <2>1, <2>2, <3>1 DEF RequestOK, Counted, Others
  <2>4. TableOK'
    BY <1>0, <2>1, TableSame
  <2> QED BY <2>1, <2>2, <2>3, <2>4, GoesOnKeeps DEF Counted, config, table
<1>2. CASE Load(r)
  BY <1>2, LoadStep
<1>3. CASE FindApp(r)
  <2>1. PICK k \in 1 .. Len(order) :
          /\ last' = (last + k) % Len(order)
          /\ Choose(r, Turn(k))
          /\ ClearMarks(r, {Turn(j) : j \in 1 .. k})
          /\ Follow(r, Turn(k))
    BY <1>3 DEF FindApp
  <2>2. /\ pc[r] = "search"
        /\ UNCHANGED <<config, order, inst, valid, unavailable, keyed, left,
                       notResponding, seen, leaked>>
    BY <1>3 DEF FindApp
  <2>3. Turn(k) \in Dict /\ last' \in Nat
    BY <1>0, <2>1, TurnIsInDict
  <2>4. dead' \in [Records -> Mark] /\ refuses' \in [Instances -> Mark]
    BY <1>0, <2>1, ClearMarksOK
  <2>5. passed' \in [Instances -> 0 .. 2]
    BY <1>0, <2>1, FollowOK
  <2>6. opened' \in [Records -> Nat] => TableOK'
    BY <1>0, <2>2, <2>3, <2>4, <2>5 DEF TableOK, config
  <2> QED BY <2>1, <2>2, <2>3, <2>4, <2>6, ChooseKeeps DEF config
<1>4. CASE FindAppFails(r)
  <2>1. /\ pc[r] = "search"
        /\ pc' = [pc EXCEPT ![r] = IF notResponding[r] THEN "failed" ELSE "dump"]
        /\ last' = IF order = <<>> THEN last ELSE last % Len(order)
        /\ ClearMarks(r, Dict)
        /\ UNCHANGED <<config, order, inst, valid, opened, unavailable, request,
                       leaked, passed>>
    BY <1>4 DEF FindAppFails, Goto
  <2>2. /\ Others(r) /\ pc'[r] \in {"failed", "dump"} /\ held'[r] = held[r]
        /\ pc' \in [Requests -> PC]
    BY <1>0, <2>1 DEF RequestOK, Others, PC, request
  <2>3. dead' \in [Records -> Mark] /\ refuses' \in [Instances -> Mark]
    BY <1>0, <2>1, ClearMarksOK
  <2>4. RequestOK'
    BY <1>0, <2>1, <2>2, <2>3 DEF RequestOK, request, Counted, Others
  <2>5. last' \in Nat
    <3>1. order \in Seq(Records) /\ last \in Nat
      BY <1>0 DEF TableOK
    <3>2. order # <<>> => Len(order) \in Nat /\ Len(order) > 0
      BY <3>1
    <3> QED BY <2>1, <3>1, <3>2
  <2>6. TableOK'
    BY <1>0, <2>1, <2>3, <2>5 DEF TableOK, config
  <2> QED BY <2>1, <2>2, <2>4, <2>6, GoesOnKeeps DEF Counted, config
<1>5. CASE FindInstance(r)
  <2>1. PICK x \in Dict :
          /\ Choose(r, x)
          /\ refuses' = [refuses EXCEPT ![want[r]] = IF keyed[r] THEN @ ELSE "no"]
    BY <1>5 DEF FindInstance
  <2>2. /\ pc[r] = "search" /\ want[r] # AnyInstance
        /\ UNCHANGED <<config, order, inst, valid, dead, last, unavailable, keyed,
                       left, notResponding, seen, leaked, passed>>
    BY <1>5 DEF FindInstance
  <2>3. refuses' \in [Instances -> Mark]
    BY <1>0, <2>1 DEF RequestOK, Mark
  <2>4. opened' \in [Records -> Nat] => TableOK'
    BY <1>0, <2>2 DEF TableOK, config
  <2> QED BY <2>1, <2>2, <2>3, <2>4, ChooseKeeps DEF config
<1>6. CASE FindInstanceFails(r)
  <2>1. /\ pc[r] = "search"
        /\ \/ /\ want' = [want EXCEPT ![r] = AnyInstance]
              /\ pc' = [pc EXCEPT ![r] = "load"]
           \/ pc' = [pc EXCEPT ![r] = "dump"] /\ UNCHANGED want
        /\ UNCHANGED <<config, table, refuses, keyed, left, held, notResponding,
                       seen, leaked, passed>>
    BY <1>6 DEF FindInstanceFails, Goto
  <2>2. /\ Others(r) /\ pc'[r] \in {"load", "dump"} /\ held'[r] = held[r]
        /\ pc' \in [Requests -> PC]
    BY <1>0, <2>1 DEF RequestOK, Others, PC
  <2>3. want' \in [Requests -> Instances \union {AnyInstance}]
    BY <1>0, <2>1 DEF RequestOK
  <2>4. RequestOK'
    BY <1>0, <2>1, <2>2, <2>3 DEF RequestOK, Counted, Others
  <2>5. TableOK'
    BY <1>0, <2>1, TableSame
  <2> QED BY <2>1, <2>2, <2>4, <2>5, GoesOnKeeps DEF Counted, config, table
<1>7. CASE Dump(r)
  BY <1>7, DumpStep
<1>8. CASE CheckAvailable(r)
  <2>1. pc[r] = "found" /\ UNCHANGED <<config, table, refuses, passed>>
    BY <1>8 DEF CheckAvailable
  <2>2. CASE Abandon(r)
    BY <2>1, <2>2, AbandonKeeps DEF Counted
  <2>3. CASE Goto(r, "attempt") /\ UNCHANGED <<request, leaked>>
    <3>1. /\ Others(r) /\ pc'[r] = "attempt" /\ held'[r] = held[r]
          /\ pc' \in [Requests -> PC]
      BY <1>0, <2>3 DEF RequestOK, Others, PC, request, Goto
    <3>2. RequestOK'
      BY <1>0, <2>1, <2>3, <3>1 DEF RequestOK, Counted, Others, request
    <3>3. TableOK'
      BY <1>0, <2>1, TableSame
    <3> QED BY <2>1, <2>3, <3>1, <3>2, <3>3, GoesOnKeeps DEF Counted, config, table
  <2> QED BY <1>8, <2>2, <2>3 DEF CheckAvailable
<1>9. CASE Connect(r)
  <2>1. /\ pc[r] = "attempt" /\ left[r] > 0
        /\ left' = [left EXCEPT ![r] = @ - 1]
        /\ notResponding' = [notResponding EXCEPT ![r] = FALSE]
        /\ dead' = [dead EXCEPT ![held[r]] = "no"]
        /\ pc' = [pc EXCEPT ![r] = "connected"]
        /\ UNCHANGED <<config, order, inst, valid, opened, last, unavailable,
                       refuses, want, keyed, held, seen, leaked, passed>>
    BY <1>9 DEF Connect, Goto
  <2>2. /\ Others(r) /\ pc'[r] = "connected" /\ held'[r] = held[r]
        /\ pc' \in [Requests -> PC]
    BY <1>0, <2>1 DEF RequestOK, Others, PC
  <2>3. left' \in [Requests -> Nat] /\ notResponding' \in [Requests -> BOOLEAN]
    BY <1>0, <2>1 DEF RequestOK
  <2>4. RequestOK'
    BY <1>0, <2>1, <2>2, <2>3 DEF RequestOK, Counted, Others
  <2>5. dead' \in [Records -> Mark]
    BY <1>0, <2>1 DEF TableOK, Mark
  <2>6. TableOK'
    BY <1>0, <2>1, <2>5 DEF TableOK, config
  <2> QED BY <2>1, <2>2, <2>4, <2>6, GoesOnKeeps DEF Counted, config
<1>10. CASE ConnectFails(r)
  <2>1. /\ pc[r] = "attempt" /\ left[r] > 0
        /\ left' = [left EXCEPT ![r] = @ - 1]
        /\ notResponding' = [notResponding EXCEPT ![r] = TRUE]
        /\ seen' = [seen EXCEPT ![r] = opened[held[r]]]
        /\ pc' = [pc EXCEPT ![r] = "marking"]
        /\ UNCHANGED <<config, table, refuses, want, keyed, held, leaked, passed>>
    BY <1>10 DEF ConnectFails, Goto
  <2>2. /\ \A q \in Requests \ {r} : pc'[q] = pc[q] /\ seen'[q] = seen[q]
        /\ pc'[r] = "marking" /\ held' = held /\ pc' \in [Requests -> PC]
    BY <1>0, <2>1 DEF RequestOK, PC
  <2>3. held[r] \in Records /\ opened[held[r]] \in Nat /\ seen'[r] = opened[held[r]]
    BY <1>0, <2>1 DEF RequestOK, TableOK, Counted
  <2>4. /\ left' \in [Requests -> Nat] /\ seen' \in [Requests -> Nat]
        /\ notResponding' \in [Requests -> BOOLEAN]
    BY <1>0, <2>1, <2>3 DEF RequestOK
  <2>5. RequestOK'
    BY <1>0, <2>1, <2>2, <2>3, <2>4 DEF RequestOK
  <2>6. TableOK' /\ DictInv'
    BY <1>0, <2>1, TableSame, DictSame DEF config, table
  <2>7. OpenedIsAccounted'
    BY <2>1, <2>2, SameHolders DEF Counted, table
  <2>8. SeenInv'
    BY <1>0, <2>1, <2>2, <2>3 DEF SeenInv, table
  <2> QED BY <2>5, <2>6, <2>7, <2>8, Together
<1>11. CASE MarkNotResponding(r)
  <2>1. /\ pc[r] = "marking" /\ LowerTo(held[r], seen[r] - 1)
        /\ dead' = [dead EXCEPT ![held[r]] = "yes"]
        /\ seen' = [seen EXCEPT ![r] = 0]
        /\ \/ /\ left[r] > 0 /\ left' = [left EXCEPT ![r] = @ - 1]
              /\ pc' = [pc EXCEPT ![r] = "load"]
           \/ pc' = [pc EXCEPT ![r] = "failed"] /\ UNCHANGED left
        /\ UNCHANGED <<config, valid, last, unavailable, refuses, want, keyed, held,
                       notResponding, leaked, passed>>
    BY <1>11 DEF MarkNotResponding, Goto
  <2>2. Others(r) /\ pc'[r] \in {"load", "failed"} /\ pc' \in [Requests -> PC]
    BY <1>0, <2>1 DEF RequestOK, Others, PC
  <2>3. left' \in [Requests -> Nat] /\ seen' \in [Requests -> Nat]
    BY <1>0, <2>1 DEF RequestOK
  <2>4. RequestOK'
    BY <1>0, <2>1, <2>2, <2>3 DEF RequestOK, Counted, Others
  <2>5. dead' \in [Records -> Mark]
    BY <1>0, <2>1 DEF TableOK, Mark
  <2>6. LowerTo(held[r], opened[held[r]] - 1)
    BY <1>0, <2>1 DEF SeenInv
  <2> QED BY <2>1, <2>2, <2>4, <2>5, <2>6, ReleaseKeeps DEF Counted
<1>12. CASE Respond(r)
  <2>1. /\ pc[r] = "connected" /\ LowerTo(held[r], opened[held[r]] - 1)
        /\ Return(r)
        /\ UNCHANGED <<config, valid, dead, last, unavailable, leaked, passed>>
    BY <1>12 DEF Respond
  <2>2. refuses' \in [Instances -> Mark]
    BY <1>0, <1>12 DEF Respond, RequestOK, Mark
  <2>3. RequestOK' /\ Others(r) /\ pc'[r] = "idle"
    BY <1>0, <2>1, <2>2, ReturnKeeps DEF RequestOK
  <2>4. dead' \in [Records -> Mark]
    BY <1>0, <2>1 DEF TableOK
  <2> QED BY <2>1, <2>3, <2>4, ReleaseKeeps DEF Counted
<1>13. CASE GiveUp(r)
  <2>1. UNCHANGED <<config, table, refuses, passed>>
    BY <1>13 DEF GiveUp
  <2>2. CASE pc[r] = "attempt" /\ Abandon(r)
    BY <2>1, <2>2, AbandonKeeps DEF Counted
  <2>3. CASE pc[r] = "failed" /\ Return(r) /\ UNCHANGED leaked
    <3>1. RequestOK' /\ Others(r) /\ pc'[r] = "idle"
      BY <1>0, <2>1, <2>3, ReturnKeeps DEF RequestOK
    <3>2. TableOK' /\ DictInv'
      BY <1>0, <2>1, TableSame, DictSame DEF config, table
    <3>3. OpenedIsAccounted'
      BY <2>1, <2>3, <3>1, SameHolders DEF Others, Counted, table
    <3>4. SeenInv'
      BY <1>0, <3>1, SeenSame DEF Others
    <3> QED BY <3>1, <3>2, <3>3, <3>4, Together
  <2> QED BY <1>13, <2>2, <2>3 DEF GiveUp
<1> QED BY <1>1, <1>2, <1>3, <1>4, <1>5, <1>6, <1>7, <1>8, <1>9, <1>10, <1>11,
           <1>12, <1>13 DEF RequestStep

\* So does a step of the environment, which changes no count and no record.
LEMMA EnvironmentKeeps ==
    ASSUME LBInv, Environment
    PROVE  LBInv'
<1>1. TypeOK /\ TableOK /\ RequestOK /\ DictInv /\ SeenInv /\ OpenedIsAccounted
  BY Parts, Types
<1>2. UNCHANGED <<loaded, order, inst, valid, opened, last, pc, request, leaked, passed>>
  BY DEF Environment, EditFile, Tick, RetryTimeComes, RefusalIsOver, IsAvailable,
         config, table
<1>3. dead' \in [Records -> Mark] /\ refuses' \in [Instances -> Mark]
  BY <1>1 DEF Environment, EditFile, Tick, RetryTimeComes, RefusalIsOver, IsAvailable,
              config, table, TableOK, RequestOK, Mark
<1>4. /\ file' \in File /\ newer' \in BOOLEAN /\ edits' \in Nat
      /\ readAge' \in {"now", "recent", "due"} /\ unavailable' \in BOOLEAN
  <2>1. CASE EditFile
    <3>1. newer' \in BOOLEAN
      BY <2>1, Zenon DEF EditFile
    <3> QED BY <1>1, <2>1, <3>1 DEF EditFile, table, TableOK
  <2>2. CASE Tick
    BY <1>1, <2>2 DEF Tick, table, TableOK
  <2>3. CASE RetryTimeComes \/ RefusalIsOver
    BY <1>1, <2>3 DEF RetryTimeComes, RefusalIsOver, config, table, TableOK
  <2>4. CASE IsAvailable
    BY <1>1, <2>4 DEF IsAvailable, config, TableOK
  <2> QED BY <2>1, <2>2, <2>3, <2>4 DEF Environment
<1>5. TableOK'
  BY <1>1, <1>2, <1>3, <1>4 DEF TableOK
<1>6. RequestOK'
  BY <1>1, <1>2, <1>3 DEF RequestOK, request
<1>7. DictInv'
  BY <1>1, <1>2, DictSame
<1>8. OpenedIsAccounted'
  BY <1>2, SameHolders DEF request
<1>9. SeenInv'
  BY <1>1, <1>2 DEF SeenInv, request
<1> QED BY <1>5, <1>6, <1>7, <1>8, <1>9, Together

LEMMA StutterKeeps ==
    ASSUME LBInv, UNCHANGED vars
    PROVE  LBInv'
<1>1. TypeOK /\ TableOK /\ RequestOK /\ DictInv /\ SeenInv
  BY Parts, Types
<1>2. TableOK' /\ RequestOK' /\ DictInv'
  BY <1>1, TableSame, DictSame DEF vars, config, table, request, RequestOK
<1>3. OpenedIsAccounted'
  BY SameHolders DEF vars, table, request
<1>4. SeenInv'
  BY <1>1 DEF vars, table, request, SeenInv
<1> QED BY <1>2, <1>3, <1>4, Together

LEMMA InitHolds ==
    ASSUME Init
    PROVE  LBInv
<1>1. TypeOK
  <2>1. <<>> \in Seq(Records)
    OBVIOUS
  <2>2. NoApp \in File \ {NoFile}
    BY DEF File, NoApp, NoFile
  <2>3. [i \in Instances |-> 0] \in [Instances -> 0 .. 2]
    <3>1. 0 \in 0 .. 2
      OBVIOUS
    <3> QED BY <3>1
  <2>4. TableOK
    BY <2>1, <2>2, <2>3 DEF Init, TableOK, Mark
  <2>5. RequestOK
    BY DEF Init, RequestOK, Mark, PC, Counted
  <2> QED BY <2>4, <2>5, Types
<1>2. OpenedIsAccounted
  <2>1. \A x \in Records : Holders(x) = {}
    BY DEF Init, Holders, Counted
  <2>2. \A x \in Records : Cardinality(Holders(x)) = 0
    BY <2>1, FS_EmptySet
  <2> QED BY <2>2 DEF Init, OpenedIsAccounted
<1>3. DictInv
  <2>1. Dict = {} /\ Allocated = {}
    BY DEF Init, Dict, Allocated, ToSet
  <2>2. order = <<>> /\ valid = {} /\ loaded = NoApp /\ \A x \in Records : opened[x] = 0
    BY DEF Init
  <2> QED BY <2>1, <2>2 DEF DictInv, DictIsConfiguration, DroppedIsFreed
<1>4. SeenInv
  BY DEF Init, SeenInv
<1> QED BY <1>1, <1>2, <1>3, <1>4, Parts

\* LBInv is an invariant of every build whose requests do not change a count
\* that another one is writing (GSWLoadBalancing.c:265 takes no lock).
THEOREM TableIsConsistent == OrderlySpec => []LBInv
<1>1. Init => LBInv
  BY InitHolds
<1>2. LBInv /\ [Next /\ CountIsKept]_vars => LBInv'
  <2> SUFFICES ASSUME LBInv, [Next /\ CountIsKept]_vars PROVE LBInv'
    OBVIOUS
  <2>1. CASE Next /\ CountIsKept
    BY <2>1, RequestStepKeeps, EnvironmentKeeps DEF Next
  <2>2. CASE UNCHANGED vars
    BY <2>2, StutterKeeps
  <2> QED BY <2>1, <2>2
<1> QED BY <1>1, <1>2, PTL DEF OrderlySpec

\* In a process that serves one request at a time no step of another request
\* comes between the two of MarkNotResponding.
LEMMA OneRequestKeepsCount ==
    ASSUME \A r, q \in Requests : r = q, TypeOK, Next
    PROVE  CountIsKept
<1> SUFFICES ASSUME NEW r \in Requests, pc[r] = "marking", pc'[r] = "marking"
             PROVE  UNCHANGED opened
  BY DEF CountIsKept
<1>1. CASE Environment
  BY <1>1 DEF Environment, EditFile, Tick, RetryTimeComes, RefusalIsOver, IsAvailable,
              table
<1>2. CASE \E q \in Requests : Begin(q) \/ (pc[q] = "idle" /\ Dump(q)) \/ RequestStep(q)
  <2>1. Begin(r) \/ (pc[r] = "idle" /\ Dump(r)) \/ RequestStep(r)
    BY <1>2
  <2>2. MarkNotResponding(r)
    BY <2>1 DEF Begin, RequestStep, Load, FindApp, FindAppFails, FindInstance,
                FindInstanceFails, Dump, CheckAvailable, Connect, ConnectFails,
                Respond, GiveUp
  <2>3. pc' \in {[pc EXCEPT ![r] = "load"], [pc EXCEPT ![r] = "failed"]}
    BY <2>2 DEF MarkNotResponding, Goto
  <2>4. pc'[r] # "marking"
    BY <2>3 DEF TypeOK
  <2> QED BY <2>4
<1> QED BY <1>1, <1>2 DEF Next

\* The builds for Apache, which serve one request at a time, keep the table
\* consistent without any assumption on the order of steps.
THEOREM OneRequestIsConsistent ==
    ASSUME \A r, q \in Requests : r = q
    PROVE  Spec => [](OpenedIsAccounted /\ DroppedIsFreed /\ DictIsConfiguration)
<1>1. Init => LBInv
  BY InitHolds
<1>2. LBInv /\ [Next]_vars => LBInv'
  <2> SUFFICES ASSUME LBInv, [Next]_vars PROVE LBInv'
    OBVIOUS
  <2>1. CASE Next
    <3>1. CountIsKept
      BY <2>1, OneRequestKeepsCount DEF LBInv
    <3> QED BY <2>1, <3>1, RequestStepKeeps, EnvironmentKeeps DEF Next
  <2>2. CASE UNCHANGED vars
    BY <2>2, StutterKeeps
  <2> QED BY <2>1, <2>2
<1>3. LBInv => OpenedIsAccounted /\ DroppedIsFreed /\ DictIsConfiguration
  BY DEF LBInv
<1> QED BY <1>1, <1>2, <1>3, PTL DEF Spec

\* The count of an instance is exact, whatever is reloaded, retried or abandoned.
THEOREM CountsAreExact == OrderlySpec => []OpenedIsAccounted
<1>1. LBInv => OpenedIsAccounted
  BY DEF LBInv
<1> QED BY <1>1, TableIsConsistent, PTL

\* No reload and no other request frees an instance that a request holds.
THEOREM NoneHeldIsFreed == OrderlySpec => []HeldIsInMemory
<1>1. LBInv => HeldIsInMemory
  BY HeldIsCounted DEF HeldIsInMemory
<1> QED BY <1>1, TableIsConsistent, PTL

\* An instance that left the configuration goes when its last request does.
THEOREM NoneDroppedIsKept == OrderlySpec => []DroppedIsFreed
<1>1. LBInv => DroppedIsFreed
  BY DEF LBInv
<1> QED BY <1>1, TableIsConsistent, PTL

\* The dictionary holds the configuration last read, each instance once.
THEOREM TableIsConfiguration == OrderlySpec => []DictIsConfiguration
<1>1. LBInv => DictIsConfiguration
  BY DEF LBInv
<1> QED BY <1>1, TableIsConsistent, PTL

\* A process that serves one request at a time never has a request at work on an
\* instance that a reload made invalid.
THEOREM OneRequestHoldsConfigured ==
    ASSUME \A r, q \in Requests : r = q
    PROVE  Spec => []HeldIsConfigured
<1>1. Init => LBInv /\ HeldIsConfigured
  BY InitHolds DEF Init, HeldIsConfigured, Counted
<1>2. LBInv /\ HeldIsConfigured /\ [Next]_vars => LBInv' /\ HeldIsConfigured'
  <2> SUFFICES ASSUME LBInv, HeldIsConfigured, [Next]_vars
               PROVE  LBInv' /\ HeldIsConfigured'
    OBVIOUS
  <2>1. CASE Next
    <3>1. CountIsKept
      BY <2>1, OneRequestKeepsCount DEF LBInv
    <3>2. LBInv'
      BY <2>1, <3>1, RequestStepKeeps, EnvironmentKeeps DEF Next
    <3>3. ASSUME Environment PROVE HeldIsConfigured'
      BY <3>3 DEF Environment, EditFile, Tick, RetryTimeComes, RefusalIsOver,
                  IsAvailable, table, request, HeldIsConfigured
    <3>4. ASSUME NEW r \in Requests,
                 Begin(r) \/ (pc[r] = "idle" /\ Dump(r)) \/ RequestStep(r),
                 pc'[r] \in Counted
          PROVE  held'[r] \in valid'
      <4>1. pc \in [Requests -> PC] /\ held \in [Requests -> Records \union {NoRecord}]
        BY DEF LBInv, TypeOK
      <4>2. CASE \E x \in valid : Choose(r, x) /\ UNCHANGED valid
        BY <4>1, <4>2 DEF Choose
      <4>3. CASE pc[r] \in Counted /\ UNCHANGED <<held, valid>>
        BY <4>3 DEF HeldIsConfigured
      <4>4. CASE pc'[r] \notin Counted
        BY <3>4, <4>4
      <4>5. CASE FindApp(r) \/ FindInstance(r)
        <5>1. \E x \in valid : Choose(r, x) /\ UNCHANGED valid
          BY <4>5 DEF FindApp, FindInstance, Fit
        <5> QED BY <5>1, <4>2
      <4>6. CASE CheckAvailable(r) \/ Connect(r) \/ ConnectFails(r)
        <5>1. CASE Return(r)
          BY <5>1, <4>1, <4>4 DEF Return, Goto, Counted
        <5>2. CASE ~Return(r)
          BY <5>2, <4>6, <4>3 DEF CheckAvailable, Connect, ConnectFails, Abandon, Counted, table, request
        <5> QED BY <5>1, <5>2
      <4>7. CASE Begin(r) \/ Load(r) \/ FindAppFails(r) \/ FindInstanceFails(r)
                 \/ MarkNotResponding(r)
        BY <4>7, <4>1, <4>4 DEF Begin, Load, FindAppFails, FindInstanceFails,
                                MarkNotResponding, Goto, Counted
      <4>8. CASE Dump(r) \/ Respond(r) \/ GiveUp(r)
        BY <4>8, <4>1, <4>4 DEF Dump, Respond, GiveUp, Abandon, Return, Goto, Counted
      <4> QED BY <3>4, <4>5, <4>6, <4>7, <4>8 DEF RequestStep
    <3>5. HeldIsConfigured'
      BY <2>1, <3>3, <3>4 DEF Next, HeldIsConfigured
    <3> QED BY <3>2, <3>5
  <2>2. CASE UNCHANGED vars
    BY <2>2, StutterKeeps DEF HeldIsConfigured, vars, table, request
  <2> QED BY <2>1, <2>2
<1> QED BY <1>1, <1>2, PTL DEF Spec

(***************************************************************************)
(* The turns of FindApp, which counts its places modulo the length of the  *)
(* dictionary.                                                             *)
(***************************************************************************)
\* A remainder is smaller than the divisor, and what is left.
LEMMA RemainderOf ==
    ASSUME NEW n \in Nat \ {0}, NEW q \in Nat, NEW r \in 0 .. n - 1
    PROVE  (n * q + r) % n = r
OBVIOUS

\* A number and its quotient.
LEMMA QuotientOf ==
    ASSUME NEW a \in Nat, NEW n \in Nat \ {0}
    PROVE  a \div n \in Nat /\ a = n * (a \div n) + (a % n)
OBVIOUS

\* The remainder of a sum is that of the sum of remainders.
LEMMA RemainderOfSum ==
    ASSUME NEW a \in Nat, NEW j \in Nat, NEW n \in Nat \ {0}
    PROVE  ((a % n) + j) % n = (a + j) % n
<1>1. PICK q \in Nat : a = n * q + (a % n)
  <2>1. a = n * (a \div n) + (a % n) /\ a \div n \in Nat  OBVIOUS
  <2> QED BY <2>1
<1> DEFINE r == a % n
<1>2. r \in 0 .. n - 1  OBVIOUS
<1> HIDE DEF r
<1>3. PICK p \in Nat : r + j = n * p + ((r + j) % n)
  <2> DEFINE b == r + j
  <2>1. b \in Nat  BY <1>2
  <2> HIDE DEF b
  <2>2. b = n * (b \div n) + (b % n) /\ b \div n \in Nat  BY <2>1, QuotientOf
  <2> QED BY <2>2 DEF b
<1> DEFINE t == (r + j) % n
<1>4. t \in 0 .. n - 1  BY <1>2
<1> HIDE DEF t
<1>5. a + j = n * (q + p) + t
  <2>1. a = n * q + r  BY <1>1 DEF r
  <2>2. r + j = n * p + t  BY <1>2, <1>3 DEF t
  <2>3. n * (q + p) = n * q + n * p  OBVIOUS
  <2>4. n * q \in Nat /\ n * p \in Nat  OBVIOUS
  <2> QED BY <1>2, <1>4, <2>1, <2>2, <2>3, <2>4
<1>6. q + p \in Nat  OBVIOUS
<1>7. (a + j) % n = t  BY <1>4, <1>5, <1>6, RemainderOf
<1> QED BY <1>7 DEF r, t

\* Two of n numbers in a row do not have the same remainder.
LEMMA RemaindersDiffer ==
    ASSUME NEW a \in Nat, NEW n \in Nat \ {0}, NEW j \in 1 .. n, NEW k \in 1 .. n,
           (a + j) % n = (a + k) % n
    PROVE  j = k
<1> SUFFICES ASSUME NEW x \in 1 .. n, NEW y \in 1 .. n, x < y, (a + x) % n = (a + y) % n
             PROVE FALSE
  OBVIOUS
<1> DEFINE b == a + x
           c == a + y
           q == b \div n
           p == c \div n
           r == b % n
<1>1. b \in Nat /\ c \in Nat  OBVIOUS
<1> HIDE DEF b, c
<1>2. b = n * q + r /\ c = n * p + r  BY <1>1 DEF b, c
<1>3. q \in Nat /\ p \in Nat /\ r \in Nat  BY <1>1
<1>4. c - b = y - x  BY DEF b, c
<1> HIDE DEF q, p, r
<1>5. n * (p - q) = n * p - n * q  BY <1>3
<1>6. n * (p - q) = y - x
  <2>1. n * p \in Nat /\ n * q \in Nat  BY <1>3
  <2> QED BY <1>2, <1>3, <1>4, <1>5, <2>1
<1>7. CASE p - q >= 1
  <2>1. n * (p - q) >= n  BY <1>3, <1>7
  <2> QED BY <1>6, <2>1
<1>8. CASE p - q <= 0
  <2>1. n * (p - q) <= 0  BY <1>3, <1>8
  <2> QED BY <1>6, <2>1
<1> QED BY <1>3, <1>7, <1>8

\* Each remainder is that of one of n numbers in a row.
LEMMA RemaindersAreReached ==
    ASSUME NEW a \in Nat, NEW n \in Nat \ {0}, NEW t \in 0 .. n - 1
    PROVE  \E k \in 1 .. n : (a + k) % n = t
<1> DEFINE l == a % n
<1>1. l \in 0 .. n - 1  OBVIOUS
<1> HIDE DEF l
<1>2. \A k \in 1 .. n : (a + k) % n = (l + k) % n
  <2> SUFFICES ASSUME NEW k \in 1 .. n PROVE (a + k) % n = (l + k) % n  OBVIOUS
  <2>1. k \in Nat  OBVIOUS
  <2> QED BY <2>1, RemainderOfSum DEF l
<1>3. CASE t > l
  <2>1. t - l \in 1 .. n /\ l + (t - l) = n * 0 + t  BY <1>1, <1>3
  <2>2. (l + (t - l)) % n = t  BY <2>1, RemainderOf
  <2> QED BY <1>2, <2>1, <2>2
<1>4. CASE t <= l
  <2>1. (t - l) + n \in 1 .. n /\ l + ((t - l) + n) = n * 1 + t  BY <1>1, <1>4
  <2>2. (l + ((t - l) + n)) % n = t  BY <2>1, RemainderOf
  <2> QED BY <1>2, <2>1, <2>2
<1> QED BY <1>1, <1>3, <1>4

\* Each record of the dictionary has one turn.
LEMMA EachHasOneTurn ==
    ASSUME LBInv
    PROVE  /\ Len(order) \in Nat
           /\ \A k \in 1 .. Len(order) : Turn(k) \in Dict
           /\ \A x \in Dict : \E k \in 1 .. Len(order) : Turn(k) = x
           /\ \A j, k \in 1 .. Len(order) : Turn(j) = Turn(k) => j = k
           /\ \A x, y \in Dict : inst[x] = inst[y] => x = y
<1> DEFINE n == Len(order)
<1>1. order \in Seq(Records) /\ last \in Nat  BY DEF LBInv, TypeOK
<1>2. n \in Nat /\ DOMAIN order = 1 .. n  BY <1>1
<1>3. \A k \in 1 .. n : Turn(k) \in Dict  BY TurnIsInDict DEF LBInv
<1>4. ASSUME NEW x \in Dict PROVE \E k \in 1 .. n : Turn(k) = x
  <2>1. PICK p \in 1 .. n : order[p] = x  BY <1>2 DEF Dict, ToSet
  <2>2. p - 1 \in 0 .. n - 1 /\ n \in Nat \ {0}  BY <1>2
  <2>3. PICK k \in 1 .. n : (last + k) % n = p - 1  BY <1>1, <2>2, RemaindersAreReached
  <2>4. Turn(k) = x  BY <2>1, <2>3 DEF Turn
  <2> QED BY <2>4
<1>5. ASSUME NEW j \in 1 .. n, NEW k \in 1 .. n, Turn(j) = Turn(k) PROVE j = k
  <2>1. n \in Nat \ {0}  BY <1>2
  <2>2. (last + j) % n \in 0 .. n - 1 /\ (last + k) % n \in 0 .. n - 1  BY <1>1, <2>1
  <2>3. ((last + j) % n) + 1 = ((last + k) % n) + 1
    BY <1>2, <1>5, <2>2 DEF Turn, LBInv, DictIsConfiguration
  <2>4. (last + j) % n = (last + k) % n  BY <2>2, <2>3
  <2> QED BY <1>1, <2>1, <2>4, RemaindersDiffer
<1>6. \A x, y \in Dict : inst[x] = inst[y] => x = y  BY DEF LBInv, DictIsConfiguration
<1> QED BY <1>2, <1>3, <1>4, <1>5, <1>6

\* A choice of FindApp keeps TurnsInv: the turns after it are those before it,
\* from the one that follows it.
LEMMA FindAppKeepsTurns ==
    ASSUME LBInv, TurnsInv, NEW r \in Requests, FindApp(r)
    PROVE  TurnsInv'
<1> DEFINE n == Len(order)
<1>1. order \in Seq(Records) /\ last \in Nat /\ passed \in [Instances -> 0 .. 2]
  BY DEF LBInv, TypeOK
<1>2. PICK k \in 1 .. n :
        /\ Fit(r, Turn(k)) /\ \A j \in 1 .. k - 1 : ~Fit(r, Turn(j))
        /\ last' = (last + k) % n
        /\ Follow(r, Turn(k))
  BY DEF FindApp
<1>3. UNCHANGED <<order, inst, valid>>  BY DEF FindApp
<1>4. n \in Nat \ {0}  BY <1>1
<1>5. Dict' = Dict  BY <1>3 DEF Dict
<1>6. ASSUME NEW j \in Nat PROVE Turn(j)' = Turn(k + j)
  <2>1. (((last + k) % n) + j) % n = ((last + k) + j) % n
    <3> DEFINE a == last + k
    <3>1. a \in Nat  BY <1>1
    <3> HIDE DEF a
    <3>2. ((a % n) + j) % n = (a + j) % n  BY <1>4, <3>1, RemainderOfSum
    <3> QED BY <3>2 DEF a
  <2>2. (last + k) + j = last + (k + j)  BY <1>1
  <2> QED BY <1>2, <1>3, <2>1, <2>2 DEF Turn
<1>7. Turn(k + n) = Turn(k)
  <2>1. ((last + k) + n) % n = (last + k) % n
    <3>1. last + k \in Nat  BY <1>1
    <3> DEFINE a == last + k
    <3> HIDE DEF a
    <3>2. a \in Nat  BY <3>1 DEF a
    <3>3. ((a % n) + n) % n = (a + n) % n  BY <1>4, <3>2, RemainderOfSum
    <3>4. a % n \in 0 .. n - 1  BY <1>4, <3>2
    <3>5. (n * 1 + (a % n)) % n = a % n  BY <1>4, <3>4, RemainderOf
    <3>6. (a % n) + n = n * 1 + (a % n)  BY <1>4, <3>4
    <3> QED BY <3>3, <3>5, <3>6 DEF a
  <2>2. (last + k) + n = last + (k + n)  BY <1>1, <1>4
  <2> QED BY <2>1, <2>2 DEF Turn
<1>8. CASE passed' = [i \in Instances |-> 0]
  BY <1>8 DEF TurnsInv
<1>9. ASSUME inst[Turn(k)] # Watched,
             NEW y \in Dict, inst[y] = Watched, Fit(r, y),
             passed' = [passed EXCEPT ![inst[Turn(k)]] = IF @ < 2 THEN @ + 1 ELSE 2]
      PROVE  TurnsInv'
  <2>1. PICK w \in 1 .. n : Turn(w) = y  BY EachHasOneTurn
  <2>2. w > k
    <3>1. w # k  BY <1>9, <2>1
    <3>2. ~(w \in 1 .. k - 1)  BY <1>2, <1>9, <2>1
    <3> QED BY <3>1, <3>2
  <2>3. \A m \in 1 .. n : inst[Turn(m)] = Watched => m = w
    BY <1>9, <2>1, EachHasOneTurn
  <2>4. \A m \in 1 .. n : inst[Turn(m)] = inst[Turn(k)] => m = k
    BY EachHasOneTurn
  <2>5. w - k \in 1 .. n /\ inst[Turn(w - k)]' = Watched
    <3>1. w - k \in 1 .. n /\ w - k \in Nat /\ k + (w - k) = w  BY <2>2
    <3>2. Turn(w - k)' = Turn(w)  BY <3>1, <1>6
    <3> QED BY <1>3, <1>9, <2>1, <3>1, <3>2
  <2>6. valid = Dict
    BY <1>2 DEF LBInv, DictIsConfiguration, Fit
  <2> SUFFICES ASSUME NEW i \in Instances, passed'[i] # 0
               PROVE  /\ passed'[i] = 1 /\ valid' = Dict'
                      /\ \E m, j \in 1 .. Len(order') :
                           /\ m < j /\ inst'[Turn(m)'] = Watched
                           /\ inst'[Turn(j)'] = i
    BY DEF TurnsInv
  <2>7. CASE i = inst[Turn(k)]
    <3>1. passed[i] = 0
      <4> SUFFICES ASSUME passed[i] # 0 PROVE FALSE
        OBVIOUS
      <4>1. PICK m, j \in 1 .. n : m < j /\ inst[Turn(m)] = Watched /\ inst[Turn(j)] = i
        BY DEF TurnsInv
      <4>2. j = k /\ m = w  BY <2>3, <2>4, <2>7, <4>1
      <4> QED BY <2>2, <4>1, <4>2
    <3>2. passed'[i] = 1  BY <1>1, <1>9, <2>7, <3>1
    <3> PICK u \in Nat : u = n  BY <1>4
    <3>3. Turn(u)' = Turn(k)  BY <1>6, <1>7
    <3>4. u \in 1 .. n /\ w - k < u  BY <1>4, <2>2
    <3> QED BY <1>3, <1>5, <2>5, <2>6, <2>7, <3>2, <3>3, <3>4
  <2>8. CASE i # inst[Turn(k)]
    <3>1. passed'[i] = passed[i]  BY <1>1, <1>9, <2>8
    <3>2. PICK m, j \in 1 .. n : m < j /\ inst[Turn(m)] = Watched /\ inst[Turn(j)] = i
      BY <3>1 DEF TurnsInv
    <3>3. passed[i] = 1  BY <3>1 DEF TurnsInv
    <3>4. m = w  BY <2>3, <3>2
    <3>5. j - k \in 1 .. n /\ j - k \in Nat /\ k + (j - k) = j /\ w - k < j - k
      BY <2>2, <3>2, <3>4
    <3>6. Turn(j - k)' = Turn(j)  BY <1>6, <3>5
    <3> QED BY <1>3, <1>5, <2>5, <2>6, <3>1, <3>2, <3>3, <3>5, <3>6
  <2> QED BY <2>7, <2>8
<1> QED BY <1>2, <1>8, <1>9 DEF Follow

\* So does every step that leaves the order of the turns, or forgets the choices.
LEMMA SameTurns ==
    ASSUME TurnsInv, UNCHANGED <<order, inst, valid, last, passed>>
    PROVE  TurnsInv'
<1>1. Dict' = Dict /\ \A k : Turn(k)' = Turn(k)  BY DEF Dict, Turn
<1> QED BY <1>1 DEF TurnsInv

\* A reload forgets the choices, or leaves the table alone.
LEMMA LoadKeepsTurns ==
    ASSUME TurnsInv, LoadConfiguration
    PROVE  TurnsInv'
<1>1. CASE UNCHANGED <<table, passed>>  BY <1>1, SameTurns DEF table
<1>2. CASE passed' = [i \in Instances |-> 0]  BY <1>2 DEF TurnsInv
<1> QED BY <1>1, <1>2 DEF LoadConfiguration

\* FindAppFails only makes the index of the last instance smaller than their number.
LEMMA FailKeepsTurns ==
    ASSUME LBInv, TurnsInv, NEW r \in Requests, FindAppFails(r)
    PROVE  TurnsInv'
<1> DEFINE n == Len(order)
<1>1. order \in Seq(Records) /\ last \in Nat  BY DEF LBInv, TypeOK
<1>2. UNCHANGED <<order, inst, valid, passed>>  BY DEF FindAppFails
<1>3. Dict' = Dict  BY <1>2 DEF Dict
<1>4. ASSUME NEW k \in 1 .. n PROVE Turn(k)' = Turn(k)
  <2>1. n \in Nat \ {0} /\ k \in Nat  BY <1>1
  <2>2. order # <<>>  BY <1>1, <2>1
  <2>3. last' = last % n  BY <2>2 DEF FindAppFails
  <2>4. ((last % n) + k) % n = (last + k) % n  BY <1>1, <2>1, RemainderOfSum
  <2> QED BY <1>2, <2>3, <2>4 DEF Turn
<1> QED BY <1>2, <1>3, <1>4 DEF TurnsInv

\* What LowerTo frees is not valid, and while choices are counted every record
\* of the dictionary is.
LEMMA LowerKeepsTurns ==
    ASSUME LBInv, TurnsInv, NEW x, NEW n, LowerTo(x, n), UNCHANGED <<valid, last, passed>>
    PROVE  TurnsInv'
<1>1. order \in Seq(Records)  BY DEF LBInv, TypeOK
<1>2. CASE UNCHANGED <<order, inst>>  BY <1>2, SameTurns
<1>3. CASE x \notin valid /\ order' = Without(x) /\ inst' = [inst EXCEPT ![x] = NoInstance]
  <2> SUFFICES ASSUME NEW i \in Instances, passed'[i] # 0
               PROVE  /\ passed'[i] = 1 /\ valid' = Dict'
                      /\ \E m, j \in 1 .. Len(order') :
                           /\ m < j /\ inst'[Turn(m)'] = Watched
                           /\ inst'[Turn(j)'] = i
    BY DEF TurnsInv
  <2>1. passed[i] # 0  OBVIOUS
  <2>2. valid = Dict /\ passed[i] = 1  BY <2>1 DEF TurnsInv
  <2>3. order' = order  BY <1>3, <2>2 DEF Without, Dict, ToSet
  <2>4. \A k \in 1 .. Len(order) : Turn(k)' = Turn(k) /\ inst'[Turn(k)] = inst[Turn(k)]
    <3> SUFFICES ASSUME NEW k \in 1 .. Len(order)
                 PROVE  Turn(k)' = Turn(k) /\ inst'[Turn(k)] = inst[Turn(k)]
      OBVIOUS
    <3>1. Turn(k) \in Dict  BY EachHasOneTurn
    <3>2. Turn(k) # x  BY <1>3, <2>2, <3>1
    <3>3. Turn(k) \in Records /\ inst \in [Records -> Instances \union {NoInstance}]
      BY <1>1, <3>1 DEF LBInv, TypeOK, Dict, ToSet
    <3>4. Turn(k)' = Turn(k)  BY <2>3 DEF Turn
    <3> QED BY <1>3, <3>2, <3>3, <3>4
  <2>5. Dict' = Dict  BY <2>3 DEF Dict
  <2>6. PICK m, j \in 1 .. Len(order) :
          m < j /\ inst[Turn(m)] = Watched /\ inst[Turn(j)] = i
    BY <2>1 DEF TurnsInv
  <2> QED BY <2>2, <2>3, <2>4, <2>5, <2>6
<1> QED BY <1>2, <1>3 DEF LowerTo

\* Every step keeps the order of the turns.
LEMMA TurnsKept ==
    ASSUME LBInv, TurnsInv, [Next]_vars
    PROVE  TurnsInv'
<1>1. ASSUME NEW r \in Requests,
             Begin(r) \/ (pc[r] = "idle" /\ Dump(r)) \/ RequestStep(r)
      PROVE  TurnsInv'
  <2>1. CASE Load(r) \/ Dump(r)
    BY <2>1, LoadKeepsTurns DEF Load, Dump
  <2>2. CASE FindApp(r) \/ FindAppFails(r)
    BY <2>2, FindAppKeepsTurns, FailKeepsTurns
  <2>3. CASE MarkNotResponding(r) \/ Respond(r)
    <3>1. PICK n : LowerTo(held[r], n)
      BY <2>3 DEF MarkNotResponding, Respond
    <3>2. UNCHANGED <<valid, last, passed>>
      BY <2>3 DEF MarkNotResponding, Respond
    <3> QED BY <3>1, <3>2, LowerKeepsTurns
  <2>4. CASE \/ Begin(r) \/ FindInstance(r) \/ FindInstanceFails(r)
             \/ CheckAvailable(r) \/ Connect(r) \/ ConnectFails(r)
             \/ GiveUp(r)
    <3>1. UNCHANGED <<order, inst, valid, last, passed>>
      BY <2>4 DEF Begin, FindInstance, FindInstanceFails, CheckAvailable, Connect,
                  ConnectFails, GiveUp, table
    <3> QED BY <3>1, SameTurns
  <2> QED BY <1>1, <2>1, <2>2, <2>3, <2>4 DEF RequestStep
<1>2. CASE Environment \/ UNCHANGED vars
  <2>1. UNCHANGED <<order, inst, valid, last, passed>>
    BY <1>2 DEF Environment, EditFile, Tick, RetryTimeComes, RefusalIsOver, IsAvailable,
                vars, table
  <2> QED BY <2>1, SameTurns
<1> QED BY <1>1, <1>2 DEF Next

\* While an instance could be chosen, FindApp chooses no other one twice before
\* it: the turns go on where the last one was, whatever dies, comes back or
\* refuses on the way.
THEOREM TurnsAreKept == OrderlySpec => []RoundRobin
<1>1. Init => TurnsInv
  BY DEF Init, TurnsInv
<1>2. LBInv /\ TurnsInv /\ [Next /\ CountIsKept]_vars => TurnsInv'
  BY TurnsKept
<1>3. LBInv /\ TurnsInv => RoundRobin
  <2> SUFFICES ASSUME LBInv, TurnsInv, NEW i \in Instances PROVE passed[i] <= 1
    BY DEF RoundRobin
  <2> QED BY DEF TurnsInv
<1> QED BY <1>1, <1>2, <1>3, TableIsConsistent, PTL DEF OrderlySpec

(***************************************************************************)
(* The dictionary (AdaptorData).                                           *)
(***************************************************************************)
\* Dictionaries: pairs and holes, in a given room.
Pairs == Keys \X Values
Dicts == [elems : Seq(Pairs \union {Null}), capacity : Nat]
InRoom(d) == Len(d.elems) <= d.capacity

\* The parts of a dictionary.
LEMMA DictProps ==
    ASSUME NEW d \in Dicts
    PROVE  /\ d = [elems |-> d.elems, capacity |-> d.capacity]
           /\ d.elems \in Seq(Pairs \union {Null}) /\ d.capacity \in Nat
           /\ Len(d.elems) \in Nat /\ DOMAIN d.elems = 1 .. Len(d.elems)
           /\ \A i \in DOMAIN d.elems : d.elems[i] \in Pairs \union {Null}
           /\ Live(d) \subseteq 1 .. Len(d.elems)
           /\ \A i \in Live(d) : d.elems[i] \in Pairs
<1>1. /\ d = [elems |-> d.elems, capacity |-> d.capacity]
      /\ d.elems \in Seq(Pairs \union {Null}) /\ d.capacity \in Nat
  BY DEF Dicts
<1>2. \A i \in DOMAIN d.elems : d.elems[i] \in Pairs \union {Null}
  BY <1>1, ElementOfSeq
<1> QED BY <1>1, <1>2 DEF Live

\* GSWDict_Add: a pair comes into a place that held none, the others stay.
LEMMA AddProps ==
    ASSUME NEW d \in Dicts, InRoom(d), NEW key \in Keys, NEW value \in Values
    PROVE  LET e == Add(d, key, value)
           IN  /\ e \in Dicts /\ InRoom(e)
               /\ \E j \in 1 .. Len(e.elems) :
                    /\ j \notin Live(d) /\ Live(e) = Live(d) \union {j}
                    /\ e.elems[j] = <<key, value>>
                    /\ \A i \in Live(d) : e.elems[i] = d.elems[i]
               /\ Live(d) = 1 .. Len(d.elems) => e.elems = Append(d.elems, <<key, value>>)
<1> DEFINE e == Add(d, key, value)
           p == <<key, value>>
           n == Len(d.elems)
           holes == DOMAIN d.elems \ Live(d)
           Goal == /\ e \in Dicts /\ InRoom(e)
                   /\ \E j \in 1 .. Len(e.elems) :
                        /\ j \notin Live(d) /\ Live(e) = Live(d) \union {j}
                        /\ e.elems[j] = p
                        /\ \A i \in Live(d) : e.elems[i] = d.elems[i]
                   /\ Live(d) = 1 .. n => e.elems = Append(d.elems, p)
<1> SUFFICES Goal  OBVIOUS
<1>0. /\ d = [elems |-> d.elems, capacity |-> d.capacity]
      /\ d.elems \in Seq(Pairs \union {Null}) /\ d.capacity \in Nat
      /\ n \in Nat /\ DOMAIN d.elems = 1 .. n
      /\ Live(d) \subseteq 1 .. n
  BY DictProps
<1>1. p \in Pairs /\ p # Null  BY DataAssumption DEF Pairs
<1> HIDE DEF Goal
<1>2. ASSUME NEW c \in Nat, n < c, e = [elems |-> Append(d.elems, p), capacity |-> c]
      PROVE  Goal
  <2> USE DEF Goal
  <2>1. /\ Append(d.elems, p) \in Seq(Pairs \union {Null}) /\ Len(Append(d.elems, p)) = n + 1
        /\ Append(d.elems, p)[n + 1] = p
        /\ \A i \in 1 .. n : Append(d.elems, p)[i] = d.elems[i]
    BY <1>0, <1>1, AppendIs
  <2> HIDE DEF e, p, n
  <2>2. e.elems = Append(d.elems, p) /\ e.capacity = c  BY <1>2
  <2>3. e \in Dicts /\ InRoom(e)  BY <1>0, <1>2, <2>1, <2>2 DEF Dicts, InRoom
  <2>4. DOMAIN e.elems = 1 .. n + 1  BY <2>1, <2>2
  <2>5. Live(e) = Live(d) \union {n + 1}
    <3>1. \A i \in 1 .. n + 1 : i = n + 1 \/ i \in 1 .. n  BY <1>0
    <3>2. \A i \in 1 .. n : i \in 1 .. n + 1  BY <1>0
    <3>3. n + 1 \in 1 .. n + 1  BY <1>0
    <3> QED BY <1>0, <1>1, <2>1, <2>2, <2>4, <3>1, <3>2, <3>3 DEF Live
  <2>6. n + 1 \in 1 .. Len(e.elems) /\ n + 1 \notin Live(d)  BY <1>0, <2>1, <2>2
  <2> QED BY <1>0, <2>1, <2>2, <2>3, <2>5, <2>6
<1>3. CASE n < d.capacity
  <2>1. e = [elems |-> Append(d.elems, p), capacity |-> d.capacity]
    <3>1. e = [d EXCEPT !.elems = Append(@, p)]  BY <1>3 DEF Add
    <3> QED BY <1>0, <3>1
  <2> QED BY <1>0, <1>2, <1>3, <2>1
<1>4. CASE ~(n < d.capacity) /\ holes # {}
  <2>1. e = [d EXCEPT !.elems[Min(holes)] = p]  BY <1>4 DEF Add
  <2>2. Min(holes) \in holes
    <3>1. holes \subseteq Nat  BY <1>0
    <3> HIDE DEF holes
    <3> QED BY <1>4, <3>1, MinProps
  <2> DEFINE j == Min(holes)
  <2>3. j \in 1 .. n /\ j \notin Live(d)  BY <1>0, <2>2
  <2> HIDE DEF j
  <2>4. e = [elems |-> [d.elems EXCEPT ![j] = p], capacity |-> d.capacity]
    BY <1>0, <2>1 DEF j
  <2>5. /\ [d.elems EXCEPT ![j] = p] \in Seq(Pairs \union {Null})
        /\ Len([d.elems EXCEPT ![j] = p]) = n
        /\ [d.elems EXCEPT ![j] = p][j] = p
        /\ \A i \in 1 .. n : i # j => [d.elems EXCEPT ![j] = p][i] = d.elems[i]
    BY <1>0, <1>1, <2>3
  <2> HIDE DEF e, p, n
  <2>6. e.elems = [d.elems EXCEPT ![j] = p] /\ e.capacity = d.capacity  BY <2>4
  <2>7. e \in Dicts /\ InRoom(e)  BY <1>0, <2>4, <2>5, <2>6 DEF Dicts, InRoom, n
  <2>8. DOMAIN e.elems = 1 .. n  BY <2>5, <2>6
  <2>9. Live(e) = Live(d) \union {j}
    BY <1>0, <1>1, <2>3, <2>5, <2>6, <2>8 DEF Live
  <2>10. \A i \in Live(d) : e.elems[i] = d.elems[i]  BY <1>0, <2>3, <2>5, <2>6
  <2>11. Live(d) # 1 .. n  BY <2>3
  <2>12. Len(e.elems) = n /\ e.elems[j] = p  BY <2>5, <2>6
  <2>13. j \in 1 .. Len(e.elems)  BY <2>3, <2>12
  <2> QED BY <2>3, <2>7, <2>9, <2>10, <2>11, <2>12, <2>13 DEF Goal
<1>5. CASE ~(n < d.capacity) /\ holes = {}
  <2>1. e = [SetCapacity(d, 2 * d.capacity) EXCEPT !.elems = Append(@, p)]
    BY <1>5 DEF Add
  <2> DEFINE c == Larger(d.capacity, Larger(MinCapacity, 2 * d.capacity))
  <2>2. c \in Nat /\ d.capacity < c  BY <1>0, DataAssumption DEF Larger
  <2>3. SetCapacity(d, 2 * d.capacity) = [elems |-> d.elems, capacity |-> c]
    BY <1>0 DEF SetCapacity
  <2> DEFINE grown == SetCapacity(d, 2 * d.capacity)
  <2> HIDE DEF c, e, grown
  <2>4. e = [elems |-> Append(d.elems, p), capacity |-> c]
    <3>1. e = [grown EXCEPT !.elems = Append(@, p)]  BY <2>1 DEF grown
    <3>2. grown = [elems |-> d.elems, capacity |-> c]  BY <2>3 DEF grown
    <3> QED BY <3>1, <3>2
  <2>5. n < c  BY <1>0, <2>2 DEF InRoom
  <2> QED BY <1>2, <2>2, <2>4, <2>5
<1> QED BY <1>3, <1>4, <1>5

\* GSWDict_AllKeys: what it has listed after each element.
LEMMA ElementsProps ==
    ASSUME NEW d \in Dicts
    PROVE  \E F : /\ F \in [0 .. Len(d.elems) -> Seq(Pairs)]
                  /\ F[0] = <<>> /\ AllElements(d) = F[Len(d.elems)]
                  /\ \A i \in 1 .. Len(d.elems) :
                       F[i] = IF d.elems[i] = Null THEN F[i - 1] ELSE Append(F[i - 1], d.elems[i])
<1> DEFINE n == Len(d.elems)
           X == Seq(Pairs)
           Is(f) == f = [i \in 0 .. n |->
                           IF i = 0 THEN <<>>
                           ELSE IF d.elems[i] = Null THEN f[i - 1] ELSE Append(f[i - 1], d.elems[i])]
           F == CHOOSE f : Is(f)
           step == [a \in (1 .. n) \X X |->
                      IF d.elems[a[1]] = Null THEN a[2] ELSE Append(a[2], d.elems[a[1]])]
<1>1. n \in Nat /\ \A i \in 1 .. n : d.elems[i] = Null \/ d.elems[i] \in Pairs
  BY DictProps
<1>2. AllElements(d) = F[n]  BY DEF AllElements
<1> HIDE DEF n, X
<1>3. <<>> \in X  BY DEF X
<1>4. step \in [(1 .. n) \X X -> X]
  <2>1. \A s \in X : \A e \in Pairs : Append(s, e) \in X  BY DEF X
  <2> QED BY <1>1, <2>1
<1>5. \A i \in 1 .. n, s \in X :
        step[<<i, s>>] = IF d.elems[i] = Null THEN s ELSE Append(s, d.elems[i])
  OBVIOUS
<1> HIDE DEF step
<1>6. PICK f \in [0 .. n -> X] : f[0] = <<>> /\ \A i \in 1 .. n : f[i] = step[<<i, f[i - 1]>>]
  BY <1>1, <1>3, <1>4, LoopRuns
<1>7. Is(f)
  <2>1. ASSUME NEW i \in 0 .. n, i # 0
        PROVE  f[i] = IF d.elems[i] = Null THEN f[i - 1] ELSE Append(f[i - 1], d.elems[i])
    <3>1. i \in 1 .. n /\ i - 1 \in 0 .. n  BY <1>1, <2>1
    <3>2. f[i - 1] \in X /\ f[i] = step[<<i, f[i - 1]>>]  BY <1>6, <3>1
    <3> QED BY <1>5, <3>1, <3>2
  <2> QED BY <1>6, <2>1
<1>8. Is(F)
  <2> HIDE DEF Is
  <2> QED BY <1>7
<1> HIDE DEF F
<1>9. /\ DOMAIN F = 0 .. n /\ F[0] = <<>>
      /\ \A i \in 1 .. n :
           F[i] = IF d.elems[i] = Null THEN F[i - 1] ELSE Append(F[i - 1], d.elems[i])
  <2>1. DOMAIN F = 0 .. n  BY <1>8
  <2>2. \A i \in 0 .. n :
          F[i] = IF i = 0 THEN <<>>
                 ELSE IF d.elems[i] = Null THEN F[i - 1] ELSE Append(F[i - 1], d.elems[i])
    BY <1>8, Zenon
  <2>3. 0 \in 0 .. n /\ \A i \in 1 .. n : i \in 0 .. n /\ i # 0  BY <1>1
  <2>4. F[0] = <<>>  BY <2>2, <2>3, Zenon
  <2> QED BY <2>1, <2>2, <2>3, <2>4, Zenon
<1>10. \A i \in 1 .. n : F[i - 1] \in X => F[i] = step[<<i, F[i - 1]>>]
  BY <1>5, <1>9
<1>11. \A i \in 0 .. n : F[i] \in X
  BY <1>1, <1>3, <1>4, <1>9, <1>10, LoopIs
<1>12. F \in [0 .. n -> X]
  <2>1. F = [i \in 0 .. n |-> F[i]]  BY <1>8
  <2> QED BY <1>11, <2>1
<1> QED BY <1>2, <1>9, <1>12 DEF n, X

\* GSWDict_AddStringDupFromDict: what it has added after each element.
LEMMA DupProps ==
    ASSUME NEW dst \in Dicts, InRoom(dst), NEW src \in Dicts
    PROVE  \E F : /\ F \in [0 .. Len(src.elems) -> {d \in Dicts : InRoom(d)}]
                  /\ F[0] = dst /\ DupFromDict(dst, src) = F[Len(src.elems)]
                  /\ \A i \in 1 .. Len(src.elems) :
                       F[i] = IF src.elems[i] = Null THEN F[i - 1]
                              ELSE Add(F[i - 1], src.elems[i][1], src.elems[i][2])
<1> DEFINE n == Len(src.elems)
           X == {d \in Dicts : InRoom(d)}
           Is(f) == f = [i \in 0 .. n |->
                           IF i = 0 THEN dst
                           ELSE IF src.elems[i] = Null THEN f[i - 1]
                           ELSE Add(f[i - 1], src.elems[i][1], src.elems[i][2])]
           F == CHOOSE f : Is(f)
           step == [a \in (1 .. n) \X X |->
                      IF src.elems[a[1]] = Null THEN a[2]
                      ELSE Add(a[2], src.elems[a[1]][1], src.elems[a[1]][2])]
<1>1. n \in Nat /\ \A i \in 1 .. n : src.elems[i] = Null \/ src.elems[i] \in Pairs
  BY DictProps
<1>2. DupFromDict(dst, src) = F[n]  BY DEF DupFromDict
<1> HIDE DEF n
<1>3. dst \in X  OBVIOUS
<1>4. step \in [(1 .. n) \X X -> X]
  <2>1. \A d \in X, e \in Pairs : Add(d, e[1], e[2]) \in X
    <3> SUFFICES ASSUME NEW d \in X, NEW e \in Pairs PROVE Add(d, e[1], e[2]) \in X
      OBVIOUS
    <3>1. d \in Dicts /\ InRoom(d) /\ e[1] \in Keys /\ e[2] \in Values  BY DEF Pairs
    <3> QED BY <3>1, AddProps
  <2> HIDE DEF X
  <2> QED BY <1>1, <2>1
<1> HIDE DEF X
<1>5. \A i \in 1 .. n, d \in X :
        step[<<i, d>>] = IF src.elems[i] = Null THEN d
                         ELSE Add(d, src.elems[i][1], src.elems[i][2])
  OBVIOUS
<1> HIDE DEF step
<1>6. PICK f \in [0 .. n -> X] : f[0] = dst /\ \A i \in 1 .. n : f[i] = step[<<i, f[i - 1]>>]
  BY <1>1, <1>3, <1>4, LoopRuns
<1>7. Is(f)
  <2>1. ASSUME NEW i \in 0 .. n, i # 0
        PROVE  f[i] = IF src.elems[i] = Null THEN f[i - 1]
                      ELSE Add(f[i - 1], src.elems[i][1], src.elems[i][2])
    <3>1. i \in 1 .. n /\ i - 1 \in 0 .. n  BY <1>1, <2>1
    <3>2. f[i - 1] \in X /\ f[i] = step[<<i, f[i - 1]>>]  BY <1>6, <3>1
    <3> QED BY <1>5, <3>1, <3>2
  <2> QED BY <1>6, <2>1
<1>8. Is(F)
  <2> HIDE DEF Is
  <2> QED BY <1>7
<1> HIDE DEF F
<1>9. /\ DOMAIN F = 0 .. n /\ F[0] = dst
      /\ \A i \in 1 .. n : F[i] = IF src.elems[i] = Null THEN F[i - 1]
                                  ELSE Add(F[i - 1], src.elems[i][1], src.elems[i][2])
  BY <1>1, <1>8
<1>10. \A i \in 1 .. n : F[i - 1] \in X => F[i] = step[<<i, F[i - 1]>>]
  BY <1>5, <1>9
<1>11. \A i \in 0 .. n : F[i] \in X
  BY <1>1, <1>3, <1>4, <1>9, <1>10, LoopIs
<1>12. F \in [0 .. n -> X]
  <2>1. F = [i \in 0 .. n |-> F[i]]  BY <1>8
  <2> QED BY <1>11, <2>1
<1> QED BY <1>2, <1>9, <1>12 DEF n, X

\* A dictionary without holes has the elements it was given.
LEMMA AllLive ==
    ASSUME NEW d \in Dicts, Live(d) = 1 .. Len(d.elems)
    PROVE  AllElements(d) = d.elems
<1> DEFINE n == Len(d.elems)
<1>1. n \in Nat /\ d.elems \in Seq(Pairs \union {Null})
      /\ \A i \in 1 .. n : d.elems[i] # Null /\ d.elems[i] \in Pairs
  <2>1. \A i \in 1 .. n : d.elems[i] # Null  BY DEF Live
  <2> QED BY <2>1, DictProps
<1> HIDE DEF n
<1>2. PICK F \in [0 .. n -> Seq(Pairs)] :
        /\ F[0] = <<>> /\ AllElements(d) = F[n]
        /\ \A i \in 1 .. n : F[i] = IF d.elems[i] = Null THEN F[i - 1] ELSE Append(F[i - 1], d.elems[i])
  BY ElementsProps DEF n
<1> DEFINE S == {i \in 0 .. n : Len(F[i]) = i /\ \A k \in 1 .. i : F[i][k] = d.elems[k]}
<1>3. 0 \in S
  <2>1. Len(F[0]) = 0  BY <1>2
  <2> QED BY <1>1, <2>1
<1>4. ASSUME NEW i \in 1 .. n, i - 1 \in S PROVE i \in S
  <2>1. F[i] = Append(F[i - 1], d.elems[i])  BY <1>1, <1>2
  <2>2. F[i - 1] \in Seq(Pairs) /\ d.elems[i] \in Pairs /\ Len(F[i - 1]) = i - 1  BY <1>1, <1>4
  <2>3. /\ Len(F[i]) = (i - 1) + 1 /\ F[i][(i - 1) + 1] = d.elems[i]
        /\ \A k \in 1 .. i - 1 : F[i][k] = F[i - 1][k]
    BY <2>1, <2>2, AppendIs
  <2>4. ASSUME NEW k \in 1 .. i PROVE F[i][k] = d.elems[k]
    <3>1. CASE k = i  BY <2>3, <3>1
    <3>2. CASE k # i
      <4>1. k \in 1 .. i - 1  BY <3>2
      <4> QED BY <1>4, <2>3, <4>1
    <3> QED BY <3>1, <3>2
  <2> QED BY <2>3, <2>4
<1> HIDE DEF S
<1>5. \A i \in 0 .. n : i \in S  BY <1>1, <1>3, <1>4, EachTurn
<1>6. Len(F[n]) = n /\ \A k \in 1 .. n : F[n][k] = d.elems[k]  BY <1>1, <1>5 DEF S
<1>7. F[n] \in Seq(Pairs \union {Null})
  <2>1. F[n] \in Seq(Pairs)  BY <1>1
  <2> QED BY <2>1
<1>8. F[n] = d.elems  BY <1>1, <1>6, <1>7, SameSequence DEF n
<1> QED BY <1>2, <1>8

\* Such a dictionary gets what is in another one behind its own elements.
LEMMA DupElements ==
    ASSUME NEW dst \in Dicts, InRoom(dst), Live(dst) = 1 .. Len(dst.elems), NEW src \in Dicts
    PROVE  LET e == DupFromDict(dst, src)
           IN  /\ e \in Dicts /\ InRoom(e) /\ Live(e) = 1 .. Len(e.elems)
               /\ e.elems = dst.elems \o AllElements(src) /\ AllElements(src) \in Seq(Pairs)
<1> DEFINE n == Len(src.elems)
           X == {d \in Dicts : InRoom(d)}
<1>1. n \in Nat /\ \A i \in 1 .. n : src.elems[i] = Null \/ src.elems[i] \in Pairs
  BY DictProps
<1>2. PICK A \in [0 .. n -> Seq(Pairs)] :
        /\ A[0] = <<>> /\ AllElements(src) = A[n]
        /\ \A i \in 1 .. n :
             A[i] = IF src.elems[i] = Null THEN A[i - 1] ELSE Append(A[i - 1], src.elems[i])
  BY ElementsProps
<1>3. PICK F \in [0 .. n -> X] :
        /\ F[0] = dst /\ DupFromDict(dst, src) = F[n]
        /\ \A i \in 1 .. n : F[i] = IF src.elems[i] = Null THEN F[i - 1]
                                    ELSE Add(F[i - 1], src.elems[i][1], src.elems[i][2])
  BY DupProps
<1> HIDE DEF n
<1> DEFINE S == {i \in 0 .. n : /\ Live(F[i]) = 1 .. Len(F[i].elems)
                                /\ F[i].elems = Joined(dst.elems, A[i])}
<1>4. 0 \in S
  <2>1. dst.elems \in Seq(Pairs \union {Null})  BY DictProps
  <2>2. Joined(dst.elems, <<>>) = dst.elems  BY <2>1 DEF Joined
  <2>3. F[0].elems = Joined(dst.elems, A[0])  BY <1>2, <1>3, <2>2, Zenon
  <2>4. Live(F[0]) = 1 .. Len(F[0].elems)  BY <1>3, Zenon
  <2>5. 0 \in 0 .. n  BY <1>1
  <2> QED BY <2>3, <2>4, <2>5, Zenon
<1>5. ASSUME NEW i \in 1 .. n, i - 1 \in S PROVE i \in S
  <2>0. /\ i - 1 \in 0 .. n /\ i \in 0 .. n
        /\ Live(F[i - 1]) = 1 .. Len(F[i - 1].elems)
        /\ F[i - 1].elems = Joined(dst.elems, A[i - 1])
    <3>1. i - 1 \in 0 .. n /\ i \in 0 .. n  BY <1>1
    <3>2. /\ Live(F[i - 1]) = 1 .. Len(F[i - 1].elems)
          /\ F[i - 1].elems = Joined(dst.elems, A[i - 1])
      BY <1>5, Zenon
    <3> QED BY <3>1, <3>2
  <2>1. CASE src.elems[i] = Null
    <3>1. F[i] = F[i - 1] /\ A[i] = A[i - 1]  BY <1>2, <1>3, <2>1, Zenon
    <3> QED BY <2>0, <3>1, Zenon
  <2>2. CASE src.elems[i] # Null
    <3> DEFINE d == F[i - 1]
               e == Add(d, src.elems[i][1], src.elems[i][2])
               p == src.elems[i]
    <3>2. d \in Dicts /\ InRoom(d) /\ Live(d) = 1 .. Len(d.elems)
          /\ d.elems = Joined(dst.elems, A[i - 1])
      BY <2>0
    <3>3. p \in Pairs /\ p[1] \in Keys /\ p[2] \in Values /\ p = <<p[1], p[2]>>
      <4>1. p \in Pairs  BY <1>1, <2>2, Zenon
      <4> HIDE DEF p
      <4> QED BY <4>1 DEF Pairs
    <3>4. F[i] = e /\ A[i] = Append(A[i - 1], p)  BY <1>2, <1>3, <2>2, Zenon
    <3>10. e = Add(d, p[1], p[2])  OBVIOUS
    <3> HIDE DEF d, p, e
    <3>5. e.elems = Append(d.elems, p)
          /\ \E j \in 1 .. Len(e.elems) : Live(e) = Live(d) \union {j} /\ j \notin Live(d)
      <4>1. LET f == Add(d, p[1], p[2])
            IN  /\ \E j \in 1 .. Len(f.elems) : Live(f) = Live(d) \union {j} /\ j \notin Live(d)
                /\ Live(d) = 1 .. Len(d.elems) => f.elems = Append(d.elems, <<p[1], p[2]>>)
        <5>1. ASSUME NEW k \in Keys, NEW v \in Values
              PROVE  LET f == Add(d, k, v)
                     IN  /\ \E j \in 1 .. Len(f.elems) :
                              Live(f) = Live(d) \union {j} /\ j \notin Live(d)
                         /\ Live(d) = 1 .. Len(d.elems) => f.elems = Append(d.elems, <<k, v>>)
          BY <3>2, AddProps, Zenon
        <5> QED BY <3>3, <5>1, Zenon
      <4> QED BY <3>2, <3>3, <3>10, <4>1
    <3>6. d.elems \in Seq(Pairs \union {Null}) /\ p \in Pairs \union {Null}
      BY <3>2, <3>3, DictProps
    <3>7. Len(e.elems) = Len(d.elems) + 1 /\ Len(d.elems) \in Nat
      BY <3>5, <3>6, AppendIs
    <3>8. Live(e) = 1 .. Len(e.elems)
      <4>1. PICK j \in 1 .. Len(d.elems) + 1 : Live(e) = Live(d) \union {j} /\ j \notin Live(d)
        BY <3>5, <3>7
      <4> DEFINE m == Len(d.elems)
      <4>2. Live(d) = 1 .. m /\ m \in Nat /\ j \in 1 .. m + 1  BY <3>2, <3>7, <4>1
      <4> HIDE DEF m
      <4>3. j = m + 1  BY <4>1, <4>2
      <4>4. (1 .. m) \union {m + 1} = 1 .. m + 1  BY <4>2
      <4> QED BY <3>7, <4>1, <4>2, <4>3, <4>4 DEF m
    <3>9. e.elems = Joined(dst.elems, A[i])
      <4>1. dst.elems \in Seq(Pairs \union {Null})  BY DictProps
      <4>2. A[i - 1] \in Seq(Pairs \union {Null})
        <5>1. A[i - 1] \in Seq(Pairs)  BY <1>2, <2>0
        <5> QED BY <5>1
      <4>3. Append(Joined(dst.elems, A[i - 1]), p) = Joined(dst.elems, Append(A[i - 1], p))
        BY <3>6, <4>1, <4>2, AppendBehind
      <4> QED BY <3>2, <3>4, <3>5, <4>3
    <3> QED BY <2>0, <3>4, <3>8, <3>9, Zenon
  <2> QED BY <2>1, <2>2
<1> HIDE DEF S
<1>6. \A i \in 0 .. n : i \in S  BY <1>1, <1>4, <1>5, EachTurn
<1>7. n \in S /\ F[n] \in X /\ A[n] \in Seq(Pairs)  BY <1>1, <1>6
<1> QED BY <1>2, <1>3, <1>7 DEF S, Joined

\* A dictionary whose keys are keys of Keys, in the order of SetToSeq.
LEMMA SourceProps ==
    ASSUME NEW values \in [Keys -> Values \union {Null}]
    PROVE  Source(values) \in Dicts
<1> DEFINE n == Cardinality(Keys)
           keys == SetToSeq(Keys)
           elems == [i \in 1 .. n |->
                       IF values[keys[i]] = Null THEN Null ELSE <<keys[i], values[keys[i]]>>]
<1>1. n \in Nat  BY DataAssumption, FS_CardinalityType
<1>2. \E f \in [1 .. n -> Keys] : IsInjective(f)
  <2>1. ExistsBijection(1 .. n, Keys)  BY DataAssumption, FS_NatBijection, FS_CardinalityType
  <2>2. PICK f : f \in Bijection(1 .. n, Keys)  BY <2>1 DEF ExistsBijection
  <2> QED BY <2>2 DEF Bijection, Injection, IsInjective
<1>3. keys \in [1 .. n -> Keys]  BY <1>2 DEF SetToSeq
<1> HIDE DEF keys, n
<1>4. \A i \in 1 .. n : elems[i] \in Pairs \union {Null}  BY <1>3 DEF Pairs
<1>5. elems \in Seq(Pairs \union {Null})  BY <1>1, <1>4
<1>6. Source(values) = [elems |-> elems, capacity |-> n]  BY DEF Source, keys, n
<1> HIDE DEF elems
<1> QED BY <1>1, <1>5, <1>6 DEF Dicts

\* What a dictionary is to its client: keys are there once, with their values.
KeyOf(d, i) == Fold(d.elems[i][1])
Maps(d, c) ==
    /\ \A i, j \in Live(d) : KeyOf(d, i) = KeyOf(d, j) => i = j
    /\ DOMAIN c = {KeyOf(d, i) : i \in Live(d)}
    /\ \A i \in Live(d) : c[KeyOf(d, i)] = d.elems[i][2]

ContainerInv ==
    /\ kind \in {"map", "headers", "string"}
    /\ dict \in Dicts /\ InRoom(dict)
    /\ kind = "map" => Maps(dict, content)
    /\ kind = "headers" => Live(dict) = 1 .. Len(dict.elems) /\ content = dict.elems

\* FindKey finds the element of a key, if there is one.
LEMMA FindProps ==
    ASSUME NEW d \in Dicts, NEW key
    PROVE  /\ Matches(d, key) = {i \in Live(d) : KeyOf(d, i) = Fold(key)}
           /\ Matches(d, key) = {} => ValueForKey(d, key) = Null
           /\ Matches(d, key) # {} => /\ FindKey(d, key) \in Matches(d, key)
                                      /\ ValueForKey(d, key) = d.elems[FindKey(d, key)][2]
                                      /\ ValueForKey(d, key) # Null
<1>1. Matches(d, key) = {i \in Live(d) : KeyOf(d, i) = Fold(key)}
  BY DEF Matches, Same, KeyOf
<1>2. Matches(d, key) \subseteq Nat /\ \A i \in Matches(d, key) : d.elems[i][2] \in Values
  <2>1. \A i \in Live(d) : i \in 1 .. Len(d.elems) /\ d.elems[i] \in Pairs /\ Len(d.elems) \in Nat
    BY DictProps
  <2> QED BY <1>1, <2>1 DEF Pairs
<1>3. Matches(d, key) # {} => FindKey(d, key) \in Matches(d, key)
  BY <1>2, MinProps DEF FindKey
<1> QED BY <1>1, <1>2, <1>3, DataAssumption DEF ValueForKey

\* A client that looks before it adds puts a key in once.
LEMMA PutKeeps ==
    ASSUME ContainerInv, NEW key \in Keys, NEW value \in Values, Put(key, value)
    PROVE  ContainerInv'
<1> DEFINE e == Add(dict, key, value)
<1>1. /\ kind = "map" /\ kind' = "map" /\ dict' = e /\ dict \in Dicts /\ InRoom(dict)
      /\ Maps(dict, content)
      /\ content' = [k \in DOMAIN content \union {Fold(key)} |->
                       IF k = Fold(key) THEN value ELSE content[k]]
  BY DEF ContainerInv, Put
<1>2. \A i \in Live(dict) : KeyOf(dict, i) # Fold(key)
  <2>1. Matches(dict, key) = {}  BY <1>1, FindProps DEF Put
  <2> QED BY <1>1, <2>1, FindProps
<1>3. /\ e \in Dicts /\ InRoom(e)
      /\ \E j \in 1 .. Len(e.elems) :
           /\ j \notin Live(dict) /\ Live(e) = Live(dict) \union {j}
           /\ e.elems[j] = <<key, value>>
           /\ \A i \in Live(dict) : e.elems[i] = dict.elems[i]
  BY <1>1, AddProps
<1> HIDE DEF e
<1>4. PICK j : /\ j \notin Live(dict) /\ Live(e) = Live(dict) \union {j}
               /\ e.elems[j] = <<key, value>>
               /\ \A i \in Live(dict) : e.elems[i] = dict.elems[i]
  BY <1>3
<1>5. KeyOf(e, j) = Fold(key) /\ e.elems[j][2] = value  BY <1>4 DEF KeyOf
<1>6. \A i \in Live(dict) : KeyOf(e, i) = KeyOf(dict, i)  BY <1>4 DEF KeyOf
<1>7. Maps(e, content')
  <2>1. \A i, k \in Live(e) : KeyOf(e, i) = KeyOf(e, k) => i = k
    BY <1>1, <1>2, <1>4, <1>5, <1>6 DEF Maps
  <2>2. DOMAIN content' = {KeyOf(e, i) : i \in Live(e)}
    BY <1>1, <1>4, <1>5, <1>6 DEF Maps
  <2>3. \A i \in Live(e) : content'[KeyOf(e, i)] = e.elems[i][2]
    BY <1>1, <1>2, <1>4, <1>5, <1>6 DEF Maps
  <2> QED BY <2>1, <2>2, <2>3 DEF Maps
<1> QED BY <1>1, <1>3, <1>7 DEF ContainerInv

\* What is removed leaves a hole.
LEMMA TakeOutKeeps ==
    ASSUME ContainerInv, NEW key \in Keys, TakeOut(key)
    PROVE  ContainerInv'
<1> DEFINE e == RemoveKey(dict, key)
           c == [k \in DOMAIN content \ {Fold(key)} |-> content[k]]
<1>1. /\ kind = "map" /\ kind' = "map" /\ dict' = e /\ dict \in Dicts /\ InRoom(dict)
      /\ Maps(dict, content) /\ content' = c
  BY DEF ContainerInv, TakeOut
<1>2. Matches(dict, key) = {i \in Live(dict) : KeyOf(dict, i) = Fold(key)}
  BY <1>1, FindProps
<1>3. CASE Matches(dict, key) = {}
  <2>1. e = dict  BY <1>3 DEF RemoveKey
  <2>2. Fold(key) \notin DOMAIN content  BY <1>1, <1>2, <1>3 DEF Maps
  <2>3. Maps(dict, c)  BY <1>1, <2>2 DEF Maps
  <2> QED BY <1>1, <2>1, <2>3 DEF ContainerInv
<1>4. CASE Matches(dict, key) # {}
  <2> DEFINE j == FindKey(dict, key)
             n == Len(dict.elems)
  <2>1. j \in Live(dict) /\ KeyOf(dict, j) = Fold(key)  BY <1>1, <1>2, <1>4, FindProps
  <2>2. e = [dict EXCEPT !.elems[j] = Null]  BY <1>4 DEF RemoveKey
  <2> HIDE DEF j
  <2>3. /\ dict = [elems |-> dict.elems, capacity |-> dict.capacity]
        /\ dict.elems \in Seq(Pairs \union {Null}) /\ dict.capacity \in Nat
        /\ n \in Nat /\ DOMAIN dict.elems = 1 .. n /\ Live(dict) \subseteq 1 .. n
    BY <1>1, DictProps
  <2> DEFINE s == [dict.elems EXCEPT ![j] = Null]
  <2>4. e = [elems |-> s, capacity |-> dict.capacity]  BY <2>2, <2>3
  <2>5. /\ s \in Seq(Pairs \union {Null}) /\ Len(s) = n /\ DOMAIN s = 1 .. n
        /\ s[j] = Null /\ \A i \in 1 .. n : i # j => s[i] = dict.elems[i]
    BY <2>1, <2>3
  <2> HIDE DEF e, s, n, c
  <2>6. e.elems = s /\ e.capacity = dict.capacity  BY <2>4
  <2>7. e \in Dicts /\ InRoom(e)  BY <1>1, <2>3, <2>4, <2>5, <2>6 DEF Dicts, InRoom, n
  <2>8. Live(e) = Live(dict) \ {j}  BY <2>3, <2>5, <2>6 DEF Live
  <2>9. \A i \in Live(e) : i \in Live(dict) /\ i # j /\ e.elems[i] = dict.elems[i]
    BY <2>3, <2>5, <2>6, <2>8
  <2>10. \A i \in Live(e) : KeyOf(e, i) = KeyOf(dict, i)  BY <2>9 DEF KeyOf
  <2>11. \A i \in Live(dict) : i # j => KeyOf(dict, i) # Fold(key)
    BY <1>1, <2>1 DEF Maps
  <2>12. Maps(e, c)
    <3>1. \A i, k \in Live(e) : KeyOf(e, i) = KeyOf(e, k) => i = k
      BY <1>1, <2>9, <2>10 DEF Maps
    <3>2. DOMAIN c = DOMAIN content \ {Fold(key)}  BY DEF c
    <3>3. DOMAIN c = {KeyOf(e, i) : i \in Live(e)}
      BY <1>1, <2>1, <2>8, <2>10, <2>11, <3>2 DEF Maps
    <3>4. \A i \in Live(e) : c[KeyOf(e, i)] = content[KeyOf(e, i)]  BY <3>3 DEF c
    <3>5. \A i \in Live(e) : c[KeyOf(e, i)] = e.elems[i][2]
      BY <1>1, <2>9, <2>10, <3>4 DEF Maps
    <3> QED BY <3>1, <3>3, <3>5 DEF Maps
  <2> QED BY <1>1, <2>7, <2>12 DEF ContainerInv
<1> QED BY <1>3, <1>4

\* Headers leave no hole.
LEMMA HeadersKeep ==
    ASSUME ContainerInv, PutHeaders \/ \E key \in Keys, value \in Values : PutHeader(key, value)
    PROVE  ContainerInv'
<1>0. kind = "headers" /\ kind' = "headers"  BY DEF PutHeaders, PutHeader
<1>1. /\ dict \in Dicts /\ InRoom(dict)
      /\ Live(dict) = 1 .. Len(dict.elems) /\ content = dict.elems
  BY <1>0 DEF ContainerInv
<1>2. CASE PutHeaders
  <2>1. PICK values \in [Keys -> Values \union {Null}] :
          /\ dict' = DupFromDict(dict, Source(values))
          /\ content' = content \o AllElements(Source(values))
    BY <1>2 DEF PutHeaders
  <2>2. Source(values) \in Dicts  BY SourceProps
  <2> DEFINE src == Source(values)
             e == DupFromDict(dict, src)
  <2> HIDE DEF src
  <2>3. /\ e \in Dicts /\ InRoom(e) /\ Live(e) = 1 .. Len(e.elems)
        /\ e.elems = dict.elems \o AllElements(src)
    BY <1>1, <2>2, DupElements DEF src
  <2> HIDE DEF e
  <2>4. dict' = e /\ content' = e.elems  BY <1>1, <2>1, <2>3 DEF e, src
  <2> QED BY <1>0, <2>3, <2>4 DEF ContainerInv
<1>3. ASSUME NEW key \in Keys, NEW value \in Values, PutHeader(key, value)
      PROVE  ContainerInv'
  <2> DEFINE e == Add(dict, key, value)
             p == <<key, value>>
  <2>1. dict' = e /\ content' = Append(content, p)  BY <1>3 DEF PutHeader
  <2>2. /\ e \in Dicts /\ InRoom(e) /\ e.elems = Append(dict.elems, p)
        /\ \E j \in 1 .. Len(e.elems) : j \notin Live(dict) /\ Live(e) = Live(dict) \union {j}
    BY <1>1, AddProps
  <2>3. p \in Pairs /\ dict.elems \in Seq(Pairs \union {Null}) /\ Len(dict.elems) \in Nat
    BY <1>1, DictProps DEF Pairs
  <2> HIDE DEF e, p
  <2>4. Len(e.elems) = Len(dict.elems) + 1  BY <2>2, <2>3, AppendIs
  <2>5. Live(e) = 1 .. Len(e.elems)
    <3> DEFINE m == Len(dict.elems)
    <3>1. PICK j \in 1 .. m + 1 : j \notin Live(dict) /\ Live(e) = Live(dict) \union {j}
      BY <2>2, <2>4
    <3>2. Live(dict) = 1 .. m /\ m \in Nat  BY <1>1, <2>3
    <3> HIDE DEF m
    <3>3. j = m + 1 /\ (1 .. m) \union {m + 1} = 1 .. m + 1  BY <3>1, <3>2
    <3> QED BY <2>4, <3>1, <3>2, <3>3 DEF m
  <2> QED BY <1>0, <1>1, <2>1, <2>2, <2>5 DEF ContainerInv
<1> QED BY <1>2, <1>3

\* No operation on a container breaks its dictionary.
LEMMA ContainerInvNext == ContainerInv /\ [DataNext]_dataVars => ContainerInv'
<1> SUFFICES ASSUME ContainerInv, [DataNext]_dataVars PROVE ContainerInv'
  OBVIOUS
<1>1. CASE \E key \in Keys, value \in Values : Put(key, value)  BY <1>1, PutKeeps
<1>2. CASE \E key \in Keys : TakeOut(key)  BY <1>2, TakeOutKeeps
<1>3. CASE PutHeaders \/ \E key \in Keys, value \in Values : PutHeader(key, value)
  BY <1>3, HeadersKeep
<1>4. CASE \/ ReplaceOne \/ \E text \in Texts : PutText(text)
           \/ \E search, value \in Texts : BeginReplace(search, value)
  <2>1. kind = "string" /\ kind' = "string" /\ dict' = dict
    BY <1>4 DEF ReplaceOne, PutText, BeginReplace
  <2> QED BY <2>1 DEF ContainerInv
<1>5. CASE UNCHANGED dataVars
  BY <1>5 DEF dataVars, ContainerInv, Maps, KeyOf, Live, InRoom
<1> QED BY <1>1, <1>2, <1>3, <1>4, <1>5 DEF DataNext

\* GSWDict.c: a dictionary is a map to a client that looks a key up before it
\* adds it, whatever is removed, filled again or grown on the way, and headers
\* are all there in their order.
THEOREM DictionaryIsMap == DataSpec => []DictIsMap
<1>1. DataInit => ContainerInv
  <2> SUFFICES ASSUME DataInit PROVE ContainerInv
    OBVIOUS
  <2>1. PICK c \in Nat : dict = [elems |-> <<>>, capacity |-> c]
    <3>1. NewDict(0) = [elems |-> <<>>, capacity |-> Larger(0, Larger(MinCapacity, 0))]
      BY DEF NewDict, SetCapacity
    <3>2. Larger(0, Larger(MinCapacity, 0)) \in Nat  BY DataAssumption DEF Larger
    <3> QED BY <3>1, <3>2 DEF DataInit
  <2>2. Len(dict.elems) = 0 /\ DOMAIN dict.elems = {} /\ dict.elems = <<>>  BY <2>1
  <2>3. Live(dict) = {}  BY <2>2 DEF Live
  <2>4. dict \in Dicts /\ InRoom(dict)  BY <2>1, <2>2 DEF Dicts, InRoom
  <2>5. content = <<>> /\ DOMAIN content = {}  BY DEF DataInit
  <2>6. Maps(dict, content)  BY <2>3, <2>5 DEF Maps
  <2> QED BY <2>2, <2>3, <2>4, <2>5, <2>6 DEF ContainerInv, DataInit
<1>2. ContainerInv => DictIsMap
  <2> SUFFICES ASSUME ContainerInv PROVE DictIsMap
    OBVIOUS
  <2>1. ASSUME kind = "map", NEW key \in Keys
        PROVE  ValueForKey(dict, key) =
                 IF Fold(key) \in DOMAIN content THEN content[Fold(key)] ELSE Null
    <3>1. dict \in Dicts /\ Maps(dict, content)  BY <2>1 DEF ContainerInv
    <3>2. Matches(dict, key) = {i \in Live(dict) : KeyOf(dict, i) = Fold(key)}
      BY <3>1, FindProps
    <3>3. CASE Matches(dict, key) = {}
      <4>1. Fold(key) \notin DOMAIN content  BY <3>1, <3>2, <3>3 DEF Maps
      <4> QED BY <3>1, <3>3, <4>1, FindProps
    <3>4. CASE Matches(dict, key) # {}
      <4>1. FindKey(dict, key) \in Live(dict) /\ KeyOf(dict, FindKey(dict, key)) = Fold(key)
            /\ ValueForKey(dict, key) = dict.elems[FindKey(dict, key)][2]
        BY <3>1, <3>2, <3>4, FindProps
      <4> QED BY <3>1, <4>1 DEF Maps
    <3> QED BY <3>3, <3>4
  <2>2. ASSUME kind = "map" PROVE Count(dict) = Cardinality(DOMAIN content)
    <3>1. dict \in Dicts /\ Maps(dict, content)  BY <2>2 DEF ContainerInv
    <3>2. IsFiniteSet(Live(dict))
      <4>1. Live(dict) \subseteq 1 .. Len(dict.elems) /\ Len(dict.elems) \in Nat
        BY <3>1, DictProps
      <4>2. IsFiniteSet(1 .. Len(dict.elems))  BY <4>1, FS_Interval
      <4> QED BY <4>1, <4>2, FS_Subset
    <3> DEFINE f == [i \in Live(dict) |-> KeyOf(dict, i)]
    <3>3. f \in Bijection(Live(dict), DOMAIN content)
      <4>1. f \in [Live(dict) -> DOMAIN content]  BY <3>1 DEF Maps
      <4>2. \A i, j \in Live(dict) : f[i] = f[j] => i = j  BY <3>1 DEF Maps
      <4>3. \A k \in DOMAIN content : \E i \in Live(dict) : f[i] = k  BY <3>1 DEF Maps
      <4> QED BY <4>1, <4>2, <4>3 DEF Bijection, Injection, Surjection, IsInjective
    <3>4. ExistsBijection(Live(dict), DOMAIN content)  BY <3>3 DEF ExistsBijection
    <3> QED BY <3>2, <3>4, FS_Bijection DEF Count
  <2>3. kind = "headers" => AllElements(dict) = content
    BY AllLive DEF ContainerInv
  <2>4. Len(dict.elems) <= dict.capacity  BY DEF ContainerInv, InRoom
  <2> QED BY <2>1, <2>2, <2>3, <2>4 DEF DictIsMap
<1> QED BY <1>1, <1>2, ContainerInvNext, PTL DEF DataSpec

(***************************************************************************)
(* The string (AdaptorData).                                               *)
(***************************************************************************)
\* What texts are made of.
Letters == UNION {ToSet(text) : text \in Texts}
Strings == [text : Seq(Letters), size : Nat, search : Seq(Letters), value : Seq(Letters),
            at : Nat]

\* search stands at the place j of text.
MarkAt(text, search, j) ==
    j + Len(search) - 1 <= Len(text) /\ \A k \in 1 .. Len(search) : text[j + k - 1] = search[k]

\* strstr finds the first place.
LEMMA StrStrProps ==
    ASSUME NEW S, NEW text \in Seq(S), NEW search \in Seq(S), NEW i \in Nat \ {0}
    PROVE  LET at == StrStr(text, search, i)
           IN  \/ at = 0 /\ \A j \in i .. Len(text) + 1 - Len(search) : ~MarkAt(text, search, j)
               \/ /\ at \in i .. Len(text) + 1 - Len(search) /\ MarkAt(text, search, at)
                  /\ \A j \in i .. at - 1 : ~MarkAt(text, search, j)
<1> DEFINE n == Len(text)
           m == Len(search)
           P == {j \in i .. n - m + 1 : SubSeq(text, j, j + m - 1) = search}
<1>1. n \in Nat /\ m \in Nat /\ n - m + 1 = n + 1 - m  OBVIOUS
<1>2. ASSUME NEW j \in i .. n - m + 1
      PROVE  SubSeq(text, j, j + m - 1) = search <=> MarkAt(text, search, j)
  <2>1. j \in Nat \ {0} /\ j + m - 1 \in Nat /\ j <= (j + m - 1) + 1 /\ j + m - 1 <= n
        /\ (j + m - 1) - j + 1 = m
    BY <1>1
  <2> DEFINE c == Cut(text, j, j + m - 1)
             e == j + m - 1
  <2> HIDE DEF n, m
  <2>2. /\ c \in Seq(S) /\ Len(c) = m /\ \A k \in 1 .. m : c[k] = text[j + k - 1]
    <3> HIDE DEF e
    <3>1. e \in Nat /\ j <= e + 1 /\ e <= Len(text) /\ e - j + 1 = m  BY <2>1 DEF e, n
    <3>2. /\ Cut(text, j, e) \in Seq(S) /\ Len(Cut(text, j, e)) = e - j + 1
          /\ \A k \in 1 .. e - j + 1 : Cut(text, j, e)[k] = text[j + k - 1]
      <4>1. j \in Nat \ {0} /\ e \in Nat /\ j <= e + 1 /\ e <= Len(text)  BY <2>1, <3>1
      <4>2. Cut(text, j, e) \in Seq(S)  BY <4>1, CutProps
      <4>3. Len(Cut(text, j, e)) = e - j + 1  BY <4>1, CutProps
      <4>4. \A k \in 1 .. e - j + 1 : Cut(text, j, e)[k] = text[j + k - 1]
        BY <4>1, CutProps
      <4> QED BY <4>2, <4>3, <4>4
    <3>3. c = Cut(text, j, e)  BY DEF e
    <3> QED BY <3>1, <3>2, <3>3
  <2>3. c = SubSeq(text, j, j + m - 1)  BY DEF Cut
  <2> HIDE DEF c
  <2>4. c = search => MarkAt(text, search, j)
    BY <2>1, <2>2 DEF MarkAt, m, n
  <2>5. MarkAt(text, search, j) => c = search
    <3> SUFFICES ASSUME MarkAt(text, search, j) PROVE c = search
      OBVIOUS
    <3>1. Len(c) = Len(search) /\ \A k \in 1 .. Len(c) : c[k] = search[k]
      BY <2>2 DEF MarkAt, m
    <3> QED BY <2>2, <3>1, SameSequence
  <2> QED BY <2>3, <2>4, <2>5
<1> DEFINE at == StrStr(text, search, i)
<1>3. at = IF P = {} THEN 0 ELSE Min(P)  BY DEF StrStr
<1>4. P \subseteq Nat /\ P \subseteq i .. n - m + 1  BY <1>1
<1>5. \A j \in i .. n - m + 1 : j \in P <=> MarkAt(text, search, j)  BY <1>2
<1> HIDE DEF P, at
<1>6. CASE P = {}  BY <1>1, <1>3, <1>5, <1>6 DEF at
<1>7. CASE P # {}
  <2>1. at \in P /\ \A y \in P : at <= y  BY <1>3, <1>4, <1>7, MinProps
  <2>2. \A j \in i .. at - 1 : j \in i .. n - m + 1 /\ ~(at <= j)  BY <1>1, <1>4, <2>1
  <2> QED BY <1>1, <1>4, <1>5, <2>1, <2>2 DEF at
<1> QED BY <1>6, <1>7

\* What ReplacedFrom(text, search, value) is at the place i, when it is f behind
\* the next mark.
FromHere(text, search, value, f, i) ==
    LET at == StrStr(text, search, i)
    IN  IF at = 0 THEN Cut(text, i, Len(text))
        ELSE Joined(Joined(Cut(text, i, at - 1), value), f[at + Len(search)])

\* The next mark is within the text, and what is in front of it too.
LEMMA FromHereProps ==
    ASSUME NEW S, NEW text \in Seq(S), NEW search \in Seq(S), NEW value \in Seq(S),
           search # <<>>, NEW i \in 1 .. Len(text) + 1
    PROVE  LET at == StrStr(text, search, i)
           IN  /\ at = 0 => Cut(text, i, Len(text)) \in Seq(S)
               /\ at # 0 => /\ at \in i .. Len(text) /\ at + Len(search) \in i + 1 .. Len(text) + 1
                            /\ Cut(text, i, at - 1) \in Seq(S)
                            /\ Joined(Cut(text, i, at - 1), value) \in Seq(S)
<1> DEFINE at == StrStr(text, search, i)
           n == Len(text)
           m == Len(search)
<1>1. n \in Nat /\ m \in Nat /\ m > 0 /\ i \in Nat \ {0}  OBVIOUS
<1>2. at = 0 \/ at \in i .. n + 1 - m  BY <1>1, StrStrProps
<1> HIDE DEF at
<1>3. CASE at = 0
  <2>1. n \in Nat /\ i <= n + 1 /\ n <= Len(text)  BY <1>1
  <2> HIDE DEF n
  <2>2. Cut(text, i, n) \in Seq(S)  BY <1>1, <2>1, CutProps
  <2> QED BY <1>3, <2>2 DEF at, n
<1>4. CASE at # 0
  <2> DEFINE e == at - 1
  <2>1. /\ at \in i .. n /\ at + m \in i + 1 .. n + 1
        /\ e \in Nat /\ i <= e + 1 /\ e <= Len(text)
    BY <1>1, <1>2, <1>4
  <2> HIDE DEF e, n, m
  <2>2. Cut(text, i, e) \in Seq(S)  BY <1>1, <2>1, CutProps
  <2>3. Joined(Cut(text, i, e), value) \in Seq(S)  BY <2>2, JoinedProps
  <2> QED BY <1>4, <2>1, <2>2, <2>3 DEF at, n, m, e
<1> QED BY <1>3, <1>4

\* ReplacedFrom is a function, and what it is at each place.
LEMMA FromProps ==
    ASSUME NEW S, NEW text \in Seq(S), NEW search \in Seq(S), NEW value \in Seq(S),
           search # <<>>
    PROVE  LET R == ReplacedFrom(text, search, value)
           IN  \A i \in 1 .. Len(text) + 1 :
                 R[i] \in Seq(S) /\ R[i] = FromHere(text, search, value, R, i)
<1> DEFINE n == Len(text)
           m == Len(search)
           F == [1 .. n + 1 -> Seq(S)]
           at(i) == StrStr(text, search, i)
           Here(f, i) == FromHere(text, search, value, f, i)
           Is(f) == f = [i \in 1 .. n + 1 |->
                           IF at(i) = 0 THEN SubSeq(text, i, Len(text))
                           ELSE SubSeq(text, i, at(i) - 1) \o value \o f[at(i) + Len(search)]]
           R == CHOOSE f : Is(f)
<1>1. ReplacedFrom(text, search, value) = R  BY DEF ReplacedFrom
<1>2. n \in Nat  OBVIOUS
<1>3. \A f : Is(f) <=> f = [i \in 1 .. n + 1 |-> Here(f, i)]
  BY DEF FromHere, Cut, Joined
<1>4. \A i \in 1 .. n + 1 : at(i) # 0 => at(i) + m \in i + 1 .. n + 1
  BY FromHereProps
<1>5. ASSUME NEW i \in 1 .. n + 1, NEW f, at(i) # 0 => f[at(i) + m] \in Seq(S)
      PROVE  Here(f, i) \in Seq(S)
  <2>1. CASE at(i) = 0
    <3>1. Cut(text, i, Len(text)) \in Seq(S)  BY <2>1, FromHereProps
    <3> QED BY <2>1, <3>1 DEF FromHere
  <2>2. CASE at(i) # 0
    <3> DEFINE j == Joined(Cut(text, i, at(i) - 1), value)
               g == f[at(i) + m]
    <3>1. j \in Seq(S) /\ g \in Seq(S)  BY <1>5, <2>2, FromHereProps
    <3>2. Here(f, i) = Joined(j, g)  BY <2>2 DEF FromHere
    <3> HIDE DEF j, g, Here
    <3>3. Joined(j, g) \in Seq(S)  BY <3>1, JoinedProps
    <3> QED BY <3>2, <3>3
  <2> QED BY <2>1, <2>2
<1>6. ASSUME NEW f, NEW g, NEW i \in 1 .. n + 1, at(i) # 0 => f[at(i) + m] = g[at(i) + m]
      PROVE  Here(f, i) = Here(g, i)
  BY <1>6 DEF FromHere
<1> HIDE DEF Is, Here, at, n, m
<1> DEFINE T == {k \in 0 .. n + 1 : \E f \in F : \A i \in n + 2 - k .. n + 1 : f[i] = Here(f, i)}
<1>7. 0 \in T
  <2>1. [i \in 1 .. n + 1 |-> value] \in F  OBVIOUS
  <2>2. n + 2 - 0 .. n + 1 = {} /\ 0 \in 0 .. n + 1  BY <1>2
  <2> HIDE DEF F
  <2> QED BY <2>1, <2>2
<1>8. ASSUME NEW k \in 1 .. n + 1, k - 1 \in T PROVE k \in T
  <2>1. PICK f \in F : \A i \in n + 2 - (k - 1) .. n + 1 : f[i] = Here(f, i)
    <3> HIDE DEF F
    <3> QED BY <1>8
  <2> DEFINE j == n + 2 - k
             g == [f EXCEPT ![j] = Here(f, j)]
  <2>2. j \in 1 .. n + 1 /\ n + 2 - (k - 1) = j + 1 /\ k \in 0 .. n + 1 /\ j \in Int
    BY <1>2
  <2> HIDE DEF j
  <2>3. at(j) # 0 => f[at(j) + m] \in Seq(S)
    <3>1. at(j) # 0 => at(j) + m \in 1 .. n + 1  BY <1>2, <1>4, <2>2
    <3> QED BY <3>1
  <2>4. Here(f, j) \in Seq(S)  BY <1>5, <2>2, <2>3
  <2>5. /\ g \in F /\ g[j] = Here(f, j)
        /\ \A i \in 1 .. n + 1 : i # j => g[i] = f[i]
    BY <2>2, <2>4
  <2> HIDE DEF g
  <2>6. ASSUME NEW i \in j .. n + 1 PROVE g[i] = Here(g, i)
    <3>0. i \in 1 .. n + 1  BY <1>2, <2>2
    <3>1. at(i) # 0 => g[at(i) + m] = f[at(i) + m]
      <4>1. at(i) # 0 => at(i) + m \in i + 1 .. n + 1  BY <1>4, <3>0
      <4>2. at(i) # 0 => at(i) + m \in 1 .. n + 1 /\ at(i) + m # j  BY <1>2, <2>2, <4>1
      <4> QED BY <2>5, <4>2
    <3>2. Here(g, i) = Here(f, i)  BY <1>6, <3>0, <3>1
    <3>3. CASE i = j  BY <2>5, <3>2, <3>3
    <3>4. CASE i # j
      <4>1. i \in j + 1 .. n + 1  BY <1>2, <2>2, <3>4
      <4>2. f[i] = Here(f, i)  BY <2>1, <2>2, <4>1
      <4> QED BY <2>5, <3>0, <3>2, <3>4, <4>2
    <3> QED BY <3>3, <3>4
  <2> HIDE DEF F
  <2>7. \E h \in F : \A i \in n + 2 - k .. n + 1 : h[i] = Here(h, i)
    BY <2>5, <2>6 DEF j
  <2> QED BY <2>2, <2>7
<1> HIDE DEF T
<1>9. \A k \in 0 .. n + 1 : k \in T
  <2> DEFINE l == n + 1
  <2>1. l \in Nat /\ \A k \in 1 .. l : k - 1 \in T => k \in T  BY <1>2, <1>8
  <2> HIDE DEF l
  <2>2. \A k \in 0 .. l : k \in T  BY <1>7, <2>1, EachTurn
  <2> QED BY <2>2 DEF l
<1>10. PICK f \in F : \A i \in 1 .. n + 1 : f[i] = Here(f, i)
  <2>1. n + 1 \in T /\ n + 2 - (n + 1) = 1  BY <1>2, <1>9
  <2> HIDE DEF F
  <2> QED BY <2>1 DEF T
<1>11. Is(f)
  <2>1. f = [i \in 1 .. n + 1 |-> f[i]]  OBVIOUS
  <2>2. f = [i \in 1 .. n + 1 |-> Here(f, i)]  BY <1>10, <2>1
  <2> QED BY <1>3, <2>2
<1>12. Is(R)  BY <1>11
<1> HIDE DEF R
<1>13. \A i \in 1 .. n + 1 : R[i] = Here(R, i)
  <2>1. R = [i \in 1 .. n + 1 |-> Here(R, i)]  BY <1>3, <1>12
  <2> QED BY <2>1
<1> DEFINE U == {k \in 0 .. n + 1 : \A i \in n + 2 - k .. n + 1 : R[i] \in Seq(S)}
<1>14. 0 \in U
  <2>1. n + 2 - 0 .. n + 1 = {} /\ 0 \in 0 .. n + 1  BY <1>2
  <2> QED BY <2>1
<1>15. ASSUME NEW k \in 1 .. n + 1, k - 1 \in U PROVE k \in U
  <2> DEFINE j == n + 2 - k
  <2>1. j \in 1 .. n + 1 /\ n + 2 - (k - 1) = j + 1 /\ k \in 0 .. n + 1 /\ j \in Int
    BY <1>2
  <2>2. \A i \in j + 1 .. n + 1 : R[i] \in Seq(S)  BY <1>15, <2>1
  <2> HIDE DEF j
  <2>3. at(j) # 0 => R[at(j) + m] \in Seq(S)  BY <1>4, <2>1, <2>2
  <2>4. R[j] \in Seq(S)  BY <1>5, <1>13, <2>1, <2>3
  <2>5. \A i \in j .. n + 1 : i = j \/ i \in j + 1 .. n + 1  BY <2>1
  <2>6. \A i \in j .. n + 1 : R[i] \in Seq(S)  BY <2>2, <2>4, <2>5
  <2> QED BY <2>1, <2>6 DEF j
<1> HIDE DEF U
<1>16. \A k \in 0 .. n + 1 : k \in U
  <2> DEFINE l == n + 1
  <2>1. l \in Nat /\ \A k \in 1 .. l : k - 1 \in U => k \in U  BY <1>2, <1>15
  <2> HIDE DEF l
  <2>2. \A k \in 0 .. l : k \in U  BY <1>14, <2>1, EachTurn
  <2> QED BY <2>2 DEF l
<1>17. \A i \in 1 .. n + 1 : R[i] \in Seq(S)
  <2>1. n + 1 \in U /\ n + 2 - (n + 1) = 1  BY <1>2, <1>16
  <2> QED BY <2>1 DEF U
<1> QED BY <1>1, <1>13, <1>17 DEF n, Here

\* The text u has at c places further what text has from the place i on.
Shifted(text, u, c, i) ==
    /\ c \in Int /\ Len(u) = Len(text) + c
    /\ i \in 1 .. Len(text) + 1 /\ i + c >= 1
    /\ \A y \in i .. Len(text) : u[y + c] = text[y]

\* A part of both.
LEMMA ShiftedCut ==
    ASSUME NEW S, NEW text \in Seq(S), NEW u \in Seq(S), NEW c, NEW i, NEW e \in Nat,
           Shifted(text, u, c, i), i <= e + 1, e <= Len(text)
    PROVE  Cut(u, i + c, e + c) = Cut(text, i, e)
<1> DEFINE i2 == i + c
           e2 == e + c
           a == Cut(text, i, e)
           b == Cut(u, i2, e2)
<1>1. /\ i \in Nat \ {0} /\ i2 \in Nat \ {0} /\ e2 \in Nat /\ i2 <= e2 + 1 /\ e2 <= Len(u)
      /\ Len(text) \in Nat /\ c \in Int
      /\ e2 - i2 + 1 = e - i + 1
      /\ \A y \in i .. Len(text) : u[y + c] = text[y]
  BY DEF Shifted
<1>2. i2 = i + c  OBVIOUS
<1> HIDE DEF i2, e2
<1>0. /\ i \in Nat \ {0} /\ i2 \in Nat \ {0} /\ e2 \in Nat /\ i2 <= e2 + 1 /\ e2 <= Len(u)
  BY <1>1
<1>3. /\ a \in Seq(S) /\ Len(a) = e - i + 1
      /\ \A k \in 1 .. e - i + 1 : a[k] = text[i + k - 1]
  <2>1. a \in Seq(S) /\ Len(a) = e - i + 1  BY <1>0, CutProps
  <2>2. \A k \in 1 .. e - i + 1 : a[k] = text[i + k - 1]
    BY <1>0, CutProps
  <2> QED BY <2>1, <2>2
<1>4. /\ b \in Seq(S) /\ Len(b) = e2 - i2 + 1
      /\ \A k \in 1 .. e2 - i2 + 1 : b[k] = u[i2 + k - 1]
  <2>1. b \in Seq(S) /\ Len(b) = e2 - i2 + 1  BY <1>0, CutProps
  <2>2. \A k \in 1 .. e2 - i2 + 1 : b[k] = u[i2 + k - 1]
    BY <1>0, CutProps
  <2> QED BY <2>1, <2>2
<1> HIDE DEF a, b
<1>5. ASSUME NEW k \in 1 .. Len(a) PROVE a[k] = b[k]
  <2>1. k \in 1 .. e - i + 1 /\ k \in 1 .. e2 - i2 + 1  BY <1>1, <1>3
  <2> DEFINE y == i + k - 1
  <2>2. y \in i .. Len(text) /\ i2 + k - 1 = y + c  BY <1>1, <1>2, <2>1
  <2>3. a[k] = text[y] /\ b[k] = u[i2 + k - 1]  BY <1>3, <1>4, <2>1
  <2> HIDE DEF y
  <2>4. u[y + c] = text[y]  BY <1>1, <2>2
  <2> QED BY <2>2, <2>3, <2>4
<1>6. Len(a) = Len(b)  BY <1>1, <1>3, <1>4
<1>7. a = b  BY <1>3, <1>4, <1>5, <1>6, SameSequence
<1> QED BY <1>7 DEF a, b, i2, e2

\* strstr finds the same mark in both.
LEMMA ShiftedStrStr ==
    ASSUME NEW S, NEW text \in Seq(S), NEW u \in Seq(S), NEW search \in Seq(S), NEW c, NEW i,
           Shifted(text, u, c, i)
    PROVE  LET a == StrStr(text, search, i)
               b == StrStr(u, search, i + c)
           IN  (a = 0 /\ b = 0) \/ (a # 0 /\ b = a + c)
<1> DEFINE n == Len(text)
           m == Len(search)
           i2 == i + c
           a == StrStr(text, search, i)
           b == StrStr(u, search, i2)
<1>1. /\ n \in Nat /\ m \in Nat /\ c \in Int /\ i \in Nat \ {0} /\ i2 \in Nat \ {0}
      /\ Len(u) = n + c /\ i2 = i + c
      /\ \A y \in i .. n : u[y + c] = text[y]
  BY DEF Shifted
<1>2. ASSUME NEW k \in i .. n + 1 - m
      PROVE  MarkAt(text, search, k) <=> MarkAt(u, search, k + c)
  <2>0. k + m - 1 <= n /\ (k + c) + m - 1 <= Len(u) /\ k \in Int  BY <1>1
  <2>1. ASSUME NEW x \in 1 .. m PROVE u[(k + c) + x - 1] = text[k + x - 1]
    <3>1. k + x - 1 \in i .. n /\ (k + c) + x - 1 = (k + x - 1) + c  BY <1>1, <2>0
    <3> QED BY <1>1, <3>1
  <2> QED BY <2>0, <2>1 DEF MarkAt
<1>3. \/ a = 0 /\ \A j \in i .. n + 1 - m : ~MarkAt(text, search, j)
      \/ /\ a \in i .. n + 1 - m /\ MarkAt(text, search, a)
         /\ \A j \in i .. a - 1 : ~MarkAt(text, search, j)
  BY <1>1, StrStrProps
<1>4. \/ b = 0 /\ \A j \in i2 .. Len(u) + 1 - m : ~MarkAt(u, search, j)
      \/ /\ b \in i2 .. Len(u) + 1 - m /\ MarkAt(u, search, b)
         /\ \A j \in i2 .. b - 1 : ~MarkAt(u, search, j)
  <2> HIDE DEF i2
  <2> QED BY <1>1, StrStrProps
<1> HIDE DEF a, b, i2, n, m
<1>5. ASSUME a # 0 PROVE b = a + c
  <2>1. a \in i .. n + 1 - m /\ MarkAt(text, search, a)  BY <1>3, <1>5
  <2>2. MarkAt(u, search, a + c) /\ a + c \in i2 .. Len(u) + 1 - m  BY <1>1, <1>2, <2>1
  <2>3. b \in i2 .. Len(u) + 1 - m /\ MarkAt(u, search, b)  BY <1>4, <2>2
  <2>4. ~(a + c < b)
    <3>1. a + c < b => a + c \in i2 .. b - 1  BY <1>1, <2>2, <2>3
    <3> QED BY <1>1, <1>4, <2>2, <2>3, <3>1
  <2>5. ~(b < a + c)
    <3>1. SUFFICES ASSUME b < a + c PROVE FALSE  OBVIOUS
    <3> DEFINE d == b - c
    <3>2. d \in i .. a - 1 /\ d \in i .. n + 1 - m /\ d + c = b  BY <1>1, <2>1, <2>3, <3>1
    <3> HIDE DEF d
    <3>3. MarkAt(text, search, d)  BY <1>2, <2>3, <3>2
    <3>4. a # 0 /\ \A j \in i .. a - 1 : ~MarkAt(text, search, j)  BY <1>3, <1>5
    <3> QED BY <3>2, <3>3, <3>4
  <2> QED BY <1>1, <2>1, <2>3, <2>4, <2>5
<1>6. ASSUME a = 0 PROVE b = 0
  <2>1. SUFFICES ASSUME b # 0 PROVE FALSE  OBVIOUS
  <2>2. b \in i2 .. Len(u) + 1 - m /\ MarkAt(u, search, b)  BY <1>4, <2>1
  <2> DEFINE d == b - c
  <2>3. d \in i .. n + 1 - m /\ d + c = b  BY <1>1, <2>2
  <2> HIDE DEF d
  <2>4. MarkAt(text, search, d)  BY <1>2, <2>2, <2>3
  <2>5. 0 \notin i .. n + 1 - m  BY <1>1
  <2> QED BY <1>3, <1>6, <2>3, <2>4, <2>5
<1> QED BY <1>5, <1>6 DEF a, b, i2

\* What stands behind a place is replaced in the same way, whatever stands
\* before it.
LEMMA ShiftedFrom ==
    ASSUME NEW S, NEW text \in Seq(S), NEW u \in Seq(S), NEW search \in Seq(S),
           NEW value \in Seq(S), search # <<>>, NEW c, NEW i, Shifted(text, u, c, i)
    PROVE  ReplacedFrom(text, search, value)[i] = ReplacedFrom(u, search, value)[i + c]
<1> DEFINE n == Len(text)
           m == Len(search)
           r == n + 2 - i
           R == ReplacedFrom(text, search, value)
           Q == ReplacedFrom(u, search, value)
           T == {k \in 0 .. r : \A x \in n + 2 - k .. n + 1 : R[x] = Q[x + c]}
<1>1. /\ n \in Nat /\ c \in Int /\ i \in 1 .. n + 1 /\ i \in Nat \ {0} /\ r \in Nat
      /\ Len(u) = n + c /\ i + c >= 1
  BY DEF Shifted
<1>2. ASSUME NEW x \in i .. n + 1 PROVE Shifted(text, u, c, x)
  BY <1>1 DEF Shifted
<1>3. \A x \in 1 .. n + 1 : R[x] = FromHere(text, search, value, R, x)
  <2> HIDE DEF R
  <2> QED BY FromProps DEF R
<1>4. \A x \in 1 .. Len(u) + 1 : Q[x] = FromHere(u, search, value, Q, x)
  <2> HIDE DEF Q
  <2> QED BY FromProps DEF Q
<1> HIDE DEF R, Q, n, r
<1>5. 0 \in T
  <2>1. n + 2 - 0 .. n + 1 = {} /\ 0 \in 0 .. r  BY <1>1
  <2> QED BY <2>1
<1>6. ASSUME NEW k \in 1 .. r, k - 1 \in T PROVE k \in T
  <2> DEFINE x == n + 2 - k
             y == x + c
  <2>1. /\ x \in i .. n + 1 /\ x \in 1 .. n + 1 /\ n + 2 - (k - 1) = x + 1 /\ k \in 0 .. r
        /\ y \in 1 .. Len(u) + 1 /\ y = x + c
    BY <1>1 DEF r
  <2>2. \A z \in x + 1 .. n + 1 : R[z] = Q[z + c]  BY <1>6, <2>1
  <2> HIDE DEF x, y
  <2> DEFINE a == StrStr(text, search, x)
             b == StrStr(u, search, y)
  <2>3. (a = 0 /\ b = 0) \/ (a # 0 /\ b = a + c)  BY <1>2, <2>1, ShiftedStrStr
  <2>4. R[x] = FromHere(text, search, value, R, x) /\ Q[y] = FromHere(u, search, value, Q, y)
    BY <1>3, <1>4, <2>1
  <2>5. ASSUME a = 0 PROVE R[x] = Q[x + c]
    <3>1. R[x] = Cut(text, x, n) /\ Q[y] = Cut(u, y, Len(u))  BY <2>3, <2>4, <2>5 DEF FromHere, n
    <3>2. n \in Nat /\ x <= n + 1 /\ n <= Len(text) /\ Shifted(text, u, c, x)
      BY <1>1, <1>2, <2>1 DEF n
    <3>3. Cut(u, x + c, n + c) = Cut(text, x, n)  BY <3>2, ShiftedCut
    <3>4. y = x + c /\ Len(u) = n + c  BY <1>1, <2>1
    <3>5. Q[y] = Cut(u, x + c, n + c)  BY <3>1, <3>4, Zenon
    <3> QED BY <3>1, <3>3, <3>4, <3>5, Zenon
  <2>6. ASSUME a # 0 PROVE R[x] = Q[x + c]
    <3>2. a \in x .. n /\ a + m \in x + 1 .. n + 1  BY <2>1, <2>6, FromHereProps DEF n
    <3>1. b = a + c /\ b # 0
      <4> HIDE DEF a, b
      <4>1. a + c # 0  BY <1>1, <2>1, <3>2
      <4> QED BY <2>3, <2>6, <4>1
    <3> HIDE DEF a, b
    <3>3. R[x] = Joined(Joined(Cut(text, x, a - 1), value), R[a + m])
          /\ Q[y] = Joined(Joined(Cut(u, y, b - 1), value), Q[b + m])
      BY <2>4, <2>6, <3>1 DEF FromHere, a, b
    <3> DEFINE e == a - 1
    <3>4. e \in Nat /\ x <= e + 1 /\ e <= Len(text) /\ Shifted(text, u, c, x) /\ e + c = b - 1
      BY <1>1, <1>2, <2>1, <3>1, <3>2 DEF n
    <3>5. Cut(u, x + c, e + c) = Cut(text, x, e)
      <4> HIDE DEF e
      <4> QED BY <3>4, ShiftedCut
    <3>6. R[a + m] = Q[b + m]
      <4>1. b + m = (a + m) + c  BY <1>1, <3>1, <3>2, <2>1
      <4> QED BY <2>2, <3>2, <4>1
    <3>7. y = x + c /\ b - 1 = e + c /\ a - 1 = e  BY <2>1, <3>4
    <3> HIDE DEF e
    <3>8. R[x] = Joined(Joined(Cut(text, x, e), value), R[a + m])
          /\ Q[y] = Joined(Joined(Cut(u, x + c, e + c), value), Q[b + m])
      BY <3>3, <3>7, Zenon
    <3> QED BY <3>5, <3>6, <3>7, <3>8, Zenon
  <2>7. R[x] = Q[x + c]  BY <2>5, <2>6
  <2>8. \A z \in x .. n + 1 : z = x \/ z \in x + 1 .. n + 1  BY <1>1, <2>1
  <2>9. \A z \in x .. n + 1 : R[z] = Q[z + c]  BY <2>2, <2>7, <2>8
  <2> QED BY <2>1, <2>9 DEF x
<1> HIDE DEF T
<1>7. \A k \in 0 .. r : k \in T  BY <1>1, <1>5, <1>6, EachTurn
<1>8. r \in T /\ n + 2 - r = i  BY <1>1, <1>7 DEF r
<1>9. R[i] = Q[i + c]  BY <1>1, <1>8 DEF T
<1> QED BY <1>9 DEF R, Q

\* Texts are sequences of letters.
LEMMA TextsProps == \A text \in Texts : text \in Seq(Letters)
<1> SUFFICES ASSUME NEW text \in Texts PROVE text \in Seq(Letters)
  OBVIOUS
<1>1. text \in Seq(ToSet(text))  BY DataAssumption
<1>2. ToSet(text) \subseteq Letters  BY DEF Letters
<1>3. \A k \in 1 .. Len(text) : text[k] \in ToSet(text)  BY <1>1, ElementOfSeq
<1>4. text = [k \in 1 .. Len(text) |-> text[k]] /\ Len(text) \in Nat  BY <1>1
<1> QED BY <1>2, <1>3, <1>4

\* At a mark, the value comes first and then what stands behind the mark.
LEMMA FromMark ==
    ASSUME NEW S, NEW text \in Seq(S), NEW search \in Seq(S), NEW value \in Seq(S),
           search # <<>>, NEW at \in Nat \ {0}, MarkAt(text, search, at)
    PROVE  LET R == ReplacedFrom(text, search, value)
           IN  /\ R[at] = Joined(value, R[at + Len(search)])
               /\ at + Len(search) \in 1 .. Len(text) + 1 /\ R[at + Len(search)] \in Seq(S)
<1> DEFINE R == ReplacedFrom(text, search, value)
           n == Len(text)
           m == Len(search)
           b == StrStr(text, search, at)
           d == R[at + m]
           e == at - 1
           z == Cut(text, at, e)
<1>1. n \in Nat /\ m \in Nat /\ m > 0 /\ at + m - 1 <= n  BY DEF MarkAt
<1>2. \A x \in 1 .. n + 1 : R[x] \in Seq(S) /\ R[x] = FromHere(text, search, value, R, x)
  <2> HIDE DEF R
  <2> QED BY FromProps DEF R
<1>3. \/ b = 0 /\ \A j \in at .. n + 1 - m : ~MarkAt(text, search, j)
      \/ /\ b \in at .. n + 1 - m /\ MarkAt(text, search, b)
         /\ \A j \in at .. b - 1 : ~MarkAt(text, search, j)
  <2> HIDE DEF b
  <2> QED BY StrStrProps DEF b
<1> HIDE DEF R
<1>4. b = at
  <2> HIDE DEF b, n, m
  <2> QED BY <1>1, <1>3
<1>5. at \in 1 .. n + 1 /\ at # 0 /\ at + m \in 1 .. n + 1  BY <1>1
<1>6. R[at] = Joined(Joined(Cut(text, at, at - 1), value), d)
  <2>1. R[at] = FromHere(text, search, value, R, at)  BY <1>2, <1>5
  <2> QED BY <1>4, <1>5, <2>1 DEF FromHere
<1>7. at \in Nat \ {0} /\ e \in Nat /\ at <= e + 1 /\ e <= Len(text) /\ e - at + 1 = 0
  BY <1>1
<1>8. e = at - 1  OBVIOUS
<1>9. d \in Seq(S)  BY <1>2, <1>5
<1> HIDE DEF e
<1>10. z \in Seq(S) /\ Len(z) = e - at + 1  BY <1>7, CutProps
<1>11. Joined(Cut(text, at, at - 1), value) = Joined(z, value)  BY <1>8
<1> HIDE DEF z
<1>12. Joined(z, value) = value  BY <1>7, <1>10, JoinedEmpty
<1> QED BY <1>5, <1>6, <1>9, <1>11, <1>12 DEF R

\* What is replaced from a place on, by the next mark.
LEMMA FromNext ==
    ASSUME NEW S, NEW text \in Seq(S), NEW search \in Seq(S), NEW value \in Seq(S),
           search # <<>>, NEW i \in 1 .. Len(text) + 1
    PROVE  LET R == ReplacedFrom(text, search, value)
               at == StrStr(text, search, i)
           IN  /\ at = 0 => R[i] = Cut(text, i, Len(text))
               /\ at # 0 => /\ at \in i .. Len(text) /\ MarkAt(text, search, at)
                            /\ R[i] = Joined(Cut(text, i, at - 1), R[at])
<1> DEFINE R == ReplacedFrom(text, search, value)
           at == StrStr(text, search, i)
           n == Len(text)
           m == Len(search)
<1>1. n \in Nat /\ m \in Nat /\ m > 0 /\ i \in Nat \ {0} /\ i <= n + 1  OBVIOUS
<1>2. \A x \in 1 .. n + 1 : R[x] \in Seq(S) /\ R[x] = FromHere(text, search, value, R, x)
  <2> HIDE DEF R
  <2> QED BY FromProps DEF R
<1>3. CASE at = 0
  <2> HIDE DEF R
  <2> QED BY <1>2, <1>3 DEF FromHere, R
<1>4. ASSUME at # 0
      PROVE  at \in i .. n /\ MarkAt(text, search, at) /\ R[i] = Joined(Cut(text, i, at - 1), R[at])
  <2>1. /\ at \in i .. n + 1 - m /\ MarkAt(text, search, at)
        /\ \A j \in i .. at - 1 : ~MarkAt(text, search, j)
    BY <1>1, <1>4, StrStrProps
  <2> DEFINE c == Cut(text, i, at - 1)
             d == R[at + m]
  <2>2. c \in Seq(S) /\ at \in i .. n  BY <1>1, <1>4, FromHereProps
  <2>3. at \in Nat \ {0}  BY <1>1, <2>2
  <2>4. R[i] = Joined(Joined(c, value), d)
    <3> HIDE DEF R
    <3> QED BY <1>2, <1>4 DEF FromHere
  <2>5. R[at] = Joined(value, d) /\ d \in Seq(S)
    <3>1. MarkAt(text, search, at)  BY <2>1
    <3> HIDE DEF at
    <3> QED BY <2>3, <3>1, FromMark
  <2> HIDE DEF R, c, d
  <2>6. Joined(Joined(c, value), d) = Joined(c, Joined(value, d))  BY <2>2, <2>5, JoinedTwice
  <2> QED BY <2>1, <2>2, <2>4, <2>5, <2>6 DEF c
<1> QED BY <1>3, <1>4 DEF R

\* A text is well replaced up to the mark at which the loop stands, and its
\* content is what the loop makes of the rest.
StrInv ==
    kind = "string" =>
        /\ str \in Strings
        /\ str.size > 0 => Len(str.text) + 1 <= str.size
        /\ str.at = 0 /\ str.size > 0 => content = str.text
        /\ str.at > 0 =>
             /\ str.size > 0 /\ str.search # <<>> /\ MarkAt(str.text, str.search, str.at)
             /\ content = Joined(Cut(str.text, 1, str.at - 1),
                                 ReplacedFrom(str.text, str.search, str.value)[str.at])

\* The room of a string that grows.
LEMMA GrowProps ==
    ASSUME NEW s \in Strings, NEW size \in Int
    PROVE  LET e == GrowUpToSize(s, size)
           IN  /\ e \in Strings
               /\ e.size \in Nat /\ e.size >= size /\ e.size >= s.size
               /\ e.text = s.text /\ e.search = s.search /\ e.value = s.value /\ e.at = s.at
<1> DEFINE new == IF size > s.size THEN Larger(size, MinSize) ELSE s.size
           e == GrowUpToSize(s, size)
<1>1. new \in Nat /\ new >= size /\ new >= s.size  BY DataAssumption DEF Larger, Strings
<1>2. e = [s EXCEPT !.size = new]  BY DEF GrowUpToSize
<1> HIDE DEF new, e
<1>3. /\ e \in Strings /\ e.size = new
      /\ e.text = s.text /\ e.search = s.search /\ e.value = s.value /\ e.at = s.at
  BY <1>1, <1>2 DEF Strings
<1> QED BY <1>1, <1>3 DEF e

\* GSWString_Append.
LEMMA PutTextKeeps ==
    ASSUME StrInv, NEW text \in Texts, PutText(text)
    PROVE  StrInv'
<1>0. /\ kind = "string" /\ kind' = "string" /\ str.at = 0
      /\ str' = AppendText(str, text) /\ content' = str'.text
  BY DEF PutText
<1>1. text \in Seq(Letters)  BY TextsProps
<1>2. str \in Strings
  BY <1>0 DEF StrInv
<1> DEFINE n == Len(str.text) + Len(text) + 1
           g == GrowUpToSize(str, n)
           e == Joined(str.text, text)
<1>3. str.text \in Seq(Letters) /\ n \in Int  BY <1>1, <1>2 DEF Strings
<1>4. e \in Seq(Letters) /\ Len(e) + 1 = n  BY <1>1, <1>3, JoinedProps
<1>5. str' = [g EXCEPT !.text = e]
  <2>1. AppendText(str, text) = [g EXCEPT !.text = g.text \o text]  BY DEF AppendText
  <2>2. g.text = str.text  BY DEF GrowUpToSize
  <2> QED BY <1>0, <2>1, <2>2 DEF Joined
<1> HIDE DEF n
<1>6. /\ g \in Strings
      /\ g.size >= n /\ g.at = 0
  BY <1>0, <1>2, <1>3, GrowProps
<1> HIDE DEF g, e
<1>7. /\ str' \in Strings
      /\ str'.text = e /\ str'.size = g.size /\ str'.at = 0
  BY <1>4, <1>5, <1>6 DEF Strings
<1> QED BY <1>0, <1>4, <1>6, <1>7 DEF StrInv, Strings

\* GSWString_SearchReplace, up to its loop.
LEMMA BeginReplaceKeeps ==
    ASSUME StrInv, NEW search \in Texts, NEW value \in Texts, BeginReplace(search, value)
    PROVE  StrInv'
<1> DEFINE t == str.text
           b == StrStr(t, search, 1)
           R == ReplacedFrom(t, search, value)
<1>0. /\ kind = "string" /\ kind' = "string" /\ str.at = 0 /\ str.size > 0 /\ search # <<>>
      /\ str' = [str EXCEPT !.search = search, !.value = value, !.at = b]
      /\ content' = R[1]
  BY DEF BeginReplace, Replaced
<1>1. search \in Seq(Letters) /\ value \in Seq(Letters)  BY TextsProps
<1>2. /\ str \in Strings
      /\ Len(t) + 1 <= str.size /\ t \in Seq(Letters) /\ Len(t) \in Nat
  BY <1>0 DEF StrInv, Strings
<1> HIDE DEF t
<1>3. 1 \in 1 .. Len(t) + 1  BY <1>2
<1>4. /\ b = 0 => R[1] = Cut(t, 1, Len(t))
      /\ b # 0 => /\ b \in 1 .. Len(t) /\ MarkAt(t, search, b)
                  /\ R[1] = Joined(Cut(t, 1, b - 1), R[b])
  <2> DEFINE i == 1
  <2>1. i \in 1 .. Len(t) + 1 /\ t \in Seq(Letters) /\ search # <<>>  BY <1>0, <1>2, <1>3
  <2> HIDE DEF i
  <2>2. LET Q == ReplacedFrom(t, search, value)
            at == StrStr(t, search, i)
        IN  /\ at = 0 => Q[i] = Cut(t, i, Len(t))
            /\ at # 0 => /\ at \in i .. Len(t) /\ MarkAt(t, search, at)
                         /\ Q[i] = Joined(Cut(t, i, at - 1), Q[at])
    BY <1>1, <2>1, FromNext
  <2> QED BY <2>2 DEF i
<1>5. Cut(t, 1, Len(t)) = t  BY <1>2, CutAll
<1>6. b \in Nat  BY <1>2, <1>4
<1> HIDE DEF b
<1>7. /\ str' \in Strings
      /\ str'.text = t /\ str'.size = str.size /\ str'.search = search
      /\ str'.value = value /\ str'.at = b
  BY <1>0, <1>1, <1>2, <1>6 DEF t, Strings
<1> HIDE DEF R
<1>8. CASE b = 0
  <2>1. content' = t  BY <1>0, <1>4, <1>5, <1>8
  <2> QED BY <1>0, <1>2, <1>7, <1>8, <2>1 DEF StrInv
<1>9. CASE b # 0
  <2>1. /\ MarkAt(t, search, b) /\ content' = Joined(Cut(t, 1, b - 1), R[b])
    BY <1>0, <1>4, <1>9
  <2>2. MarkAt(str'.text, str'.search, str'.at)  BY <1>7, <2>1
  <2>3. content' = Joined(Cut(str'.text, 1, str'.at - 1),
                          ReplacedFrom(str'.text, str'.search, str'.value)[str'.at])
    BY <1>7, <2>1 DEF R
  <2> QED BY <1>0, <1>2, <1>7, <1>9, <2>2, <2>3 DEF StrInv
<1> QED BY <1>8, <1>9

\* One turn of the loop: what is in front of the mark, the value and what
\* stands behind the mark; the whole is replaced as it was before.
LEMMA TurnProps ==
    ASSUME NEW S, NEW t \in Seq(S), NEW s \in Seq(S), NEW v \in Seq(S), s # <<>>,
           NEW p \in Nat \ {0}, MarkAt(t, s, p)
    PROVE  LET u == Joined(Joined(Cut(t, 1, p - 1), v), Cut(t, p + Len(s), Len(t)))
               b == StrStr(u, s, p + Len(v))
               old == Joined(Cut(t, 1, p - 1), ReplacedFrom(t, s, v)[p])
           IN  /\ u \in Seq(S) /\ Len(u) = Len(t) + (Len(v) - Len(s)) /\ b \in Nat
               /\ b = 0 => old = u
               /\ b # 0 => /\ MarkAt(u, s, b)
                           /\ old = Joined(Cut(u, 1, b - 1), ReplacedFrom(u, s, v)[b])
<1> DEFINE n == Len(t)
           m == Len(s)
           diff == Len(v) - m
           q == p + Len(v)
           a == Cut(t, 1, p - 1)
           c == Cut(t, p + m, n)
           av == Joined(a, v)
           u == Joined(av, c)
           b == StrStr(u, s, q)
           R == ReplacedFrom(t, s, v)
           Q == ReplacedFrom(u, s, v)
           old == Joined(a, R[p])
<1>1. old = Joined(a, R[p])  OBVIOUS
<1>2. /\ n \in Nat /\ m \in Nat /\ m > 0 /\ Len(v) \in Nat /\ diff \in Int /\ q \in Nat \ {0}
      /\ p + m - 1 <= n
  BY DEF MarkAt
<1> HIDE DEF R, Q, old
<1>3. /\ R[p] = Joined(v, R[p + m])
      /\ p + m \in 1 .. n + 1 /\ R[p + m] \in Seq(S)
  BY FromMark DEF R
<1>4. a \in Seq(S) /\ Len(a) = p - 1
  <2> DEFINE e == p - 1
  <2>1. 1 \in Nat \ {0} /\ e \in Nat /\ 1 <= e + 1 /\ e <= Len(t) /\ e - 1 + 1 = e
    BY <1>1, <1>2
  <2> HIDE DEF e
  <2>2. Cut(t, 1, e) \in Seq(S) /\ Len(Cut(t, 1, e)) = e - 1 + 1  BY <1>1, <2>1, CutProps
  <2> QED BY <2>1, <2>2 DEF e
<1>5. /\ c \in Seq(S) /\ Len(c) = n - (p + m) + 1
      /\ \A k \in 1 .. n - (p + m) + 1 : c[k] = t[(p + m) + k - 1]
  <2> DEFINE i == p + m
             e == n
  <2>1. i \in Nat \ {0} /\ e \in Nat /\ i <= e + 1 /\ e <= Len(t)  BY <1>1, <1>2
  <2> HIDE DEF e, i
  <2>2. /\ Cut(t, i, e) \in Seq(S) /\ Len(Cut(t, i, e)) = e - i + 1
        /\ \A k \in 1 .. e - i + 1 : Cut(t, i, e)[k] = t[i + k - 1]
    <3>1. Cut(t, i, e) \in Seq(S) /\ Len(Cut(t, i, e)) = e - i + 1  BY <1>1, <2>1, CutProps
    <3>2. \A k \in 1 .. e - i + 1 : Cut(t, i, e)[k] = t[i + k - 1]
      BY <1>1, <2>1, CutProps
    <3> QED BY <3>1, <3>2
  <2> QED BY <2>2 DEF e, i
<1> HIDE DEF a, c
<1>6. av \in Seq(S) /\ Len(av) = Len(a) + Len(v)  BY <1>1, <1>4, JoinedProps
<1>7. Len(av) = q - 1  BY <1>1, <1>2, <1>4, <1>6
<1> HIDE DEF av
<1>8. u \in Seq(S) /\ Len(u) = Len(av) + Len(c)  BY <1>5, <1>6, JoinedProps
<1>9. av \in Seq(S) /\ c \in Seq(S)  BY <1>5, <1>6
<1>10. \A k \in 1 .. Len(c) : u[Len(av) + k] = c[k]  BY <1>9, JoinedProps
<1>11. Len(u) = n + diff /\ Len(u) \in Nat  BY <1>1, <1>2, <1>5, <1>7, <1>8
<1> HIDE DEF u
<1>12. Shifted(t, u, diff, p + m)
  <2>1. ASSUME NEW y \in p + m .. n PROVE u[y + diff] = t[y]
    <3> DEFINE k == y - (p + m) + 1
    <3>1. /\ k \in 1 .. Len(c) /\ k \in 1 .. n - (p + m) + 1
          /\ (p + m) + k - 1 = y /\ Len(av) + k = y + diff
      <4>1. p \in Nat /\ n \in Nat /\ m \in Nat /\ Len(v) \in Nat  BY <1>2
      <4>2. Len(c) = n - (p + m) + 1 /\ Len(av) = p + Len(v) - 1  BY <1>5, <1>7
      <4> HIDE DEF n, m
      <4> QED BY <4>1, <4>2
    <3> HIDE DEF k
    <3>2. u[Len(av) + k] = c[k] /\ c[k] = t[(p + m) + k - 1]  BY <1>5, <1>10, <3>1
    <3> QED BY <3>1, <3>2
  <2>2. (p + m) + diff >= 1  BY <1>1, <1>2
  <2> QED BY <1>2, <1>3, <1>11, <2>1, <2>2 DEF Shifted
<1>13. R[p + m] = Q[q]
  <2> DEFINE i == p + m
  <2>1. Shifted(t, u, diff, i)  BY <1>12
  <2>2. i + diff = q  BY <1>1, <1>2
  <2> HIDE DEF i, diff
  <2>3. R[i] = Q[i + diff]  BY <1>1, <1>8, <2>1, ShiftedFrom DEF R, Q
  <2> QED BY <2>2, <2>3 DEF i
<1>14. av = Cut(u, 1, q - 1)
  <2>1. Cut(u, 1, Len(av)) = av  BY <1>9, FrontOfJoined DEF u
  <2> QED BY <1>7, <2>1
<1>15. q \in 1 .. Len(u) + 1  BY <1>2, <1>5, <1>7, <1>8
<1>16. old = Joined(av, Q[q]) /\ Q[q] \in Seq(S)
  <2> DEFINE d == R[p + m]
  <2>1. d \in Seq(S) /\ old = Joined(a, Joined(v, d)) /\ d = Q[q]
    BY <1>1, <1>3, <1>13
  <2> HIDE DEF d
  <2>2. Joined(Joined(a, v), d) = Joined(a, Joined(v, d))  BY <1>1, <1>4, <2>1, JoinedTwice
  <2> QED BY <2>1, <2>2 DEF av
<1> HIDE DEF q
<1>17. /\ b = 0 => Q[q] = Cut(u, q, Len(u))
       /\ b # 0 => /\ b \in q .. Len(u) /\ MarkAt(u, s, b)
                   /\ Q[q] = Joined(Cut(u, q, b - 1), Q[b])
  <2>1. u \in Seq(S) /\ q \in 1 .. Len(u) + 1  BY <1>8, <1>15
  <2>2. LET RR == ReplacedFrom(u, s, v)
            at == StrStr(u, s, q)
        IN  /\ at = 0 => RR[q] = Cut(u, q, Len(u))
            /\ at # 0 => /\ at \in q .. Len(u) /\ MarkAt(u, s, at)
                         /\ RR[q] = Joined(Cut(u, q, at - 1), RR[at])
    BY <2>1, FromNext
  <2> QED BY <2>2 DEF Q
<1> HIDE DEF b
<1>18. b = 0 => old = u
  <2> SUFFICES ASSUME b = 0 PROVE old = u
    OBVIOUS
  <2> DEFINE j == q - 1
             k == Len(u)
  <2>1. /\ 1 \in Nat \ {0} /\ j \in Nat /\ k \in Nat /\ 1 <= j + 1 /\ j <= k /\ k <= Len(u)
        /\ j + 1 = q
    BY <1>2, <1>11, <1>15
  <2>2. old = Joined(Cut(u, 1, j), Cut(u, q, k))  BY <1>14, <1>16, <1>17
  <2>3. Cut(u, 1, k) = u  BY <1>8, CutAll
  <2> HIDE DEF j, k
  <2>4. Joined(Cut(u, 1, j), Cut(u, j + 1, k)) = Cut(u, 1, k)  BY <1>8, <2>1, JoinedCuts
  <2> QED BY <2>1, <2>2, <2>3, <2>4
<1>19. b # 0 => /\ b \in Nat \ {0} /\ MarkAt(u, s, b)
                /\ old = Joined(Cut(u, 1, b - 1), Q[b])
  <2> SUFFICES ASSUME b # 0
               PROVE  /\ b \in Nat \ {0} /\ MarkAt(u, s, b)
                      /\ old = Joined(Cut(u, 1, b - 1), Q[b])
    OBVIOUS
  <2> DEFINE j == q - 1
             k == b - 1
             x == Cut(u, 1, j)
             y == Cut(u, q, k)
             d == Q[b]
  <2>1. /\ 1 \in Nat \ {0} /\ j \in Nat /\ k \in Nat /\ 1 <= j + 1 /\ j <= k /\ k <= Len(u)
        /\ j + 1 = q /\ q \in Nat \ {0} /\ q <= k + 1 /\ b \in 1 .. Len(u) + 1 /\ b \in Nat \ {0}
    BY <1>11, <1>15, <1>17
  <2>2. old = Joined(x, Joined(y, d)) /\ MarkAt(u, s, b)  BY <1>14, <1>16, <1>17
  <2>3. d \in Seq(S)  BY <1>1, <1>8, <2>1, FromProps DEF Q
  <2> HIDE DEF j, k, d
  <2>4. x \in Seq(S) /\ y \in Seq(S)
    <3>1. j <= Len(u)  BY <2>1
    <3>2. x \in Seq(S)  BY <1>8, <2>1, <3>1, CutProps
    <3>3. y \in Seq(S)  BY <1>8, <2>1, CutProps
    <3> QED BY <3>2, <3>3
  <2>5. Joined(x, y) = Cut(u, 1, k)
    <3>1. Joined(Cut(u, 1, j), Cut(u, j + 1, k)) = Cut(u, 1, k)  BY <1>8, <2>1, JoinedCuts
    <3> QED BY <2>1, <3>1
  <2> HIDE DEF x, y
  <2>6. Joined(Joined(x, y), d) = Joined(x, Joined(y, d))  BY <2>3, <2>4, JoinedTwice
  <2> QED BY <2>1, <2>2, <2>5, <2>6 DEF k, d
<1>20. b \in Nat  BY <1>19
<1> QED BY <1>8, <1>11, <1>18, <1>19, <1>20 DEF u, b, av, a, c, q, Q, R, old

\* A turn of its loop.
LEMMA ReplaceOneKeeps ==
    ASSUME StrInv, ReplaceOne
    PROVE  StrInv'
<1> DEFINE t == str.text
           s == str.search
           v == str.value
           p == str.at
           diff == Len(v) - Len(s)
           u == Joined(Joined(Cut(t, 1, p - 1), v), Cut(t, p + Len(s), Len(t)))
           b == StrStr(u, s, p + Len(v))
           old == Joined(Cut(t, 1, p - 1), ReplacedFrom(t, s, v)[p])
           g == IF diff > 0 THEN GrowUpToSize(str, str.size + diff) ELSE str
<1>1. /\ kind = "string" /\ kind' = "string" /\ p > 0 /\ content' = content
  BY DEF ReplaceOne
<1>2. str' = [g EXCEPT !.text = u, !.at = b]
  <2>1. str' = Replace(str)  BY DEF ReplaceOne
  <2> QED BY <2>1 DEF Replace, Joined, Cut
<1>3. /\ str \in Strings
      /\ Len(t) + 1 <= str.size /\ str.size > 0
      /\ t \in Seq(Letters) /\ s \in Seq(Letters) /\ v \in Seq(Letters)
      /\ p \in Nat \ {0} /\ s # <<>> /\ MarkAt(t, s, p)
      /\ content = old
  BY <1>1 DEF StrInv, Strings
<1>4. diff \in Int /\ Len(t) \in Nat  BY <1>3
<1> HIDE DEF t, s, v, p
<1>5. /\ t \in Seq(Letters) /\ s \in Seq(Letters) /\ v \in Seq(Letters)
      /\ p \in Nat \ {0} /\ s # <<>> /\ MarkAt(t, s, p)
  BY <1>3
<1>6. /\ u \in Seq(Letters) /\ Len(u) = Len(t) + (Len(v) - Len(s)) /\ b \in Nat
      /\ b = 0 => old = u
      /\ b # 0 => /\ MarkAt(u, s, b)
                  /\ old = Joined(Cut(u, 1, b - 1), ReplacedFrom(u, s, v)[b])
  BY <1>5, TurnProps
<1> HIDE DEF u, b, old
<1>7. /\ g \in Strings
       /\ g.size >= str.size /\ g.size >= str.size + diff
       /\ g.search = s /\ g.value = v
  <2>1. CASE diff > 0
    <3> DEFINE z == str.size + diff
    <3>1. z \in Int /\ g = GrowUpToSize(str, z)  BY <1>3, <1>4, <2>1 DEF Strings
    <3> HIDE DEF z, g
    <3>2. LET e == GrowUpToSize(str, z)
          IN  /\ e \in Strings
              /\ e.size >= z /\ e.size >= str.size
              /\ e.search = str.search /\ e.value = str.value
      <4>1. str \in Strings /\ z \in Int  BY <1>3, <3>1
      <4> QED BY <4>1, GrowProps
    <3> QED BY <3>1, <3>2 DEF z, s, v
  <2>2. CASE ~(diff > 0)
    <3>1. g = str  BY <2>2
    <3> HIDE DEF g
    <3> QED BY <1>3, <1>4, <2>2, <3>1 DEF s, v, Strings
  <2> QED BY <2>1, <2>2
<1> HIDE DEF g
<1>8. /\ str' \in Strings
       /\ str'.text = u /\ str'.at = b /\ str'.size = g.size
       /\ str'.search = s /\ str'.value = v
  BY <1>2, <1>6, <1>7 DEF Strings
<1>9. Len(str'.text) + 1 <= str'.size /\ str'.size > 0
  <2>1. g.size \in Nat /\ str.size \in Nat /\ Len(u) = Len(t) + diff
    BY <1>3, <1>6, <1>7 DEF Strings
  <2> HIDE DEF diff
  <2> QED BY <1>3, <1>4, <1>7, <1>8, <2>1
<1>10. str'.at > 0 =>
         /\ str'.search # <<>> /\ MarkAt(str'.text, str'.search, str'.at)
         /\ content' = Joined(Cut(str'.text, 1, str'.at - 1),
                              ReplacedFrom(str'.text, str'.search, str'.value)[str'.at])
  BY <1>1, <1>3, <1>6, <1>8
<1>11. str'.at = 0 => content' = str'.text  BY <1>1, <1>3, <1>6, <1>8
<1> QED BY <1>1, <1>8, <1>9, <1>10, <1>11 DEF StrInv

\* No operation on a container breaks its string.
LEMMA StrInvNext == StrInv /\ [DataNext]_dataVars => StrInv'
<1> SUFFICES ASSUME StrInv, [DataNext]_dataVars PROVE StrInv'
  OBVIOUS
<1>1. CASE \E text \in Texts : PutText(text)  BY <1>1, PutTextKeeps
<1>2. CASE \E search, value \in Texts : BeginReplace(search, value)
  BY <1>2, BeginReplaceKeeps
<1>3. CASE ReplaceOne  BY <1>3, ReplaceOneKeeps
<1>4. CASE \/ PutHeaders \/ \E key \in Keys : TakeOut(key)
           \/ \E key \in Keys, value \in Values : Put(key, value) \/ PutHeader(key, value)
  <2>1. kind' # "string"  BY <1>4 DEF PutHeaders, TakeOut, Put, PutHeader
  <2> QED BY <2>1 DEF StrInv
<1>5. CASE UNCHANGED dataVars  BY <1>5 DEF dataVars, StrInv
<1> QED BY <1>1, <1>2, <1>3, <1>4, <1>5 DEF DataNext

\* GSWString.c: when a replacement ended, the text is what replacing each of its
\* marks once gives, and nothing that a value brought with it was replaced again;
\* the text with its end always has room in the buffer.
THEOREM MarksReplacedOnce == DataSpec => []MarksAreReplaced
<1>1. DataInit => StrInv
  <2>1. <<>> \in Seq(Letters)  OBVIOUS
  <2> QED BY <2>1 DEF DataInit, StrInv, Strings
<1>2. StrInv => MarksAreReplaced  BY DEF StrInv, MarksAreReplaced
<1> QED BY <1>1, <1>2, StrInvNext, PTL DEF DataSpec
=============================================================================
