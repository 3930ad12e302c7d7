----------------------------- MODULE ArrayLemmas -----------------------------
(***************************************************************************)
(* Facts about NSMutableArray as a sequence (removing an object, adding    *)
(* one at the end), about sets of numbers (which is the least, and which   *)
(* the greatest), about loops, and about parts of sequences.               *)
(***************************************************************************)
EXTENDS Integers, Sequences, SequencesExt, SequenceTheorems, WellFoundedInduction, TLAPS

\* The elements of a sequence with position k removed.
LEMMA RemoveAtProps ==
    ASSUME NEW S, NEW seq \in Seq(S), NEW k \in 1 .. Len(seq)
    PROVE  /\ RemoveAt(seq, k) \in Seq(S)
           /\ Len(RemoveAt(seq, k)) = Len(seq) - 1
           /\ \A i \in 1 .. Len(seq) - 1 :
                RemoveAt(seq, k)[i] = IF i < k THEN seq[i] ELSE seq[i + 1]
<1> DEFINE n == Len(seq)
           a == SubSeq(seq, 1, k - 1)
           b == SubSeq(seq, k + 1, n)
<1>1. n \in Nat /\ k \in Nat /\ 1 <= k /\ k <= n
  OBVIOUS
<1>2. \A i \in 1 .. n : seq[i] \in S
  BY ElementOfSeq
<1> HIDE DEF n
<1>3. a \in Seq(S) /\ Len(a) = k - 1 /\ \A i \in 1 .. k - 1 : a[i] = seq[i]
  <2>1. 1 \in Int /\ k - 1 \in Int /\ \A i \in 1 .. k - 1 : seq[i] \in S
    BY <1>1, <1>2
  <2>2. /\ a \in Seq(S)
        /\ Len(a) = IF 1 <= k - 1 THEN (k - 1) - 1 + 1 ELSE 0
        /\ \A i \in 1 .. (k - 1) - 1 + 1 : a[i] = seq[1 + i - 1]
    BY <2>1, SubSeqProperties
  <2> HIDE DEF a
  <2> QED BY <2>2, <1>1
<1>4. b \in Seq(S) /\ Len(b) = n - k /\ \A i \in 1 .. n - k : b[i] = seq[k + i]
  <2>1. k + 1 \in Int /\ n \in Int /\ \A i \in k + 1 .. n : seq[i] \in S
    BY <1>1, <1>2
  <2>2. /\ b \in Seq(S)
        /\ Len(b) = IF k + 1 <= n THEN n - (k + 1) + 1 ELSE 0
        /\ \A i \in 1 .. n - (k + 1) + 1 : b[i] = seq[(k + 1) + i - 1]
    BY <2>1, SubSeqProperties
  <2> HIDE DEF b
  <2> QED BY <2>2, <1>1
<1>5. RemoveAt(seq, k) = a \o b
  BY DEF RemoveAt, n
<1> HIDE DEF a, b
<1>6. /\ a \o b \in Seq(S)
      /\ Len(a \o b) = Len(a) + Len(b)
      /\ \A i \in 1 .. Len(a) + Len(b) :
            (a \o b)[i] = IF i <= Len(a) THEN a[i] ELSE b[i - Len(a)]
  BY <1>3, <1>4, ConcatProperties
<1>7. Len(a) + Len(b) = n - 1
  BY <1>1, <1>3, <1>4
<1>8. ASSUME NEW i \in 1 .. n - 1
      PROVE  (a \o b)[i] = IF i < k THEN seq[i] ELSE seq[i + 1]
  <2>1. (a \o b)[i] = IF i <= k - 1 THEN a[i] ELSE b[i - (k - 1)]
    BY <1>3, <1>6, <1>7
  <2>2. CASE i < k
    <3>1. i \in 1 .. k - 1 /\ i <= k - 1
      BY <2>2, <1>1
    <3> QED BY <3>1, <2>1, <1>3, <2>2
  <2>3. CASE ~(i < k)
    <3>1. i - (k - 1) \in 1 .. n - k /\ k + (i - (k - 1)) = i + 1 /\ ~(i <= k - 1)
      BY <2>3, <1>1
    <3> QED BY <3>1, <2>1, <1>4, <2>3
  <2> QED BY <2>2, <2>3
<1> QED BY <1>5, <1>6, <1>7, <1>8 DEF n

\* The range of a sequence whose position k is removed; one that held nothing
\* twice loses the element at k for good.
LEMMA RemoveAtRange ==
    ASSUME NEW S, NEW seq \in Seq(S), NEW k \in 1 .. Len(seq)
    PROVE  /\ ToSet(RemoveAt(seq, k)) \subseteq ToSet(seq)
           /\ ToSet(seq) \ {seq[k]} \subseteq ToSet(RemoveAt(seq, k))
           /\ (\A i, j \in DOMAIN seq : seq[i] = seq[j] => i = j) =>
                /\ seq[k] \notin ToSet(RemoveAt(seq, k))
                /\ \A i, j \in DOMAIN RemoveAt(seq, k) :
                      RemoveAt(seq, k)[i] = RemoveAt(seq, k)[j] => i = j
<1> DEFINE n == Len(seq)
           res == RemoveAt(seq, k)
<1>1. n \in Nat /\ k \in Nat /\ 1 <= k /\ k <= n
  OBVIOUS
<1>2. /\ res \in Seq(S)
      /\ Len(res) = n - 1
      /\ \A i \in 1 .. n - 1 : res[i] = IF i < k THEN seq[i] ELSE seq[i + 1]
  BY RemoveAtProps
<1>3. DOMAIN seq = 1 .. n /\ DOMAIN res = 1 .. n - 1
  BY <1>2
<1> HIDE DEF n, res
<1>4. ASSUME NEW i \in 1 .. n - 1
      PROVE  \E j \in 1 .. n : j # k /\ res[i] = seq[j] /\ j = IF i < k THEN i ELSE i + 1
  <2>1. CASE i < k
    BY <2>1, <1>1, <1>2
  <2>2. CASE ~(i < k)
    <3>1. i + 1 \in 1 .. n /\ i + 1 # k
      BY <2>2, <1>1
    <3> QED BY <3>1, <2>2, <1>2
  <2> QED BY <2>1, <2>2
<1>5. ToSet(res) \subseteq ToSet(seq)
  BY <1>3, <1>4 DEF ToSet
<1>6. ToSet(seq) \ {seq[k]} \subseteq ToSet(res)
  <2> SUFFICES ASSUME NEW i \in 1 .. n, seq[i] # seq[k]
               PROVE  \E j \in 1 .. n - 1 : res[j] = seq[i]
    BY <1>3 DEF ToSet
  <2>1. CASE i < k
    <3>1. i \in 1 .. n - 1
      BY <2>1, <1>1
    <3> QED BY <3>1, <2>1, <1>2
  <2>2. CASE i > k
    <3>1. i - 1 \in 1 .. n - 1 /\ ~(i - 1 < k) /\ (i - 1) + 1 = i
      BY <2>2, <1>1
    <3> QED BY <3>1, <1>2
  <2> QED BY <2>1, <2>2, <1>1
<1>7. ASSUME \A i, j \in 1 .. n : seq[i] = seq[j] => i = j
      PROVE  /\ seq[k] \notin ToSet(res)
             /\ \A i, j \in 1 .. n - 1 : res[i] = res[j] => i = j
  <2>1. seq[k] \notin ToSet(res)
    <3> SUFFICES ASSUME NEW i \in 1 .. n - 1, res[i] = seq[k] PROVE FALSE
      BY <1>3 DEF ToSet
    <3> QED BY <1>1, <1>4, <1>7
  <2>2. ASSUME NEW i \in 1 .. n - 1, NEW j \in 1 .. n - 1, res[i] = res[j]
        PROVE  i = j
    <3>1. PICK p \in 1 .. n : res[i] = seq[p] /\ p = IF i < k THEN i ELSE i + 1
      BY <1>4
    <3>2. PICK q \in 1 .. n : res[j] = seq[q] /\ q = IF j < k THEN j ELSE j + 1
      BY <1>4
    <3>3. p = q
      BY <3>1, <3>2, <2>2, <1>7
    <3> QED BY <3>1, <3>2, <3>3, <1>1
  <2> QED BY <2>1, <2>2
<1> QED BY <1>3, <1>5, <1>6, <1>7 DEF res

\* Adding a new object at the end.
LEMMA AppendRange ==
    ASSUME NEW S, NEW seq \in Seq(S), NEW e \in S
    PROVE  /\ Append(seq, e) \in Seq(S)
           /\ ToSet(Append(seq, e)) = ToSet(seq) \union {e}
           /\ (\A i, j \in DOMAIN seq : seq[i] = seq[j] => i = j) /\ e \notin ToSet(seq) =>
                \A i, j \in DOMAIN Append(seq, e) :
                    Append(seq, e)[i] = Append(seq, e)[j] => i = j
<1> DEFINE n == Len(seq)
           res == Append(seq, e)
<1>1. n \in Nat
  OBVIOUS
<1>2. /\ res \in Seq(S)
      /\ Len(res) = n + 1
      /\ \A i \in 1 .. n : res[i] = seq[i]
      /\ res[n + 1] = e
  BY AppendProperties
<1>3. DOMAIN seq = 1 .. n /\ DOMAIN res = 1 .. n + 1
  BY <1>2
<1> HIDE DEF n, res
<1>4. ToSet(res) = ToSet(seq) \union {e}
  <2>1. \A i \in 1 .. n : i \in 1 .. n + 1
    BY <1>1
  <2>2. \A i \in 1 .. n + 1 : i \in 1 .. n \/ i = n + 1
    BY <1>1
  <2>3. n + 1 \in 1 .. n + 1
    BY <1>1
  <2> QED BY <1>2, <1>3, <2>1, <2>2, <2>3 DEF ToSet
<1>5. ASSUME \A i, j \in 1 .. n : seq[i] = seq[j] => i = j, e \notin ToSet(seq),
             NEW i \in 1 .. n + 1, NEW j \in 1 .. n + 1, res[i] = res[j]
      PROVE  i = j
  <2>1. i \in 1 .. n \/ i = n + 1
    BY <1>1
  <2>2. j \in 1 .. n \/ j = n + 1
    BY <1>1
  <2>3. \A m \in 1 .. n : seq[m] # e
    BY <1>3, <1>5 DEF ToSet
  <2> QED BY <1>2, <1>5, <2>1, <2>2, <2>3
<1> QED BY <1>2, <1>3, <1>4, <1>5 DEF res

\* Every set of naturals has a least element.
LEMMA LeastOf ==
    ASSUME NEW T, T \subseteq Nat, T # {}
    PROVE  \E x \in T : \A y \in T : x <= y
<1> DEFINE R == OpToRel(<, Nat)
<1>1. IsWellFoundedOn(R, Nat)  BY NatLessThanWellFounded
<1>2. R = {ss \in Nat \X Nat : ss[1] < ss[2]}  BY DEF OpToRel
<1> HIDE DEF R
<1>3. \E x \in T : \A y \in T : <<y, x>> \notin R  BY <1>1, WFMin
<1>4. \A x, y \in T : <<y, x>> \notin R => x <= y  BY <1>2
<1>5. QED  BY <1>3, <1>4

\* Every bounded one has a greatest.
LEMMA GreatestOf ==
    ASSUME NEW n \in Nat, NEW T, T \subseteq 0 .. n, T # {}
    PROVE  \E x \in T : \A y \in T : y <= x
<1> DEFINE U == {n - k : k \in T}
<1>1. \A k \in T : n - k \in Nat  OBVIOUS
<1>2. U \subseteq Nat /\ U # {}  BY <1>1
<1>3. PICK u \in U : \A v \in U : u <= v  BY <1>2, LeastOf
<1>4. PICK x \in T : u = n - x  OBVIOUS
<1>5. \A y \in T : n - y \in U  OBVIOUS
<1>6. \A y \in T : y <= x  BY <1>3, <1>4, <1>5
<1>7. QED  BY <1>6

(***************************************************************************)
(* Loops: recursive functions over the number of turns.                    *)
(***************************************************************************)
\* What holds at the start of a loop and is kept by each turn holds at its end.
LEMMA EachTurn ==
    ASSUME NEW n \in Nat, NEW S, 0 \in S, \A i \in 1 .. n : i - 1 \in S => i \in S
    PROVE  \A i \in 0 .. n : i \in S
<1> DEFINE T == {i \in 0 .. n : i \notin S}
<1>1. CASE T # {}
  <2>0. T \subseteq Nat  OBVIOUS
  <2> HIDE DEF T
  <2>1. PICK x \in T : \A y \in T : x <= y  BY <1>1, <2>0, LeastOf
  <2> USE DEF T
  <2>2. x \in 1 .. n /\ x - 1 \in 0 .. n /\ ~(x <= x - 1)  BY <2>1
  <2>3. x - 1 \in S  BY <2>1, <2>2
  <2> QED BY <2>1, <2>2, <2>3
<1> QED BY <1>1

\* A loop of n turns over the values of X has its values.
LEMMA LoopRuns ==
    ASSUME NEW X, NEW x \in X, NEW n \in Nat, NEW step \in [(1 .. n) \X X -> X]
    PROVE  \E f \in [0 .. n -> X] : f[0] = x /\ \A i \in 1 .. n : f[i] = step[<<i, f[i - 1]>>]
<1> DEFINE Runs(f, k) == f[0] = x /\ \A i \in 1 .. k : f[i] = step[<<i, f[i - 1]>>]
           S == {k \in 0 .. n : \E f \in [0 .. n -> X] : Runs(f, k)}
<1>1. 0 \in S
  <2>1. [k \in 0 .. n |-> x] \in [0 .. n -> X] /\ Runs([k \in 0 .. n |-> x], 0)  OBVIOUS
  <2>2. 0 \in 0 .. n  OBVIOUS
  <2> HIDE DEF Runs
  <2> QED BY <2>1, <2>2
<1>2. ASSUME NEW k \in 1 .. n, k - 1 \in S PROVE k \in S
  <2>1. PICK f \in [0 .. n -> X] : Runs(f, k - 1)
    <3> HIDE DEF Runs
    <3> QED BY <1>2
  <2> DEFINE g == [f EXCEPT ![k] = step[<<k, f[k - 1]>>]]
  <2>2. g \in [0 .. n -> X]  OBVIOUS
  <2>3. /\ g[k] = step[<<k, g[k - 1]>>] /\ g[0] = x
        /\ \A i \in 1 .. k - 1 : g[i] = f[i] /\ g[i - 1] = f[i - 1]
    BY <2>1
  <2>4. Runs(g, k)
    <3>1. ASSUME NEW i \in 1 .. k PROVE g[i] = step[<<i, g[i - 1]>>]
      <4>1. CASE i = k  BY <2>3, <4>1
      <4>2. CASE i # k
        <5>1. i \in 1 .. k - 1  BY <4>2
        <5> QED BY <2>1, <2>3, <5>1
      <4> QED BY <4>1, <4>2
    <3> QED BY <2>3, <3>1
  <2> HIDE DEF Runs, g
  <2> QED BY <2>2, <2>4
<1> HIDE DEF S
<1>3. \A k \in 0 .. n : k \in S  BY <1>1, <1>2, EachTurn
<1> QED BY <1>3 DEF S

\* A recursive function on the turns of a loop, when what it takes from turn to
\* turn is in X.
LEMMA LoopIs ==
    ASSUME NEW X, NEW n \in Nat, NEW step \in [(1 .. n) \X X -> X], NEW F, NEW x \in X,
           DOMAIN F = 0 .. n, F[0] = x,
           \A i \in 1 .. n : F[i - 1] \in X => F[i] = step[<<i, F[i - 1]>>]
    PROVE  \A i \in 0 .. n : F[i] \in X
<1> DEFINE S == {i \in 0 .. n : F[i] \in X}
<1>1. 0 \in S  OBVIOUS
<1>2. ASSUME NEW i \in 1 .. n, i - 1 \in S PROVE i \in S
  <2>1. F[i] = step[<<i, F[i - 1]>>] /\ F[i - 1] \in X  BY <1>2
  <2> QED BY <2>1
<1> HIDE DEF S
<1>3. \A i \in 0 .. n : i \in S  BY <1>1, <1>2, EachTurn
<1> QED BY <1>3 DEF S

\* A set of natural numbers has a least one.
LEMMA MinProps ==
    ASSUME NEW S \in SUBSET Nat, S # {}
    PROVE  Min(S) \in S /\ \A y \in S : Min(S) <= y
<1>1. PICK x \in S : \A y \in S : x <= y  BY LeastOf
<1> QED BY <1>1 DEF Min

(***************************************************************************)
(* Sequences that are joined, and parts of them.                           *)
(***************************************************************************)
\* The place at the end of a sequence, and the others.
LEMMA AppendIs ==
    ASSUME NEW S, NEW s \in Seq(S), NEW e \in S
    PROVE  /\ Append(s, e) \in Seq(S) /\ Len(s) \in Nat
           /\ Len(Append(s, e)) = Len(s) + 1 /\ Append(s, e)[Len(s) + 1] = e
           /\ \A i \in 1 .. Len(s) : Append(s, e)[i] = s[i]
  OBVIOUS

\* What is true of two sequences that are equal.
LEMMA SameSequence ==
    ASSUME NEW S, NEW s \in Seq(S), NEW t \in Seq(S), Len(s) = Len(t),
           \A k \in 1 .. Len(s) : s[k] = t[k]
    PROVE  s = t
<1>1. s = [k \in 1 .. Len(s) |-> s[k]] /\ t = [k \in 1 .. Len(t) |-> t[k]]  OBVIOUS
<1> QED BY <1>1

\* A sequence behind another one, and what is appended to it.
Joined(s, t) == s \o t

\* The elements of two sequences, one behind the other.
LEMMA JoinedProps ==
    ASSUME NEW S, NEW s \in Seq(S), NEW t \in Seq(S)
    PROVE  /\ Joined(s, t) \in Seq(S) /\ Len(Joined(s, t)) = Len(s) + Len(t)
           /\ Len(s) \in Nat /\ Len(t) \in Nat
           /\ \A k \in 1 .. Len(s) : Joined(s, t)[k] = s[k]
           /\ \A k \in 1 .. Len(t) : Joined(s, t)[Len(s) + k] = t[k]
  BY DEF Joined

LEMMA AppendBehind ==
    ASSUME NEW S, NEW s \in Seq(S), NEW t \in Seq(S), NEW e \in S
    PROVE  Append(Joined(s, t), e) = Joined(s, Append(t, e))
  BY DEF Joined

\* Three of them.
LEMMA JoinedTwice ==
    ASSUME NEW S, NEW s \in Seq(S), NEW t \in Seq(S), NEW u \in Seq(S)
    PROVE  Joined(Joined(s, t), u) = Joined(s, Joined(t, u))
  BY DEF Joined

\* Behind a sequence that is empty.
LEMMA JoinedEmpty ==
    ASSUME NEW S, NEW s \in Seq(S), NEW t \in Seq(S), Len(s) = 0
    PROVE  Joined(s, t) = t
  BY DEF Joined

\* What a sequence has to have to be two others.
LEMMA JoinedIs ==
    ASSUME NEW S, NEW a \in Seq(S), NEW b \in Seq(S), NEW c \in Seq(S),
           Len(c) = Len(a) + Len(b), \A k \in 1 .. Len(a) : c[k] = a[k],
           \A k \in 1 .. Len(b) : c[Len(a) + k] = b[k]
    PROVE  Joined(a, b) = c
<1> DEFINE d == Joined(a, b)
<1>a. /\ d \in Seq(S) /\ Len(d) = Len(a) + Len(b)
      /\ Len(a) \in Nat /\ Len(b) \in Nat
  BY JoinedProps
<1>b. \A k \in 1 .. Len(a) : d[k] = a[k]  BY JoinedProps
<1>c. \A k \in 1 .. Len(b) : d[Len(a) + k] = b[k]  BY JoinedProps
<1> HIDE DEF d
<1>2. ASSUME NEW k \in 1 .. Len(d) PROVE d[k] = c[k]
  <2>1. CASE k \in 1 .. Len(a)  BY <1>b, <2>1
  <2>2. CASE k \notin 1 .. Len(a)
    <3> DEFINE l == k - Len(a)
    <3>1. l \in 1 .. Len(b) /\ Len(a) + l = k  BY <1>a, <2>2
    <3> HIDE DEF l
    <3>2. d[Len(a) + l] = b[l] /\ c[Len(a) + l] = b[l]  BY <1>c, <3>1
    <3> QED BY <3>1, <3>2
  <2> QED BY <2>1, <2>2
<1>3. Len(d) = Len(c)  BY <1>a
<1>4. d = c  BY <1>a, <1>2, <1>3, SameSequence
<1> QED BY <1>4 DEF d

\* A part of a sequence.
Cut(s, i, j) == SubSeq(s, i, j)

\* The elements of a part.
LEMMA CutProps ==
    ASSUME NEW S, NEW s \in Seq(S), NEW i \in Nat \ {0}, NEW j \in Nat,
           i <= j + 1, j <= Len(s)
    PROVE  /\ Cut(s, i, j) \in Seq(S) /\ Len(Cut(s, i, j)) = j - i + 1
           /\ \A k \in 1 .. j - i + 1 : Cut(s, i, j)[k] = s[i + k - 1]
<1>1. i \in Int /\ j \in Int /\ \A k \in i .. j : s[k] \in S
  <2>1. \A k \in 1 .. Len(s) : s[k] \in S  BY ElementOfSeq
  <2>2. \A k \in i .. j : k \in 1 .. Len(s)  OBVIOUS
  <2> QED BY <2>1, <2>2
<1>2. /\ SubSeq(s, i, j) \in Seq(S)
      /\ Len(SubSeq(s, i, j)) = IF i <= j THEN j - i + 1 ELSE 0
      /\ \A k \in 1 .. j - i + 1 : SubSeq(s, i, j)[k] = s[i + k - 1]
  BY <1>1, SubSeqProperties
<1>3. Len(SubSeq(s, i, j)) = j - i + 1  BY <1>2
<1> QED BY <1>2, <1>3 DEF Cut

\* All of it.
LEMMA CutAll ==
    ASSUME NEW S, NEW s \in Seq(S)
    PROVE  Cut(s, 1, Len(s)) = s
<1> DEFINE n == Len(s)
           c == Cut(s, 1, n)
<1>1. n \in Nat /\ 1 <= n + 1 /\ n <= Len(s) /\ 1 \in Nat \ {0}  OBVIOUS
<1> HIDE DEF n
<1>2. /\ c \in Seq(S) /\ Len(c) = n - 1 + 1
      /\ \A k \in 1 .. n - 1 + 1 : c[k] = s[1 + k - 1]
  <2>1. c \in Seq(S) /\ Len(c) = n - 1 + 1  BY <1>1, CutProps
  <2>2. \A k \in 1 .. n - 1 + 1 : c[k] = s[1 + k - 1]
    BY <1>1, CutProps
  <2> QED BY <2>1, <2>2
<1> HIDE DEF c
<1>3. Len(c) = Len(s) /\ \A k \in 1 .. Len(c) : c[k] = s[k]
  <2>1. Len(c) = n  BY <1>1, <1>2
  <2>2. ASSUME NEW k \in 1 .. n PROVE c[k] = s[k]
    <3>1. k \in 1 .. n - 1 + 1 /\ 1 + k - 1 = k  BY <1>1
    <3> QED BY <1>2, <3>1
  <2> QED BY <2>1, <2>2 DEF n
<1>4. c = s  BY <1>2, <1>3, SameSequence
<1> QED BY <1>4 DEF c, n

\* Two parts that follow each other.
LEMMA JoinedCuts ==
    ASSUME NEW S, NEW s \in Seq(S), NEW i \in Nat \ {0}, NEW j \in Nat, NEW m \in Nat,
           i <= j + 1, j <= m, m <= Len(s)
    PROVE  Joined(Cut(s, i, j), Cut(s, j + 1, m)) = Cut(s, i, m)
<1> DEFINE a == Cut(s, i, j)
           b == Cut(s, j + 1, m)
           c == Cut(s, i, m)
<1>0. Len(s) \in Nat /\ j <= Len(s) /\ j + 1 \in Nat \ {0} /\ j + 1 <= m + 1 /\ i <= m + 1
  OBVIOUS
<1>1. /\ a \in Seq(S) /\ Len(a) = j - i + 1
      /\ \A k \in 1 .. j - i + 1 : a[k] = s[i + k - 1]
  <2>1. a \in Seq(S) /\ Len(a) = j - i + 1  BY <1>0, CutProps
  <2>2. \A k \in 1 .. j - i + 1 : a[k] = s[i + k - 1]
    BY <1>0, CutProps
  <2> QED BY <2>1, <2>2
<1>2. /\ b \in Seq(S) /\ Len(b) = m - (j + 1) + 1
      /\ \A k \in 1 .. m - (j + 1) + 1 : b[k] = s[(j + 1) + k - 1]
  <2>1. b \in Seq(S) /\ Len(b) = m - (j + 1) + 1  BY <1>0, CutProps
  <2>2. \A k \in 1 .. m - (j + 1) + 1 : b[k] = s[(j + 1) + k - 1]
    BY <1>0, CutProps
  <2> QED BY <2>1, <2>2
<1>3. /\ c \in Seq(S) /\ Len(c) = m - i + 1
      /\ \A k \in 1 .. m - i + 1 : c[k] = s[i + k - 1]
  <2>1. c \in Seq(S) /\ Len(c) = m - i + 1  BY <1>0, CutProps
  <2>2. \A k \in 1 .. m - i + 1 : c[k] = s[i + k - 1]
    BY <1>0, CutProps
  <2> QED BY <2>1, <2>2
<1>a. a \in Seq(S) /\ b \in Seq(S)  BY <1>1, <1>2
<1> HIDE DEF a, b, c
<1>3a. c \in Seq(S) /\ Len(c) = Len(a) + Len(b)  BY <1>1, <1>2, <1>3
<1>4. ASSUME NEW k \in 1 .. Len(a) PROVE c[k] = a[k]
  <2>1. k \in 1 .. j - i + 1 /\ k \in 1 .. m - i + 1  BY <1>1
  <2> QED BY <1>1, <1>3, <2>1
<1>5. ASSUME NEW k \in 1 .. Len(b) PROVE c[Len(a) + k] = b[k]
  <2> DEFINE l == Len(a) + k
  <2>1. k \in 1 .. m - (j + 1) + 1 /\ l \in 1 .. m - i + 1 /\ (j + 1) + k - 1 = i + l - 1
    BY <1>1, <1>2
  <2> HIDE DEF l
  <2>2. b[k] = s[(j + 1) + k - 1] /\ c[l] = s[i + l - 1]  BY <1>2, <1>3, <2>1
  <2>3. c[l] = b[k]  BY <2>1, <2>2
  <2> QED BY <2>3 DEF l
<1>6. Joined(a, b) = c  BY <1>a, <1>3a, <1>4, <1>5, JoinedIs
<1> QED BY <1>6 DEF a, b, c

\* The first of two sequences.
LEMMA FrontOfJoined ==
    ASSUME NEW S, NEW a \in Seq(S), NEW b \in Seq(S)
    PROVE  Cut(Joined(a, b), 1, Len(a)) = a
<1> DEFINE u == Joined(a, b)
           e == Len(a)
           z == Cut(u, 1, e)
<1>1. u \in Seq(S) /\ Len(u) = Len(a) + Len(b) /\ Len(a) \in Nat /\ Len(b) \in Nat
  BY JoinedProps
<1>2. \A k \in 1 .. Len(a) : u[k] = a[k]  BY JoinedProps
<1> HIDE DEF u
<1>3. 1 \in Nat \ {0} /\ e \in Nat /\ 1 <= e + 1 /\ e <= Len(u) /\ e - 1 + 1 = e  BY <1>1
<1> HIDE DEF e
<1>4. /\ z \in Seq(S) /\ Len(z) = e - 1 + 1
      /\ \A k \in 1 .. e - 1 + 1 : z[k] = u[1 + k - 1]
  <2>1. u \in Seq(S)  BY <1>1
  <2>2. z \in Seq(S) /\ Len(z) = e - 1 + 1  BY <1>3, <2>1, CutProps
  <2>3. \A k \in 1 .. e - 1 + 1 : z[k] = u[1 + k - 1]  BY <1>3, <2>1, CutProps
  <2> QED BY <2>2, <2>3
<1> HIDE DEF z
<1>5. ASSUME NEW k \in 1 .. Len(a) PROVE z[k] = a[k]
  <2>1. k \in 1 .. e - 1 + 1 /\ 1 + k - 1 = k  BY <1>3 DEF e
  <2> QED BY <1>2, <1>4, <2>1
<1>6. Len(z) = Len(a)  BY <1>3, <1>4 DEF e
<1>7. z = a
  <2>1. \A k \in 1 .. Len(z) : z[k] = a[k]  BY <1>5, <1>6
  <2> QED BY <1>4, <1>6, <2>1, SameSequence
<1> QED BY <1>7 DEF z, u, e
=============================================================================
