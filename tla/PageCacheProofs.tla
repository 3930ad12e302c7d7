--------------------------- MODULE PageCacheProofs ---------------------------
(***************************************************************************)
(* Proofs about the pages that a session keeps (PageCache), for any sizes  *)
(* of the two caches and any number of responses.                          *)
(***************************************************************************)
EXTENDS PageCache, ArrayLemmas

(***************************************************************************)
(* The inductive invariant.                                                *)
(***************************************************************************)
\* Arrays have contexts, each context is at one place, it has a record, and the
\* contexts of one array have the same page.
StackOK(s, recs) ==
    /\ s \in Seq(Seq(Nat))
    /\ \A i \in DOMAIN s : Len(s[i]) > 0
    /\ \A i, j \in DOMAIN s : \A a \in DOMAIN s[i], b \in DOMAIN s[j] :
         s[i][a] = s[j][b] => i = j /\ a = b
    /\ \A i \in DOMAIN s : \A a \in DOMAIN s[i] :
         /\ s[i][a] \in DOMAIN recs
         /\ recs[s[i][a]].page = recs[s[i][Len(s[i])]].page

\* A later array has a context that was used as late as any of an earlier one.
InOrder(s, u) ==
    \A i, j \in DOMAIN s : i < j =>
        \A a \in DOMAIN s[i] : \E b \in DOMAIN s[j] : u[s[i][a]] <= u[s[j][b]]

\* The context of a request is new until something is kept for it.
ContextInv ==
    /\ counter \in Nat /\ at \in {"idle", "restore", "respond", "save", "sleep"}
    /\ req = [ctx |-> req.ctx, page |-> req.page, changed |-> req.changed,
              from |-> req.from, sender |-> req.sender]
    /\ req.from \in Nat
    /\ at # "idle" => counter > 0 /\ req.ctx = counter /\ counter \notin DOMAIN shown
    /\ DOMAIN records \subseteq 1 .. counter /\ DOMAIN perm \subseteq 1 .. counter
    /\ DOMAIN shown \subseteq 1 .. counter
    /\ at \in {"restore", "respond"} => counter \notin DOMAIN perm
    /\ at \in {"restore", "respond", "save"} => counter \notin DOMAIN records

UsedInv ==
    /\ DOMAIN records \subseteq DOMAIN used
    /\ \A c \in DOMAIN used : used[c] \in 0 .. counter
    /\ at = "sleep" /\ counter \in DOMAIN records => used[counter] = counter
    /\ InOrder(stack, used)

\* What is kept for a context is what was shown in it, or is about to be.
ShownInv ==
    /\ \A c \in DOMAIN shown : /\ c \in DOMAIN perm => perm[c] = shown[c]
                               /\ c \in DOMAIN records => records[c].page = shown[c]
    /\ at \in {"save", "sleep"} /\ counter \in DOMAIN perm => perm[counter] = req.page
    /\ at = "sleep" /\ counter \in DOMAIN records => records[counter].page = req.page

\* The record of a context keeps the request whose action ran in it.
RanInv ==
    \A a \in ran :
        /\ a.ctx \in 1 .. counter /\ a.sender # NoSender
        /\ at \in {"restore", "respond"} => a.ctx # counter
        /\ at = "save" /\ a.ctx = counter => a.from = req.from /\ a.sender = req.sender
        /\ a.ctx \in DOMAIN records /\ PageRefreshOnBacktrack =>
             records[a.ctx].from = a.from /\ records[a.ctx].sender = a.sender

PCInv == ContextInv /\ StackOK(stack, records) /\ UsedInv /\ ShownInv /\ RanInv

(***************************************************************************)
(* Lemmas on the stack.                                                    *)
(***************************************************************************)
LEMMA AtLeastIs ==
  ASSUME NEW n \in Int, NEW m \in Int
  PROVE  AtLeast(n, m) = IF n <= m THEN m ELSE n
<1>1. \E x \in {n, m} : \A y \in {n, m} : x >= y  OBVIOUS
<1>2. Max({n, m}) \in {n, m} /\ \A y \in {n, m} : Max({n, m}) >= y  BY <1>1 DEF Max
<1>3. QED  BY <1>2 DEF AtLeast

\* Where _contextArrayForContextID finds a context.
LEMMA StackIndexIs ==
  ASSUME stack \in Seq(Seq(Nat)), NEW c
  PROVE  \/ /\ StackIndex(c) = 0
            /\ \A i \in DOMAIN stack : \A a \in DOMAIN stack[i] : stack[i][a] # c
         \/ /\ StackIndex(c) \in DOMAIN stack
            /\ \E a \in DOMAIN stack[StackIndex(c)] : stack[StackIndex(c)][a] = c
<1> DEFINE places == {i \in DOMAIN stack : c \in ToSet(stack[i])}
<1>1. places \subseteq Nat  OBVIOUS
<1>2. CASE places = {}
  BY <1>2 DEF StackIndex, ToSet
<1>3. CASE places # {}
  <2>1. \E x \in places : \A y \in places : x <= y  BY <1>1, <1>3, LeastOf
  <2>2. Min(places) \in places  BY <2>1 DEF Min
  <2>3. StackIndex(c) = Min(places)  BY <1>3 DEF StackIndex
  <2>4. QED  BY <2>2, <2>3 DEF ToSet
<1>4. QED  BY <1>2, <1>3

\* The arrays after one was moved to the end.
LEMMA ToTheEndIs ==
  ASSUME NEW S, NEW s \in Seq(S), NEW k \in 1 .. Len(s)
  PROVE  /\ ToTheEnd(s, k) \in Seq(S) /\ Len(ToTheEnd(s, k)) = Len(s)
         /\ \A i \in 1 .. Len(s) :
              ToTheEnd(s, k)[i] = s[IF i < k THEN i ELSE IF i < Len(s) THEN i + 1 ELSE k]
<1> DEFINE u == RemoveAt(s, k)
           n == Len(s)
<1>1. n \in Nat /\ k \in 1 .. n /\ k # 0 /\ s[k] \in S  OBVIOUS
<1>2. /\ u \in Seq(S) /\ Len(u) = n - 1
      /\ \A i \in 1 .. n - 1 : u[i] = IF i < k THEN s[i] ELSE s[i + 1]
  BY RemoveAtProps
<1>3. ToTheEnd(s, k) = Append(u, s[k])  BY <1>1 DEF ToTheEnd
<1> HIDE DEF u
<1>4. /\ Append(u, s[k]) \in Seq(S) /\ Len(Append(u, s[k])) = n
      /\ \A i \in 1 .. n - 1 : Append(u, s[k])[i] = u[i]
      /\ Append(u, s[k])[n] = s[k]
  <2>1. Len(u) + 1 = n /\ Len(u) = n - 1  BY <1>1, <1>2
  <2>2. QED  BY <1>1, <1>2, <2>1, AppendProperties
<1> HIDE DEF n
<1>5. ASSUME NEW i \in 1 .. n
      PROVE  Append(u, s[k])[i] = s[IF i < k THEN i ELSE IF i < n THEN i + 1 ELSE k]
  <2>1. CASE i = n  BY <1>1, <1>4, <2>1
  <2>2. CASE i # n
    <3>1. i \in 1 .. n - 1 /\ i < n  BY <1>1, <2>2
    <3>2. QED  BY <1>2, <1>4, <3>1
  <2>3. QED  BY <2>1, <2>2
<1>6. QED  BY <1>3, <1>4, <1>5 DEF n

\* Each array of a stack t is what is left of another one of s, without its
\* first contexts.
IsPart(t, s, f, g) ==
    /\ t \in Seq(Seq(Nat)) /\ f \in [DOMAIN t -> DOMAIN s] /\ g \in [DOMAIN t -> Nat]
    /\ \A i, j \in DOMAIN t : f[i] = f[j] => i = j
    /\ \A i \in DOMAIN t : /\ Len(t[i]) > 0 /\ Len(t[i]) = Len(s[f[i]]) - g[i]
                           /\ \A a \in DOMAIN t[i] : t[i][a] = s[f[i]][g[i] + a]

\* The contexts of a stack have the records, and the pages, that they had.
HasRecords(t, recs, recs2) ==
    \A i \in DOMAIN t : \A a \in DOMAIN t[i] :
      t[i][a] \in DOMAIN recs2 /\ recs2[t[i][a]].page = recs[t[i][a]].page

\* What is left of a stack is one, if the records of its contexts are left.
LEMMA PartOfStack ==
  ASSUME NEW s, NEW recs, NEW t, NEW recs2, NEW f, NEW g,
         StackOK(s, recs), IsPart(t, s, f, g), HasRecords(t, recs, recs2)
  PROVE  StackOK(t, recs2)
<1>1. \A i \in DOMAIN t : /\ t[i] \in Seq(Nat) /\ DOMAIN t[i] = 1 .. Len(t[i]) /\ Len(t[i]) \in Nat
                          /\ f[i] \in DOMAIN s /\ s[f[i]] \in Seq(Nat)
                          /\ Len(s[f[i]]) \in Nat /\ DOMAIN s[f[i]] = 1 .. Len(s[f[i]])
                          /\ g[i] \in Nat
  BY DEF StackOK, IsPart
<1>2. \A i \in DOMAIN t : \A a \in DOMAIN t[i] : g[i] + a \in DOMAIN s[f[i]] /\ a \in Nat
  <2> SUFFICES ASSUME NEW i \in DOMAIN t, NEW a \in DOMAIN t[i]
               PROVE  g[i] + a \in DOMAIN s[f[i]] /\ a \in Nat
    OBVIOUS
  <2>1. Len(t[i]) = Len(s[f[i]]) - g[i]  BY DEF IsPart
  <2>2. QED  BY <1>1, <2>1
<1>3. ASSUME NEW i \in DOMAIN t, NEW j \in DOMAIN t, NEW a \in DOMAIN t[i], NEW b \in DOMAIN t[j],
             t[i][a] = t[j][b]
      PROVE  i = j /\ a = b
  <2>1. s[f[i]][g[i] + a] = s[f[j]][g[j] + b]  BY <1>3 DEF IsPart
  <2>2. f[i] = f[j] /\ g[i] + a = g[j] + b
    <3>1. \A k, l \in DOMAIN s : \A c \in DOMAIN s[k], d \in DOMAIN s[l] :
            s[k][c] = s[l][d] => k = l /\ c = d
      BY DEF StackOK
    <3>2. /\ f[i] \in DOMAIN s /\ f[j] \in DOMAIN s
          /\ g[i] + a \in DOMAIN s[f[i]] /\ g[j] + b \in DOMAIN s[f[j]]
      BY <1>1, <1>2
    <3>3. QED  BY <2>1, <3>1, <3>2
  <2>3. i = j  BY <2>2 DEF IsPart
  <2>4. QED  BY <1>1, <1>2, <2>2, <2>3
<1>4. ASSUME NEW i \in DOMAIN t, NEW a \in DOMAIN t[i]
      PROVE  recs2[t[i][a]].page = recs2[t[i][Len(t[i])]].page
  <2>1. Len(t[i]) \in DOMAIN t[i] /\ g[i] + Len(t[i]) = Len(s[f[i]])
    BY <1>1 DEF IsPart
  <2>2. t[i][a] = s[f[i]][g[i] + a] /\ t[i][Len(t[i])] = s[f[i]][Len(s[f[i]])]
    BY <2>1 DEF IsPart
  <2>3. recs[t[i][a]].page = recs[t[i][Len(t[i])]].page
    <3>1. \A k \in DOMAIN s : \A c \in DOMAIN s[k] : recs[s[k][c]].page = recs[s[k][Len(s[k])]].page
      BY DEF StackOK
    <3>2. f[i] \in DOMAIN s /\ g[i] + a \in DOMAIN s[f[i]]  BY <1>1, <1>2
    <3>3. recs[s[f[i]][g[i] + a]].page = recs[s[f[i]][Len(s[f[i]])]].page  BY <3>1, <3>2
    <3>4. QED  BY <2>2, <3>3
  <2>4. QED  BY <2>1, <2>3 DEF HasRecords
<1>5. QED  BY <1>3, <1>4 DEF StackOK, IsPart, HasRecords

(***************************************************************************)
(* Lemmas on savePage.                                                     *)
(***************************************************************************)
\* The stack with a new context, in an array of its own or in the last one.
Added(r) ==
    IF NewArray(stack, Len(stack), r) THEN Append(stack, <<r.ctx>>)
    ELSE [stack EXCEPT ![Len(stack)] = Append(@, r.ctx)]

LEMMA AddedIs ==
  ASSUME StackOK(stack, records), NEW r, r.ctx \in Nat, r.ctx \notin DOMAIN records
  PROVE  /\ StackOK(Added(r), With(records, r.ctx, Record(r)))
         /\ Len(Added(r)) \in {Len(stack), Len(stack) + 1} /\ Len(Added(r)) > 0
         /\ \A i \in 1 .. Len(Added(r)) - 1 : i \in DOMAIN stack /\ Added(r)[i] = stack[i]
         /\ Added(r)[Len(Added(r))][Len(Added(r)[Len(Added(r))])] = r.ctx
<1> DEFINE n == Len(stack)
           t == Added(r)
           recs == With(records, r.ctx, Record(r))
<1>1. /\ stack \in Seq(Seq(Nat)) /\ n \in Nat /\ DOMAIN stack = 1 .. n
      /\ \A i \in 1 .. n : stack[i] \in Seq(Nat) /\ Len(stack[i]) \in Nat /\ Len(stack[i]) > 0
                           /\ DOMAIN stack[i] = 1 .. Len(stack[i])
  BY DEF StackOK
<1>2. \A i \in 1 .. n : \A a \in DOMAIN stack[i] :
        stack[i][a] \in DOMAIN records /\ stack[i][a] # r.ctx
  BY <1>1 DEF StackOK
<1>3. /\ DOMAIN recs = DOMAIN records \union {r.ctx} /\ recs[r.ctx].page = r.page
      /\ \A c \in DOMAIN records : c # r.ctx => recs[c] = records[c]
  BY DEF With, Record
<1>4. \A i \in 1 .. n : \A a \in DOMAIN stack[i] :
        recs[stack[i][a]].page = recs[stack[i][Len(stack[i])]].page
  <2> SUFFICES ASSUME NEW i \in 1 .. n, NEW a \in DOMAIN stack[i]
               PROVE  recs[stack[i][a]].page = recs[stack[i][Len(stack[i])]].page
    OBVIOUS
  <2>1. Len(stack[i]) \in DOMAIN stack[i]  BY <1>1
  <2>2. records[stack[i][a]].page = records[stack[i][Len(stack[i])]].page
    BY <1>1 DEF StackOK
  <2>3. QED  BY <1>2, <1>3, <2>1, <2>2
<1>5. \A i, j \in 1 .. n : \A a \in DOMAIN stack[i], b \in DOMAIN stack[j] :
        stack[i][a] = stack[j][b] => i = j /\ a = b
  BY <1>1 DEF StackOK
<1> HIDE DEF n
<1>6. CASE NewArray(stack, n, r)
  <2>1. t = Append(stack, <<r.ctx>>)  BY <1>6 DEF Added, n
  <2>2. /\ <<r.ctx>> \in Seq(Nat) /\ Len(<<r.ctx>>) = 1 /\ <<r.ctx>>[1] = r.ctx
        /\ DOMAIN <<r.ctx>> = {1}
    OBVIOUS
  <2>3. /\ t \in Seq(Seq(Nat)) /\ Len(t) = n + 1 /\ DOMAIN t = 1 .. n + 1
        /\ \A i \in 1 .. n : t[i] = stack[i]
        /\ t[n + 1] = <<r.ctx>>
    BY <1>1, <2>1, <2>2, AppendProperties DEF n
  <2> HIDE DEF t, recs
  <2>4. \A i \in 1 .. n + 1 : \A a \in DOMAIN t[i] :
          \/ i \in 1 .. n /\ a \in DOMAIN stack[i] /\ t[i][a] = stack[i][a]
          \/ i = n + 1 /\ a = 1 /\ t[i][a] = r.ctx
    <3> SUFFICES ASSUME NEW i \in 1 .. n + 1, NEW a \in DOMAIN t[i]
                 PROVE  \/ i \in 1 .. n /\ a \in DOMAIN stack[i] /\ t[i][a] = stack[i][a]
                        \/ i = n + 1 /\ a = 1 /\ t[i][a] = r.ctx
      OBVIOUS
    <3>1. i \in 1 .. n \/ i = n + 1  BY <1>1
    <3>2. CASE i \in 1 .. n  BY <2>3, <3>2
    <3>3. CASE i = n + 1
      <4>1. t[i] = <<r.ctx>>  BY <2>3, <3>3
      <4>2. a = 1 /\ t[i][a] = r.ctx  BY <2>2, <4>1
      <4>3. QED  BY <3>3, <4>2
    <3>4. QED  BY <3>1, <3>2, <3>3
  <2>5. ASSUME NEW i \in DOMAIN t, NEW j \in DOMAIN t,
               NEW a \in DOMAIN t[i], NEW b \in DOMAIN t[j], t[i][a] = t[j][b]
        PROVE  i = j /\ a = b
    <3>1. i \in 1 .. n + 1 /\ j \in 1 .. n + 1  BY <2>3
    <3>2. CASE i = n + 1 /\ a = 1 /\ t[i][a] = r.ctx  BY <1>2, <2>4, <2>5, <3>1, <3>2
    <3>3. CASE i \in 1 .. n /\ a \in DOMAIN stack[i] /\ t[i][a] = stack[i][a]
      <4>1. t[j][b] # r.ctx  BY <1>2, <2>5, <3>3
      <4>2. j \in 1 .. n /\ b \in DOMAIN stack[j] /\ t[j][b] = stack[j][b]
        BY <2>4, <3>1, <4>1
      <4>3. stack[i][a] = stack[j][b]  BY <2>5, <3>3, <4>2
      <4>4. QED  BY <1>5, <3>3, <4>2, <4>3
    <3>4. QED  BY <2>4, <3>1, <3>2, <3>3
  <2>6. ASSUME NEW i \in DOMAIN t
        PROVE  /\ Len(t[i]) > 0
               /\ \A a \in DOMAIN t[i] : /\ t[i][a] \in DOMAIN recs
                                         /\ recs[t[i][a]].page = recs[t[i][Len(t[i])]].page
    <3>1. CASE i \in 1 .. n  BY <1>1, <1>2, <1>3, <1>4, <2>3, <3>1
    <3>2. CASE i = n + 1
      <4>1. t[i] = <<r.ctx>>  BY <2>3, <3>2
      <4>2. QED  BY <1>3, <2>2, <4>1
    <3>3. QED  BY <1>1, <2>3, <3>1, <3>2
  <2>7. StackOK(t, recs)  BY <2>3, <2>5, <2>6 DEF StackOK
  <2>8. t[Len(t)][Len(t[Len(t)])] = r.ctx  BY <2>2, <2>3
  <2>9. Len(t) > 0 /\ \A i \in 1 .. Len(t) - 1 : i \in DOMAIN stack /\ t[i] = stack[i]
    BY <1>1, <2>3
  <2>10. QED  BY <2>3, <2>7, <2>8, <2>9 DEF t, recs, n
<1>7. CASE ~NewArray(stack, n, r)
  <2>1. /\ n # 0 /\ Last(stack[n]) \in DOMAIN records
        /\ records[Last(stack[n])].page = r.page
    BY <1>7 DEF NewArray
  <2>2. n \in 1 .. n  BY <1>1, <2>1
  <2> DEFINE m == Len(stack[n])
             last == Append(stack[n], r.ctx)
  <2>3. /\ m \in Nat /\ m > 0 /\ stack[n] \in Seq(Nat) /\ stack[n][m] = Last(stack[n])
        /\ DOMAIN stack[n] = 1 .. m
    BY <1>1, <2>2 DEF Last
  <2>4. /\ last \in Seq(Nat) /\ Len(last) = m + 1 /\ DOMAIN last = 1 .. m + 1
        /\ \A a \in 1 .. m : last[a] = stack[n][a]
        /\ last[m + 1] = r.ctx
    BY <2>3, AppendProperties
  <2>5. t = [stack EXCEPT ![n] = last]  BY <1>7 DEF Added, n
  <2> HIDE DEF last
  <2>6. /\ t \in Seq(Seq(Nat)) /\ Len(t) = n /\ DOMAIN t = 1 .. n
        /\ t[n] = last /\ \A i \in 1 .. n : i # n => t[i] = stack[i]
    BY <1>1, <2>2, <2>4, <2>5, ExceptSeq DEF n
  <2> HIDE DEF t, recs, m
  <2>7. \A a \in 1 .. m + 1 : a \in 1 .. m \/ a = m + 1  BY <2>3
  <2>8. \A i \in 1 .. n : \A a \in DOMAIN t[i] :
          \/ a \in DOMAIN stack[i] /\ t[i][a] = stack[i][a]
          \/ i = n /\ a = m + 1 /\ t[i][a] = r.ctx
    BY <2>3, <2>4, <2>6, <2>7
  <2>9. ASSUME NEW i \in DOMAIN t, NEW j \in DOMAIN t,
               NEW a \in DOMAIN t[i], NEW b \in DOMAIN t[j], t[i][a] = t[j][b]
        PROVE  i = j /\ a = b
    <3>1. i \in 1 .. n /\ j \in 1 .. n  BY <2>6
    <3>2. CASE i = n /\ a = m + 1 /\ t[i][a] = r.ctx
      <4>1. ~(b \in DOMAIN stack[j] /\ t[j][b] = stack[j][b])  BY <1>2, <2>9, <3>1, <3>2
      <4>2. QED  BY <2>8, <3>1, <3>2, <4>1
    <3>3. CASE a \in DOMAIN stack[i] /\ t[i][a] = stack[i][a]
      <4>1. t[j][b] # r.ctx  BY <1>2, <2>9, <3>1, <3>3
      <4>2. b \in DOMAIN stack[j] /\ t[j][b] = stack[j][b]  BY <2>8, <3>1, <4>1
      <4>3. stack[i][a] = stack[j][b]  BY <2>9, <3>3, <4>2
      <4>4. QED  BY <1>5, <3>1, <3>3, <4>2, <4>3
    <3>4. QED  BY <2>8, <3>1, <3>2, <3>3
  <2>10. \A i \in 1 .. n : i # n => Len(t[i]) > 0
    BY <1>1, <2>6
  <2>11. \A i \in DOMAIN t : \A a \in DOMAIN t[i] : t[i][a] \in DOMAIN recs
    BY <1>2, <1>3, <2>6, <2>8
  <2>12. ASSUME NEW i \in DOMAIN t, NEW a \in DOMAIN t[i]
         PROVE  recs[t[i][a]].page = recs[t[i][Len(t[i])]].page
    <3>1. CASE i # n  BY <1>4, <2>6, <3>1
    <3>2. CASE i = n
      <4>1. t[i][Len(t[i])] = r.ctx  BY <2>4, <2>6, <3>2
      <4>2. CASE a = m + 1  BY <2>4, <2>6, <3>2, <4>1, <4>2
      <4>3. CASE a \in 1 .. m
        <5>1. t[i][a] = stack[n][a] /\ a \in DOMAIN stack[n]  BY <2>3, <2>4, <2>6, <3>2, <4>3
        <5>2. recs[stack[n][a]].page = recs[stack[n][m]].page  BY <1>4, <2>2, <5>1 DEF m
        <5>3. recs[stack[n][m]].page = r.page
          BY <1>2, <1>3, <2>1, <2>2, <2>3
        <5>4. QED  BY <1>3, <4>1, <5>1, <5>2, <5>3
      <4>4. QED  BY <2>4, <2>6, <2>7, <3>2, <4>2, <4>3
    <3>3. QED  BY <3>1, <3>2
  <2>13. Len(t[n]) = m + 1 /\ m + 1 > 0  BY <2>3, <2>4, <2>6
  <2>14. StackOK(t, recs)  BY <2>6, <2>9, <2>10, <2>11, <2>12, <2>13 DEF StackOK
  <2>15. t[Len(t)][Len(t[Len(t)])] = r.ctx  BY <2>4, <2>6
  <2>16. Len(t) > 0 /\ \A i \in 1 .. Len(t) - 1 : i \in DOMAIN stack /\ t[i] = stack[i]
    BY <1>1, <2>1, <2>6
  <2>17. QED  BY <2>6, <2>14, <2>15, <2>16 DEF t, recs, n
<1>8. QED  BY <1>6, <1>7 DEF n

\* What savePage keeps: the last array ends with the new context, the others are
\* arrays of before, and the records of what is kept are kept.
LEMMA SavePageIs ==
  ASSUME PageCacheSize \in Nat, PageCacheSize > 0, StackOK(stack, records),
         NEW r, r.ctx \in Nat, r.ctx \notin DOMAIN records
  PROVE  /\ StackOK(SavePage(r).stack, SavePage(r).records)
         /\ DOMAIN SavePage(r).records \subseteq DOMAIN records \union {r.ctx}
         /\ \A c \in DOMAIN SavePage(r).records :
              SavePage(r).records[c] = IF c = r.ctx THEN Record(r) ELSE records[c]
         /\ Len(SavePage(r).stack) > 0
         /\ LET t == SavePage(r).stack
            IN  /\ t[Len(t)][Len(t[Len(t)])] = r.ctx
                /\ \E off \in Nat : \A i \in 1 .. Len(t) - 1 :
                     i + off \in DOMAIN stack /\ t[i] = stack[i + off]
<1> DEFINE s == Added(r)
           recs == With(records, r.ctx, Record(r))
           k == Len(s)
           n == Len(s[k])
           low == AtLeast(1, n - PageCacheSize + 1)
           last == SubSeq(s[k], low, n)
           trimmed == [s EXCEPT ![k] = last]
           over == AtLeast(0, Len(trimmed) - PageCacheSize)
           gone == TrimArray(s[k]) \union UNION {TrimStack(trimmed[i]) : i \in 1 .. over}
           t == SubSeq(trimmed, over + 1, Len(trimmed))
           recs2 == WithoutKeys(recs, gone)
<1>1. SavePage(r) = [stack |-> t, records |-> recs2]
  <2>1. StackIndex(r.ctx) = 0
    <3>1. stack \in Seq(Seq(Nat))  BY DEF StackOK
    <3>2. \A i \in DOMAIN stack : \A a \in DOMAIN stack[i] : stack[i][a] # r.ctx
      BY DEF StackOK
    <3>3. QED  BY <3>1, <3>2, StackIndexIs
  <2>2. QED  BY <2>1 DEF SavePage, Added
<1>2. /\ StackOK(s, recs) /\ k \in {Len(stack), Len(stack) + 1} /\ k > 0
      /\ \A i \in 1 .. k - 1 : i \in DOMAIN stack /\ s[i] = stack[i]
      /\ s[k][n] = r.ctx
  BY AddedIs
<1>3. /\ DOMAIN recs = DOMAIN records \union {r.ctx} /\ recs[r.ctx] = Record(r)
      /\ \A c \in DOMAIN records : c # r.ctx => recs[c] = records[c]
  BY DEF With
<1> HIDE DEF s, recs
<1>4. /\ s \in Seq(Seq(Nat)) /\ k \in Nat /\ DOMAIN s = 1 .. k /\ k \in 1 .. k
      /\ \A i \in 1 .. k : /\ s[i] \in Seq(Nat) /\ Len(s[i]) \in Nat /\ Len(s[i]) > 0
                           /\ DOMAIN s[i] = 1 .. Len(s[i])
      /\ s[k] \in Seq(Nat) /\ n \in Nat /\ n > 0 /\ DOMAIN s[k] = 1 .. n
  BY <1>2 DEF StackOK
<1> HIDE DEF k, n
<1>5. low \in 1 .. n /\ n - low + 1 <= PageCacheSize
      /\ (low = 1 \/ low = n - PageCacheSize + 1) /\ n - PageCacheSize < low
  <2>1. n - PageCacheSize + 1 \in Int  BY <1>4
  <2>2. low = IF 1 <= n - PageCacheSize + 1 THEN n - PageCacheSize + 1 ELSE 1
    BY <2>1, AtLeastIs
  <2> HIDE DEF low
  <2>3. QED  BY <1>4, <2>2
<1> HIDE DEF low
<1>6. /\ last \in Seq(Nat) /\ Len(last) = n - low + 1 /\ DOMAIN last = 1 .. n - low + 1
      /\ \A a \in 1 .. n - low + 1 : last[a] = s[k][(low - 1) + a]
  <2>1. low \in Int /\ n \in Int /\ \A a \in low .. n : s[k][a] \in Nat
    BY <1>4, <1>5
  <2>2. /\ last \in Seq(Nat)
        /\ Len(last) = IF low <= n THEN n - low + 1 ELSE 0
        /\ \A a \in 1 .. n - low + 1 : last[a] = s[k][low + a - 1]
    BY <2>1, SubSeqProperties
  <2> HIDE DEF last
  <2>3. \A a \in 1 .. n - low + 1 : low + a - 1 = (low - 1) + a  BY <1>5
  <2>4. low <= n /\ n - low + 1 \in Nat  BY <1>4, <1>5
  <2>5. QED  BY <2>2, <2>3, <2>4
<1> HIDE DEF last
<1>7. /\ trimmed \in Seq(Seq(Nat)) /\ Len(trimmed) = k /\ DOMAIN trimmed = 1 .. k
      /\ trimmed[k] = last /\ \A i \in 1 .. k : i # k => trimmed[i] = s[i]
  <2>1. k \in 1 .. Len(s) /\ Len(s) = k  BY <1>4 DEF k
  <2>2. /\ trimmed \in Seq(Seq(Nat)) /\ Len(trimmed) = k
        /\ \A i \in 1 .. k : trimmed[i] = IF i = k THEN last ELSE s[i]
    BY <1>4, <1>6, <2>1, ExceptSeq
  <2> HIDE DEF trimmed
  <2>3. QED  BY <1>4, <2>2
<1> HIDE DEF trimmed
<1>8. over \in Nat /\ over < k
  <2>1. k - PageCacheSize \in Int  BY <1>4
  <2>2. over = AtLeast(0, k - PageCacheSize)  BY <1>7
  <2> HIDE DEF over
  <2>2a. over = IF 0 <= k - PageCacheSize THEN k - PageCacheSize ELSE 0
    BY <2>1, <2>2, AtLeastIs
  <2>3. QED  BY <1>4, <2>2a
<1> HIDE DEF over
<1>9. /\ t \in Seq(Seq(Nat)) /\ Len(t) = k - over /\ DOMAIN t = 1 .. k - over
      /\ \A i \in 1 .. k - over : t[i] = trimmed[i + over]
  <2>1. over + 1 \in Int /\ k \in Int /\ \A i \in over + 1 .. k : trimmed[i] \in Seq(Nat)
    BY <1>4, <1>7, <1>8
  <2>2. t = SubSeq(trimmed, over + 1, k)  BY <1>7
  <2> HIDE DEF t
  <2>3. /\ t \in Seq(Seq(Nat))
        /\ Len(t) = IF over + 1 <= k THEN k - (over + 1) + 1 ELSE 0
        /\ \A i \in 1 .. k - (over + 1) + 1 : t[i] = trimmed[over + 1 + i - 1]
    BY <2>1, <2>2, SubSeqProperties
  <2>4. k - (over + 1) + 1 = k - over /\ over + 1 <= k  BY <1>4, <1>8
  <2>5. \A i \in 1 .. k - over : over + 1 + i - 1 = i + over  BY <1>8
  <2>6. QED  BY <2>3, <2>4, <2>5
<1> HIDE DEF t
<1>9a. \A i \in DOMAIN t : i \in Nat /\ i > 0 /\ i <= k - over /\ i + over \in 1 .. k
  <2> SUFFICES ASSUME NEW i \in 1 .. k - over
               PROVE  i \in Nat /\ i > 0 /\ i <= k - over /\ i + over \in 1 .. k
    BY <1>9
  <2>1. QED  BY <1>4, <1>8
<1> DEFINE f == [i \in DOMAIN t |-> i + over]
           g == [i \in DOMAIN t |-> IF i + over = k THEN low - 1 ELSE 0]
<1>10. \A i \in DOMAIN t : f[i] = i + over /\ f[i] \in DOMAIN s
  BY <1>4, <1>9a
<1>11. \A i \in DOMAIN t : g[i] = (IF i + over = k THEN low - 1 ELSE 0) /\ g[i] \in Nat
  BY <1>5
<1>12. f \in [DOMAIN t -> DOMAIN s] /\ g \in [DOMAIN t -> Nat]
  BY <1>10, <1>11
<1>13. \A i, j \in DOMAIN t : f[i] = f[j] => i = j
  BY <1>8, <1>9, <1>10
<1>14. ASSUME NEW i \in DOMAIN t
       PROVE  /\ Len(t[i]) > 0 /\ Len(t[i]) = Len(s[f[i]]) - g[i]
              /\ \A a \in DOMAIN t[i] : t[i][a] = s[f[i]][g[i] + a]
  <2>1. CASE i + over = k
    <3>1. t[i] = last /\ f[i] = k /\ g[i] = low - 1  BY <1>7, <1>9, <1>10, <1>11, <2>1
    <3>2. Len(s[k]) = n  BY DEF n
    <3> HIDE DEF f, g
    <3>3. n - low + 1 = n - (low - 1) /\ n - low + 1 > 0  BY <1>4, <1>5
    <3>4. QED  BY <1>6, <3>1, <3>2, <3>3
  <2>2. CASE i + over # k
    <3>1. i + over \in 1 .. k  BY <1>9a
    <3>2. t[i] = s[i + over] /\ f[i] = i + over /\ g[i] = 0
      BY <1>7, <1>9, <1>10, <1>11, <2>2, <3>1
    <3>3. Len(s[i + over]) \in Nat /\ Len(s[i + over]) > 0
          /\ DOMAIN s[i + over] = 1 .. Len(s[i + over])
      BY <1>4, <3>1
    <3> HIDE DEF f, g
    <3>4. QED  BY <3>2, <3>3
  <2>3. QED  BY <2>1, <2>2
<1>15. /\ DOMAIN recs2 = DOMAIN recs \ gone
       /\ \A c \in DOMAIN recs2 : recs2[c] = recs[c]
  BY DEF WithoutKeys, Restrict
<1>16. \A i, j \in DOMAIN s : \A a \in DOMAIN s[i], b \in DOMAIN s[j] :
         s[i][a] = s[j][b] => i = j /\ a = b
  BY <1>2 DEF StackOK
<1>17. \A i \in DOMAIN t : \A a \in DOMAIN t[i] : g[i] + a \in DOMAIN s[f[i]] /\ a \in Nat /\ a > 0
  <2> SUFFICES ASSUME NEW i \in DOMAIN t, NEW a \in DOMAIN t[i]
               PROVE  g[i] + a \in DOMAIN s[f[i]] /\ a \in Nat /\ a > 0
    OBVIOUS
  <2>1. f[i] \in 1 .. k /\ g[i] \in Nat  BY <1>4, <1>10, <1>11
  <2>2. t[i] \in Seq(Nat)  BY <1>9
  <2> HIDE DEF f, g
  <2>3. Len(t[i]) = Len(s[f[i]]) - g[i] /\ a \in 1 .. Len(t[i])  BY <1>14, <2>2
  <2>4. Len(s[f[i]]) \in Nat /\ DOMAIN s[f[i]] = 1 .. Len(s[f[i]])  BY <1>4, <2>1
  <2>5. QED  BY <2>1, <2>3, <2>4
<1>18. ASSUME NEW i \in DOMAIN t, NEW a \in DOMAIN t[i]
       PROVE  t[i][a] \in DOMAIN recs2
  <2> DEFINE c == s[f[i]][g[i] + a]
  <2>1. /\ t[i][a] = c /\ f[i] \in 1 .. k /\ g[i] + a \in DOMAIN s[f[i]]
        /\ c \in DOMAIN recs
    BY <1>2, <1>4, <1>10, <1>14, <1>17 DEF StackOK
  <2>2. c \notin TrimArray(s[k])
    <3> SUFFICES ASSUME NEW b \in 1 .. n - PageCacheSize, s[k][b] = c PROVE FALSE
      BY DEF TrimArray, n
    <3>1. b \in DOMAIN s[k] /\ b < low  BY <1>4, <1>5
    <3>2. f[i] = k /\ g[i] + a = b
      <4> HIDE DEF f, g
      <4>1. f[i] \in DOMAIN s /\ k \in DOMAIN s  BY <1>4, <2>1
      <4>2. s[f[i]][g[i] + a] = s[k][b]  OBVIOUS
      <4>3. QED  BY <1>16, <2>1, <3>1, <4>1, <4>2
    <3>3. g[i] = low - 1  BY <1>10, <1>11, <3>2
    <3> HIDE DEF f, g
    <3>4. QED  BY <1>5, <1>17, <3>1, <3>2, <3>3
  <2>3. ASSUME NEW j \in 1 .. over PROVE c \notin TrimStack(trimmed[j])
    <3> SUFFICES ASSUME trimmed[j][1] = c PROVE FALSE
      BY DEF TrimStack
    <3>1. j \in 1 .. k /\ j # k  BY <1>4, <1>8
    <3>2. trimmed[j] = s[j] /\ 1 \in DOMAIN s[j]  BY <1>4, <1>7, <3>1
    <3>3. f[i] = j
      <4> HIDE DEF f, g
      <4>1. f[i] \in DOMAIN s /\ j \in DOMAIN s  BY <1>4, <2>1, <3>1
      <4>2. s[f[i]][g[i] + a] = s[j][1]  BY <3>2
      <4>3. QED  BY <1>16, <2>1, <3>2, <4>1, <4>2
    <3>4. i \in Nat /\ i > 0 /\ i + over = j  BY <1>9, <1>10, <3>3
    <3>5. QED  BY <1>8, <3>4
  <2>4. QED  BY <1>15, <2>1, <2>2, <2>3
<1>19. StackOK(t, recs2)
  <2>1. HasRecords(t, recs, recs2)  BY <1>15, <1>18 DEF HasRecords
  <2> HIDE DEF t, recs2, f, g
  <2>2. IsPart(t, s, f, g)  BY <1>9, <1>12, <1>13, <1>14 DEF IsPart
  <2>3. QED  BY <1>2, <2>1, <2>2, PartOfStack
<1>20. k - over \in DOMAIN t /\ k - over > 0 /\ (k - over) + over = k
  BY <1>4, <1>8, <1>9
<1>21. t[k - over] = last /\ Len(last) \in 1 .. n - low + 1 /\ last[Len(last)] = r.ctx
  <2>1. t[k - over] = last  BY <1>7, <1>9, <1>20
  <2>2. n - low + 1 \in 1 .. n - low + 1 /\ (low - 1) + (n - low + 1) = n
    BY <1>4, <1>5
  <2>3. QED  BY <1>2, <1>6, <2>1, <2>2
<1>22. \A i \in 1 .. (k - over) - 1 : i + over \in DOMAIN stack /\ t[i] = stack[i + over]
  <2> SUFFICES ASSUME NEW i \in 1 .. (k - over) - 1
               PROVE  i + over \in DOMAIN stack /\ t[i] = stack[i + over]
    OBVIOUS
  <2>1. i \in 1 .. k - over /\ i + over \in 1 .. k /\ i + over # k /\ i + over \in 1 .. k - 1
    BY <1>4, <1>8
  <2>2. t[i] = s[i + over]  BY <1>7, <1>9, <2>1
  <2>3. QED  BY <1>2, <2>1, <2>2
<1>23. DOMAIN recs2 \subseteq DOMAIN records \union {r.ctx}
       /\ \A c \in DOMAIN recs2 : recs2[c] = IF c = r.ctx THEN Record(r) ELSE records[c]
  BY <1>3, <1>15
<1> HIDE DEF recs2
<1> HIDE DEF f, g
<1>24. SavePage(r).stack = t /\ SavePage(r).records = recs2  BY <1>1
<1>25. over \in Nat /\ Len(t) = k - over /\ Len(t) > 0  BY <1>8, <1>9, <1>20
<1>26. t[Len(t)][Len(t[Len(t)])] = r.ctx  BY <1>21, <1>25
<1>27. \A i \in 1 .. Len(t) - 1 : i + over \in DOMAIN stack /\ t[i] = stack[i + over]
  BY <1>22, <1>25
<1>28. QED  BY <1>19, <1>23, <1>24, <1>25, <1>26, <1>27


(***************************************************************************)
(* Lemmas on the order of the stack.                                       *)
(***************************************************************************)
\* The order depends on when the contexts of the stack were used.
LEMMA SameOrder ==
  ASSUME NEW s, NEW u, NEW u2, InOrder(s, u),
         \A i \in DOMAIN s : \A a \in DOMAIN s[i] : u2[s[i][a]] = u[s[i][a]]
  PROVE  InOrder(s, u2)
BY DEF InOrder

\* A context that is used now goes to the end of the stack with its array.
LEMMA RestoreIs ==
  ASSUME StackOK(stack, records), ContextInv, UsedInv, NEW c \in Nat
  PROVE  /\ StackOK(RestoreStack(c), records)
         /\ InOrder(RestoreStack(c), [used EXCEPT ![c] = counter])
<1> DEFINE n == Len(stack)
           k == StackIndex(c)
           t == ToTheEnd(stack, k)
           u2 == [used EXCEPT ![c] = counter]
           f == [i \in 1 .. n |-> IF i < k THEN i ELSE IF i < n THEN i + 1 ELSE k]
           g == [i \in 1 .. n |-> 0]
<1>1. /\ stack \in Seq(Seq(Nat)) /\ n \in Nat /\ DOMAIN stack = 1 .. n
      /\ \A i \in 1 .. n : \A a \in DOMAIN stack[i] : stack[i][a] \in DOMAIN records
      /\ \A i, j \in 1 .. n : \A a \in DOMAIN stack[i], b \in DOMAIN stack[j] :
           stack[i][a] = stack[j][b] => i = j /\ a = b
      /\ \A i \in 1 .. n : /\ stack[i] \in Seq(Nat) /\ Len(stack[i]) \in Nat /\ Len(stack[i]) > 0
                           /\ DOMAIN stack[i] = 1 .. Len(stack[i])
  BY DEF StackOK
<1>2. /\ counter \in Nat /\ DOMAIN records \subseteq DOMAIN used /\ InOrder(stack, used)
      /\ \A x \in DOMAIN used : used[x] \in 0 .. counter
  BY DEF ContextInv, UsedInv
<1>3. \A x \in DOMAIN used : u2[x] = (IF x = c THEN counter ELSE used[x]) /\ u2[x] \in 0 .. counter
  BY <1>2
<1> HIDE DEF u2, n
<1>4. CASE c \notin DOMAIN records \/ k = 0
  <2>1. RestoreStack(c) = stack  BY <1>4 DEF RestoreStack, ToTheEnd
  <2>2. \A i \in DOMAIN stack : \A a \in DOMAIN stack[i] : stack[i][a] # c
    <3>1. CASE c \notin DOMAIN records  BY <1>1, <3>1
    <3>2. CASE k = 0
      <4>1. StackIndex(c) \notin DOMAIN stack  BY <1>1, <3>2
      <4>2. QED  BY <1>1, <4>1, StackIndexIs
    <3>3. QED  BY <1>4, <3>1, <3>2
  <2>3. InOrder(stack, u2)
    <3>1. \A i \in DOMAIN stack : \A a \in DOMAIN stack[i] :
            stack[i][a] \in DOMAIN used /\ stack[i][a] # c
      BY <1>1, <1>2, <2>2
    <3>2. \A i \in DOMAIN stack : \A a \in DOMAIN stack[i] : u2[stack[i][a]] = used[stack[i][a]]
      BY <1>3, <3>1
    <3>3. QED  BY <1>2, <3>2, SameOrder
  <2>4. QED  BY <2>1, <2>3 DEF u2
<1>5. CASE c \in DOMAIN records /\ k # 0
  <2>1. PICK x \in DOMAIN stack[k] : k \in 1 .. n /\ stack[k][x] = c
    BY <1>1, <1>5, StackIndexIs
  <2>2. RestoreStack(c) = t  BY <1>5 DEF RestoreStack
  <2> HIDE DEF k
  <2>3. /\ t \in Seq(Seq(Nat)) /\ Len(t) = n /\ DOMAIN t = 1 .. n
        /\ \A i \in 1 .. n : t[i] = stack[f[i]]
    <3>1. k \in 1 .. Len(stack) /\ Len(stack) = n  BY <2>1 DEF n
    <3>2. /\ t \in Seq(Seq(Nat)) /\ Len(t) = n
          /\ \A i \in 1 .. n : t[i] = stack[IF i < k THEN i ELSE IF i < n THEN i + 1 ELSE k]
      <4>1. /\ t \in Seq(Seq(Nat)) /\ Len(t) = Len(stack)
            /\ \A i \in 1 .. Len(stack) :
                 t[i] = stack[IF i < k THEN i ELSE IF i < Len(stack) THEN i + 1 ELSE k]
        <5> HIDE DEF k
        <5> DEFINE S == Seq(Nat)
        <5>1. stack \in Seq(S)  BY <1>1
        <5> HIDE DEF S
        <5>2. /\ t \in Seq(S) /\ Len(t) = Len(stack)
              /\ \A i \in 1 .. Len(stack) :
                   t[i] = stack[IF i < k THEN i ELSE IF i < Len(stack) THEN i + 1 ELSE k]
          BY <3>1, <5>1, ToTheEndIs
        <5>3. QED  BY <5>2 DEF S
      <4>2. QED  BY <3>1, <4>1
    <3> HIDE DEF t
    <3>3. QED  BY <1>1, <3>2
  <2>4. \A i \in 1 .. n : f[i] = IF i < k THEN i ELSE IF i < n THEN i + 1 ELSE k
    OBVIOUS
  <2>5. \A i \in 1 .. n : f[i] \in 1 .. n /\ g[i] = 0  BY <1>1, <2>1
  <2>6. f \in [1 .. n -> 1 .. n] /\ g \in [1 .. n -> Nat]  BY <2>5
  <2> HIDE DEF t, f, g
  <2>7. \A i, j \in 1 .. n : i < j =>
          /\ j = n => f[j] = k
          /\ j # n => f[i] < f[j] /\ f[i] # k /\ f[j] # k
    <3> SUFFICES ASSUME NEW i \in 1 .. n, NEW j \in 1 .. n, i < j
                 PROVE  /\ j = n => f[j] = k
                        /\ j # n => f[i] < f[j] /\ f[i] # k /\ f[j] # k
      OBVIOUS
    <3>1. f[i] = IF i < k THEN i ELSE IF i < n THEN i + 1 ELSE k  BY <2>4
    <3>2. f[j] = IF j < k THEN j ELSE IF j < n THEN j + 1 ELSE k  BY <2>4
    <3>3. n \in Nat /\ k \in 1 .. n  BY <1>1, <2>1
    <3>4. QED  BY <3>1, <3>2, <3>3
  <2>8. \A i, j \in 1 .. n : f[i] = f[j] => i = j
    <3> SUFFICES ASSUME NEW i \in 1 .. n, NEW j \in 1 .. n, i # j
                 PROVE  f[i] # f[j]
      OBVIOUS
    <3>1. f[i] = IF i < k THEN i ELSE IF i < n THEN i + 1 ELSE k  BY <2>4
    <3>2. f[j] = IF j < k THEN j ELSE IF j < n THEN j + 1 ELSE k  BY <2>4
    <3>3. n \in Nat /\ k \in 1 .. n  BY <1>1, <2>1
    <3>4. QED  BY <3>1, <3>2, <3>3
  <2>9. IsPart(t, stack, f, g)
    <3>1. ASSUME NEW i \in 1 .. n
          PROVE  /\ Len(t[i]) > 0 /\ Len(t[i]) = Len(stack[f[i]]) - g[i]
                 /\ \A a \in DOMAIN t[i] : t[i][a] = stack[f[i]][g[i] + a]
      BY <1>1, <2>3, <2>5
    <3>2. QED  BY <1>1, <2>3, <2>6, <2>8, <3>1 DEF IsPart
  <2>10. StackOK(t, records)
    <3>1. \A i \in DOMAIN t : \A a \in DOMAIN t[i] : t[i][a] \in DOMAIN records
      <4> SUFFICES ASSUME NEW i \in 1 .. n, NEW a \in DOMAIN t[i]
                   PROVE  t[i][a] \in DOMAIN records
        BY <2>3
      <4>1. t[i] = stack[f[i]] /\ f[i] \in 1 .. n  BY <2>3, <2>5
      <4>2. QED  BY <1>1, <4>1
    <3>a. HasRecords(t, records, records)  BY <3>1 DEF HasRecords
    <3>2. QED  BY <2>9, <3>a, PartOfStack
  <2>11. ASSUME NEW i \in DOMAIN t, NEW j \in DOMAIN t, i < j, NEW a \in DOMAIN t[i]
         PROVE  \E b \in DOMAIN t[j] : u2[t[i][a]] <= u2[t[j][b]]
    <3>1. /\ i \in 1 .. n /\ j \in 1 .. n /\ f[i] \in 1 .. n /\ f[j] \in 1 .. n
          /\ t[i] = stack[f[i]] /\ t[j] = stack[f[j]]
      BY <2>3, <2>5
    <3>2. t[i][a] \in DOMAIN used /\ u2[t[i][a]] \in 0 .. counter
      BY <1>1, <1>2, <1>3, <3>1
    <3>3. CASE j = n
      <4>1. x \in DOMAIN t[j] /\ t[j][x] = c  BY <2>1, <2>7, <2>11, <3>1, <3>3
      <4>2. u2[c] = counter  BY <1>2, <1>3, <1>5
      <4>3. QED  BY <1>2, <3>2, <4>1, <4>2
    <3>4. CASE j # n
      <4>1. f[i] < f[j] /\ f[i] # k /\ f[j] # k  BY <2>7, <2>11, <3>1, <3>4
      <4>2. PICK b \in DOMAIN stack[f[j]] : used[stack[f[i]][a]] <= used[stack[f[j]][b]]
        BY <1>1, <1>2, <3>1, <4>1 DEF InOrder
      <4>3. stack[f[i]][a] # c /\ stack[f[j]][b] # c  BY <1>1, <2>1, <3>1, <4>1
      <4>4. stack[f[i]][a] \in DOMAIN used /\ stack[f[j]][b] \in DOMAIN used
        BY <1>1, <1>2, <3>1
      <4>5. u2[t[i][a]] <= u2[t[j][b]]  BY <1>3, <3>1, <4>2, <4>3, <4>4
      <4>6. QED  BY <3>1, <4>5
    <3>5. QED  BY <3>3, <3>4
  <2>12. InOrder(t, u2)  BY <2>11 DEF InOrder
  <2>13. QED  BY <2>2, <2>10, <2>12 DEF u2
<1>6. QED  BY <1>4, <1>5

\* The array of the context that savePage adds is the last one.
LEMMA SavePageOrder ==
  ASSUME PageCacheSize \in Nat, PageCacheSize > 0, StackOK(stack, records), ContextInv, UsedInv,
         NEW r, r.ctx \in Nat, r.ctx \notin DOMAIN records
  PROVE  InOrder(SavePage(r).stack, With(used, r.ctx, counter))
<1> DEFINE t == SavePage(r).stack
           u2 == With(used, r.ctx, counter)
<1>1. /\ \A i \in DOMAIN stack : \A a \in DOMAIN stack[i] : stack[i][a] \in DOMAIN records
      /\ stack \in Seq(Seq(Nat))
  BY DEF StackOK
<1>2. /\ counter \in Nat /\ DOMAIN records \subseteq DOMAIN used /\ InOrder(stack, used)
      /\ \A c \in DOMAIN used : used[c] \in 0 .. counter
  BY DEF ContextInv, UsedInv
<1>3. /\ u2[r.ctx] = counter
      /\ \A c \in DOMAIN used : c # r.ctx => u2[c] = used[c]
  BY DEF With
<1>4. /\ t \in Seq(Seq(Nat)) /\ Len(t) > 0 /\ t[Len(t)][Len(t[Len(t)])] = r.ctx
      /\ Len(t[Len(t)]) > 0
  BY SavePageIs DEF StackOK
<1>5. PICK off \in Nat : \A i \in 1 .. Len(t) - 1 :
                           i + off \in DOMAIN stack /\ t[i] = stack[i + off]
  BY SavePageIs
<1> HIDE DEF t, u2
<1>6. ASSUME NEW i \in DOMAIN t, NEW j \in DOMAIN t, i < j, NEW a \in DOMAIN t[i]
      PROVE  \E b \in DOMAIN t[j] : u2[t[i][a]] <= u2[t[j][b]]
  <2>1. /\ i \in 1 .. Len(t) - 1 /\ j \in 1 .. Len(t)
        /\ i + off \in DOMAIN stack /\ t[i] = stack[i + off]
    <3>1. Len(t) \in Nat /\ DOMAIN t = 1 .. Len(t)  BY <1>4
    <3>2. i \in 1 .. Len(t) - 1 /\ j \in 1 .. Len(t)  BY <1>6, <3>1
    <3>3. QED  BY <1>5, <3>2
  <2>2. /\ t[i][a] \in DOMAIN used /\ u2[t[i][a]] = used[t[i][a]]
        /\ u2[t[i][a]] \in 0 .. counter
    BY <1>1, <1>2, <1>3, <2>1
  <2>3. CASE j = Len(t)
    <3>1. t[j] \in Seq(Nat) /\ Len(t[j]) \in DOMAIN t[j]  BY <1>4, <2>3
    <3>2. u2[t[j][Len(t[j])]] = counter  BY <1>3, <1>4, <2>3
    <3>3. QED  BY <1>2, <2>2, <3>1, <3>2
  <2>4. CASE j # Len(t)
    <3>1. j \in 1 .. Len(t) - 1 /\ j + off \in DOMAIN stack /\ t[j] = stack[j + off]
      <4>1. j \in 1 .. Len(t) - 1  BY <1>4, <2>1, <2>4
      <4>2. QED  BY <1>5, <4>1
    <3>2. i + off < j + off  BY <1>6, <2>1, <3>1
    <3>3. PICK b \in DOMAIN stack[j + off] :
                 used[stack[i + off][a]] <= used[stack[j + off][b]]
      BY <1>2, <2>1, <3>1, <3>2 DEF InOrder
    <3>4. stack[j + off][b] \in DOMAIN used /\ u2[stack[j + off][b]] = used[stack[j + off][b]]
      BY <1>1, <1>2, <1>3, <3>1
    <3>5. QED  BY <2>1, <2>2, <3>1, <3>3, <3>4
  <2>5. QED  BY <2>3, <2>4
<1>7. QED  BY <1>6 DEF InOrder, t, u2


(***************************************************************************)
(* The invariant is inductive.                                             *)
(***************************************************************************)
\* The permanent cache after a page is kept in it.
LEMMA KeepInIs ==
  ASSUME NEW c, NEW page, KeepIn(c, page)
  PROVE  /\ DOMAIN perm' \subseteq DOMAIN perm \union {c} /\ c \in DOMAIN perm' /\ perm'[c] = page
         /\ \A d \in DOMAIN perm' : d # c => d \in DOMAIN perm /\ perm'[d] = perm[d]
<1> DEFINE kept == SubSeq(permIds, RoomInPermanent + 1, Len(permIds))
           rest == WithoutKeys(perm, ToSet(permIds) \ ToSet(kept))
<1>1. perm' = With(rest, c, page)  BY DEF KeepIn
<1>2. DOMAIN rest \subseteq DOMAIN perm /\ \A d \in DOMAIN rest : rest[d] = perm[d]
  BY DEF WithoutKeys, Restrict
<1> HIDE DEF rest
<1>3. /\ DOMAIN perm' = DOMAIN rest \union {c}
      /\ \A d \in DOMAIN perm' : perm'[d] = IF d = c THEN page ELSE rest[d]
  BY <1>1 DEF With
<1>4. QED  BY <1>2, <1>3

LEMMA PCInit == PagesInit => PCInv
<1> SUFFICES ASSUME PagesInit PROVE PCInv
  OBVIOUS
<1> USE DEF PagesInit, NoRequest, NoContext
<1>1. ContextInv  BY DEF ContextInv
<1>2. StackOK(stack, records)  BY DEF StackOK
<1>3. UsedInv  BY DEF UsedInv, InOrder
<1>4. ShownInv  BY DEF ShownInv
<1>5. RanInv  BY DEF RanInv
<1>6. QED  BY <1>1, <1>2, <1>3, <1>4, <1>5 DEF PCInv

LEMMA PCNext ==
  ASSUME PageCacheSize \in Nat, PCInv, [PagesNext]_pageVars
  PROVE  PCInv'
<1> USE DEF PCInv
<1>1. CASE Begin
  <2> USE <1>1 DEF Begin
  <2>1. counter' \in Nat /\ counter' = counter + 1 /\ 1 .. counter \subseteq 1 .. counter'
        /\ counter' \notin 1 .. counter /\ 0 .. counter \subseteq 0 .. counter'
    BY DEF ContextInv
  <2>2. PICK from \in {NoContext} \union DOMAIN shown, sender \in {NoSender, "a"} :
               req' = [NoRequest EXCEPT !.ctx = counter + 1, !.from = from, !.sender = sender]
    OBVIOUS
  <2>3. from \in Nat  BY DEF ContextInv, NoContext
  <2>4. ContextInv'
    <3>1. req' = [ctx |-> counter', page |-> NoPage, changed |-> FALSE, from |-> from, sender |-> sender]
      BY <2>1, <2>2 DEF NoRequest
    <3>2. at = "idle" /\ at' = "restore" /\ UNCHANGED <<records, perm, shown>>  OBVIOUS
    <3> HIDE <1>1 DEF Begin
    <3>3. QED  BY <2>1, <2>3, <3>1, <3>2 DEF ContextInv
  <2>5. StackOK(stack, records)'  OBVIOUS
  <2>6. UsedInv'  BY <2>1 DEF UsedInv
  <2>7. ShownInv'  BY DEF ShownInv
  <2>8. RanInv'  BY <2>1 DEF RanInv
  <2>9. QED  BY <2>4, <2>5, <2>6, <2>7, <2>8
<1>2. CASE RestorePage
  <2> USE <1>2 DEF RestorePage
  <2>1. req' = [req EXCEPT !.page = req'.page] /\ req.from \in Nat  BY DEF ContextInv
  <2>2. ContextInv'  BY <2>1 DEF ContextInv
  <2>3. ShownInv' /\ RanInv'  BY DEF ShownInv, RanInv, ContextInv
  <2>4. CASE req.from = NoContext
    <3>1. UNCHANGED <<stack, records, used, counter>>  BY <2>4
    <3>2. StackOK(stack, records)' /\ UsedInv'  BY <2>4, <3>1 DEF UsedInv
    <3>3. QED  BY <2>2, <2>3, <3>2
  <2>5. CASE req.from # NoContext
    <3>1. stack' = RestoreStack(req.from) /\ used' = [used EXCEPT ![req.from] = counter]
          /\ UNCHANGED <<records, counter>>
      BY <2>5
    <3>2. StackOK(stack', records') /\ InOrder(stack', used')
      BY <2>1, <3>1, RestoreIs
    <3>3. \A c \in DOMAIN used' : used'[c] \in 0 .. counter
      BY <3>1 DEF UsedInv, ContextInv
    <3>4. UsedInv'  BY <3>1, <3>2, <3>3 DEF UsedInv, ContextInv
    <3>5. QED  BY <2>2, <2>3, <3>2, <3>4
  <2>6. QED  BY <2>4, <2>5
<1>3. CASE RestoreAnswer
  <2> USE <1>3 DEF RestoreAnswer
  <2>1. PICK old \in Matching(req) :
               /\ req' = [req EXCEPT !.page = Restored(old)]
               /\ stack' = RestoreStack(old)
               /\ used' = [used EXCEPT ![old] = counter]
    OBVIOUS
  <2>2. old \in Nat /\ UNCHANGED <<records, counter>>  BY DEF Matching, ContextInv
  <2>3. ContextInv'  BY <2>1 DEF ContextInv
  <2>4. StackOK(stack', records') /\ InOrder(stack', used')
    BY <2>1, <2>2, RestoreIs
  <2>5. \A c \in DOMAIN used' : used'[c] \in 0 .. counter
    BY <2>1 DEF UsedInv, ContextInv
  <2>6. UsedInv'  BY <2>1, <2>2, <2>4, <2>5 DEF UsedInv, ContextInv
  <2>7. ShownInv' /\ RanInv'  BY DEF ShownInv, RanInv, ContextInv
  <2>8. QED  BY <2>3, <2>4, <2>6, <2>7
<1>4. CASE InvokeAction
  <2> USE <1>4 DEF InvokeAction
  <2>1. UNCHANGED <<stack, records, permIds, perm, counter, shown, used>> /\ at = "respond" /\ at' = "save"
        /\ counter \in 1 .. counter
    <3>1. UNCHANGED <<stack, records, permIds, perm, counter, shown, used>>
          /\ at = "respond" /\ at' = "save"
      OBVIOUS
    <3>2. counter \in 1 .. counter
      <4> HIDE <1>4 DEF InvokeAction
      <4>1. QED  BY <3>1 DEF ContextInv
    <3>3. QED  BY <3>1, <3>2
  <2>a. /\ req' = [ctx |-> req'.ctx, page |-> req'.page, changed |-> req'.changed,
                   from |-> req'.from, sender |-> req'.sender]
        /\ req'.ctx = req.ctx /\ req'.from = req.from /\ req'.sender = req.sender
    <3>1. CASE req.sender = NoSender  BY <3>1 DEF ContextInv
    <3>2. CASE req.sender # NoSender
      <4>1. PICK page : req' = [req EXCEPT !.page = page, !.changed = page # req.page]
        BY <3>2
      <4>2. QED  BY <4>1 DEF ContextInv
    <3>3. QED  BY <3>1, <3>2
  <2>2. ContextInv'  BY <2>1, <2>a DEF ContextInv
  <2>3. StackOK(stack, records)' /\ UsedInv' /\ ShownInv'
    BY <2>1 DEF UsedInv, ShownInv, ContextInv
  <2>4. RanInv'
    <3>1. CASE req.sender = NoSender  BY <2>1, <3>1 DEF RanInv
    <3>2. CASE req.sender # NoSender
      <4> DEFINE new == [from |-> req.from, sender |-> req.sender, ctx |-> req.ctx]
      <4>1. ran' = ran \union {new} /\ new.ctx = counter /\ counter \in 1 .. counter
            /\ counter \notin DOMAIN records /\ req'.from = req.from /\ req'.sender = req.sender
        BY <2>1, <2>a, <3>2 DEF ContextInv
      <4> HIDE <1>4 DEF InvokeAction
      <4>2. QED  BY <2>1, <3>2, <4>1 DEF RanInv
    <3>3. QED  BY <3>1, <3>2
  <2>5. QED  BY <2>2, <2>3, <2>4
<1>5. CASE SavePageInPermanentCache
  <2> USE <1>5 DEF SavePageInPermanentCache
  <2>1. /\ req.ctx = counter /\ counter \notin DOMAIN shown
        /\ counter \in 1 .. counter
        /\ UNCHANGED <<stack, records, counter, pages, at, req, shown, used, ran>>
        /\ at = "save"
    BY DEF ContextInv
  <2>2. /\ DOMAIN perm' \subseteq DOMAIN perm \union {counter} /\ perm'[counter] = req.page
        /\ \A d \in DOMAIN perm' : d # counter => d \in DOMAIN perm /\ perm'[d] = perm[d]
    BY <2>1, KeepInIs
  <2> HIDE <1>5 DEF SavePageInPermanentCache
  <2>3. ContextInv'  BY <2>1, <2>2 DEF ContextInv
  <2>4. ShownInv'  BY <2>1, <2>2 DEF ShownInv
  <2>5. StackOK(stack, records)' /\ UsedInv' /\ RanInv'
    BY <2>1 DEF UsedInv, RanInv
  <2>6. QED  BY <2>3, <2>4, <2>5
<1>6. CASE SaveCurrentPage
  <2>1. /\ req.ctx = counter /\ counter \notin DOMAIN shown /\ counter \in Nat
        /\ counter \in 1 .. counter /\ counter \notin DOMAIN records
        /\ UNCHANGED <<counter, pages, req, shown, ran>> /\ at = "save" /\ at' = "sleep"
    BY <1>6 DEF SaveCurrentPage, ContextInv
  <2>2. /\ DOMAIN perm' \subseteq DOMAIN perm \union {counter}
        /\ \A d \in DOMAIN perm' : d # counter => d \in DOMAIN perm /\ perm'[d] = perm[d]
        /\ counter \in DOMAIN perm' => perm'[counter] = req.page
    <3>1. CASE KeepIn(req.ctx, req.page)  BY <2>1, <3>1, KeepInIs
    <3>2. CASE perm' = perm  BY <2>1, <3>2 DEF ShownInv
    <3>3. QED  BY <1>6, <3>1, <3>2 DEF SaveCurrentPage
  <2>3. /\ StackOK(stack', records') /\ InOrder(stack', used')
        /\ DOMAIN records' \subseteq DOMAIN records \union {counter}
        /\ \A c \in DOMAIN records' : c # counter => records'[c] = records[c]
        /\ counter \in DOMAIN records' => /\ records'[counter] = Record(req)
                                          /\ used' = With(used, counter, counter)
        /\ used' = used \/ used' = With(used, counter, counter)
    <3>1. CASE UNCHANGED <<stack, records, used>>
      BY <2>1, <3>1 DEF UsedInv
    <3>2. CASE /\ PageCacheSize > 0 /\ used' = With(used, req.ctx, counter)
               /\ stack' = SavePage(req).stack /\ records' = SavePage(req).records
      <4>1. InOrder(stack', used')  BY <2>1, <3>2, SavePageOrder
      <4>2. /\ StackOK(stack', records')
            /\ DOMAIN records' \subseteq DOMAIN records \union {counter}
            /\ \A c \in DOMAIN records' :
                 records'[c] = IF c = counter THEN Record(req) ELSE records[c]
        BY <2>1, <3>2, SavePageIs
      <4>3. QED  BY <2>1, <3>2, <4>1, <4>2
    <3>3. QED  BY <1>6, <3>1, <3>2 DEF SaveCurrentPage
  <2>4. ContextInv'  BY <2>1, <2>2, <2>3 DEF ContextInv
  <2>5. UsedInv'
    <3>1. DOMAIN records' \subseteq DOMAIN used' /\ \A c \in DOMAIN used' : used'[c] \in 0 .. counter
      BY <2>1, <2>3 DEF UsedInv, With
    <3>2. counter \in DOMAIN records' => used'[counter] = counter
      BY <2>3 DEF With
    <3>3. QED  BY <2>1, <2>3, <3>1, <3>2 DEF UsedInv
  <2>6. ShownInv'
    <3>1. counter \in DOMAIN records' => records'[counter].page = req.page
      BY <2>3 DEF Record
    <3>2. QED  BY <2>1, <2>2, <2>3, <3>1 DEF ShownInv
  <2>7. RanInv'
    <3> SUFFICES ASSUME NEW a \in ran, a.ctx \in DOMAIN records', PageRefreshOnBacktrack
                 PROVE  records'[a.ctx].from = a.from /\ records'[a.ctx].sender = a.sender
      BY <2>1 DEF RanInv
    <3>1. CASE a.ctx = counter
      <4>1. a.from = req.from /\ a.sender = req.sender  BY <2>1, <3>1 DEF RanInv
      <4>2. QED  BY <2>3, <3>1, <4>1 DEF Record
    <3>2. CASE a.ctx # counter  BY <2>3, <3>2 DEF RanInv
    <3>3. QED  BY <3>1, <3>2
  <2>8. StackOK(stack, records)'  BY <2>3
  <2>9. QED  BY <2>4, <2>5, <2>6, <2>7, <2>8
<1>7. CASE Sleep
  <2> USE <1>7 DEF Sleep
  <2>1. /\ req.ctx = counter /\ counter \notin DOMAIN shown /\ counter \in 1 .. counter
        /\ UNCHANGED <<stack, records, permIds, perm, counter, ran>> /\ at = "sleep" /\ at' = "idle"
        /\ req' = NoRequest
    BY DEF ContextInv
  <2>2. \/ UNCHANGED <<shown, used>>
        \/ shown' = With(shown, counter, req.page) /\ used' = With(used, counter, counter)
    BY <2>1
  <2> HIDE <1>7 DEF Sleep
  <2>3. ContextInv'  BY <2>1, <2>2 DEF ContextInv, NoRequest, NoContext, With
  <2>4. StackOK(stack, records)' /\ RanInv'  BY <2>1 DEF RanInv
  <2>5. ShownInv'  BY <2>1, <2>2 DEF ShownInv, With
  <2>6. UsedInv'
    <3>1. CASE used' = used  BY <2>1, <3>1 DEF UsedInv
    <3>2. CASE used' = With(used, counter, counter)
      <4>1. /\ DOMAIN used \subseteq DOMAIN used' /\ \A c \in DOMAIN used' : used'[c] \in 0 .. counter
            /\ \A c \in DOMAIN records : used'[c] = used[c]
        BY <2>1, <3>2 DEF UsedInv, With
      <4>2. \A i \in DOMAIN stack : \A a \in DOMAIN stack[i] : used'[stack[i][a]] = used[stack[i][a]]
        BY <4>1 DEF StackOK
      <4>3. InOrder(stack, used')  BY <4>2, SameOrder DEF UsedInv
      <4>4. QED  BY <2>1, <4>1, <4>3 DEF UsedInv
    <3>3. QED  BY <2>2, <3>1, <3>2
  <2>7. QED  BY <2>3, <2>4, <2>5, <2>6
<1>8. CASE UNCHANGED pageVars
  BY <1>8 DEF pageVars, ContextInv, UsedInv, ShownInv, RanInv
<1>9. QED  BY <1>1, <1>2, <1>3, <1>4, <1>5, <1>6, <1>7, <1>8 DEF PagesNext


(***************************************************************************)
(* The theorems.                                                           *)
(***************************************************************************)
\* At every step the pages that the session keeps are those its responses gave,
\* in the order of their use, with the requests that were answered.
THEOREM PagesAreKept ==
  ASSUME PageCacheSize \in Nat
  PROVE  PagesSpec => []PCInv
<1>1. PagesInit => PCInv  BY PCInit
<1>2. PCInv /\ [PagesNext]_pageVars => PCInv'  BY PCNext
<1>3. QED  BY <1>1, <1>2, PTL DEF PagesSpec

LEMMA ShownAgain == ASSUME PCInv PROVE BacktrackGivesWhatWasShown
<1> USE DEF PCInv
<1>1. ASSUME NEW i \in DOMAIN stack, NEW c \in Contexts(i)
      PROVE  c \in DOMAIN records /\ records[c].page = records[Last(stack[i])].page
  <2>1. PICK a \in DOMAIN stack[i] : stack[i][a] = c  BY <1>1 DEF Contexts, ToSet
  <2>2. QED  BY <2>1 DEF StackOK, Last
<1>2. ASSUME NEW c \in DOMAIN shown PROVE Restored(c) \in {shown[c], NoPage}
  BY <1>2 DEF ShownInv, Restored
<1>3. QED  BY <1>1, <1>2 DEF BacktrackGivesWhatWasShown

\* Backtracking: every page in the stack can be gone back to, and it is the one
\* that the client got (BacktrackGivesWhatWasShown).
THEOREM BacktrackIsSafe ==
  ASSUME PageCacheSize \in Nat
  PROVE  PagesSpec => []BacktrackGivesWhatWasShown
<1>1. PCInv => BacktrackGivesWhatWasShown  BY ShownAgain
<1>2. QED  BY <1>1, PagesAreKept, PTL

LEMMA OldestFirst == ASSUME PCInv PROVE LeastRecentGoesFirst
<1> USE DEF PCInv
<1>1. /\ counter \in Nat
      /\ \A i \in DOMAIN stack : /\ stack[i] \in Seq(Nat) /\ Len(stack[i]) > 0
                                 /\ \A a \in DOMAIN stack[i] :
                                      used[stack[i][a]] \in 0 .. counter
  <2>1. \A i \in DOMAIN stack : \A a \in DOMAIN stack[i] : stack[i][a] \in DOMAIN used
    BY DEF StackOK, UsedInv
  <2>2. QED  BY <2>1 DEF StackOK, ContextInv, UsedInv
<1>2. ASSUME NEW i \in DOMAIN stack
      PROVE  /\ \E a \in DOMAIN stack[i] : LastUse(i) = used[stack[i][a]]
             /\ \A a \in DOMAIN stack[i] : used[stack[i][a]] <= LastUse(i)
             /\ LastUse(i) \in Nat
  <2> DEFINE T == {used[c] : c \in Contexts(i)}
  <2>1. T = {used[stack[i][a]] : a \in DOMAIN stack[i]}  BY DEF Contexts, ToSet
  <2>2. 1 \in DOMAIN stack[i]  BY <1>1
  <2>3. T \subseteq 0 .. counter /\ T # {}  BY <1>1, <2>1, <2>2
  <2> HIDE DEF T
  <2>4. Max(T) \in T /\ \A y \in T : y <= Max(T)
    <3>1. PICK x \in T : \A y \in T : y <= x  BY <1>1, <2>3, GreatestOf
    <3>2. \A y \in T : x >= y  BY <1>1, <2>3, <3>1
    <3>3. Max(T) \in T /\ \A y \in T : Max(T) >= y  BY <3>2 DEF Max
    <3>4. QED  BY <1>1, <2>3, <3>3
  <2>5. LastUse(i) = Max(T)  BY DEF LastUse, T
  <2> HIDE DEF LastUse
  <2>6. \E a \in DOMAIN stack[i] : LastUse(i) = used[stack[i][a]]  BY <2>1, <2>4, <2>5
  <2>7. \A a \in DOMAIN stack[i] : used[stack[i][a]] \in T  BY <2>1
  <2>8. LastUse(i) \in Nat
    <3>1. LastUse(i) \in 0 .. counter /\ counter \in Nat  BY <1>1, <2>3, <2>4, <2>5
    <3>2. QED  BY <3>1
  <2>9. QED  BY <2>4, <2>5, <2>6, <2>7, <2>8
<1>3. ASSUME NEW i \in DOMAIN stack, NEW j \in DOMAIN stack, i < j
      PROVE  LastUse(i) <= LastUse(j)
  <2>1. PICK a \in DOMAIN stack[i] : LastUse(i) = used[stack[i][a]]  BY <1>2
  <2>2. PICK b \in DOMAIN stack[j] : used[stack[i][a]] <= used[stack[j][b]]
    BY <1>3 DEF UsedInv, InOrder
  <2>3. used[stack[j][b]] <= LastUse(j) /\ LastUse(j) \in Nat /\ LastUse(i) \in Nat
        /\ used[stack[j][b]] \in Nat
    BY <1>1, <1>2
  <2>4. QED  BY <2>1, <2>2, <2>3
<1>4. QED  BY <1>3 DEF LeastRecentGoesFirst

\* Eviction: the pages that go first from a full cache are those that were used
\* least recently (LeastRecentGoesFirst).
THEOREM EvictionIsLRU ==
  ASSUME PageCacheSize \in Nat
  PROVE  PagesSpec => []LeastRecentGoesFirst
<1>1. PCInv => LeastRecentGoesFirst  BY OldestFirst
<1>2. QED  BY <1>1, PagesAreKept, PTL

LEMMA NotTwice ==
  ASSUME PCInv, [PagesNext]_pageVars, NEW a \in ran, NEW b \in ran' \ ran,
         PageRefreshOnBacktrack, a.from = b.from, a.sender = b.sender
  PROVE  StackIndex(a.ctx) = 0
<1> USE DEF PCInv
<1>1. InvokeAction /\ b.from = req.from /\ b.sender = req.sender
  <2>1. CASE InvokeAction
    <3>1. req.sender # NoSender  BY <2>1 DEF InvokeAction
    <3>2. ran' = ran \union {[from |-> req.from, sender |-> req.sender, ctx |-> req.ctx]}
      BY <2>1, <3>1 DEF InvokeAction
    <3>3. b = [from |-> req.from, sender |-> req.sender, ctx |-> req.ctx]  BY <3>2
    <3>4. QED  BY <2>1, <3>3
  <2>2. CASE ~InvokeAction
    BY <2>2 DEF PagesNext, pageVars, Begin, RestorePage, RestoreAnswer, SavePageInPermanentCache,
                SaveCurrentPage, Sleep
  <2>3. QED  BY <2>1, <2>2
<1>2. Matching(req) = {} /\ req.from = a.from /\ req.sender = a.sender
  BY <1>1 DEF InvokeAction
<1>3. a.ctx \notin DOMAIN records
  BY <1>2 DEF Matching, RanInv
<1>4. \A i \in DOMAIN stack : \A x \in DOMAIN stack[i] : stack[i][x] # a.ctx
  BY <1>3 DEF StackOK
<1>5. stack \in Seq(Seq(Nat))  BY DEF StackOK
<1>6. QED  BY <1>4, <1>5, StackIndexIs

\* Reloading: the action of a request does not run again while the stack has the
\* page that answered it, if the application refreshes pages (ActionRunsOnce).
THEOREM ReloadDoesNotRunTheAction ==
  ASSUME PageCacheSize \in Nat
  PROVE  PagesSpec => ActionRunsOnce
<1> DEFINE Once == \A a \in ran, b \in ran' \ ran :
                     (PageRefreshOnBacktrack /\ a.from = b.from /\ a.sender = b.sender)
                         => StackIndex(a.ctx) = 0
<1>1. PCInv /\ [PagesNext]_pageVars => [Once]_pageVars  BY NotTwice
<1>2. PagesSpec => [][Once]_pageVars
  <2> HIDE DEF Once
  <2>1. QED  BY <1>1, PagesAreKept, PTL DEF PagesSpec
<1>3. QED  BY <1>2 DEF ActionRunsOnce
=============================================================================
