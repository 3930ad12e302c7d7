---------------------------- MODULE AdaptorData -----------------------------
(***************************************************************************)
(* The containers of the adaptor: GSWDict.c and GSWList.c, and the strings *)
(* of GSWString.c.  A behaviour is about one container and one kind of     *)
(* client:                                                                 *)
(*   "map"      a dictionary whose client looks a key up before it adds it *)
(*              (applications, instances, hosts);                          *)
(*   "headers"  a dictionary to which headers are added, and nothing else; *)
(*   "string"   a page into which values are put for their marks.          *)
(***************************************************************************)
EXTENDS Integers, Sequences, FiniteSets, FiniteSetsExt, SequencesExt

CONSTANTS
    Keys, Values,
    MinCapacity,  \* 16 in GSWDict_SetCapacity
    MinSize,      \* 4096 in GSWString_GrowUpToSize
    MaxSteps,     \* bound: operations on a container
    Texts,        \* strings: sequences of letters
    Null

ASSUME DataAssumption ==
    /\ IsFiniteSet(Keys) /\ MinCapacity \in Nat \ {0} /\ MinSize \in Nat
    /\ Null \notin Values /\ Null \notin Keys \X Values
    /\ \A text \in Texts : text \in Seq(ToSet(text))

VARIABLES
    kind,
    dict,     \* a GSWDict: its elements, Null where the key is NULL
    content,  \* history: what the client put in and did not take out
    str,      \* a GSWString, the replacement that goes on, the place it is at
    steps

dataVars == <<kind, dict, content, str, steps>>

Larger(a, b) == IF a > b THEN a ELSE b

(***************************************************************************)
(* GSWDict.                                                                *)
(***************************************************************************)
\* strcasecmp.
Fold(key) == IF key = "A" THEN "a" ELSE key
Same(key, other) == Fold(key) = Fold(other)

SetCapacity(d, n) == [d EXCEPT !.capacity = Larger(@, Larger(MinCapacity, n))]
NewDict(n) == SetCapacity([elems |-> <<>>, capacity |-> 0], n)

Live(d) == {i \in DOMAIN d.elems : d.elems[i] # Null}
Count(d) == Cardinality(Live(d))

\* Mutant: a full dictionary overwrites its last element.
AddNoGrow(d, key, value) ==
    IF Len(d.elems) < d.capacity THEN [d EXCEPT !.elems = Append(@, <<key, value>>)]
    ELSE [d EXCEPT !.elems[Len(d.elems)] = <<key, value>>]

\* GSWDict_Add: at the end, or in a full dictionary at the first hole, or in
\* twice the room.
Add(d, key, value) ==
    LET holes == DOMAIN d.elems \ Live(d)
    IN  IF Len(d.elems) < d.capacity THEN [d EXCEPT !.elems = Append(@, <<key, value>>)]
        ELSE IF holes # {} THEN [d EXCEPT !.elems[Min(holes)] = <<key, value>>]
        ELSE [SetCapacity(d, 2 * d.capacity) EXCEPT !.elems = Append(@, <<key, value>>)]

Matches(d, key) == {i \in Live(d) : Same(d.elems[i][1], key)}

\* The first element of a key; a caller of ValueForKey gets its value.
FindKey(d, key) == Min(Matches(d, key))
ValueForKey(d, key) == IF Matches(d, key) = {} THEN Null ELSE d.elems[FindKey(d, key)][2]

RemoveKey(d, key) ==
    IF Matches(d, key) = {} THEN d ELSE [d EXCEPT !.elems[FindKey(d, key)] = Null]

\* GSWDict_PerformForAllElem and GSWDict_AllKeys: the live elements in order.
AllElements(d) ==
    LET Upto[i \in 0 .. Len(d.elems)] ==
          IF i = 0 THEN <<>>
          ELSE IF d.elems[i] = Null THEN Upto[i - 1] ELSE Append(Upto[i - 1], d.elems[i])
    IN  Upto[Len(d.elems)]

\* GSWDict_AddStringDupFromDict.
DupFromDict(dst, src) ==
    LET Upto[i \in 0 .. Len(src.elems)] ==
          IF i = 0 THEN dst
          ELSE IF src.elems[i] = Null THEN Upto[i - 1]
          ELSE Add(Upto[i - 1], src.elems[i][1], src.elems[i][2])
    IN  Upto[Len(src.elems)]

(***************************************************************************)
(* GSWString.                                                              *)
(***************************************************************************)
GrowUpToSize(s, size) == [s EXCEPT !.size = IF size > @ THEN Larger(size, MinSize) ELSE @]

AppendText(s, text) ==
    [GrowUpToSize(s, Len(s.text) + Len(text) + 1) EXCEPT !.text = @ \o text]

\* strstr: the first place at or after i where search stands, or 0.
StrStr(text, search, i) ==
    LET at == {j \in i .. Len(text) - Len(search) + 1 :
                  SubSeq(text, j, j + Len(search) - 1) = search}
    IN  IF at = {} THEN 0 ELSE Min(at)

\* What SearchReplace is for: each mark from left to right, and no mark that a
\* value brings with it.
ReplacedFrom(text, search, value) ==
    LET From[i \in 1 .. Len(text) + 1] ==
          LET at == StrStr(text, search, i)
          IN  IF at = 0 THEN SubSeq(text, i, Len(text))
              ELSE SubSeq(text, i, at - 1) \o value \o From[at + Len(search)]
    IN  From
Replaced(text, search, value) == ReplacedFrom(text, search, value)[1]

\* Mutant: the search goes on within the value that was put in.
ReplaceAgain(s) ==
    LET diff == Len(s.value) - Len(s.search)
        text == SubSeq(s.text, 1, s.at - 1) \o s.value
                  \o SubSeq(s.text, s.at + Len(s.search), Len(s.text))
    IN  [(IF diff > 0 THEN GrowUpToSize(s, s.size + diff) ELSE s)
           EXCEPT !.text = text, !.at = StrStr(text, s.search, s.at + 1)]

\* One turn of GSWString_SearchReplace's loop, at the mark s.at.
Replace(s) ==
    LET diff == Len(s.value) - Len(s.search)
        text == SubSeq(s.text, 1, s.at - 1) \o s.value
                  \o SubSeq(s.text, s.at + Len(s.search), Len(s.text))
    IN  [(IF diff > 0 THEN GrowUpToSize(s, s.size + diff) ELSE s)
           EXCEPT !.text = text, !.at = StrStr(text, s.search, s.at + Len(s.value))]

(***************************************************************************)
(* Behaviours.                                                             *)
(***************************************************************************)
DataInit ==
    /\ kind \in {"map", "headers", "string"}
    /\ dict \in (IF kind = "map" THEN {NewDict(0), [elems |-> <<>>, capacity |-> 0]}
                 ELSE {NewDict(0)})
    /\ content = <<>> /\ steps = 0
    /\ str = [text |-> <<>>, size |-> 0, search |-> <<>>, value |-> <<>>, at |-> 0]

Put(key, value) ==
    /\ kind = "map" /\ steps < MaxSteps
    /\ ValueForKey(dict, key) = Null
    /\ dict' = Add(dict, key, value)
    /\ content' = [k \in DOMAIN content \union {Fold(key)} |->
                     IF k = Fold(key) THEN value ELSE content[k]]
    /\ steps' = steps + 1
    /\ UNCHANGED <<kind, str>>

TakeOut(key) ==
    /\ kind = "map" /\ steps < MaxSteps
    /\ dict' = RemoveKey(dict, key)
    /\ content' = [k \in DOMAIN content \ {Fold(key)} |-> content[k]]
    /\ steps' = steps + 1
    /\ UNCHANGED <<kind, str>>

PutHeader(key, value) ==
    /\ kind = "headers" /\ steps < MaxSteps
    /\ dict' = Add(dict, key, value)
    /\ content' = Append(content, <<key, value>>)
    /\ steps' = steps + 1
    /\ UNCHANGED <<kind, str>>

\* The headers of an application are added to those of a response, say.  A key
\* without a value was removed there.
Source(values) ==
    LET keys == SetToSeq(Keys)
    IN  [elems |-> [i \in 1 .. Cardinality(Keys) |->
                      IF values[keys[i]] = Null THEN Null ELSE <<keys[i], values[keys[i]]>>],
         capacity |-> Cardinality(Keys)]

PutHeaders ==
    /\ kind = "headers" /\ steps < MaxSteps
    /\ \E values \in [Keys -> Values \union {Null}] :
         /\ dict' = DupFromDict(dict, Source(values))
         /\ content' = content \o AllElements(Source(values))
    /\ steps' = MaxSteps
    /\ UNCHANGED <<kind, str>>

PutText(text) ==
    /\ kind = "string" /\ steps < MaxSteps /\ str.at = 0
    /\ str' = AppendText(str, text)
    /\ content' = str'.text
    /\ steps' = steps + 1
    /\ UNCHANGED <<kind, dict>>

BeginReplace(search, value) ==
    /\ kind = "string" /\ steps < MaxSteps /\ str.at = 0 /\ str.size > 0
    /\ search # <<>>
    /\ str' = [str EXCEPT !.search = search, !.value = value, !.at = StrStr(str.text, search, 1)]
    /\ content' = Replaced(str.text, search, value)
    /\ steps' = steps + 1
    /\ UNCHANGED <<kind, dict>>

ReplaceOne ==
    /\ kind = "string" /\ str.at > 0
    /\ str' = Replace(str)
    /\ UNCHANGED <<kind, dict, content, steps>>

DataNext ==
    \/ \E key \in Keys, value \in Values : Put(key, value) \/ PutHeader(key, value)
    \/ \E key \in Keys : TakeOut(key)
    \/ \E text \in Texts : PutText(text)
    \/ \E search, value \in Texts : BeginReplace(search, value)
    \/ PutHeaders \/ ReplaceOne

DataSpec == DataInit /\ [][DataNext]_dataVars

(***************************************************************************)
(* Properties.                                                             *)
(***************************************************************************)
\* A dictionary whose client looks before it adds is a map: each key, however
\* it is written, has the value it was added with until it is removed, through
\* removals, holes that are filled again and growth.  A dictionary of headers
\* loses none and keeps their order, whatever its capacity.
DictIsMap ==
    /\ kind = "map" =>
         /\ \A key \in Keys : ValueForKey(dict, key) =
              IF Fold(key) \in DOMAIN content THEN content[Fold(key)] ELSE Null
         /\ Count(dict) = Cardinality(DOMAIN content)
    /\ kind = "headers" => AllElements(dict) = content
    /\ Len(dict.elems) <= dict.capacity

\* A replacement that ended has replaced each mark once and nothing else, and
\* the text with its end always has room in the buffer.
MarksAreReplaced ==
    kind = "string" /\ str.size > 0 =>
        /\ str.at = 0 => str.text = content
        /\ Len(str.text) + 1 <= str.size
=============================================================================
