----------------------------- MODULE PageCache ------------------------------
(***************************************************************************)
(* The pages that a session keeps (GSWSession.m, GSWTransactionRecord.m)   *)
(* and the component requests that save, restore and replace them          *)
(* (GSWComponentRequestHandler.m).  Each response has a context's number;  *)
(* the client comes back with the number of any response it got.           *)
(*                                                                         *)
(* The stack holds, for each page, the array of the contexts it was shown  *)
(* in; contextRecords the page of each context, and, when clients may not  *)
(* cache, the request that it answered.  One request at a time uses the    *)
(* session, which is what an application without concurrent requests does. *)
(***************************************************************************)
EXTENDS Integers, Sequences, FiniteSets, FiniteSetsExt, SequencesExt, Functions

CONSTANTS
    PageCacheSize, PermanentPageCacheSize,
    PageRefreshOnBacktrack,
    MaxContexts   \* bound: responses of the session

VARIABLES
    stack, records,      \* _contextArrayStack, _contextRecords
    permIds, perm,       \* _permanentContextIDArray, _permanentPageCache
    counter,             \* _contextCounter
    pages,               \* how many pages were created
    at, req,             \* the request whose context is _currentContext
    shown,               \* history: the page the client got in each context
    used,                \* history: when the page of a context was last used
    ran                  \* history: the actions that ran, and in which context

pageVars == <<stack, records, permIds, perm, counter, pages, at, req, shown, used, ran>>

NoContext == 0
NoPage == 0
NoSender == "none"
NoRequest == [ctx |-> NoContext, page |-> NoPage, changed |-> FALSE,
              from |-> NoContext, sender |-> NoSender]
With(f, k, v) == [c \in DOMAIN f \union {k} |-> IF c = k THEN v ELSE f[c]]
WithoutKeys(f, S) == Restrict(f, DOMAIN f \ S)
AtLeast(n, m) == Max({n, m})

(***************************************************************************)
(* The stack.                                                              *)
(***************************************************************************)
\* _contextArrayForContextID: the first array that has the context, or 0.
StackIndex(c) ==
    LET places == {i \in DOMAIN stack : c \in ToSet(stack[i])} IN IF places = {} THEN 0 ELSE Min(places)

ToTheEnd(s, i) == IF i = 0 THEN s ELSE Append(RemoveAt(s, i), s[i])

\* restorePageForContextID: gives the page of the record, or rather that of the
\* permanent cache.
Restored(c) ==
    IF c \in DOMAIN perm THEN perm[c]
    ELSE IF c \in DOMAIN records THEN records[c].page ELSE NoPage

\* Mutant: a page that is restored stays where it is in the stack.
RestoreWithoutMove(c) == stack

\* The array of a restored page goes to the end of the stack.
RestoreStack(c) == IF c \in DOMAIN records THEN ToTheEnd(stack, StackIndex(c)) ELSE stack

\* isMatchingIDsInContext: the contexts whose response answered such a request.
Matching(r) == {c \in DOMAIN records : r.sender # NoSender /\ records[c].from = r.from
                                       /\ records[c].sender = r.sender}

\* Mutant: a page that was not changed goes on in the last array.
NewArrayIfChanged(s, last, r) == last = 0 \/ r.changed

\* savePage: a page gets a new array unless its response follows another of it.
NewArray(s, last, r) ==
    last = 0 \/ r.changed
    \/ LET c == Last(s[last]) IN c \notin DOMAIN records \/ records[c].page # r.page

\* Mutant: a record keeps no request.
RecordPageOnly(r) == [page |-> r.page, from |-> NoContext, sender |-> NoSender]

\* The record keeps the request if the client may not cache the response.
Record(r) ==
    [page |-> r.page,
     from |-> IF PageRefreshOnBacktrack THEN r.from ELSE NoContext,
     sender |-> IF PageRefreshOnBacktrack THEN r.sender ELSE NoSender]

\* What goes from the array of the page: the first contexts and their records.
TrimArray(array) == {array[i] : i \in 1 .. Len(array) - PageCacheSize}

\* What goes with the first array of the stack: the loop over its contexts
\* removes the record of the first one each time.
TrimStack(array) == {array[1]}

\* The stack and the records after savePage.  ctxArray is the last array before
\* the stack is rearranged for a context that it has already.
SavePage(r) ==
    LET i == StackIndex(r.ctx)
        moved == i # 0 /\ (i # Len(stack) \/ Last(stack[i]) # r.ctx)
        before == IF moved THEN ToTheEnd(stack, i) ELSE stack
        last == IF moved /\ i # Len(stack) THEN Len(stack) - 1 ELSE Len(stack)
        create == NewArray(before, last, r)
        added == IF create THEN Append(before, <<r.ctx>>) ELSE [before EXCEPT ![last] = Append(@, r.ctx)]
        target == IF create THEN Len(added) ELSE last
        gone == TrimArray(added[target])
        trimmed == [added EXCEPT ![target] = SubSeq(@, AtLeast(1, Len(@) - PageCacheSize + 1), Len(@))]
        over == AtLeast(0, Len(trimmed) - PageCacheSize)
    IN  [stack |-> SubSeq(trimmed, over + 1, Len(trimmed)),
         records |-> WithoutKeys(With(records, r.ctx, Record(r)),
                          gone \union UNION {TrimStack(trimmed[k]) : k \in 1 .. over})]

(***************************************************************************)
(* Component requests.                                                     *)
(***************************************************************************)
PagesInit ==
    /\ stack = <<>> /\ records = <<>> /\ permIds = <<>> /\ perm = <<>>
    /\ counter = 0 /\ pages = 0 /\ at = "idle" /\ req = NoRequest
    /\ shown = <<>> /\ used = <<>> /\ ran = {}

\* A request comes, for a new page or with the context of a response, and with
\* the sender of an action or none; the session awakes in its context.
Begin ==
    /\ at = "idle" /\ counter < MaxContexts
    /\ counter' = counter + 1
    /\ \E from \in {NoContext} \union DOMAIN shown, sender \in {NoSender, "a"} :
         /\ from = NoContext => sender = NoSender
         /\ req' = [NoRequest EXCEPT !.ctx = counter + 1, !.from = from, !.sender = sender]
    /\ at' = "restore"
    /\ UNCHANGED <<stack, records, permIds, perm, pages, shown, used, ran>>

\* pageWithName creates a page, or the context has one; without one an error is the answer.
RestorePage ==
    /\ at = "restore"
    /\ LET from == req.from
       IN  IF from = NoContext
           THEN /\ req' = [req EXCEPT !.page = pages + 1] /\ pages' = pages + 1
                /\ at' = "respond" /\ UNCHANGED <<stack, used>>
           ELSE /\ req' = [req EXCEPT !.page = Restored(from)]
                /\ stack' = RestoreStack(from)
                /\ used' = [used EXCEPT ![from] = counter]
                /\ at' = IF Restored(from) = NoPage THEN "sleep" ELSE "respond"
                /\ UNCHANGED pages
    /\ UNCHANGED <<records, permIds, perm, counter, shown, ran>>

\* A request that was answered already gets the page of its answer again.
RestoreAnswer ==
    /\ at = "respond" /\ Matching(req) # {}
    /\ \E old \in Matching(req) :
         /\ req' = [req EXCEPT !.page = Restored(old)]
         /\ stack' = RestoreStack(old)
         /\ used' = [used EXCEPT ![old] = counter]
    /\ at' = "save"
    /\ UNCHANGED <<records, permIds, perm, counter, pages, shown, ran>>

\* The action of its sender runs, and gives this page or another, new or old.
InvokeAction ==
    /\ at = "respond" /\ Matching(req) = {}
    /\ IF req.sender = NoSender THEN UNCHANGED <<req, pages, ran>>
       ELSE \E page \in 1 .. pages + 1 :
              /\ pages' = AtLeast(pages, page)
              /\ req' = [req EXCEPT !.page = page, !.changed = page # req.page]
              /\ ran' = ran \union {[from |-> req.from, sender |-> req.sender, ctx |-> req.ctx]}
    /\ at' = "save"
    /\ UNCHANGED <<stack, records, permIds, perm, counter, shown, used>>

\* How many pages go before another one is kept for good.
RoomInPermanent == AtLeast(0, Len(permIds) - PermanentPageCacheSize + 1)

\* savePageInPermanentCache, for the current context: the first pages go, and
\* the context is the last one.
KeepIn(c, page) ==
    LET kept == SubSeq(permIds, RoomInPermanent + 1, Len(permIds))
    IN  /\ permIds' = Append(SelectSeq(kept, LAMBDA k : k # c), c)
        /\ perm' = With(WithoutKeys(perm, ToSet(permIds) \ ToSet(kept)), c, page)

\* The application keeps the page it makes.
SavePageInPermanentCache ==
    /\ at = "save"
    /\ KeepIn(req.ctx, req.page)
    /\ UNCHANGED <<stack, records, counter, pages, at, req, shown, used, ran>>

\* _saveCurrentPage: nothing when the page is kept for good in this context or
\* no pages are kept; a page that follows a permanent one is permanent.
SaveCurrentPage ==
    /\ at = "save" /\ at' = "sleep"
    /\ LET keep == req.from \in DOMAIN perm /\ PermanentPageCacheSize > 0
       IN  \/ /\ req.ctx \in DOMAIN perm /\ perm[req.ctx] = req.page
             /\ UNCHANGED <<stack, records, permIds, perm, used>>
          \/ /\ req.ctx \notin DOMAIN perm /\ keep
             /\ KeepIn(req.ctx, req.page)
             /\ UNCHANGED <<stack, records, used>>
          \/ /\ req.ctx \notin DOMAIN perm /\ ~keep
             /\ IF PageCacheSize > 0
                THEN /\ stack' = SavePage(req).stack /\ records' = SavePage(req).records
                     /\ used' = With(used, req.ctx, counter)
                ELSE UNCHANGED <<stack, records, used>>
             /\ UNCHANGED <<permIds, perm>>
    /\ UNCHANGED <<counter, pages, req, shown, ran>>

\* The session sleeps, and the client has its response.
Sleep ==
    /\ at = "sleep" /\ at' = "idle"
    /\ IF req.page = NoPage THEN UNCHANGED <<shown, used>>
       ELSE /\ shown' = With(shown, req.ctx, req.page)
            /\ used' = With(used, req.ctx, counter)
    /\ req' = NoRequest
    /\ UNCHANGED <<stack, records, permIds, perm, counter, pages, ran>>

PagesNext ==
    \/ Begin \/ RestorePage \/ RestoreAnswer \/ InvokeAction
    \/ SavePageInPermanentCache \/ SaveCurrentPage \/ Sleep

PagesSpec == PagesInit /\ [][PagesNext]_pageVars

(***************************************************************************)
(* Properties.                                                             *)
(***************************************************************************)
Contexts(i) == ToSet(stack[i])
LastUse(i) == Max({used[c] : c \in Contexts(i)})

\* Every context in the stack can be gone back to, and the contexts of one array
\* show one page; what is restored for a context, from either cache, is the page
\* that the client got in it, or nothing.
BacktrackGivesWhatWasShown ==
    /\ \A i \in DOMAIN stack : \A c \in Contexts(i) :
         c \in DOMAIN records /\ records[c].page = records[Last(stack[i])].page
    /\ \A c \in DOMAIN shown : Restored(c) \in {shown[c], NoPage}

\* The arrays of the stack, and so the pages that go first, are in the order in
\* which their pages were last saved or restored.
LeastRecentGoesFirst ==
    \A i, j \in DOMAIN stack : i < j => LastUse(i) <= LastUse(j)

\* A request that the client sends again, by reloading the page it gave, does
\* not run its action again while the stack has the page that answered it.
ActionRunsOnce ==
    [][\A a \in ran, b \in ran' \ ran :
           (PageRefreshOnBacktrack /\ a.from = b.from /\ a.sender = b.sender)
               => StackIndex(a.ctx) = 0]_pageVars
=============================================================================
