------------------------- MODULE ApacheModuleProofs -------------------------
(***************************************************************************)
(* Proofs about the way of one request through the Apache 1.3 module and   *)
(* the common part of the adaptor (ApacheModule, RequestRelay), for every  *)
(* bound of a content, every number of attempts and whichever headers the  *)
(* configuration adds; and about the URL that the instance gets            *)
(* (AdaptorURL), for every length of an URL.                               *)
(***************************************************************************)
EXTENDS ApacheModule, AdaptorURL, ArrayLemmas

(***************************************************************************)
(* The inductive invariant.                                                *)
(***************************************************************************)
Connected == {"send", "line", "headers", "received", "died"}
Relaying == {"available", "attempt", "release"} \union Connected
Named == {"read", "handle", "respond"} \union Relaying
Answering == {"headers", "received", "release", "respond", "die", "died"}

IsRequest(r) ==
    /\ r = [method |-> r.method, length |-> r.length, headers |-> r.headers,
            content |-> r.content]
    /\ r.length \in Nat
    /\ r.content = Null \/ r.content \in [read : Nat, zeros : Nat]

IsResponse(r) ==
    r = [status |-> r.status, headers |-> r.headers, length |-> r.length,
         content |-> r.content, from |-> r.from]

\* There is a request from its building to its release; the one that leads to
\* the status page stays, and so does one whose method is refused.
RequestInv ==
    /\ req = Null \/ IsRequest(req)
    /\ stage \in {"translate", "handler", "setup"} => req = Null
    /\ stage \in {"copy", "read", "handle"} \union Relaying => req # Null
    /\ stage \in {"respond", "die", "done"} /\ req # Null =>
         client.uri = "status" \/ ~ValidateMethod(req)

\* There is a response while one is received or on its way to the client, and
\* but for the time its headers come in, its content is all there.
ResponseInv ==
    /\ resp = Null \/ IsResponse(resp)
    /\ resp # Null <=> stage \in Answering
    /\ stage \in Answering \ {"headers", "died"} => resp.length = resp.content

\* How much of the client's content is in the request.
ContentInv ==
    /\ client \in Clients
    /\ stage = "copy" => req.length = 0 /\ req.content = Null
    /\ stage \in {"read", "handle"} \union Relaying =>
         /\ req.content # Null => req.length = client.length
         /\ req.length \in {0, client.length}
    /\ stage = "read" /\ req.content # Null =>
         /\ req.content.zeros = 0
         /\ req.content.read <= client.bytes
    /\ stage \in {"handle"} \union Relaying /\ req.content # Null =>
         /\ req.content.read = client.bytes
         /\ req.content.read + req.content.zeros = client.length

IsSequence(s) == \E S : s \in Seq(S)

\* The headers of the request, from place to place.
Announced == IF client.length = 0 THEN <<>> ELSE <<"content-length">>
HeadersInv ==
    /\ stage = "copy" => req.headers = <<>>
    /\ stage \in {"read", "handle"} =>
         req.headers = Announced \o
           <<"server_software", "x-gsweb-server-port", "x-gsweb-application-name">>
    /\ stage \in {"available", "attempt"} =>
         req.headers = Announced \o
           <<"server_software", "x-gsweb-server-port", "x-gsweb-application-name",
             "x-gsweb-server-adaptor">>
    /\ stage = "send" =>
         req.headers = Announced \o
           <<"server_software", "x-gsweb-server-port", "x-gsweb-application-name",
             "x-gsweb-server-adaptor", "x-gsweb-request-method">> \o
           [i \in DOMAIN attempt.own |-> Translated(attempt.own[i])]

IsAttempt(a) ==
    /\ a = [remaining |-> a.remaining, found |-> a.found, silent |-> a.silent, own |-> a.own]
    /\ a.remaining \in Int

\* Nothing is sent before a connection is made, and then what is there once.
SentInv ==
    /\ sent # <<>> =>
         stage \in {"line", "headers", "received", "release", "respond", "done", "died"}
    /\ stage \in {"available", "attempt", "send"} => IsAttempt(attempt)
    /\ HeadersInv
    /\ OneRequestIsSent

\* What is allocated is what there is.
HeapInv ==
    /\ heap \in [Kinds -> Nat]
    /\ \A k \in Kinds \ {"stray"} : heap[k] \in {0, 1}
    /\ heap["request"] = 1 <=> req # Null
    /\ heap["content"] = 1 <=> req # Null /\ req.content # Null
    /\ heap["response"] = 1 <=> resp # Null
    /\ heap["name"] = 1 <=> stage \in Named
    /\ \A k \in Connection : heap[k] = 1 <=> stage \in Connected

\* The client has its answer at the end of a handler that says OK.
OutInv ==
    /\ stage \in {"translate", "handler", "setup", "copy", "read", "handle", "respond", "die", "done"}
              \union Relaying
    /\ out # Null <=> stage = "done" /\ ret = "OK"
    /\ WholeAnswer

AMInv == RequestInv /\ ResponseInv /\ ContentInv /\ SentInv /\ HeapInv /\ OutInv


(***************************************************************************)
(* Lemmas.                                                                 *)
(***************************************************************************)
\* None of the records of the model is Null.
LEMMA NotNull ==
    /\ \A a, b, c, d : [method |-> a, length |-> b, headers |-> c, content |-> d] # Null
    /\ \A a, b, c, d, e :
         [status |-> a, headers |-> b, length |-> c, content |-> d, from |-> e] # Null
    /\ \A a, b, c, d, e, f :
         [status |-> a, headers |-> b, typed |-> c, length |-> d, body |-> e, from |-> f] # Null
    /\ \A a, b : [read |-> a, zeros |-> b] # Null
  BY DEF Null

\* What one more element makes of a sequence.
LEMMA AppendOne ==
  ASSUME NEW s, IsSequence(s), NEW x
  PROVE  /\ IsSequence(Append(s, x)) /\ Append(s, x) # <<>>
         /\ Len(s) \in Nat
         /\ Len(Append(s, x)) = Len(s) + 1
         /\ \A i \in 1 .. Len(s) : Append(s, x)[i] = s[i]
         /\ Append(s, x)[Len(s) + 1] = x
<1>1. PICK S : s \in Seq(S)  BY DEF IsSequence
<1>2. s \in Seq(S \union {x})  BY <1>1
<1>3. Append(s, x) \in Seq(S \union {x})  BY <1>2
<1>4. QED  BY <1>2, <1>3, AppendProperties DEF IsSequence

\* What is s with x at its end.
LEMMA IsAppended ==
  ASSUME NEW S, NEW s \in Seq(S), NEW x \in S, NEW t \in Seq(S), Len(t) = Len(s) + 1,
         \A i \in 1 .. Len(s) : t[i] = s[i], t[Len(s) + 1] = x
  PROVE  Append(s, x) = t
<1>1. Append(s, x) \in Seq(S) /\ Len(Append(s, x)) = Len(s) + 1
      /\ \A i \in 1 .. Len(s) + 1 : Append(s, x)[i] = IF i <= Len(s) THEN s[i] ELSE x
  BY AppendProperties, LenProperties
<1>2. \A i \in 1 .. Len(s) + 1 : Append(s, x)[i] = t[i]
  BY <1>1, LenProperties
<1>3. QED  BY <1>1, <1>2, SeqEqual

\* A tuple with one more component.
LEMMA AppendTuple ==
  /\ \A a : Append(<<>>, a) = <<a>>
  /\ \A a, b : Append(<<a>>, b) = <<a, b>>
  /\ \A a, b, c : Append(<<a, b>>, c) = <<a, b, c>>
  /\ \A a, b, c, d : Append(<<a, b, c>>, d) = <<a, b, c, d>>
  /\ \A a, b, c, d, e : Append(<<a, b, c, d>>, e) = <<a, b, c, d, e>>
<1>1. ASSUME NEW a PROVE Append(<<>>, a) = <<a>>
  <2> DEFINE V == {a}
             s == <<>>
             t == <<a>>
  <2>1. s \in Seq(V) /\ t \in Seq(V) /\ a \in V
    OBVIOUS
  <2>2. Len(s) = 0 /\ Len(t) = 1 /\ t[1] = a
    OBVIOUS
  <2>3. \A i \in 1 .. 0 : t[i] = s[i]
    OBVIOUS
  <2> HIDE DEF s, t, V
  <2>4. Len(t) = Len(s) + 1 /\ \A i \in 1 .. Len(s) : t[i] = s[i]
    BY <2>2, <2>3
  <2>5. t[Len(s) + 1] = a
    BY <2>2
  <2>6. Append(s, a) = t
    BY <2>1, <2>4, <2>5, IsAppended
  <2>7. QED  BY <2>6 DEF s, t
<1>2. ASSUME NEW a, NEW b PROVE Append(<<a>>, b) = <<a, b>>
  <2> DEFINE V == {a, b}
             s == <<a>>
             t == <<a, b>>
  <2>1. s \in Seq(V) /\ t \in Seq(V) /\ b \in V
    OBVIOUS
  <2>2. Len(s) = 1 /\ Len(t) = 2 /\ t[2] = b
    OBVIOUS
  <2>3. \A i \in 1 .. 1 : t[i] = s[i]
    OBVIOUS
  <2> HIDE DEF s, t, V
  <2>4. Len(t) = Len(s) + 1 /\ \A i \in 1 .. Len(s) : t[i] = s[i]
    BY <2>2, <2>3
  <2>5. t[Len(s) + 1] = b
    BY <2>2
  <2>6. Append(s, b) = t
    BY <2>1, <2>4, <2>5, IsAppended
  <2>7. QED  BY <2>6 DEF s, t
<1>3. ASSUME NEW a, NEW b, NEW c PROVE Append(<<a, b>>, c) = <<a, b, c>>
  <2> DEFINE V == {a, b, c}
             s == <<a, b>>
             t == <<a, b, c>>
  <2>1. s \in Seq(V) /\ t \in Seq(V) /\ c \in V
    OBVIOUS
  <2>2. Len(s) = 2 /\ Len(t) = 3 /\ t[3] = c
    OBVIOUS
  <2>3. \A i \in 1 .. 2 : t[i] = s[i]
    OBVIOUS
  <2> HIDE DEF s, t, V
  <2>4. Len(t) = Len(s) + 1 /\ \A i \in 1 .. Len(s) : t[i] = s[i]
    BY <2>2, <2>3
  <2>5. t[Len(s) + 1] = c
    BY <2>2
  <2>6. Append(s, c) = t
    BY <2>1, <2>4, <2>5, IsAppended
  <2>7. QED  BY <2>6 DEF s, t
<1>4. ASSUME NEW a, NEW b, NEW c, NEW d PROVE Append(<<a, b, c>>, d) = <<a, b, c, d>>
  <2> DEFINE V == {a, b, c, d}
             s == <<a, b, c>>
             t == <<a, b, c, d>>
  <2>1. s \in Seq(V) /\ t \in Seq(V) /\ d \in V
    OBVIOUS
  <2>2. Len(s) = 3 /\ Len(t) = 4 /\ t[4] = d
    OBVIOUS
  <2>3. \A i \in 1 .. 3 : t[i] = s[i]
    OBVIOUS
  <2> HIDE DEF s, t, V
  <2>4. Len(t) = Len(s) + 1 /\ \A i \in 1 .. Len(s) : t[i] = s[i]
    BY <2>2, <2>3
  <2>5. t[Len(s) + 1] = d
    BY <2>2
  <2>6. Append(s, d) = t
    BY <2>1, <2>4, <2>5, IsAppended
  <2>7. QED  BY <2>6 DEF s, t
<1>5. ASSUME NEW a, NEW b, NEW c, NEW d, NEW e PROVE Append(<<a, b, c, d>>, e) = <<a, b, c, d, e>>
  <2> DEFINE V == {a, b, c, d, e}
             s == <<a, b, c, d>>
             t == <<a, b, c, d, e>>
  <2>1. s \in Seq(V) /\ t \in Seq(V) /\ e \in V
    OBVIOUS
  <2>2. Len(s) = 4 /\ Len(t) = 5 /\ t[5] = e
    OBVIOUS
  <2>3. \A i \in 1 .. 4 : t[i] = s[i]
    OBVIOUS
  <2> HIDE DEF s, t, V
  <2>4. Len(t) = Len(s) + 1 /\ \A i \in 1 .. Len(s) : t[i] = s[i]
    BY <2>2, <2>3
  <2>5. t[Len(s) + 1] = e
    BY <2>2
  <2>6. Append(s, e) = t
    BY <2>1, <2>4, <2>5, IsAppended
  <2>7. QED  BY <2>6 DEF s, t
<1>6. QED  BY <1>1, <1>2, <1>3, <1>4, <1>5

\* An element at the end of two sequences is one at the end of the second.
LEMMA AppendLast ==
  ASSUME NEW S, NEW p \in Seq(S), NEW q \in Seq(S), NEW x \in S
  PROVE  Append(p \o q, x) = p \o Append(q, x)
<1>1. /\ p \o q \in Seq(S) /\ Len(p \o q) = Len(p) + Len(q) /\ Len(p) \in Nat /\ Len(q) \in Nat
      /\ \A i \in 1 .. Len(p) + Len(q) : (p \o q)[i] = IF i <= Len(p) THEN p[i] ELSE q[i - Len(p)]
  BY ConcatProperties, LenProperties
<1> DEFINE t == Append(q, x)
           l == p \o t
<1>2. t \in Seq(S) /\ Len(t) = Len(q) + 1
      /\ \A i \in 1 .. Len(q) + 1 : t[i] = IF i <= Len(q) THEN q[i] ELSE x
  BY AppendProperties, LenProperties
<1> HIDE DEF t
<1>3. /\ l \in Seq(S) /\ Len(l) = Len(p) + Len(t)
      /\ \A i \in 1 .. Len(p) + Len(t) : l[i] = IF i <= Len(p) THEN p[i] ELSE t[i - Len(p)]
  BY <1>2, ConcatProperties
<1> HIDE DEF l
<1>4. Len(l) = Len(p \o q) + 1
  BY <1>1, <1>2, <1>3
<1>5. \A i \in 1 .. Len(p \o q) : l[i] = (p \o q)[i]
  BY <1>1, <1>2, <1>3
<1>6. l[Len(p \o q) + 1] = x
  BY <1>1, <1>2, <1>3
<1>7. Append(p \o q, x) = l
  BY <1>1, <1>3, <1>4, <1>5, <1>6, IsAppended
<1>8. QED  BY <1>7 DEF l, t

\* Pages have the length they say.
LEMMA Pages ==
    /\ \A status, more : /\ IsResponse(ErrorPage(status, more))
                         /\ ErrorPage(status, more).length = ErrorPage(status, more).content
    /\ IsResponse(ListPage) /\ ListPage.length = ListPage.content
    /\ IsResponse(UnavailablePage) /\ UnavailablePage.length = UnavailablePage.content
  BY DEF IsResponse, ErrorPage, ListPage, UnavailablePage, PageLength

LEMMA ResponseNotNull == \A r : IsResponse(r) => r # Null
  BY NotNull DEF IsResponse

LEMMA RequestNotNull == \A r : IsRequest(r) => r # Null
  BY NotNull DEF IsRequest

\* Another header leaves the request a request, with its method and content.
LEMMA AddHeaderKeeps ==
  ASSUME NEW r, IsRequest(r), NEW key, NEW value \in Nat
  PROVE  /\ IsRequest(AddHeader(r, key, value))
         /\ AddHeader(r, key, value).content = r.content
         /\ AddHeader(r, key, value).headers = Append(r.headers, Translated(key))
         /\ AddHeader(r, key, value).length \in {r.length, value}
         /\ r.length # 0 => AddHeader(r, key, value).length = r.length
         /\ value = 0 => AddHeader(r, key, value).length = r.length
<1> DEFINE counted == IF r.method = "Post" /\ r.length = 0 /\ Translated(key) = "content-length"
                      THEN value ELSE r.length
           added == [method |-> r.method, length |-> counted,
                     headers |-> Append(r.headers, Translated(key)), content |-> r.content]
<1>1. r = [method |-> r.method, length |-> r.length, headers |-> r.headers, content |-> r.content]
  BY DEF IsRequest
<1>2. counted \in {r.length, value} /\ (r.length # 0 => counted = r.length)
  OBVIOUS
<1>3. AddHeader(r, key, value) = added
  <2> HIDE DEF counted
  <2>1. AddHeader(r, key, value) = [[r EXCEPT !.headers = Append(r.headers, Translated(key))]
                                      EXCEPT !.length = counted]
    BY DEF AddHeader, counted
  <2>2. PICK m, l, h, c : r = [method |-> m, length |-> l, headers |-> h, content |-> c]
    BY <1>1
  <2>3. QED  BY <2>1, <2>2
<1>4. counted \in Nat  BY <1>2 DEF IsRequest
<1> HIDE DEF counted
<1>5. QED  BY <1>1, <1>2, <1>3, <1>4 DEF IsRequest

LEMMA ToAppRequestKeeps ==
  ASSUME NEW r, IsRequest(r), NEW own
  PROVE  /\ IsRequest(ToAppRequest(r, own))
         /\ ToAppRequest(r, own).content = r.content
         /\ ToAppRequest(r, own).length = r.length
         /\ ToAppRequest(r, own).headers =
              Append(r.headers, "x-gsweb-request-method") \o
                [i \in DOMAIN own |-> Translated(own[i])]
<1> DEFINE n == AddHeader(r, "x-gsweb-request-method", 0)
           keys == [i \in DOMAIN own |-> Translated(own[i])]
<1>1. /\ IsRequest(n) /\ n.content = r.content /\ n.length = r.length
      /\ n.headers = Append(r.headers, Translated("x-gsweb-request-method"))
  BY AddHeaderKeeps
<1>2. Translated("x-gsweb-request-method") = "x-gsweb-request-method"  BY DEF Translated
<1>3. ToAppRequest(r, own) = [n EXCEPT !.headers = n.headers \o keys]
  BY DEF ToAppRequest
<1> HIDE DEF n, keys
<1>4. IsRequest(ToAppRequest(r, own)) /\ ToAppRequest(r, own).headers = n.headers \o keys
      /\ ToAppRequest(r, own).content = n.content /\ ToAppRequest(r, own).length = n.length
  BY <1>1, <1>3 DEF IsRequest
<1>5. QED  BY <1>1, <1>2, <1>4 DEF keys

ServerKeys ==
    {"content-length", "server_software", "x-gsweb-server-port", "x-gsweb-application-name",
     "x-gsweb-server-adaptor", "x-gsweb-request-method"}

LEMMA AnnouncedIs == Announced \in Seq(ServerKeys)
<1>1. <<>> \in Seq(ServerKeys)  BY EmptySeq
<1>2. <<"content-length">> \in Seq(ServerKeys)  BY DEF ServerKeys
<1>3. QED  BY <1>1, <1>2 DEF Announced

\* One more header after those that were announced.
LEMMA LastHeader ==
  /\ Append(Announced \o <<>>, "server_software") =
       Announced \o <<"server_software">>
  /\ Append(Announced \o <<"server_software">>, "x-gsweb-server-port") =
       Announced \o <<"server_software", "x-gsweb-server-port">>
  /\ Append(Announced \o <<"server_software", "x-gsweb-server-port">>,
            "x-gsweb-application-name") =
       Announced \o <<"server_software", "x-gsweb-server-port", "x-gsweb-application-name">>
  /\ Append(Announced \o <<"server_software", "x-gsweb-server-port",
            "x-gsweb-application-name">>, "x-gsweb-server-adaptor") =
       Announced \o <<"server_software", "x-gsweb-server-port", "x-gsweb-application-name",
            "x-gsweb-server-adaptor">>
  /\ Append(Announced \o <<"server_software", "x-gsweb-server-port",
            "x-gsweb-application-name", "x-gsweb-server-adaptor">>,
            "x-gsweb-request-method") =
       Announced \o <<"server_software", "x-gsweb-server-port", "x-gsweb-application-name",
            "x-gsweb-server-adaptor", "x-gsweb-request-method">>
<1>1. ASSUME NEW q \in Seq(ServerKeys), NEW x \in ServerKeys, NEW t, Append(q, x) = t
      PROVE  Append(Announced \o q, x) = Announced \o t
  <2>1. Announced \o Append(q, x) = Append(Announced \o q, x)
    BY AnnouncedIs, AppendLast
  <2>2. QED  BY <1>1, <2>1
<1>2. Append(Announced \o <<>>, "server_software") =
      Announced \o <<"server_software">>
  <2>1. <<>> \in Seq(ServerKeys) /\ "server_software" \in ServerKeys
    BY EmptySeq DEF ServerKeys
  <2>2. Append(<<>>, "server_software") = <<"server_software">>
    BY AppendTuple
  <2>3. QED  BY <1>1, <2>1, <2>2
<1>3. Append(Announced \o <<"server_software">>, "x-gsweb-server-port") =
      Announced \o <<"server_software", "x-gsweb-server-port">>
  <2>1. <<"server_software">> \in Seq(ServerKeys) /\ "x-gsweb-server-port" \in ServerKeys
    BY EmptySeq DEF ServerKeys
  <2>2. Append(<<"server_software">>, "x-gsweb-server-port") = <<"server_software",
          "x-gsweb-server-port">>
    BY AppendTuple
  <2>3. QED  BY <1>1, <2>1, <2>2
<1>4. Append(Announced \o <<"server_software", "x-gsweb-server-port">>,
            "x-gsweb-application-name") =
      Announced \o <<"server_software", "x-gsweb-server-port", "x-gsweb-application-name">>
  <2>1. <<"server_software", "x-gsweb-server-port">> \in Seq(ServerKeys) /\
           "x-gsweb-application-name" \in ServerKeys
    BY EmptySeq DEF ServerKeys
  <2>2. Append(<<"server_software", "x-gsweb-server-port">>, "x-gsweb-application-name") =
          <<"server_software", "x-gsweb-server-port", "x-gsweb-application-name">>
    BY AppendTuple
  <2>3. QED  BY <1>1, <2>1, <2>2
<1>5. Append(Announced \o <<"server_software", "x-gsweb-server-port",
            "x-gsweb-application-name">>, "x-gsweb-server-adaptor") =
      Announced \o <<"server_software", "x-gsweb-server-port", "x-gsweb-application-name",
            "x-gsweb-server-adaptor">>
  <2>1. <<"server_software", "x-gsweb-server-port", "x-gsweb-application-name">> \in
           Seq(ServerKeys) /\ "x-gsweb-server-adaptor" \in ServerKeys
    BY EmptySeq DEF ServerKeys
  <2>2. Append(<<"server_software", "x-gsweb-server-port", "x-gsweb-application-name">>,
          "x-gsweb-server-adaptor") = <<"server_software", "x-gsweb-server-port",
          "x-gsweb-application-name", "x-gsweb-server-adaptor">>
    BY AppendTuple
  <2>3. QED  BY <1>1, <2>1, <2>2
<1>6. Append(Announced \o <<"server_software", "x-gsweb-server-port",
            "x-gsweb-application-name", "x-gsweb-server-adaptor">>,
            "x-gsweb-request-method") =
      Announced \o <<"server_software", "x-gsweb-server-port", "x-gsweb-application-name",
            "x-gsweb-server-adaptor", "x-gsweb-request-method">>
  <2>1. <<"server_software", "x-gsweb-server-port", "x-gsweb-application-name",
           "x-gsweb-server-adaptor">> \in Seq(ServerKeys) /\ "x-gsweb-request-method" \in
           ServerKeys
    BY EmptySeq DEF ServerKeys
  <2>2. Append(<<"server_software", "x-gsweb-server-port", "x-gsweb-application-name",
          "x-gsweb-server-adaptor">>, "x-gsweb-request-method") = <<"server_software",
          "x-gsweb-server-port", "x-gsweb-application-name", "x-gsweb-server-adaptor",
          "x-gsweb-request-method">>
    BY AppendTuple
  <2>3. QED  BY <1>1, <2>1, <2>2
<1>7. QED  BY <1>2, <1>3, <1>4, <1>5, <1>6

LEMMA NewRequestIs ==
  ASSUME NEW m
  PROVE  /\ IsRequest(NewRequest(m)) /\ NewRequest(m).headers = <<>>
         /\ NewRequest(m).length = 0 /\ NewRequest(m).content = Null
  BY DEF IsRequest, NewRequest

\* What copyHeaders makes of a new request.
LEMMA CopyHeadersMakes ==
  ASSUME CopyHeaders, IsRequest(req), client \in Clients, req.length = 0, req.headers = <<>>
  PROVE  /\ IsRequest(req') /\ req'.content = req.content /\ req'.length \in {0, client.length}
         /\ req'.headers = Announced \o
              <<"server_software", "x-gsweb-server-port", "x-gsweb-application-name">>
<1> DEFINE theirs == IF client.length = 0 THEN req
                     ELSE AddHeader(req, "content-length", client.length)
           software == AddHeader(theirs, "server_software", 0)
           port == AddHeader(software, "server_port", 0)
<1>0. /\ Translated("content-length") = "content-length"
      /\ Translated("server_software") = "server_software"
      /\ Translated("server_port") = "x-gsweb-server-port"
      /\ Translated("x-gsweb-application-name") = "x-gsweb-application-name"
  BY DEF Translated
<1>1. client.length \in Nat  BY DEF Clients
<1>2. IsRequest(theirs) /\ theirs.content = req.content /\ theirs.length \in {0, client.length}
  BY <1>1, AddHeaderKeeps
<1>a. theirs.headers = Announced
  <2>1. CASE client.length = 0  BY <2>1 DEF Announced
  <2>2. CASE client.length # 0
    <3>1. theirs.headers = Append(<<>>, "content-length")
      BY <1>0, <1>1, <2>2, AddHeaderKeeps
    <3>2. QED  BY <2>2, <3>1, AppendTuple DEF Announced
  <2>3. QED  BY <2>1, <2>2
<1> HIDE DEF theirs
<1>3. /\ IsRequest(software) /\ software.content = theirs.content
      /\ software.length = theirs.length
      /\ software.headers = Append(theirs.headers, "server_software")
  BY <1>0, <1>2, AddHeaderKeeps
<1> HIDE DEF software
<1>4. /\ IsRequest(port) /\ port.content = software.content /\ port.length = software.length
      /\ port.headers = Append(software.headers, "x-gsweb-server-port")
  BY <1>0, <1>3, AddHeaderKeeps
<1>5. req' = AddHeader(port, "x-gsweb-application-name", 0)
  BY DEF CopyHeaders, port, software, theirs
<1> HIDE DEF port
<1>6. /\ IsRequest(req') /\ req'.content = port.content /\ req'.length = port.length
      /\ req'.headers = Append(port.headers, "x-gsweb-application-name")
  BY <1>0, <1>4, <1>5, AddHeaderKeeps
<1>7. req'.headers = Announced \o
        <<"server_software", "x-gsweb-server-port", "x-gsweb-application-name">>
  <2>1. software.headers = Announced \o <<"server_software">>
    <3>1. Announced = Announced \o <<>>  BY AnnouncedIs, ConcatEmptySeq
    <3>2. QED  BY <1>3, <1>a, <3>1, LastHeader
  <2>2. port.headers = Announced \o <<"server_software", "x-gsweb-server-port">>
    BY <1>4, <2>1, LastHeader
  <2>3. QED  BY <1>6, <2>2, LastHeader
<1>8. QED  BY <1>2, <1>3, <1>4, <1>6, <1>7

\* What the client is sent is a whole answer if the response is one.
LEMMA SentIs ==
  ASSUME NEW r
  PROVE  /\ Sent(r) # Null
         /\ Sent(r).length = r.length
         /\ Sent(r).body = IF client.header_only THEN 0 ELSE r.content
  BY NotNull DEF Sent

\* AMINV
LEMMA AMInvInit == HandlerInit => AMInv
<1> SUFFICES ASSUME HandlerInit PROVE AMInv
  OBVIOUS
<1> USE DEF HandlerInit
<1>1. RequestInv  BY DEF RequestInv, Relaying, Connected
<1>2. ResponseInv  BY DEF ResponseInv, Answering
<1>3. ContentInv  BY DEF ContentInv, Relaying, Connected
<1>4. SentInv  BY DEF SentInv, HeadersInv, OneRequestIsSent
<1>5. HeapInv  BY DEF HeapInv, Named, Relaying, Connected, Kinds, Connection
<1>6. OutInv  BY DEF OutInv, WholeAnswer
<1>7. QED  BY <1>1, <1>2, <1>3, <1>4, <1>5, <1>6 DEF AMInv

LEMMA AMInvNext == AMInv /\ [HandlerNext]_requestVars => AMInv'
<1> SUFFICES ASSUME AMInv, [HandlerNext]_requestVars PROVE AMInv'
  OBVIOUS
<1> USE DEF AMInv, Relaying, Connected, Named, Answering
<1>1. CASE Translation
  <2> USE <1>1 DEF Translation
  <2>1. RequestInv'  BY DEF RequestInv
  <2>2. ResponseInv'  BY DEF ResponseInv
  <2>3. ContentInv'  BY DEF ContentInv
  <2>4. SentInv'  BY DEF SentInv, HeadersInv, Announced, OneRequestIsSent
  <2>5. HeapInv'  BY DEF HeapInv
  <2>6. OutInv'  BY DEF OutInv, WholeAnswer
  <2>7. QED  BY <2>1, <2>2, <2>3, <2>4, <2>5, <2>6
<1>2. CASE CheckURI
  <2> USE <1>2 DEF CheckURI, RespondWith, Alloc
  <2>1. RequestInv'  BY DEF RequestInv
  <2>2. ResponseInv'  BY Pages, NotNull DEF ResponseInv, IsResponse
  <2>3. ContentInv'  BY DEF ContentInv
  <2>4. SentInv'  BY DEF SentInv, HeadersInv, Announced, OneRequestIsSent
  <2>5. HeapInv'  BY Pages, ResponseNotNull DEF HeapInv, ResponseInv, Kinds, Connection
  <2>6. OutInv'  BY DEF OutInv, WholeAnswer
  <2>7. QED  BY <2>1, <2>2, <2>3, <2>4, <2>5, <2>6
<1>3. CASE SetupRefused
  <2> USE <1>3 DEF SetupRefused
  <2>1. RequestInv'  BY DEF RequestInv
  <2>2. ResponseInv'  BY DEF ResponseInv
  <2>3. ContentInv'  BY DEF ContentInv
  <2>4. SentInv'  BY DEF SentInv, HeadersInv, Announced, OneRequestIsSent
  <2>5. HeapInv'  BY DEF HeapInv
  <2>6. OutInv'  BY DEF OutInv, WholeAnswer
  <2>7. QED  BY <2>1, <2>2, <2>3, <2>4, <2>5, <2>6
<1>4. CASE BuildRequest
  <2> USE <1>4 DEF BuildRequest, RespondWith, Alloc
  <2>0. /\ IsRequest(req') /\ req'.length = 0 /\ req'.content = Null /\ req'.headers = <<>>
        /\ req = Null /\ resp = Null
    BY NewRequestIs DEF RequestInv, ResponseInv
  <2>1. RequestInv'  BY <2>0, RequestNotNull DEF RequestInv
  <2>2. ResponseInv'  BY Pages, NotNull DEF ResponseInv, IsResponse
  <2>3. ContentInv'  BY <2>0 DEF ContentInv
  <2>4. SentInv'  BY <2>0 DEF SentInv, HeadersInv, Announced, OneRequestIsSent
  <2>5. HeapInv'
    <3>1. heap["request"] = 0 /\ heap["content"] = 0 /\ heap["response"] = 0
      BY <2>0 DEF HeapInv, Kinds
    <3>2. /\ heap' \in [Kinds -> Nat] /\ heap'["request"] = 1
          /\ heap'["response"] = IF stage' = "die" THEN 1 ELSE 0
          /\ \A k \in Kinds \ {"request", "response"} : heap'[k] = heap[k]
      <4>1. heap \in [Kinds -> Nat] /\ "request" \in Kinds /\ "response" \in Kinds
        BY DEF HeapInv, Kinds
      <4>2. CASE ValidateMethod(NewRequest(client.method))
        BY <3>1, <4>1, <4>2
      <4>3. CASE ~ValidateMethod(NewRequest(client.method))
        BY <3>1, <4>1, <4>3
      <4>4. QED  BY <4>2, <4>3
    <3>3. \A k \in Kinds \ {"stray"} : heap'[k] \in {0, 1}
      BY <3>2 DEF HeapInv
    <3>4. resp' # Null <=> stage' = "die"  BY <2>2 DEF ResponseInv
    <3>5. QED  BY <2>0, <3>1, <3>2, <3>3, <3>4, RequestNotNull DEF HeapInv, Kinds, Connection
  <2>6. OutInv'  BY DEF OutInv, WholeAnswer
  <2>7. QED  BY <2>1, <2>2, <2>3, <2>4, <2>5, <2>6
<1>5. CASE CopyHeaders
  <2> USE <1>5 DEF CopyHeaders, Alloc
  <2>0. /\ IsRequest(req) /\ IsRequest(req') /\ req'.content = req.content
        /\ req'.length \in {0, client.length}
        /\ req'.headers = Announced \o
             <<"server_software", "x-gsweb-server-port", "x-gsweb-application-name">>
    BY CopyHeadersMakes, RequestNotNull DEF RequestInv, ContentInv, SentInv, HeadersInv
  <2>1. RequestInv'  BY <2>0, RequestNotNull DEF RequestInv
  <2>2. ResponseInv'  BY DEF ResponseInv
  <2>3. ContentInv'  BY <2>0 DEF ContentInv
  <2>4. SentInv'  BY <2>0 DEF SentInv, HeadersInv, Announced, OneRequestIsSent
  <2>5. HeapInv'  BY <2>0, RequestNotNull DEF HeapInv, Kinds, Connection
  <2>6. OutInv'  BY DEF OutInv, WholeAnswer
  <2>7. QED  BY <2>1, <2>2, <2>3, <2>4, <2>5, <2>6
<1>6. CASE ReadContent
  <2> USE <1>6 DEF ReadContent, Alloc
  <2>0. /\ IsRequest(req) /\ IsRequest(req') /\ req.content = Null /\ req'.content # Null
        /\ req'.content = [read |-> 0, zeros |-> 0] /\ req'.length = req.length
        /\ req'.headers = req.headers
    BY NotNull DEF RequestInv, IsRequest
  <2>1. RequestInv'  BY <2>0, RequestNotNull DEF RequestInv
  <2>2. ResponseInv'  BY DEF ResponseInv
  <2>3. ContentInv'  BY DEF ContentInv, Clients
  <2>4. SentInv'  BY <2>0 DEF SentInv, HeadersInv, Announced, OneRequestIsSent
  <2>5. HeapInv'  BY <2>0, RequestNotNull DEF HeapInv, Kinds, Connection
  <2>6. OutInv'  BY DEF OutInv, WholeAnswer
  <2>7. QED  BY <2>1, <2>2, <2>3, <2>4, <2>5, <2>6
<1>7. CASE ReadBlock
  <2> USE <1>7 DEF ReadBlock
  <2>0. /\ IsRequest(req) /\ IsRequest(req') /\ req'.length = req.length
        /\ req'.headers = req.headers /\ req'.content \in [read : Nat, zeros : Nat]
        /\ IF req.content.read < client.bytes
           THEN /\ req'.content.read > req.content.read /\ req'.content.read <= client.bytes
                /\ req'.content.zeros = req.content.zeros
           ELSE /\ req'.content.read = req.content.read
                /\ req'.content.zeros = req.length - req.content.read
    <3>1. /\ IsRequest(req) /\ req.content \in [read : Nat, zeros : Nat]
          /\ req.content.read <= client.bytes /\ client.bytes <= client.length
          /\ client.bytes \in Nat /\ req.length = client.length
      BY DEF RequestInv, ContentInv, IsRequest, Clients
    <3>2. PICK n \in Nat, z \in Nat :
            /\ req' = [req EXCEPT !.content = [read |-> n, zeros |-> z]]
            /\ IF req.content.read < client.bytes
               THEN n > req.content.read /\ n <= client.bytes /\ z = req.content.zeros
               ELSE n = req.content.read /\ z = req.length - req.content.read
      <4>1. CASE req.content.read < client.bytes
        <5>1. PICK k \in 1 .. client.bytes - req.content.read :
                req' = [req EXCEPT !.content.read = req.content.read + k]
          BY <4>1
        <5>2. req' = [req EXCEPT !.content = [read |-> req.content.read + k,
                                              zeros |-> req.content.zeros]]
          BY <3>1, <5>1 DEF IsRequest
        <5>3. /\ req.content.read + k \in Nat /\ req.content.zeros \in Nat
              /\ req.content.read + k > req.content.read /\ req.content.read + k <= client.bytes
          BY <3>1, <5>1
        <5>4. QED  BY <3>1, <4>1, <5>2, <5>3
      <4>2. CASE ~(req.content.read < client.bytes)
        <5>1. req' = [req EXCEPT !.content.zeros = req.length - req.content.read]
          BY <4>2
        <5>2. req' = [req EXCEPT !.content = [read |-> req.content.read,
                                              zeros |-> req.length - req.content.read]]
          BY <3>1, <5>1 DEF IsRequest
        <5>3. req.length - req.content.read \in Nat  BY <3>1 DEF IsRequest, Clients
        <5>4. QED  BY <3>1, <4>2, <5>2, <5>3
      <4>3. QED  BY <4>1, <4>2
    <3>3. IsRequest(req') /\ req'.content = [read |-> n, zeros |-> z]
          /\ req'.length = req.length /\ req'.headers = req.headers
      BY <3>1, <3>2 DEF IsRequest
    <3>4. QED  BY <3>1, <3>2, <3>3
  <2>a. req.content # Null /\ req'.content # Null
    BY <2>0, NotNull DEF ContentInv
  <2>1. RequestInv'  BY <2>0, RequestNotNull DEF RequestInv
  <2>2. ResponseInv'  BY DEF ResponseInv
  <2>3. ContentInv'
    <3>1. /\ req.content.zeros = 0 /\ req.content.read <= client.bytes
          /\ client.bytes <= client.length /\ req.length = client.length
          /\ client.bytes \in Nat /\ client.length \in Nat /\ req.content \in [read : Nat, zeros : Nat]
      BY <2>0, <2>a DEF ContentInv, Clients, IsRequest
    <3>2. CASE stage' = "read"
      BY <2>0, <2>a, <3>1, <3>2 DEF ContentInv
    <3>3. CASE stage' = "handle"
      <4>1. /\ req'.content.read = client.bytes
            /\ req'.content.read + req'.content.zeros = client.length
        <5>1. CASE req.content.read < client.bytes
          BY <2>0, <3>1, <3>3, <5>1
        <5>2. CASE ~(req.content.read < client.bytes)
          <6>1. /\ req.content.read = client.bytes /\ req'.content.read = req.content.read
                /\ req'.content.zeros = req.length - req.content.read
            BY <2>0, <3>1, <5>2
          <6>2. QED  BY <3>1, <6>1
        <5>3. QED  BY <5>1, <5>2
      <4>2. QED  BY <2>0, <2>a, <3>1, <3>3, <4>1 DEF ContentInv
    <3>4. QED  BY <3>2, <3>3
  <2>4. SentInv'  BY <2>0 DEF SentInv, HeadersInv, Announced, OneRequestIsSent
  <2>5. HeapInv'  BY <2>0, <2>a, RequestNotNull DEF HeapInv
  <2>6. OutInv'  BY DEF OutInv, WholeAnswer
  <2>7. QED  BY <2>1, <2>2, <2>3, <2>4, <2>5, <2>6
<1>8. CASE NoContent
  <2> USE <1>8 DEF NoContent
  <2>1. RequestInv'  BY DEF RequestInv
  <2>2. ResponseInv'  BY DEF ResponseInv
  <2>3. ContentInv'  BY DEF ContentInv, RequestInv, IsRequest, Clients
  <2>4. SentInv'  BY DEF SentInv, HeadersInv, Announced, OneRequestIsSent
  <2>5. HeapInv'  BY DEF HeapInv
  <2>6. OutInv'  BY DEF OutInv, WholeAnswer
  <2>7. QED  BY <2>1, <2>2, <2>3, <2>4, <2>5, <2>6
<1>9. CASE SendResponse
  <2> USE <1>9 DEF SendResponse, Free
  <2>1. RequestInv'  BY DEF RequestInv
  <2>2. ResponseInv'  BY DEF ResponseInv
  <2>3. ContentInv'  BY DEF ContentInv
  <2>4. SentInv'  BY DEF SentInv, HeadersInv, Announced, OneRequestIsSent
  <2>5. HeapInv'  BY DEF HeapInv, ResponseInv, Kinds, Connection
  <2>6. OutInv'  BY SentIs DEF OutInv, WholeAnswer, ResponseInv
  <2>7. QED  BY <2>1, <2>2, <2>3, <2>4, <2>5, <2>6
<1>10. CASE DieSendResponse
  <2> USE <1>10 DEF DieSendResponse, Free
  <2>1. RequestInv'  BY DEF RequestInv
  <2>2. ResponseInv'  BY DEF ResponseInv
  <2>3. ContentInv'  BY DEF ContentInv
  <2>4. SentInv'  BY DEF SentInv, HeadersInv, Announced, OneRequestIsSent
  <2>5. HeapInv'  BY DEF HeapInv, ResponseInv, Kinds, Connection
  <2>6. OutInv'  BY SentIs DEF OutInv, WholeAnswer, ResponseInv
  <2>7. QED  BY <2>1, <2>2, <2>3, <2>4, <2>5, <2>6
<1>11. CASE HandleStatusPage
  <2> USE <1>11 DEF HandleStatusPage, RespondWith, Alloc
  <2>1. RequestInv'  BY DEF RequestInv
  <2>2. ResponseInv'  BY Pages, NotNull DEF ResponseInv, IsResponse
  <2>3. ContentInv'  BY DEF ContentInv
  <2>4. SentInv'  BY DEF SentInv, HeadersInv, Announced, OneRequestIsSent
  <2>5. HeapInv'  BY Pages, ResponseNotNull DEF HeapInv, ResponseInv, Kinds, Connection
  <2>6. OutInv'  BY DEF OutInv, WholeAnswer
  <2>7. QED  BY <2>1, <2>2, <2>3, <2>4, <2>5, <2>6
<1>12. CASE Handle
  <2> USE <1>12 DEF Handle
  <2>0. /\ IsRequest(req) /\ IsRequest(req') /\ req'.content = req.content
        /\ req'.length = req.length
        /\ req'.headers = Append(req.headers, "x-gsweb-server-adaptor")
    BY AddHeaderKeeps, RequestNotNull DEF RequestInv, Translated
  <2>1. RequestInv'  BY <2>0, RequestNotNull DEF RequestInv
  <2>2. ResponseInv'  BY DEF ResponseInv
  <2>3. ContentInv'  BY <2>0 DEF ContentInv
  <2>4. SentInv'
    <3>1. Announced' = Announced  BY DEF Announced
    <3>2. IsAttempt(attempt') /\ sent = <<>>  BY RetriesAssumption DEF IsAttempt, SentInv
    <3>3. HeadersInv'  BY <2>0, <3>1, LastHeader DEF HeadersInv, SentInv
    <3>4. QED  BY <3>2, <3>3 DEF SentInv, OneRequestIsSent
  <2>5. HeapInv'  BY <2>0, RequestNotNull DEF HeapInv
  <2>6. OutInv'  BY DEF OutInv, WholeAnswer
  <2>7. QED  BY <2>1, <2>2, <2>3, <2>4, <2>5, <2>6
<1>13. CASE CheckUnavailable
  <2> USE <1>13 DEF CheckUnavailable, RespondWith, Alloc
  <2>1. RequestInv'  BY DEF RequestInv
  <2>2. ResponseInv'  BY Pages, NotNull DEF ResponseInv, IsResponse
  <2>3. ContentInv'  BY DEF ContentInv
  <2>4. SentInv'  BY DEF SentInv, HeadersInv, Announced, OneRequestIsSent
  <2>5. HeapInv'  BY Pages, ResponseNotNull DEF HeapInv, ResponseInv, Kinds, Connection
  <2>6. OutInv'  BY DEF OutInv, WholeAnswer
  <2>7. QED  BY <2>1, <2>2, <2>3, <2>4, <2>5, <2>6
<1>14. CASE RelayConnectFails
  <2> USE <1>14 DEF RelayConnectFails
  <2>1. RequestInv'  BY DEF RequestInv
  <2>2. ResponseInv'  BY DEF ResponseInv
  <2>3. ContentInv'  BY DEF ContentInv
  <2>4. SentInv'
    <3>1. IsAttempt(attempt') /\ sent = <<>>  BY DEF IsAttempt, SentInv
    <3>2. HeadersInv'  BY DEF HeadersInv, Announced, SentInv
    <3>3. QED  BY <3>1, <3>2 DEF SentInv, OneRequestIsSent
  <2>5. HeapInv'  BY DEF HeapInv, Kinds, Connection
  <2>6. OutInv'  BY DEF OutInv, WholeAnswer
  <2>7. QED  BY <2>1, <2>2, <2>3, <2>4, <2>5, <2>6
<1>15. CASE RelayConnect
  <2> USE <1>15 DEF RelayConnect
  <2>0. /\ IsRequest(req) /\ IsRequest(req') /\ req'.content = req.content
        /\ req'.length = req.length
        /\ req'.headers = Append(req.headers, "x-gsweb-request-method") \o
             [i \in DOMAIN attempt.own |-> Translated(attempt.own[i])]
    BY ToAppRequestKeeps, RequestNotNull DEF RequestInv
  <2>1. RequestInv'  BY <2>0, RequestNotNull DEF RequestInv
  <2>2. ResponseInv'  BY DEF ResponseInv
  <2>3. ContentInv'  BY <2>0 DEF ContentInv
  <2>4. SentInv'
    <3>1. attempt'.own = attempt.own
      BY DEF SentInv, IsAttempt
    <3>2. Announced' = Announced  BY DEF Announced
    <3>3. sent = <<>>  BY DEF SentInv
    <3>4. HeadersInv'
      BY <2>0, <3>1, <3>2, LastHeader DEF HeadersInv, SentInv
    <3>5. IsAttempt(attempt')
      <4>1. IsAttempt(attempt) /\ attempt' = [attempt EXCEPT !.remaining = attempt.remaining - 1,
                                                              !.silent = FALSE]
        BY DEF SentInv
      <4>2. attempt' = [remaining |-> attempt.remaining - 1, found |-> attempt.found,
                        silent |-> FALSE, own |-> attempt.own]
        BY <4>1 DEF IsAttempt
      <4>3. attempt.remaining - 1 \in Int  BY <4>1 DEF IsAttempt
      <4>4. QED  BY <4>2, <4>3 DEF IsAttempt
    <3>6. QED  BY <3>3, <3>4, <3>5 DEF SentInv, OneRequestIsSent
  <2>5. HeapInv'
    <3>1. \A k \in Connection : heap[k] = 0
      BY DEF HeapInv, Kinds, Connection
    <3>2. /\ heap' \in [Kinds -> Nat]
          /\ \A k \in Connection : heap'[k] = 1
          /\ \A k \in Kinds \ Connection : heap'[k] = heap[k]
      BY <3>1 DEF HeapInv, Kinds
    <3>3. \A k \in Kinds \ {"stray"} : heap'[k] \in {0, 1}
      BY <3>2 DEF HeapInv
    <3>4. \A k \in {"request", "content", "response", "name"} : heap'[k] = heap[k]
      BY <3>2 DEF Kinds, Connection
    <3>5. QED  BY <2>0, <3>2, <3>3, <3>4, RequestNotNull DEF HeapInv
  <2>6. OutInv'  BY DEF OutInv, WholeAnswer
  <2>7. QED  BY <2>1, <2>2, <2>3, <2>4, <2>5, <2>6
<1>16. CASE SendRequest
  <2> USE <1>16 DEF SendRequest
  <2>1. RequestInv'  BY DEF RequestInv
  <2>2. ResponseInv'  BY DEF ResponseInv
  <2>3. ContentInv'  BY DEF ContentInv
  <2>4. SentInv'
    <3>1. sent = <<>> /\ sent' = <<Wire>>
      BY AppendTuple DEF SentInv
    <3>2. /\ Wire.keys = req.headers
          /\ Wire.body # Null => /\ Wire.body.read = client.bytes
                                 /\ Wire.body.read + Wire.body.zeros = client.length
      BY DEF Wire, ContentInv
    <3>3. Len(sent') = 1 /\ sent'[1] = Wire
      BY <3>1
    <3>4. OneRequestIsSent'
      BY <3>2, <3>3 DEF OneRequestIsSent, SentInv, HeadersInv, Announced
    <3>5. QED  BY <3>4 DEF SentInv, HeadersInv
  <2>5. HeapInv'  BY DEF HeapInv
  <2>6. OutInv'  BY DEF OutInv, WholeAnswer
  <2>7. QED  BY <2>1, <2>2, <2>3, <2>4, <2>5, <2>6
<1>17. CASE ReceiveColonless
  <2> USE <1>17 DEF ReceiveColonless
  <2>1. RequestInv'  BY DEF RequestInv
  <2>2. ResponseInv'  BY DEF ResponseInv
  <2>3. ContentInv'  BY DEF ContentInv
  <2>4. SentInv'  BY DEF SentInv, HeadersInv, Announced, OneRequestIsSent
  <2>5. HeapInv'  BY DEF HeapInv
  <2>6. OutInv'  BY DEF OutInv, WholeAnswer
  <2>7. QED  BY <2>1, <2>2, <2>3, <2>4, <2>5, <2>6
<1>18. CASE ReceiveFirstLine
  <2> USE <1>18 DEF ReceiveFirstLine, RespondWith, Alloc
  <2>1. RequestInv'  BY DEF RequestInv
  <2>2. ResponseInv'  BY Pages, NotNull DEF ResponseInv, IsResponse
  <2>3. ContentInv'  BY DEF ContentInv
  <2>4. SentInv'  BY DEF SentInv, HeadersInv, Announced, OneRequestIsSent
  <2>5. HeapInv'  BY Pages, ResponseNotNull, NotNull DEF HeapInv, ResponseInv, Kinds, Connection
  <2>6. OutInv'  BY DEF OutInv, WholeAnswer
  <2>7. QED  BY <2>1, <2>2, <2>3, <2>4, <2>5, <2>6
<1>19. CASE ReceiveHeader
  <2> USE <1>19 DEF ReceiveHeader
  <2>1. RequestInv'  BY DEF RequestInv
  <2>2. ResponseInv'  BY NotNull DEF ResponseInv, IsResponse
  <2>3. ContentInv'  BY DEF ContentInv
  <2>4. SentInv'  BY DEF SentInv, HeadersInv, Announced, OneRequestIsSent
  <2>5. HeapInv'
    <3>1. resp' # Null  BY <2>2 DEF ResponseInv
    <3>2. QED  BY <3>1 DEF HeapInv, ResponseInv
  <2>6. OutInv'  BY DEF OutInv, WholeAnswer
  <2>7. QED  BY <2>1, <2>2, <2>3, <2>4, <2>5, <2>6
<1>20. CASE ReceiveContent
  <2> USE <1>20 DEF ReceiveContent
  <2>1. RequestInv'  BY DEF RequestInv
  <2>2. ResponseInv'  BY Pages, NotNull DEF ResponseInv, IsResponse
  <2>3. ContentInv'  BY DEF ContentInv
  <2>4. SentInv'  BY DEF SentInv, HeadersInv, Announced, OneRequestIsSent
  <2>5. HeapInv'
    <3>1. resp' # Null  BY <2>2 DEF ResponseInv
    <3>2. QED  BY <3>1 DEF HeapInv, ResponseInv
  <2>6. OutInv'  BY DEF OutInv, WholeAnswer
  <2>7. QED  BY <2>1, <2>2, <2>3, <2>4, <2>5, <2>6
<1>21. CASE CloseConnection
  <2> USE <1>21 DEF CloseConnection, Free
  <2>1. RequestInv'  BY DEF RequestInv
  <2>2. ResponseInv'  BY DEF ResponseInv
  <2>3. ContentInv'  BY DEF ContentInv
  <2>4. SentInv'  BY DEF SentInv, HeadersInv, Announced, OneRequestIsSent
  <2>5. HeapInv'  BY DEF HeapInv, Kinds, Connection
  <2>6. OutInv'  BY DEF OutInv, WholeAnswer
  <2>7. QED  BY <2>1, <2>2, <2>3, <2>4, <2>5, <2>6
<1>22. CASE RelayGiveUp
  <2> USE <1>22 DEF RelayGiveUp, RespondWith, Alloc
  <2>1. RequestInv'  BY DEF RequestInv
  <2>2. ResponseInv'  BY Pages, NotNull DEF ResponseInv, IsResponse
  <2>3. ContentInv'  BY DEF ContentInv
  <2>4. SentInv'  BY DEF SentInv, HeadersInv, Announced, OneRequestIsSent
  <2>5. HeapInv'  BY Pages, ResponseNotNull DEF HeapInv, ResponseInv, Kinds, Connection
  <2>6. OutInv'  BY DEF OutInv, WholeAnswer
  <2>7. QED  BY <2>1, <2>2, <2>3, <2>4, <2>5, <2>6
<1>23. CASE ReleaseRequest
  <2> USE <1>23 DEF ReleaseRequest, Free, FreeRequest
  <2>1. RequestInv'  BY RequestNotNull, AddHeaderKeeps, ToAppRequestKeeps DEF RequestInv, IsRequest
  <2>2. ResponseInv'  BY Pages, ResponseNotNull, NotNull DEF ResponseInv, IsResponse
  <2>3. ContentInv'  BY AddHeaderKeeps, ToAppRequestKeeps, NotNull DEF ContentInv, RequestInv, IsRequest, Clients
  <2>4. SentInv'  BY DEF SentInv, HeadersInv, Announced, OneRequestIsSent
  <2>5. HeapInv'  BY Pages, ResponseNotNull, RequestNotNull, NotNull DEF HeapInv, RequestInv, ResponseInv, Kinds
  <2>6. OutInv'  BY NotNull DEF OutInv, WholeAnswer
  <2>7. QED  BY <2>1, <2>2, <2>3, <2>4, <2>5, <2>6
<1>24. CASE UNCHANGED requestVars
  <2> USE <1>24 DEF requestVars
  <2>1. RequestInv'  BY DEF RequestInv
  <2>2. ResponseInv'  BY DEF ResponseInv
  <2>3. ContentInv'  BY DEF ContentInv
  <2>4. SentInv'  BY DEF SentInv, HeadersInv, Announced, OneRequestIsSent
  <2>5. HeapInv'  BY DEF HeapInv
  <2>6. OutInv'  BY DEF OutInv, WholeAnswer
  <2>7. QED  BY <2>1, <2>2, <2>3, <2>4, <2>5, <2>6
<1> QED  BY <1>1, <1>2, <1>3, <1>4, <1>5, <1>6, <1>7, <1>8, <1>9, <1>10, <1>11, <1>12, <1>13, <1>14, <1>15, <1>16, <1>17, <1>18, <1>19, <1>20, <1>21, <1>22, <1>23, <1>24 DEF HandlerNext, RelayNext

(***************************************************************************)
(* Theorems.                                                               *)
(***************************************************************************)
\* Whatever the client asks for and the instances do, what is allocated and open
\* for a request, what was read of its content, the headers it has and what is to be
\* answered fit the place where its handler is.
THEOREM RequestIsAccounted == HandlerSpec => []AMInv
<1>1. HandlerInit => AMInv  BY AMInvInit
<1>2. AMInv /\ [HandlerNext]_requestVars => AMInv'  BY AMInvNext
<1>3. QED  BY <1>1, <1>2, PTL DEF HandlerSpec

\* The handler says OK to Apache if and only if it sent an answer.
THEOREM AnsweredOnce == HandlerSpec => []OneAnswer
<1>1. AMInv => OneAnswer  BY DEF AMInv, OutInv, OneAnswer
<1>2. QED  BY <1>1, RequestIsAccounted, PTL

\* An answer that reaches the client has the length it says, however the
\* answer of the instance broke off.
THEOREM NoPartOfAnAnswer == HandlerSpec => []WholeAnswer
<1>1. AMInv => WholeAnswer  BY DEF AMInv, OutInv
<1>2. QED  BY <1>1, RequestIsAccounted, PTL

\* However many instances failed before and whichever headers their applications
\* have, one instance at most is sent the request, with the headers of its own
\* application once, and with the whole content.
THEOREM SentToOneInstance == HandlerSpec => []OneRequestIsSent
<1>1. AMInv => OneRequestIsSent  BY DEF AMInv, SentInv
<1>2. QED  BY <1>1, RequestIsAccounted, PTL

\* Every block, descriptor and stream is there once at most and none is left at the
\* end, but a request that was refused or asked for the status page.
THEOREM AllGivenBack == HandlerSpec => []GivenBack
<1>1. AMInv => GivenBack
  BY DEF AMInv, RequestInv, HeapInv, ResponseInv, GivenBack, Named, Answering, Connected,
         Relaying, Kinds, Connection
<1>2. QED  BY <1>1, RequestIsAccounted, PTL

(***************************************************************************)
(* The handler implements RequestForwarding, and each step brings its end  *)
(* nearer.                                                                 *)
(***************************************************************************)
IsAnswer(a) ==
    /\ a = [valid |-> a.valid, bytes |-> a.bytes, lines |-> a.lines]
    /\ IsSequence(a.lines)

\* Attempts do not get fewer than one less than none, and what comes from an
\* instance was asked for.
ForwardInv ==
    /\ stage = "available" => attempt.remaining = APP_CONNECT_RETRIES_NB
    /\ stage = "attempt" => attempt.remaining >= -1
    /\ stage = "line" /\ answer.valid => IsAnswer(answer)
    /\ stage = "headers" => IsAnswer(answer)
    /\ stage \in {"line", "headers"} => sent # <<>>
    /\ resp # Null /\ resp.from = "instance" => sent # <<>>

\* How far the handler is from its end: the places before it, and at a place
\* with a loop the bytes, the attempts or the headers that are left.
Phase ==
    CASE stage = "translate" -> 14 [] stage = "handler" -> 13 [] stage = "setup" -> 12
      [] stage = "copy" -> 11 [] stage = "read" -> 10 [] stage = "handle" -> 9
      [] stage = "available" -> 8 [] stage = "attempt" -> 7 [] stage = "send" -> 6
      [] stage = "line" -> 5 [] stage = "headers" -> 4 [] stage = "received" -> 3
      [] stage = "release" -> 2 [] stage \in {"respond", "die"} -> 1 [] OTHER -> 0
Left ==
    CASE stage = "read" -> IF req.content = Null THEN client.bytes + 1
                           ELSE client.bytes - req.content.read
      [] stage = "attempt" -> attempt.remaining + 1
      [] stage = "headers" -> Len(answer.lines)
      [] OTHER -> 0
Nearer == Phase' < Phase \/ (Phase' = Phase /\ Left' < Left)

LEMMA TailIsShorter ==
  ASSUME NEW s, IsSequence(s), s # <<>>
  PROVE  IsSequence(Tail(s)) /\ Len(s) \in Nat /\ Len(Tail(s)) \in Nat /\ Len(Tail(s)) < Len(s)
<1>1. PICK S : s \in Seq(S)  BY DEF IsSequence
<1>2. Tail(s) \in Seq(S) /\ Len(Tail(s)) = Len(s) - 1 /\ Len(s) \in Nat \ {0}
  BY <1>1, EmptySeq
<1>3. QED  BY <1>2 DEF IsSequence

LEMMA AnswersAre == \A a \in Answers : a.valid => IsAnswer(a)
<1> DEFINE T == {[key |-> "content-type", value |-> 0],
                 [key |-> "x-gsweb-adaptorstats", value |-> 0],
                 [key |-> "colonless", value |-> 0]}
                  \union {[key |-> "content-length", value |-> v] : v \in 0 .. MaxLength}
<1> SUFFICES ASSUME NEW a \in Answers, a.valid  PROVE IsAnswer(a)
  OBVIOUS
<1>1. a = [valid |-> a.valid, bytes |-> a.bytes, lines |-> a.lines]
      /\ a.lines \in UNION {[1 .. n -> T] : n \in 0 .. MaxLength}
  <2>1. a # [valid |-> FALSE]
    OBVIOUS
  <2>2. a \in [valid : {TRUE}, bytes : 0 .. MaxLength,
               lines : UNION {[1 .. n -> T] : n \in 0 .. MaxLength}]
    BY <2>1, Zenon DEF Answers
  <2> HIDE DEF T
  <2>3. QED  BY <2>2
<1> HIDE DEF T
<1>2. PICK n \in 0 .. MaxLength : a.lines \in [1 .. n -> T]
  BY <1>1
<1>3. n \in Nat
  OBVIOUS
<1>4. a.lines \in Seq(T)
  BY <1>2, <1>3, SeqDef
<1>5. QED  BY <1>1, <1>4 DEF IsAnswer, IsSequence

\* What of the content of the client is left to read.
LEMMA BlockIsNearer ==
  ASSUME AMInv, ReadContent \/ ReadBlock
  PROVE  Nearer
<1>1. /\ client.bytes \in Nat /\ stage = "read" /\ client' = client
  BY DEF AMInv, ContentInv, Clients, ReadContent, ReadBlock
<1>2. IsRequest(req)
  BY <1>1 DEF AMInv, RequestInv
<1>3. CASE ReadContent
  <2>1. req'.content = [read |-> 0, zeros |-> 0] /\ req.content = Null /\ stage' = "read"
    BY <1>2, <1>3, <1>1 DEF ReadContent, IsRequest
  <2>2. req'.content # Null
    BY <2>1, NotNull
  <2>3. Left = client.bytes + 1 /\ Left' = client.bytes /\ Phase = 10 /\ Phase' = 10
    BY <2>1, <2>2, <1>1 DEF Left, Phase
  <2>4. QED  BY <2>3, <1>1 DEF Nearer
<1>4. CASE ReadBlock
  <2>1. req.content # Null /\ req.content \in [read : Nat, zeros : Nat]
        /\ req.content.read <= client.bytes
    BY <1>1, <1>2, <1>4 DEF ReadBlock, IsRequest, AMInv, ContentInv
  <2>2. CASE req.content.read < client.bytes
    <3>1. PICK n \in 1 .. client.bytes - req.content.read :
            req' = [req EXCEPT !.content.read = req.content.read + n]
      BY <1>4, <2>2 DEF ReadBlock
    <3>2. req'.content.read = req.content.read + n /\ req'.content = [read |-> req.content.read + n, zeros |-> req.content.zeros]
      BY <1>2, <2>1, <3>1 DEF IsRequest
    <3>3. req'.content # Null
      BY <3>2, NotNull
    <3>4. stage' \in {"read", "handle"}
      BY <1>4 DEF ReadBlock
    <3>5. Left = client.bytes - req.content.read /\ Phase = 10
      BY <1>1, <2>1 DEF Left, Phase
    <3>6. CASE stage' = "handle"
      BY <3>5, <3>6 DEF Phase, Nearer
    <3>7. CASE stage' = "read"
      <4>1. Left' = client.bytes - (req.content.read + n) /\ Phase' = 10
        BY <1>1, <3>2, <3>3, <3>7 DEF Left, Phase
      <4>2. QED  BY <1>1, <2>1, <3>5, <4>1 DEF Nearer
    <3>8. QED  BY <3>4, <3>6, <3>7
  <2>3. CASE ~(req.content.read < client.bytes)
    <3>1. stage' = "handle"
      BY <1>1, <1>4, <2>1, <2>3 DEF ReadBlock
    <3>2. QED  BY <1>1, <3>1 DEF Phase, Nearer
  <2>4. QED  BY <2>2, <2>3
<1>5. QED  BY <1>3, <1>4

LEMMA ForwardNext ==
  ASSUME AMInv, ForwardInv, HandlerNext
  PROVE  ForwardInv' /\ Nearer /\ (Forwarding!Next \/ UNCHANGED Forwarding!forwardingVars)
<1> USE RetriesAssumption DEF AMInv, Relaying, Connected
<1>0. resp # Null <=> stage \in Answering
  BY DEF ResponseInv
<1> USE DEF Answering, Forwarding!forwardingVars, State
<1>1. CASE Translation
  <2>1. ForwardInv'  BY <1>0, <1>1 DEF Translation, ForwardInv
  <2>2. Nearer  BY <1>1 DEF Translation, Nearer, Phase
  <2>3. Forwarding!Next \/ UNCHANGED Forwarding!forwardingVars
    BY <1>1 DEF Translation, Forwarding!Next, Forwarding!Leave, SentInv
  <2>4. QED  BY <2>1, <2>2, <2>3
<1>2. CASE CheckURI
  <2> USE DEF CheckURI, RespondWith
  <2>1. ForwardInv'
    BY <1>0, <1>2, NotNull DEF ForwardInv, ErrorPage, ListPage
  <2>2. Nearer  BY <1>2 DEF Nearer, Phase
  <2>3. Forwarding!Next \/ UNCHANGED Forwarding!forwardingVars
    BY <1>2 DEF Forwarding!Next, Forwarding!Leave, Forwarding!Settle, SentInv
  <2>4. QED  BY <2>1, <2>2, <2>3
<1>3. CASE SetupRefused
  <2>1. ForwardInv'  BY <1>0, <1>3 DEF SetupRefused, ForwardInv
  <2>2. Nearer  BY <1>3 DEF SetupRefused, Nearer, Phase
  <2>3. Forwarding!Next
    BY <1>3 DEF SetupRefused, Forwarding!Next, Forwarding!Leave, SentInv
  <2>4. QED  BY <2>1, <2>2, <2>3
<1>4. CASE BuildRequest
  <2> USE DEF BuildRequest, RespondWith
  <2>1. ForwardInv'
    BY <1>0, <1>4, NotNull DEF ForwardInv, ErrorPage
  <2>2. Nearer  BY <1>4 DEF Nearer, Phase, Alloc
  <2>3. Forwarding!Next \/ UNCHANGED Forwarding!forwardingVars
    BY <1>4 DEF Forwarding!Next, Forwarding!Settle, Alloc
  <2>4. QED  BY <2>1, <2>2, <2>3
<1>5. CASE CopyHeaders
  <2>1. ForwardInv'  BY <1>0, <1>5 DEF CopyHeaders, ForwardInv
  <2>2. Nearer  BY <1>5 DEF CopyHeaders, Nearer, Phase
  <2>3. UNCHANGED Forwarding!forwardingVars
    BY <1>5 DEF CopyHeaders
  <2>4. QED  BY <2>1, <2>2, <2>3
<1>6. CASE ReadContent \/ ReadBlock
  <2>1. ForwardInv'  BY <1>0, <1>6 DEF ReadContent, ReadBlock, ForwardInv
  <2>2. Nearer  BY <1>6, BlockIsNearer
  <2>3. UNCHANGED Forwarding!forwardingVars
    BY <1>6 DEF ReadContent, ReadBlock
  <2>4. QED  BY <2>1, <2>2, <2>3
<1>7. CASE NoContent
  <2>1. ForwardInv'  BY <1>0, <1>7 DEF NoContent, ForwardInv
  <2>2. Nearer  BY <1>7 DEF NoContent, Nearer, Phase
  <2>3. UNCHANGED Forwarding!forwardingVars
    BY <1>7 DEF NoContent
  <2>4. QED  BY <2>1, <2>2, <2>3
<1>8. CASE SendResponse \/ DieSendResponse
  <2> USE DEF SendResponse, DieSendResponse
  <2>1. ForwardInv'  BY <1>0, <1>8 DEF ForwardInv
  <2>2. Nearer  BY <1>8 DEF Nearer, Phase
  <2>3. Forwarding!Next
    <3>1. resp # Null /\ resp.length = resp.content
      BY <1>8 DEF ResponseInv
    <3>2. /\ out' = Sent(resp) /\ out' # Null /\ out'.length = resp.length
          /\ out'.from = resp.from
          /\ out'.body = IF client.header_only THEN 0 ELSE resp.content
      BY <1>8, SentIs DEF Sent
    <3>3. Forwarding!Answer
      BY <1>8, <3>1, <3>2 DEF Forwarding!Answer, ForwardInv
    <3>4. QED  BY <3>3 DEF Forwarding!Next
  <2>4. QED  BY <2>1, <2>2, <2>3
<1>9. CASE HandleStatusPage
  <2> USE DEF HandleStatusPage, RespondWith
  <2>1. ForwardInv'  BY <1>0, <1>9 DEF ForwardInv, ListPage, ErrorPage
  <2>2. Nearer  BY <1>9 DEF Nearer, Phase
  <2>3. Forwarding!Next
    BY <1>9 DEF Forwarding!Next, Forwarding!Settle
  <2>4. QED  BY <2>1, <2>2, <2>3
<1>10. CASE Handle
  <2>1. ForwardInv'  BY <1>0, <1>10 DEF Handle, ForwardInv, IsAttempt, SentInv
  <2>2. Nearer  BY <1>10 DEF Handle, Nearer, Phase
  <2>3. UNCHANGED Forwarding!forwardingVars
    BY <1>10 DEF Handle
  <2>4. QED  BY <2>1, <2>2, <2>3
<1>11. CASE CheckUnavailable
  <2> USE DEF CheckUnavailable, RespondWith
  <2>1. ForwardInv'
    BY <1>0, <1>11 DEF ForwardInv, UnavailablePage, ErrorPage, IsAttempt
  <2>2. Nearer  BY <1>11 DEF Nearer, Phase
  <2>3. Forwarding!Next \/ UNCHANGED Forwarding!forwardingVars
    BY <1>11 DEF Forwarding!Next, Forwarding!Settle
  <2>4. QED  BY <2>1, <2>2, <2>3
<1>12. CASE RelayConnectFails
  <2>1. /\ stage = "attempt" /\ stage' = "attempt" /\ attempt.remaining > 0
        /\ attempt.remaining \in Int
        /\ attempt'.remaining \in {attempt.remaining - 1, attempt.remaining - 2}
        /\ UNCHANGED <<client, resp, sent, out, ret>>
    BY <1>12 DEF RelayConnectFails, SentInv, IsAttempt
  <2>2. ForwardInv'  BY <1>0, <2>1 DEF ForwardInv
  <2>3. Nearer
    <3>1. Phase = 7 /\ Phase' = 7 /\ Left = attempt.remaining + 1 /\ Left' = attempt'.remaining + 1
      BY <2>1 DEF Phase, Left
    <3>2. QED  BY <2>1, <3>1 DEF Nearer
  <2>4. UNCHANGED Forwarding!forwardingVars
    BY <2>1
  <2>5. QED  BY <2>2, <2>3, <2>4
<1>13. CASE RelayConnect
  <2>1. ForwardInv'  BY <1>0, <1>13 DEF RelayConnect, ForwardInv
  <2>2. Nearer  BY <1>13 DEF RelayConnect, Nearer, Phase
  <2>3. UNCHANGED Forwarding!forwardingVars
    BY <1>13 DEF RelayConnect
  <2>4. QED  BY <2>1, <2>2, <2>3
<1>14. CASE SendRequest
  <2>1. /\ stage = "send" /\ stage' = "line" /\ answer' \in Answers
        /\ sent = <<>> /\ sent' = <<Wire>>
        /\ resp = Null /\ UNCHANGED <<client, resp, out, ret>>
    BY <1>0, <1>14, AppendTuple DEF SendRequest, SentInv
  <2>2. Len(sent') = 1 /\ sent' # <<>>
    BY <2>1
  <2>3. ForwardInv'  BY <1>0, <2>1, <2>2, AnswersAre DEF ForwardInv
  <2>4. Nearer  BY <2>1 DEF Phase, Nearer
  <2>5. Forwarding!Next
    BY <2>1, <2>2 DEF Forwarding!Next, Forwarding!Forward
  <2>6. QED  BY <2>3, <2>4, <2>5
<1>15. CASE ReceiveFirstLine
  <2> USE DEF ReceiveFirstLine, RespondWith
  <2>1. ForwardInv'  BY <1>0, <1>15 DEF ForwardInv
  <2>2. Nearer  BY <1>15 DEF Nearer, Phase
  <2>3. Forwarding!Next
    BY <1>15 DEF Forwarding!Next, Forwarding!Settle
  <2>4. QED  BY <2>1, <2>2, <2>3
<1>16. CASE ReceiveHeader
  <2> USE DEF ReceiveHeader
  <2>1. /\ IsAnswer(answer) /\ answer.lines # <<>> /\ IsAnswer(answer')
        /\ answer'.lines = Tail(answer.lines)
    BY <1>16, TailIsShorter DEF ForwardInv, IsAnswer
  <2>2. ForwardInv'  BY <1>0, <1>16, <2>1 DEF ForwardInv
  <2>3. Nearer
    <3>1. Phase = 4 /\ Phase' = 4 /\ Left = Len(answer.lines) /\ Left' = Len(Tail(answer.lines))
      BY <1>16, <2>1 DEF Phase, Left
    <3>2. QED  BY <2>1, <3>1, TailIsShorter DEF Nearer, IsAnswer
  <2>4. UNCHANGED Forwarding!forwardingVars
    BY <1>16
  <2>5. QED  BY <2>2, <2>3, <2>4
<1>21. CASE ReceiveColonless
  <2> USE DEF ReceiveColonless
  <2>1. ForwardInv'  BY <1>0, <1>21 DEF ForwardInv
  <2>2. Nearer  BY <1>21 DEF Nearer, Phase
  <2>3. Forwarding!Next
    BY <1>21 DEF Forwarding!Next, Forwarding!Die, ForwardInv
  <2>4. QED  BY <2>1, <2>2, <2>3
<1>17. CASE ReceiveContent
  <2> USE DEF ReceiveContent
  <2>1. ForwardInv'  BY <1>0, <1>17 DEF ForwardInv
  <2>2. Nearer  BY <1>17 DEF Nearer, Phase
  <2>3. UNCHANGED Forwarding!forwardingVars
    BY <1>17
  <2>4. QED  BY <2>1, <2>2, <2>3
<1>18. CASE CloseConnection \/ ReleaseRequest
  <2> USE DEF CloseConnection, ReleaseRequest
  <2>1. ForwardInv'  BY <1>0, <1>18 DEF ForwardInv
  <2>2. Nearer  BY <1>18 DEF Nearer, Phase
  <2>3. UNCHANGED Forwarding!forwardingVars
    BY <1>18
  <2>4. QED  BY <2>1, <2>2, <2>3
<1>19. CASE RelayGiveUp
  <2> USE DEF RelayGiveUp, RespondWith
  <2>1. ForwardInv'  BY <1>0, <1>19 DEF ForwardInv, ErrorPage, ListPage
  <2>2. Nearer  BY <1>19 DEF Nearer, Phase
  <2>3. Forwarding!Next
    BY <1>19 DEF Forwarding!Next, Forwarding!Settle
  <2>4. QED  BY <2>1, <2>2, <2>3
<1>20. QED
  BY <1>1, <1>2, <1>3, <1>4, <1>5, <1>6, <1>7, <1>8, <1>9, <1>10, <1>11, <1>12, <1>13, <1>14,
     <1>15, <1>16, <1>17, <1>18, <1>19, <1>21 DEF HandlerNext, RelayNext

LEMMA ForwardInvariant == HandlerSpec => []ForwardInv
<1>1. HandlerInit => ForwardInv
  BY DEF HandlerInit, ForwardInv
<1>2. AMInv /\ ForwardInv /\ [HandlerNext]_requestVars => ForwardInv'
  <2>1. CASE HandlerNext  BY <2>1, ForwardNext
  <2>2. CASE UNCHANGED requestVars
    BY <2>2 DEF requestVars, ForwardInv
  <2>3. QED  BY <2>1, <2>2
<1>3. QED  BY <1>1, <1>2, RequestIsAccounted, PTL DEF HandlerSpec

\* For every number of attempts, whatever fails at the instances or on the way: one
\* sending of the request at most, none once it is settled what to answer, and at
\* the end one whole answer, or the request goes back to Apache without any instance
\* having had it, or the process is gone with the instance's answer.
THEOREM ImplementsForwarding == HandlerSpec => ForwardingSpec
<1>1. HandlerInit => Forwarding!Init
  BY DEF HandlerInit, Forwarding!Init, State, Clients
<1>2. AMInv /\ ForwardInv /\ [HandlerNext]_requestVars => [Forwarding!Next]_(Forwarding!forwardingVars)
  <2>1. CASE HandlerNext  BY <2>1, ForwardNext
  <2>2. CASE UNCHANGED requestVars
    BY <2>2 DEF requestVars, Forwarding!forwardingVars, State
  <2>3. QED  BY <2>1, <2>2
<1>3. QED
  BY <1>1, <1>2, RequestIsAccounted, ForwardInvariant, PTL
     DEF HandlerSpec, ForwardingSpec, Forwarding!Spec

\* A handler that goes on comes to its end: each of its steps leads to a later
\* place or, at a place with a loop, leaves fewer bytes, attempts or headers, of
\* which there is a natural number.
THEOREM EachStepIsNearer == HandlerSpec => [][Nearer /\ Left' \in Nat]_requestVars
<1>1. AMInv' /\ ForwardInv' => Left' \in Nat
  <2> SUFFICES ASSUME AMInv', ForwardInv' PROVE Left' \in Nat
    OBVIOUS
  <2>1. CASE stage' = "read"
    <3>1. /\ client'.bytes \in Nat /\ req' # Null /\ IsRequest(req')
      BY <2>1 DEF AMInv, ContentInv, Clients, RequestInv
    <3>2. req'.content # Null => req'.content.read \in Nat /\ req'.content.read <= client'.bytes
      BY <2>1, <3>1 DEF AMInv, ContentInv, IsRequest
    <3>3. Left' = IF req'.content = Null THEN client'.bytes + 1 ELSE client'.bytes - req'.content.read
      BY <2>1 DEF Left
    <3>4. QED  BY <3>1, <3>2, <3>3
  <2>2. CASE stage' = "attempt"
    <3>1. attempt'.remaining \in Int /\ attempt'.remaining >= -1
      BY <2>2 DEF AMInv, SentInv, ForwardInv, IsAttempt
    <3>2. Left' = attempt'.remaining + 1
      BY <2>2 DEF Left
    <3>3. QED  BY <3>1, <3>2
  <2>3. CASE stage' = "headers"
    <3>1. IsSequence(answer'.lines)
      BY <2>3 DEF ForwardInv, IsAnswer
    <3>2. Len(answer'.lines) \in Nat
      BY <3>1, AppendOne
    <3>3. QED  BY <2>3, <3>2 DEF Left
  <2>4. CASE stage' \notin {"read", "attempt", "headers"}
    BY <2>4 DEF Left
  <2>5. QED  BY <2>1, <2>2, <2>3, <2>4
<1>2. AMInv /\ ForwardInv /\ AMInv' /\ ForwardInv' /\ [HandlerNext]_requestVars
        => [Nearer /\ Left' \in Nat]_requestVars
  BY <1>1, ForwardNext
<1>3. QED  BY <1>2, RequestIsAccounted, ForwardInvariant, PTL DEF HandlerSpec

(***************************************************************************)
(* Places in an URL.                                                       *)
(***************************************************************************)
\* x is the first place at or after i where u has a token of S, or its end.
IsFound(u, i, S, x) ==
    /\ x \in i .. Len(u) + 1
    /\ x <= Len(u) => u[x] \in S
    /\ \A k \in i .. x - 1 : u[k] \notin S

\* Find finds it, and there is no other.
LEMMA FindProps ==
    ASSUME NEW V, NEW u \in Seq(V), NEW i \in Nat \ {0}, i <= Len(u) + 1, NEW S
    PROVE  IsFound(u, i, S, Find(u, i, S))
<1> DEFINE P == {j \in i .. Len(u) : u[j] \in S}
<1>1. CASE P # {}
  <2>1. P \in SUBSET Nat  OBVIOUS
  <2>2. PICK x \in P : \A y \in P : x <= y  BY <1>1, <2>1, LeastOf
  <2>3. x \in i .. Len(u) /\ u[x] \in S /\ \A k \in i .. x - 1 : u[k] \notin S
    <3>1. x \in i .. Len(u) /\ u[x] \in S  OBVIOUS
    <3>2. ASSUME NEW k \in i .. x - 1 PROVE u[k] \notin S
      <4>1. k \in i .. Len(u) /\ ~(x <= k)  BY <3>1
      <4> QED BY <2>2, <4>1
    <3> QED BY <3>1, <3>2
  <2> DEFINE c == CHOOSE j \in i .. Len(u) : u[j] \in S /\ \A k \in i .. j - 1 : u[k] \notin S
  <2>4. c \in i .. Len(u) /\ u[c] \in S /\ \A k \in i .. c - 1 : u[k] \notin S
    BY <2>3
  <2>5. Find(u, i, S) = c  BY <1>1 DEF Find
  <2> HIDE DEF c
  <2> QED BY <2>4, <2>5 DEF IsFound
<1>2. CASE P = {}
  <2>1. Find(u, i, S) = Len(u) + 1 /\ \A k \in i .. Len(u) : u[k] \notin S
    BY <1>2 DEF Find
  <2> QED BY <2>1 DEF IsFound
<1> QED BY <1>1, <1>2

LEMMA FindIs ==
    ASSUME NEW V, NEW u \in Seq(V), NEW i \in Nat \ {0}, NEW S, NEW x, IsFound(u, i, S, x)
    PROVE  Find(u, i, S) = x
<1>1. x \in i .. Len(u) + 1 /\ Len(u) \in Nat  BY DEF IsFound
<1>2. IsFound(u, i, S, Find(u, i, S))  BY <1>1, FindProps
<1> DEFINE y == Find(u, i, S)
<1> HIDE DEF y
<1>3. y \in i .. Len(u) + 1 /\ (y <= Len(u) => u[y] \in S) /\ \A k \in i .. y - 1 : u[k] \notin S
  BY <1>2 DEF IsFound, y
<1>4. ~(x < y)  BY <1>1, <1>3 DEF IsFound
<1>5. ~(y < x)  BY <1>1, <1>3 DEF IsFound
<1>6. x = y  BY <1>1, <1>3, <1>4, <1>5
<1> QED BY <1>6 DEF y

\* Behind the end there is nothing.
LEMMA FindBehind ==
    ASSUME NEW V, NEW u \in Seq(V), NEW i \in Nat \ {0}, NEW S, i > Len(u)
    PROVE  Find(u, i, S) = Len(u) + 1
BY DEF Find

\* What stands between two places.
LEMMA PartProps ==
    ASSUME NEW V, NEW u \in Seq(V), NEW i \in Nat \ {0}, NEW j \in Nat
    PROVE  /\ Part(u, i, j) \in Seq(V)
           /\ j <= Len(u) + 1 => Len(Part(u, i, j)) = IF i < j THEN j - i ELSE 0
           /\ Len(Part(u, i, j)) = 0 \/ i + Len(Part(u, i, j)) <= Len(u) + 1
           /\ \A k \in 1 .. Len(Part(u, i, j)) : Part(u, i, j)[k] = u[i + k - 1]
<1> DEFINE m == IF j - 1 <= Len(u) THEN j - 1 ELSE Len(u)
<1>1. Len(u) \in Nat /\ m \in Int /\ m <= Len(u)  OBVIOUS
<1>2. Part(u, i, j) = SubSeq(u, i, m)  BY DEF Part
<1>3. j <= Len(u) + 1 => m = j - 1  BY <1>1
<1> HIDE DEF m
<1>4. \A k \in i .. m : u[k] \in V  BY <1>1
<1>5. /\ SubSeq(u, i, m) \in Seq(V) /\ Len(SubSeq(u, i, m)) = IF i <= m THEN m - i + 1 ELSE 0
      /\ \A k \in 1 .. m - i + 1 : SubSeq(u, i, m)[k] = u[i + k - 1]
  BY <1>1, <1>4, SubSeqProperties
<1> QED BY <1>1, <1>2, <1>3, <1>5

\* w is what stands in u from i to before j.
Stands(w, u, i, j) ==
    /\ j = i + Len(w) /\ j <= Len(u) + 1
    /\ \A k \in 1 .. Len(w) : u[i + k - 1] = w[k]

LEMMA PartIs ==
    ASSUME NEW V, NEW u \in Seq(V), NEW w \in Seq(V), NEW i \in Nat \ {0}, NEW j,
           Stands(w, u, i, j)
    PROVE  Part(u, i, j) = w
<1>1. j = i + Len(w) /\ j <= Len(u) + 1 /\ j \in Nat /\ Len(w) \in Nat  BY DEF Stands
<1>2. Part(u, i, j) \in Seq(V) /\ Len(Part(u, i, j)) = Len(w)
      /\ \A k \in 1 .. Len(w) : Part(u, i, j)[k] = u[i + k - 1]
  BY <1>1, PartProps
<1>3. \A k \in 1 .. Len(w) : Part(u, i, j)[k] = w[k]  BY <1>2 DEF Stands
<1> QED BY <1>2, <1>3, SeqEqual

\* A name that does not end with a slash is not cut.
LEMMA DropSlashesProps ==
    ASSUME NEW V, NEW s \in Seq(V)
    PROVE  /\ DropSlashes(s) \in Seq(V) /\ Len(DropSlashes(s)) <= Len(s)
           /\ \A k \in 1 .. Len(DropSlashes(s)) : DropSlashes(s)[k] = s[k]
           /\ Len(DropSlashes(s)) > 0 => DropSlashes(s)[Len(DropSlashes(s))] # "/"
           /\ Len(s) > 0 /\ s[Len(s)] # "/" => DropSlashes(s) = s
<1> DEFINE Q(n) == /\ n = 0 \/ s[n] # "/"
                   /\ \A k \in n + 1 .. Len(s) : s[k] = "/"
           P == {m \in Nat : m <= Len(s) /\ Q(Len(s) - m)}
           n == CHOOSE n \in 0 .. Len(s) : Q(n)
<1>1. \E x \in 0 .. Len(s) : Q(x)
  <2> DEFINE T == {m \in Nat : m = Len(s) \/ (m < Len(s) /\ s[Len(s) - m] # "/")}
  <2>1. T \in SUBSET Nat /\ T # {}
    <3>1. Len(s) \in T  OBVIOUS
    <3> QED BY <3>1
  <2>2. PICK m \in T : \A y \in T : m <= y  BY <2>1, LeastOf
  <2>3. m \in 0 .. Len(s) /\ Len(s) \in Nat  OBVIOUS
  <2>4. Len(s) - m = 0 \/ s[Len(s) - m] # "/"  BY <2>3
  <2>5. ASSUME NEW k \in (Len(s) - m) + 1 .. Len(s) PROVE s[k] = "/"
    <3>1. Len(s) - k \in Nat /\ Len(s) - k < m /\ Len(s) - (Len(s) - k) = k  BY <2>3
    <3>2. Len(s) - k \notin T  BY <2>2, <2>3, <3>1
    <3> QED BY <2>3, <3>1, <3>2
  <2>6. Q(Len(s) - m)  BY <2>4, <2>5
  <2> QED BY <2>3, <2>6
<1>2. n \in 0 .. Len(s) /\ Q(n)  BY <1>1
<1>3. DropSlashes(s) = Part(s, 1, n + 1)  BY DEF DropSlashes
<1> HIDE DEF n
<1>4. n + 1 \in Nat /\ n + 1 <= Len(s) + 1 /\ Len(s) \in Nat  BY <1>2
<1>5. /\ DropSlashes(s) \in Seq(V) /\ Len(DropSlashes(s)) = n
      /\ \A k \in 1 .. n : DropSlashes(s)[k] = s[1 + k - 1]
  <2> DEFINE j == n + 1
  <2>1. j \in Nat /\ j <= Len(s) + 1  BY <1>4
  <2>2. (IF 1 < j THEN j - 1 ELSE 0) = n  BY <1>2
  <2> HIDE DEF j
  <2>3. /\ Part(s, 1, j) \in Seq(V)
        /\ Len(Part(s, 1, j)) = IF 1 < j THEN j - 1 ELSE 0
        /\ \A k \in 1 .. Len(Part(s, 1, j)) : Part(s, 1, j)[k] = s[1 + k - 1]
    BY <2>1, PartProps
  <2>4. DropSlashes(s) = Part(s, 1, j)  BY <1>3 DEF j
  <2> QED BY <2>2, <2>3, <2>4
<1>6. \A k \in 1 .. n : DropSlashes(s)[k] = s[k]
  <2> SUFFICES ASSUME NEW k \in 1 .. n PROVE DropSlashes(s)[k] = s[k]
    OBVIOUS
  <2>1. 1 + k - 1 = k  BY <1>2
  <2> QED BY <1>5, <2>1
<1>7. n > 0 => DropSlashes(s)[n] # "/"  BY <1>2, <1>6
<1>8. ASSUME Len(s) > 0, s[Len(s)] # "/" PROVE DropSlashes(s) = s
  <2>1. n = Len(s)  BY <1>2, <1>4, <1>8
  <2> QED BY <1>5, <1>6, <2>1, SeqEqual
<1> QED BY <1>2, <1>4, <1>5, <1>6, <1>7, <1>8

(***************************************************************************)
(* What GSWParseURL gives.                                                 *)
(***************************************************************************)
Tok == (Tokens \union {"/GSWeb", "/", ".gswa", "a", "1", "2"}) \ {"?"}

\* A name has no ".gswa" in it, and does not end with a slash; a key has no slash.
NameOK(app) ==
    /\ app \in Seq(Tok) /\ Len(app) > 0
    /\ app[Len(app)] # "/"
    /\ \A k \in 1 .. Len(app) : app[k] # ".gswa"
KeyOK(key) == key \in Seq(Tok) /\ \A k \in 1 .. Len(key) : key[k] # "/"

Components == [prefix : Seq(Tok), app : {a \in Seq(Tok) : NameOK(a)}, number : Seq(Tok),
               key : {k \in Seq(Tok) : KeyOK(k)}, path : Seq(Tok), query : Seq(Tok),
               error : {"OK"}]

LEMMA URLsProps ==
    ASSUME NEW u \in URLs
    PROVE  /\ u \in Seq(Tok) /\ Len(u) > Leading
           /\ Leading = 0 => u[1] = "/GSWeb"
<1>1. PICK n \in 0 .. MaxTokens : \E rest \in [1 .. n -> Tokens] : u = Alias \o rest
  BY DEF URLs
<1>2. PICK rest \in [1 .. n -> Tokens] : u = Alias \o rest
  BY <1>1
<1>3. n \in Nat /\ Leading \in Nat /\ "?" \notin Tokens  BY TokensAssumption
<1>4. rest \in Seq(Tok)  BY <1>3 DEF Tok
<1> DEFINE A == [i \in 1 .. Leading |-> "a"]
<1>5. A \in Seq(Tok) /\ Len(A) = Leading  BY <1>3 DEF Tok
<1>6. <<"/GSWeb">> \in Seq(Tok) /\ Len(<<"/GSWeb">>) = 1 /\ <<"/GSWeb">>[1] = "/GSWeb"
  BY DEF Tok
<1> HIDE DEF A
<1>7. /\ Alias \in Seq(Tok) /\ Len(Alias) = Leading + 1
      /\ Leading = 0 => Alias[1] = "/GSWeb"
  <2>1. Alias = A \o <<"/GSWeb">>  BY DEF Alias, A
  <2> QED BY <1>3, <1>5, <1>6, <2>1, ConcatProperties
<1>8. /\ Alias \o rest \in Seq(Tok) /\ Len(Alias \o rest) = Len(Alias) + Len(rest)
      /\ (Alias \o rest)[1] = Alias[1]
  <2>1. Len(rest) \in Nat /\ 1 \in 1 .. Len(Alias) + Len(rest) /\ 1 <= Len(Alias)
    BY <1>3, <1>4, <1>7
  <2> QED BY <1>4, <1>7, <2>1, ConcatProperties
<1>9. Len(rest) \in Nat  BY <1>4
<1> QED BY <1>2, <1>3, <1>7, <1>8, <1>9

\* All of an URL.
LEMMA WholePart ==
    ASSUME NEW V, NEW u \in Seq(V)
    PROVE  Part(u, 1, Len(u) + 1) = u
<1>1. Stands(u, u, 1, Len(u) + 1)
  <2>1. Len(u) \in Nat  OBVIOUS
  <2>2. ASSUME NEW k \in 1 .. Len(u) PROVE u[1 + k - 1] = u[k]
    <3>1. 1 + k - 1 = k  OBVIOUS
    <3> QED BY <3>1
  <2> QED BY <2>1, <2>2 DEF Stands
<1>2. 1 \in Nat \ {0} /\ u \in Seq(V)  OBVIOUS
<1> QED BY <1>1, <1>2, PartIs

\* Nothing stands between a place and itself.
LEMMA EmptyPart ==
    ASSUME NEW V, NEW u \in Seq(V), NEW i \in 1 .. Len(u) + 1
    PROVE  Part(u, i, i) = <<>>
<1>1. i \in Nat \ {0} /\ i \in Nat /\ i <= Len(u) + 1  OBVIOUS
<1>2. Part(u, i, i) \in Seq(V) /\ Len(Part(u, i, i)) = 0  BY <1>1, PartProps
<1> QED BY <1>2

\* A part without any token of S.
LEMMA PartHasNone ==
    ASSUME NEW V, NEW u \in Seq(V), NEW i \in Nat \ {0}, NEW x \in Nat, NEW T,
           i <= x, x <= Len(u) + 1, \A k \in i .. x - 1 : u[k] \notin T
    PROVE  \A k \in 1 .. Len(Part(u, i, x)) : Part(u, i, x)[k] \notin T
<1> DEFINE p == Part(u, i, x)
<1>1. /\ Len(p) = IF i < x THEN x - i ELSE 0
      /\ \A k \in 1 .. Len(p) : p[k] = u[i + k - 1]
  BY PartProps
<1> HIDE DEF p
<1>2. ASSUME NEW k \in 1 .. Len(p) PROVE p[k] \notin T
  <2>1. i + k - 1 \in i .. x - 1  BY <1>1
  <2> QED BY <1>1, <2>1
<1> QED BY <1>2 DEF p

LEMMA AfterNameProps ==
    ASSUME NEW u \in Seq(Tok), NEW i \in 1 .. Len(u) + 1
    PROVE  LET r == AfterName(u, i, Len(u) + 1)
           IN  r.number \in Seq(Tok) /\ KeyOK(r.key) /\ r.path \in 1 .. Len(u) + 1
<1> DEFINE stop == Len(u) + 1
           Past(j) == IF j < stop THEN j + 1 ELSE j
           S == ToSet(u) \ {"/"}
           one == Find(u, i, S)
           oneEnds == Find(u, one, {"/"})
           word == Part(u, one, oneEnds)
           po == Past(oneEnds)
           two == Find(u, po, S)
           twoEnds == Find(u, two, {"/"})
           w2 == Part(u, two, twoEnds)
           pt == Past(twoEnds)
<1>0. Len(u) \in Nat /\ i \in Nat \ {0} /\ i <= Len(u) + 1  OBVIOUS
<1>1. one \in i .. Len(u) + 1
  <2> HIDE DEF S
  <2> QED BY <1>0, FindProps DEF IsFound
<1>2. oneEnds \in one .. Len(u) + 1 /\ \A k \in one .. oneEnds - 1 : u[k] \notin {"/"}
  <2> HIDE DEF one
  <2>1. one \in Nat \ {0} /\ one <= Len(u) + 1  BY <1>0, <1>1
  <2> QED BY <2>1, FindProps DEF IsFound
<1>3. po \in 1 .. Len(u) + 1
  <2> HIDE DEF one, oneEnds
  <2> QED BY <1>0, <1>1, <1>2
<1>4. two \in po .. Len(u) + 1
  <2> HIDE DEF po, S
  <2>1. po \in Nat \ {0} /\ po <= Len(u) + 1  BY <1>0, <1>3
  <2> QED BY <2>1, FindProps DEF IsFound
<1>5. twoEnds \in two .. Len(u) + 1 /\ \A k \in two .. twoEnds - 1 : u[k] \notin {"/"}
  <2> HIDE DEF two, po
  <2>1. two \in Nat \ {0} /\ two <= Len(u) + 1  BY <1>0, <1>3, <1>4
  <2> QED BY <2>1, FindProps DEF IsFound
<1>6. pt \in 1 .. Len(u) + 1
  <2> HIDE DEF two, twoEnds, po
  <2> QED BY <1>0, <1>3, <1>4, <1>5
<1> HIDE DEF one, oneEnds, two, twoEnds, po
<1>7. KeyOK(word) /\ word \in Seq(Tok)
  <2>1. one \in Nat \ {0} /\ oneEnds \in Nat /\ one <= oneEnds /\ oneEnds <= Len(u) + 1
    BY <1>0, <1>1, <1>2
  <2>2. word \in Seq(Tok)  BY <2>1, PartProps
  <2>3. \A k \in 1 .. Len(word) : word[k] \notin {"/"}  BY <1>2, <2>1, PartHasNone
  <2> QED BY <2>2, <2>3 DEF KeyOK
<1>8. KeyOK(w2)
  <2>1. two \in Nat \ {0} /\ twoEnds \in Nat /\ two <= twoEnds /\ twoEnds <= Len(u) + 1
    BY <1>0, <1>3, <1>4, <1>5
  <2>2. w2 \in Seq(Tok)  BY <2>1, PartProps
  <2>3. \A k \in 1 .. Len(w2) : w2[k] \notin {"/"}  BY <1>5, <2>1, PartHasNone
  <2> QED BY <2>2, <2>3 DEF KeyOK
<1>9. KeyOK(<<>>) /\ <<>> \in Seq(Tok)  BY DEF KeyOK
<1>10. AfterName(u, i, stop) =
         IF word = <<"-1">> THEN [number |-> word, key |-> <<>>, path |-> po]
         ELSE IF ToSet(word) \subseteq Digit
         THEN [number |-> word, key |-> w2, path |-> pt]
         ELSE [number |-> <<>>, key |-> word, path |-> po]
  <2>1. Part(u, 1, stop) = u  BY WholePart
  <2>2. ~(one > stop) /\ ~(two > stop)  BY <1>0, <1>1, <1>3, <1>4
  <2> QED BY <2>1, <2>2 DEF AfterName, SkipSlashes, one, oneEnds, two, twoEnds, po
<1> HIDE DEF word, w2, pt
<1> DEFINE r == AfterName(u, i, stop)
<1>11. \/ r = [number |-> word, key |-> <<>>, path |-> po]
       \/ r = [number |-> word, key |-> w2, path |-> pt]
       \/ r = [number |-> <<>>, key |-> word, path |-> po]
  BY <1>10
<1> HIDE DEF r
<1>12. r.number \in {word, <<>>} /\ r.key \in {<<>>, w2, word} /\ r.path \in {po, pt}
  BY <1>11
<1>13. r.number \in Seq(Tok) /\ KeyOK(r.key) /\ r.path \in 1 .. Len(u) + 1
  BY <1>3, <1>6, <1>7, <1>8, <1>9, <1>12
<1> QED BY <1>13 DEF r, stop

\* The name stops before its extension, or before a slash where it has none.
LEMMA NameStopsProps ==
    ASSUME NEW u \in Seq(Tok), NEW i \in 1 .. Len(u) + 1
    PROVE  LET r == NameStops(u, i, Len(u) + 1)
           IN  /\ r.stop \in i .. Len(u) + 1 /\ r.next \in 0 .. Len(u) + 1
               /\ \A k \in i .. r.stop - 1 : u[k] \notin {".gswa"}
<1> DEFINE g == Find(u, i, {".gswa"})
           w == Find(u, i, {".woa"})
           e == Extension(u, i)
           slash == Find(u, i, {"/"})
           r == NameStops(u, i, Len(u) + 1)
<1>0. Len(u) \in Nat /\ i \in Nat \ {0} /\ i <= Len(u) + 1  OBVIOUS
<1>1. g \in i .. Len(u) + 1 /\ \A k \in i .. g - 1 : u[k] \notin {".gswa"}
  BY <1>0, FindProps DEF IsFound
<1>2. w \in i .. Len(u) + 1  BY <1>0, FindProps DEF IsFound
<1>3. slash \in i .. Len(u) + 1  BY <1>0, FindProps DEF IsFound
<1>4. e = IF g <= Len(u) THEN g ELSE w  BY DEF Extension
<1>5. r = IF e <= Len(u)
          THEN IF Len(u) + 1 <= e THEN [stop |-> Len(u) + 1, next |-> Len(u) + 1]
               ELSE [stop |-> e, next |-> e + 1]
          ELSE IF slash > Len(u) THEN [stop |-> Len(u) + 1, next |-> 0]
          ELSE IF Len(u) + 1 <= slash THEN [stop |-> (Len(u) + 1) - 1, next |-> Len(u) + 1]
          ELSE [stop |-> slash, next |-> slash + 1]
  BY DEF NameStops
<1> HIDE DEF g, w, e, slash, r
<1>6. \/ e <= Len(u) /\ r = [stop |-> e, next |-> e + 1]
      \/ e > Len(u) /\ r = [stop |-> Len(u) + 1, next |-> 0]
      \/ e > Len(u) /\ slash <= Len(u) /\ r = [stop |-> slash, next |-> slash + 1]
  <2>1. e \in i .. Len(u) + 1  BY <1>1, <1>2, <1>4
  <2>2. e <= Len(u) => ~(Len(u) + 1 <= e)  BY <1>0, <2>1
  <2>3. ~(e <= Len(u)) => e > Len(u)  BY <1>0, <2>1
  <2>4. ~(slash > Len(u)) => slash <= Len(u) /\ ~(Len(u) + 1 <= slash)  BY <1>0, <1>3
  <2> QED BY <1>5, <2>2, <2>3, <2>4
<1>7. e \in i .. Len(u) + 1 /\ (g <= Len(u) => e = g) /\ (e > Len(u) => g > Len(u))
  BY <1>0, <1>1, <1>2, <1>4
<1>8. \/ r.stop = e /\ r.next = e + 1 /\ e <= Len(u)
      \/ r.stop = Len(u) + 1 /\ r.next = 0 /\ e > Len(u)
      \/ r.stop = slash /\ r.next = slash + 1 /\ slash <= Len(u) /\ e > Len(u)
  BY <1>6
<1>9. r.stop \in i .. Len(u) + 1 /\ r.next \in 0 .. Len(u) + 1
  BY <1>0, <1>3, <1>7, <1>8
<1>10. r.stop <= g
  BY <1>0, <1>1, <1>3, <1>7, <1>8
<1>11. \A k \in i .. r.stop - 1 : u[k] \notin {".gswa"}
  <2>1. \A k \in i .. r.stop - 1 : k \in i .. g - 1  BY <1>0, <1>1, <1>9, <1>10
  <2> QED BY <1>1, <2>1
<1> QED BY <1>9, <1>11 DEF r

\* An URL without a query that is not refused has these components.
LEMMA ParseURLProps ==
    ASSUME NEW u \in Seq(Tok), ParseURL(u).error = "OK"
    PROVE  /\ ParseURL(u) \in Components
           /\ ParseURL(u).key = <<>> => ParseURL(u).path = <<>>
           /\ Len(u) > 0 /\ u[1] = "/GSWeb" => ParseURL(u).prefix = <<"/GSWeb">>
<1> DEFINE query == Find(u, 1, {"?"})
           prefix == Find(u, 1, {"/GSWeb"})
           start == IF prefix + 1 <= Len(u) THEN prefix + 2 ELSE prefix + 1
           name == NameStops(u, start, query)
           app == DropSlashes(Part(u, start, name.stop))
           rest == IF name.next = 0
                   THEN [number |-> <<>>, key |-> <<>>, path |-> query]
                   ELSE AfterName(u, name.next, query)
           path == Part(u, rest.path, query)
           good == [prefix |-> Part(u, prefix, prefix + prefix),
                    app |-> app, number |-> rest.number, key |-> rest.key, path |-> path,
                    query |-> Part(u, query, Len(u) + 1),
                    error |-> IF app = <<>> THEN "InvalidAppName"
                              ELSE IF rest.key = <<>> /\ path # <<>>
                              THEN "InvalidRequestHandlerKey" ELSE "OK"]
<1>0. Len(u) \in Nat  OBVIOUS
<1>1. query = Len(u) + 1
  <2>1. \A k \in 1 .. Len(u) : u[k] # "?"  BY DEF Tok
  <2>2. IsFound(u, 1, {"?"}, Len(u) + 1)  BY <2>1 DEF IsFound
  <2>3. 1 \in Nat \ {0}  OBVIOUS
  <2> QED BY <2>2, <2>3, FindIs
<1>2. prefix \in 1 .. Len(u) + 1 /\ \A k \in 1 .. prefix - 1 : u[k] \notin {"/GSWeb"}
  <2>1. 1 \in Nat \ {0} /\ 1 <= Len(u) + 1  BY <1>0
  <2> QED BY <2>1, FindProps DEF IsFound
<1>3. ParseURL(u) = IF prefix > Len(u) \/ query <= prefix THEN [error |-> "InvalidPrefix"] ELSE good
  BY DEF ParseURL
<1> HIDE DEF good
<1>4. prefix \in 1 .. Len(u) /\ ParseURL(u) = good /\ good.error = "OK"
  <2> HIDE DEF query, prefix
  <2>1. ~(prefix > Len(u) \/ query <= prefix)  BY <1>3
  <2> QED BY <1>0, <1>2, <1>3, <2>1
<1>5. start \in 1 .. Len(u) + 1
  <2> HIDE DEF prefix
  <2> QED BY <1>0, <1>4
<1> HIDE DEF query, prefix, start
<1>6. /\ name.stop \in start .. Len(u) + 1 /\ name.next \in 0 .. Len(u) + 1
      /\ \A k \in start .. name.stop - 1 : u[k] \notin {".gswa"}
  BY <1>1, <1>5, NameStopsProps
<1> HIDE DEF name
<1>7. app \in Seq(Tok) /\ (app # <<>> => NameOK(app))
  <2> DEFINE s == Part(u, start, name.stop)
  <2>1. start \in Nat \ {0} /\ name.stop \in Nat /\ start <= name.stop /\ name.stop <= Len(u) + 1
    BY <1>0, <1>5, <1>6
  <2>2. s \in Seq(Tok)  BY <2>1, PartProps
  <2>3. \A k \in 1 .. Len(s) : s[k] \notin {".gswa"}  BY <1>6, <2>1, PartHasNone
  <2> HIDE DEF s
  <2>4. /\ DropSlashes(s) \in Seq(Tok) /\ Len(DropSlashes(s)) <= Len(s)
        /\ \A k \in 1 .. Len(DropSlashes(s)) : DropSlashes(s)[k] = s[k]
        /\ Len(DropSlashes(s)) > 0 => DropSlashes(s)[Len(DropSlashes(s))] # "/"
    BY <2>2, DropSlashesProps
  <2>5. app = DropSlashes(s)  BY DEF s
  <2> HIDE DEF app
  <2>6. Len(app) \in Nat /\ Len(s) \in Nat  BY <2>2, <2>4, <2>5
  <2>7. \A k \in 1 .. Len(app) : app[k] # ".gswa"
    <3>1. \A k \in 1 .. Len(app) : k \in 1 .. Len(s)  BY <2>4, <2>5, <2>6
    <3> QED BY <2>3, <2>4, <2>5, <3>1
  <2>8. app # <<>> => Len(app) > 0  BY <2>4, <2>5, <2>6
  <2> QED BY <2>4, <2>5, <2>7, <2>8 DEF NameOK
<1>8. rest.number \in Seq(Tok) /\ KeyOK(rest.key) /\ rest.path \in 1 .. Len(u) + 1
  <2>1. CASE name.next = 0
    <3>1. rest.number = <<>> /\ rest.key = <<>> /\ rest.path = Len(u) + 1  BY <1>1, <2>1
    <3>2. KeyOK(<<>>) /\ <<>> \in Seq(Tok)  BY DEF KeyOK
    <3> HIDE DEF rest
    <3> QED BY <1>0, <3>1, <3>2
  <2>2. CASE name.next # 0
    <3>1. name.next \in 1 .. Len(u) + 1  BY <1>0, <1>6, <2>2
    <3>2. rest = AfterName(u, name.next, Len(u) + 1)  BY <1>1, <2>2
    <3> QED BY <3>1, <3>2, AfterNameProps
  <2> QED BY <2>1, <2>2
<1> HIDE DEF rest
<1>9. path \in Seq(Tok) /\ Part(u, query, Len(u) + 1) \in Seq(Tok)
      /\ Part(u, prefix, prefix + prefix) \in Seq(Tok)
  <2>1. rest.path \in Nat \ {0} /\ query \in Nat \ {0} /\ Len(u) + 1 \in Nat
        /\ prefix \in Nat \ {0} /\ prefix + prefix \in Nat
    BY <1>0, <1>1, <1>4, <1>8
  <2> QED BY <2>1, PartProps
<1>10. app # <<>> /\ (rest.key = <<>> => path = <<>>)
  <2>1. good.error = IF app = <<>> THEN "InvalidAppName"
                     ELSE IF rest.key = <<>> /\ path # <<>>
                     THEN "InvalidRequestHandlerKey" ELSE "OK"
    BY DEF good
  <2> QED BY <1>4, <2>1
<1>11. good = [prefix |-> Part(u, prefix, prefix + prefix),
               app |-> app, number |-> rest.number, key |-> rest.key, path |-> path,
               query |-> Part(u, query, Len(u) + 1), error |-> "OK"]
  BY <1>10 DEF good
<1>12. Len(u) > 0 /\ u[1] = "/GSWeb" => Part(u, prefix, prefix + prefix) = <<"/GSWeb">>
  <2> SUFFICES ASSUME Len(u) > 0, u[1] = "/GSWeb"
               PROVE  Part(u, prefix, prefix + prefix) = <<"/GSWeb">>
    OBVIOUS
  <2>1. prefix = 1
    <3>1. prefix > 1 => 1 \in 1 .. prefix - 1  BY <1>4
    <3> QED BY <1>2, <1>4, <3>1
  <2>2. Part(u, 1, 2) \in Seq(Tok) /\ Len(Part(u, 1, 2)) = 1
        /\ \A k \in 1 .. 1 : Part(u, 1, 2)[k] = u[1 + k - 1]
    <3> DEFINE j == 2
    <3>1. 1 \in Nat \ {0} /\ j \in Nat /\ j <= Len(u) + 1 /\ 1 < j /\ j - 1 = 1  BY <1>0
    <3> HIDE DEF j
    <3>2. /\ Part(u, 1, j) \in Seq(Tok) /\ Len(Part(u, 1, j)) = IF 1 < j THEN j - 1 ELSE 0
          /\ \A k \in 1 .. Len(Part(u, 1, j)) : Part(u, 1, j)[k] = u[1 + k - 1]
      BY <3>1, PartProps
    <3>3. Part(u, 1, j) \in Seq(Tok) /\ Len(Part(u, 1, j)) = 1
          /\ \A k \in 1 .. 1 : Part(u, 1, j)[k] = u[1 + k - 1]
      BY <3>1, <3>2
    <3> QED BY <3>3 DEF j
  <2>3. Part(u, 1, 2)[1] = "/GSWeb"
    <3>1. 1 \in 1 .. 1 /\ 1 + 1 - 1 = 1  OBVIOUS
    <3> QED BY <2>2, <3>1
  <2>4. Part(u, 1, 2) = <<"/GSWeb">>  BY <2>2, <2>3
  <2>5. prefix + prefix = 2  BY <2>1
  <2> QED BY <2>1, <2>4, <2>5
<1> HIDE DEF path, app
<1>13. good \in Components
  BY <1>7, <1>8, <1>9, <1>10, <1>11 DEF Components, KeyOK, NameOK
<1>14. good.key = rest.key /\ good.path = path
       /\ good.prefix = Part(u, prefix, prefix + prefix)
  BY <1>11
<1> QED BY <1>4, <1>10, <1>12, <1>13, <1>14

(***************************************************************************)
(* The inductive invariant.                                                *)
(***************************************************************************)
PartsOK(c) ==
    /\ c \in Components
    /\ c.key = <<>> => c.path = <<>>
    /\ Leading = 0 => c.prefix = <<"/GSWeb">>

\* What stands in the parsed URL while it is used, and what was made of it.
URLInv ==
    /\ url \in URLs /\ chosen \in {<<"1">>, <<"2">>}
    /\ place \in {"compose", "sent"} => PartsOK(parsed)
    /\ place = "sent" => /\ parsed.number = chosen /\ parsed.query \in {<<>>, <<"a">>}
                         /\ composed = ComposeURL(parsed)

LEMMA SetNumberAndQuery ==
    ASSUME NEW c, PartsOK(c), NEW n \in {<<"1">>, <<"2">>}, NEW q \in {<<>>, <<"a">>}
    PROVE  LET d == [c EXCEPT !.number = n, !.query = q]
           IN  PartsOK(d) /\ d.number = n /\ d.query = q
<1>1. c = [prefix |-> c.prefix, app |-> c.app, number |-> c.number, key |-> c.key,
           path |-> c.path, query |-> c.query, error |-> c.error]
  BY DEF PartsOK, Components
<1> DEFINE d == [c EXCEPT !.number = n, !.query = q]
<1> DEFINE e == [c EXCEPT !.number = n]
<1>2. e = [prefix |-> c.prefix, app |-> c.app, number |-> n, key |-> c.key,
           path |-> c.path, query |-> c.query, error |-> c.error]
  BY <1>1
<1>3. d = [prefix |-> c.prefix, app |-> c.app, number |-> n, key |-> c.key,
           path |-> c.path, query |-> q, error |-> c.error]
  <2>1. d = [e EXCEPT !.query = q]  OBVIOUS
  <2> HIDE DEF e, d
  <2> QED BY <1>2, <2>1
<1> HIDE DEF e
<1>4. n \in Seq(Tok) /\ q \in Seq(Tok)
  <2>1. "1" \in Tok /\ "2" \in Tok /\ "a" \in Tok  BY DEF Tok
  <2>2. <<"1">> \in Seq(Tok) /\ <<"2">> \in Seq(Tok) /\ <<"a">> \in Seq(Tok)
        /\ <<>> \in Seq(Tok)
    BY <2>1
  <2> QED BY <2>2, Zenon
<1> HIDE DEF d
<1>5. /\ d.prefix = c.prefix /\ d.app = c.app /\ d.number = n /\ d.key = c.key
      /\ d.path = c.path /\ d.query = q /\ d.error = c.error
  BY <1>3
<1>6. d \in Components  BY <1>3, <1>4 DEF PartsOK, Components
<1> QED BY <1>5, <1>6 DEF PartsOK, d

LEMMA URLInvInit == URLInit => URLInv
BY DEF URLInit, URLInv

LEMMA URLInvNext == URLInv /\ [URLNext]_urlVars => URLInv'
<1> SUFFICES ASSUME URLInv, [URLNext]_urlVars PROVE URLInv'
  OBVIOUS
<1>1. CASE Parse
  <2>1. url' = url /\ chosen' = chosen /\ parsed' = ParseURL(url)
        /\ place' = (IF ParseURL(url).error = "OK" THEN "compose" ELSE "refused")
    BY <1>1 DEF Parse
  <2>2. ASSUME ParseURL(url).error = "OK" PROVE PartsOK(ParseURL(url))
    <3>1. url \in Seq(Tok) /\ Len(url) > 0 /\ (Leading = 0 => url[1] = "/GSWeb")
      <4>1. url \in URLs /\ Leading \in Nat  BY TokensAssumption DEF URLInv
      <4>2. url \in Seq(Tok) /\ Len(url) > Leading /\ (Leading = 0 => url[1] = "/GSWeb")
        BY <4>1, URLsProps
      <4> QED BY <4>1, <4>2
    <3> QED BY <2>2, <3>1, ParseURLProps DEF PartsOK
  <2>3. place' \in {"compose", "refused"} /\ (place' = "compose" => PartsOK(parsed'))
    BY <2>1, <2>2
  <2> QED BY <2>1, <2>3 DEF URLInv
<1>2. CASE Compose
  <2>1. PICK args \in {<<>>, <<"a">>} :
          /\ parsed' = [parsed EXCEPT !.number = chosen, !.query = args]
          /\ composed' = ComposeURL([parsed EXCEPT !.number = chosen, !.query = args])
    BY <1>2 DEF Compose
  <2>2. PartsOK(parsed) /\ chosen \in {<<"1">>, <<"2">>} /\ chosen' = chosen /\ url' = url
        /\ place' = "sent"
    BY <1>2 DEF Compose, URLInv
  <2>3. PartsOK(parsed') /\ parsed'.number = chosen /\ parsed'.query = args
    BY <2>1, <2>2, SetNumberAndQuery
  <2>4. composed' = ComposeURL(parsed')  BY <2>1
  <2> QED BY <2>2, <2>3, <2>4 DEF URLInv
<1>3. CASE Again
  BY <1>3 DEF Again, URLInv
<1>4. CASE UNCHANGED urlVars
  BY <1>4 DEF urlVars, URLInv
<1> QED BY <1>1, <1>2, <1>3, <1>4 DEF URLNext

\* A component with its mark.
LEMMA WithProps ==
    ASSUME NEW V, NEW mark \in V, NEW s \in Seq(V)
    PROVE  /\ With(mark, s) \in Seq(V)
           /\ s = <<>> => With(mark, s) = <<>>
           /\ s # <<>> => /\ Len(With(mark, s)) = Len(s) + 1 /\ With(mark, s)[1] = mark
                         /\ \A k \in 1 .. Len(s) : With(mark, s)[k + 1] = s[k]
<1>1. CASE s = <<>>  BY <1>1 DEF With
<1>2. CASE s # <<>>
  <2>1. With(mark, s) = <<mark>> \o s  BY <1>2 DEF With
  <2>2. <<mark>> \in Seq(V) /\ Len(<<mark>>) = 1 /\ <<mark>>[1] = mark  OBVIOUS
  <2> DEFINE m == <<mark>>
  <2> HIDE DEF m
  <2>3. /\ m \o s \in Seq(V) /\ Len(m \o s) = Len(m) + Len(s)
        /\ \A i \in 1 .. Len(m) + Len(s) : (m \o s)[i] = IF i <= Len(m) THEN m[i] ELSE s[i - Len(m)]
    BY <2>2, ConcatProperties DEF m
  <2>4. With(mark, s) = m \o s /\ Len(m) = 1 /\ m[1] = mark /\ Len(s) \in Nat
    BY <2>1, <2>2 DEF m
  <2>5. ASSUME NEW k \in 1 .. Len(s) PROVE (m \o s)[k + 1] = s[k]
    <3>1. k + 1 \in 1 .. Len(m) + Len(s) /\ ~(k + 1 <= Len(m)) /\ (k + 1) - Len(m) = k
      BY <2>4
    <3> QED BY <2>3, <3>1
  <2>6. (m \o s)[1] = mark  BY <2>3, <2>4
  <2>7. Len(m \o s) = Len(s) + 1  BY <2>3, <2>4
  <2> QED BY <1>2, <2>3, <2>4, <2>5, <2>6, <2>7
<1> QED BY <1>1, <1>2

\* What stands in a sequence stands there when another follows.
LEMMA StandsBefore ==
    ASSUME NEW V, NEW x \in Seq(V), NEW y \in Seq(V), NEW w \in Seq(V), NEW i \in Nat \ {0},
           NEW j, Stands(w, x, i, j)
    PROVE  Stands(w, x \o y, i, j)
<1>1. /\ Len(x) \in Nat /\ Len(y) \in Nat /\ Len(w) \in Nat
      /\ Len(x \o y) = Len(x) + Len(y)
      /\ \A k \in 1 .. Len(x) + Len(y) : (x \o y)[k] = IF k <= Len(x) THEN x[k] ELSE y[k - Len(x)]
  BY ConcatProperties
<1>2. j = i + Len(w) /\ j <= Len(x) + 1 /\ \A k \in 1 .. Len(w) : x[i + k - 1] = w[k]
  BY DEF Stands
<1>3. ASSUME NEW k \in 1 .. Len(w) PROVE (x \o y)[i + k - 1] = w[k]
  <2>1. i + k - 1 \in 1 .. Len(x) + Len(y) /\ i + k - 1 <= Len(x)  BY <1>1, <1>2
  <2> QED BY <1>1, <1>2, <2>1
<1>4. j <= Len(x \o y) + 1  BY <1>1, <1>2
<1> QED BY <1>2, <1>3, <1>4 DEF Stands

LEMMA StandsBehind ==
    ASSUME NEW V, NEW x \in Seq(V), NEW y \in Seq(V)
    PROVE  Stands(y, x \o y, Len(x) + 1, Len(x) + 1 + Len(y))
<1>1. /\ Len(x) \in Nat /\ Len(y) \in Nat
      /\ Len(x \o y) = Len(x) + Len(y)
      /\ \A k \in 1 .. Len(x) + Len(y) : (x \o y)[k] = IF k <= Len(x) THEN x[k] ELSE y[k - Len(x)]
  BY ConcatProperties
<1>2. ASSUME NEW k \in 1 .. Len(y) PROVE (x \o y)[Len(x) + 1 + k - 1] = y[k]
  <2> DEFINE m == Len(x) + 1 + k - 1
  <2>1. m \in 1 .. Len(x) + Len(y) /\ ~(m <= Len(x)) /\ m - Len(x) = k  BY <1>1
  <2> HIDE DEF m
  <2>2. (x \o y)[m] = y[k]  BY <1>1, <2>1
  <2> QED BY <2>2 DEF m
<1>3. Len(x) + 1 + Len(y) <= Len(x \o y) + 1  BY <1>1
<1> QED BY <1>2, <1>3 DEF Stands

\* z is x, which ends before the place m, with y behind it.
IsPut(z, x, y, m, n) == z = x \o y /\ Len(x) + 1 = m /\ n = m + Len(y)

LEMMA PutBehind ==
    ASSUME NEW V, NEW x \in Seq(V), NEW y \in Seq(V), NEW z, NEW m, NEW n, IsPut(z, x, y, m, n)
    PROVE  /\ z \in Seq(V) /\ Len(z) + 1 = n /\ n \in Nat \ {0}
           /\ Stands(y, z, m, n)
<1>0. z = x \o y /\ Len(x) + 1 = m /\ n = m + Len(y)  BY DEF IsPut
<1>1. Len(x) \in Nat /\ Len(y) \in Nat  OBVIOUS
<1>2. z \in Seq(V) /\ Len(z) = Len(x) + Len(y)  BY <1>0, ConcatProperties
<1>3. Stands(y, x \o y, Len(x) + 1, Len(x) + 1 + Len(y))  BY StandsBehind
<1>4. Stands(y, z, m, n)  BY <1>0, <1>3
<1>5. Len(z) + 1 = n /\ n \in Nat \ {0}
  <2> DEFINE i == Len(x)
             j == Len(y)
             l == Len(z)
  <2>1. i \in Nat /\ j \in Nat /\ l = i + j /\ i + 1 = m /\ n = m + j  BY <1>0, <1>1, <1>2
  <2> HIDE DEF i, j, l
  <2>2. l + 1 = n /\ n \in Nat \ {0}  BY <2>1
  <2> QED BY <2>2 DEF l
<1> QED BY <1>2, <1>4, <1>5

\* The places of the components of a composed URL.
AppAt(c) == Len(c.prefix) + 2
ExtensionAt(c) == AppAt(c) + Len(c.app)
NumberAt(c) == ExtensionAt(c) + 1
KeyAt(c) == NumberAt(c) + Len(With("/", c.number))
PathAt(c) == KeyAt(c) + Len(With("/", c.key))
QueryAt(c) == PathAt(c) + Len(With("/", c.path))
EndAt(c) == QueryAt(c) + Len(With("?", c.query))

SentTokens == Tok \union {"?"}

LEMMA Layout ==
    ASSUME NEW c \in Components, NEW w, w = ComposeURL(c)
    PROVE  /\ w \in Seq(SentTokens) /\ EndAt(c) = Len(w) + 1
           /\ Stands(c.prefix, w, 1, Len(c.prefix) + 1)
           /\ Stands(<<"/">>, w, Len(c.prefix) + 1, AppAt(c))
           /\ Stands(c.app, w, AppAt(c), ExtensionAt(c))
           /\ Stands(<<".gswa">>, w, ExtensionAt(c), NumberAt(c))
           /\ Stands(With("/", c.number), w, NumberAt(c), KeyAt(c))
           /\ Stands(With("/", c.key), w, KeyAt(c), PathAt(c))
           /\ Stands(With("/", c.path), w, PathAt(c), QueryAt(c))
           /\ Stands(With("?", c.query), w, QueryAt(c), EndAt(c))
<1> DEFINE V == SentTokens
           o == c.prefix
           l == <<"/">>
           a == c.app
           e == <<".gswa">>
           n == With("/", c.number)
           k == With("/", c.key)
           p == With("/", c.path)
           q == With("?", c.query)
<1>1. /\ o \in Seq(V) /\ a \in Seq(V) /\ l \in Seq(V) /\ e \in Seq(V)
      /\ Len(l) = 1 /\ Len(e) = 1
  BY DEF Components, NameOK, Tok, SentTokens
<1>2. n \in Seq(V) /\ k \in Seq(V) /\ p \in Seq(V) /\ q \in Seq(V)
  <2>1. "/" \in V /\ "?" \in V  BY DEF Tok, SentTokens
  <2>2. c.number \in Seq(V) /\ c.key \in Seq(V) /\ c.path \in Seq(V) /\ c.query \in Seq(V)
    BY DEF Components, KeyOK, SentTokens
  <2> HIDE DEF V
  <2> QED BY <2>1, <2>2, WithProps
<1> DEFINE s1 == o \o l
           s2 == s1 \o a
           s3 == s2 \o e
           s4 == s3 \o n
           s5 == s4 \o k
           s6 == s5 \o p
           s7 == s6 \o q
<1>3. w = s7  BY DEF ComposeURL
<1> DEFINE at1 == Len(o) + 1
           at2 == AppAt(c)
           at3 == ExtensionAt(c)
           at4 == NumberAt(c)
           at5 == KeyAt(c)
           at6 == PathAt(c)
           at7 == QueryAt(c)
           at8 == EndAt(c)
<1>4. /\ at2 = at1 + 1 /\ at3 = at2 + Len(a) /\ at4 = at3 + 1 /\ at5 = at4 + Len(n)
      /\ at6 = at5 + Len(k) /\ at7 = at6 + Len(p) /\ at8 = at7 + Len(q)
  <2>1. Len(o) \in Nat  BY <1>1
  <2>2. Len(o) + 2 = Len(o) + 1 + 1  BY <2>1
  <2> QED BY <2>2 DEF AppAt, ExtensionAt, NumberAt, KeyAt, PathAt, QueryAt, EndAt
<1>5. at1 \in Nat \ {0}  BY <1>1
<1> HIDE DEF V, n, k, p, q, o, l, a, e, at1, at2, at3, at4, at5, at6, at7, at8
<1>6. o \in Seq(V) /\ Len(o) + 1 = at1 /\ Stands(o, o, 1, at1)
  <2>1. ASSUME NEW i \in 1 .. Len(o) PROVE o[1 + i - 1] = o[i]
    <3>1. 1 + i - 1 = i  OBVIOUS
    <3> QED BY <3>1
  <2>2. Len(o) \in Nat /\ at1 = 1 + Len(o) /\ at1 <= Len(o) + 1  BY <1>1 DEF at1
  <2> QED BY <1>1, <2>1, <2>2 DEF Stands, at1
<1>7. 1 \in Nat \ {0}  OBVIOUS
<1>8. /\ s1 \in Seq(V) /\ Len(s1) + 1 = at2 /\ at2 \in Nat \ {0}
      /\ Stands(o, s1, 1, at1) /\ Stands(l, s1, at1, at2)
  <2>0. s1 = o \o l  OBVIOUS
  <2>1. IsPut(s1, o, l, at1, at2)  BY <1>1, <1>4, <1>6 DEF IsPut
  <2> HIDE DEF s1
  <2>2. /\ s1 \in Seq(V) /\ Len(s1) + 1 = at2 /\ at2 \in Nat \ {0}
        /\ Stands(l, s1, at1, at2)
    BY <1>1, <1>6, <2>1, PutBehind
  <2>3. /\ Stands(o, s1, 1, at1)
    BY <1>1, <1>2, <1>5, <1>6, <1>7, <2>0, StandsBefore
  <2> QED BY <2>2, <2>3
<1> HIDE DEF s1
<1>9. /\ s2 \in Seq(V) /\ Len(s2) + 1 = at3 /\ at3 \in Nat \ {0}
      /\ Stands(o, s2, 1, at1) /\ Stands(l, s2, at1, at2) /\ Stands(a, s2, at2, at3)
  <2>0. s2 = s1 \o a  OBVIOUS
  <2>1. IsPut(s2, s1, a, at2, at3)  BY <1>1, <1>4, <1>8 DEF IsPut
  <2> HIDE DEF s2
  <2>2. /\ s2 \in Seq(V) /\ Len(s2) + 1 = at3 /\ at3 \in Nat \ {0}
        /\ Stands(a, s2, at2, at3)
    BY <1>1, <1>8, <2>1, PutBehind
  <2>3. /\ Stands(o, s2, 1, at1) /\ Stands(l, s2, at1, at2)
    BY <1>1, <1>2, <1>5, <1>6, <1>7, <1>8, <2>0, StandsBefore
  <2> QED BY <2>2, <2>3
<1> HIDE DEF s2
<1>10. /\ s3 \in Seq(V) /\ Len(s3) + 1 = at4 /\ at4 \in Nat \ {0}
       /\ Stands(o, s3, 1, at1) /\ Stands(l, s3, at1, at2) /\ Stands(a, s3, at2, at3)
       /\ Stands(e, s3, at3, at4)
  <2>0. s3 = s2 \o e  OBVIOUS
  <2>1. IsPut(s3, s2, e, at3, at4)  BY <1>1, <1>4, <1>9 DEF IsPut
  <2> HIDE DEF s3
  <2>2. /\ s3 \in Seq(V) /\ Len(s3) + 1 = at4 /\ at4 \in Nat \ {0}
        /\ Stands(e, s3, at3, at4)
    BY <1>1, <1>9, <2>1, PutBehind
  <2>3. /\ Stands(o, s3, 1, at1) /\ Stands(l, s3, at1, at2) /\ Stands(a, s3, at2, at3)
    BY <1>1, <1>2, <1>5, <1>6, <1>7, <1>8, <1>9, <2>0, StandsBefore
  <2> QED BY <2>2, <2>3
<1> HIDE DEF s3
<1>11. /\ s4 \in Seq(V) /\ Len(s4) + 1 = at5 /\ at5 \in Nat \ {0}
       /\ Stands(o, s4, 1, at1) /\ Stands(l, s4, at1, at2) /\ Stands(a, s4, at2, at3)
       /\ Stands(e, s4, at3, at4) /\ Stands(n, s4, at4, at5)
  <2>0. s4 = s3 \o n  OBVIOUS
  <2>1. IsPut(s4, s3, n, at4, at5)  BY <1>1, <1>4, <1>10 DEF IsPut
  <2> HIDE DEF s4
  <2>2. /\ s4 \in Seq(V) /\ Len(s4) + 1 = at5 /\ at5 \in Nat \ {0}
        /\ Stands(n, s4, at4, at5)
    BY <1>2, <1>10, <2>1, PutBehind
  <2>3. /\ Stands(o, s4, 1, at1) /\ Stands(l, s4, at1, at2) /\ Stands(a, s4, at2, at3)
        /\ Stands(e, s4, at3, at4)
    BY <1>1, <1>2, <1>5, <1>6, <1>7, <1>8, <1>9, <1>10, <2>0, StandsBefore
  <2> QED BY <2>2, <2>3
<1> HIDE DEF s4
<1>12. /\ s5 \in Seq(V) /\ Len(s5) + 1 = at6 /\ at6 \in Nat \ {0}
       /\ Stands(o, s5, 1, at1) /\ Stands(l, s5, at1, at2) /\ Stands(a, s5, at2, at3)
       /\ Stands(e, s5, at3, at4) /\ Stands(n, s5, at4, at5) /\ Stands(k, s5, at5, at6)
  <2>0. s5 = s4 \o k  OBVIOUS
  <2>1. IsPut(s5, s4, k, at5, at6)  BY <1>1, <1>4, <1>11 DEF IsPut
  <2> HIDE DEF s5
  <2>2. /\ s5 \in Seq(V) /\ Len(s5) + 1 = at6 /\ at6 \in Nat \ {0}
        /\ Stands(k, s5, at5, at6)
    BY <1>2, <1>11, <2>1, PutBehind
  <2>3. /\ Stands(o, s5, 1, at1) /\ Stands(l, s5, at1, at2) /\ Stands(a, s5, at2, at3)
        /\ Stands(e, s5, at3, at4) /\ Stands(n, s5, at4, at5)
    BY <1>1, <1>2, <1>5, <1>6, <1>7, <1>8, <1>9, <1>10, <1>11, <2>0, StandsBefore
  <2> QED BY <2>2, <2>3
<1> HIDE DEF s5
<1>13. /\ s6 \in Seq(V) /\ Len(s6) + 1 = at7 /\ at7 \in Nat \ {0}
       /\ Stands(o, s6, 1, at1) /\ Stands(l, s6, at1, at2) /\ Stands(a, s6, at2, at3)
       /\ Stands(e, s6, at3, at4) /\ Stands(n, s6, at4, at5) /\ Stands(k, s6, at5, at6)
       /\ Stands(p, s6, at6, at7)
  <2>0. s6 = s5 \o p  OBVIOUS
  <2>1. IsPut(s6, s5, p, at6, at7)  BY <1>1, <1>4, <1>12 DEF IsPut
  <2> HIDE DEF s6
  <2>2. /\ s6 \in Seq(V) /\ Len(s6) + 1 = at7 /\ at7 \in Nat \ {0}
        /\ Stands(p, s6, at6, at7)
    BY <1>2, <1>12, <2>1, PutBehind
  <2>3. /\ Stands(o, s6, 1, at1) /\ Stands(l, s6, at1, at2) /\ Stands(a, s6, at2, at3)
        /\ Stands(e, s6, at3, at4) /\ Stands(n, s6, at4, at5) /\ Stands(k, s6, at5, at6)
    BY <1>1, <1>2, <1>5, <1>6, <1>7, <1>8, <1>9, <1>10, <1>11, <1>12, <2>0, StandsBefore
  <2> QED BY <2>2, <2>3
<1> HIDE DEF s6
<1>14. /\ s7 \in Seq(V) /\ Len(s7) + 1 = at8 /\ at8 \in Nat \ {0}
       /\ Stands(o, s7, 1, at1) /\ Stands(l, s7, at1, at2) /\ Stands(a, s7, at2, at3)
       /\ Stands(e, s7, at3, at4) /\ Stands(n, s7, at4, at5) /\ Stands(k, s7, at5, at6)
       /\ Stands(p, s7, at6, at7) /\ Stands(q, s7, at7, at8)
  <2>0. s7 = s6 \o q  OBVIOUS
  <2>1. IsPut(s7, s6, q, at7, at8)  BY <1>1, <1>4, <1>13 DEF IsPut
  <2> HIDE DEF s7
  <2>2. /\ s7 \in Seq(V) /\ Len(s7) + 1 = at8 /\ at8 \in Nat \ {0}
        /\ Stands(q, s7, at7, at8)
    BY <1>2, <1>13, <2>1, PutBehind
  <2>3. /\ Stands(o, s7, 1, at1) /\ Stands(l, s7, at1, at2) /\ Stands(a, s7, at2, at3)
        /\ Stands(e, s7, at3, at4) /\ Stands(n, s7, at4, at5) /\ Stands(k, s7, at5, at6)
        /\ Stands(p, s7, at6, at7)
    BY <1>1, <1>2, <1>5, <1>6, <1>7, <1>8, <1>9, <1>10, <1>11, <1>12, <1>13, <2>0, StandsBefore
  <2> QED BY <2>2, <2>3
<1> HIDE DEF s7
<1> QED BY <1>3, <1>14 DEF V, n, k, p, q, o, l, a, e, at1, at2, at3, at4, at5, at6, at7, at8

\* The marks are counted where they are written.
LEMMA LengthIsRight ==
    ASSUME NEW c \in Components
    PROVE  /\ Len(ComposeURL(c)) = ComposeURLLen(c)
           /\ ComposeURLLen(c) \in Nat
<1> DEFINE w == ComposeURL(c)
           n == With("/", c.number)
           k == With("/", c.key)
           p == With("/", c.path)
           q == With("?", c.query)
<1>1. w \in Seq(SentTokens) /\ EndAt(c) = Len(w) + 1  BY Layout
<1>2. /\ Len(c.prefix) \in Nat /\ Len(c.app) \in Nat /\ Len(n) \in Nat /\ Len(k) \in Nat
      /\ Len(p) \in Nat /\ Len(q) \in Nat
  <2>1. "/" \in SentTokens /\ "?" \in SentTokens  BY DEF Tok, SentTokens
  <2>2. c.number \in Seq(SentTokens) /\ c.key \in Seq(SentTokens) /\ c.path \in Seq(SentTokens)
        /\ c.query \in Seq(SentTokens) /\ c.prefix \in Seq(SentTokens) /\ c.app \in Seq(SentTokens)
    BY DEF Components, KeyOK, NameOK, SentTokens
  <2>3. n \in Seq(SentTokens) /\ k \in Seq(SentTokens) /\ p \in Seq(SentTokens) /\ q \in Seq(SentTokens)
    BY <2>1, <2>2, WithProps
  <2> QED BY <2>2, <2>3
<1>3. EndAt(c) = Len(c.prefix) + 2 + Len(c.app) + 1 + Len(n) + Len(k) + Len(p) + Len(q)
  BY DEF EndAt, QueryAt, PathAt, KeyAt, NumberAt, ExtensionAt, AppAt
<1>4. ComposeURLLen(c) = Len(c.prefix) + 1 + Len(c.app) + 1 + Len(n) + Len(k) + Len(p) + Len(q)
  BY DEF ComposeURLLen
<1> HIDE DEF w, n, k, p, q
<1> DEFINE x1 == Len(c.prefix)
           x2 == Len(c.app)
           x3 == Len(n)
           x4 == Len(k)
           x5 == Len(p)
           x6 == Len(q)
           y == Len(w)
<1>5. /\ x1 \in Nat /\ x2 \in Nat /\ x3 \in Nat /\ x4 \in Nat /\ x5 \in Nat /\ x6 \in Nat /\ y \in Nat
      /\ x1 + 2 + x2 + 1 + x3 + x4 + x5 + x6 = y + 1
      /\ ComposeURLLen(c) = x1 + 1 + x2 + 1 + x3 + x4 + x5 + x6
  <2>1. /\ x1 \in Nat /\ x2 \in Nat /\ x3 \in Nat /\ x4 \in Nat /\ x5 \in Nat /\ x6 \in Nat
        /\ y \in Nat
    BY <1>1, <1>2
  <2>2. x1 + 2 + x2 + 1 + x3 + x4 + x5 + x6 = y + 1  BY <1>1, <1>3, Zenon
  <2>3. ComposeURLLen(c) = x1 + 1 + x2 + 1 + x3 + x4 + x5 + x6  BY <1>4, Zenon
  <2> QED BY <2>1, <2>2, <2>3, Zenon
<1> HIDE DEF x1, x2, x3, x4, x5, x6, y
<1>6. y = ComposeURLLen(c) /\ ComposeURLLen(c) \in Nat  BY <1>5
<1> QED BY <1>6 DEF w, y

\* GSWURLUtil.c and GSWHTTPRequest.c: the buffer for the request's first line
\* takes it, for every URL and every alias.
THEOREM ComposedURLFits == URLSpec => []BufferIsEnough
<1>1. URLInv => BufferIsEnough
  <2> SUFFICES ASSUME URLInv, place = "sent" PROVE BufferIsEnough
    BY DEF BufferIsEnough
  <2>1. parsed \in Components /\ composed = ComposeURL(parsed)
    BY DEF URLInv, PartsOK
  <2>2. Len(composed) = ComposeURLLen(parsed) /\ ComposeURLLen(parsed) \in Nat
    BY <2>1, LengthIsRight
  <2> QED BY <2>2 DEF BufferIsEnough
<1> QED BY <1>1, URLInvInit, URLInvNext, PTL DEF URLSpec

(***************************************************************************)
(* The instance reads what was composed.                                   *)
(***************************************************************************)
\* What stands in w from i to before j has only tokens of T.
LEMMA StandsIn ==
    ASSUME NEW p, NEW w, NEW i \in Nat, NEW j, NEW T, p \in Seq(T), Stands(p, w, i, j)
    PROVE  \A k \in i .. j - 1 : w[k] \in T
<1>1. Len(p) \in Nat /\ j = i + Len(p)  BY DEF Stands
<1>2. ASSUME NEW k \in i .. j - 1 PROVE w[k] \in T
  <2> DEFINE m == k - i + 1
  <2>1. m \in 1 .. Len(p) /\ i + m - 1 = k  BY <1>1
  <2> HIDE DEF m
  <2>2. w[i + m - 1] = p[m]  BY <2>1 DEF Stands
  <2>3. p[m] \in T  BY <2>1
  <2> QED BY <2>1, <2>2, <2>3
<1> QED BY <1>2

\* Behind its mark stands the component.
LEMMA BehindMark ==
    ASSUME NEW V, NEW mark \in V, NEW s \in Seq(V), NEW w, NEW i \in Nat, NEW j,
           Stands(With(mark, s), w, i, j)
    PROVE  /\ s = <<>> => j = i
           /\ s # <<>> => /\ i < j /\ w[i] = mark /\ Len(s) > 0 /\ Stands(s, w, i + 1, j)
<1> DEFINE p == With(mark, s)
<1>1. /\ p \in Seq(V)
      /\ s = <<>> => p = <<>>
      /\ s # <<>> => /\ Len(p) = Len(s) + 1 /\ p[1] = mark
                     /\ \A k \in 1 .. Len(s) : p[k + 1] = s[k]
  BY WithProps
<1>2. /\ j = i + Len(p) /\ j <= Len(w) + 1
      /\ \A k \in 1 .. Len(p) : w[i + k - 1] = p[k]
  BY DEF Stands
<1> HIDE DEF p
<1>3. CASE s = <<>>
  <2>1. Len(p) = 0  BY <1>1, <1>3
  <2> QED BY <1>2, <1>3, <2>1
<1>4. CASE s # <<>>
  <2>1. Len(s) \in Nat /\ Len(s) > 0 /\ Len(p) = Len(s) + 1  BY <1>1, <1>4
  <2>2. w[i] = mark
    <3>1. 1 \in 1 .. Len(p) /\ i + 1 - 1 = i  BY <2>1
    <3>2. w[i + 1 - 1] = p[1]  BY <1>2, <3>1
    <3> QED BY <1>1, <1>4, <3>1, <3>2
  <2>3. ASSUME NEW k \in 1 .. Len(s) PROVE w[(i + 1) + k - 1] = s[k]
    <3>1. k + 1 \in 1 .. Len(p) /\ i + (k + 1) - 1 = (i + 1) + k - 1  BY <2>1
    <3>2. w[i + (k + 1) - 1] = p[k + 1]  BY <1>2, <3>1
    <3>3. p[k + 1] = s[k]  BY <1>1, <1>4
    <3> QED BY <3>1, <3>2, <3>3
  <2>4. j = (i + 1) + Len(s) /\ i < j  BY <1>2, <2>1
  <2>5. Stands(s, w, i + 1, j)  BY <1>2, <2>3, <2>4 DEF Stands
  <2> QED BY <1>4, <2>1, <2>2, <2>4, <2>5
<1> QED BY <1>3, <1>4

\* The components that the adaptor sends: n is the instance's number.
SentOK(c, n) ==
    /\ PartsOK(c) /\ c.prefix = <<"/GSWeb">>
    /\ c.number = n /\ n \in {<<"1">>, <<"2">>} /\ c.query \in {<<>>, <<"a">>}

\* The places in the composed URL.
LEMMA PlacesAre ==
    ASSUME NEW c, NEW n, SentOK(c, n), NEW w, w = ComposeURL(c)
    PROVE  /\ w \in Seq(SentTokens) /\ Len(w) + 1 = EndAt(c) /\ Len(c.app) \in Nat /\ Len(c.app) > 0
           /\ AppAt(c) = 3 /\ ExtensionAt(c) = 3 + Len(c.app)
           /\ NumberAt(c) = ExtensionAt(c) + 1 /\ KeyAt(c) = NumberAt(c) + 2
           /\ PathAt(c) \in Nat /\ QueryAt(c) \in Nat /\ EndAt(c) \in Nat
           /\ KeyAt(c) <= PathAt(c) /\ PathAt(c) <= QueryAt(c) /\ QueryAt(c) <= EndAt(c)
<1>1. c \in Components /\ c.prefix = <<"/GSWeb">> /\ Len(c.prefix) = 1 /\ c.number = n
  BY DEF SentOK, PartsOK
<1>2. w \in Seq(SentTokens) /\ Len(w) + 1 = EndAt(c)  BY <1>1, Layout
<1>3. "/" \in SentTokens /\ "?" \in SentTokens /\ "1" \in SentTokens /\ "2" \in SentTokens  BY DEF Tok, SentTokens
<1>4. n \in Seq(SentTokens) /\ n # <<>> /\ Len(n) = 1
  <2>1. <<"1">> \in Seq(SentTokens) /\ <<"2">> \in Seq(SentTokens)  BY <1>3
  <2>2. n = <<"1">> \/ n = <<"2">>  BY DEF SentOK
  <2>3. CASE n = <<"1">>  BY <2>1, <2>3
  <2>4. CASE n = <<"2">>  BY <2>1, <2>4
  <2> QED BY <2>2, <2>3, <2>4
<1>5. Len(With("/", c.number)) = 2
  <2>1. n \in Seq(SentTokens) /\ "/" \in SentTokens  BY <1>3, <1>4
  <2>2. n # <<>> => Len(With("/", n)) = Len(n) + 1  BY <2>1, WithProps
  <2> QED BY <1>1, <1>4, <2>2
<1>6. /\ Len(c.app) \in Nat /\ Len(c.app) > 0
      /\ c.key \in Seq(SentTokens) /\ c.path \in Seq(SentTokens) /\ c.query \in Seq(SentTokens)
  BY <1>1 DEF Components, KeyOK, NameOK, SentTokens
<1>7. /\ Len(With("/", c.key)) \in Nat /\ Len(With("/", c.path)) \in Nat
      /\ Len(With("?", c.query)) \in Nat
  <2>1. With("/", c.key) \in Seq(SentTokens) /\ With("/", c.path) \in Seq(SentTokens)
        /\ With("?", c.query) \in Seq(SentTokens)
    BY <1>3, <1>6, WithProps
  <2> QED BY <2>1
<1>8. AppAt(c) = 3  BY <1>1 DEF AppAt
<1>9. ExtensionAt(c) = 3 + Len(c.app)  BY <1>8 DEF ExtensionAt
<1>10. NumberAt(c) = ExtensionAt(c) + 1  BY DEF NumberAt
<1>11. KeyAt(c) = NumberAt(c) + 2  BY <1>5 DEF KeyAt
<1>12. KeyAt(c) \in Nat  BY <1>6, <1>9, <1>10, <1>11
<1>13. PathAt(c) \in Nat /\ KeyAt(c) <= PathAt(c)  BY <1>7, <1>12 DEF PathAt
<1>14. QueryAt(c) \in Nat /\ PathAt(c) <= QueryAt(c)  BY <1>7, <1>13 DEF QueryAt
<1>15. EndAt(c) \in Nat /\ QueryAt(c) <= EndAt(c)  BY <1>7, <1>14 DEF EndAt
<1> QED BY <1>2, <1>6, <1>8, <1>9, <1>10, <1>11, <1>13, <1>14, <1>15

LEMMA WhatIsSent ==
    ASSUME NEW c, NEW n, SentOK(c, n), NEW w, w = ComposeURL(c)
    PROVE  /\ \A k \in 1 .. QueryAt(c) - 1 : w[k] \in Tok
           /\ QueryAt(c) < EndAt(c) => w[QueryAt(c)] = "?"
           /\ w[1] = "/GSWeb"
           /\ Stands(c.app, w, 3, ExtensionAt(c)) /\ w[ExtensionAt(c)] = ".gswa"
           /\ w[NumberAt(c)] = "/" /\ w[NumberAt(c) + 1] \in {"1", "2"}
           /\ Stands(n, w, NumberAt(c) + 1, KeyAt(c))
           /\ c.key = <<>> => PathAt(c) = KeyAt(c)
           /\ c.key # <<>> => /\ KeyAt(c) < PathAt(c) /\ w[KeyAt(c)] = "/"
                              /\ Stands(c.key, w, KeyAt(c) + 1, PathAt(c))
           /\ c.path = <<>> => QueryAt(c) = PathAt(c)
           /\ c.path # <<>> => /\ PathAt(c) < QueryAt(c) /\ w[PathAt(c)] = "/"
                               /\ Stands(c.path, w, PathAt(c) + 1, QueryAt(c))
           /\ Stands(With("?", c.query), w, QueryAt(c), EndAt(c))
<1>1. /\ c \in Components /\ c.prefix = <<"/GSWeb">> /\ Len(c.prefix) = 1 /\ c.number = n
      /\ c.app \in Seq(Tok) /\ c.key \in Seq(Tok) /\ c.path \in Seq(Tok) /\ c.query \in Seq(Tok)
      /\ c.number \in Seq(Tok)
  BY DEF SentOK, PartsOK, Components, KeyOK, NameOK
<1>2. /\ Stands(c.prefix, w, 1, 2) /\ Stands(<<"/">>, w, 2, 3)
      /\ Stands(c.app, w, 3, ExtensionAt(c))
      /\ Stands(<<".gswa">>, w, ExtensionAt(c), NumberAt(c))
      /\ Stands(With("/", c.number), w, NumberAt(c), KeyAt(c))
      /\ Stands(With("/", c.key), w, KeyAt(c), PathAt(c))
      /\ Stands(With("/", c.path), w, PathAt(c), QueryAt(c))
      /\ Stands(With("?", c.query), w, QueryAt(c), EndAt(c))
  <2>1. Len(c.prefix) + 1 = 2 /\ AppAt(c) = 3  BY <1>1, PlacesAre
  <2> DEFINE two == Len(c.prefix) + 1
  <2>2. two = 2  BY <2>1
  <2> HIDE DEF two
  <2>3. /\ Stands(c.prefix, w, 1, two) /\ Stands(<<"/">>, w, two, AppAt(c))
        /\ Stands(c.app, w, AppAt(c), ExtensionAt(c))
        /\ Stands(<<".gswa">>, w, ExtensionAt(c), NumberAt(c))
        /\ Stands(With("/", c.number), w, NumberAt(c), KeyAt(c))
        /\ Stands(With("/", c.key), w, KeyAt(c), PathAt(c))
        /\ Stands(With("/", c.path), w, PathAt(c), QueryAt(c))
        /\ Stands(With("?", c.query), w, QueryAt(c), EndAt(c))
    BY <1>1, Layout DEF two
  <2> QED BY <2>1, <2>2, <2>3
<1> DEFINE e == ExtensionAt(c)
           na == NumberAt(c)
           ka == KeyAt(c)
           pa == PathAt(c)
           qa == QueryAt(c)
<1>3. /\ e \in Nat /\ na \in Nat /\ ka \in Nat /\ pa \in Nat /\ qa \in Nat /\ EndAt(c) \in Nat
      /\ 3 <= e /\ na = e + 1 /\ ka = na + 2 /\ ka <= pa /\ pa <= qa
  BY PlacesAre
<1>4. /\ "/" \in Tok /\ "?" \in SentTokens /\ "/GSWeb" \in Tok /\ ".gswa" \in Tok
      /\ <<"/">> \in Seq(Tok) /\ <<"/GSWeb">> \in Seq(Tok) /\ <<".gswa">> \in Seq(Tok)
  BY DEF Tok, SentTokens
<1>5. /\ With("/", c.number) \in Seq(Tok) /\ With("/", c.key) \in Seq(Tok)
      /\ With("/", c.path) \in Seq(Tok)
  BY <1>1, <1>4, WithProps
<1>6. w[1] = "/GSWeb"
  <2>1. Stands(<<"/GSWeb">>, w, 1, 2) /\ 1 \in 1 .. Len(<<"/GSWeb">>) /\ 1 + 1 - 1 = 1
    BY <1>1, <1>2
  <2>2. w[1 + 1 - 1] = <<"/GSWeb">>[1]  BY <2>1 DEF Stands
  <2> QED BY <2>1, <2>2
<1>7. w[e] = ".gswa"
  <2>1. 1 \in 1 .. Len(<<".gswa">>) /\ e + 1 - 1 = e  BY <1>3
  <2>2. w[e + 1 - 1] = <<".gswa">>[1]  BY <1>2, <2>1 DEF Stands
  <2> QED BY <2>1, <2>2
<1> HIDE DEF e, na, ka, pa, qa
<1>8. \A k \in 1 .. qa - 1 : w[k] \in Tok
  <2>1. \A k \in 1 .. 2 - 1 : w[k] \in Tok  BY <1>4, <1>6
  <2>2. \A k \in 2 .. 3 - 1 : w[k] \in Tok
    <3>1. 2 \in Nat  OBVIOUS
    <3> QED BY <1>2, <1>4, <3>1, StandsIn
  <2>3. \A k \in 3 .. e - 1 : w[k] \in Tok
    <3>1. 3 \in Nat  OBVIOUS
    <3> QED BY <1>1, <1>2, <3>1, StandsIn DEF e
  <2>4. \A k \in e .. na - 1 : w[k] \in Tok  BY <1>2, <1>3, <1>4, StandsIn DEF e, na
  <2>5. \A k \in na .. ka - 1 : w[k] \in Tok  BY <1>2, <1>3, <1>5, StandsIn DEF na, ka
  <2>6. \A k \in ka .. pa - 1 : w[k] \in Tok  BY <1>2, <1>3, <1>5, StandsIn DEF ka, pa
  <2>7. \A k \in pa .. qa - 1 : w[k] \in Tok  BY <1>2, <1>3, <1>5, StandsIn DEF pa, qa
  <2>8. ASSUME NEW k \in 1 .. qa - 1 PROVE w[k] \in Tok
    <3>1. \/ k \in 1 .. 2 - 1 \/ k \in 2 .. 3 - 1 \/ k \in 3 .. e - 1 \/ k \in e .. na - 1
          \/ k \in na .. ka - 1 \/ k \in ka .. pa - 1 \/ k \in pa .. qa - 1
      BY <1>3
    <3> QED BY <2>1, <2>2, <2>3, <2>4, <2>5, <2>6, <2>7, <3>1
  <2> QED BY <2>8
<1>9. qa < EndAt(c) => w[qa] = "?"
  <2> DEFINE s == c.query
  <2>1. Stands(With("?", s), w, qa, EndAt(c)) /\ "?" \in SentTokens /\ s \in Seq(SentTokens) /\ qa \in Nat
    BY <1>1, <1>2, <1>3, <1>4 DEF qa, SentTokens
  <2> HIDE DEF s
  <2>2. /\ s = <<>> => EndAt(c) = qa
        /\ s # <<>> => w[qa] = "?"
    BY <2>1, BehindMark
  <2> QED BY <1>3, <2>2
<1>10. /\ w[na] = "/" /\ Stands(n, w, na + 1, ka) /\ w[na + 1] \in {"1", "2"}
  <2>1. n # <<>> /\ Len(n) = 1 /\ n[1] \in {"1", "2"}
    <3>1. n = <<"1">> \/ n = <<"2">>  BY DEF SentOK
    <3> QED BY <3>1
  <2>2. w[na] = "/" /\ Stands(n, w, na + 1, ka)
    BY <1>1, <1>2, <1>3, <1>4, <2>1, BehindMark DEF na, ka
  <2>3. 1 \in 1 .. Len(n) /\ (na + 1) + 1 - 1 = na + 1  BY <1>3, <2>1
  <2>4. w[(na + 1) + 1 - 1] = n[1]  BY <2>2, <2>3 DEF Stands
  <2> QED BY <2>1, <2>2, <2>3, <2>4
<1>11. /\ c.key = <<>> => pa = ka
       /\ c.key # <<>> => ka < pa /\ w[ka] = "/" /\ Stands(c.key, w, ka + 1, pa)
  <2> DEFINE s == c.key
  <2>1. Stands(With("/", s), w, ka, pa) /\ "/" \in Tok /\ s \in Seq(Tok) /\ ka \in Nat
    BY <1>1, <1>2, <1>3, <1>4 DEF ka, pa
  <2> HIDE DEF s
  <2>2. ASSUME s = <<>> PROVE pa = ka
    <3>1. pa = ka + Len(With("/", s))  BY <2>1 DEF Stands
    <3>2. Len(With("/", s)) = 0  BY <2>2 DEF With
    <3> QED BY <1>3, <3>1, <3>2
  <2>3. s # <<>> => ka < pa /\ w[ka] = "/"  BY <2>1, BehindMark
  <2>4. s # <<>> => Stands(s, w, ka + 1, pa)  BY <2>1, BehindMark
  <2> QED BY <2>2, <2>3, <2>4 DEF s
<1>12. /\ c.path = <<>> => qa = pa
       /\ c.path # <<>> => pa < qa /\ w[pa] = "/" /\ Stands(c.path, w, pa + 1, qa)
  <2> DEFINE s == c.path
  <2>1. Stands(With("/", s), w, pa, qa) /\ "/" \in Tok /\ s \in Seq(Tok) /\ pa \in Nat
    BY <1>1, <1>2, <1>3, <1>4 DEF pa, qa
  <2> HIDE DEF s
  <2>2. ASSUME s = <<>> PROVE qa = pa
    <3>1. qa = pa + Len(With("/", s))  BY <2>1 DEF Stands
    <3>2. Len(With("/", s)) = 0  BY <2>2 DEF With
    <3> QED BY <1>3, <3>1, <3>2
  <2>3. s # <<>> => pa < qa /\ w[pa] = "/"  BY <2>1, BehindMark
  <2>4. s # <<>> => Stands(s, w, pa + 1, qa)  BY <2>1, BehindMark
  <2> QED BY <2>2, <2>3, <2>4 DEF s
<1> QED BY <1>2, <1>6, <1>7, <1>8, <1>9, <1>10, <1>11, <1>12 DEF e, na, ka, pa, qa

\* All of u before a place.
LEMMA SeenProps ==
    ASSUME NEW V, NEW u \in Seq(V), NEW j \in Nat \ {0}, j <= Len(u) + 1
    PROVE  /\ Part(u, 1, j) \in Seq(V) /\ Len(Part(u, 1, j)) + 1 = j
           /\ \A k \in 1 .. j - 1 : Part(u, 1, j)[k] = u[k]
<1> DEFINE p == Part(u, 1, j)
<1>1. 1 \in Nat \ {0} /\ j \in Nat /\ Len(u) \in Nat  OBVIOUS
<1>2. /\ p \in Seq(V) /\ Len(p) = IF 1 < j THEN j - 1 ELSE 0
      /\ \A k \in 1 .. Len(p) : p[k] = u[1 + k - 1]
  BY <1>1, PartProps
<1> HIDE DEF p
<1>3. Len(p) = j - 1  BY <1>1, <1>2
<1>4. ASSUME NEW k \in 1 .. j - 1 PROVE p[k] = u[k]
  <2>1. 1 + k - 1 = k  OBVIOUS
  <2> QED BY <1>2, <1>3, <2>1
<1>5. p \in Seq(V) /\ Len(p) + 1 = j  BY <1>2, <1>3
<1> QED BY <1>4, <1>5 DEF p

\* After the name the instance reads its number, the key and where the path starts.
LEMMA AfterNameReads ==
    ASSUME NEW c, NEW n, SentOK(c, n), NEW w, w = ComposeURL(c)
    PROVE  LET r == AfterName(w, NumberAt(c), QueryAt(c))
           IN  r.number = n /\ r.key = c.key /\ Part(w, r.path, QueryAt(c)) = c.path
<1> DEFINE na == NumberAt(c)
           ka == KeyAt(c)
           pa == PathAt(c)
           stop == QueryAt(c)
           key == c.key
           path == c.path
           S == ToSet(w) \ {"/"}
           L == {"/"}
           seen == Part(w, 1, stop)
           Past(j) == IF j < stop THEN j + 1 ELSE j
           one == Find(w, na, S)
           oneEnds == Find(seen, one, L)
           word == Part(w, one, oneEnds)
           po == Past(oneEnds)
           two == Find(w, po, S)
           twoEnds == Find(seen, two, L)
           w2 == Part(w, two, twoEnds)
           pt == Past(twoEnds)
           r == AfterName(w, na, stop)
<1>1. /\ w \in Seq(SentTokens) /\ Len(w) + 1 = EndAt(c) /\ Len(w) \in Nat
      /\ na \in Nat /\ 5 <= na /\ ka = na + 2 /\ pa \in Nat /\ stop \in Nat /\ EndAt(c) \in Nat
      /\ ka <= pa /\ pa <= stop /\ stop <= EndAt(c)
  BY PlacesAre
<1>2. /\ key \in Seq(Tok) /\ path \in Seq(Tok) /\ key \in Seq(SentTokens) /\ path \in Seq(SentTokens)
      /\ \A k \in 1 .. Len(key) : key[k] # "/"
      /\ key = <<>> => path = <<>>
  BY DEF SentOK, PartsOK, Components, KeyOK, SentTokens
<1>3. /\ stop < EndAt(c) => w[stop] = "?"
      /\ w[na] = "/" /\ w[na + 1] \in {"1", "2"} /\ Stands(n, w, na + 1, ka)
      /\ key = <<>> => pa = ka
      /\ key # <<>> => ka < pa /\ w[ka] = "/" /\ Stands(key, w, ka + 1, pa)
      /\ path = <<>> => stop = pa
      /\ path # <<>> => pa < stop /\ w[pa] = "/" /\ Stands(path, w, pa + 1, stop)
  BY WhatIsSent
<1>4. ~(one > stop) /\ ~(two > stop) =>
        r = IF word = <<"-1">> THEN [number |-> word, key |-> <<>>, path |-> po]
            ELSE IF ToSet(word) \subseteq Digit
            THEN [number |-> word, key |-> w2, path |-> pt]
            ELSE [number |-> <<>>, key |-> word, path |-> po]
  BY DEF AfterName, SkipSlashes
<1> HIDE DEF na, ka, pa, stop, key, path, r
<1>5. /\ seen \in Seq(SentTokens) /\ Len(seen) + 1 = stop /\ Len(seen) \in Nat
      /\ \A k \in 1 .. stop - 1 : seen[k] = w[k]
  <2>1. stop \in Nat \ {0} /\ stop <= Len(w) + 1  BY <1>1
  <2> HIDE DEF seen
  <2>2. /\ seen \in Seq(SentTokens) /\ Len(seen) + 1 = stop
        /\ \A k \in 1 .. stop - 1 : seen[k] = w[k]
    BY <1>1, <2>1, SeenProps DEF seen
  <2> QED BY <2>2
<1>6. \A k \in 1 .. Len(w) : w[k] # "/" => w[k] \in S
  BY <1>1 DEF ToSet
<1> HIDE DEF S, seen
<1>7. one = na + 1
  <2>1. na + 1 \in 1 .. Len(w) /\ w[na + 1] \in S /\ w[na] \notin S
    <3>1. na + 1 \in 1 .. Len(w)  BY <1>1
    <3> QED BY <1>3, <1>6, <3>1 DEF S
  <2>2. IsFound(w, na, S, na + 1)
    <3>1. \A k \in na .. (na + 1) - 1 : k = na  BY <1>1
    <3> QED BY <1>1, <2>1, <3>1 DEF IsFound
  <2>3. na \in Nat \ {0}  BY <1>1
  <2> QED BY <1>1, <2>2, <2>3, FindIs
<1>8. oneEnds = ka
  <2>1. ka <= Len(seen) => seen[ka] \in L
    <3> SUFFICES ASSUME ka <= Len(seen) PROVE seen[ka] \in L
      OBVIOUS
    <3>1. ka < stop /\ ka \in 1 .. stop - 1  BY <1>1, <1>5
    <3>2. key # <<>>  BY <1>1, <1>2, <1>3, <3>1
    <3> QED BY <1>3, <1>5, <3>1, <3>2
  <2>2. seen[na + 1] \notin L
    <3>1. na + 1 \in 1 .. stop - 1  BY <1>1
    <3> QED BY <1>3, <1>5, <3>1
  <2>3. \A k \in na + 1 .. ka - 1 : k = na + 1  BY <1>1
  <2>4. ka \in na + 1 .. Len(seen) + 1  BY <1>1, <1>5
  <2> HIDE DEF L
  <2>5. IsFound(seen, na + 1, L, ka)  BY <2>1, <2>2, <2>3, <2>4 DEF IsFound
  <2> DEFINE i == na + 1
  <2>6. i \in Nat \ {0}  BY <1>1
  <2> HIDE DEF i, one
  <2>7. Find(seen, i, L) = ka  BY <1>5, <2>5, <2>6, FindIs DEF i
  <2> QED BY <1>7, <2>7 DEF i
<1> HIDE DEF one, oneEnds
<1>9. word = n /\ n # <<"-1">> /\ ToSet(n) \subseteq Digit
  <2>1. n = <<"1">> \/ n = <<"2">>  BY DEF SentOK
  <2>2. n # <<"-1">> /\ ToSet(n) \subseteq Digit
    <3>1. CASE n = <<"1">>  BY <3>1 DEF ToSet, Digit
    <3>2. CASE n = <<"2">>  BY <3>2 DEF ToSet, Digit
    <3> QED BY <2>1, <3>1, <3>2
  <2>3. n \in Seq(SentTokens)
    <3>1. "1" \in SentTokens /\ "2" \in SentTokens  BY DEF SentTokens, Tok
    <3>2. <<"1">> \in Seq(SentTokens) /\ <<"2">> \in Seq(SentTokens)  BY <3>1
    <3> QED BY <2>1, <3>2, Zenon
  <2> DEFINE i == na + 1
  <2>4. i \in Nat \ {0} /\ Stands(n, w, i, ka)  BY <1>1, <1>3
  <2> HIDE DEF i
  <2>5. Part(w, i, ka) = n  BY <1>1, <2>3, <2>4, PartIs
  <2>6. word = n  BY <1>7, <1>8, <2>5 DEF i
  <2> QED BY <2>2, <2>6
<1>10. /\ two = IF key = <<>> THEN stop ELSE ka + 1
       /\ two <= stop
  <2>1. CASE key = <<>>
    <3>1. ka = stop /\ po = stop  BY <1>1, <1>2, <1>3, <1>8, <2>1
    <3>2. stop <= Len(w) => w[stop] \in S
      <4>1. stop <= Len(w) => stop < EndAt(c) /\ stop \in 1 .. Len(w)  BY <1>1
      <4> QED BY <1>3, <1>6, <4>1
    <3>3. IsFound(w, stop, S, stop)  BY <1>1, <3>2 DEF IsFound
    <3>4. stop \in Nat \ {0}  BY <1>1
    <3>5. Find(w, stop, S) = stop  BY <1>1, <3>3, <3>4, FindIs
    <3> QED BY <1>1, <2>1, <3>1, <3>5
  <2>2. CASE key # <<>>
    <3>1. ka < pa /\ ka < stop /\ po = ka + 1 /\ Stands(key, w, ka + 1, pa)
      BY <1>1, <1>3, <1>8, <2>2
    <3> DEFINE i == ka + 1
    <3>2. 1 \in 1 .. Len(key)  BY <1>2, <2>2
    <3>3. pa = i + Len(key)  BY <3>1 DEF Stands
    <3>4. i \in Nat \ {0} /\ i \in 1 .. Len(w) /\ i <= stop  BY <1>1, <3>2, <3>3
    <3>5. w[i] = key[1]
      <4>1. i + 1 - 1 = i  BY <3>4
      <4>2. w[i + 1 - 1] = key[1]  BY <3>1, <3>2 DEF Stands
      <4> QED BY <4>1, <4>2
    <3>6. w[i] \in S  BY <1>2, <1>6, <3>4, <3>2, <3>5
    <3> HIDE DEF i
    <3>7. IsFound(w, i, S, i)  BY <1>1, <3>4, <3>6 DEF IsFound
    <3>8. Find(w, i, S) = i  BY <1>1, <3>4, <3>7, FindIs
    <3> QED BY <2>2, <3>1, <3>4, <3>8 DEF i
  <2> QED BY <2>1, <2>2
<1> HIDE DEF po, two
<1>11. twoEnds = pa /\ w2 = key
  <2>1. CASE key = <<>>
    <3>1. pa = stop /\ two = stop  BY <1>2, <1>3, <1>10, <2>1
    <3>2. stop \in Nat \ {0} /\ stop > Len(seen)  BY <1>1, <1>5
    <3>3. Find(seen, stop, L) = Len(seen) + 1
      <4> HIDE DEF L
      <4> QED BY <1>5, <3>2, FindBehind
    <3>4. twoEnds = stop  BY <1>5, <3>1, <3>3
    <3>5. stop \in 1 .. Len(w) + 1  BY <1>1
    <3>6. Part(w, stop, stop) = <<>>  BY <1>1, <3>5, EmptyPart
    <3> QED BY <2>1, <3>1, <3>4, <3>6
  <2>2. CASE key # <<>>
    <3> DEFINE i == ka + 1
    <3>1. /\ two = i /\ i \in Nat \ {0} /\ ka < pa /\ Stands(key, w, i, pa)
      BY <1>1, <1>3, <1>10, <2>2
    <3> HIDE DEF i
    <3>2. i <= pa /\ pa = i + Len(key) /\ Len(key) \in Nat  BY <1>2, <3>1 DEF Stands
    <3>3. pa <= Len(seen) => seen[pa] \in L
      <4> SUFFICES ASSUME pa <= Len(seen) PROVE seen[pa] \in L
        OBVIOUS
      <4>1. pa < stop /\ pa \in 1 .. stop - 1  BY <1>1, <1>5
      <4>2. path # <<>>  BY <1>1, <1>3, <4>1
      <4> QED BY <1>3, <1>5, <4>1, <4>2
    <3>4. ASSUME NEW k \in i .. pa - 1 PROVE seen[k] \notin L
      <4> DEFINE m == k - i + 1
      <4>1. m \in 1 .. Len(key) /\ i + m - 1 = k /\ k \in 1 .. stop - 1
        BY <1>1, <3>1, <3>2
      <4> HIDE DEF m
      <4>2. w[i + m - 1] = key[m]  BY <3>1, <4>1 DEF Stands
      <4> QED BY <1>2, <1>5, <4>1, <4>2
    <3>5. pa \in i .. Len(seen) + 1  BY <1>1, <1>5, <3>1, <3>2
    <3> HIDE DEF L
    <3>6. IsFound(seen, i, L, pa)  BY <3>3, <3>4, <3>5 DEF IsFound
    <3>7. twoEnds = pa  BY <1>5, <3>1, <3>6, FindIs
    <3>8. Part(w, i, pa) = key  BY <1>1, <1>2, <3>1, PartIs
    <3> QED BY <3>1, <3>7, <3>8
  <2> QED BY <2>1, <2>2
<1> HIDE DEF twoEnds
<1>12. Part(w, pt, stop) = path
  <2>1. CASE path = <<>>
    <3>1. pt = stop  BY <1>1, <1>3, <1>11, <2>1
    <3>2. stop \in 1 .. Len(w) + 1  BY <1>1
    <3>3. Part(w, stop, stop) = <<>>  BY <1>1, <3>2, EmptyPart
    <3> QED BY <2>1, <3>1, <3>3
  <2>2. CASE path # <<>>
    <3> DEFINE i == pa + 1
    <3>1. pt = i /\ i \in Nat \ {0} /\ Stands(path, w, i, stop)
      BY <1>1, <1>3, <1>11, <2>2
    <3> HIDE DEF i, pt
    <3>2. Part(w, i, stop) = path  BY <1>1, <1>2, <3>1, PartIs
    <3> QED BY <3>1, <3>2
  <2> QED BY <2>1, <2>2
<1> HIDE DEF word, w2, pt
<1>13. r = [number |-> n, key |-> key, path |-> pt]
  <2>1. ~(one > stop) /\ ~(two > stop)
    <3>1. one \in Nat /\ one <= stop  BY <1>1, <1>7
    <3>2. two \in Nat  BY <1>1, <1>10
    <3> QED BY <1>1, <1>10, <3>1, <3>2
  <2> QED BY <1>4, <1>9, <1>11, <2>1
<1>14. r.number = n /\ r.key = key /\ Part(w, r.path, stop) = path
  BY <1>12, <1>13
<1> QED BY <1>14 DEF r, na, stop, key, path

\* All that the instance reads.
LEMMA ParseReads ==
    ASSUME NEW c, NEW n, SentOK(c, n), NEW w, w = ComposeURL(c)
    PROVE  LET read == ParseURL(w)
           IN  /\ read.error = "OK" /\ read.prefix = c.prefix /\ read.app = c.app
               /\ read.number = n /\ read.key = c.key /\ read.path = c.path
               /\ read.query = With("?", c.query)
<1> DEFINE e == ExtensionAt(c)
           na == NumberAt(c)
           qa == QueryAt(c)
           key == c.key
           path == c.path
           app == c.app
           q == With("?", c.query)
<1>1. /\ w \in Seq(SentTokens) /\ Len(w) + 1 = EndAt(c) /\ Len(w) \in Nat
      /\ e \in Nat /\ 4 <= e /\ na = e + 1 /\ qa \in Nat /\ e + 3 <= qa /\ qa <= EndAt(c)
  BY PlacesAre
<1>2. /\ \A k \in 1 .. qa - 1 : w[k] \in Tok
      /\ qa < EndAt(c) => w[qa] = "?"
      /\ w[1] = "/GSWeb"
      /\ Stands(app, w, 3, e) /\ w[e] = ".gswa"
      /\ Stands(q, w, qa, EndAt(c))
  BY WhatIsSent
<1>3. /\ app \in Seq(Tok) /\ app \in Seq(SentTokens) /\ Len(app) > 0 /\ app[Len(app)] # "/"
      /\ app # <<>> /\ (key = <<>> => path = <<>>)
      /\ c.prefix = <<"/GSWeb">> /\ c.prefix \in Seq(SentTokens) /\ Len(c.prefix) = 1
      /\ \A k \in 1 .. Len(app) : app[k] # ".gswa"
  <2>1. app \in Seq(Tok) /\ Len(app) > 0 /\ app[Len(app)] # "/"
        /\ \A k \in 1 .. Len(app) : app[k] # ".gswa"
    BY DEF SentOK, PartsOK, Components, NameOK
  <2>2. app \in Seq(SentTokens) /\ app # <<>>  BY <2>1 DEF SentTokens
  <2>3. (key = <<>> => path = <<>>) /\ c.prefix = <<"/GSWeb">>
    BY DEF SentOK, PartsOK
  <2>4. <<"/GSWeb">> \in Seq(SentTokens) /\ Len(<<"/GSWeb">>) = 1  BY DEF SentTokens, Tok
  <2> QED BY <2>1, <2>2, <2>3, <2>4
<1>4. q \in Seq(SentTokens)
  <2>1. "?" \in SentTokens  BY DEF SentTokens
  <2>2. c.query = <<>> \/ c.query = <<"a">>  BY DEF SentOK
  <2>3. <<>> \in Seq(SentTokens) /\ <<"a">> \in Seq(SentTokens)  BY DEF SentTokens, Tok
  <2>4. c.query \in Seq(SentTokens)  BY <2>2, <2>3, Zenon
  <2> QED BY <2>1, <2>4, WithProps
<1> DEFINE query == Find(w, 1, {"?"})
           prefix == Find(w, 1, {"/GSWeb"})
           start == IF prefix + 1 <= Len(w) THEN prefix + 2 ELSE prefix + 1
           name == NameStops(w, start, query)
           its == DropSlashes(Part(w, start, name.stop))
           rest == IF name.next = 0
                   THEN [number |-> <<>>, key |-> <<>>, path |-> query]
                   ELSE AfterName(w, name.next, query)
           p == Part(w, rest.path, query)
           good == [prefix |-> Part(w, prefix, prefix + prefix),
                    app |-> its, number |-> rest.number, key |-> rest.key, path |-> p,
                    query |-> Part(w, query, Len(w) + 1),
                    error |-> IF its = <<>> THEN "InvalidAppName"
                              ELSE IF rest.key = <<>> /\ p # <<>>
                              THEN "InvalidRequestHandlerKey" ELSE "OK"]
           read == ParseURL(w)
<1>5. read = IF prefix > Len(w) \/ query <= prefix THEN [error |-> "InvalidPrefix"] ELSE good
  BY DEF ParseURL
<1> HIDE DEF good, read, e, na, qa, key, path, app, q
<1>6. query = qa
  <2>1. \A k \in 1 .. qa - 1 : w[k] \notin {"?"}  BY <1>2 DEF Tok
  <2>2. qa <= Len(w) => w[qa] \in {"?"}  BY <1>1, <1>2
  <2>3. IsFound(w, 1, {"?"}, qa)  BY <1>1, <2>1, <2>2 DEF IsFound
  <2>4. 1 \in Nat \ {0}  OBVIOUS
  <2> HIDE DEF query
  <2>5. Find(w, 1, {"?"}) = qa  BY <1>1, <2>3, <2>4, FindIs
  <2> QED BY <2>5 DEF query
<1>7. prefix = 1
  <2>1. IsFound(w, 1, {"/GSWeb"}, 1)  BY <1>1, <1>2 DEF IsFound
  <2>2. 1 \in Nat \ {0}  OBVIOUS
  <2> QED BY <1>1, <2>1, <2>2, FindIs
<1> HIDE DEF query, prefix
<1>8. start = 3
  BY <1>1, <1>7
<1> HIDE DEF start
<1>9. name.stop = e /\ name.next = na
  <2>1. IsFound(w, 3, {".gswa"}, e)
    <3>1. Len(app) \in Nat /\ e = 3 + Len(app)  BY <1>2, <1>3 DEF Stands
    <3>2. ASSUME NEW k \in 3 .. e - 1 PROVE w[k] \notin {".gswa"}
      <4> DEFINE m == k - 3 + 1
      <4>1. m \in 1 .. Len(app) /\ 3 + m - 1 = k  BY <3>1
      <4> HIDE DEF m
      <4>2. w[3 + m - 1] = app[m]  BY <1>2, <4>1 DEF Stands
      <4> QED BY <1>3, <4>1, <4>2
    <3>3. e \in 3 .. Len(w) + 1  BY <1>1
    <3> QED BY <1>2, <3>2, <3>3 DEF IsFound
  <2>2. Find(w, 3, {".gswa"}) = e
    <3>1. 3 \in Nat \ {0}  OBVIOUS
    <3> QED BY <1>1, <2>1, <3>1, FindIs
  <2>3. e <= Len(w) /\ ~(qa <= e)  BY <1>1
  <2>4. Extension(w, 3) = e  BY <2>2, <2>3 DEF Extension
  <2>5. NameStops(w, 3, qa) = [stop |-> e, next |-> e + 1]  BY <2>3, <2>4 DEF NameStops
  <2> QED BY <1>1, <1>6, <1>8, <2>5
<1> HIDE DEF name
<1>10. its = app
  <2>1. Part(w, 3, e) = app
    <3>1. 3 \in Nat \ {0}  OBVIOUS
    <3> QED BY <1>1, <1>2, <1>3, <3>1, PartIs
  <2>2. DropSlashes(app) = app  BY <1>3, DropSlashesProps
  <2> QED BY <1>8, <1>9, <2>1, <2>2
<1>11. rest.number = n /\ rest.key = key /\ p = path
  <2>1. rest = AfterName(w, na, qa)
    <3>1. na # 0  BY <1>1
    <3> QED BY <1>6, <1>9, <3>1
  <2> HIDE DEF rest
  <2>2. rest.number = n /\ rest.key = key /\ Part(w, rest.path, qa) = path
    BY <2>1, AfterNameReads DEF na, qa, key, path
  <2> QED BY <1>6, <2>2
<1>12. Part(w, query, Len(w) + 1) = q
  <2>1. qa \in Nat \ {0}  BY <1>1
  <2>2. Part(w, qa, EndAt(c)) = q  BY <1>1, <1>2, <1>4, <2>1, PartIs
  <2> QED BY <1>1, <1>6, <2>2
<1>13. Part(w, prefix, prefix + prefix) = c.prefix
  <2>1. Stands(c.prefix, w, 1, 2)
    <3>1. 1 + Len(c.prefix) = 2 /\ 2 <= Len(w) + 1  BY <1>1, <1>3
    <3>2. ASSUME NEW k \in 1 .. Len(c.prefix) PROVE w[1 + k - 1] = c.prefix[k]
      <4>1. k = 1 /\ 1 + k - 1 = 1 /\ c.prefix[1] = "/GSWeb"  BY <1>3
      <4> QED BY <1>2, <4>1
    <3> QED BY <3>1, <3>2 DEF Stands
  <2>2. 1 \in Nat \ {0} /\ prefix + prefix = 2  BY <1>7
  <2> DEFINE o == c.prefix
  <2>3. o \in Seq(SentTokens) /\ Stands(o, w, 1, 2)  BY <1>3, <2>1
  <2> HIDE DEF o
  <2>4. Part(w, 1, 2) = o  BY <1>1, <2>2, <2>3, PartIs
  <2>5. Part(w, 1, 2) = c.prefix  BY <2>4 DEF o
  <2> QED BY <1>7, <2>2, <2>5
<1> HIDE DEF its, rest, p
<1>14. good.error = "OK"
  <2>1. good.error = IF its = <<>> THEN "InvalidAppName"
                     ELSE IF rest.key = <<>> /\ p # <<>>
                     THEN "InvalidRequestHandlerKey" ELSE "OK"
    BY DEF good
  <2>2. its # <<>> /\ ~(rest.key = <<>> /\ p # <<>>)  BY <1>3, <1>10, <1>11
  <2> QED BY <2>1, <2>2
<1>15. /\ good.prefix = c.prefix /\ good.app = app /\ good.number = n /\ good.key = key
       /\ good.path = path /\ good.query = q
  BY <1>10, <1>11, <1>12, <1>13 DEF good
<1>16. read = good
  <2>1. ~(prefix > Len(w) \/ query <= prefix)  BY <1>1, <1>6, <1>7
  <2> QED BY <1>5, <2>1
<1> QED BY <1>14, <1>15, <1>16 DEF read, app, key, path, q

\* GSWURLUtil.c: what the adaptor composes says to the instance what the client's
\* URL said to the adaptor, where the prefix begins the URL.
THEOREM ReadsTheSame ==
    ASSUME Leading = 0
    PROVE  URLSpec => []InstanceReadsTheSame
<1>1. URLInv => InstanceReadsTheSame
  <2> SUFFICES ASSUME URLInv, place = "sent" PROVE InstanceReadsTheSame
    BY DEF InstanceReadsTheSame
  <2>1. SentOK(parsed, chosen) /\ composed = ComposeURL(parsed)
    <3>1. Leading = 0  OBVIOUS
    <3> QED BY <3>1 DEF URLInv, SentOK, PartsOK
  <2> DEFINE read == ParseURL(composed)
  <2>2. /\ read.error = "OK" /\ read.prefix = parsed.prefix /\ read.app = parsed.app
        /\ read.number = chosen /\ read.key = parsed.key /\ read.path = parsed.path
        /\ read.query = With("?", parsed.query)
    BY <2>1, ParseReads
  <2> QED BY <2>2 DEF InstanceReadsTheSame
<1> QED BY <1>1, URLInvInit, URLInvNext, PTL DEF URLSpec
=============================================================================
