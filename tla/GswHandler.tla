----------------------------- MODULE GswHandler -----------------------------
(***************************************************************************)
(* One request through the handler of mod_gsw (Apache 2): the instance its *)
(* URL names, the request line that the instance gets instead, the body,   *)
(* the attempts, and what comes of the answers.  SharedBalancing has the   *)
(* processes and the choice of an instance; here it is one of the table.   *)
(*                                                                         *)
(* An URL is what follows ADAPTOR_PREFIX: a sequence of names, numbers,    *)
(* slashes, extensions, which begin with a dot, and a question mark.       *)
(***************************************************************************)
EXTENDS Integers, Sequences, SequencesExt, FiniteSetsExt

CONSTANTS
    ClientURLs,    \* sequences of tokens
    NumberTokens,  \* the tokens that are a number
    WoaExtension,  \* ".woa"
    Table,         \* the instances configured: a name, as in an URL, and a number
    Answers,       \* what instances may say; broken: it ends within the headers
    Lengths,       \* of the client's content
    MaxTries,      \* RETRY_COUNT: 3 in the code
    NoTarget

\* The name of an application has no slash.
ASSUME TableAssumption ==
    /\ \A u \in ClientURLs : u \in Seq(ToSet(u))
    /\ \A a \in Table : \A k \in DOMAIN a[1] : a[1][k] # "/"
    /\ WoaExtension \notin {"/", "?"}

VARIABLES
    client,  \* what the client asks for
    target, attempts,  \* app and i of gsw_handler: the instance, the attempts made
    body,    \* postdata: its length, or 0
    status,  \* handle_status and http_status
    answer,  \* what the instance has still to say
    sent,    \* the last request that an instance got
    out,     \* what the client gets: contents, one for each attempt, or the page
    label, ret

handlerVars == <<client, target, attempts, body, status, answer, sent, out, label, ret>>

OK == 0
DECLINED == -1
UNREACHABLE == -10
Moved == 302
Page == <<"page">>

(***************************************************************************)
(* URLs.                                                                   *)
(***************************************************************************)
\* index(): the first place of one of T in u, or 0.
Index(u, T) == IF \E k \in DOMAIN u : u[k] \in T
               THEN Min({k \in DOMAIN u : u[k] \in T}) ELSE 0

Before(u, T) == IF Index(u, T) = 0 THEN u ELSE SubSeq(u, 1, Index(u, T) - 1)
After(u, T) == IF Index(u, T) = 0 THEN <<>> ELSE SubSeq(u, Index(u, T) + 1, Len(u))

\* r->uri: Apache has taken the query off.
URI(url) == Before(url, {"?"})

\* find_app: the name ends at the first dot; a number is what stands between the
\* next two slashes and begins with digits that are not 0.
AppName(url) == Before(URI(url), {WoaExtension})
InstancePart(url) == After(After(URI(url), {WoaExtension}), {"/"})
Number(url) ==
    LET part == InstancePart(url)
    IN  IF Index(part, {"/"}) > 1 /\ part[1] \in NumberTokens THEN part[1] ELSE NoTarget

\* By the key of name and number, or one of the name by load and marks.
Found(url) ==
    IF Number(url) # NoTarget
    THEN {<<AppName(url), Number(url)>>} \intersect Table
    ELSE {a \in Table : a[1] = AppName(url)}

\* Mutant: what follows the name goes on, and the number with it.
FixRequestStringTwice(url, n) ==
    [name |-> Before(Before(url, {"/"}), {WoaExtension}), number |-> n,
     rest |-> After(url, {"/"})]

\* fixRequestString works on the whole request line.  The name is cut at its
\* dot, what stands between two slashes after it is left out whether or not it
\* is a number, and the number of the instance is put in.
FixRequestString(url, n) ==
    [name |-> Before(Before(url, {"/"}), {WoaExtension}), number |-> n,
     rest |-> After(After(url, {"/"}), {"/"})]

(***************************************************************************)
(* The handler.                                                            *)
(***************************************************************************)
Nothing == [rest |-> <<>>]
Clients == [url : ClientURLs, prefixed : BOOLEAN, method : {"GET", "POST", "HEAD"},
            length : Lengths]
HandleInit ==
    /\ client \in Clients
    /\ target = NoTarget /\ attempts = 0 /\ body = 0 /\ status = OK /\ answer = Nothing /\ sent = Nothing
    /\ out = <<>> /\ label = "translate" /\ ret = "none"

Continue(to) == label' = to
Finish(value) == label' = "done" /\ ret' = value

\* gsw_translate_handler, gsw_map_to_storage_handler and gsw_handler take what
\* begins with the prefix.
Translate ==
    /\ label = "translate"
    /\ IF client.prefixed THEN Continue("find") /\ UNCHANGED ret ELSE Finish("DECLINED")
    /\ UNCHANGED <<client, target, attempts, body, status, answer, sent, out>>

Another == IF attempts < MaxTries THEN "attempt" ELSE "page"

\* find_app, before the first attempt and after each instance that could not be
\* reached.
FindTarget ==
    /\ label = "find"
    /\ target' \in Found(client.url) \union (IF Number(client.url) = NoTarget \/ Found(client.url) = {}
                                       THEN {NoTarget} ELSE {})
    /\ Continue(IF attempts > 0 THEN Another ELSE IF target' = NoTarget THEN "page" ELSE "read")
    /\ UNCHANGED <<client, attempts, body, status, answer, sent, out, ret>>

\* ap_setup_client_block refuses, say, a chunked body: the page is the answer.
SetupRefused ==
    /\ label = "read"
    /\ Continue("page")
    /\ UNCHANGED <<client, target, attempts, body, status, answer, sent, out, ret>>

\* read_post_data: all of the body, or none of it when it breaks off.
ReadPostData ==
    /\ label = "read"
    /\ body' \in IF client.method = "POST" THEN {client.length, 0} ELSE {0}
    /\ Continue("attempt")
    /\ UNCHANGED <<client, target, attempts, status, answer, sent, out, ret>>

ConnectHostFails ==
    /\ label = "attempt" /\ target # NoTarget
    /\ status' = UNREACHABLE /\ attempts' = attempts + 1
    /\ Continue("find")
    /\ UNCHANGED <<client, target, body, answer, sent, out, ret>>

\* There is no instance any more, and its structure is read through NULL.
NullTarget ==
    /\ label = "attempt" /\ target = NoTarget
    /\ Continue("dead")
    /\ UNCHANGED <<client, target, attempts, body, status, answer, sent, out, ret>>

\* send_headers and the body.  A content-length goes with the other headers of
\* the client, whether or not there is a body.
SendRequest ==
    /\ label = "attempt" /\ target # NoTarget
    /\ attempts' = attempts + 1
    /\ sent' = [url |-> FixRequestString(client.url, target[2]), length |-> client.length, body |-> body]
    /\ answer' \in Answers
    /\ status' = DECLINED
    /\ Continue("status")
    /\ UNCHANGED <<client, target, body, out, ret>>

\* write_sock fails at the first lines.
WriteFails ==
    /\ label = "attempt" /\ target # NoTarget
    /\ attempts' = attempts + 1
    /\ status' = DECLINED
    /\ Continue("loop")
    /\ UNCHANGED <<client, target, body, answer, sent, out, ret>>

\* A line that is not HTTP ends the attempt, and leaves the socket open; an
\* empty one or none leaves the status as it was.
ReadStatusLine ==
    /\ label = "status"
    /\ status' = CASE answer.first = "200" -> OK
                   [] answer.first = "302" -> Moved
                   [] answer.first = "500" -> 500
                   [] OTHER -> status
    /\ Continue(IF answer.first = "garbled" THEN "loop" ELSE "headers")
    /\ UNCHANGED <<client, target, attempts, body, answer, sent, out, ret>>

\* The headers end at an empty line.  At the end of the stream read() gives 0,
\* and read_sock_line takes a character that it never assigned, such as the one
\* it read last, for another line, each time it is called.
ReadHeaders ==
    /\ label = "headers"
    /\ \/ Continue("content")
       \/ answer.broken /\ Continue("endless")
    /\ UNCHANGED <<client, target, attempts, body, status, answer, sent, out, ret>>

\* The content, as far as it comes; nothing of it without a content-length.
RelayContent ==
    /\ label = "content"
    /\ LET n == IF answer.broken \/ client.method = "HEAD" THEN 0 ELSE Min({answer.length, answer.bytes})
       IN  out' = IF n = 0 THEN out ELSE Append(out, n)
    /\ Continue("loop")
    /\ UNCHANGED <<client, target, attempts, body, status, answer, sent, ret>>

\* The switch of gsw_handler.
Switch ==
    /\ label = "loop"
    /\ CASE status \in {OK, Moved} -> Finish("OK")
         [] status > OK /\ status # Moved -> Finish("error")
         [] OTHER -> Continue(Another) /\ UNCHANGED ret
    /\ UNCHANGED <<client, target, attempts, body, status, answer, sent, out>>

\* The status page.
SendPage ==
    /\ label = "page"
    /\ out' = IF client.method = "HEAD" THEN out ELSE out \o Page
    /\ Finish("OK")
    /\ UNCHANGED <<client, target, attempts, body, status, answer, sent>>

HandleNext ==
    \/ Translate \/ FindTarget \/ SetupRefused \/ ReadPostData
    \/ ConnectHostFails \/ NullTarget \/ SendRequest \/ WriteFails
    \/ ReadStatusLine \/ ReadHeaders \/ RelayContent \/ Switch \/ SendPage

HandleSpec == HandleInit /\ [][HandleNext]_handlerVars

(***************************************************************************)
(* Properties.                                                             *)
(***************************************************************************)
\* Two functions take an URL apart, find_app without its query and
\* fixRequestString with it.  A request that names an instance which is
\* configured gets there under its own name, number and all that follows the
\* number, the query included.
InstanceIsAddressed ==
    Number(client.url) # NoTarget /\ sent # Nothing =>
        /\ <<sent.url.name, sent.url.number>> = <<AppName(client.url), Number(client.url)>>
        /\ sent.url.rest = After(After(After(client.url, {WoaExtension}), {"/"}), {"/"})
=============================================================================
