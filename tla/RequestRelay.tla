---------------------------- MODULE RequestRelay ----------------------------
(***************************************************************************)
(* The way of one request through the common part of the web server's      *)
(* adaptor: GSWHTTPRequest.c, GSWAppRequest.c, GSWAppConnectSocket.c,      *)
(* GSWHTTPResponse.c.  The web server's side is in ApacheModule; which     *)
(* instance is chosen is in LoadBalancing and only an outcome here.        *)
(*                                                                         *)
(* A dictionary of headers is the sequence of its keys: GSWDict_Add        *)
(* appends and replaces nothing.  Contents are counted in bytes.  heap     *)
(* counts, for each kind of block, descriptor or stream, those allocated   *)
(* and not freed, and, as "stray", the closes of a closed descriptor.      *)
(***************************************************************************)
EXTENDS Integers, Sequences

CONSTANTS
    APP_CONNECT_RETRIES_NB,  \* 10 in config.h
    AppHeaders,     \* the headers the configuration adds, of which none is a length
    MaxLength       \* bound: the bytes of a content, the headers of an application or an answer

ASSUME RetriesAssumption == APP_CONNECT_RETRIES_NB \in Nat

VARIABLES
    client,     \* what the client sends
    req, resp,  \* pRequest and pResponse
    attempt,    \* iAttemptsRemaining, fAppFound, fAppNotResponding, stHeadersDict
    answer,     \* what the instance has still to say, and what it said
    sent,       \* what was written to instances: one record for each sending
    out,        \* what the client got
    heap, stage, ret

requestVars == <<client, req, resp, attempt, answer, sent, out, heap, stage, ret>>

Null == [none |-> TRUE]
Connection == {"socket", "read", "write", "handle"}
Kinds == {"request", "content", "response", "name", "stray"} \union Connection
Alloc(kind) == heap' = [heap EXCEPT ![kind] = @ + 1]
Free(kinds) == heap' = [k \in Kinds |-> IF k \in kinds THEN heap[k] - 1 ELSE heap[k]]

(***************************************************************************)
(* Requests.                                                               *)
(***************************************************************************)
\* GetHTTPRequestMethod compares with ! and == 0, so all that is neither GET
\* nor POST is a HEAD unless it is a HEAD, and then it is a PUT.
Method(m) ==
    CASE m = "GET" -> "Get"
      [] m = "POST" -> "Post"
      [] m # "HEAD" /\ m \notin {"GET", "POST"} -> "Head"
      [] OTHER -> "Put"

ValidateMethod(r) == r.method \in {"Get", "Post"}

NewRequest(m) == [method |-> Method(m), length |-> 0, headers |-> <<>>, content |-> Null]

\* GSWebHeaderForHTTPHeader: what the header table translates, the rest as it is.
Translated(key) == IF key = "server_port" THEN "x-gsweb-server-port" ELSE key

\* GSWHTTPRequest_AddHeader: the first content-length of a POST that is not 0.
AddHeader(r, key, value) ==
    [r EXCEPT !.headers = Append(@, Translated(key)),
              !.length = IF r.method = "Post" /\ @ = 0 /\ Translated(key) = "content-length"
                         THEN value ELSE @]

\* GSWHTTPRequest_HTTPToAppRequest: the headers of the application come last.
ToAppRequest(r, own) ==
    [AddHeader(r, "x-gsweb-request-method", 0) EXCEPT
        !.headers = @ \o [i \in DOMAIN own |-> Translated(own[i])]]

\* GSWHTTPRequest_Free frees the content the request has.
FreeRequest(r) == IF r.content = Null THEN {"request"} ELSE {"request", "content"}

(***************************************************************************)
(* Responses.                                                              *)
(***************************************************************************)
PageLength == 1

\* GSWHTTPResponse_BuildErrorResponse, with what the caller adds.
ErrorPage(status, more) ==
    [status |-> status, headers |-> <<"content-type">> \o more \o <<"content-length">>,
     length |-> PageLength, content |-> PageLength, from |-> "adaptor"]

\* GSWHTTPResponse_BuildStatusResponse and GSWDumpConfigFile.
ListPage == [ErrorPage(200, <<>>) EXCEPT !.headers = <<"content-type">>]

\* GSWHTTPResponse_BuildServiceUnavailableResponse.
UnavailablePage == ErrorPage(503, <<"retry-after">>)

(***************************************************************************)
(* GSWAppRequest_HandleRequest.                                            *)
(***************************************************************************)
\* What stHeadersDict of an application may have: a reload adds the headers of the
\* file to those there are.
OwnHeaders == UNION {[1 .. n -> AppHeaders] : n \in 0 .. MaxLength}

RespondWith(page, next) == resp' = page /\ stage' = next

\* The application's name is the one of the status page: the request is left
\* to the caller, which frees it no more than this does.
HandleStatusPage ==
    /\ stage = "handle" /\ client.uri = "status"
    /\ RespondWith(ListPage, "respond") /\ Alloc("response")
    /\ UNCHANGED <<client, req, attempt, answer, sent, out, ret>>

Handle ==
    /\ stage = "handle" /\ client.uri # "status"
    /\ req' = AddHeader(req, "x-gsweb-server-adaptor", 0)
    /\ \E found \in BOOLEAN, own \in OwnHeaders :
         attempt' = [remaining |-> APP_CONNECT_RETRIES_NB, found |-> found, silent |-> FALSE,
                     own |-> own]
    /\ stage' = "available"
    /\ UNCHANGED <<client, resp, answer, sent, out, heap, ret>>

\* The application is unavailable for now, or is asked for an answer.
CheckUnavailable ==
    /\ stage = "available"
    /\ \/ /\ attempt.found
          /\ RespondWith(UnavailablePage, "release") /\ Alloc("response")
       \/ stage' = "attempt" /\ UNCHANGED <<resp, heap>>
    /\ UNCHANGED <<client, req, attempt, answer, sent, out, ret>>

\* Mutant: the headers are added when an instance is found, connected or not.
RelayConnectFailsAdding ==
    /\ stage = "attempt" /\ attempt.found /\ attempt.remaining > 0
    /\ attempt' = [attempt EXCEPT !.remaining = @ - 1, !.silent = TRUE]
    /\ req' = ToAppRequest(req, attempt.own)
    /\ UNCHANGED <<client, resp, answer, sent, out, heap, stage, ret>>

\* GSWApp_Open fails at the host, the socket, the connection or a stream, and
\* closes what it opened: without the second stream it closes the descriptor again
\* after the first one did.  An instance of the load balancing is marked, and with
\* an attempt left another one is looked for, with the headers of its application.
RelayConnectFails ==
    /\ stage = "attempt" /\ attempt.found /\ attempt.remaining > 0
    /\ \E balanced, found \in BOOLEAN, own \in OwnHeaders :
         LET left == attempt.remaining - 1
             searches == balanced /\ left > 0
         IN  attempt' = [remaining |-> IF balanced THEN left - 1 ELSE left, silent |-> TRUE,
                         found |-> searches => found,
                         own |-> IF searches THEN own ELSE attempt.own]
    /\ heap' \in {heap, [heap EXCEPT !["stray"] = @ + 1]}
    /\ UNCHANGED <<client, req, resp, answer, sent, out, stage, ret>>

\* The descriptor, a stream to read it, one to write it, and what holds the three.
RelayConnect ==
    /\ stage = "attempt" /\ attempt.found /\ attempt.remaining > 0
    /\ attempt' = [attempt EXCEPT !.remaining = @ - 1, !.silent = FALSE]
    /\ req' = ToAppRequest(req, attempt.own)
    /\ heap' = [k \in Kinds |-> IF k \in Connection THEN heap[k] + 1 ELSE heap[k]]
    /\ stage' = "send"
    /\ UNCHANGED <<client, resp, answer, sent, out, ret>>

\* What GSWHTTPRequest_SendRequest writes.  fwrite's count is never below 0 and
\* nobody asks fflush: a failure makes no difference, but an instance that gets
\* only a part of it.
Wire == [keys |-> req.headers, body |-> IF req.length > 0 THEN req.content ELSE Null]

\* What an instance may say: a status line, headers, one of them without a colon,
\* and as many bytes of content as it has; one that ends early, or is read no
\* longer, has fewer of them.
Answers ==
    {[valid |-> FALSE]} \union
    [valid : {TRUE}, bytes : 0 .. MaxLength,
     lines : UNION {[1 .. n -> {[key |-> "content-type", value |-> 0],
                                [key |-> "x-gsweb-adaptorstats", value |-> 0],
                                [key |-> "colonless", value |-> 0]} \union
                               {[key |-> "content-length", value |-> v] : v \in 0 .. MaxLength}]
                      : n \in 0 .. MaxLength}]

SendRequest ==
    /\ stage = "send"
    /\ sent' = Append(sent, Wire)
    /\ answer' \in Answers
    /\ stage' = "line"
    /\ UNCHANGED <<client, req, resp, attempt, out, heap, ret>>

(***************************************************************************)
(* GSWHTTPResponse_GetResponse.                                            *)
(***************************************************************************)
ReceiveFirstLine ==
    /\ stage = "line"
    /\ Alloc("response")
    /\ IF answer.valid
       THEN RespondWith([status |-> 200, headers |-> <<>>, length |-> 0, content |-> 0,
                     from |-> "instance"], "headers")
       ELSE RespondWith(ErrorPage(200, <<>>), "received")
    /\ UNCHANGED <<client, req, attempt, answer, sent, out, ret>>

\* The statistics of the application are kept apart; the first content-length
\* that is not 0 counts.
ReceiveHeader ==
    /\ stage = "headers" /\ answer.lines # <<>>
    /\ LET line == Head(answer.lines)
       IN  resp' = IF line.key = "x-gsweb-adaptorstats" THEN resp
                   ELSE [resp EXCEPT !.headers = Append(@, line.key),
                                     !.length = IF @ = 0 /\ line.key = "content-length"
                                                THEN line.value ELSE @]
    /\ answer' = [answer EXCEPT !.lines = Tail(@)]
    /\ UNCHANGED <<client, req, attempt, sent, out, heap, stage, ret>>

\* GSWHTTPResponse_AddHeader looks for the colon beyond the end of the line: in what
\* longer lines left in the buffer, or further, until the process dies.
ReceiveColonless ==
    /\ stage = "headers" /\ answer.lines # <<>>
    /\ Head(answer.lines).key = "colonless"
    /\ stage' = "died"
    /\ UNCHANGED <<client, req, resp, attempt, answer, sent, out, heap, ret>>

\* Mutant: what came of the content is good enough.
ReceiveContentPart ==
    /\ stage = "headers" /\ answer.lines = <<>>
    /\ resp' = [resp EXCEPT !.content = IF answer.bytes < resp.length THEN answer.bytes
                                        ELSE resp.length]
    /\ stage' = "received"
    /\ UNCHANGED <<client, req, attempt, answer, sent, out, heap, ret>>

\* Mutant: after an answer that broke off the request is sent again.
ReceiveContentAgain ==
    /\ stage = "headers" /\ answer.lines = <<>>
    /\ IF answer.bytes >= resp.length
       THEN resp' = [resp EXCEPT !.content = resp.length] /\ stage' = "received" /\ UNCHANGED heap
       ELSE resp' = Null /\ stage' = "attempt" /\ Free({"response"} \union Connection)
    /\ UNCHANGED <<client, req, attempt, answer, sent, out, ret>>

\* All of the content, or the response is freed and a page takes its place.
ReceiveContent ==
    /\ stage = "headers" /\ answer.lines = <<>>
    /\ resp' = IF answer.bytes >= resp.length THEN [resp EXCEPT !.content = resp.length]
               ELSE ErrorPage(200, <<>>)
    /\ stage' = "received"
    /\ UNCHANGED <<client, req, attempt, answer, sent, out, heap, ret>>

\* Mutant: the stream that was read is not closed.
CloseConnectionPart ==
    /\ stage = "received"
    /\ heap' = [k \in Kinds |-> CASE k \in Connection \ {"read"} -> heap[k] - 1
                               [] k = "stray" -> heap[k] + 1
                               [] OTHER -> heap[k]]
    /\ stage' = "release"
    /\ UNCHANGED <<client, req, resp, attempt, answer, sent, out, ret>>

\* GSWApp_Close closes the descriptor, and each of the two streams closes it again.
CloseConnection ==
    /\ stage = "received"
    /\ heap' = [k \in Kinds |-> CASE k \in Connection -> heap[k] - 1
                               [] k = "stray" -> heap[k] + 2
                               [] OTHER -> heap[k]]
    /\ stage' = "release"
    /\ UNCHANGED <<client, req, resp, attempt, answer, sent, out, ret>>

\* No attempt is left or no instance is: a page says that the application does
\* not respond, or lists those there are.
RelayGiveUp ==
    /\ stage = "attempt" /\ (~attempt.found \/ attempt.remaining <= 0)
    /\ RespondWith(IF attempt.silent THEN ErrorPage(200, <<>>) ELSE ListPage, "release")
    /\ Alloc("response")
    /\ UNCHANGED <<client, req, attempt, answer, sent, out, ret>>

\* The end of GSWAppRequest_SendAppRequestToApp.
ReleaseRequest ==
    /\ stage = "release"
    /\ Free(FreeRequest(req))
    /\ req' = Null
    /\ stage' = "respond"
    /\ UNCHANGED <<client, resp, attempt, answer, sent, out, ret>>

RelayNext ==
    \/ HandleStatusPage \/ Handle \/ CheckUnavailable
    \/ RelayConnectFails \/ RelayConnect \/ SendRequest
    \/ ReceiveFirstLine \/ ReceiveHeader \/ ReceiveColonless \/ ReceiveContent
    \/ CloseConnection \/ RelayGiveUp \/ ReleaseRequest
=============================================================================
