---------------------------- MODULE ApacheModule ----------------------------
(***************************************************************************)
(* Apache/mod_gsweb.c: the handler that Apache calls for a request, from   *)
(* its URI to the answer, around the common part in RequestRelay.          *)
(***************************************************************************)
EXTENDS RequestRelay

\* What a client asks for: another part of the server, an URL that does not
\* parse, the list of the applications, the status page, an application; a
\* content-length, and the bytes that come before the client goes away.
Clients ==
    {c \in [method : {"GET", "POST", "HEAD", "PUT"},
            uri : {"other", "bad", "noname", "status", "app"},
            length : 0 .. MaxLength, bytes : 0 .. MaxLength, header_only : BOOLEAN] :
        c.bytes <= c.length /\ (c.header_only <=> c.method = "HEAD")}

HandlerInit ==
    /\ client \in Clients
    /\ req = Null /\ resp = Null /\ answer = Null /\ out = Null /\ attempt = Null
    /\ sent = <<>> /\ heap = [k \in Kinds |-> 0]
    /\ stage = "translate" /\ ret = "none"

\* GSWeb_Translation takes an URI for GSWeb_Handler when it starts as the alias
\* does and parses; GSWeb_Handler also gets those that Apache gives to its MIME
\* type, so it looks again.
Translation ==
    /\ stage = "translate"
    /\ \/ client.uri \in {"status", "app"} /\ stage' = "handler" /\ UNCHANGED ret
       \/ client.uri \notin {"status", "app"} /\ stage' = "done" /\ ret' = "DECLINED"
       \/ stage' = "handler" /\ UNCHANGED ret
    /\ UNCHANGED <<client, req, resp, attempt, answer, sent, out, heap>>

\* GSWeb_Handler: whether the URI is for it, and what is wrong with it.
CheckURI ==
    /\ stage = "handler"
    /\ CASE client.uri = "other" ->
              ret' = "DECLINED" /\ stage' = "done" /\ UNCHANGED <<resp, heap>>
         [] client.uri = "noname" ->
              RespondWith(ListPage, "die") /\ Alloc("response") /\ UNCHANGED ret
         [] client.uri = "bad" ->
              RespondWith(ErrorPage(200, <<>>), "die") /\ Alloc("response") /\ UNCHANGED ret
         [] OTHER -> stage' = "setup" /\ UNCHANGED <<resp, heap, ret>>
    /\ UNCHANGED <<client, req, attempt, answer, sent, out>>

\* ap_setup_client_block refuses a chunked content, say, with a status of its own.
SetupRefused ==
    /\ stage = "setup"
    /\ ret' = "HTTP_error" /\ stage' = "done"
    /\ UNCHANGED <<client, req, resp, attempt, answer, sent, out, heap>>

BuildRequest ==
    /\ stage = "setup"
    /\ req' = NewRequest(client.method)
    /\ IF ValidateMethod(NewRequest(client.method))
       THEN stage' = "copy" /\ Alloc("request") /\ UNCHANGED resp
       ELSE /\ RespondWith(ErrorPage(200, <<>>), "die")
            /\ heap' = [heap EXCEPT !["request"] = @ + 1, !["response"] = @ + 1]
    /\ UNCHANGED <<client, attempt, answer, sent, out, ret>>

\* copyHeaders: those of the client, then those about the server; and the name
\* of the application.
CopyHeaders ==
    /\ stage = "copy"
    /\ LET theirs == IF client.length = 0 THEN req
                     ELSE AddHeader(req, "content-length", client.length)
           software == AddHeader(theirs, "server_software", 0)
           port == AddHeader(software, "server_port", 0)
       IN  req' = AddHeader(port, "x-gsweb-application-name", 0)
    /\ Alloc("name")
    /\ stage' = "read"
    /\ UNCHANGED <<client, resp, attempt, answer, sent, out, ret>>

\* The content of a POST, block by block: what Apache cannot read is zeros.
ReadContent ==
    /\ stage = "read" /\ req.length > 0 /\ req.content = Null
    /\ req' = [req EXCEPT !.content = [read |-> 0, zeros |-> 0]]
    /\ Alloc("content")
    /\ UNCHANGED <<client, resp, attempt, answer, sent, out, stage, ret>>

\* Mutant: the whole content is read again after an error.
ReadBlockAgain ==
    /\ stage = "read" /\ req.content # Null
    /\ LET got == req.content.read
       IN  IF got < client.bytes
           THEN \E n \in 1 .. client.bytes - got :
                  req' = [req EXCEPT !.content.read = got + n]
           ELSE req' = [req EXCEPT !.content.read = 0]
    /\ stage' = IF req'.content.read = req.length THEN "handle" ELSE "read"
    /\ UNCHANGED <<client, resp, attempt, answer, sent, out, heap, ret>>

ReadBlock ==
    /\ stage = "read" /\ req.content # Null
    /\ LET got == req.content.read
           left == req.length - got
       IN  IF got < client.bytes
           THEN \E n \in 1 .. client.bytes - got :
                  req' = [req EXCEPT !.content.read = got + n]
           ELSE /\ req' = [req EXCEPT !.content.zeros = left]
    /\ stage' = IF client.bytes = req.content.read \/ req'.content.read = req.length
             THEN "handle" ELSE "read"
    /\ UNCHANGED <<client, resp, attempt, answer, sent, out, heap, ret>>

\* A GET has its query string instead.
NoContent ==
    /\ stage = "read" /\ req.length = 0
    /\ stage' = "handle"
    /\ UNCHANGED <<client, req, resp, attempt, answer, sent, out, heap, ret>>

\* sendResponse: the first content-type is Apache's, every other header is
\* added, the length is that of the response.
Sent(r) ==
    [status |-> r.status,
     headers |-> SelectSeq(r.headers, LAMBDA key : key # "content-type"),
     typed |-> TRUE, length |-> r.length,
     body |-> IF client.header_only THEN 0 ELSE r.content, from |-> r.from]

SendResponse ==
    /\ stage = "respond"
    /\ out' = Sent(resp) /\ resp' = Null
    /\ Free({"response", "name"})
    /\ ret' = "OK" /\ stage' = "done"
    /\ UNCHANGED <<client, req, attempt, answer, sent>>

\* dieSendResponse and dieWithMessage: never with DECLINED.
DieSendResponse ==
    /\ stage = "die"
    /\ out' = Sent(resp) /\ resp' = Null
    /\ Free({"response"})
    /\ ret' = "OK" /\ stage' = "done"
    /\ UNCHANGED <<client, req, attempt, answer, sent>>

HandlerNext ==
    \/ Translation \/ CheckURI \/ SetupRefused \/ BuildRequest \/ CopyHeaders
    \/ ReadContent \/ ReadBlock \/ NoContent \/ SendResponse \/ DieSendResponse
    \/ RelayNext

HandlerSpec == HandlerInit /\ [][HandlerNext]_requestVars

\* The web server's thread goes on, the client and the instance send or go away.
HandlerLiveSpec == HandlerSpec /\ WF_requestVars(HandlerNext)

(***************************************************************************)
(* Properties.                                                             *)
(***************************************************************************)
\* The handler says OK when it answered, and has sent nothing to the client when
\* it leaves the request to another handler or to Apache's error page.
OneAnswer == stage = "done" => ((ret = "OK") <=> (out # Null))

\* What the client gets as an answer of the instance has the length it says,
\* and nothing of an answer that broke off in its content reaches the client.
WholeAnswer ==
    out # Null => \/ client.header_only /\ out.body = 0
                  \/ out.length = out.body

\* Whichever instances failed before, one instance at most gets the request, with
\* the headers of the client and of the server and those of the application it is
\* an instance of, each once and of no other application; and with a content of
\* the length the client announced, of which the bytes that did not come are zeros.
OneRequestIsSent ==
    sent # <<>> =>
        /\ Len(sent) = 1
        /\ sent[1].keys =
             (IF client.length = 0 THEN <<>> ELSE <<"content-length">>) \o
             <<"server_software", "x-gsweb-server-port", "x-gsweb-application-name",
               "x-gsweb-server-adaptor", "x-gsweb-request-method">> \o
             [i \in DOMAIN attempt.own |-> Translated(attempt.own[i])]
        /\ sent[1].body # Null =>
             /\ sent[1].body.read = client.bytes
             /\ sent[1].body.read + sent[1].body.zeros = client.length

\* Of every block, descriptor and stream there is one at most, and at the end none,
\* whichever way the request takes: but the request and its content are left to a
\* caller that forgets them when the method is refused or the page is of the status.
GivenBack ==
    \A k \in Kinds \ {"stray"} :
        /\ heap[k] \in {0, 1}
        /\ stage = "done" /\ heap[k] = 1 =>
             /\ k \in {"request", "content"} /\ req # Null
             /\ client.uri = "status" \/ ~ValidateMethod(req)

\* What the handler is to the client and the instances.
State ==
    CASE stage \in {"done", "died"} -> "over"
      [] stage \in {"headers", "received", "release", "respond", "die"} -> "settled"
      [] OTHER -> "open"
Forwarding == INSTANCE RequestForwarding WITH
    state <- State, headOnly <- client.header_only, got <- sent, given <- out,
    verdict <- ret, NoAnswer <- Null

\* Through all failures of instances, attempts and broken answers the handler
\* implements RequestForwarding: the request is sent once at most and before an
\* answer is settled, and the client gets one whole answer, or the web server the
\* request back as it was, or the answer of the instance ends the process.
ForwardingSpec == Forwarding!Spec

\* Every request ends, whatever the client and the instances do.
Ended == stage \in {"done", "died"}
=============================================================================
