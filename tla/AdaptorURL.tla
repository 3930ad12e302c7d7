----------------------------- MODULE AdaptorURL -----------------------------
(***************************************************************************)
(* GSWURLUtil.c: how the adaptor takes an URL apart, and how it puts the   *)
(* URL together that it sends to the instance it chose.                    *)
(*                                                                         *)
(* An URL is a sequence of tokens: the prefix, a slash, an extension, a    *)
(* letter, a digit, "-1", the mark of the query string.  Pointers into the *)
(* URL are indices; a component is the tokens between two of them.         *)
(***************************************************************************)
EXTENDS Integers, Sequences, SequencesExt

CONSTANTS
    Tokens,     \* the tokens that follow the prefix
    MaxTokens,  \* bound: how many do
    Leading     \* letters of the alias before the prefix: "/GSWeb" has none

\* The web server has taken the query off.
ASSUME TokensAssumption == "?" \notin Tokens /\ MaxTokens \in Nat /\ Leading \in Nat

VARIABLES
    url, chosen,  \* the request's URL, and the instance that gets it
    parsed,       \* GSWURLComponents, and the error of GSWParseURL
    composed,     \* the URL that the instance gets
    place

urlVars == <<url, chosen, parsed, composed, place>>

Digit == {"1", "2"}
Alias == [i \in 1 .. Leading |-> "a"] \o <<"/GSWeb">>

\* The first place at or after i where S holds a token of u, or the end.
Find(u, i, S) ==
    IF \E j \in i .. Len(u) : u[j] \in S
    THEN CHOOSE j \in i .. Len(u) : u[j] \in S /\ \A k \in i .. j - 1 : u[k] \notin S
    ELSE Len(u) + 1

\* The tokens of u from i to before j: lengths below zero are zero, and behind
\* the end of the URL nothing is copied.
Part(u, i, j) == SubSeq(u, i, IF j - 1 <= Len(u) THEN j - 1 ELSE Len(u))

\* The first place at or after i that is no slash.
SkipSlashes(u, i) == Find(u, i, ToSet(u) \ {"/"})

\* The extension that ends the name of the application: the first ".gswa", and
\* only without one the first ".woa".
Extension(u, i) ==
    IF Find(u, i, {".gswa"}) <= Len(u) THEN Find(u, i, {".gswa"})
    ELSE Find(u, i, {".woa"})

\* Where the name of the application stops that starts at i, and where what
\* follows it starts: 0, the null pointer, when no slash does.
NameStops(u, i, query) ==
    LET extension == Extension(u, i)
        slash == Find(u, i, {"/"})
    IN  IF extension <= Len(u)
        THEN IF query <= extension THEN [stop |-> Len(u) + 1, next |-> Len(u) + 1]
             ELSE [stop |-> extension, next |-> extension + 1]
        ELSE IF slash > Len(u) THEN [stop |-> query, next |-> 0]
        ELSE IF query <= slash THEN [stop |-> query - 1, next |-> query]
        ELSE [stop |-> slash, next |-> slash + 1]

DropSlashes(s) ==
    Part(s, 1, (CHOOSE n \in 0 .. Len(s) :
                  /\ n = 0 \/ s[n] # "/"
                  /\ \A k \in n + 1 .. Len(s) : s[k] = "/") + 1)

\* The number, the key of the request handler and where its path starts, from
\* the place i; a word that is no number is the key, and after the number -1
\* there is no key.  stop is the query's mark or the end.
AfterName(u, i, stop) ==
    LET seen == Part(u, 1, stop)
        Past(j) == IF j < stop THEN j + 1 ELSE j
        one == SkipSlashes(u, i)
        oneEnds == IF one > stop THEN one ELSE Find(seen, one, {"/"})
        word == Part(u, one, oneEnds)
        two == SkipSlashes(u, Past(oneEnds))
        twoEnds == IF two > stop THEN two ELSE Find(seen, two, {"/"})
    IN  IF word = <<"-1">> THEN [number |-> word, key |-> <<>>, path |-> Past(oneEnds)]
        ELSE IF ToSet(word) \subseteq Digit
        THEN [number |-> word, key |-> Part(u, two, twoEnds), path |-> Past(twoEnds)]
        ELSE [number |-> <<>>, key |-> word, path |-> Past(oneEnds)]

\* GSWParseURL.  The prefix keeps the length it has from the URL's beginning.
ParseURL(u) ==
    LET query == Find(u, 1, {"?"})
        prefix == Find(u, 1, {"/GSWeb"})
        start == IF prefix + 1 <= Len(u) THEN prefix + 2 ELSE prefix + 1
        name == NameStops(u, start, query)
        app == DropSlashes(Part(u, start, name.stop))
        rest == IF name.next = 0
                THEN [number |-> <<>>, key |-> <<>>, path |-> query]
                ELSE AfterName(u, name.next, query)
        path == Part(u, rest.path, query)
    IN  IF prefix > Len(u) \/ query <= prefix
        THEN [error |-> "InvalidPrefix"]
        ELSE [prefix |-> Part(u, prefix, prefix + prefix),
              app |-> app, number |-> rest.number, key |-> rest.key, path |-> path,
              query |-> Part(u, query, Len(u) + 1),
              error |-> IF app = <<>> THEN "InvalidAppName"
                        ELSE IF rest.key = <<>> /\ path # <<>>
                        THEN "InvalidRequestHandlerKey" ELSE "OK"]

\* A component that is there, after its mark.
With(mark, part) == IF part = <<>> THEN <<>> ELSE <<mark>> \o part

\* Mutant: the path is joined to the key.
ComposeURLJoined(c) ==
    c.prefix \o <<"/">> \o c.app \o <<".gswa">>
      \o With("/", c.number) \o With("/", c.key) \o c.path \o With("?", c.query)

ComposeURL(c) ==
    c.prefix \o <<"/">> \o c.app \o <<".gswa">>
      \o With("/", c.number) \o With("/", c.key) \o With("/", c.path) \o With("?", c.query)

\* Mutant: the marks before the components are not counted.
ComposeURLLenShort(c) ==
    Len(c.prefix) + 1 + Len(c.app) + 1
      + Len(c.number) + Len(c.key) + Len(c.path) + Len(c.query)

ComposeURLLen(c) ==
    Len(c.prefix) + 1 + Len(c.app) + 1
      + Len(With("/", c.number)) + Len(With("/", c.key)) + Len(With("/", c.path))
      + Len(With("?", c.query))

\* The message for a page, or none: an URL without an application's name gets
\* the list of the applications instead.
URLErrorMessage(error) == IF error = "OK" THEN "" ELSE error

URLs == {Alias \o rest : rest \in UNION {[1 .. n -> Tokens] : n \in 0 .. MaxTokens}}

URLInit ==
    /\ url \in URLs
    /\ chosen \in {<<"1">>, <<"2">>}
    /\ parsed = [error |-> ""] /\ composed = <<>> /\ place = "parse"

Parse ==
    /\ place = "parse"
    /\ parsed' = ParseURL(url)
    /\ place' = IF ParseURL(url).error = "OK" THEN "compose" ELSE "refused"
    /\ UNCHANGED <<url, chosen, composed>>

\* GSWHTTPRequest_HTTPToAppRequest: the number is that of the chosen instance,
\* and the query string comes from the web server.
Compose ==
    /\ place = "compose"
    /\ \E args \in {<<>>, <<"a">>} :
         LET c == [parsed EXCEPT !.number = chosen, !.query = args]
         IN  parsed' = c /\ composed' = ComposeURL(c)
    /\ place' = "sent"
    /\ UNCHANGED <<url, chosen>>

\* The next request, or a retry with another instance.
Again ==
    /\ place = "sent"
    /\ chosen' \in {<<"1">>, <<"2">>} \ {chosen}
    /\ place' = "compose"
    /\ UNCHANGED <<url, parsed, composed>>

URLNext == Parse \/ Compose \/ Again
URLSpec == URLInit /\ [][URLNext]_urlVars

(***************************************************************************)
(* Properties.                                                             *)
(***************************************************************************)
\* What GSWComposeURL writes fits into what GSWHTTPRequest_HTTPToAppRequest
\* allocates for it: the longest method with its blank, the URL, a blank, a line
\* feed, and the end.
BufferIsEnough ==
    place = "sent" => 5 + Len(composed) + 1 + 1 + 1 <= 8 + ComposeURLLen(parsed) + 1

\* Read by the same rules, the URL that the adaptor composed says to the
\* instance what the client's URL said to the adaptor: its own number, and the
\* same application, request handler, path and query, over retries with other
\* instances (HTTPToAppRequest writes the number into the parsed URL each time).
InstanceReadsTheSame ==
    place = "sent" =>
        LET read == ParseURL(composed)
        IN  /\ read.error = "OK"
            /\ read.prefix = parsed.prefix /\ read.app = parsed.app
            /\ read.number = chosen
            /\ read.key = parsed.key /\ read.path = parsed.path
            /\ read.query = With("?", parsed.query)
=============================================================================
