----------------------------- MODULE HandlerURLs ----------------------------
(***************************************************************************)
(* The URLs, the instances and the answers with which GswHandler is run.   *)
(***************************************************************************)
EXTENDS Integers, Sequences

\* A name with or without the extension, up to two parts, and a query that may
\* have slashes of its own.
Parts == {<<"/">>, <<"/", "1">>, <<"/", "2">>, <<"/", "x">>, <<"/", "x", ".woa">>}
SomeURLs ==
    {name \o first \o second \o third \o query :
        name \in {<<"A">>, <<"A", ".woa">>, <<"x", ".woa">>},
        first \in Parts \union {<<>>}, second \in Parts \union {<<>>}, third \in {<<>>, <<"/", "x">>},
        query \in {<<>>, <<"?", "x">>, <<"?", "x", "/", "1", "/">>}}

TwoInstances == {<<<<"A">>, "1">>, <<<<"A">>, "2">>}

SomeAnswers ==
    {[first |-> f, length |-> 1, bytes |-> 1, broken |-> b] :
        f \in {"200", "500", "garbled", "none"}, b \in BOOLEAN}
=============================================================================
