---------------------------------- MODULE MCUrl ----------------------------------
(***************************************************************************)
(* URL objects and URLPattern objects share nothing: each behaviour is one  *)
(* of Url or one of UrlPattern, chosen at its start by `scene'.             *)
(***************************************************************************)
EXTENDS UrlPattern, Url

CONSTANT Scenes

VARIABLE scene

Bare == [scheme |-> "none", authority |-> FALSE, username |-> <<>>, password |-> <<>>,
         host |-> <<>>, port |-> <<>>, path |-> <<>>, query |-> <<>>, fragment |-> <<>>]
Seg(n, spelling) == [name |-> n, value |-> "x", spelling |-> spelling]

FullUrl == [scheme |-> "http", authority |-> TRUE, username |-> <<"user">>,
            password |-> <<"secret">>, host |-> <<"host">>, port |-> <<"0">>,
            path |-> <<"/path">>, query |-> <<<<Seg(2, "raw"), Seg(1, "raw")>>>>,
            fragment |-> <<<<>>>>]
FileUrl == [Bare EXCEPT !.scheme = "file", !.authority = TRUE, !.path = <<"/path">>,
                        !.query = <<<<>>>>]
BlobUrl == [Bare EXCEPT !.scheme = "blob", !.path = <<"path">>]

TextSet == {[url |-> FullUrl, status |-> "same"], [url |-> FileUrl, status |-> "changed"],
            [url |-> BlobUrl, status |-> "changed"], [url |-> Bare, status |-> "invalid"]}
QuerySet == {<<>>, <<<<>>>>,
             <<<<Seg(1, "blank"), Seg(1, "form")>>>>}
InitSet == {[kind |-> "string", query |-> <<<<Seg(1, "raw")>>>>],
            [kind |-> "sequence", pairs |-> <<<<2, "x">>, <<1, "x">>>>],
            [kind |-> "sequence", pairs |-> <<<<1>>>>],
            [kind |-> "record", keys |-> <<1>>, values |-> [n \in {1} |-> "x"]]}

TokenSet == {"http", "ws", "file", "blob", "none", "user", "secret", "host", "0", "8080",
             "/path", "path", "text"}

\* Two components, of which the second one may be a regular expression.
Id == [s \in {"", "a", "b"} |-> IF s = "b" THEN None ELSE <<s>>]
Part(kind) == [kind |-> kind, names |-> IF kind = "regexp" THEN <<"n">> ELSE <<>>, captures |-> Id]
Components == [p \in {"p1", "p2", "p3"} |->
    CASE p = "p1" -> <<Part("regexp"), Part("^(.*)$"), Part("^$")>>
      [] p = "p2" -> <<Part("^(.*)$"), Part("regexp"), Part("regexp")>>
      [] p = "p3" -> <<Part("invalid")>>]
Processing ==
    LET values == [i \in {"s1", "s2"} |->
                      IF i = "s1" THEN <<"a", "b", "">> ELSE <<"b", "a", "a">>]
    IN  [io \in ({"s1", "s2", "d"} \X {"base", None}) |->
            IF io[1] = "d" THEN None
            ELSE IF io[2] = "base" THEN <<"a", "a", "a">> ELSE values[io[1]]]

ASSUME PatternAssumption == UrlPatternAssumption

MCInit == scene \in Scenes /\ Init /\ UrlInit
MCNext ==
    \/ scene = "url" /\ UrlNext /\ UNCHANGED <<scene, vars>>
    \/ scene = "pattern" /\ Next /\ UNCHANGED <<scene, urlVars>>
MCSpec == MCInit /\ [][MCNext]_<<scene, vars, urlVars>>
=================================================================================
