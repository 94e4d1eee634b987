--------------------------- MODULE MCChainRunner ---------------------------
(***************************************************************************)
(* Instances of ChainRunner for TLC: three providers that list the https   *)
(* form of the registry's host, its http form, another host, or nothing.   *)
(***************************************************************************)
EXTENDS ChainRunner

CONSTANTS p1, p2, p3

UrlOf(scheme, host) == [scheme |-> scheme, host |-> host, port |-> 0, path |-> <<"npm">>]

httpForm == UrlOf("http", "h")

OneHello == {[listed |-> FALSE, registries |-> {}]}
            \cup {[listed |-> TRUE, registries |-> {UrlOf(x[1], x[2])}] :
                     x \in {<<"https", "h">>, <<"http", "h">>, <<"https", "o">>}}

AllHellos == [{p1, p2, p3} -> OneHello]
AllLists  == {<<p1>>, <<p1, p2>>, <<p1, p2, p3>>}
=============================================================================
