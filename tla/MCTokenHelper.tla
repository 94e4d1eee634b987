--------------------------- MODULE MCTokenHelper ---------------------------
(***************************************************************************)
(* Instances of TokenHelper for TLC: the two registry keys of a registry   *)
(* below a path, `long' and `short', as a request for it walks them, and   *)
(* the requests and configurations that the rules tell apart.              *)
(***************************************************************************)
EXTENDS TokenHelper

CONSTANTS long, short, q1, q2

Plainly  == [keys |-> <<long, short>>, scheme |-> "https", remote |-> TRUE,
             route |-> {}, asks |-> TRUE, slowBody |-> FALSE]
Local    == [Plainly EXCEPT !.scheme = "http", !.remote = FALSE]
OfShort  == [Plainly EXCEPT !.keys = <<short>>]

AllCalls ==
    {Plainly, OfShort, [Plainly EXCEPT !.slowBody = TRUE], [Plainly EXCEPT !.asks = FALSE],
     [Plainly EXCEPT !.scheme = "http"], Local,
     [Plainly EXCEPT !.route = {"proxy"}], [Local EXCEPT !.route = {"proxy"}],
     [Plainly EXCEPT !.route = {"cafile"}]}

ConfigOf(helperLong, helperShort, storedLong, storedShort, guard) ==
    [helper |-> [k \in RegKeys |-> IF k = long THEN helperLong ELSE helperShort],
     stored |-> [k \in RegKeys |-> IF k = long THEN storedLong ELSE storedShort],
     guard |-> guard]

AllConfigs ==
    {ConfigOf("program", "none", "auth", "none", FALSE),
     ConfigOf("program", "program", "none", "auth", FALSE),
     ConfigOf("none", "program", "certfile", "auth", FALSE),
     ConfigOf("none", "program", "auth", "none", FALSE),
     ConfigOf("none", "refused", "none", "auth", FALSE),
     ConfigOf("program", "none", "none", "auth", TRUE)}
=============================================================================
