--------------------------- MODULE MCEndpointHealth ---------------------------
(* Instances of EndpointHealth for TLC: a checker with a sweep or two, or    *)
(* two loops for a protocol, and one or two balancers.                       *)
EXTENDS EndpointHealth, TLC

CONSTANTS boot, s1, s2, l1, l2, b1, b2, h1, h2

HttpLoops == (l1 :> "http" @@ l2 :> "http")
NoLoops == [l \in {} |-> "http"]

OneHost == [h \in Handlers |-> b1]
TwoHosts == (h1 :> b1 @@ h2 :> b2)
===============================================================================
