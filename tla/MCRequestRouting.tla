--------------------------- MODULE MCRequestRouting ---------------------------
(* Instances of RequestRouting for TLC: a handful of endpoints, one or two   *)
(* handlers.                                                                 *)
EXTENDS RequestRouting, TLC

CONSTANTS p1, p2, a1, f1, r1, r2

AllRoles ==
    (p1 :> "public" @@ p2 :> "public" @@ a1 :> "primary" @@ f1 :> "fallback")

TwoPublics == (p1 :> "public" @@ p2 :> "public")
PrimaryAndFallback == (a1 :> "primary" @@ f1 :> "fallback")

NoCeilings == [e \in Endpoints |-> 0]
OneOnP1 == (p1 :> 1 @@ p2 :> 0)

\* With faults of the store a listing may overlook every limit and every
\* count, so what becomes of one request depends on neither.
OneRequest == flow
===============================================================================
