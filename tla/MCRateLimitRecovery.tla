-------------------------- MODULE MCRateLimitRecovery --------------------------
(* Instances of RateLimitRecovery for TLC: who lives where, and the numbers  *)
(* small enough to enumerate, large enough to escalate and to run out.       *)
EXTENDS RateLimitRecovery, TLC

CONSTANTS r1, r2, h1, h2, m1, m2, m3, c1

OneHandler == [p \in {h1, m1, m2} |-> r1]
OnlyMonitor == (m1 :> r1)
TwoReplicas == (h1 :> r1 @@ h2 :> r2 @@ m1 :> r1 @@ m2 :> r1 @@ m3 :> r2)

\* No hint, and a daily quota or Retry-After beyond max_backoff.
TwoSeeds == {0, 5}
NoHint == {0}

\* The safety of the record does not depend on the history variables.
WithoutHistory == <<store, phase, active, handlerVars, mpc, mst>>
===============================================================================
