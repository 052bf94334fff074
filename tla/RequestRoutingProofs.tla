------------------------- MODULE RequestRoutingProofs -------------------------
(* What RequestRouting promises for any number of handlers and endpoints,    *)
(* as long as Valkey answers.  The gate and the counter are two steps: what  *)
(* bounds the overshoot is that a handler uses an endpoint of its list once. *)
(* So each bound is shown together with the handlers that may still use the  *)
(* endpoint, its pending ones.                                               *)
EXTENDS RequestRouting, FiniteSetTheorems, TLAPS

\* The handlers that have e on their list and are not at it.
Pending(e) == {r \in Requests : e \in avail[r] /\ at[r] # e}

\* A handler is at an endpoint during a try, and only then.
FlowInv ==
    /\ pc \in [Requests -> {"idle", "listing", "choosing", "sending", "relaying", "done"}]
    /\ avail \in [Requests -> SUBSET Endpoints]
    /\ at \in [Requests -> Endpoints \cup {None}]
    /\ \A r \in Requests : pc[r] \in {"sending", "relaying"} <=> at[r] # None

CountInv ==
    /\ used \in [Endpoints -> Nat]
    /\ strays \in [Endpoints -> Nat]
    /\ limited \subseteq Endpoints

\* Once the counter is at the ceiling, the pending handlers are all that may
\* still pass it.
CapacityInv ==
    \A e \in Endpoints : Ceiling[e] # 0 =>
        \/ used[e] < Ceiling[e]
        \/ used[e] + Cardinality(Pending(e)) <= Ceiling[e] + Cardinality(Requests) - 1

StragglerInv ==
    \A e \in limited : strays[e] + Cardinality(Pending(e)) <= Cardinality(Requests)

RouteInv == FlowInv /\ CountInv /\ CapacityInv /\ StragglerInv

USE EndpointsAssumption, RequestsAssumption, LimitsAssumption

-----------------------------------------------------------------------------
(* Counting the pending handlers                                             *)

\* The pending handlers are finitely many, at most all of them.
LEMMA PendingFinite ==
    ASSUME NEW e
    PROVE  /\ IsFiniteSet(Pending(e))
           /\ Cardinality(Pending(e)) \in Nat
           /\ Cardinality(Requests) \in Nat
           /\ Cardinality(Pending(e)) <= Cardinality(Requests)
<1>1. Pending(e) \subseteq Requests
    BY DEF Pending
<1>2. QED
    BY <1>1, FS_Subset, FS_CardinalityType

\* Fewer handlers are no more.
LEMMA PendingShrinks ==
    ASSUME NEW e, Pending(e)' \subseteq Pending(e)
    PROVE  /\ Cardinality(Pending(e)') \in Nat
           /\ Cardinality(Pending(e)') <= Cardinality(Pending(e))
<1>1. IsFiniteSet(Pending(e))
    BY PendingFinite
<1>2. QED
    BY <1>1, FS_Subset, FS_CardinalityType

\* A handler that starts on an endpoint is no longer pending.
LEMMA PendingDrops ==
    ASSUME NEW e, NEW r \in Pending(e), Pending(e)' \subseteq Pending(e) \ {r}
    PROVE  /\ Cardinality(Pending(e)') \in Nat
           /\ Cardinality(Pending(e)') <= Cardinality(Pending(e)) - 1
<1>1. IsFiniteSet(Pending(e)) /\ IsFiniteSet(Pending(e) \ {r})
    BY PendingFinite, FS_RemoveElement
<1>2. Cardinality(Pending(e) \ {r}) = Cardinality(Pending(e)) - 1
    BY <1>1, FS_RemoveElement
<1>3. /\ IsFiniteSet(Pending(e)')
      /\ Cardinality(Pending(e)') <= Cardinality(Pending(e) \ {r})
    BY <1>1, FS_Subset
<1>4. QED
    BY <1>1, <1>2, <1>3, FS_CardinalityType

\* A handler at an endpoint is not pending there.
LEMMA PendingMissesOne ==
    ASSUME NEW e, NEW r \in Requests, r \notin Pending(e)
    PROVE  Cardinality(Pending(e)) <= Cardinality(Requests) - 1
<1>1. Pending(e) \subseteq Requests \ {r}
    BY DEF Pending
<1>2. /\ IsFiniteSet(Requests \ {r})
      /\ Cardinality(Requests \ {r}) = Cardinality(Requests) - 1
    BY FS_RemoveElement
<1>3. QED
    BY <1>1, <1>2, FS_Subset

-----------------------------------------------------------------------------
(* The list of a handler only shrinks, except while it is drawn up           *)

Shrinking == \A e \in Endpoints : Pending(e)' \subseteq Pending(e)

\* A handler that loses an endpoint is pending no more than before.
LEMMA LoseShrinks ==
    ASSUME FlowInv, NEW r \in Requests, NEW j, Lose(r, j)
    PROVE  FlowInv' /\ Shrinking
    BY DEF FlowInv, Lose, Shrinking, Pending

\* Nor is one whose request ends.
LEMMA FinishShrinks ==
    ASSUME FlowInv, NEW r \in Requests, NEW j, Finish(r, j)
    PROVE  FlowInv' /\ Shrinking
    BY DEF FlowInv, Finish, Shrinking, Pending

\* A step that leaves the store alone and adds nothing to a list keeps the
\* invariant.
LEMMA QuietStep ==
    ASSUME RouteInv, FlowInv', Shrinking, UNCHANGED store
    PROVE  RouteInv'
<1>1. CountInv'
    BY DEF RouteInv, CountInv, store
<1>2. CapacityInv'
  <2> SUFFICES ASSUME NEW e \in Endpoints, Ceiling[e] # 0, ~(used[e] < Ceiling[e])
               PROVE  used[e] + Cardinality(Pending(e)') <= Ceiling[e] + Cardinality(Requests) - 1
    BY DEF CapacityInv, store
  <2>1. /\ Cardinality(Pending(e)') \in Nat
        /\ Cardinality(Pending(e)') <= Cardinality(Pending(e))
    BY PendingShrinks DEF Shrinking
  <2>2. used[e] + Cardinality(Pending(e)) <= Ceiling[e] + Cardinality(Requests) - 1
    BY DEF RouteInv, CapacityInv
  <2>3. Cardinality(Pending(e)) \in Nat /\ Cardinality(Requests) \in Nat
    BY PendingFinite
  <2>4. used[e] \in Nat /\ Ceiling[e] \in Nat
    BY DEF RouteInv, CountInv
  <2>5. QED
    BY <2>1, <2>2, <2>3, <2>4
<1>3. StragglerInv'
  <2> SUFFICES ASSUME NEW e \in limited
               PROVE  strays[e] + Cardinality(Pending(e)') <= Cardinality(Requests)
    BY DEF StragglerInv, store
  <2>0. e \in Endpoints
    BY DEF RouteInv, CountInv
  <2>1. /\ Cardinality(Pending(e)') \in Nat
        /\ Cardinality(Pending(e)') <= Cardinality(Pending(e))
    BY <2>0, PendingShrinks DEF Shrinking
  <2>2. strays[e] + Cardinality(Pending(e)) <= Cardinality(Requests)
    BY DEF RouteInv, StragglerInv
  <2>3. Cardinality(Pending(e)) \in Nat /\ Cardinality(Requests) \in Nat
    BY PendingFinite
  <2>4. strays[e] \in Nat
    BY <2>0 DEF RouteInv, CountInv
  <2>5. QED
    BY <2>1, <2>2, <2>3, <2>4
<1>4. QED
    BY <1>1, <1>2, <1>3 DEF RouteInv

\* A signal: the pending handlers are all that may still use the endpoint.
LEMMA SignalStep ==
    ASSUME "store" \notin Faults, RouteInv, FlowInv', Shrinking,
           NEW e \in Endpoints, MarkLimited(e)
    PROVE  RouteInv'
<1>1. CountInv' /\ limited' = limited \cup {e} /\ UNCHANGED used
    BY DEF RouteInv, CountInv, MarkLimited
<1>2. CapacityInv'
  <2> SUFFICES ASSUME NEW f \in Endpoints, Ceiling[f] # 0, ~(used[f] < Ceiling[f])
               PROVE  used[f] + Cardinality(Pending(f)') <= Ceiling[f] + Cardinality(Requests) - 1
    BY <1>1 DEF CapacityInv
  <2>1. /\ Cardinality(Pending(f)') \in Nat
        /\ Cardinality(Pending(f)') <= Cardinality(Pending(f))
    BY PendingShrinks DEF Shrinking
  <2>2. used[f] + Cardinality(Pending(f)) <= Ceiling[f] + Cardinality(Requests) - 1
    BY DEF RouteInv, CapacityInv
  <2>3. Cardinality(Pending(f)) \in Nat /\ Cardinality(Requests) \in Nat
    BY PendingFinite
  <2>4. used[f] \in Nat /\ Ceiling[f] \in Nat
    BY DEF RouteInv, CountInv
  <2>5. QED
    BY <2>1, <2>2, <2>3, <2>4
<1>3. StragglerInv'
  <2> SUFFICES ASSUME NEW f \in limited'
               PROVE  strays'[f] + Cardinality(Pending(f)') <= Cardinality(Requests)
    BY DEF StragglerInv
  <2>0. f \in Endpoints
    BY <1>1 DEF CountInv
  <2>1. /\ Cardinality(Pending(f)') \in Nat
        /\ Cardinality(Pending(f)') <= Cardinality(Pending(f))
    BY <2>0, PendingShrinks DEF Shrinking
  <2>2. /\ Cardinality(Pending(f)) \in Nat /\ Cardinality(Requests) \in Nat
        /\ Cardinality(Pending(f)) <= Cardinality(Requests)
    BY PendingFinite
  <2>3. CASE f \in limited
    <3>1. strays'[f] = strays[f] /\ strays[f] \in Nat
        BY <2>0, <2>3 DEF MarkLimited, RouteInv, CountInv
    <3>2. strays[f] + Cardinality(Pending(f)) <= Cardinality(Requests)
        BY <2>3 DEF RouteInv, StragglerInv
    <3>3. QED
        BY <2>1, <2>2, <3>1, <3>2
  <2>4. CASE f \notin limited
    <3>1. strays'[f] = 0
        BY <1>1, <2>0, <2>4 DEF MarkLimited, RouteInv, CountInv
    <3>2. QED
        BY <2>1, <2>2, <3>1
  <2>5. QED
    BY <2>3, <2>4
<1>4. QED
    BY <1>1, <1>2, <1>3 DEF RouteInv

\* An endpoint joins a list only below its ceiling and free of limits.
LEMMA ConsiderStep ==
    ASSUME "store" \notin Faults, RouteInv,
           NEW r \in Requests, NEW e \in Endpoints, Consider(r, e)
    PROVE  RouteInv'
<1>1. FlowInv' /\ UNCHANGED store
    BY DEF Consider, RouteInv, FlowInv
<1>2. CASE avail' = avail
  <2>1. Shrinking
    BY <1>2 DEF Consider, Shrinking, Pending
  <2>2. QED
    BY <1>1, <2>1, QuietStep
<1>3. CASE Admitted(e) /\ avail' = [avail EXCEPT ![r] = @ \cup {e}]
  <2>1. e \notin limited /\ (Ceiling[e] # 0 => ~(used[e] >= Ceiling[e]))
    BY <1>3 DEF Admitted, AtCeiling
  <2>2. \A f \in Endpoints \ {e} : Pending(f)' = Pending(f)
    BY <1>3 DEF Consider, Pending, RouteInv, FlowInv
  <2>3. CountInv'
    BY <1>1 DEF RouteInv, CountInv, store
  <2>4. CapacityInv'
    <3> SUFFICES ASSUME NEW f \in Endpoints, Ceiling[f] # 0, ~(used[f] < Ceiling[f])
                 PROVE  used[f] + Cardinality(Pending(f)') <= Ceiling[f] + Cardinality(Requests) - 1
        BY <1>1 DEF CapacityInv, store
    <3>1. f # e
        BY <2>1 DEF RouteInv, CountInv
    <3>2. QED
        BY <2>2, <3>1 DEF RouteInv, CapacityInv
  <2>5. StragglerInv'
    BY <1>1, <2>1, <2>2 DEF RouteInv, CountInv, StragglerInv, store
  <2>6. QED
    BY <1>1, <2>3, <2>4, <2>5 DEF RouteInv
<1>4. QED
    BY <1>2, <1>3 DEF Consider

\* A try counts against the endpoint and takes its handler off the pending.
LEMMA AttemptStep ==
    ASSUME "store" \notin Faults, RouteInv, NEW r \in Requests, Attempt(r)
    PROVE  RouteInv'
<1>1. PICK e \in Endpoints :
        /\ e \in avail[r] /\ pc[r] = "choosing"
        /\ pc' = [pc EXCEPT ![r] = "sending"]
        /\ at' = [at EXCEPT ![r] = e]
        /\ used' = Counted(e)
        /\ strays' = IF e \in limited /\ strays[e] <= Cardinality(Requests)
                     THEN [strays EXCEPT ![e] = @ + 1] ELSE strays
        /\ UNCHANGED <<avail, limited>>
  <2>1. \A x \in Readable(r) : x \subseteq avail[r]
    BY DEF Readable
  <2>2. avail[r] \subseteq Endpoints
    BY DEF RouteInv, FlowInv
  <2>3. QED
    BY <2>1, <2>2 DEF Attempt, Choosing, BestTier
<1>2. at[r] = None
    BY <1>1 DEF RouteInv, FlowInv
<1>3. FlowInv'
    BY <1>1 DEF RouteInv, FlowInv
<1>4. /\ r \in Pending(e)
      /\ Pending(e)' \subseteq Pending(e) \ {r}
      /\ \A f \in Endpoints \ {e} : Pending(f)' = Pending(f)
    BY <1>1, <1>2 DEF Pending, RouteInv, FlowInv
<1>5. /\ Cardinality(Pending(e)') \in Nat
      /\ Cardinality(Pending(e)') <= Cardinality(Pending(e)) - 1
    BY <1>4, PendingDrops
<1>6. /\ Cardinality(Pending(e)) \in Nat /\ Cardinality(Requests) \in Nat
      /\ Cardinality(Pending(e)) <= Cardinality(Requests)
    BY PendingFinite
<1>7. /\ CountInv'
      /\ \A f \in Endpoints \ {e} : used'[f] = used[f] /\ strays'[f] = strays[f]
      /\ Ceiling[e] # 0 => used'[e] = used[e] + 1
      /\ e \in limited => strays'[e] <= strays[e] + 1 /\ strays'[e] \in Nat
      /\ used[e] \in Nat /\ strays[e] \in Nat /\ Ceiling[e] \in Nat
    BY <1>1 DEF RouteInv, CountInv, Counted
<1>8. CapacityInv'
  <2> SUFFICES ASSUME NEW f \in Endpoints, Ceiling[f] # 0, ~(used'[f] < Ceiling[f])
               PROVE  used'[f] + Cardinality(Pending(f)') <= Ceiling[f] + Cardinality(Requests) - 1
    BY DEF CapacityInv
  <2>1. CASE f # e
    BY <1>4, <1>7, <2>1 DEF RouteInv, CapacityInv
  <2>2. CASE f = e /\ used[e] < Ceiling[e]
    BY <1>5, <1>6, <1>7, <2>2
  <2>3. CASE f = e /\ ~(used[e] < Ceiling[e])
    <3>1. used[e] + Cardinality(Pending(e)) <= Ceiling[e] + Cardinality(Requests) - 1
        BY <2>3 DEF RouteInv, CapacityInv
    <3>2. QED
        BY <1>5, <1>6, <1>7, <2>3, <3>1
  <2>4. QED
    BY <2>1, <2>2, <2>3
<1>9. StragglerInv'
  <2> SUFFICES ASSUME NEW f \in limited
               PROVE  strays'[f] + Cardinality(Pending(f)') <= Cardinality(Requests)
    BY <1>1 DEF StragglerInv
  <2>0. f \in Endpoints
    BY DEF RouteInv, CountInv
  <2>1. strays[f] + Cardinality(Pending(f)) <= Cardinality(Requests)
    BY DEF RouteInv, StragglerInv
  <2>2. CASE f # e
    BY <1>4, <1>7, <2>0, <2>1, <2>2
  <2>3. CASE f = e
    BY <1>5, <1>6, <1>7, <2>1, <2>3
  <2>4. QED
    BY <2>2, <2>3
<1>10. QED
    BY <1>3, <1>7, <1>8, <1>9 DEF RouteInv

\* A new window, and the limits others set and lift.
LEMMA EndpointStepKeeps ==
    ASSUME "store" \notin Faults, RouteInv, NEW e \in Endpoints, EndpointStep(e)
    PROVE  RouteInv'
<1>1. FlowInv' /\ \A f : Pending(f)' = Pending(f)
    BY DEF EndpointStep, NewWindow, LimitedElsewhere, LimitLifted, RouteInv,
           FlowInv, Pending, flow
<1>2. CASE NewWindow(e)
    BY <1>1, <1>2 DEF NewWindow, RouteInv, CountInv, CapacityInv, StragglerInv
<1>3. CASE LimitedElsewhere(e)
  <2>1. CountInv' /\ CapacityInv'
    BY <1>1, <1>3 DEF LimitedElsewhere, RouteInv, CountInv, CapacityInv
  <2>2. StragglerInv'
    <3> SUFFICES ASSUME NEW f \in limited'
                 PROVE  strays'[f] + Cardinality(Pending(f)) <= Cardinality(Requests)
        BY <1>1 DEF StragglerInv
    <3>1. /\ Cardinality(Pending(f)) \in Nat
          /\ Cardinality(Pending(f)) <= Cardinality(Requests)
        BY PendingFinite
    <3>2. QED
        BY <1>3, <3>1 DEF LimitedElsewhere, RouteInv, CountInv, StragglerInv
  <2>3. QED
    BY <1>1, <2>1, <2>2 DEF RouteInv
<1>4. CASE LimitLifted(e)
    BY <1>1, <1>4 DEF LimitLifted, RouteInv, CountInv, CapacityInv, StragglerInv
<1>5. QED
    BY <1>2, <1>3, <1>4 DEF EndpointStep

-----------------------------------------------------------------------------
(* The invariant                                                             *)

\* Nothing is counted at first.
LEMMA InitRoute == Init => RouteInv
<1> SUFFICES ASSUME Init PROVE RouteInv
    OBVIOUS
<1>1. FlowInv /\ CountInv
    BY DEF Init, FlowInv, CountInv
<1>2. CapacityInv
    BY DEF Init, CapacityInv
<1>3. StragglerInv
    BY DEF Init, StragglerInv
<1>4. QED
    BY <1>1, <1>2, <1>3 DEF RouteInv

\* A handler, a relay and a client keep the invariant.
LEMMA HandlerKeeps ==
    ASSUME "store" \notin Faults, RouteInv, NEW r \in Requests,
           HandlerStep(r) \/ RelayStep(r) \/ ClientStep(r)
    PROVE  RouteInv'
<1>0. FlowInv /\ at[r] \in Endpoints \cup {None}
    BY DEF RouteInv, FlowInv
<1>1. CASE \E e \in Endpoints : Consider(r, e)
    BY <1>1, ConsiderStep
<1>2. CASE Attempt(r)
    BY <1>2, AttemptStep
<1>3. CASE \/ ContextOver(r) \/ NothingSuitable(r) \/ GiveUp(r) \/ Refuse(r)
           \/ Served(r) \/ DialUnanswered(r) \/ RelayEnds(r) \/ RelayDrops(r)
  <2>1. PICK j : Finish(r, j) /\ UNCHANGED store
    BY <1>3 DEF ContextOver, NothingSuitable, GiveUp, Refuse, Served,
                DialUnanswered, RelayEnds, RelayDrops
  <2>2. QED
    BY <1>0, <2>1, FinishShrinks, QuietStep
<1>4. CASE \/ EndpointFails(r) \/ CutShort(r) \/ BrokeOff(r) \/ UpgradeFails(r)
           \/ RelayFails(r)
  <2>1. PICK j : Lose(r, j) /\ UNCHANGED store
    BY <1>4 DEF EndpointFails, CutShort, BrokeOff, UpgradeFails, RelayFails
  <2>2. QED
    BY <1>0, <2>1, LoseShrinks, QuietStep
<1>5. CASE BadRequest(r)
  <2>1. /\ \E j : Lose(r, j) \/ Finish(r, j)
        /\ UNCHANGED store
    BY <1>5 DEF BadRequest
  <2>2. QED
    BY <1>0, <2>1, LoseShrinks, FinishShrinks, QuietStep
<1>6. CASE RateLimited(r) \/ EmbeddedLimit(r)
  <2>1. /\ \E j : Lose(r, j) \/ Finish(r, j)
        /\ MarkLimited(at[r]) /\ Sending(r)
    BY <1>6 DEF RateLimited, EmbeddedLimit
  <2>2. FlowInv' /\ Shrinking
    BY <1>0, <2>1, LoseShrinks, FinishShrinks
  <2>3. at[r] \in Endpoints
    BY <1>0, <2>1 DEF Sending, FlowInv
  <2>4. QED
    BY <2>1, <2>2, <2>3, SignalStep
<1>7. CASE EndListing(r)
  <2>1. CASE avail[r] = {} /\ Finish(r, Say(job[r], "503"))
    BY <1>0, <1>7, <2>1, FinishShrinks, QuietStep DEF EndListing
  <2>2. CASE pc' = [pc EXCEPT ![r] = "choosing"] /\ UNCHANGED <<todo, avail, at, ctx>>
    <3>1. FlowInv' /\ Shrinking
        BY <1>0, <1>7, <2>2 DEF EndListing, FlowInv, Shrinking, Pending
    <3>2. QED
        BY <1>7, <3>1, QuietStep DEF EndListing
  <2>3. QED
    BY <1>7, <2>1, <2>2 DEF EndListing
<1>8. CASE SkipPublic(r)
  <2>1. FlowInv' /\ Shrinking /\ UNCHANGED store
    <3>1. PICK e :
            /\ avail' = [avail EXCEPT ![r] = @ \ {e}]
            /\ UNCHANGED <<pc, at, store>>
        BY <1>8 DEF SkipPublic, BestTier
    <3>2. QED
        BY <1>0, <3>1 DEF FlowInv, Shrinking, Pending, store
  <2>2. QED
    BY <2>1, QuietStep
<1>9. CASE Upgrade(r)
  <2>1. FlowInv' /\ Shrinking /\ UNCHANGED store
    BY <1>0, <1>9 DEF Upgrade, Sending, FlowInv, Shrinking, Pending, store
  <2>2. QED
    BY <2>1, QuietStep
<1>10. CASE Arrive(r)
  <2>1. FlowInv' /\ Shrinking /\ UNCHANGED store
    BY <1>0, <1>10 DEF Arrive, FlowInv, Shrinking, Pending
  <2>2. QED
    BY <2>1, QuietStep
<1>11. CASE ContextEnds(r)
  <2>1. FlowInv' /\ Shrinking /\ UNCHANGED store
    BY <1>0, <1>11 DEF ContextEnds, FlowInv, Shrinking, Pending, store
  <2>2. QED
    BY <2>1, QuietStep
<1>12. QED
    BY <1>1, <1>2, <1>3, <1>4, <1>5, <1>6, <1>7, <1>8, <1>9, <1>10, <1>11
    DEF HandlerStep, RelayStep, ClientStep

\* It holds of every behaviour in which reads do not fail.
LEMMA RouteInvariant ==
    ASSUME "store" \notin Faults
    PROVE  Spec => []RouteInv
<1>1. ASSUME RouteInv, [Next]_vars
      PROVE  RouteInv'
  <2>1. CASE Next
    BY <1>1, <2>1, HandlerKeeps, EndpointStepKeeps DEF Next
  <2>2. CASE UNCHANGED vars
    <3>1. \A e : Pending(e)' = Pending(e)
        BY <2>2 DEF vars, Pending
    <3>2. QED
        BY <1>1, <2>2, <3>1 DEF vars, RouteInv, FlowInv, CountInv, CapacityInv, StragglerInv
  <2>3. QED
    BY <1>1, <2>1, <2>2
<1>2. QED
    BY <1>1, InitRoute, PTL DEF Spec

\* While Valkey answers, an endpoint's counter passes its ceiling by less
\* than the number of handlers, whatever the endpoints, the roles and the
\* retry limits are.
THEOREM CapacityCorrect ==
    ASSUME "store" \notin Faults
    PROVE  Spec => []CapacityHolds
<1>1. ASSUME RouteInv PROVE CapacityHolds
  <2> SUFFICES ASSUME NEW e \in Endpoints, Ceiling[e] # 0
               PROVE  used[e] <= Ceiling[e] + Cardinality(Requests) - 1
    BY DEF CapacityHolds
  <2>1. used[e] \in Nat /\ Ceiling[e] \in Nat
    BY <1>1 DEF RouteInv, CountInv
  <2>2. Cardinality(Pending(e)) \in Nat /\ Cardinality(Requests) \in Nat
    BY PendingFinite
  <2>3. Cardinality(Requests) >= 1
    BY <2>2, FS_EmptySet
  <2>4. \/ used[e] < Ceiling[e]
        \/ used[e] + Cardinality(Pending(e)) <= Ceiling[e] + Cardinality(Requests) - 1
    BY <1>1 DEF RouteInv, CapacityInv
  <2>5. QED
    BY <2>1, <2>2, <2>3, <2>4
<1>2. QED
    BY <1>1, RouteInvariant, PTL

\* While Valkey answers, an endpoint marked as rate limited is tried at most
\* once more by each handler before the limit is lifted.
THEOREM StragglersCorrect ==
    ASSUME "store" \notin Faults
    PROVE  Spec => []StragglersBounded
<1>1. ASSUME RouteInv PROVE StragglersBounded
  <2> SUFFICES ASSUME NEW e \in limited
               PROVE  strays[e] <= Cardinality(Requests)
    BY DEF StragglersBounded
  <2>1. strays[e] \in Nat
    BY <1>1 DEF RouteInv, CountInv
  <2>2. Cardinality(Pending(e)) \in Nat /\ Cardinality(Requests) \in Nat
    BY PendingFinite
  <2>3. strays[e] + Cardinality(Pending(e)) <= Cardinality(Requests)
    BY <1>1 DEF RouteInv, StragglerInv
  <2>4. QED
    BY <2>1, <2>2, <2>3
<1>2. QED
    BY <1>1, RouteInvariant, PTL
===========================================================================
