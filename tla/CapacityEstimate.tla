--------------------------- MODULE CapacityEstimate ---------------------------
(* The learned capacity ceiling of one endpoint without a static one         *)
(* (internal/store/capacity_estimate.go): every rate-limit signal may halve  *)
(* it, time lets it grow, and requests are gated and counted against it      *)
(* (effectiveCapacityCeiling, capacityWindowSeconds and recordCapacityUsage  *)
(* of internal/server/server.go).  The estimate and the counters are in      *)
(* Valkey, read and written by request handlers of any number of load        *)
(* balancers and by the probes of the checker, one call at a time.  Each     *)
(* process has the configuration it was started with, which a rolling update *)
(* changes for one after the other.                                          *)
(* Time is in seconds, and the clocks of the processes agree.                *)
EXTENDS Integers, FiniteSets

CONSTANTS
    Handlers,          \* request handlers, one request at a time
    Checkers,          \* checker tasks: their probes are not counted
    Processes,         \* load balancers and checkers
    Home,              \* the process of each handler and task
    Windows,           \* window_seconds the configuration may say
    FactorNum,         \* decrease_factor, as a fraction: it is below 1
    FactorDen,
    IncreaseInterval,  \* increase_interval
    MinEstimate,       \* min_estimate
    CallTimeout,       \* of the calls one signal leads to
    Faults,            \* subset of {"valkey"}
    MaxTime,           \* bound: the clock
    MaxDeploys,        \* bound: restarts of a process with a new configuration
    MaxCount,          \* bound: requests counted in a window
    None

Actors == Handlers \cup Checkers

ASSUME LearningAssumption ==
    /\ Windows \subseteq Nat \ {0}
    /\ FactorNum \in Nat \ {0} /\ FactorDen \in Nat /\ FactorNum < FactorDen
    /\ IncreaseInterval \in Nat \ {0} /\ MinEstimate \in Nat \ {0}
    /\ CallTimeout \in Nat
    /\ MaxTime \in Nat /\ MaxDeploys \in Nat /\ MaxCount \in Nat

ASSUME ActorsAssumption ==
    /\ IsFiniteSet(Handlers) /\ Handlers # {} /\ Handlers \cap Checkers = {}
    /\ Home \in [Actors -> Processes]

VARIABLES
    now,
    conf,     \* the window each process was started with
    deploys,  \* restarts left
    est,      \* the CapacityEstimate in Valkey
    count,    \* requests counted in the running window of each width
    job,      \* what each actor is doing, and what it has read so far
    trail,    \* history: when the decreases that est compounds were decided
    basis,    \* history: the same of the estimate each actor has read
    top,      \* history: the highest ceiling of the running window, if known
    since,    \* history: since when est has had the window it has
    raced     \* history: whether a write has ever replaced its window

vars == <<now, conf, deploys, est, count, job, trail, basis, top, since, raced>>
history == <<trail, since, raced>>

\* HasEstimate is FALSE exactly for None.
Estimate == [max : {n \in Nat : n >= MinEstimate}, step : Nat \ {0},
             window : Windows, at : Nat]

ASSUME NothingAssumption == None \notin Estimate /\ None \notin Nat

Idle == [at |-> "idle", read |-> None, ceiling |-> None, window |-> None,
         began |-> 0, seen |-> 0, blind |-> FALSE]

Jobs == [at : {"idle", "gate", "resolve", "count", "sent", "learn", "weigh", "write"},
         read : Estimate \cup {None}, ceiling : Nat \cup {None},
         window : Windows \cup {None}, began : Nat, seen : Nat, blind : BOOLEAN]

TypeOK ==
    /\ now \in 0..MaxTime /\ conf \in [Processes -> Windows]
    /\ deploys \in 0..MaxDeploys
    /\ est \in Estimate \cup {None}
    /\ count \in [Windows -> Nat]
    /\ job \in [Actors -> Jobs]
    /\ trail \subseteq Nat /\ basis \in [Actors -> SUBSET Nat]
    /\ top \in Nat \cup {None} /\ since \in Nat /\ raced \in BOOLEAN

Init ==
    /\ now = 0 /\ deploys = MaxDeploys
    /\ \E w \in Windows : conf = [p \in Processes |-> w]
    /\ est = None
    /\ count = [w \in Windows |-> 0]
    /\ job = [a \in Actors |-> Idle]
    /\ trail = {} /\ basis = [a \in Actors |-> {}]
    /\ top = None /\ since = 0 /\ raced = FALSE

-------------------------------------------------------------------------------
(* The arithmetic.                                                           *)

Larger(m, n) == IF m < n THEN n ELSE m
Smaller(m, n) == IF m < n THEN m ELSE n

\* EffectiveMaxRequests
Effective(r, t) ==
    IF t > r.at THEN r.max + ((t - r.at) \div IncreaseInterval) * r.step ELSE r.max

Ceiling(r, t) == IF r = None THEN None ELSE Effective(r, t)

\* What a process is configured with, whatever the estimate says.
WindowOf_Live(a, r) == conf[Home[a]]

\* The window an actor works with, given the estimate it has read.
WindowOf(a, r) == IF r = None THEN conf[Home[a]] ELSE r.window

Cooled_Short(r, window, t) == r = None \/ t - r.at >= window - 1

\* ShouldApplyCapacityDecrease
Cooled(r, window, t) == r = None \/ t - r.at >= window

Reduced_Unfloored(n) == (n * FactorNum) \div FactorDen

Reduced(n) == Larger(MinEstimate, (n * FactorNum) \div FactorDen)

\* ApplyCapacityDecrease
Decreased(r, seen, window, t) ==
    LET base == IF r = None THEN seen ELSE Smaller(Effective(r, t), seen)
        newMax == Reduced(base)
    IN [max |-> newMax, step |-> Larger(1, newMax \div 10), window |-> window, at |-> t]

-------------------------------------------------------------------------------
(* A request: the endpoint is gated when the handler draws up its list, and  *)
(* counted when it is dispatched.                                            *)

Becomes(a, j) == job' = [job EXCEPT ![a] = j]

\* Nothing is known any more of how many may pass in this window.
Loosens(blind) == top' = IF blind THEN None ELSE top

\* effectiveCapacityCeiling: no estimate, no ceiling; nor one that cannot be read.
ReadCeiling(h, blind) ==
    /\ job[h].at = "idle"
    /\ blind => "valkey" \in Faults
    /\ LET r == IF blind THEN None ELSE est IN
       Becomes(h, [Idle EXCEPT !.at = "gate", !.ceiling = Ceiling(r, now),
                               !.window = WindowOf(h, r)])
    /\ Loosens(blind)
    /\ UNCHANGED <<now, conf, deploys, est, count, basis, history>>

Below_OneMore(h) == count[job[h].window] <= job[h].ceiling

Below(h) == count[job[h].window] < job[h].ceiling

\* The count of the running window decides; one that cannot be read admits.
Gate(h, blind) ==
    LET j == job[h] IN
    /\ j.at = "gate"
    /\ blind => "valkey" \in Faults /\ j.ceiling # None
    /\ IF j.ceiling = None \/ blind \/ Below(h)
       THEN Becomes(h, [Idle EXCEPT !.at = "resolve"])
       ELSE Becomes(h, Idle)
    /\ Loosens(blind)
    /\ UNCHANGED <<now, conf, deploys, est, count, basis, history>>

Resolve_Live(h, blind) ==
    /\ job[h].at = "resolve"
    /\ blind => "valkey" \in Faults
    /\ Becomes(h, [Idle EXCEPT !.at = "count", !.blind = blind, !.began = now,
                               !.window = conf[Home[h]]])
    /\ Loosens(blind)
    /\ UNCHANGED <<now, conf, deploys, est, count, basis, history>>

\* capacityWindowSeconds: the estimate is read once more.
Resolve(h, blind) ==
    /\ job[h].at = "resolve"
    /\ blind => "valkey" \in Faults
    /\ Becomes(h, [Idle EXCEPT !.at = "count", !.blind = blind, !.began = now,
                               !.window = WindowOf(h, IF blind THEN None ELSE est)])
    /\ Loosens(blind)
    /\ UNCHANGED <<now, conf, deploys, est, count, basis, history>>

\* The counter is incremented, or the failure logged; the request goes out.
Count(h) ==
    LET w == job[h].window IN
    /\ job[h].at = "count" /\ count[w] < MaxCount
    /\ \/ count' = [count EXCEPT ![w] = @ + 1]
       \/ "valkey" \in Faults /\ count' = count
    /\ Becomes(h, [Idle EXCEPT !.at = "sent"])
    /\ UNCHANGED <<now, conf, deploys, est, basis, top, history>>

\* The provider serves it, or says no in a way that teaches nothing.
Answered(h) ==
    /\ job[h].at = "sent"
    /\ Becomes(h, Idle)
    /\ UNCHANGED <<now, conf, deploys, est, count, basis, top, history>>

-------------------------------------------------------------------------------
(* A rate-limit signal: ApplyLearnedCapacityDecreaseIfEligible.              *)

Hit(a) ==
    /\ job[a].at = IF a \in Handlers THEN "sent" ELSE "idle"
    /\ Becomes(a, [Idle EXCEPT !.at = "learn", !.began = now])
    /\ UNCHANGED <<now, conf, deploys, est, count, basis, top, history>>

InTime(a) == now - job[a].began <= CallTimeout

\* The estimate is read, and left alone within a window of its last decrease.
ReadEstimate(a) ==
    LET j == job[a] IN
    /\ j.at = "learn" /\ InTime(a)
    /\ IF Cooled(est, WindowOf(a, est), j.began)
       THEN /\ Becomes(a, [j EXCEPT !.at = "weigh", !.read = est])
            /\ basis' = [basis EXCEPT ![a] = trail]
       ELSE Becomes(a, Idle) /\ UNCHANGED basis
    /\ UNCHANGED <<now, conf, deploys, est, count, top, history>>

ReadCount(a) ==
    LET j == job[a] IN
    /\ j.at = "weigh" /\ InTime(a)
    /\ Becomes(a, [j EXCEPT !.at = "write", !.seen = count[WindowOf(a, j.read)]])
    /\ UNCHANGED <<now, conf, deploys, est, count, basis, top, history>>

\* The last write wins, be it a first one with another window.
Write(a) ==
    LET j == job[a]
        new == Decreased(j.read, j.seen, WindowOf(a, j.read), j.began)
        same == est # None /\ est.window = new.window
    IN
    /\ j.at = "write" /\ InTime(a)
    /\ est' = new
    /\ trail' = basis[a] \cup {j.began}
    /\ basis' = [basis EXCEPT ![a] = {}]
    /\ top' = IF same /\ top # None THEN Larger(top, Effective(new, now)) ELSE None
    /\ since' = IF same THEN since ELSE now
    /\ raced' = (raced \/ (est # None /\ ~same))
    /\ Becomes(a, Idle)
    /\ UNCHANGED <<now, conf, deploys, count>>

\* A call fails, or the time for all of them is over.
GiveUp(a) ==
    /\ job[a].at \in {"learn", "weigh", "write"}
    /\ "valkey" \in Faults \/ ~InTime(a)
    /\ Becomes(a, Idle)
    /\ basis' = [basis EXCEPT ![a] = {}]
    /\ UNCHANGED <<now, conf, deploys, est, count, top, history>>

-------------------------------------------------------------------------------

\* A second passes; where a window ends the next one has a counter of its own
\* (capacityBucketKey).
Tick ==
    /\ now < MaxTime
    /\ now' = now + 1
    /\ count' = [w \in Windows |-> IF now' % w = 0 THEN 0 ELSE count[w]]
    /\ top' = IF est = None THEN None
              ELSE IF now' % est.window = 0 THEN Effective(est, now')
              ELSE IF top = None THEN None ELSE Larger(top, Effective(est, now'))
    /\ UNCHANGED <<conf, deploys, est, job, basis, history>>

\* One process is stopped, at whatever its handlers and tasks are, and
\* started with another configuration, while the others go on.
Redeploy(p) ==
    /\ deploys > 0
    /\ deploys' = deploys - 1
    /\ \E w \in Windows : conf' = [conf EXCEPT ![p] = w]
    /\ job' = [a \in Actors |-> IF Home[a] = p THEN Idle ELSE job[a]]
    /\ basis' = [a \in Actors |-> IF Home[a] = p THEN {} ELSE basis[a]]
    /\ UNCHANGED <<now, est, count, top, history>>

Next ==
    \/ \E h \in Handlers, blind \in BOOLEAN :
          ReadCeiling(h, blind) \/ Gate(h, blind) \/ Resolve(h, blind)
    \/ \E h \in Handlers : Count(h) \/ Answered(h)
    \/ \E a \in Actors : Hit(a) \/ ReadEstimate(a) \/ ReadCount(a) \/ Write(a) \/ GiveUp(a)
    \/ Tick
    \/ \E p \in Processes : Redeploy(p)

Spec == Init /\ [][Next]_vars

-------------------------------------------------------------------------------
(* Properties.                                                               *)

\* First writes of processes with different configurations may race, and then
\* the later one replaces the window.  But a window older than the calls of
\* one signal may take stands for ever, whatever any process is configured
\* with by then and however the decreases race.
WindowFrozen ==
    [][est # None /\ now - since > CallTimeout
         => est' # None /\ est'.window = est.window]_vars

\* A request whose handler could read is counted where the gate looks: always
\* if the handler asked after the second in which the window was set, and
\* otherwise unless its process was configured with another window than the
\* first estimate got, or a racing first write has replaced that one.
CountsWhereWatched ==
    \A h \in Handlers :
        /\ job[h].at = "count" /\ ~job[h].blind /\ est # None
        /\ since < job[h].began \/ (~raced /\ conf[Home[h]] = est.window)
        => job[h].window = est.window

\* One episode costs one decrease: those that the estimate compounds are a
\* window apart, even if several processes decide on one at once.
DecreasesAreSpaced ==
    est # None =>
        \A s, t \in trail : s < t => t - s >= est.window

\* A learned ceiling holds as well as a fixed one: it is passed by less than
\* the number of handlers, if it is known for the whole of a window that no
\* racing write replaces.
LearnedCeilingHolds ==
    est # None /\ top # None =>
        count[est.window] < top + Cardinality(Handlers)
===============================================================================
