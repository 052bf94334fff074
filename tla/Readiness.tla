------------------------------- MODULE Readiness -------------------------------
(* Who says "ready" and when: the start of both programs, the first round of *)
(* checks, the /ready of the health checker and the /ready of the load       *)
(* balancer, which asks the former and grants it a grace period.             *)
(* services/*/main.go, Checker.Start and checkAllEndpointsAndWait of         *)
(* internal/health/checker.go, handleReady of internal/health/server.go and  *)
(* handleReadinessCheck of internal/server/server.go.                        *)
(*                                                                           *)
(* Ages stand for timestamps: seconds since, counted up to where nobody asks *)
(* any further, or None.                                                     *)
EXTENDS Integers, FiniteSets

CONSTANTS
    Endpoints,
    Probers,       \* requests to the load balancer's /ready, each one after another
    Deployments,   \* subset of {"integrated", "standalone"}
    Intervals,     \* HEALTH_CHECK_INTERVAL: a subset of {"zero", "some"}
    Concurrency,   \* HEALTH_CHECK_CONCURRENCY
    Grace,         \* HEALTH_CHECKER_GRACE_PERIOD
    CallTimeout,   \* of healthCheckClient
    MaxFaults,     \* bound: crashes, failures and calls cut short in a behaviour
    None

ASSUME ReadinessAssumption ==
    /\ IsFiniteSet(Endpoints) /\ Endpoints # {} /\ Probers # {}
    /\ Deployments \subseteq {"integrated", "standalone"}
    /\ Intervals \subseteq {"zero", "some"}
    /\ Concurrency \in Nat \ {0} /\ Grace \in Nat /\ CallTimeout \in Nat
    /\ MaxFaults \in Nat /\ None \notin Nat

VARIABLES
    conf,       \* how the programs are deployed
    budget,     \* faults that may still happen
    valkey,     \* it answers
    checker,    \* the process or, integrated, the goroutine that checks
    check,      \* the goroutine of each endpoint in the first round
    balancer,
    passed,     \* initialCheckPassed
    failure,    \* age of hcFailureTimestamp, None when it is zero
    probe,      \* each /ready: where it is, what it was told, its call's age
    said,       \* the last answer of the load balancer
    vouched,    \* history: a checker of this balancer's time had checked all
    away,       \* history: age of the time the checker stopped being ready
    missed,     \* history: age of the first refusal that no late answer undoes
    granted     \* history: age of the last answer on a checker that was ready

vars == <<conf, budget, valkey, checker, check, balancer, passed, failure,
          probe, said, vouched, away, missed, granted>>
serving == <<passed, failure, probe, said>>
history == <<vouched, away, missed, granted>>

Idle == [at |-> "idle", ready |-> FALSE, age |-> 0]

Age(n) == 0..n \cup {None}

\* A place in the semaphore is not given back.
Checking_Leaks == {e \in Endpoints : check[e] # "waiting"}
Checking == {e \in Endpoints : check[e] = "checking"}

\* With it, that no more checks run at a time than HEALTH_CHECK_CONCURRENCY.
TypeOK ==
    /\ conf \in [deployment : Deployments, interval : Intervals]
    /\ budget \in 0..MaxFaults /\ valkey \in BOOLEAN
    /\ checker \in {"off", "loading", "checking", "resting", "ready"}
    /\ check \in [Endpoints -> {"waiting", "checking", "done"}]
    /\ Cardinality(Checking) <= Concurrency
    /\ balancer \in {"off", "waiting", "serving"}
    /\ passed \in BOOLEAN /\ failure \in Age(Grace)
    /\ probe \in [Probers -> [at : {"idle", "ping", "ask", "decide"},
                              ready : BOOLEAN, age : 0..CallTimeout]]
    /\ said \in {"nothing", "ready", "no valkey", "not yet", "no longer"}
    /\ vouched \in BOOLEAN
    /\ away \in Age(CallTimeout + 1) /\ missed \in Age(Grace) /\ granted \in Age(Grace)

Integrated == conf.deployment = "integrated"
Periodic == conf.interval = "some"

Unchecked == [e \in Endpoints |-> "waiting"]
AllDone == \A e \in Endpoints : check[e] = "done"

Init ==
    /\ conf \in [deployment : Deployments, interval : Intervals]
    /\ budget = MaxFaults /\ valkey = TRUE
    /\ checker = "off" /\ check = Unchecked
    /\ balancer = "off" /\ passed = FALSE /\ failure = None
    /\ probe = [p \in Probers |-> Idle]
    /\ said = "nothing"
    /\ vouched = FALSE /\ away = CallTimeout + 1 /\ missed = None /\ granted = None

-------------------------------------------------------------------------------
(* The checker.                                                              *)

\* RunHealthChecker: the HTTP server is up, and has no checker yet.
StartChecker ==
    /\ ~Integrated /\ checker = "off"
    /\ checker' = "loading"
    /\ UNCHANGED <<conf, budget, valkey, check, balancer, serving, history>>

\* The server gets its checker, unless Valkey does not answer.  Without an
\* interval the first round is left out, and isReady with it.
Load ==
    /\ checker = "loading"
    /\ checker' = IF ~valkey THEN "off" ELSE IF Periodic THEN "checking" ELSE "resting"
    /\ check' = Unchecked
    /\ UNCHANGED <<conf, budget, valkey, balancer, serving, history>>

\* The semaphore lets Concurrency of them through.
BeginCheck_OneMore(e) ==
    /\ checker = "checking" /\ check[e] = "waiting"
    /\ Cardinality(Checking) <= Concurrency
    /\ check' = [check EXCEPT ![e] = "checking"]
    /\ UNCHANGED <<conf, budget, valkey, checker, balancer, serving, history>>

BeginCheck(e) ==
    /\ checker = "checking" /\ check[e] = "waiting"
    /\ Cardinality(Checking) < Concurrency
    /\ check' = [check EXCEPT ![e] = "checking"]
    /\ UNCHANGED <<conf, budget, valkey, checker, balancer, serving, history>>

\* Whatever the check found, or skipped.
EndCheck(e) ==
    /\ checker = "checking" /\ check[e] = "checking"
    /\ check' = [check EXCEPT ![e] = "done"]
    /\ UNCHANGED <<conf, budget, valkey, checker, balancer, serving, history>>

BecomesReady ==
    /\ checker' = "ready"
    /\ vouched' = (vouched \/ (AllDone /\ balancer # "off"))
    /\ away' = None /\ missed' = None
    /\ UNCHANGED <<conf, budget, valkey, check, balancer, serving, granted>>

\* checkAllEndpoints in place of checkAllEndpointsAndWait.
FirstRoundEnds_Unwaited ==
    /\ checker = "checking" /\ \A e \in Endpoints : check[e] # "waiting"
    /\ BecomesReady

FirstRoundEnds ==
    /\ checker = "checking" /\ AllDone
    /\ BecomesReady

-------------------------------------------------------------------------------
(* The load balancer starts.                                                 *)

\* Integrated, it starts the checker and waits for the first round.
StartBalancer ==
    /\ balancer = "off" /\ valkey
    /\ IF Integrated /\ Periodic
       THEN /\ balancer' = "waiting" /\ checker' = "checking" /\ check' = Unchecked
       ELSE /\ balancer' = "serving" /\ UNCHANGED <<checker, check>>
    /\ vouched' = (~Integrated /\ checker = "ready" /\ AllDone)
    /\ UNCHANGED <<conf, budget, valkey, serving, away, missed, granted>>

\* WaitForInitialCheck returns; the checker is handed to the server.
StartServing ==
    /\ balancer = "waiting" /\ checker = "ready"
    /\ balancer' = "serving"
    /\ UNCHANGED <<conf, budget, valkey, checker, check, serving, history>>

-------------------------------------------------------------------------------
(* The load balancer's /ready.                                               *)

Goes(p, where) == probe' = [probe EXCEPT ![p].at = where]
Answered(p, answer) ==
    /\ said' = answer
    /\ probe' = [probe EXCEPT ![p] = Idle]

Arrive(p) ==
    /\ balancer = "serving" /\ probe[p].at = "idle"
    /\ Goes(p, "ping")
    /\ UNCHANGED <<conf, budget, valkey, checker, check, balancer, passed, failure,
                   said, history>>

\* The balancer's own connection comes first; then the checker is asked.
Ping(p) ==
    /\ probe[p].at = "ping"
    /\ IF valkey THEN Goes(p, "ask") /\ UNCHANGED said
       ELSE Answered(p, "no valkey")
    /\ UNCHANGED <<conf, budget, valkey, checker, check, balancer, passed, failure,
                   history>>

Learns(p, ready) ==
    probe' = [probe EXCEPT ![p].at = "decide", ![p].ready = ready]

\* IsReady, directly or through the checker's /ready; a checker that is not
\* there refuses.  An integrated balancer without an interval has none.
Ask(p) ==
    /\ probe[p].at = "ask"
    /\ Learns(p, checker = "ready")
    /\ UNCHANGED <<conf, budget, valkey, checker, check, balancer, passed, failure,
                   said, history>>

\* No answer within the timeout, or the prober hangs up.
AskInVain(p) ==
    /\ probe[p].at = "ask" /\ ~Integrated /\ budget > 0
    /\ budget' = budget - 1
    /\ Learns(p, FALSE)
    /\ UNCHANGED <<conf, valkey, checker, check, balancer, passed, failure, said,
                   history>>

\* The checker is ready: its failures are forgotten.
Confirms(p) ==
    /\ passed' = TRUE
    /\ failure' = None
    /\ Answered(p, "ready")
    /\ granted' = 0
    /\ UNCHANGED <<vouched, away, missed>>

\* A refusal counts once any answer from before is out of time.
Misses ==
    IF missed = None /\ away \notin Age(CallTimeout) THEN 0 ELSE missed

NeverPassed(p) ==
    /\ Answered(p, "not yet")
    /\ UNCHANGED <<passed, failure, history>>

Elapsed == IF failure = None THEN 0 ELSE failure

\* Every failure starts the grace period again.
InGrace_Restarts(p) ==
    /\ failure' = 0
    /\ Answered(p, IF 0 < Grace THEN "ready" ELSE "no longer")
    /\ missed' = Misses
    /\ UNCHANGED <<passed, vouched, away, granted>>

\* The first failure starts the grace period.
InGrace(p) ==
    /\ failure' = Elapsed
    /\ Answered(p, IF Elapsed < Grace THEN "ready" ELSE "no longer")
    /\ missed' = Misses
    /\ UNCHANGED <<passed, vouched, away, granted>>

\* A checker that is ready again leaves the timestamp of its last failure.
Decide_Remembers(p) ==
    /\ probe[p].at = "decide"
    /\ IF probe[p].ready
       THEN passed' = TRUE /\ failure' = failure /\ Answered(p, "ready") /\ granted' = 0
            /\ UNCHANGED <<vouched, away, missed>>
       ELSE IF passed THEN InGrace(p) ELSE NeverPassed(p)
    /\ UNCHANGED <<conf, budget, valkey, checker, check, balancer>>

\* Under hcFailureMu.
Decide(p) ==
    /\ probe[p].at = "decide"
    /\ IF probe[p].ready THEN Confirms(p)
       ELSE IF passed THEN InGrace(p)
       ELSE NeverPassed(p)
    /\ UNCHANGED <<conf, budget, valkey, checker, check, balancer>>

-------------------------------------------------------------------------------
(* Time and faults.                                                          *)

Older(age, n) == IF age = None \/ age = n THEN age ELSE age + 1

InCall(p) == probe[p].at \in {"ask", "decide"}

\* A call is over before its timeout.
Tick ==
    /\ \A p \in Probers : InCall(p) => probe[p].age < CallTimeout
    /\ probe' = [p \in Probers |-> IF InCall(p) THEN [probe[p] EXCEPT !.age = @ + 1]
                                   ELSE probe[p]]
    /\ failure' = Older(failure, Grace)
    /\ away' = Older(away, CallTimeout + 1)
    /\ missed' = Older(missed, Grace) /\ granted' = Older(granted, Grace)
    /\ UNCHANGED <<conf, budget, valkey, checker, check, balancer, passed, said, vouched>>

Spend == budget > 0 /\ budget' = budget - 1

GoesAway == away' = IF checker = "ready" THEN 0 ELSE away

CheckerCrashes ==
    /\ Spend /\ ~Integrated /\ checker # "off"
    /\ checker' = "off"
    /\ GoesAway
    /\ UNCHANGED <<conf, valkey, check, balancer, serving, vouched, missed, granted>>

\* Its memory goes, and with it an integrated checker.
BalancerCrashes ==
    /\ Spend /\ balancer # "off"
    /\ balancer' = "off" /\ passed' = FALSE /\ failure' = None
    /\ probe' = [p \in Probers |-> Idle] /\ said' = "nothing"
    /\ vouched' = FALSE /\ missed' = None /\ granted' = None
    /\ IF Integrated THEN checker' = "off" /\ GoesAway ELSE UNCHANGED <<checker, away>>
    /\ UNCHANGED <<conf, valkey, check>>

ValkeyFails ==
    /\ Spend /\ valkey /\ valkey' = FALSE
    /\ UNCHANGED <<conf, checker, check, balancer, serving, history>>

ValkeyReturns ==
    /\ ~valkey /\ valkey' = TRUE
    /\ UNCHANGED <<conf, budget, checker, check, balancer, serving, history>>

-------------------------------------------------------------------------------

CheckerStep ==
    \/ Load \/ FirstRoundEnds
    \/ \E e \in Endpoints : BeginCheck(e) \/ EndCheck(e)

ProbeStep(p) == Arrive(p) \/ Ping(p) \/ Ask(p) \/ Decide(p)

Faults ==
    \/ CheckerCrashes \/ BalancerCrashes \/ ValkeyFails
    \/ \E p \in Probers : AskInVain(p)

Next ==
    \/ StartChecker \/ StartBalancer \/ StartServing
    \/ CheckerStep
    \/ \E p \in Probers : ProbeStep(p)
    \/ Tick \/ ValkeyReturns
    \/ Faults

Spec == Init /\ [][Next]_vars

\* The programs run, time passes, a check ends at its timeouts, and /ready is
\* asked again and again.  Whether a program that has ended is started again
\* is left to the deployment.
FairSpec ==
    /\ Spec
    /\ WF_vars(CheckerStep) /\ WF_vars(StartServing) /\ WF_vars(Tick)
    /\ \A p \in Probers : WF_vars(ProbeStep(p))

-------------------------------------------------------------------------------
(* Properties.                                                               *)

Decides(p) == probe[p].at = "decide" /\ probe'[p].at = "idle" /\ balancer' # "off"

\* The load balancer is ready only after a checker that ran in its own time
\* has checked every endpoint, whoever was restarted in between.
ReadyNeedsAChecker == said = "ready" => vouched

\* A checker that is gone is covered for Grace seconds from the first
\* refusal, however many probes ask meanwhile and in whichever order their
\* answers come.
GraceRunsOut ==
    [][\A p \in Probers :
          Decides(p) /\ said' = "ready" => missed = None \/ missed < Grace]_vars

\* A load balancer that has called itself ready on the word of its checker
\* takes that back no sooner than Grace seconds later.
GraceIsGranted ==
    [][\A p \in Probers :
          Decides(p) /\ said' = "no longer" => granted = None \/ granted >= Grace]_vars

\* With periodic checks a load balancer gets ready, and stays so, once both
\* programs and Valkey stay up.
GetsReady ==
    Periodic /\ <>[](valkey /\ balancer # "off" /\ (Integrated \/ checker # "off"))
        => <>[](said = "ready")
===============================================================================
