--------------------------- MODULE RateLimitRecovery ---------------------------
(***************************************************************************)
(* The rate-limit record of ONE endpoint (chain:id) and everybody who      *)
(* writes it.  The record lives in Valkey and is shared, last write wins,  *)
(* by every load-balancer replica and by the standalone health checker:    *)
(*                                                                         *)
(*  - handlers: request goroutines of a replica (or of the checker it      *)
(*    runs itself when none is deployed beside it) inside handleRateLimit  *)
(*    (read, write, StartMonitoring, go monitorEndpoint);                  *)
(*  - monitors: monitorEndpoint goroutines of the RateLimitScheduler of a  *)
(*    replica (load, wait, check, probe, save, deferred cleanup);          *)
(*  - checkers: the handler of the standalone health checker.              *)
(*                                                                         *)
(* Time is not measured.  A timer is a step that may be taken at any       *)
(* moment; FirstRateLimited is "unset", "recent" or "past" (older than     *)
(* reset_after); backoffs keep their values, since the properties compare  *)
(* them.  LastRecoveryCheck is written and never read, so it is left out.  *)
(***************************************************************************)
EXTENDS Integers, FiniteSets

CONSTANTS
  Replicas,           \* load-balancer processes
  Handlers,           \* request goroutines able to see a rate-limit signal
  Monitors,           \* goroutine slots for monitorEndpoint
  Checkers,           \* handler calls of the standalone health checker
  Home,               \* the replica a handler or a monitor slot belongs to
  Seeds,              \* what InitialBackoffForSignal may return; 0: no hint
  InitialBackoff, MaxBackoff, MaxRetries, RequiredSuccesses,
  MultNum, MultDen,   \* backoff_multiplier as a fraction
  Env                 \* which misfortunes this instance admits

\* "valkey": a Valkey call may fail     "crash": a replica may die
\* "shutdown": a replica may be stopped "reset": reset_after may pass
\* "expiry": the 24h TTL may run out
Misfortunes == {"valkey", "crash", "shutdown", "reset", "expiry"}

ASSUME ProcessAssumption ==
  /\ Home \in [Handlers \cup Monitors -> Replicas]
  /\ Handlers \cap Checkers = {}
  /\ Env \subseteq Misfortunes

ASSUME ConfigAssumption ==
  /\ Seeds \subseteq Nat
  /\ InitialBackoff \in Nat \ {0} /\ MaxBackoff \in Nat \ {0}
  /\ MaxRetries \in Nat \ {0} /\ RequiredSuccesses \in Nat \ {0}
  /\ MultNum \in Nat /\ MultDen \in Nat \ {0}

VARIABLES
  rl,        \* the record in Valkey
  healthy,   \* the endpoint's health flag in Valkey
  provider,  \* how the provider answers a probe or a request right now
  phase,     \* a replica's life: serving, scheduler cancelled, drained, gone
  active,    \* activeMonitoring[key] of a replica
  hpc, hst,  \* where a handler or checker is, and the copy it will write
  mpc, mst,  \* where a monitor is, and the copy it works on
  mwait      \* the wait a monitor chose last (0 before the first)

\* History, read by properties only.
VARIABLES
  probes,      \* probes sent since the attempt budget was last refilled
  streak,      \* successful probes since the last failed one
  eased        \* since m chose its wait, something allows a shorter one

store == <<rl, healthy, provider>>
handlerVars == <<hpc, hst>>
monitorVars == <<mpc, mst, mwait>>
history == <<probes, streak, eased>>
vars == <<store, phase, active, handlerVars, monitorVars, history>>

Record == [limited: BOOLEAN, attempts: Nat, succ: Nat, backoff: Nat,
           first: {"unset", "recent", "past"}]

\* What GetRateLimitState returns for a missing key.
NoRecord == [limited |-> FALSE, attempts |-> 0, succ |-> 0, backoff |-> 0,
             first |-> "unset"]

MinOf(a, b) == IF a =< b THEN a ELSE b

-------------------------------------------------------------------------------
(* The transformations of the record.                                       *)

\* Operators named X_y are faulty variants of X, kept to show that the
\* properties tell the code from a plausible mistake; no action uses them.
Stamped(s) == IF s.first = "unset" THEN "recent" ELSE s.first

\* handleRateLimit: a signal restarts the episode but keeps its first time.
Limited(s, seed) ==
  [limited |-> TRUE, attempts |-> 0, succ |-> 0, backoff |-> seed,
   first |-> Stamped(s)]

\* The standalone handler: attempts and successes are left as they were.
CheckerLimited(s, seed) ==
  [s EXCEPT !.limited = TRUE, !.backoff = seed, !.first = Stamped(s)]

NextBackoff(s) == IF s.backoff = 0 THEN InitialBackoff ELSE s.backoff

ShouldReset(s) == s.first = "past"

CycleReset(s) ==
  [s EXCEPT !.attempts = 0, !.succ = 0, !.backoff = 0, !.first = "recent"]

\* int(float64(backoff) * multiplier), capped.  Nothing keeps the configuration
\* from a multiplier below 1, with which the waits get shorter.
Escalated(b) == MinOf((b * MultNum) \div MultDen, MaxBackoff)

\* The first attempt forgets the seed of the signal.
Attempted_Unseeded(s) ==
  [s EXCEPT !.attempts = @ + 1,
            !.backoff = IF s.attempts = 0 THEN InitialBackoff
                        ELSE Escalated(NextBackoff(s))]

\* One more attempt: the first of an episode waits its seed once more.
Attempted(s) ==
  [s EXCEPT !.attempts = @ + 1,
            !.backoff = IF s.attempts = 0 THEN NextBackoff(s)
                        ELSE Escalated(NextBackoff(s))]

Succeeded(s) ==
  [s EXCEPT !.succ = @ + 1,
            !.backoff = IF s.succ = 0 THEN InitialBackoff ELSE @]

Failed_Decrement(s) == [s EXCEPT !.succ = @ - 1]
Failed_KeepsStreak(s) == s
Failed_Refunds(s) == [s EXCEPT !.succ = 0, !.attempts = 0]

Failed(s) == [s EXCEPT !.succ = 0]

EnoughSuccesses(s) == s.succ >= RequiredSuccesses

-------------------------------------------------------------------------------
Procs == Handlers \cup Checkers

Running(r) == {m \in Monitors : Home[m] = r /\ mpc[m] \notin {"off", "cleanup"}}

Cancelled(m) == phase[Home[m]] # "up"

\* A call made with the monitor's context also fails once it is cancelled.
CallMayFail(m) == "valkey" \in Env \/ Cancelled(m)

Init ==
  /\ rl = NoRecord
  /\ healthy = TRUE
  /\ provider = "ok"
  /\ phase = [r \in Replicas |-> "up"]
  /\ active = [r \in Replicas |-> FALSE]
  /\ hpc = [h \in Procs |-> "idle"]
  /\ hst = [h \in Procs |-> NoRecord]
  /\ mpc = [m \in Monitors |-> "off"]
  /\ mst = [m \in Monitors |-> NoRecord]
  /\ mwait = [m \in Monitors |-> 0]
  /\ probes = 0
  /\ streak = 0
  /\ eased = [m \in Monitors |-> FALSE]

\* What a write that restarts the episode means for the history.
EaseAll == eased' = [m \in Monitors |-> TRUE]

-------------------------------------------------------------------------------
(* Handlers: handleRateLimit of a replica, and the checker's own handler.   *)

\* A 429 came back and the record was read; a failed read drops the signal.
ReadForSignal(h) ==
  /\ hpc[h] = "idle"
  /\ provider = "refusing"
  /\ h \in Handlers => phase[Home[h]] # "down"
  /\ \E seed \in Seeds :
       hst' = [hst EXCEPT ![h] = IF h \in Handlers THEN Limited(rl, seed)
                                 ELSE CheckerLimited(rl, seed)]
  /\ hpc' = [hpc EXCEPT ![h] = "write"]
  /\ UNCHANGED <<store, phase, active, monitorVars, history>>

\* SetRateLimitState; only a replica goes on to StartMonitoring.
WriteSignal(h) ==
  /\ hpc[h] = "write"
  /\ rl' = hst[h]
  /\ hpc' = [hpc EXCEPT ![h] = IF h \in Handlers THEN "start" ELSE "idle"]
  /\ hst' = [hst EXCEPT ![h] = NoRecord]
  /\ probes' = IF h \in Handlers THEN 0 ELSE probes
  /\ EaseAll
  /\ UNCHANGED <<healthy, provider, phase, active, monitorVars, streak>>

WriteSignalFails(h) ==
  /\ hpc[h] = "write"
  /\ "valkey" \in Env
  /\ hpc' = [hpc EXCEPT ![h] = "idle"]
  /\ hst' = [hst EXCEPT ![h] = NoRecord]
  /\ UNCHANGED <<store, phase, active, monitorVars, history>>

StartMonitoring_Unguarded(h) ==
  /\ hpc[h] = "start"
  /\ active' = [active EXCEPT ![Home[h]] = TRUE]
  /\ hpc' = [hpc EXCEPT ![h] = "spawn"]
  /\ UNCHANGED <<store, phase, hst, monitorVars, history>>

\* StartMonitoring under rls.mu: claim the key, or find it claimed.
StartMonitoring(h) ==
  /\ hpc[h] = "start"
  /\ active' = [active EXCEPT ![Home[h]] = TRUE]
  /\ hpc' = [hpc EXCEPT ![h] = IF active[Home[h]] THEN "idle" ELSE "spawn"]
  /\ UNCHANGED <<store, phase, hst, monitorVars, history>>

\* After the unlock: wg.Add(1) and the go statement.
SpawnMonitor(h) ==
  /\ hpc[h] = "spawn"
  /\ \E m \in Monitors :
       /\ Home[m] = Home[h]
       /\ mpc[m] = "off"
       /\ mpc' = [mpc EXCEPT ![m] = "load"]
  /\ hpc' = [hpc EXCEPT ![h] = "idle"]
  /\ UNCHANGED <<store, phase, active, hst, mst, mwait, history>>

-------------------------------------------------------------------------------
(* Monitors: one pass of the loop of monitorEndpoint.                       *)

MoveTo(m, from, to) == mpc[m] = from /\ mpc' = [mpc EXCEPT ![m] = to]

ChooseWait(m, s) == mwait' = [mwait EXCEPT ![m] = NextBackoff(s)]

\* The loop does not look at ctx.Done.
LoadState_Uncancellable(m) ==
  /\ MoveTo(m, "load", "wait")
  /\ ~ShouldReset(rl)
  /\ ChooseWait(m, rl)
  /\ eased' = [eased EXCEPT ![m] = FALSE]
  /\ UNCHANGED <<store, phase, active, handlerVars, mst,
                 probes, streak>>

\* The state is read, no reset is due, and the wait begins.
LoadState(m) ==
  /\ MoveTo(m, "load", "wait")
  /\ ~Cancelled(m)
  /\ ~ShouldReset(rl)
  /\ ChooseWait(m, rl)
  /\ eased' = [eased EXCEPT ![m] = FALSE]
  /\ UNCHANGED <<store, phase, active, handlerVars, mst,
                 probes, streak>>

\* The state is read and the cycle is to be reset.
LoadPastCycle(m) ==
  /\ MoveTo(m, "load", "reset")
  /\ ~Cancelled(m)
  /\ ShouldReset(rl)
  /\ mst' = [mst EXCEPT ![m] = CycleReset(rl)]
  /\ UNCHANGED <<store, phase, active, handlerVars, mwait, history>>

WriteReset(m) ==
  /\ MoveTo(m, "reset", "wait")
  /\ rl' = mst[m]
  /\ ChooseWait(m, mst[m])
  /\ mst' = [mst EXCEPT ![m] = NoRecord]
  /\ probes' = 0
  /\ eased' = [n \in Monitors |-> n # m]
  /\ UNCHANGED <<healthy, provider, phase, active, handlerVars,
                 streak>>

\* ctx.Done, or an error of the Get or the Set above: the monitor returns.
GiveUpEarly(m) ==
  /\ \/ mpc[m] \in {"load", "reset"} /\ CallMayFail(m)
     \/ mpc[m] = "wait" /\ Cancelled(m)
  /\ mpc' = [mpc EXCEPT ![m] = "exit"]
  /\ mst' = [mst EXCEPT ![m] = NoRecord]
  /\ UNCHANGED <<store, phase, active, handlerVars, mwait, history>>

WaitOver(m) ==
  /\ MoveTo(m, "wait", "check")
  /\ UNCHANGED <<store, phase, active, handlerVars, mst, mwait, history>>

BeginAttempt_OneMore(m) ==
  /\ MoveTo(m, "check", "probe")
  /\ rl.limited
  /\ rl.attempts =< MaxRetries
  /\ mst' = [mst EXCEPT ![m] = Attempted(rl)]
  /\ UNCHANGED <<store, phase, active, handlerVars, mwait, history>>

\* performRecoveryCheck reads the state again: the attempt is counted in the
\* monitor's copy, before the probe, and stored after it.
BeginAttempt(m) ==
  /\ MoveTo(m, "check", "probe")
  /\ rl.limited
  /\ rl.attempts < MaxRetries
  /\ mst' = [mst EXCEPT ![m] = Attempted(rl)]
  /\ UNCHANGED <<store, phase, active, handlerVars, mwait, history>>

StopChecking(m) ==
  /\ MoveTo(m, "check", "exit")
  /\ ~rl.limited \/ rl.attempts >= MaxRetries
  /\ UNCHANGED <<store, phase, active, handlerVars, mst, mwait, history>>

\* An error of performRecoveryCheck: the loop continues, nothing is stored.
RetryCheck(m) ==
  /\ mpc[m] \in {"check", "save"}
  /\ CallMayFail(m)
  /\ mpc' = [mpc EXCEPT ![m] = "load"]
  /\ mst' = [mst EXCEPT ![m] = NoRecord]
  /\ UNCHANGED <<store, phase, active, handlerVars, mwait, history>>

\* checkEndpointHealth: the provider's answer, or the cancelled request.
ProbeMay(m, pass) ==
  IF pass THEN provider = "ok" ELSE provider = "refusing" \/ Cancelled(m)

CountProbe == probes' = MinOf(probes + 1, MaxRetries + 1)

\* Recovery lifts the limit but leaves the counters in the record.
ProbeSucceeds_KeepsCounters(m) ==
  /\ ProbeMay(m, TRUE)
  /\ LET s == Succeeded(mst[m])
         done == EnoughSuccesses(s) IN
       /\ MoveTo(m, "probe", IF done THEN "mark" ELSE "save")
       /\ mst' = [mst EXCEPT ![m] = [s EXCEPT !.limited = ~done]]
  /\ CountProbe
  /\ streak' = MinOf(streak + 1, RequiredSuccesses)
  /\ EaseAll
  /\ UNCHANGED <<store, phase, active, handlerVars, mwait>>

ProbeSucceeds(m) ==
  /\ ProbeMay(m, TRUE)
  /\ LET s == Succeeded(mst[m]) IN
       /\ MoveTo(m, "probe", IF EnoughSuccesses(s) THEN "mark" ELSE "save")
       /\ mst' = [mst EXCEPT ![m] = IF EnoughSuccesses(s) THEN NoRecord ELSE s]
  /\ CountProbe
  /\ streak' = MinOf(streak + 1, RequiredSuccesses)
  /\ EaseAll
  /\ UNCHANGED <<store, phase, active, handlerVars, mwait>>

ProbeFails(m) ==
  /\ ProbeMay(m, FALSE)
  /\ MoveTo(m, "probe", "save")
  /\ mst' = [mst EXCEPT ![m] = Failed(@)]
  /\ CountProbe
  /\ streak' = 0
  /\ UNCHANGED <<store, phase, active, handlerVars, mwait, eased>>

SaveAttempt(m) ==
  /\ MoveTo(m, "save", "load")
  /\ rl' = mst[m]
  /\ mst' = [mst EXCEPT ![m] = NoRecord]
  /\ UNCHANGED <<healthy, provider, phase, active, handlerVars, mwait, history>>

MarkHealthy_Forgotten(m) ==
  /\ MoveTo(m, "mark", "clear")
  /\ UNCHANGED <<store, phase, active, handlerVars, mst, mwait, history>>

\* Enough successes: the status is written healthy first (errors are logged),
MarkHealthy(m) ==
  /\ MoveTo(m, "mark", "clear")
  /\ healthy' = TRUE \/ (CallMayFail(m) /\ healthy' = healthy)
  /\ UNCHANGED <<rl, provider, phase, active, handlerVars, mst, mwait, history>>

\* then the limit is lifted (an error is logged, too).
LiftLimit(m) ==
  /\ MoveTo(m, "clear", "exit")
  /\ \/ rl' = mst[m] /\ probes' = 0 /\ EaseAll
     \/ CallMayFail(m) /\ UNCHANGED <<rl, probes, eased>>
  /\ UNCHANGED <<healthy, provider, phase, active, handlerVars, mst, mwait,
                 streak>>

\* The deferred function: wg.Done, and only then the claim is dropped.
LeaveGroup(m) ==
  /\ MoveTo(m, "exit", "cleanup")
  /\ UNCHANGED <<store, phase, active, handlerVars, mst, mwait, history>>

DropClaim_Forgotten(m) ==
  /\ MoveTo(m, "cleanup", "off")
  /\ mwait' = [mwait EXCEPT ![m] = 0]
  /\ UNCHANGED <<store, phase, active, handlerVars, mst, history>>

DropClaim(m) ==
  /\ MoveTo(m, "cleanup", "off")
  /\ active' = [active EXCEPT ![Home[m]] = FALSE]
  /\ mwait' = [mwait EXCEPT ![m] = 0]
  /\ UNCHANGED <<store, phase, handlerVars, mst, history>>

-------------------------------------------------------------------------------
(* The life of a replica.                                                   *)

\* Server.Shutdown cancels the scheduler while the HTTP server still serves,
BeginShutdown(r) ==
  /\ "shutdown" \in Env
  /\ phase[r] = "up"
  /\ phase' = [phase EXCEPT ![r] = "cancelled"]
  /\ UNCHANGED <<store, active, handlerVars, monitorVars, history>>

\* waits for the group (or for ten seconds), then for the HTTP server.
SchedulerDrained(r) ==
  /\ phase[r] = "cancelled"
  /\ Running(r) = {}
  /\ phase' = [phase EXCEPT ![r] = "drained"]
  /\ UNCHANGED <<store, active, handlerVars, monitorVars, history>>

DrainTimesOut(r) ==
  /\ phase[r] = "cancelled"
  /\ phase' = [phase EXCEPT ![r] = "timedout"]
  /\ UNCHANGED <<store, active, handlerVars, monitorVars, history>>

\* The process ends; what it had in memory is gone, the record is not.
Terminate(r) ==
  /\ \/ phase[r] \in {"drained", "timedout"}
     \/ "crash" \in Env /\ phase[r] # "down"
  /\ phase' = [phase EXCEPT ![r] = "down"]
  /\ active' = [active EXCEPT ![r] = FALSE]
  /\ LET lost(p) == Home[p] = r IN
       /\ hpc' = [h \in Procs |->
                    IF h \in Handlers /\ lost(h) THEN "idle" ELSE hpc[h]]
       /\ hst' = [h \in Procs |->
                    IF h \in Handlers /\ lost(h) THEN NoRecord ELSE hst[h]]
       /\ mpc' = [m \in Monitors |-> IF lost(m) THEN "off" ELSE mpc[m]]
       /\ mst' = [m \in Monitors |-> IF lost(m) THEN NoRecord ELSE mst[m]]
       /\ mwait' = [m \in Monitors |-> IF lost(m) THEN 0 ELSE mwait[m]]
  /\ UNCHANGED <<store, history>>

\* NewServer makes an empty scheduler and looks at no stored record.
Boot(r) ==
  /\ phase[r] = "down"
  /\ phase' = [phase EXCEPT ![r] = "up"]
  /\ UNCHANGED <<store, active, handlerVars, monitorVars, history>>

-------------------------------------------------------------------------------
(* The surroundings.                                                        *)

\* The provider starts or stops answering.
ProviderTurns ==
  /\ provider' = IF provider = "ok" THEN "refusing" ELSE "ok"
  /\ UNCHANGED <<rl, healthy, phase, active, handlerVars, monitorVars, history>>

\* Failed requests or checks mark the endpoint unhealthy (EndpointHealth).
MarkUnhealthy ==
  /\ provider = "refusing"
  /\ healthy' = FALSE
  /\ UNCHANGED <<rl, provider, phase, active, handlerVars, monitorVars, history>>

Aged(s) == [s EXCEPT !.first = IF @ = "recent" THEN "past" ELSE @]

\* reset_after passes for the first signal of the episode.
ResetAfterPasses ==
  /\ "reset" \in Env
  /\ rl.first = "recent"
  /\ rl' = Aged(rl)
  /\ hst' = [h \in Procs |-> Aged(hst[h])]
  /\ mst' = [m \in Monitors |-> Aged(mst[m])]
  /\ UNCHANGED <<healthy, provider, phase, active, hpc, mpc, mwait, history>>

\* Nobody wrote the key for 24 hours; no read-modify-write lasts that long.
RecordExpires ==
  /\ "expiry" \in Env
  /\ \A h \in Procs : hpc[h] # "write"
  /\ \A m \in Monitors : mpc[m] \notin {"reset", "probe", "save", "mark", "clear"}
  /\ rl' = NoRecord
  /\ probes' = 0
  /\ EaseAll
  /\ UNCHANGED <<healthy, provider, phase, active, handlerVars, monitorVars,
                 streak>>

-------------------------------------------------------------------------------
Handler(h) ==
  \/ ReadForSignal(h) \/ WriteSignal(h) \/ WriteSignalFails(h)

Starter(h) == StartMonitoring(h) \/ SpawnMonitor(h)

Monitor(m) ==
  \/ LoadState(m) \/ LoadPastCycle(m) \/ WriteReset(m) \/ GiveUpEarly(m)
  \/ WaitOver(m)
  \/ BeginAttempt(m) \/ StopChecking(m) \/ RetryCheck(m)
  \/ ProbeSucceeds(m) \/ ProbeFails(m) \/ SaveAttempt(m)
  \/ MarkHealthy(m) \/ LiftLimit(m)
  \/ LeaveGroup(m) \/ DropClaim(m)

Replica(r) ==
  \/ BeginShutdown(r) \/ SchedulerDrained(r) \/ DrainTimesOut(r)
  \/ Terminate(r) \/ Boot(r)

Environment ==
  \/ ProviderTurns \/ MarkUnhealthy \/ ResetAfterPasses \/ RecordExpires

Next ==
  \/ \E h \in Procs : Handler(h)
  \/ \E h \in Handlers : Starter(h)
  \/ \E m \in Monitors : Monitor(m)
  \/ \E r \in Replicas : Replica(r)
  \/ Environment

Spec == Init /\ [][Next]_vars

\* A goroutine that can run runs; nothing obliges the provider, the clock,
\* a signal or an operator to do anything.
Fairness ==
  /\ \A h \in Procs : WF_vars(WriteSignal(h))
  /\ \A h \in Handlers : WF_vars(Starter(h))
  /\ \A m \in Monitors : WF_vars(Monitor(m))

FairSpec == Spec /\ Fairness

-------------------------------------------------------------------------------
(* Properties.                                                              *)

HandlerStates == {"idle", "write", "start", "spawn"}
MonitorStates == {"off", "load", "reset", "wait", "check", "probe", "save",
                  "mark", "clear", "exit", "cleanup"}
Phases == {"up", "cancelled", "drained", "timedout", "down"}

\* Every variable keeps its shape.
TypeOK ==
  /\ rl \in Record
  /\ healthy \in BOOLEAN
  /\ provider \in {"ok", "refusing"}
  /\ phase \in [Replicas -> Phases]
  /\ active \in [Replicas -> BOOLEAN]
  /\ hpc \in [Procs -> HandlerStates] /\ hst \in [Procs -> Record]
  /\ mpc \in [Monitors -> MonitorStates] /\ mst \in [Monitors -> Record]
  /\ mwait \in [Monitors -> Nat]
  /\ probes \in 0 .. MaxRetries + 1
  /\ streak \in 0 .. RequiredSuccesses
  /\ eased \in [Monitors -> BOOLEAN]

OneMonitorPerReplica ==
  \A m, n \in Monitors :
    m # n /\ Home[m] = Home[n] => mpc[m] = "off" \/ mpc[n] = "off"

ClaimIsOwned ==
  \A r \in Replicas : active[r] =>
    \/ \E m \in Monitors : Home[m] = r /\ mpc[m] # "off"
    \/ \E h \in Handlers : Home[h] = r /\ hpc[h] = "spawn"

\* However signals, shutdowns and exits interleave, a replica never runs two
\* monitorEndpoint goroutines for the same endpoint (they would probe a
\* throttling provider twice as often and overwrite each other's backoff), and
\* its claim activeMonitoring[key] always has an owner, a monitor that has not
\* cleaned up or a handler about to start one (a claim without one would
\* refuse every later StartMonitoring of this endpoint for good).
ClaimsHold == OneMonitorPerReplica /\ ClaimIsOwned

CountersInBudget ==
  /\ rl.attempts =< MaxRetries
  /\ rl.succ < RequiredSuccesses

LiftedIsClean == ~rl.limited => rl = NoRecord

LimitedIsStamped == rl.limited => rl.first # "unset"

\* Whatever copy of the record wins the last write, it is one that
\* performRecoveryCheck would still accept: the attempts within max_retries,
\* the successes short of those that lift the limit.  A record that is not
\* limited carries nothing of the previous episode, which would shorten the
\* next one; one that is knows when its episode began, without which the
\* reset after reset_after could never come.
RecordIsSound == CountersInBudget /\ LiftedIsClean /\ LimitedIsStamped

\* One replica and a working Valkey: between two refills of the budget (a
\* signal, a cycle reset, a recovery) an endpoint that is rate limited is
\* probed at most max_retries times.
ProbesInBudget == probes =< MaxRetries

\* One replica and a working Valkey: a monitor lifts the limit only after
\* required_successes probes in a row have succeeded.
RecoveryIsEarned ==
  [][(\E m \in Monitors : mpc[m] = "clear" /\ mpc'[m] = "exit")
       /\ rl.limited /\ ~rl'.limited
     => streak >= RequiredSuccesses]_vars

\* With a multiplier of at least 1, the waits of a monitor do not shrink (below
\* max_backoff) unless a signal, a success, a recovery or a cycle reset came in
\* between.
BackoffNeverShrinks ==
  [][\A m \in Monitors :
       mpc[m] = "load" /\ mpc'[m] = "wait" /\ ~eased[m]
       => mwait'[m] >= MinOf(mwait[m], MaxBackoff)]_vars

\* A cancelled monitor comes to its end, wherever the cancellation meets it:
\* Shutdown's wait is bounded by a Valkey call and a probe.
CancelledMonitorsEnd ==
  \A r \in Replicas :
    phase[r] = "cancelled" ~> Running(r) = {} \/ phase[r] # "cancelled"

AtWork(m) == mpc[m] \in {"load", "reset", "wait", "check", "probe", "save", "mark"}
Back == ~rl.limited /\ healthy
GivenUp == rl.attempts >= MaxRetries

\* The provider is well, no cycle is due to be reset, no scheduler cancelled.
Calm ==
  /\ provider = "ok" /\ rl.first # "past"
  /\ \A r \in Replicas : phase[r] = "up"

\* A monitor that is at work on a limited endpoint whose provider stays well
\* brings it back, limit lifted and health flag set, or uses up its attempts.
MonitorBringsBack ==
  (rl.limited /\ (\E m \in Monitors : AtWork(m)) /\ []Calm) ~> (Back \/ GivenUp)

\* Automatic recovery as documented: a limited endpoint whose provider stays
\* well comes back, or its attempts are used up.
LimitedComesBack ==
  (rl.limited /\ []Calm) ~> (~rl.limited \/ GivenUp)
===============================================================================
