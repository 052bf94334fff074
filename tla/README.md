# Ætherlay in TLA+

Ætherlay is a load balancer for JSON-RPC endpoints.  Any number of stateless
load-balancer replicas and, optionally, one standalone health checker share
what they know about the endpoints through Valkey.  This directory models the
parts of that program whose correctness depends on the order of events, checks
them with TLC and proves the central facts with TLAPS.

## 1. The system

### Components, their state and operations

| component (source) | state | operations | hard because |
|---|---|---|---|
| rate-limit recovery (`internal/server/rate_limit_scheduler.go`, `handleRateLimit` in `server.go`) | one record per endpoint in Valkey; `activeMonitoring`, `cancelFuncs`, WaitGroup per replica | signal, StartMonitoring, monitor loop, recovery check, Shutdown | the record is read before a probe of up to 10 s and written after it, by every replica; the claim on the key outlives the decision to stop |
| endpoint health (`internal/health/checker.go`, `updateEndpointHealthState` in `server.go`, `internal/cache`) | one status per endpoint in Valkey, debounce counters per replica, local cache, ephemeral checks map | scheduled probes, ephemeral probes, debounced marking from traffic | status is read, modified and written by several processes; a lock covers one process |
| request routing (`handleRequestHTTP`, `handleRequestWS`, selection, in `server.go`) | per request: endpoints left, attempts, cached 400 | select, forward, retry, answer | one response writer is shared by all attempts; filters change while the loop runs |
| WebSocket relay (`defaultProxyWebSocket`, `proxyWebSocketCopy`) | two connections, two copy goroutines, control forwarders | upgrade, copy both ways, forward close frames, blame | the first error to arrive decides who is to blame; deadlines set by one goroutine bind another |
| capacity gate and learned ceiling (`capacity_estimate.go`, `effectiveCapacityCeiling`, counters in `valkey.go`) | fixed-window counters and an estimate per endpoint in Valkey | check, dispatch, count, halve, grow | check and count are two calls; the estimate is a read-modify-write with a freeze window |
| custom probe (`maybeSetCustomProbeMethod`, `custom_probe.go`, gate in `valkey.go`) | captured method without expiry, a SET NX gate with one | capture, re-test, clear | clear and set race across processes; the gate outlives what it guards |
| readiness (`handleReadinessCheck`, `health/server.go`, `services/*/main.go`) | `isReady`, `initialCheckPassed`, `hcFailureTimestamp` | start, first round of checks, probe, grace period | probes overlap and their answers are late; either program restarts without the other |
| stale-key cleanup (`CleanupStaleEndpoints`) | every endpoint key | scan, parse, delete | keys are parsed by their colons |
| configuration (`internal/config`), environment (`internal/helpers`) | none after start | load, validate, resolve defaults | defaults merged per field |
| metrics, CORS, block parsing, HTTP and TLS plumbing | counters, headers | | not a matter of order |

### How they interact

A request goroutine selects an endpoint from the statuses (through the cache),
the rate-limit records and the capacity counters, forwards, and feeds its
outcome back: it marks the endpoint healthy or unhealthy (debounced), records
a rate-limit signal, halves the learned ceiling, captures a failed method for
the checker, and starts a monitor in its own process.  Monitors write the
status and the record.  The checker, in the same process or in its own, writes
statuses and, through a callback, rate-limit signals.  Valkey calls are atomic
one by one; nothing spans two of them.

### What each must guarantee

* **Rate-limit recovery**: at most one monitor per endpoint and replica; the
  claim on an endpoint always has an owner; the attempt budget, the success
  streak and the growing backoff survive concurrent writers; a monitored
  endpoint comes back when its provider does; shutdown ends every monitor.
* **Endpoint health**: a status only becomes healthy after the configured
  number of successes and unhealthy after the configured number of failures;
  the two protocols of an endpoint do not disturb each other; a local cache
  never serves longer than its TTL what was invalidated here.
* **Request routing**: no endpoint is tried twice for a request, attempts and
  public attempts stay in their limits, a request is answered exactly once,
  and a 400 only costs an endpoint its health if another endpoint accepted the
  same request.
* **WebSocket relay**: an endpoint is charged with a failure exactly when it
  failed, whichever goroutine notices first; the relay ends when either peer does.
* **Custom probe**: an endpoint is not lifted on a method it was captured for and
  has not served again; a failing method is captured sooner or later; a node that
  is well comes back.
* **Readiness**: ready only after a checker has been through all endpoints; a
  checker that is gone is covered for the grace period and no longer.
* **Capacity**: the count never passes the ceiling by more than the requests
  in flight; the learned ceiling never leaves [min_estimate, observed]; one
  burst of signals costs one decrease.

## 2. The modules

One module per component, most with an `MC` module and all with `.cfg` files that
make instances of it for TLC, and each with a `Proofs` module that EXTENDS it
(RequestRouting has two, `RequestRoutingProofs` for what handlers share and
`RequestPromiseProofs` for one request).  Modules
do not share state: the record of an endpoint's health, its rate-limit record, its
capacity estimate and its captured method are four Valkey keys, of which no call
reads or writes two, and endpoints do not share any of them, so each module
follows one endpoint (RequestRouting, whose subject is the choice among endpoints,
follows several).  One goroutine writes two of the keys for one purpose: a
rate-limit monitor that has seen its last success marks the health record before it
lifts the limit.  RateLimitRecovery has how it gets there and takes the mark as
done or not; EndpointHealth has the mark itself, as one more writer of the
record.  Every Valkey call is one step, and so is what a goroutine does
between two of them; goroutines of any number of processes interleave at these
steps.

| module | models | one action per |
|---|---|---|
| `RateLimitRecovery` | `rate_limit_scheduler.go`; `handleRateLimit`; the standalone checker's rate-limit handler | Valkey call, timer and claim of `StartMonitoring`, `monitorEndpoint`, `performRecoveryCheck`, `Shutdown` |
| `RequestRouting` | `handleRequestHTTP`, `handleRequestWS`, `getEndpointsByRole`, the outcomes of `defaultForwardRequestWithBodyFunc` and `defaultProxyWebSocket` | endpoint looked at by the listing, try started, outcome of a try, answer |
| `RequestPromise` | what a client is promised (abstract; RequestRouting implements it) | endpoint asked, given up, connection, last answer |
| `EndpointHealth` | `health/checker.go`; `updateEndpointHealthState`; `cache/health_cache.go`; the mark of `performRecoveryCheck` | probe, half of a read-modify-write under `statusMu`, turn of the scan or of a loop, half of a balancer's or a monitor's mark, use of the cache |
| `CapacityEstimate` | `store/capacity_estimate.go`; `effectiveCapacityCeiling`, `capacityWindowSeconds`, `recordCapacityUsage`; the counters of `valkey.go` | Valkey call of a signal, of the gate and of the count; second; restart of one process with another configuration |
| `WebSocketRelay` | `defaultProxyWebSocket` from the upgrade on, `proxyWebSocketCopy`, `installControlForwarders` | frame read, frame written, close frame passed on, result taken, connections closed |
| `CustomProbe` | `maybeSetCustomProbeMethod`, `custom_probe.go`, the state and gate in `valkey.go`, the re-test of `checkHTTPHealth`, the loop that clears, the cleanup | Valkey call of a capture, call of a check, mark, clearing, turn of the scan |
| `Readiness` | both `main.go`, `Start` and `checkAllEndpointsAndWait`, `handleReady`, `handleReadinessCheck` | start of a program, check of the first round, call of a probe, its answer, second |

### RateLimitRecovery

`rl` is the record in Valkey; `active` is `activeMonitoring[key]` of each
replica.  A handler goes through `ReadForSignal`, `WriteSignal`,
`StartMonitoring`, `SpawnMonitor`; a monitor through `LoadState` (with the reset
of a cycle, `LoadPastCycle` and `WriteReset`), `WaitOver`, `BeginAttempt`,
`ProbeSucceeds` or `ProbeFails`, `SaveAttempt` or `MarkHealthy` and `LiftLimit`,
and, whatever its reason to end, `LeaveGroup` and `DropClaim`, the two deferred
statements.  `mst` is the copy a monitor works on between a read and the write
that may overwrite somebody else's.  Time is the order of events: a timer may
fire at any moment, and `FirstRateLimited` is unset, recent or past
`reset_after`.  Backoffs keep their values.

### RequestRouting and RequestPromise

A handler lists endpoints one by one (`Consider`: rate-limit flag, capacity gate,
health, in the order of the code), chooses (`Choosing`, `SkipPublic`, `GiveUp`),
counts (`Attempt`), and takes one of the outcomes of a try.  Which endpoint of a
tier has the best score is left open, and so is what an endpoint answers.  A choice
that cannot be made ends the loop (`NothingSuitable`): no request count could be
read, or the best endpoint is one of `NoWSURL`, which has no URL for the WebSocket
asked for and is on the list because `HasWS` of the stored record is older than the
configuration (`Unlinked`).  `job.fate` records what came of each endpoint,
`job.said` what the client has been sent.

`RequestPromise` is the same request as its client may know it: the endpoints
asked so far and the one being asked, the answers that have begun, whether one
broke off.  It has no list, no retry counter, no roles and no reasons.  The
refinement mapping reads `asked` off the fates, `heard` off the answers and
`broken` off the fates again; listing, skipping and the surroundings stutter.

### EndpointHealth

`rec` is the health record of one endpoint with both its protocols.  The tasks
of the checker are the two probes of each sweep, the sweep itself (which writes
the record once more when both are in), the boot checks and the loops; they
share `lock`, the endpoint's `statusMu`, and hold in `snap` the record they
read.  Balancers write the record without that lock (`MarkReads`, `MarkStores`)
and keep a copy in `cache`.  The rate-limit monitor of each (`monitor`) takes no
lock either: it sets both protocols on the word of its HTTP probe (`MonitorSucceeds`, `MonitorReads`,
`MonitorCreates`, `MonitorStores`), invalidates no cache and only then lifts
`limited` (`MonitorLifts`).  `entry` is the map `ephemeralChecks`; the map is
used without a lock, so the program may also end where two uses meet
(`MapRace`).  The cleanup of a process with another configuration may remove the
record at any moment (`CleanedUp`).  A probe tells whether the node serves the protocol.

### CapacityEstimate

`est` is the estimate in Valkey and `count` the counter of the running window of
each width; a second (`Tick`) ends the windows that end with it.  A signal is
`Hit`, `ReadEstimate`, `ReadCount`, `Write`, each before the common deadline of
two seconds (`InTime`); a request is `ReadCeiling`, `Gate`, `Resolve`, `Count`.
The clocks of all processes agree.  Each process has the window it was started with
(`conf`), each actor its process (`Home`); `Redeploy` stops one process and starts
it with another window while the others go on, so first writes with different
windows may race.  `since` says when the estimate got its window, `raced` whether a
write has ever replaced one.  Arithmetic is that of the code:
truncated fractions, floors and the additive growth with elapsed time.

### WebSocketRelay

Each peer has a leg, the goroutine that reads it and writes to the other one
(`Receive`, `WriteData`, `PassControl`; `SetTold`, `ForwardClose` when a close
frame came in; `LinkEnds`, `FallsSilent`, `ReadsClosed` for the other ways a read
ends), and stops with a `result`.  The main goroutine is `Take` (the first result
to arrive), `Weigh` (who is at fault; both connections are closed), `Drain` (the
other leg) and `Outcome`.  `told` is `closeSentToClient`.  Peers send data, pings
and close frames, answer close frames, drop the connection, stop taking what they
are sent or fall silent.  RequestRouting has the dial and the upgrade, and takes
a relay by its outcome.

### CustomProbe

`target` says whether a method is captured (the allowlist has one method for a chain
type), `gate` whether the gate key exists.  A balancer is `Fails`, `TryGate`,
`SetTarget`; a check is `Probe`, `Look`, `Retest`, `Report`; a loop marks, clears
and settles (`Mark`, `Clear`, `Settle`), the three steps the code takes at the
threshold.  `CleanedUp` is the cleanup of a process whose configuration does not
have the endpoint: it deletes target, gate or both.  Here a mark of the health
record is one step: EndpointHealth is about what races inside it.

### Readiness

`check` is the goroutine of each endpoint in the first round with its place in the
semaphore; `passed` and `failure` are the load balancer's `initialCheckPassed` and
`hcFailureTimestamp`, written by overlapping probes that go through `Arrive`,
`Ping`, `Ask` and `Decide`.  Ages stand for timestamps.  Programs crash and may
start again, with the balancer's memory lost; Valkey fails and returns.

## 3. The runs

| run | instance | shows |
|---|---|---|
| `RL_replicas` | two replicas, three monitors, a standalone checker; failing calls, crashes, expiry | `ClaimsHold`, `RecordIsSound` |
| `RL_recovers` | one replica and a working Valkey; two seeds, cycle resets, shutdown | `ProbesInBudget`, `RecoveryIsEarned`, `BackoffNeverShrinks`, where the code means to keep them; `MonitorBringsBack` and `CancelledMonitorsEnd` |
| `RL_lost_wakeup` | one replica | violation of `LimitedComesBack` (section 6) |
| `RR_one` | one handler, two public endpoints, a primary one and a fallback without WebSocket URL, both protocols, failing reads, clients that leave | `BlameHasACause`, `GivesUpOnlyWhenSpent`; the refinement `KeepsPromise` |
| `RR_shared` | two handlers, two endpoints, one with a ceiling | `CapacityHolds`, `StragglersBounded`, `EveryRequestEnds` |
| `EH_writers` | one sweep or two HTTP loops, both protocols, a balancer and its monitor; every fault | `LiftIsEarned`, `FallIsFound` |
| `EH_recovers` | ephemeral mode, two loops, a balancer and its monitor, for HTTP | `ComesBack`, `LoopsEnd`, `CachesCatchUp`, `LoopsAreOwned` |
| `EH_no_recovery` | periodic mode, no fault | violation of `ComesBack` (section 6) |
| `CE_learning` | two handlers, each in its own process; windows of one and two seconds, four seconds, one process restarted with another window; failing calls | `WindowFrozen`, `CountsWhereWatched`, `DecreasesAreSpaced`, `LearnedCeilingHolds` |
| `WS_relay` | graceful and odd closes, data and pings, every fault of both peers | `OnlyFailuresAreBlamed`, `FailuresAreBlamed`, `RelayEnds` |
| `CP_captures` | one request, two loops; a node that fails or recovers, failing calls, a checker that restarts, a cleanup | `TargetIsProven`, `KeepsCapturing`, `ComesBack` |
| `RD_ready` | two overlapping probes, two endpoints; both deployments, with and without periodic checks; crashes, failures, unanswered calls | `ReadyNeedsAChecker`, `GraceRunsOut`, `GraceIsGranted`, `GetsReady` |

Every run of a module's first kind also checks its `TypeOK`.  Definitions named
`X_y` (for instance `Resolve_Lifts`) are faulty variants of the definition `X` below
them.  No action uses one; each shows, when it takes the place of `X`, that a
property of a run would notice such a mistake.

### Bounds

* Numbers of goroutines: two of a kind are enough for every race found or
  excluded here, since all of them are between one writer and another, or
  between a decision and the next actor's; the theorems of section 5 hold for
  any number.
* `RateLimitRecovery`: `MaxRetries` of two or three leaves an attempt before,
  at and after the successes that are needed (two); backoffs from 1 to 4 reach
  the cap, and a seed of 5 is beyond it.  `RL_replicas` uses a VIEW without the
  history variables, of which its invariants do not speak.  `RL_recovers` leaves
  out the expiry of the record after 24 hours: a monitor whose record is gone ends
  without setting the health flag, which `MonitorBringsBack` would rightly not allow.
* `RequestRouting`: four endpoints of three roles, one try of the public
  ones and two retries make each of the three limits the one that ends the loop.
  `strays` counts to one more than there are handlers.  `NoWSURL` is the fallback in
  `RR_one`, so that the list is left with it after better ones were tried or
  skipped, and nobody in `RR_shared`.  `RR_one` uses a VIEW of the
  handler's own variables: with faults of the store a listing may overlook every
  limit and count, so a request depends on neither.
* `EndpointHealth`: `MaxEvents` bounds changes of the node, of the rate-limit flag
  and faults taken together.  One is enough: the node starts in any state, so it
  fails or recovers in between, and a task reads before an event and writes after
  it; a fault that leaves nothing behind is not counted, and neither is a read or
  write of the record in which a monitor fails, for it only goes on to lift the
  limit.  `EH_no_recovery` has two (a node fails and comes back).  Thresholds are
  two for the checker, so that a streak can break, and one for balancers.
* `CapacityEstimate`: `MaxTime` is four seconds, in which a window of two turns
  between a read and the write that follows it, and a decrease follows another one;
  `MaxCount` is three requests a window, enough for a ceiling of one to be passed by
  all handlers; `MaxDeploys` is one, which leaves the two processes with different
  windows, before or after the first estimate.  The standalone checker, which
  signals without counting, has no instance here; the theorems cover it.  The
  clock's bound stops the behaviours, so this run does not look for deadlock.
* `WebSocketRelay`: one frame of each peer waits to be read (`MaxFrames`); what
  follows it waits in the peer.  The relay ends, so this run does not look for deadlock.
* `CustomProbe`: `MaxEvents` is one, as in `EndpointHealth`: a node that fails at
  the start recovers, one that is well fails, a call does, or target or gate are
  cleaned up.  The gate expires at any moment.  A threshold of two lets the target
  be captured inside a streak.
* `Readiness`: `MaxFaults` is three, enough for a crash, another one during the
  grace period and a call without an answer; the grace period is two seconds and a
  call ends within one, so that a late answer reaches into it; one place in
  the semaphore makes two endpoints wait for each other.

## 4. Fairness

* `RateLimitRecovery`: goroutines run, timers fire and probes have a timeout of
  ten seconds (weak fairness of each monitor and of a handler past its read).
  Nothing is assumed of the provider or of the misfortunes.
* `RequestRouting`: a handler runs and every try ends, an HTTP one by
  `PROXY_TIMEOUT_PER_TRY`, a WebSocket one by the dialer's handshake timeout.
  Nothing ends an established relay, and `EveryRequestEnds` allows it.
* `EndpointHealth`: tickers fire, calls end, handlers run and cache entries
  expire (weak fairness); a task that waits for `statusMu` again and again gets
  it (strong fairness), for a Go mutex hands itself to a waiter of more than a
  millisecond.  Clients need not send anything: `Arrive` is not fair, and that is
  why the periodic mode does not bring an endpoint back.  Nothing is assumed of the
  monitors: an endpoint comes back without them.
* `CapacityEstimate` has no liveness property: nothing there must happen.
* `WebSocketRelay`: goroutines run, writes end at their deadlines and what a peer
  has sent is read.  Nothing is assumed of the peers, who need not speak, answer
  or close.
* `CustomProbe`: calls end, tickers fire, the gate key expires (it is set with a
  TTL in the same command).  `KeepsCapturing` has the requests in its premise.
* `Readiness`: programs that are up run, time passes, checks end at their
  timeouts and `/ready` is asked again and again (it is a readiness probe).  That a
  crashed program is started again is not assumed: `GetsReady` has it in its premise.

EndpointHealth's `ComesBack` has a premise, `Undisturbed`, that leaves out two
coincidences if they recur for ever.  TLC shows that either would keep an endpoint
out: (1) a balancer's mark is overwritten by a loop's older copy of the record, the
scan in between has seen the mark and cancels the loop, and its successor starts to
count from nothing; (2) a loop that reaches its threshold and is late cancels
the loop that has succeeded it (`checker.go:373` takes whatever the map holds).
Each needs a new coincidence each time round.  CustomProbe's `ComesBack` leaves out
the second; its marks are whole, so the first cannot happen there.

## 5. What is proved

All theorems are about `Spec` for every value of the constants that their
module's ASSUMEs admit, so for any number of processes and goroutines.

* `RateLimitRecoveryProofs`.  `TypeCorrect`; `ClaimCorrect`
  (`ClaimsHold`) from `ClaimInv`: a claim is held
  exactly by one that lives, a monitor or a handler about to start one, and never
  by two; the invariant itself only says the first half, which a second handler
  would break if `StartMonitoring` did not set the claim in the step that tests
  it.  `RecordCorrect` (`RecordIsSound`)
  from `RecordInv`: not only the record but every copy a handler or a monitor may
  still write is sound, since the last write wins.
  `BudgetCorrect` (`ProbesInBudget`) and `RecoveryCorrect` (`RecoveryIsEarned`)
  assume one replica, no standalone checker and a Valkey that answers (`Alone`).  Each
  of the three is needed, TLC violates both properties without it: whoever stores an
  older copy, and a signal written by a checker, takes attempts back, and so does a
  write that fails.  Their `BudgetInv` says that the record stands for
  at least the probes that were sent and for no success that was not won, unless
  nobody is going to monitor the endpoint (`Dormant`) or a monitor is about to store
  its own copy, of which the same is said.  `BackoffCorrect` (`BackoffNeverShrinks`)
  assumes a `backoff_multiplier` of at least 1 (`Growing`), which the configuration's
  loader does not enforce, and one replica, with checkers and a failing Valkey (a
  second replica violates it too): `BackoffInv` bounds the
  backoff of the record, and of the copy a monitor will store, by its last wait, as
  long as nothing has eased the record.
* `RequestRoutingProofs`, assuming that reads of Valkey do not fail.
  `CapacityCorrect` and `StragglersCorrect` from `RouteInv`: `Pending(e)` are the
  handlers that have `e` on their list and are not at it; below the ceiling
  nothing need be said, and at the ceiling count and pending handlers together
  are bounded, since a handler is admitted only below it and stops pending when
  it counts.  The number of handlers is finite, that of endpoints need not be.
* `RequestPromiseProofs`.  `PromiseKept` (`KeepsPromise`): RequestRouting implements
  RequestPromise, step by step, whatever fails.  `BlameCorrect` (`BlameHasACause`),
  `GivesUpCorrect` (`GivesUpOnlyWhenSpent`) and `TypeCorrect` come from the same
  `JobInv`, which is about each request by itself: its `Books` relate the list, the
  fates and the two counters (retries are the tries that have ended, what is neither
  listed nor tried was a public endpoint over its limit), its `Charges` say whom it
  has blamed or would, its `Words` what the client may have heard while it is open.
  `GivesUpOnlyWhenSpent` has two exceptions, both of which the code takes: the counts
  of all that was left could not be read, or an endpoint without a WebSocket URL was
  among it.  No assumption but
  those of the constants; endpoints may be infinitely many, for the tries are not.
* `EndpointHealthProofs`.  `TypeCorrect`, `LiftCorrect` (`LiftIsEarned`),
  `FallCorrect` (`FallIsFound`) from `WriteInv`: the record a task holds under the
  lock is the one in Valkey, unless a process that does not share the lock has
  written (`torn`; balancers, their monitors and the cleanup of another process),
  and each task's counters and result fit the place it is at. `OwnedCorrect`
  (`LoopsAreOwned`), which is inductive together with it.
* `CapacityEstimateProofs`, with no assumption on Valkey or on the arithmetic but
  that the decrease factor is below one.  `TypeCorrect`; `FrozenCorrect`
  (`WindowFrozen`) and `CountedCorrect` (`CountsWhereWatched`) from `WindowInv`:
  whoever still works with no estimate, or with one of another window, began its
  signal no later than the window was set, so that its deadline ends it before the
  window is older than `CallTimeout`, and every other one works with the window of
  the estimate.  That each process has a configuration of its own is why both have
  exceptions: while the first writes race, a later one may replace the window, and a
  request may have been resolved against another one.  `SpacedCorrect`
  (`DecreasesAreSpaced`) from `SpreadInv`: the spacing holds for every copy from
  which an actor may still derive the next estimate.  `LearnedCorrect`
  (`LearnedCeilingHolds`) from `CeilingInv`: the loose handlers are those past the
  gate, or let through by a ceiling of an earlier window that was higher; below the
  ceiling nothing need be said of them, and from it on count and loose handlers
  together are bounded.  The number of handlers is finite.

* `WebSocketRelayProofs`.  `TypeCorrect`, `BlameCorrect` (`OnlyFailuresAreBlamed`)
  and `FailuresCorrect` (`FailuresAreBlamed`), for any number of waiting frames,
  from `RelayInv`.  `InboxInv` and `ResultInv` tie what a leg reports to
  what its peer has said or how it ended; `CloseInv` says that a peer hears only
  the last word of the other leg, so that two peers never echo each other, and that
  a connection sealed under a leg that still writes is one whose peer has said
  goodbye; `ToldInv` that `closeSentToClient` is set before the client hears
  anything; `MainInv` that there is a reason for the first leg to stop
  (`Explained`) and what the verdict is made of.
* `ReadinessProofs`.  `TypeCorrect` (with the places in the semaphore),
  `ReadyCorrect` (`ReadyNeedsAChecker`) from `VouchInv`: whoever says ready, or
  holds an answer that will make it say so, has a checker behind it that was through
  all endpoints in its time.  `GraceEnds` (`GraceRunsOut`) and `GraceHolds`
  (`GraceIsGranted`) from `GraceInv`: a late answer is no younger than the absence
  of its checker, refusals count only when no such answer can be under way any more,
  and the load balancer's clock is never behind the one that counts from there nor
  ahead of its last grant.
* `CustomProbeProofs`.  `TypeCorrect`; `TargetCorrect` (`TargetIsProven`) from
  `ProbeInv`: while the target that a loop found at the start of its streak stands,
  each success that it counts, the one it is about to report included, was one at
  the method.

All safety properties that the runs check are proved.  Only model-checked are the
liveness properties, for the provers have no rule for fairness:
`MonitorBringsBack`, `CancelledMonitorsEnd`, `EveryRequestEnds`, `ComesBack` (of
both modules), `LoopsEnd`, `CachesCatchUp`, `RelayEnds`, `GetsReady`,
`KeepsCapturing`.  What the proofs
assume beyond the constants' ASSUMEs is said above: reads that do not fail for the two
theorems of `RequestRoutingProofs`, and `Alone` or one replica for three of
`RateLimitRecoveryProofs`.

## 6. Where code and documentation part

Shown by a run of its own:

* `RL_lost_wakeup`: the flag that a key is monitored is dropped after the
  monitor has decided to end.  A signal stored in between starts nothing, and the
  endpoint stays limited until another signal, which it cannot give without
  requests (README.md:389).
* `EH_no_recovery`: with `HEALTH_CHECK_INTERVAL` above 0 nothing lifts an
  unhealthy protocol: `resolveHealthTransition` leaves it to loops that no
  program starts in this mode, and balancers send it no requests
  (README.md:285, `checker.go:845`).

Met on the way, without a run of their own.  Requests:

* When the copy of a response fails half way, the handler goes on to the next
  endpoint and appends its answer (`server.go:1408`, `server.go:1370`);
  `RequestPromise` has it as an answer that broke off.
* A WebSocket dial that times out is taken for the normal end of an established
  connection; the client gets neither an answer nor a retry (`server.go:658`,
  `server.go:1680`, README.md:118).  `RequestPromise` lets a WebSocket end so.
* The client that hangs up, or `PROXY_TIMEOUT`, costs the endpoint a failure
  (`server.go:1309`); `BlameHasACause` excepts such a try.
* The loop ends with "all endpoints unavailable", and endpoints untried, when
  `selectBestEndpoint` can read no request count (`server.go:467`, `server.go:582`)
  or when the best endpoint has no `ws_url` (`server.go:629`, `server.go:794`),
  which a record whose `HasWS` is older than the configuration puts on the list.  A
  worse endpoint with a URL is not tried.  `GivesUpOnlyWhenSpent` names both.
* A request whose last endpoint answers 400 leaves the loop "to handle cached
  400 error" (`server.go:710`), but all that follows is a 502.
* A relay that fails with 1011 is retried on a client connection that has been
  hijacked (`server.go:1852`); so is one whose endpoint fell silent, since
  `wsBackendIdleError` is no `net.Error`.

WebSocket relays:

* A close frame is forwarded under the write deadline of the last message and
  lost if that was more than 30 s ago, against "so both peers receive a proper
  WebSocket close handshake" (`server.go:1598`, `server.go:1626`).
* A ping that cannot be passed on to a slow client ends the leg of the endpoint
  with a timeout, which counts as the endpoint's silence, against the comment at
  `server.go:1559`.
* The idle teardown forwards no close frame to the client (`server.go:1755` says
  it does), for a timeout is no close error.
* A connection dropped without a close frame (1006) is forwarded as 1001; if the
  client's echo of that arrives first, the drop is not counted.  An endpoint that
  closes gracefully may be charged if the leg of the client stops first.
  `FailuresAreBlamed` and `OnlyFailuresAreBlamed` name both.

Health, rate limits, capacity:

* A signal resets the streak of successes in the record, but a monitor whose
  probe was under way writes its older copy over it; `RecoveryIsEarned`
  therefore counts from the last failed probe, not from the last signal.
* `config.go` takes any `backoff_multiplier` (0 stands for the default).  Below 1
  the wait shrinks with each failed attempt, against README.md:388 ("This wait
  period increases each time"); `BackoffNeverShrinks` is checked and proved for at
  least 1.
* A replica that restarts looks at no stored record (`server.go:135`): an endpoint
  it was recovering stays limited, without a monitor, until another signal or until
  its record expires.
* A monitor that lifts the limit marks WebSocket healthy as well, though it has only
  asked over HTTP (`rate_limit_scheduler.go:296`).
* `capacity_estimate.go:32` says that the observed count includes the rejected
  attempt.  A checker's probe is not counted, and neither is an attempt rejected
  after its window has turned: the count may be 0, and the ceiling falls to
  `min_estimate` at once.
* `capacity_estimate.go:125` says that concurrent decreases only err towards a
  lower estimate.  The last write may be the higher one.
* README.md:550 says that "once seeded, the window is frozen for that endpoint", and
  `capacity_estimate.go:169` that it is so for the lifetime of the estimate.  Two
  processes with different configurations, as in a rolling update, may both have
  read no estimate; the second seed then replaces the window of the first.
  `WindowFrozen` holds from `CallTimeout` after a seed on, when nobody can still be
  about to write one, and `CountsWhereWatched` excepts the requests in between.
* A request whose read of the estimate fails is counted in the configured
  window, which may not be the one the gate looks at (`server.go:1479`).

Custom probes:

* The loop that lifts an endpoint clears the target because it "has now also
  passed that many times in a row" (`checker.go:364`).  A target captured during
  the streak is cleared with fewer tests or none, and the gate keeps it from being
  captured again for the rest of its period; `TargetIsProven` therefore speaks of a
  target that stood from the start of the streak, and `KeepsCapturing` says that
  the method is captured again in the end.
* The scan may see the loop's own mark and cancel the loop before it has cleared
  the target, and a success counted by a balancer lifts an endpoint whatever is
  captured (README.md:231).  The target then stays for the next episode.
* `server.go:1233` skips the capture without ephemeral checks, "since a captured
  target would stay pinned forever".  With `HEALTH_CHECK_INTERVAL` above 0 the
  checks are enabled but not running, and it does.  The same holds for a 5xx that
  stays below `ENDPOINT_FAILURE_THRESHOLD`, until the endpoint next goes unhealthy.

Readiness:

* With `HEALTH_CHECK_INTERVAL=0` a checker never sets `isReady`, so that its
  `/ready` and that of its load balancers answer 503 for ever, and an integrated
  load balancer runs no ephemeral checks (README.md:262, README.md:375).
* A load balancer with a standalone checker accepts requests before any check
  (README.md:376); only its `/ready` waits.
* A `HEALTH_CHECK_CONCURRENCY` of 0 makes the first round wait for ever; the
  model assumes at least 1.

## 7. What is not modelled, and the plan

Done: the eight modules above, in the order of what an outage would cost, and the
proofs of their safety properties.  Next:

1. An abstract health record (only evidence lifts and lowers) that EndpointHealth
   implements and of which CustomProbe's whole marks are an instance.
2. Composition: rate-limit recovery with the health record it marks and the
   loops that leave limited endpoints alone; the learned ceiling with routing.
3. The cleanup of stale keys: scan, parse, delete, against writers with another
   configuration (its effect on the health record and on a captured method is `CleanedUp` of
   EndpointHealth and CustomProbe).

Left out for good: metrics, CORS, encodings and the HTTP and TLS plumbing,
which carry no order; parsing of configuration and environment, whose results
are the constants here; the judgement of a probe's answer (block numbers, sync
status), a sequential computation whose result the models take; mocks and
deployment files.
