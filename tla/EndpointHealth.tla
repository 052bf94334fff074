---------------------------- MODULE EndpointHealth ----------------------------
(* The health record of one endpoint and everyone who writes it:             *)
(*   - the checker process (internal/health/checker.go), either sweeping all *)
(*     endpoints on a ticker (Start) or scanning for unhealthy ones and      *)
(*     probing those until they recover (StartEphemeralChecks);              *)
(*   - the load balancers (updateEndpointHealthState and                     *)
(*     getEndpointsByRole of internal/server/server.go), which judge the     *)
(*     endpoint by the requests they proxy and keep a copy of the record;    *)
(*   - their rate-limit monitors (performRecoveryCheck of                    *)
(*     internal/server/rate_limit_scheduler.go), which mark it healthy when  *)
(*     they lift its rate limit.                                             *)
(* The record holds both protocols in one Valkey value.  All writers read it *)
(* and write it back in two steps; tasks of the checker do so under a lock   *)
(* (statusMu) that load balancers do not share.  How a monitor gets as far   *)
(* as lifting the limit is the matter of RateLimitRecovery.                  *)
(* Endpoints do not share state here, so one is enough.  What a probe asks   *)
(* and how its answer is judged is reduced to whether the node is well.      *)
EXTENDS Integers, FiniteSets

CONSTANTS
    Modes,             \* of "sweep" and "ephemeral": HEALTH_CHECK_INTERVAL > 0, = 0
    Served,            \* the protocols the endpoint has a URL for
    Sweeps,            \* concurrent checkEndpoint calls
    Boot,              \* the one-time checks before the first scan
    Loops,             \* goroutines of runEphemeralCheckProtocol ...
    Key,               \* ... and the protocol each one is for
    HealthyThreshold,  \* EPHEMERAL_CHECKS_HEALTHY_THRESHOLD
    Balancers,
    Handlers,          \* request handlers, one request at a time
    Host,              \* the balancer each of them belongs to
    FailureThreshold,  \* ENDPOINT_FAILURE_THRESHOLD
    SuccessThreshold,  \* ENDPOINT_SUCCESS_THRESHOLD
    EphemeralEnabled,  \* EPHEMERAL_CHECKS_ENABLED
    Faults,            \* subset of {"valkey", "checker", "balancer", "limit", "cleanup"}
    MaxEvents,         \* bound: changes of the surroundings in a behaviour
    None,
    Absent             \* what Valkey holds before anything is written

Protocols == {"http", "ws"}

Probes == (Sweeps \cup {Boot}) \X Protocols
Tasks == Probes \cup Sweeps \cup Loops

ASSUME CheckerAssumption ==
    /\ Modes \subseteq {"sweep", "ephemeral"}
    /\ Served \subseteq Protocols /\ Served # {}
    /\ Key \in [Loops -> Served]
    /\ HealthyThreshold \in Nat \ {0}
    /\ EphemeralEnabled \in BOOLEAN
ASSUME TasksAssumption ==
    /\ Boot \notin Sweeps /\ None \notin Tasks
    /\ Probes \cap Sweeps = {} /\ Probes \cap Loops = {} /\ Sweeps \cap Loops = {}
ASSUME BalancersAssumption ==
    /\ Host \in [Handlers -> Balancers]
    /\ FailureThreshold \in Nat \ {0} /\ SuccessThreshold \in Nat \ {0}
    /\ Faults \subseteq {"valkey", "checker", "balancer", "limit", "cleanup"}
    /\ MaxEvents \in Nat

VARIABLES
    rec,        \* the record in Valkey
    node,       \* which protocols the node really serves
    limited,    \* its rate-limit flag in Valkey
    budget,     \* events left
    mode,       \* of the checker process
    monitor,    \* the rate-limit monitor of each balancer
    scan,       \* where StartEphemeralChecks is
    view,       \* the record as the current scan has read it
    entry,      \* ephemeralChecks: the loop registered for a protocol
    at,         \* where each task is
    ok,         \* result of the latest probe of each task
    run,        \* consecutive successes of each loop
    cancelled,  \* loops whose context is cancelled
    lock,       \* the task that holds statusMu
    snap,       \* the record it works on
    creating,   \* it found no record and has still to write the first one
    torn,       \* history: another process wrote since that read, or it failed
    hand,       \* the handlers: where each is, and the record it works on
    streak,     \* failureStates: consecutive failures and successes
    cache       \* healthCache of each balancer

surroundings == <<node, limited, budget, mode, monitor>>
scanner == <<scan, view, entry>>
tasks == <<at, ok, run, cancelled>>
locking == <<lock, snap, creating>>
balancing == <<hand, streak, cache>>
vars == <<rec, surroundings, scanner, tasks, locking, torn, balancing>>

\* LastHTTPHealthCheck and LastWSHealthCheck only matter as set or not set, and
\* are set together with HasHTTP and HasWS.
Record == [healthy : [Protocols -> BOOLEAN], checked : [Protocols -> BOOLEAN]]

ASSUME NothingAssumption == Absent \notin Record /\ None \notin Record

Fresh == [healthy |-> [p \in Protocols |-> FALSE],
          checked |-> [p \in Protocols |-> FALSE]]

Idle == [at |-> "idle", protocol |-> "http", good |-> FALSE, snap |-> Fresh]
Even == [failures |-> 0, successes |-> 0]
Resting == [at |-> "idle", snap |-> Fresh]

WorldTypeOK ==
    /\ rec \in Record \cup {Absent}
    /\ node \in [Protocols -> BOOLEAN] /\ limited \in BOOLEAN
    /\ budget \in 0..MaxEvents /\ mode \in Modes
    /\ monitor \in [Balancers -> [at : {"idle", "read", "create", "store", "lift"},
                                  snap : Record]]

CheckerTypeOK ==
    /\ scan \in {"off", "boot", "tick", "create", "act"} /\ view \in Record
    /\ entry \in [Protocols -> Loops \cup {None}]
    /\ at \in [Tasks -> {"off", "probing", "report", "done", "waiting",
                         "top", "mark", "settle"}]
    /\ ok \in [Tasks -> BOOLEAN]
    /\ run \in [Loops -> 0..HealthyThreshold]
    /\ cancelled \subseteq Loops
    /\ lock \in Tasks \cup {None} /\ snap \in Record
    /\ creating \in BOOLEAN /\ torn \in BOOLEAN

BalancerTypeOK ==
    /\ hand \in [Handlers -> [at : {"idle", "fetch", "create", "fill", "sent",
                                    "mark", "renew", "store", "drop"},
                              protocol : Protocols, good : BOOLEAN,
                              snap : Record]]
    /\ streak \in [Balancers -> [Protocols ->
                      [failures : 0..FailureThreshold,
                       successes : 0..SuccessThreshold]]]
    /\ cache \in [Balancers -> Record \cup {None}]

TypeOK == WorldTypeOK /\ CheckerTypeOK /\ BalancerTypeOK

-------------------------------------------------------------------------------
(* A checker process starts.                                                 *)

AllOff ==
    [t \in Tasks |-> "off"]

Init ==
    /\ rec = Absent
    /\ node \in [Protocols -> BOOLEAN] /\ limited = FALSE
    /\ \A p \in Protocols \ Served : ~node[p]
    /\ budget = MaxEvents
    /\ mode \in Modes
    /\ monitor = [b \in Balancers |-> Resting]
    /\ scan = (IF mode = "ephemeral" /\ EphemeralEnabled THEN "boot" ELSE "off")
    /\ view = Fresh
    /\ entry = [p \in Protocols |-> None]
    /\ at = AllOff
    /\ ok = [t \in Tasks |-> FALSE]
    /\ run = [l \in Loops |-> 0]
    /\ cancelled = {}
    /\ lock = None /\ snap = Fresh /\ creating = FALSE
    /\ torn = FALSE
    /\ hand = [h \in Handlers |-> Idle]
    /\ streak = [b \in Balancers |-> [p \in Protocols |-> Even]]
    /\ cache = [b \in Balancers |-> None]

\* The scan and a loop that finishes use the map ephemeralChecks without a
\* lock: the Go runtime may end the process when they meet.
MapRace ==
    scan = "act" /\ \E l \in Loops : at[l] = "settle"

\* The checker process ends and is started again.
CheckerRestarts ==
    /\ budget > 0 /\ ("checker" \in Faults \/ MapRace)
    /\ budget' = budget - 1
    /\ scan' = (IF mode = "ephemeral" /\ EphemeralEnabled THEN "boot" ELSE "off")
    /\ view' = Fresh
    /\ entry' = [p \in Protocols |-> None]
    /\ at' = AllOff
    /\ ok' = [t \in Tasks |-> FALSE]
    /\ run' = [l \in Loops |-> 0]
    /\ cancelled' = {}
    /\ lock' = None /\ snap' = Fresh /\ creating' = FALSE
    /\ torn' = FALSE
    /\ UNCHANGED <<rec, node, limited, mode, monitor, balancing>>

\* The flag reads as not set, also when it cannot be read.
Unlimited == limited => "valkey" \in Faults

-------------------------------------------------------------------------------
(* The checker's tasks: one probe, then the result goes into the record.     *)

IsLoop(t) == t \in Loops
Protocol(t) == IF IsLoop(t) THEN Key[t] ELSE t[2]
SweepOf(t) == t[1]
AliveTo(t) == t \notin cancelled

\* An HTTP probe of a cancelled loop fails with its context; the WebSocket
\* probe has no context.
Probe(t) ==
    /\ at[t] = "probing"
    /\ at' = [at EXCEPT ![t] = "report"]
    /\ ok' = [ok EXCEPT ![t] = /\ node[Protocol(t)]
                               /\ AliveTo(t) \/ Protocol(t) = "ws"]
    /\ UNCHANGED <<rec, surroundings, scanner, run, cancelled, locking, torn, balancing>>

\* Both results of a sweep are in.
Collected(s) ==
    at[s] = "waiting" /\ \A p \in Protocols : at[<<s, p>>] = "done"

WantsLock(t) ==
    \/ at[t] \in {"report", "mark"}
    \/ t \in Sweeps /\ Collected(t)

\* The statusMu is taken and the record read; where there is none, the first
\* one is written before anything else.
Acquire(t) ==
    /\ WantsLock(t) /\ lock = None
    /\ AliveTo(t)
    /\ lock' = t
    /\ torn' = FALSE
    /\ creating' = (rec = Absent)
    /\ snap' = (IF rec = Absent THEN Fresh ELSE rec)
    /\ UNCHANGED <<rec, surroundings, scanner, tasks, balancing>>

\* The read fails and the task goes on with an empty record.
AcquireBlind(t) ==
    /\ WantsLock(t) /\ lock = None
    /\ AliveTo(t)
    /\ "valkey" \in Faults /\ budget > 0
    /\ budget' = budget - 1
    /\ lock' = t
    /\ torn' = TRUE
    /\ creating' = FALSE
    /\ snap' = Fresh
    /\ UNCHANGED <<rec, node, limited, mode, monitor, scanner, tasks, balancing>>

CreateRecord(t) ==
    /\ lock = t /\ creating
    /\ creating' = FALSE
    /\ rec' = IF AliveTo(t) THEN Fresh ELSE rec
    /\ UNCHANGED <<surroundings, scanner, tasks, lock, snap, torn, balancing>>

\* resolveHealthTransition
Resolve_Lifts(hasPrior, was, probed) ==
    probed

Resolve(hasPrior, was, probed) ==
    IF EphemeralEnabled /\ hasPrior THEN was /\ probed ELSE probed

WithResult(r, p, probed) ==
    [healthy |-> [r.healthy EXCEPT ![p] = Resolve(r.checked[p], @, probed)],
     checked |-> [r.checked EXCEPT ![p] = TRUE]]

\* The last write of a sweep sets both protocols, also one without a URL.
WithBoth(r, s) ==
    [healthy |-> [p \in Protocols |->
                     Resolve(r.checked[p], r.healthy[p], ok[<<s, p>>])],
     checked |-> [p \in Protocols |-> r.checked[p] \/ p \in Served]]

Updated_Whole(t) ==
    CASE at[t] = "report" -> WithResult(Fresh, Protocol(t), ok[t])
      [] at[t] = "mark" -> [snap EXCEPT !.healthy[Key[t]] = TRUE]
      [] OTHER -> WithBoth(snap, t)

Updated(t) ==
    CASE at[t] = "report" -> WithResult(snap, Protocol(t), ok[t])
      [] at[t] = "mark" -> [snap EXCEPT !.healthy[Key[t]] = TRUE]
      [] OTHER -> WithBoth(snap, t)

\* A loop counts its successes; at the threshold it will mark the protocol.
Counted(l) == IF ok[l] THEN run[l] + 1 ELSE 0

\* Where the task goes on once the record is written.
AfterReport_OneMore(t) ==
    IF IsLoop(t)
    THEN LET enough == Counted(t) > HealthyThreshold IN
         /\ run' = [run EXCEPT ![t] = Counted(t)]
         /\ at' = [at EXCEPT ![t] = IF enough THEN "mark" ELSE "top"]
         /\ ok' = [ok EXCEPT ![t] = enough]
    ELSE /\ at' = [at EXCEPT ![t] = "done"]
         /\ UNCHANGED <<ok, run>>

AfterReport(t) ==
    IF IsLoop(t)
    THEN LET enough == Counted(t) >= HealthyThreshold IN
         /\ run' = [run EXCEPT ![t] = Counted(t)]
         /\ at' = [at EXCEPT ![t] = IF enough THEN "mark" ELSE "top"]
         /\ ok' = [ok EXCEPT ![t] = enough]
    ELSE /\ at' = [at EXCEPT ![t] = "done"]
         /\ UNCHANGED <<ok, run>>

AfterMark(t) ==
    /\ at' = [at EXCEPT ![t] = "settle"]
    /\ ok' = [ok EXCEPT ![t] = FALSE]
    /\ run' = [run EXCEPT ![t] = 0]

AfterSweep(s) ==
    LET own == {t \in Tasks : t = s \/ (t \in Probes /\ SweepOf(t) = s)} IN
    /\ at' = [t \in Tasks |-> IF t \in own THEN "off" ELSE at[t]]
    /\ ok' = [t \in Tasks |-> IF t \in own THEN FALSE ELSE ok[t]]
    /\ UNCHANGED run

\* What the step no longer needs is reset: the snapshot, the probe's result.
GoOn(t) ==
    /\ CASE at[t] = "report" -> AfterReport(t)
         [] at[t] = "mark" -> AfterMark(t)
         [] OTHER -> AfterSweep(t)
    /\ lock' = None /\ snap' = Fresh /\ torn' = FALSE
    /\ UNCHANGED <<cancelled, creating>>

\* The record is written and the lock released.
Store(t) ==
    /\ lock = t /\ ~creating
    /\ AliveTo(t)
    /\ rec' = Updated(t)
    /\ GoOn(t)
    /\ UNCHANGED <<surroundings, scanner, balancing>>

\* The write fails; it is logged and the task goes on.
StoreFails(t) ==
    /\ lock = t /\ ~creating
    /\ "valkey" \in Faults /\ budget > 0
    /\ budget' = budget - 1
    /\ GoOn(t)
    /\ UNCHANGED <<rec, node, limited, mode, monitor, scanner, balancing>>

\* A cancelled loop neither reads nor writes Valkey, and goes on as well.
StoreCancelled(t) ==
    /\ ~AliveTo(t)
    /\ (lock = t /\ ~creating) \/ (lock = None /\ WantsLock(t))
    /\ GoOn(t)
    /\ UNCHANGED <<rec, surroundings, scanner, balancing>>

-------------------------------------------------------------------------------
(* Sweeps: Start, checkAllEndpoints and checkEndpoint.                       *)

\* A tick; sweeps overlap, for nobody waits for the previous one.
StartSweep(s) ==
    /\ mode = "sweep" /\ at[s] = "off" /\ Unlimited
    /\ at' = [t \in Tasks |->
                CASE t = s -> "waiting"
                  [] t \in Probes /\ SweepOf(t) = s ->
                        IF Protocol(t) \in Served THEN "probing" ELSE "done"
                  [] OTHER -> at[t]]
    /\ UNCHANGED <<rec, surroundings, scanner, ok, run, cancelled, locking, torn, balancing>>

-------------------------------------------------------------------------------
(* Scans: StartEphemeralChecks.                                              *)

Booted(p) == at[<<Boot, p>>] = "done"

\* The one-time checks, HTTP before WebSocket.
BootProbe(p) ==
    /\ scan = "boot" /\ p \in Served /\ at[<<Boot, p>>] = "off"
    /\ (p = "ws" /\ "http" \in Served) => Booted("http")
    /\ at' = [at EXCEPT ![<<Boot, p>>] = "probing"]
    /\ UNCHANGED <<rec, surroundings, scanner, ok, run, cancelled, locking, torn, balancing>>

BootEnds ==
    /\ scan = "boot" /\ \A p \in Served : Booted(p)
    /\ scan' = "tick"
    /\ UNCHANGED <<rec, surroundings, view, entry, tasks, locking, torn, balancing>>

\* The ticker fires and the scan reads the record.
ScanReads ==
    /\ scan = "tick"
    /\ scan' = IF rec = Absent THEN "create" ELSE "act"
    /\ view' = IF rec = Absent THEN Fresh ELSE rec
    /\ UNCHANGED <<rec, surroundings, entry, tasks, locking, torn, balancing>>

ScanCreates ==
    /\ scan = "create"
    /\ scan' = "act"
    /\ rec' = Fresh
    /\ torn' = (torn \/ lock # None)
    /\ UNCHANGED <<surroundings, view, entry, tasks, locking, balancing>>

\* The scan goes on to the next endpoint; as nothing else comes of this fault,
\* it is not counted.
ScanFails ==
    /\ scan = "create"
    /\ "valkey" \in Faults
    /\ scan' = "tick"
    /\ UNCHANGED <<rec, surroundings, view, entry, tasks, locking, torn, balancing>>

Free(p) == {l \in Loops : Key[l] = p /\ at[l] = "off"}

\* Unhealthy protocols with no loop on the map get one; loops of healthy
\* protocols are stopped.  Bound: no loop starts while all of Loops are busy.
Wanting == {p \in Served : ~view.healthy[p] /\ entry[p] = None /\ Free(p) # {}}

Stopped == {p \in Served : view.healthy[p] /\ entry[p] # None}

Launch(start) ==
    /\ \A p \in Wanting : start[p] \in Free(p)
    /\ at' = [t \in Tasks |-> IF \E p \in Wanting : start[p] = t THEN "top" ELSE at[t]]
    /\ entry' = [p \in Protocols |-> IF p \in Stopped THEN None
                                     ELSE IF p \in Wanting THEN start[p]
                                     ELSE entry[p]]

ScanActs_ForgetsOnly ==
    /\ scan = "act"
    /\ scan' = "tick"
    /\ \/ limited /\ UNCHANGED <<at, entry, cancelled>>
       \/ /\ Unlimited
          /\ \E start \in [Wanting -> Loops] : Launch(start)
          /\ UNCHANGED cancelled
    /\ view' = Fresh
    /\ UNCHANGED <<rec, surroundings, ok, run, locking, torn, balancing>>

ScanActs ==
    /\ scan = "act"
    /\ scan' = "tick"
    /\ \/ limited /\ UNCHANGED <<at, entry, cancelled>>
       \/ /\ Unlimited
          /\ \E start \in [Wanting -> Loops] : Launch(start)
          /\ cancelled' = cancelled \cup {entry[p] : p \in Stopped}
    /\ view' = Fresh
    /\ UNCHANGED <<rec, surroundings, ok, run, locking, torn, balancing>>

-------------------------------------------------------------------------------
(* The loop of one protocol: runEphemeralCheckProtocol.                      *)

LoopTurns_Deaf(l) ==
    /\ at[l] = "top"
    /\ at' = [at EXCEPT ![l] = "probing"]
    /\ UNCHANGED <<rec, surroundings, scanner, ok, run, cancelled, locking, torn, balancing>>

\* The interval has passed.
LoopTurns(l) ==
    /\ at[l] = "top"
    /\ IF AliveTo(l)
       THEN /\ at' = [at EXCEPT ![l] = "probing"]
            /\ UNCHANGED <<run, cancelled>>
       ELSE /\ at' = [at EXCEPT ![l] = "off"]
            /\ run' = [run EXCEPT ![l] = 0]
            /\ cancelled' = cancelled \ {l}
    /\ UNCHANGED <<rec, surroundings, scanner, ok, locking, torn, balancing>>

LoopSettles_Stays(l) ==
    /\ at[l] = "settle"
    /\ at' = [at EXCEPT ![l] = "off"]
    /\ cancelled' = cancelled \ {l}
    /\ UNCHANGED <<rec, surroundings, scanner, ok, run, locking, torn, balancing>>

\* The loop takes whatever the map holds for its key, be it its own entry or
\* that of a later loop, cancels and removes it.
LoopSettles(l) ==
    LET p == Key[l] IN
    /\ at[l] = "settle"
    /\ at' = [at EXCEPT ![l] = "off"]
    /\ entry' = [entry EXCEPT ![p] = None]
    /\ cancelled' = (IF entry[p] = None THEN cancelled
                     ELSE cancelled \cup {entry[p]}) \ {l}
    /\ UNCHANGED <<rec, surroundings, scan, view, ok, run, locking, torn, balancing>>

-------------------------------------------------------------------------------
(* Load balancers.                                                           *)

Set(h, f) == hand' = [hand EXCEPT ![h] = f]
Moved(h, where) == [hand[h] EXCEPT !.at = where]

Usable(r, p) == r.checked[p] /\ r.healthy[p]

\* Only a protocol that is usable on the record at hand gets requests, and
\* only while the endpoint is not rate limited.
Route(h, p, r) ==
    \/ Usable(r, p) /\ Unlimited /\ Set(h, [Idle EXCEPT !.at = "sent", !.protocol = p])
    \/ (Usable(r, p) => limited) /\ Set(h, Idle)

\* A request comes in and looks at the cache.
Arrive(h, p) ==
    /\ hand[h].at = "idle"
    /\ IF cache[Host[h]] = None
       THEN Set(h, [Idle EXCEPT !.at = "fetch", !.protocol = p])
       ELSE Route(h, p, cache[Host[h]])
    /\ UNCHANGED <<rec, surroundings, scanner, tasks, locking, torn, streak, cache>>

Fetch(h) ==
    /\ hand[h].at = "fetch"
    /\ Set(h, IF rec = Absent THEN Moved(h, "create")
              ELSE [Moved(h, "fill") EXCEPT !.snap = rec])
    /\ UNCHANGED <<rec, surroundings, scanner, tasks, locking, torn, streak, cache>>

\* No record: GetEndpointStatus writes an empty one.
CreateForRequest(h) ==
    /\ hand[h].at = "create"
    /\ Set(h, [Moved(h, "fill") EXCEPT !.snap = Fresh])
    /\ rec' = Fresh
    /\ torn' = (torn \/ lock # None)
    /\ UNCHANGED <<surroundings, scanner, tasks, locking, streak, cache>>

Fill(h) ==
    /\ hand[h].at = "fill"
    /\ cache' = [cache EXCEPT ![Host[h]] = hand[h].snap]
    /\ Route(h, hand[h].protocol, hand[h].snap)
    /\ UNCHANGED <<rec, surroundings, scanner, tasks, locking, torn, streak>>

\* The counters stop at their thresholds: nothing asks how far beyond.
Tally(c, good) ==
    [failures |-> IF good THEN 0
                  ELSE IF c.failures < FailureThreshold THEN c.failures + 1
                  ELSE c.failures,
     successes |-> IF ~good THEN 0
                   ELSE IF c.successes < SuccessThreshold THEN c.successes + 1
                   ELSE c.successes]

Reached(c, good) ==
    IF good THEN c.successes >= SuccessThreshold ELSE c.failures >= FailureThreshold

\* The request succeeds or fails, and the balancer counts it.
Observe(h) ==
    LET p == hand[h].protocol
        b == Host[h]
        now == Tally(streak[b][p], node[p])
    IN
    /\ hand[h].at = "sent"
    /\ streak' = IF EphemeralEnabled THEN [streak EXCEPT ![b][p] = now] ELSE streak
    /\ Set(h, IF EphemeralEnabled /\ Reached(now, node[p])
              THEN [Moved(h, "mark") EXCEPT !.good = node[p]] ELSE Idle)
    /\ UNCHANGED <<rec, surroundings, scanner, tasks, locking, torn, cache>>

\* The record will be written if it says otherwise.
Marking(h, r) ==
    LET p == hand[h].protocol IN
    Set(h, IF r.healthy[p] = hand[h].good THEN Idle
           ELSE [Moved(h, "store") EXCEPT !.snap = [r EXCEPT !.healthy[p] = hand[h].good]])

\* Enough of a kind: the record is read ...
MarkReads(h) ==
    /\ hand[h].at = "mark"
    /\ IF rec = Absent THEN Set(h, Moved(h, "renew")) ELSE Marking(h, rec)
    /\ UNCHANGED <<rec, surroundings, scanner, tasks, locking, torn, streak, cache>>

\* ... or created, where it has been removed.
MarkCreates(h) ==
    /\ hand[h].at = "renew"
    /\ rec' = Fresh
    /\ torn' = (torn \/ lock # None)
    /\ Marking(h, Fresh)
    /\ UNCHANGED <<surroundings, scanner, tasks, locking, streak, cache>>

MarkStores(h) ==
    /\ hand[h].at = "store"
    /\ rec' = hand[h].snap
    /\ torn' = (torn \/ lock # None)
    /\ Set(h, Moved(h, "drop"))
    /\ UNCHANGED <<surroundings, scanner, tasks, locking, streak, cache>>

Invalidate(h) ==
    /\ hand[h].at = "drop"
    /\ cache' = [cache EXCEPT ![Host[h]] = None]
    /\ Set(h, Idle)
    /\ UNCHANGED <<rec, surroundings, scanner, tasks, locking, torn, streak>>

\* HEALTH_CACHE_TTL has passed.
CacheExpires_Unhealthy(b) ==
    /\ cache[b] # None
    /\ \A p \in Served : ~cache[b].healthy[p]
    /\ cache' = [cache EXCEPT ![b] = None]
    /\ UNCHANGED <<rec, surroundings, scanner, tasks, locking, torn, hand, streak>>

CacheExpires(b) ==
    /\ cache[b] # None
    /\ cache' = [cache EXCEPT ![b] = None]
    /\ UNCHANGED <<rec, surroundings, scanner, tasks, locking, torn, hand, streak>>

\* A call to Valkey fails: the endpoint is left out, or the mark is not made.
BalancerFails(h) ==
    /\ hand[h].at \in {"fetch", "create", "mark", "renew", "store"}
    /\ "valkey" \in Faults /\ budget > 0
    /\ budget' = budget - 1
    /\ Set(h, Idle)
    /\ UNCHANGED <<rec, node, limited, mode, monitor, scanner, tasks, locking, torn,
                   streak, cache>>

BalancerRestarts(b) ==
    /\ "balancer" \in Faults /\ budget > 0
    /\ budget' = budget - 1
    /\ hand' = [h \in Handlers |-> IF Host[h] = b THEN Idle ELSE hand[h]]
    /\ streak' = [streak EXCEPT ![b] = [p \in Protocols |-> Even]]
    /\ cache' = [cache EXCEPT ![b] = None]
    /\ monitor' = [monitor EXCEPT ![b] = Resting]
    /\ UNCHANGED <<rec, node, limited, mode, scanner, tasks, locking, torn>>

-------------------------------------------------------------------------------
(* The rate-limit monitor of a load balancer, once it has seen the endpoint  *)
(* recover.  It takes no lock, and no cache is invalidated.                  *)

Watch(b, where, r) ==
    monitor' = [monitor EXCEPT ![b] = [at |-> where, snap |-> r]]

\* All protocols of the endpoint are marked, on the word of an HTTP probe.
Lifted(r) ==
    [r EXCEPT !.healthy = [p \in Protocols |-> r.healthy[p] \/ p \in Served]]

\* The last probe it needs goes well.
MonitorSucceeds(b) ==
    /\ monitor[b].at = "idle" /\ limited
    /\ "http" \in Served /\ node["http"]
    /\ Watch(b, "read", Fresh)
    /\ UNCHANGED <<rec, node, limited, budget, mode, scanner, tasks, locking, torn, balancing>>

MonitorReads(b) ==
    /\ monitor[b].at = "read"
    /\ IF rec = Absent THEN Watch(b, "create", Fresh) ELSE Watch(b, "store", Lifted(rec))
    /\ UNCHANGED <<rec, node, limited, budget, mode, scanner, tasks, locking, torn, balancing>>

MonitorCreates(b) ==
    /\ monitor[b].at = "create"
    /\ rec' = Fresh
    /\ torn' = (torn \/ lock # None)
    /\ Watch(b, "store", Lifted(Fresh))
    /\ UNCHANGED <<node, limited, budget, mode, scanner, tasks, locking, balancing>>

MonitorStores(b) ==
    /\ monitor[b].at = "store"
    /\ rec' = monitor[b].snap
    /\ torn' = (torn \/ lock # None)
    /\ Watch(b, "lift", Fresh)
    /\ UNCHANGED <<node, limited, budget, mode, scanner, tasks, locking, balancing>>

\* Only now is the flag lifted, unless the write fails.
MonitorLifts(b) ==
    /\ monitor[b].at = "lift"
    /\ \E fails \in {f \in BOOLEAN : f => "valkey" \in Faults /\ budget > 0} :
         /\ limited' = (limited /\ fails)
         /\ budget' = IF fails THEN budget - 1 ELSE budget
    /\ Watch(b, "idle", Fresh)
    /\ UNCHANGED <<rec, node, mode, scanner, tasks, locking, torn, balancing>>

\* The record is not read or written: the monitor goes on to the flag.  As
\* nothing else comes of this fault, it is not counted.
MonitorFails(b) ==
    /\ monitor[b].at \in {"read", "create", "store"}
    /\ "valkey" \in Faults
    /\ Watch(b, "lift", Fresh)
    /\ UNCHANGED <<rec, node, limited, budget, mode, scanner, tasks, locking, torn, balancing>>

-------------------------------------------------------------------------------
(* The node and the rate-limit flag change.                                  *)

NodeChanges(p) ==
    /\ budget > 0
    /\ budget' = budget - 1
    /\ node' = [node EXCEPT ![p] = ~@]
    /\ UNCHANGED <<rec, limited, mode, monitor, scanner, tasks, locking, torn, balancing>>

LimitChanges ==
    /\ budget > 0 /\ "limit" \in Faults
    /\ budget' = budget - 1
    /\ limited' = ~limited
    /\ UNCHANGED <<rec, node, mode, monitor, scanner, tasks, locking, torn, balancing>>

\* CleanupStaleEndpoints of a process whose configuration does not have the
\* endpoint removes the record.
CleanedUp ==
    /\ budget > 0 /\ "cleanup" \in Faults
    /\ budget' = budget - 1
    /\ rec # Absent
    /\ rec' = Absent
    /\ torn' = (torn \/ lock # None)
    /\ UNCHANGED <<node, limited, mode, monitor, scanner, tasks, locking, balancing>>

-------------------------------------------------------------------------------

TakesTurn(t) == Acquire(t) \/ StoreCancelled(t)

Proceeds(t) ==
    \/ Probe(t)
    \/ CreateRecord(t) \/ Store(t)
    \/ IsLoop(t) /\ (LoopTurns(t) \/ LoopSettles(t))

ScanStep ==
    \/ \E p \in Protocols : BootProbe(p)
    \/ BootEnds \/ ScanReads \/ ScanCreates \/ ScanActs

HandlerStep(h) ==
    \/ Fetch(h) \/ CreateForRequest(h) \/ Fill(h) \/ Observe(h)
    \/ MarkReads(h) \/ MarkCreates(h) \/ MarkStores(h) \/ Invalidate(h)

MonitorStep(b) ==
    \/ MonitorSucceeds(b) \/ MonitorReads(b) \/ MonitorCreates(b)
    \/ MonitorStores(b) \/ MonitorLifts(b) \/ MonitorFails(b)

Surroundings ==
    \/ \E p \in Served : NodeChanges(p)
    \/ LimitChanges
    \/ CleanedUp
    \/ CheckerRestarts
    \/ ScanFails
    \/ \E t \in Tasks : AcquireBlind(t) \/ StoreFails(t)
    \/ \E b \in Balancers : BalancerRestarts(b)
    \/ \E h \in Handlers : BalancerFails(h)

Next ==
    \/ \E t \in Tasks : TakesTurn(t) \/ Proceeds(t)
    \/ \E s \in Sweeps : StartSweep(s)
    \/ ScanStep
    \/ \E h \in Handlers : HandlerStep(h)
    \/ \E h \in Handlers, p \in Served : Arrive(h, p)
    \/ \E b \in Balancers : CacheExpires(b) \/ MonitorStep(b)
    \/ Surroundings

Spec == Init /\ [][Next]_vars

\* Tickers fire, calls end and the mutex is handed on: Go serves the waiters
\* of a mutex in turn once one has waited for a millisecond.  Nothing is
\* assumed of the node, of the clients, of the faults or of the monitors.
Fairness ==
    /\ \A t \in Tasks : SF_vars(TakesTurn(t)) /\ WF_vars(Proceeds(t))
    /\ \A s \in Sweeps : WF_vars(StartSweep(s))
    /\ WF_vars(ScanStep)
    /\ \A h \in Handlers : WF_vars(HandlerStep(h))
    /\ \A b \in Balancers : WF_vars(CacheExpires(b))

FairSpec == Spec /\ Fairness

-------------------------------------------------------------------------------
(* Properties.                                                               *)

HealthyIn(r, p) == r # Absent /\ r.healthy[p]

Running(l) == at[l] # "off" /\ l \notin cancelled

\* What the probes behind a write have found of a protocol.
Found(t, p, good) ==
    IF t \in Sweeps THEN ok[<<t, p>>] = good ELSE Protocol(t) = p /\ ok[t] = good

CheckerWrites == lock # None /\ ~torn /\ rec' # rec /\ lock' = None

\* A loop that has not been told to stop is the one on the map: no protocol
\* is probed by two of them, and the scan can stop each one.
LoopsAreOwned ==
    \A l \in Loops : Running(l) => entry[Key[l]] = l

\* Unless another process wrote in between or the read failed, the checker
\* lifts a protocol only on a probe of that protocol that went well, and then
\* only at its first check or after enough of them in a row.
LiftIsEarned ==
    [][EphemeralEnabled /\ CheckerWrites =>
         \A p \in Protocols : ~HealthyIn(rec, p) /\ HealthyIn(rec', p) =>
            /\ Found(lock, p, TRUE)
            /\ \/ ~rec.checked[p]
               \/ at[lock] = "mark" /\ run[lock] >= HealthyThreshold]_vars

\* On the same terms, a task lowers a protocol only if its own probe of that
\* protocol failed: a recovery confirmed or a result written meanwhile by
\* another task is not reverted.
FallIsFound ==
    [][CheckerWrites =>
         \A p \in Protocols : HealthyIn(rec, p) /\ ~HealthyIn(rec', p) =>
            Found(lock, p, FALSE)]_vars

\* A protocol the node serves for good, while it is not rate limited, is
\* marked healthy for good, if two coincidences do not recur for ever: a
\* balancer's mark that a loop overwrites, for it may get the loop cancelled;
\* and a loop that finishes so late that it cancels its successor.
Undisturbed(p) ==
    /\ node[p] /\ ~limited
    /\ \A h \in Handlers : hand[h].at # "store"
    /\ \A l \in cancelled : Key[l] = p => at[l] \notin {"mark", "settle"}

ComesBack ==
    \A p \in Served : <>[]Undisturbed(p) => <>[]HealthyIn(rec, p)

\* Once a protocol is healthy for good its loops end.
LoopsEnd ==
    \A p \in Served :
        <>[](HealthyIn(rec, p) /\ ~limited) =>
            <>[](\A l \in Loops : Key[l] = p => at[l] = "off")

\* Once a protocol is unhealthy for good, no balancer goes on believing
\* otherwise.
CachesCatchUp ==
    \A p \in Served :
        <>[]~HealthyIn(rec, p) =>
            <>[](\A b \in Balancers : cache[b] # None => ~cache[b].healthy[p])
===============================================================================
