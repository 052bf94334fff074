------------------------------ MODULE CustomProbe ------------------------------
(* Failing-method detection for the HTTP side of one endpoint.  A load       *)
(* balancer whose request for an allowlisted method failed with a 5xx        *)
(* captures the method in Valkey, behind a gate that lets one capture pass   *)
(* per period (maybeSetCustomProbeMethod of internal/server/server.go); the  *)
(* checker's probes re-test it, and the loop that finds the endpoint well    *)
(* again clears it (checkHTTPHealth and runEphemeralCheckProtocol of         *)
(* internal/health/checker.go, with HEALTH_CHECK_INTERVAL = 0).              *)
(* The allowlist has one method for a chain type, so the target is captured  *)
(* or not.  Each mark of the health record is one step here: how its writers *)
(* race, and what its rate limit does, is the subject of EndpointHealth.     *)
(* HTTP has been checked before: what the first check of a record that was   *)
(* removed does is there, too.                                               *)
EXTENDS Integers

CONSTANTS
    Handlers,          \* request handlers of any balancers
    Loops,             \* goroutines of runEphemeralCheckProtocol
    Boot,              \* the check before the first scan
    HealthyThreshold,  \* EPHEMERAL_CHECKS_HEALTHY_THRESHOLD
    Faults,            \* subset of {"valkey", "checker", "cleanup"}
    MaxEvents,         \* bound: changes of the node, and faults
    None

Tasks == Loops \cup {Boot}

ASSUME CustomProbeAssumption ==
    /\ Boot \notin Loops /\ None \notin Loops
    /\ HealthyThreshold \in Nat \ {0} /\ MaxEvents \in Nat
    /\ Faults \subseteq {"valkey", "checker", "cleanup"}

VARIABLES
    healthy,    \* HealthyHTTP in Valkey
    target,     \* whether a method is captured
    gate,       \* whether the gate key exists
    node,       \* what the node serves: the allowlisted method, the rest
    budget,     \* events left
    hand,       \* where each handler is, and what its request asks for
    scan,       \* where StartEphemeralChecks is ...
    view,       \* ... and the flag it has read
    entry,      \* ephemeralChecks: the loop registered for HTTP
    cancelled,  \* loops whose context is cancelled
    at,         \* where each check is
    ok,         \* its result so far
    run,        \* consecutive successes of each loop
    stood,      \* history: the target has stood since the streak began, and
                \* each of its probes could read it
    proven      \* history: how often the method was served in such a streak

captured == <<target, gate>>
world == <<node, budget>>
scanner == <<scan, view, entry, cancelled>>
checks == <<at, ok, run>>
history == <<stood, proven>>
vars == <<healthy, captured, world, hand, scanner, checks, history>>

Asks == {"method", "rest"}

Idle == [at |-> "idle", asks |-> "rest"]

TypeOK ==
    /\ healthy \in BOOLEAN /\ target \in BOOLEAN /\ gate \in BOOLEAN
    /\ node \subseteq Asks /\ budget \in 0..MaxEvents
    /\ hand \in [Handlers -> [at : {"idle", "sent", "gate", "set"}, asks : Asks]]
    /\ scan \in {"boot", "tick", "act"} /\ view \in BOOLEAN
    /\ entry \in Loops \cup {None} /\ cancelled \subseteq Loops
    /\ at \in [Tasks -> {"off", "top", "probe", "look", "retest", "report",
                         "mark", "clear", "settle"}]
    /\ ok \in [Tasks -> BOOLEAN]
    /\ run \in [Loops -> 0..HealthyThreshold]
    /\ stood \in [Loops -> BOOLEAN] /\ proven \in [Loops -> 0..HealthyThreshold]

FreshChecker ==
    /\ scan' = "boot" /\ view' = FALSE /\ entry' = None /\ cancelled' = {}
    /\ at' = [t \in Tasks |-> IF t = Boot THEN "probe" ELSE "off"]
    /\ ok' = [t \in Tasks |-> FALSE]
    /\ run' = [l \in Loops |-> 0]
    /\ stood' = [l \in Loops |-> FALSE]
    /\ proven' = [l \in Loops |-> 0]

Init ==
    /\ healthy \in BOOLEAN /\ target = FALSE /\ gate = FALSE
    /\ node \in SUBSET Asks /\ budget = MaxEvents
    /\ hand = [h \in Handlers |-> Idle]
    /\ scan = "boot" /\ view = FALSE /\ entry = None /\ cancelled = {}
    /\ at = [t \in Tasks |-> IF t = Boot THEN "probe" ELSE "off"]
    /\ ok = [t \in Tasks |-> FALSE]
    /\ run = [l \in Loops |-> 0]
    /\ stood = [l \in Loops |-> FALSE]
    /\ proven = [l \in Loops |-> 0]

Spend(fault) ==
    /\ fault \in Faults /\ budget > 0
    /\ budget' = budget - 1

-------------------------------------------------------------------------------
(* Load balancers.                                                           *)

Moves(h, where) == hand' = [hand EXCEPT ![h].at = where]
Rests(h) == hand' = [hand EXCEPT ![h] = Idle]

\* A request chooses the endpoint while it counts as healthy.  One that goes
\* by a cached copy of the record is like one sent earlier.
Arrive(h, asks) ==
    /\ hand[h].at = "idle" /\ healthy
    /\ hand' = [hand EXCEPT ![h] = [at |-> "sent", asks |-> asks]]
    /\ UNCHANGED <<healthy, captured, world, scanner, checks, history>>

\* The balancer counts a success; whether it marks the record depends on its
\* debouncing, and so on failures.
Succeeds(h) ==
    /\ hand[h].at = "sent" /\ hand[h].asks \in node
    /\ healthy' \in {healthy, TRUE}
    /\ Rests(h)
    /\ UNCHANGED <<captured, world, scanner, checks, history>>

\* A 5xx answer to the allowlisted method goes on to the capture, whether or
\* not the endpoint was marked; a broken connection or another status does not.
Fails(h) ==
    /\ hand[h].at = "sent" /\ hand[h].asks \notin node
    /\ healthy' \in {healthy, FALSE}
    /\ \/ hand[h].asks = "method" /\ Moves(h, "gate")
       \/ Rests(h)
    /\ UNCHANGED <<captured, world, scanner, checks, history>>

\* SET NX: one of those that come while there is no gate gets it.
TryGate(h) ==
    /\ hand[h].at = "gate"
    /\ IF gate THEN Rests(h) ELSE Moves(h, "set")
    /\ gate' = TRUE
    /\ UNCHANGED <<healthy, target, world, scanner, checks, history>>

SetTarget(h) ==
    /\ hand[h].at = "set"
    /\ target' = TRUE
    /\ Rests(h)
    /\ UNCHANGED <<healthy, gate, world, scanner, checks, history>>

\* The two seconds are over, the client has left, Valkey fails or the process
\* ends; Valkey may have done what it was asked.
CaptureFails(h) ==
    /\ hand[h].at \in {"gate", "set"}
    /\ Spend("valkey")
    /\ gate' \in {gate, gate \/ hand[h].at = "gate"}
    /\ target' \in {target, target \/ hand[h].at = "set"}
    /\ Rests(h)
    /\ UNCHANGED <<healthy, node, scanner, checks, history>>

\* SET NX without EX.
GateExpires_Never ==
    gate /\ ~gate /\ UNCHANGED vars

\* customProbeRefreshPeriod has passed: threshold * interval, and ten seconds.
GateExpires ==
    /\ gate
    /\ gate' = FALSE
    /\ UNCHANGED <<healthy, target, world, hand, scanner, checks, history>>

-------------------------------------------------------------------------------
(* The checker: one check of the endpoint.                                   *)

Alive(t) == t \notin cancelled

\* The regular calls; a context that is cancelled fails them.
Probe(t) ==
    LET passes == "rest" \in node /\ Alive(t) IN
    /\ at[t] = "probe"
    /\ at' = [at EXCEPT ![t] = IF passes THEN "look" ELSE "report"]
    /\ ok' = [ok EXCEPT ![t] = passes]
    /\ UNCHANGED <<healthy, captured, world, hand, scanner, run, history>>

\* History: the checks of these loops say nothing of a target any more.
Forget(loops) ==
    /\ stood' = [l \in Loops |-> stood[l] /\ l \notin loops]
    /\ proven' = [l \in Loops |-> IF l \in loops THEN 0 ELSE proven[l]]

Look(t) ==
    /\ at[t] = "look" /\ Alive(t)
    /\ at' = [at EXCEPT ![t] = IF target THEN "retest" ELSE "report"]
    /\ UNCHANGED <<healthy, captured, world, hand, scanner, ok, run, history>>

\* The state cannot be read: the check stands as it is.
LookCancelled(t) ==
    /\ at[t] = "look" /\ ~Alive(t)
    /\ at' = [at EXCEPT ![t] = "report"]
    /\ Forget({t})
    /\ UNCHANGED <<healthy, captured, world, hand, scanner, ok, run>>

LookFails(t) ==
    /\ at[t] = "look" /\ Spend("valkey")
    /\ at' = [at EXCEPT ![t] = "report"]
    /\ Forget({t})
    /\ UNCHANGED <<healthy, captured, node, hand, scanner, ok, run>>

\* A node that serves getBlock may answer that the slot was skipped.
Answers == IF "method" \in node THEN {"block", "skipped"} ELSE {"error"}

Passes_Anyhow(t, answer) == Alive(t)

Passes_NotSkipped(t, answer) == answer = "block" /\ Alive(t)

Passes(t, answer) == answer # "error" /\ Alive(t)

Retest(t) ==
    /\ at[t] = "retest"
    /\ at' = [at EXCEPT ![t] = "report"]
    /\ \E answer \in Answers : ok' = [ok EXCEPT ![t] = Passes(t, answer)]
    /\ proven' = IF t \in Loops /\ stood[t] /\ "method" \in node
                 THEN [proven EXCEPT ![t] = @ + 1] ELSE proven
    /\ UNCHANGED <<healthy, captured, world, hand, scanner, run, stood>>

-------------------------------------------------------------------------------
(* The checker: what becomes of a check.                                     *)

\* A loop counts its successes, and starts again with a failure.
Counted(l) == IF ok[l] THEN run[l] + 1 ELSE 0

Judge_OneMore(t) ==
    IF t = Boot
    THEN at' = [at EXCEPT ![t] = "off"] /\ UNCHANGED <<run, proven>>
    ELSE /\ run' = [run EXCEPT ![t] = Counted(t)]
         /\ proven' = [proven EXCEPT ![t] = IF ok[t] THEN @ ELSE 0]
         /\ at' = [at EXCEPT ![t] =
                      IF Counted(t) > HealthyThreshold THEN "mark" ELSE "top"]

Judge(t) ==
    IF t = Boot
    THEN at' = [at EXCEPT ![t] = "off"] /\ UNCHANGED <<run, proven>>
    ELSE /\ run' = [run EXCEPT ![t] = Counted(t)]
         /\ proven' = [proven EXCEPT ![t] = IF ok[t] THEN @ ELSE 0]
         /\ at' = [at EXCEPT ![t] =
                      IF Counted(t) >= HealthyThreshold THEN "mark" ELSE "top"]

\* A check may lower the flag and never lifts it; a cancelled one writes
\* nothing.
Report(t) ==
    /\ at[t] = "report"
    /\ healthy' = (healthy /\ (ok[t] \/ ~Alive(t)))
    /\ Judge(t)
    /\ ok' = [ok EXCEPT ![t] = FALSE]
    /\ UNCHANGED <<captured, world, hand, scanner, stood>>

ReportFails(t) ==
    /\ at[t] = "report" /\ Spend("valkey")
    /\ Judge(t)
    /\ ok' = [ok EXCEPT ![t] = FALSE]
    /\ UNCHANGED <<healthy, captured, node, hand, scanner, stood>>

\* Enough successes: the endpoint is marked healthy ...
Mark(l) ==
    /\ at[l] = "mark"
    /\ healthy' = (healthy \/ Alive(l))
    /\ at' = [at EXCEPT ![l] = "clear"]
    /\ UNCHANGED <<captured, world, hand, scanner, ok, run, history>>

MarkFails(l) ==
    /\ at[l] = "mark" /\ Spend("valkey")
    /\ at' = [at EXCEPT ![l] = "clear"]
    /\ UNCHANGED <<healthy, captured, node, hand, scanner, ok, run, history>>

\* ... the target cleared, tested or not ...
Clear(l) ==
    /\ at[l] = "clear"
    /\ target' = (target /\ ~Alive(l))
    /\ Forget(IF Alive(l) THEN Loops ELSE {})
    /\ at' = [at EXCEPT ![l] = "settle"]
    /\ UNCHANGED <<healthy, gate, world, hand, scanner, ok, run>>

ClearFails(l) ==
    /\ at[l] = "clear" /\ Spend("valkey")
    /\ at' = [at EXCEPT ![l] = "settle"]
    /\ UNCHANGED <<healthy, captured, node, hand, scanner, ok, run, history>>

Gone(l) ==
    /\ at' = [at EXCEPT ![l] = "off"]
    /\ run' = [run EXCEPT ![l] = 0]
    /\ Forget({l})

\* ... and whatever loop the map holds cancelled and removed.
Settle(l) ==
    /\ at[l] = "settle"
    /\ entry' = None
    /\ cancelled' = (IF entry = None THEN cancelled ELSE cancelled \cup {entry}) \ {l}
    /\ Gone(l)
    /\ UNCHANGED <<healthy, captured, world, hand, scan, view, ok>>

\* The interval has passed.
Turn(l) ==
    /\ at[l] = "top" /\ Alive(l)
    /\ at' = [at EXCEPT ![l] = "probe"]
    /\ stood' = IF run[l] = 0 THEN [stood EXCEPT ![l] = target] ELSE stood
    /\ UNCHANGED <<healthy, captured, world, hand, scanner, ok, run, proven>>

Leave(l) ==
    /\ at[l] = "top" /\ ~Alive(l)
    /\ cancelled' = cancelled \ {l}
    /\ Gone(l)
    /\ UNCHANGED <<healthy, captured, world, hand, scan, view, entry, ok>>

-------------------------------------------------------------------------------
(* The scan, and the surroundings.                                           *)

BootEnds ==
    /\ scan = "boot" /\ at[Boot] = "off"
    /\ scan' = "tick"
    /\ UNCHANGED <<healthy, captured, world, hand, view, entry, cancelled, checks, history>>

ScanReads ==
    /\ scan = "tick"
    /\ scan' = "act" /\ view' = healthy
    /\ UNCHANGED <<healthy, captured, world, hand, entry, cancelled, checks, history>>

Stop ==
    /\ view /\ entry # None
    /\ cancelled' = cancelled \cup {entry} /\ entry' = None
    /\ UNCHANGED at

\* Bound: no loop starts while all of Loops are busy.
Launch ==
    /\ ~view /\ entry = None
    /\ \E l \in Loops :
          /\ at[l] = "off"
          /\ at' = [at EXCEPT ![l] = "top"] /\ entry' = l
    /\ UNCHANGED cancelled

Nothing ==
    /\ IF view THEN entry = None ELSE entry # None \/ \A l \in Loops : at[l] # "off"
    /\ UNCHANGED <<at, entry, cancelled>>

ScanActs ==
    /\ scan = "act"
    /\ scan' = "tick" /\ view' = FALSE
    /\ Stop \/ Launch \/ Nothing
    /\ UNCHANGED <<healthy, captured, world, hand, ok, run, history>>

NodeChanges ==
    /\ budget > 0 /\ budget' = budget - 1
    /\ node' \in (SUBSET Asks) \ {node}
    /\ UNCHANGED <<healthy, captured, hand, scanner, checks, history>>

CheckerRestarts ==
    /\ Spend("checker")
    /\ FreshChecker
    /\ UNCHANGED <<healthy, captured, node, hand>>

\* CleanupStaleEndpoints of a process whose configuration does not have the
\* endpoint deletes the target, the gate or both: a gate may have been set after
\* the keys were listed.
CleanedUp ==
    /\ Spend("cleanup")
    /\ target' \in {target, FALSE} /\ gate' \in {gate, FALSE}
    /\ captured' # captured
    /\ Forget(IF target' = target THEN {} ELSE Loops)
    /\ UNCHANGED <<healthy, node, hand, scanner, checks>>

-------------------------------------------------------------------------------

HandlerStep(h) == Succeeds(h) \/ Fails(h) \/ TryGate(h) \/ SetTarget(h)

CheckStep(t) ==
    \/ Probe(t) \/ Look(t) \/ LookCancelled(t) \/ Retest(t) \/ Report(t)

LoopStep(l) == Turn(l) \/ Leave(l) \/ Mark(l) \/ Clear(l) \/ Settle(l)

ScanStep == BootEnds \/ ScanReads \/ ScanActs

Surroundings ==
    \/ NodeChanges \/ CheckerRestarts \/ CleanedUp
    \/ \E t \in Tasks : LookFails(t) \/ ReportFails(t)
    \/ \E l \in Loops : MarkFails(l) \/ ClearFails(l)
    \/ \E h \in Handlers : CaptureFails(h)

Next ==
    \/ \E h \in Handlers : HandlerStep(h)
    \/ \E h \in Handlers, asks \in Asks : Arrive(h, asks)
    \/ \E t \in Tasks : CheckStep(t)
    \/ \E l \in Loops : LoopStep(l)
    \/ GateExpires \/ ScanStep
    \/ Surroundings

Spec == Init /\ [][Next]_vars

\* Calls end, tickers fire and keys expire.  Clients need not send anything.
Fairness ==
    /\ \A h \in Handlers : WF_vars(HandlerStep(h))
    /\ \A t \in Tasks : WF_vars(CheckStep(t))
    /\ \A l \in Loops : WF_vars(LoopStep(l))
    /\ WF_vars(ScanStep) /\ WF_vars(GateExpires)

FairSpec == Spec /\ Fairness

-------------------------------------------------------------------------------
(* Properties.                                                               *)

\* A loop lifts an endpoint whose method was captured before its streak began
\* only if the node has served that method at each check of the streak
\* (README, "Failing-Method Detection"), however balancers capture and other
\* loops clear it meanwhile; a check that could not read the target is trusted.
TargetIsProven ==
    [][\A l \in Loops :
         at[l] = "mark" /\ ~healthy /\ healthy' /\ at'[l] = "clear" /\ stood[l] =>
             proven[l] >= HealthyThreshold]_vars

\* Requests that fail at the method again and again get it captured again and
\* again: no refused capture, crash between gate and target or clearing of an
\* untested target keeps it out for good.
KeepsCapturing ==
    []<>(\E h \in Handlers : hand[h].at = "gate") => []<>target

\* An endpoint whose node serves everything for good is marked healthy for
\* good, whatever is captured and however late it was; if one coincidence does
\* not recur for ever, a loop that ends so late that it cancels its successor.
Undisturbed ==
    /\ node = Asks
    /\ \A l \in cancelled : at[l] \notin {"mark", "clear", "settle"}

ComesBack == <>[]Undisturbed => <>[]healthy
===============================================================================
