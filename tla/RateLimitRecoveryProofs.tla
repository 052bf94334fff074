------------------------ MODULE RateLimitRecoveryProofs ------------------------
(* What holds of RateLimitRecovery for any number of replicas, handlers,     *)
(* monitor slots and checkers, any configuration and every misfortune: its   *)
(* types, the claims and the soundness of the record.  The budget, the streak *)
(* and the backoff are kept only by a replica of its own, and their theorems *)
(* assume one.                                                               *)
EXTENDS RateLimitRecovery, TLAPS

-------------------------------------------------------------------------------
(* The transformations of the record keep its shape.                         *)

\* Escalating a backoff yields a natural number.
LEMMA EscalationType ==
  ASSUME NEW b \in Nat
  PROVE  Escalated(b) \in Nat
<1>1. MultNum \in Nat /\ MultDen \in Nat \ {0} /\ MaxBackoff \in Nat
  BY ConfigAssumption
<1>2. b * MultNum \in Nat
  BY <1>1
<1>3. \A x \in Nat, y \in Nat \ {0} : x \div y \in Nat
  OBVIOUS
<1>4. (b * MultNum) \div MultDen \in Nat
  BY <1>1, <1>2, <1>3
<1> QED
  BY <1>1, <1>4 DEF Escalated, MinOf

\* What a signal makes of a record is a record.
LEMMA SignalTypes ==
  ASSUME NEW s \in Record, NEW seed \in Seeds
  PROVE  Limited(s, seed) \in Record /\ CheckerLimited(s, seed) \in Record
<1>1. seed \in Nat
  BY ConfigAssumption
<1> QED
  BY <1>1 DEF Limited, CheckerLimited, Stamped, Record

\* So is what a monitor, or the passing of time, makes of it.
LEMMA LoopTypes ==
  ASSUME NEW s \in Record
  PROVE  /\ NoRecord \in Record
         /\ CycleReset(s) \in Record
         /\ Attempted(s) \in Record
         /\ Succeeded(s) \in Record
         /\ Failed(s) \in Record
         /\ Aged(s) \in Record
         /\ NextBackoff(s) \in Nat
<1>1. InitialBackoff \in Nat
  BY ConfigAssumption
<1>2. s.attempts + 1 \in Nat /\ s.succ + 1 \in Nat
  BY DEF Record
<1>3. NextBackoff(s) \in Nat
  BY <1>1 DEF NextBackoff, Record
<1>4. Attempted(s) \in Record
  <2> DEFINE b == IF s.attempts = 0 THEN NextBackoff(s)
                  ELSE Escalated(NextBackoff(s))
  <2>1. b \in Nat
    BY <1>3, EscalationType
  <2>2. Attempted(s) = [s EXCEPT !.attempts = @ + 1, !.backoff = b]
    BY DEF Attempted
  <2> HIDE DEF b
  <2> QED
    BY <2>1, <2>2, <1>2 DEF Record
<1>5. NoRecord \in Record /\ Aged(s) \in Record /\ Failed(s) \in Record
  BY DEF NoRecord, Aged, Failed, Record
<1>6. CycleReset(s) \in Record /\ Succeeded(s) \in Record
  BY <1>1, <1>2 DEF CycleReset, Succeeded, Record
<1> QED
  BY <1>3, <1>4, <1>5, <1>6

-------------------------------------------------------------------------------
(* Type correctness.                                                         *)

\* The initial state is well typed.
LEMMA InitTypeOK == Init => TypeOK
<1>1. NoRecord \in Record
  BY DEF NoRecord, Record
<1>2. MaxRetries \in Nat /\ RequiredSuccesses \in Nat
  BY ConfigAssumption
<1> QED
  BY <1>1, <1>2
     DEF Init, TypeOK, Phases, HandlerStates, MonitorStates

\* A handler step keeps the types.
LEMMA HandlerTypeOK ==
  ASSUME TypeOK, NEW h \in Procs, Handler(h)
  PROVE  TypeOK'
<1> USE DEF TypeOK, HandlerStates, handlerVars, monitorVars, store, history
<1>1. NoRecord \in Record
  BY DEF NoRecord, Record
<1>2. CASE ReadForSignal(h)
  <2>1. PICK seed \in Seeds :
          hst' = [hst EXCEPT ![h] = IF h \in Handlers THEN Limited(rl, seed)
                                    ELSE CheckerLimited(rl, seed)]
    BY <1>2 DEF ReadForSignal
  <2>2. Limited(rl, seed) \in Record /\ CheckerLimited(rl, seed) \in Record
    BY SignalTypes
  <2> QED
    BY <1>2, <2>1, <2>2 DEF ReadForSignal
<1>3. CASE WriteSignal(h)
  BY <1>1, <1>3, ConfigAssumption DEF WriteSignal, EaseAll
<1>4. CASE WriteSignalFails(h)
  BY <1>1, <1>4 DEF WriteSignalFails
<1> QED
  BY <1>2, <1>3, <1>4 DEF Handler

\* So does a step of StartMonitoring.
LEMMA StarterTypeOK ==
  ASSUME TypeOK, NEW h \in Handlers, Starter(h)
  PROVE  TypeOK'
<1> USE DEF TypeOK, HandlerStates, MonitorStates, monitorVars, store, history
<1>1. CASE StartMonitoring(h)
  BY <1>1 DEF StartMonitoring
<1>2. CASE SpawnMonitor(h)
  BY <1>2 DEF SpawnMonitor
<1> QED
  BY <1>1, <1>2 DEF Starter

\* So does a monitor.
LEMMA MonitorTypeOK ==
  ASSUME TypeOK, NEW m \in Monitors, Monitor(m)
  PROVE  TypeOK'
<1> USE DEF TypeOK, MonitorStates, MoveTo, handlerVars, store, history
<1>1. /\ NoRecord \in Record /\ CycleReset(rl) \in Record
      /\ Attempted(rl) \in Record /\ NextBackoff(rl) \in Nat
  BY LoopTypes
<1>2. /\ mst[m] \in Record /\ NextBackoff(mst[m]) \in Nat
      /\ Succeeded(mst[m]) \in Record /\ Failed(mst[m]) \in Record
  BY LoopTypes
<1>3. /\ MinOf(probes + 1, MaxRetries + 1) \in 0 .. MaxRetries + 1
      /\ MinOf(streak + 1, RequiredSuccesses) \in 0 .. RequiredSuccesses
      /\ 0 \in 0 .. MaxRetries + 1 /\ 0 \in 0 .. RequiredSuccesses
  BY ConfigAssumption DEF MinOf
<1>4. CASE LoadState(m)
  BY <1>1, <1>4 DEF LoadState, ChooseWait
<1>5. CASE LoadPastCycle(m)
  BY <1>1, <1>5 DEF LoadPastCycle
<1>6. CASE WriteReset(m)
  BY <1>1, <1>2, <1>3, <1>6 DEF WriteReset, ChooseWait
<1>7. CASE GiveUpEarly(m)
  BY <1>1, <1>7 DEF GiveUpEarly
<1>8. CASE WaitOver(m) \/ StopChecking(m) \/ LeaveGroup(m)
  BY <1>8 DEF WaitOver, StopChecking, LeaveGroup
<1>9. CASE BeginAttempt(m)
  BY <1>1, <1>9 DEF BeginAttempt
<1>10. CASE RetryCheck(m)
  BY <1>1, <1>10 DEF RetryCheck
<1>11. CASE ProbeSucceeds(m)
  BY <1>1, <1>2, <1>3, <1>11 DEF ProbeSucceeds, CountProbe, EaseAll
<1>12. CASE ProbeFails(m)
  BY <1>2, <1>3, <1>12 DEF ProbeFails, CountProbe
<1>13. CASE SaveAttempt(m)
  BY <1>1, <1>2, <1>13 DEF SaveAttempt
<1>14. CASE MarkHealthy(m)
  BY <1>14 DEF MarkHealthy
<1>15. CASE LiftLimit(m)
  BY <1>2, <1>3, <1>15 DEF LiftLimit, EaseAll
<1>16. CASE DropClaim(m)
  BY <1>16, ProcessAssumption DEF DropClaim
<1> QED
  BY <1>4, <1>5, <1>6, <1>7, <1>8, <1>9, <1>10, <1>11, <1>12, <1>13, <1>14,
     <1>15, <1>16 DEF Monitor

\* So does a replica that stops, dies or boots.
LEMMA ReplicaTypeOK ==
  ASSUME TypeOK, NEW r \in Replicas, Replica(r)
  PROVE  TypeOK'
<1> USE DEF TypeOK, Phases, HandlerStates, MonitorStates,
            handlerVars, monitorVars, store, history
<1>1. NoRecord \in Record
  BY DEF NoRecord, Record
<1>2. CASE BeginShutdown(r)
  BY <1>2 DEF BeginShutdown
<1>3. CASE SchedulerDrained(r)
  BY <1>3 DEF SchedulerDrained
<1>4. CASE DrainTimesOut(r)
  BY <1>4 DEF DrainTimesOut
<1>5. CASE Terminate(r)
  BY <1>1, <1>5 DEF Terminate
<1>6. CASE Boot(r)
  BY <1>6 DEF Boot
<1> QED
  BY <1>2, <1>3, <1>4, <1>5, <1>6 DEF Replica

\* So do the surroundings.
LEMMA EnvironmentTypeOK == TypeOK /\ Environment => TypeOK'
<1> SUFFICES ASSUME TypeOK, Environment
             PROVE  TypeOK'
  OBVIOUS
<1> USE DEF TypeOK, handlerVars, monitorVars, history
<1>1. NoRecord \in Record /\ \A s \in Record : Aged(s) \in Record
  BY LoopTypes DEF NoRecord, Record
<1>2. CASE ProviderTurns
  BY <1>2 DEF ProviderTurns
<1>3. CASE MarkUnhealthy
  BY <1>3 DEF MarkUnhealthy
<1>4. CASE ResetAfterPasses
  BY <1>1, <1>4 DEF ResetAfterPasses
<1>5. CASE RecordExpires
  BY <1>1, <1>5, ConfigAssumption DEF RecordExpires, EaseAll
<1> QED
  BY <1>2, <1>3, <1>4, <1>5 DEF Environment

\* Every step does.
LEMMA TypeStep == TypeOK /\ [Next]_vars => TypeOK'
<1> SUFFICES ASSUME TypeOK, [Next]_vars
             PROVE  TypeOK'
  OBVIOUS
<1>1. CASE Next
  BY <1>1, HandlerTypeOK, StarterTypeOK, MonitorTypeOK, ReplicaTypeOK,
     EnvironmentTypeOK DEF Next
<1>2. CASE UNCHANGED vars
  BY <1>2 DEF vars, store, handlerVars, monitorVars, history, TypeOK
<1> QED
  BY <1>1, <1>2

\* Every variable keeps its shape, for any number of processes.
THEOREM TypeCorrect == Spec => []TypeOK
  BY InitTypeOK, TypeStep, PTL DEF Spec

-------------------------------------------------------------------------------
(* The claim on a key.  A monitor and a starting handler both hold the claim *)
(* of their replica, and never two of them at once.                          *)

Spawning(h) == hpc[h] = "spawn"
Alive(m) == mpc[m] # "off"

ClaimInv ==
  /\ \A m \in Monitors : Alive(m) => active[Home[m]]
  /\ \A h \in Handlers : Spawning(h) => active[Home[h]]
  /\ \A m \in Monitors, h \in Handlers :
       Home[m] = Home[h] => ~(Alive(m) /\ Spawning(h))
  /\ \A g, h \in Handlers :
       g # h /\ Home[g] = Home[h] => ~(Spawning(g) /\ Spawning(h))
  /\ OneMonitorPerReplica
  /\ ClaimIsOwned

\* A step that neither wakes nor ends a monitor, starts no spawn and touches
\* no claim keeps the invariant.
LEMMA ClaimFrame ==
  ASSUME ClaimInv, active' = active,
         \A m \in Monitors : Alive(m)' <=> Alive(m),
         \A h \in Handlers : Spawning(h)' <=> Spawning(h)
  PROVE  ClaimInv'
BY DEF ClaimInv, OneMonitorPerReplica, ClaimIsOwned, Alive, Spawning

\* Claiming the key, and handing the claim to a new monitor.
LEMMA StarterClaim ==
  ASSUME TypeOK, ClaimInv, NEW h \in Handlers, Starter(h)
  PROVE  ClaimInv'
<1> USE ProcessAssumption
        DEF TypeOK, ClaimInv, OneMonitorPerReplica, ClaimIsOwned, Alive,
            Spawning, Procs, monitorVars
<1>1. CASE StartMonitoring(h) /\ active[Home[h]]
  BY <1>1 DEF StartMonitoring
<1>2. CASE StartMonitoring(h) /\ ~active[Home[h]]
  BY <1>2 DEF StartMonitoring
<1>3. CASE SpawnMonitor(h)
  BY <1>3 DEF SpawnMonitor
<1> QED
  BY <1>1, <1>2, <1>3 DEF Starter

\* A monitor keeps its claim until DropClaim, its last step.
LEMMA MonitorClaim ==
  ASSUME TypeOK, ClaimInv, NEW m \in Monitors, Monitor(m)
  PROVE  ClaimInv'
<1>1. CASE DropClaim(m)
  BY <1>1, ProcessAssumption
     DEF DropClaim, MoveTo, TypeOK, ClaimInv, OneMonitorPerReplica,
         ClaimIsOwned, Alive, Spawning, Procs, handlerVars
<1>2. CASE ~DropClaim(m)
  <2>1. /\ active' = active /\ hpc' = hpc
        /\ \E to \in MonitorStates \ {"off"} :
             mpc[m] # "off" /\ mpc' = [mpc EXCEPT ![m] = to]
    BY <1>2 DEF Monitor, MonitorStates, MoveTo, handlerVars, LoadState,
         LoadPastCycle, WriteReset, GiveUpEarly, WaitOver, BeginAttempt,
         StopChecking, RetryCheck, ProbeSucceeds, ProbeFails, SaveAttempt,
         MarkHealthy, LiftLimit, LeaveGroup
  <2> QED
    BY <2>1, ClaimFrame DEF Alive, Spawning, TypeOK
<1> QED
  BY <1>1, <1>2

\* A replica that dies takes its claim and its goroutines with it.
LEMMA ReplicaClaim ==
  ASSUME TypeOK, ClaimInv, NEW r \in Replicas, Replica(r)
  PROVE  ClaimInv'
<1>1. CASE Terminate(r)
  BY <1>1, ProcessAssumption
     DEF Terminate, TypeOK, ClaimInv, OneMonitorPerReplica, ClaimIsOwned,
         Alive, Spawning, Procs
<1>2. CASE ~Terminate(r)
  BY <1>2, ClaimFrame
     DEF Replica, BeginShutdown, SchedulerDrained, DrainTimesOut, Boot,
         handlerVars, monitorVars, Alive, Spawning
<1> QED
  BY <1>1, <1>2

\* Nobody holds a claim at first.
LEMMA InitClaim == Init => ClaimInv
BY ProcessAssumption
   DEF Init, ClaimInv, OneMonitorPerReplica, ClaimIsOwned, Alive, Spawning, Procs

\* Every step keeps the claims in order.
LEMMA ClaimStep == TypeOK /\ ClaimInv /\ [Next]_vars => ClaimInv'
<1> SUFFICES ASSUME TypeOK, ClaimInv, [Next]_vars
             PROVE  ClaimInv'
  OBVIOUS
<1>1. ASSUME NEW h \in Procs, Handler(h)
      PROVE  ClaimInv'
  BY <1>1, ClaimFrame
     DEF Handler, ReadForSignal, WriteSignal, WriteSignalFails, TypeOK,
         Alive, Spawning, Procs, monitorVars
<1>2. CASE Environment
  BY <1>2, ClaimFrame
     DEF Environment, ProviderTurns, MarkUnhealthy, ResetAfterPasses,
         RecordExpires, Alive, Spawning, handlerVars, monitorVars
<1>3. CASE UNCHANGED vars
  BY <1>3, ClaimFrame
     DEF vars, Alive, Spawning, handlerVars, monitorVars
<1> QED
  BY <1>1, <1>2, <1>3, StarterClaim, MonitorClaim, ReplicaClaim DEF Next

\* A replica never runs two monitors of the endpoint, and its claim on the
\* key always has an owner, whatever signals, errors, shutdowns and crashes.
THEOREM ClaimCorrect == Spec => []ClaimsHold
<1>1. ClaimInv => ClaimsHold
  BY DEF ClaimInv, ClaimsHold
<1> QED
  BY <1>1, InitClaim, ClaimStep, TypeCorrect, PTL DEF Spec

-------------------------------------------------------------------------------
(* The record.  Every copy in flight is one the code could have stored, so   *)
(* it does not matter whose write comes last.                                *)

Sound(s) ==
  /\ s.attempts =< MaxRetries
  /\ s.succ < RequiredSuccesses
  /\ ~s.limited => s = NoRecord
  /\ s.limited => s.first # "unset"

RecordInv ==
  /\ Sound(rl)
  /\ \A h \in Procs : Sound(hst[h])
  /\ \A m \in Monitors : Sound(mst[m])
  /\ \A m \in Monitors : mpc[m] = "probe" => mst[m].limited

\* What handleRateLimit and the checker's handler write is sound.
LEMMA SoundSignals ==
  ASSUME NEW s \in Record, Sound(s), NEW seed \in Seeds
  PROVE  /\ Sound(Limited(s, seed))
         /\ Sound(CheckerLimited(s, seed))
<1>1. MaxRetries \in Nat /\ RequiredSuccesses \in Nat \ {0}
  BY ConfigAssumption
<1> QED
  BY <1>1 DEF Sound, Limited, CheckerLimited, Stamped, Record, NoRecord

\* So is every transformation of a monitor, under the guards of its code.
LEMMA SoundLoop ==
  ASSUME NEW s \in Record, Sound(s)
  PROVE  /\ Sound(NoRecord)
         /\ Sound(Aged(s))
         /\ ShouldReset(s) => Sound(CycleReset(s))
         /\ s.limited /\ s.attempts < MaxRetries
              => Sound(Attempted(s)) /\ Attempted(s).limited
         /\ s.limited /\ ~EnoughSuccesses(Succeeded(s)) => Sound(Succeeded(s))
         /\ s.limited => Sound(Failed(s))
<1>1. MaxRetries \in Nat /\ RequiredSuccesses \in Nat \ {0}
  BY ConfigAssumption
<1>2. s.attempts \in Nat /\ s.succ \in Nat
  BY DEF Record
<1>3. Sound(NoRecord)
  BY <1>1 DEF Sound, NoRecord
<1>4. Sound(Aged(s)) /\ (ShouldReset(s) => Sound(CycleReset(s)))
  <2>1. CASE s.limited
    BY <2>1, <1>1 DEF Sound, Aged, CycleReset, Record
  <2>2. CASE ~s.limited
    <3>1. s = NoRecord /\ s.first = "unset"
      BY <2>2 DEF Sound, NoRecord
    <3>2. Aged(s) = NoRecord
      BY <3>1 DEF Aged, NoRecord
    <3> QED
      BY <1>3, <3>1, <3>2 DEF ShouldReset
  <2> QED
    BY <2>1, <2>2
<1>5. s.limited /\ s.attempts < MaxRetries
        => Sound(Attempted(s)) /\ Attempted(s).limited
  BY <1>1, <1>2 DEF Sound, Attempted, Record
<1>6. s.limited /\ ~EnoughSuccesses(Succeeded(s)) => Sound(Succeeded(s))
  BY <1>1, <1>2 DEF Sound, Succeeded, EnoughSuccesses, Record
<1>7. s.limited => Sound(Failed(s))
  BY <1>1 DEF Sound, Failed, Record
<1> QED
  BY <1>3, <1>4, <1>5, <1>6, <1>7

\* Reading and writing a signal keeps every copy sound.
LEMMA HandlerSound ==
  ASSUME TypeOK, RecordInv, NEW h \in Procs, Handler(h)
  PROVE  RecordInv'
<1> USE DEF RecordInv, TypeOK, store, handlerVars, monitorVars
<1>1. Sound(NoRecord)
  BY SoundLoop
<1>2. CASE ReadForSignal(h)
  <2>1. PICK seed \in Seeds :
          hst' = [hst EXCEPT ![h] = IF h \in Handlers THEN Limited(rl, seed)
                                    ELSE CheckerLimited(rl, seed)]
    BY <1>2 DEF ReadForSignal
  <2>2. Sound(Limited(rl, seed)) /\ Sound(CheckerLimited(rl, seed))
    BY SoundSignals
  <2> QED
    BY <1>2, <2>1, <2>2 DEF ReadForSignal
<1>3. CASE WriteSignal(h)
  BY <1>1, <1>3 DEF WriteSignal
<1>4. CASE WriteSignalFails(h)
  BY <1>1, <1>4 DEF WriteSignalFails
<1> QED
  BY <1>2, <1>3, <1>4 DEF Handler

\* So does every step of a monitor.
LEMMA MonitorSound ==
  ASSUME TypeOK, RecordInv, NEW m \in Monitors, Monitor(m)
  PROVE  RecordInv'
<1> USE DEF RecordInv, TypeOK, MoveTo, store, handlerVars
<1>1. /\ Sound(NoRecord)
      /\ ShouldReset(rl) => Sound(CycleReset(rl))
      /\ rl.limited /\ rl.attempts < MaxRetries
           => Sound(Attempted(rl)) /\ Attempted(rl).limited
  BY SoundLoop
<1>2. mpc[m] = "probe" =>
        /\ ~EnoughSuccesses(Succeeded(mst[m])) => Sound(Succeeded(mst[m]))
        /\ Sound(Failed(mst[m]))
  BY SoundLoop
<1>3. CASE LoadState(m) \/ WaitOver(m) \/ StopChecking(m) \/ MarkHealthy(m)
           \/ LeaveGroup(m) \/ DropClaim(m)
  BY <1>3 DEF LoadState, WaitOver, StopChecking, MarkHealthy, LeaveGroup,
              DropClaim
<1>4. CASE LoadPastCycle(m)
  BY <1>1, <1>4 DEF LoadPastCycle
<1>5. CASE WriteReset(m)
  BY <1>1, <1>5 DEF WriteReset
<1>6. CASE GiveUpEarly(m) \/ RetryCheck(m)
  BY <1>1, <1>6 DEF GiveUpEarly, RetryCheck
<1>7. CASE BeginAttempt(m)
  BY <1>1, <1>7 DEF BeginAttempt
<1>8. CASE ProbeSucceeds(m)
  BY <1>1, <1>2, <1>8 DEF ProbeSucceeds
<1>9. CASE ProbeFails(m)
  BY <1>2, <1>9 DEF ProbeFails
<1>10. CASE SaveAttempt(m)
  BY <1>1, <1>10 DEF SaveAttempt
<1>11. CASE LiftLimit(m)
  BY <1>11 DEF LiftLimit
<1> QED
  BY <1>3, <1>4, <1>5, <1>6, <1>7, <1>8, <1>9, <1>10, <1>11 DEF Monitor

\* There is nothing to be unsound at first.
LEMMA InitRecord == Init => RecordInv
<1>1. Sound(NoRecord)
  BY ConfigAssumption DEF NoRecord, Sound
<1> QED
  BY <1>1 DEF Init, RecordInv

\* Every step keeps every copy sound.
LEMMA RecordStep == TypeOK /\ RecordInv /\ [Next]_vars => RecordInv'
<1> SUFFICES ASSUME TypeOK, RecordInv, [Next]_vars
             PROVE  RecordInv'
  OBVIOUS
<1> USE DEF RecordInv, store, handlerVars, monitorVars
<1>1. Sound(NoRecord) /\ \A s \in Record : Sound(s) => Sound(Aged(s))
  BY SoundLoop DEF RecordInv, TypeOK
<1>2. ASSUME NEW h \in Handlers, Starter(h)
      PROVE  RecordInv'
  BY <1>2 DEF Starter, StartMonitoring, SpawnMonitor, TypeOK
<1>3. ASSUME NEW r \in Replicas, Replica(r)
      PROVE  RecordInv'
  BY <1>1, <1>3 DEF Replica, BeginShutdown, SchedulerDrained, DrainTimesOut,
                    Terminate, Boot
<1>4. CASE ProviderTurns \/ MarkUnhealthy
  BY <1>4 DEF ProviderTurns, MarkUnhealthy
<1>5. CASE ResetAfterPasses
  <2>1. \A s \in Record : Aged(s).limited = s.limited
    BY DEF Aged, Record
  <2> QED
    BY <1>1, <1>5, <2>1 DEF ResetAfterPasses, TypeOK
<1>6. CASE RecordExpires
  BY <1>1, <1>6 DEF RecordExpires
<1>7. CASE UNCHANGED vars
  BY <1>7 DEF vars
<1> QED
  BY <1>2, <1>3, <1>4, <1>5, <1>6, <1>7, HandlerSound, MonitorSound
     DEF Next, Environment

\* However many processes write the record last-write-wins, the counters stay
\* in their budgets, a lifted record carries nothing of its past episode, and
\* a limited one knows when it began.
THEOREM RecordCorrect == Spec => []RecordIsSound
<1>1. RecordInv => RecordIsSound
  BY DEF RecordInv, Sound, RecordIsSound, CountersInBudget, LiftedIsClean,
         LimitedIsStamped
<1> QED
  BY <1>1, InitRecord, RecordStep, TypeCorrect, PTL DEF Spec

-------------------------------------------------------------------------------
(* The budget of an episode.  A balancer that has the record to itself and   *)
(* a Valkey that answers: what a monitor knows covers the probes it has sent *)
(* since the budget was refilled, and the successes it has counted were won. *)

Alone ==
  /\ \E r : Replicas = {r}
  /\ Checkers = {}
  /\ "valkey" \notin Env

Serving == \A r \in Replicas : phase[r] = "up"
Gone == \A r \in Replicas : phase[r] = "down"

\* The record stands for at least the probes sent, and for no success more
\* than were won.
Covered == probes =< rl.attempts /\ rl.succ =< streak

MonitorBudget(m) ==
  /\ mpc[m] \in {"reset", "wait", "check"} => Covered
  /\ mpc[m] = "reset" => mst[m].succ = 0
  /\ mpc[m] = "probe" => probes + 1 =< mst[m].attempts /\ mst[m].succ =< streak
  /\ mpc[m] = "save" => probes =< mst[m].attempts /\ mst[m].succ =< streak
  /\ mpc[m] \in {"mark", "clear"} => streak >= RequiredSuccesses

\* Nobody is about to monitor the endpoint.
Dormant ==
  /\ \A m \in Monitors : mpc[m] = "off"
  /\ \A h \in Handlers : hpc[h] \notin {"start", "spawn"}

Storing == {"save", "mark", "clear"}

BudgetInv ==
  /\ probes =< MaxRetries
  /\ \A h \in Handlers : hpc[h] = "write" => hst[h].attempts = 0 /\ hst[h].succ = 0
  /\ \A m \in Monitors : MonitorBudget(m)
  /\ Serving => Dormant \/ Covered \/ \E m \in Monitors : mpc[m] \in Storing
  /\ Gone => Dormant /\ \A h \in Handlers : hpc[h] = "idle"

\* All that is known of the record and the claims.
RecoveryInv == TypeOK /\ ClaimInv /\ RecordInv

\* Types, claims and the soundness of the record hold of every behaviour.
LEMMA RecoveryInvariant == Spec => []RecoveryInv
<1>1. Init => RecoveryInv
  BY InitTypeOK, InitClaim, InitRecord DEF RecoveryInv
<1>2. RecoveryInv /\ [Next]_vars => RecoveryInv'
  BY TypeStep, ClaimStep, RecordStep DEF RecoveryInv
<1> QED
  BY <1>1, <1>2, PTL DEF Spec

\* One replica: nobody else has a monitor, and it serves or is cancelled.
LEMMA AloneFacts ==
  ASSUME Alone, TypeOK, ClaimInv, NEW m \in Monitors
  PROVE  /\ Cancelled(m) <=> ~Serving
         /\ CallMayFail(m) <=> ~Serving
         /\ Alive(m) => \A n \in Monitors \ {m} : mpc[n] = "off"
         /\ Alive(m) => \A h \in Handlers : hpc[h] # "spawn"
<1>1. PICK r : Replicas = {r}
  BY DEF Alone
<1>2. /\ Home[m] = r
      /\ \A n \in Monitors : Home[n] = r
      /\ \A h \in Handlers : Home[h] = r
  BY <1>1, ProcessAssumption
<1>3. Cancelled(m) <=> ~Serving
  BY <1>1, <1>2 DEF Cancelled, Serving
<1>4. CallMayFail(m) <=> ~Serving
  BY <1>3 DEF CallMayFail, Alone
<1> QED
  BY <1>2, <1>3, <1>4 DEF ClaimInv, OneMonitorPerReplica, Alive, Spawning

\* A step of a monitor is to be looked at with its own eyes only.
LEMMA MonitorFrame ==
  ASSUME Alone, TypeOK, ClaimInv, BudgetInv, NEW m \in Monitors, Alive(m),
         NEW to \in MonitorStates, mpc' = [mpc EXCEPT ![m] = to],
         UNCHANGED <<phase, hpc, hst>>, probes' =< MaxRetries,
         to # "off" => MonitorBudget(m)',
         Serving => Covered' \/ to \in Storing \/ (to = "off" /\ Dormant')
  PROVE  BudgetInv'
<1>1. \A n \in Monitors \ {m} : mpc'[n] = "off"
  BY AloneFacts DEF TypeOK
<1>2. mpc'[m] = to
  BY DEF TypeOK
<1>3. \A n \in Monitors : MonitorBudget(n)'
  BY <1>1, <1>2 DEF MonitorBudget
<1>4. ~Gone /\ (Gone' <=> Gone) /\ (Serving' <=> Serving)
  BY DEF BudgetInv, Gone, Serving, Dormant, Alive
<1>5. Serving' => Dormant' \/ Covered' \/ \E n \in Monitors : mpc'[n] \in Storing
  BY <1>2, <1>4
<1> QED
  BY <1>3, <1>4, <1>5 DEF BudgetInv

\* Beginning of a pass: what was covered stays covered.
LEMMA PassBudget ==
  ASSUME Alone, TypeOK, ClaimInv, BudgetInv, NEW m \in Monitors,
         \/ LoadState(m) \/ LoadPastCycle(m) \/ WriteReset(m) \/ GiveUpEarly(m)
         \/ WaitOver(m) \/ StopChecking(m) \/ RetryCheck(m)
  PROVE  BudgetInv'
<1> USE DEF store, handlerVars, monitorVars, history, MoveTo
<1>1. /\ MaxRetries \in Nat /\ probes =< MaxRetries /\ streak \in Nat
      /\ MonitorBudget(m)
  BY ConfigAssumption DEF BudgetInv, TypeOK
<1>2. CASE LoadState(m) \/ LoadPastCycle(m)
  <2>1. PICK to \in {"wait", "reset"} :
          /\ mpc[m] = "load" /\ mpc' = [mpc EXCEPT ![m] = to]
          /\ to = "reset" => mst' = [mst EXCEPT ![m] = CycleReset(rl)]
    BY <1>2 DEF LoadState, LoadPastCycle
  <2>2. /\ UNCHANGED <<phase, hpc, hst, rl, probes, streak>> /\ ~Cancelled(m)
    BY <1>2 DEF LoadState, LoadPastCycle
  <2>3. Alive(m) /\ Serving
    BY <2>1, <2>2, AloneFacts DEF Alive
  <2>4. Covered
    BY <2>1, <2>3, AloneFacts DEF BudgetInv, Dormant, Storing, Alive
  <2>5. Covered'
    BY <2>2, <2>4 DEF Covered
  <2>6. to = "reset" => mst'[m].succ = 0
    <3>1. rl \in Record /\ \A s : [mst EXCEPT ![m] = s][m] = s
      BY DEF TypeOK
    <3>2. CycleReset(rl).succ = 0
      BY <3>1 DEF CycleReset, Record
    <3> QED
      BY <2>1, <3>1, <3>2
  <2>7. mpc'[m] = to
    BY <2>1 DEF TypeOK
  <2>8. MonitorBudget(m)'
    BY <2>5, <2>6, <2>7 DEF MonitorBudget
  <2> QED
    BY <1>1, <2>1, <2>2, <2>3, <2>5, <2>8, MonitorFrame DEF MonitorStates
<1>3. CASE WriteReset(m)
  <2>1. /\ mpc[m] = "reset" /\ mpc' = [mpc EXCEPT ![m] = "wait"]
        /\ rl' = mst[m] /\ probes' = 0
        /\ UNCHANGED <<phase, hpc, hst, streak>>
    BY <1>3 DEF WriteReset
  <2>2. mst[m].succ = 0 /\ mst[m].attempts \in Nat
    BY <1>1, <2>1 DEF MonitorBudget, TypeOK, Record
  <2>3. Covered'
    BY <1>1, <2>1, <2>2 DEF Covered
  <2>4. mpc'[m] = "wait"
    BY <2>1 DEF TypeOK
  <2>5. MonitorBudget(m)'
    BY <2>3, <2>4 DEF MonitorBudget
  <2>6. Alive(m) /\ probes' =< MaxRetries /\ "wait" \in MonitorStates
    BY <1>1, <2>1 DEF Alive, MonitorStates
  <2> QED
    BY <2>1, <2>3, <2>5, <2>6, MonitorFrame
<1>4. CASE WaitOver(m) \/ StopChecking(m)
  <2>1. PICK to \in {"check", "exit"} :
          mpc[m] \in {"wait", "check"} /\ mpc' = [mpc EXCEPT ![m] = to]
    BY <1>4 DEF WaitOver, StopChecking
  <2>2. UNCHANGED <<phase, hpc, hst, rl, probes, streak>>
    BY <1>4 DEF WaitOver, StopChecking
  <2>3. Covered'
    BY <1>1, <2>1, <2>2 DEF MonitorBudget, Covered
  <2>4. mpc'[m] = to
    BY <2>1 DEF TypeOK
  <2>5. MonitorBudget(m)'
    BY <2>3, <2>4 DEF MonitorBudget
  <2> QED
    BY <1>1, <2>1, <2>2, <2>3, <2>5, MonitorFrame DEF MonitorStates, Alive
<1>5. CASE GiveUpEarly(m) \/ RetryCheck(m)
  <2>1. PICK to \in {"exit", "load"} :
          mpc[m] # "off" /\ mpc' = [mpc EXCEPT ![m] = to]
    BY <1>5 DEF GiveUpEarly, RetryCheck
  <2>2. /\ UNCHANGED <<phase, hpc, hst, probes>>
        /\ CallMayFail(m) \/ Cancelled(m)
    BY <1>5 DEF GiveUpEarly, RetryCheck
  <2>3. ~Serving
    BY <2>2, AloneFacts
  <2>4. mpc'[m] = to
    BY <2>1 DEF TypeOK
  <2>5. MonitorBudget(m)'
    BY <2>4 DEF MonitorBudget
  <2> QED
    BY <1>1, <2>1, <2>2, <2>3, <2>5, MonitorFrame DEF MonitorStates, Alive
<1> QED
  BY <1>2, <1>3, <1>4, <1>5

\* An attempt, from the guard to the store.
LEMMA AttemptBudget ==
  ASSUME Alone, TypeOK, ClaimInv, RecordInv, BudgetInv, NEW m \in Monitors,
         BeginAttempt(m) \/ ProbeSucceeds(m) \/ ProbeFails(m) \/ SaveAttempt(m)
  PROVE  BudgetInv'
<1> USE DEF store, handlerVars, monitorVars, history, MoveTo
<1>1. /\ MaxRetries \in Nat /\ RequiredSuccesses \in Nat
      /\ probes \in Nat /\ probes =< MaxRetries /\ streak \in Nat
      /\ streak =< RequiredSuccesses
      /\ MonitorBudget(m) /\ rl.attempts \in Nat /\ rl.succ \in Nat
      /\ mst[m] \in Record /\ mst[m].attempts \in Nat /\ mst[m].succ \in Nat
  BY ConfigAssumption DEF BudgetInv, TypeOK, Record
<1>2. CASE BeginAttempt(m)
  <2>1. /\ mpc[m] = "check" /\ mpc' = [mpc EXCEPT ![m] = "probe"]
        /\ mst' = [mst EXCEPT ![m] = Attempted(rl)]
        /\ UNCHANGED <<phase, hpc, hst, rl, probes, streak>>
    BY <1>2 DEF BeginAttempt
  <2>2. Covered /\ Covered'
    BY <1>1, <2>1 DEF MonitorBudget, Covered
  <2>3. mpc'[m] = "probe" /\ mst'[m] = Attempted(rl)
    BY <2>1 DEF TypeOK
  <2>4. Attempted(rl).attempts = rl.attempts + 1 /\ Attempted(rl).succ = rl.succ
    BY DEF Attempted, TypeOK, Record
  <2>5. MonitorBudget(m)'
    BY <1>1, <2>1, <2>2, <2>3, <2>4 DEF MonitorBudget, Covered
  <2> QED
    BY <1>1, <2>1, <2>2, <2>5, MonitorFrame DEF MonitorStates, Alive
<1>3. ASSUME mpc[m] = "probe", CountProbe
      PROVE  probes' =< mst[m].attempts /\ probes' =< MaxRetries
  <2>1. probes + 1 =< mst[m].attempts
    BY <1>1, <1>3 DEF MonitorBudget
  <2>2. mst[m].attempts =< MaxRetries
    BY DEF RecordInv, Sound
  <2> QED
    BY <1>1, <1>3, <2>1, <2>2 DEF CountProbe, MinOf
<1>4. CASE ProbeSucceeds(m)
  <2> DEFINE s == Succeeded(mst[m])
             to == IF EnoughSuccesses(s) THEN "mark" ELSE "save"
  <2>1. /\ mpc[m] = "probe" /\ mpc' = [mpc EXCEPT ![m] = to] /\ CountProbe
        /\ mst' = [mst EXCEPT ![m] = IF EnoughSuccesses(s) THEN NoRecord ELSE s]
        /\ streak' = MinOf(streak + 1, RequiredSuccesses)
        /\ UNCHANGED <<phase, hpc, hst>>
    BY <1>4 DEF ProbeSucceeds
  <2>2. s.attempts = mst[m].attempts /\ s.succ = mst[m].succ + 1
    BY <1>1 DEF Succeeded, Record
  <2>3. mst[m].succ =< streak
    BY <1>1, <2>1 DEF MonitorBudget
  <2> HIDE DEF s
  <2>4. probes' =< mst[m].attempts /\ probes' =< MaxRetries
    BY <1>3, <2>1
  <2>5. CASE EnoughSuccesses(s)
    <3>1. streak' >= RequiredSuccesses
      BY <1>1, <2>1, <2>2, <2>3, <2>5 DEF EnoughSuccesses, MinOf
    <3>2. mpc'[m] = "mark" /\ to = "mark"
      BY <2>1, <2>5 DEF TypeOK
    <3>3. MonitorBudget(m)'
      BY <3>1, <3>2 DEF MonitorBudget
    <3> QED
      BY <2>1, <2>4, <3>2, <3>3, MonitorFrame DEF MonitorStates, Alive, Storing
  <2>6. CASE ~EnoughSuccesses(s)
    <3>1. s.succ =< streak'
      BY <1>1, <2>1, <2>2, <2>3, <2>6 DEF EnoughSuccesses, MinOf
    <3>2. mpc'[m] = "save" /\ to = "save" /\ mst'[m] = s
      BY <2>1, <2>6 DEF TypeOK
    <3>3. MonitorBudget(m)'
      BY <2>2, <2>4, <3>1, <3>2 DEF MonitorBudget
    <3> QED
      BY <2>1, <2>4, <3>2, <3>3, MonitorFrame DEF MonitorStates, Alive, Storing
  <2> QED
    BY <2>5, <2>6
<1>5. CASE ProbeFails(m)
  <2>1. /\ mpc[m] = "probe" /\ mpc' = [mpc EXCEPT ![m] = "save"] /\ CountProbe
        /\ mst' = [mst EXCEPT ![m] = Failed(mst[m])] /\ streak' = 0
        /\ UNCHANGED <<phase, hpc, hst>>
    BY <1>5 DEF ProbeFails
  <2>2. Failed(mst[m]).attempts = mst[m].attempts /\ Failed(mst[m]).succ = 0
    BY <1>1 DEF Failed, Record
  <2>3. mpc'[m] = "save" /\ mst'[m] = Failed(mst[m])
    BY <2>1 DEF TypeOK
  <2>4. probes' =< mst[m].attempts /\ probes' =< MaxRetries
    BY <1>3, <2>1
  <2>5. MonitorBudget(m)'
    BY <2>1, <2>2, <2>3, <2>4 DEF MonitorBudget
  <2> QED
    BY <2>1, <2>4, <2>5, MonitorFrame DEF MonitorStates, Alive, Storing
<1>6. CASE SaveAttempt(m)
  <2>1. /\ mpc[m] = "save" /\ mpc' = [mpc EXCEPT ![m] = "load"] /\ rl' = mst[m]
        /\ UNCHANGED <<phase, hpc, hst, probes, streak>>
    BY <1>6 DEF SaveAttempt
  <2>2. Covered'
    BY <1>1, <2>1 DEF MonitorBudget, Covered
  <2>3. mpc'[m] = "load"
    BY <2>1 DEF TypeOK
  <2>4. MonitorBudget(m)'
    BY <2>3 DEF MonitorBudget
  <2> QED
    BY <1>1, <2>1, <2>2, <2>4, MonitorFrame DEF MonitorStates, Alive
<1> QED
  BY <1>2, <1>4, <1>5, <1>6

\* The end of a monitor: the record it lifts covers everything.
LEMMA EndBudget ==
  ASSUME Alone, TypeOK, ClaimInv, RecordInv, BudgetInv, NEW m \in Monitors,
         MarkHealthy(m) \/ LiftLimit(m) \/ LeaveGroup(m) \/ DropClaim(m)
  PROVE  BudgetInv'
<1> USE DEF store, handlerVars, monitorVars, history, MoveTo
<1>1. /\ MaxRetries \in Nat /\ RequiredSuccesses \in Nat
      /\ probes \in Nat /\ probes =< MaxRetries /\ streak \in Nat
      /\ MonitorBudget(m)
  BY ConfigAssumption DEF BudgetInv, TypeOK
<1>2. CASE MarkHealthy(m)
  <2>1. /\ mpc[m] = "mark" /\ mpc' = [mpc EXCEPT ![m] = "clear"]
        /\ UNCHANGED <<phase, hpc, hst, probes, streak>>
    BY <1>2 DEF MarkHealthy
  <2>2. mpc'[m] = "clear"
    BY <2>1 DEF TypeOK
  <2>3. MonitorBudget(m)'
    BY <1>1, <2>1, <2>2 DEF MonitorBudget
  <2> QED
    BY <1>1, <2>1, <2>3, MonitorFrame DEF MonitorStates, Alive, Storing
<1>3. CASE LiftLimit(m)
  <2>1. /\ mpc[m] = "clear" /\ mpc' = [mpc EXCEPT ![m] = "exit"]
        /\ UNCHANGED <<phase, hpc, hst, streak>>
        /\ \/ rl' = mst[m] /\ probes' = 0
           \/ CallMayFail(m) /\ probes' = probes
    BY <1>3 DEF LiftLimit
  <2>2. mpc'[m] = "exit"
    BY <2>1 DEF TypeOK
  <2>3. MonitorBudget(m)'
    BY <2>2 DEF MonitorBudget
  <2>4. streak >= RequiredSuccesses
    BY <1>1, <2>1 DEF MonitorBudget
  <2>5. /\ mst[m].attempts \in Nat /\ mst[m].succ \in Nat
        /\ mst[m].succ < RequiredSuccesses
    BY DEF RecordInv, Sound, TypeOK, Record
  <2>6. Serving => Covered'
    BY <1>1, <2>1, <2>4, <2>5, AloneFacts DEF Covered
  <2>7. Alive(m) /\ probes' =< MaxRetries /\ "exit" \in MonitorStates
    BY <1>1, <2>1 DEF Alive, MonitorStates
  <2> QED
    BY <2>1, <2>3, <2>6, <2>7, MonitorFrame
<1>4. CASE LeaveGroup(m) \/ DropClaim(m)
  <2>1. PICK to \in {"cleanup", "off"} :
          mpc[m] \in {"exit", "cleanup"} /\ mpc' = [mpc EXCEPT ![m] = to]
    BY <1>4 DEF LeaveGroup, DropClaim
  <2>2. UNCHANGED <<phase, hpc, hst, rl, probes, streak>>
    BY <1>4 DEF LeaveGroup, DropClaim
  <2>3. Alive(m)
    BY <2>1 DEF Alive
  <2>4. Serving => Covered
    BY <2>1, <2>3, AloneFacts DEF BudgetInv, Dormant, Storing, Alive
  <2>5. Serving => Covered'
    BY <2>2, <2>4 DEF Covered
  <2>6. mpc'[m] = to
    BY <2>1 DEF TypeOK
  <2>7. MonitorBudget(m)'
    BY <2>1, <2>6 DEF MonitorBudget
  <2> QED
    BY <1>1, <2>1, <2>2, <2>3, <2>5, <2>7, MonitorFrame DEF MonitorStates
<1> QED
  BY <1>2, <1>3, <1>4

\* A signal refills the budget, and nothing was promised of an empty one.
LEMMA SignalBudget ==
  ASSUME Alone, TypeOK, BudgetInv, NEW h \in Procs, Handler(h)
  PROVE  BudgetInv'
<1> USE DEF store, handlerVars, monitorVars, history
<1>1. h \in Handlers /\ "valkey" \notin Env
  BY DEF Alone, Procs
<1>2. CASE ReadForSignal(h)
  <2>1. PICK seed \in Seeds : hst' = [hst EXCEPT ![h] = Limited(rl, seed)]
    BY <1>1, <1>2 DEF ReadForSignal
  <2>2. Limited(rl, seed).attempts = 0 /\ Limited(rl, seed).succ = 0
    BY DEF Limited
  <2>3. /\ hpc[h] = "idle" /\ phase[Home[h]] # "down"
        /\ hpc' = [hpc EXCEPT ![h] = "write"]
        /\ UNCHANGED <<phase, mpc, mst, rl, probes, streak>>
    BY <1>1, <1>2 DEF ReadForSignal
  <2>4. ~Gone /\ ~Gone'
    BY <1>1, <2>3, ProcessAssumption DEF Gone
  <2>5. Dormant => Dormant'
    BY <2>3 DEF Dormant, TypeOK
  <2>6. /\ Covered' = Covered /\ (Serving' <=> Serving)
        /\ \A m \in Monitors : MonitorBudget(m)'
    BY <2>3 DEF BudgetInv, Covered, MonitorBudget, Serving
  <2>7. \A g \in Handlers :
          hpc'[g] = "write" => hst'[g].attempts = 0 /\ hst'[g].succ = 0
    BY <2>1, <2>2, <2>3 DEF BudgetInv, TypeOK
  <2> QED
    BY <2>3, <2>4, <2>5, <2>6, <2>7 DEF BudgetInv
<1>3. CASE WriteSignal(h)
  <2>1. /\ hpc[h] = "write" /\ hpc' = [hpc EXCEPT ![h] = "start"]
        /\ hst' = [hst EXCEPT ![h] = NoRecord]
        /\ rl' = hst[h] /\ probes' = 0
        /\ UNCHANGED <<phase, mpc, mst, streak>>
    BY <1>1, <1>3 DEF WriteSignal
  <2>2. /\ hst[h].attempts = 0 /\ hst[h].succ = 0 /\ ~Gone
        /\ probes \in Nat /\ streak \in Nat /\ MaxRetries \in Nat
    BY <1>1, <2>1, ConfigAssumption DEF BudgetInv, TypeOK
  <2>3. Covered'
    BY <2>1, <2>2 DEF Covered
  <2>4. ASSUME NEW m \in Monitors
        PROVE  MonitorBudget(m)'
    <3>1. mst[m].attempts \in Nat /\ MonitorBudget(m)
      BY DEF TypeOK, Record, BudgetInv
    <3> QED
      BY <2>1, <2>2, <2>3, <3>1 DEF MonitorBudget
  <2>5. \A g \in Handlers :
          hpc'[g] = "write" => hst'[g].attempts = 0 /\ hst'[g].succ = 0
    BY <2>1 DEF BudgetInv, TypeOK
  <2>6. ~Gone'
    BY <2>1, <2>2 DEF Gone
  <2> QED
    BY <2>1, <2>2, <2>3, <2>4, <2>5, <2>6 DEF BudgetInv
<1> QED
  BY <1>1, <1>2, <1>3 DEF Handler, WriteSignalFails

\* Starting a monitor leaves the budget alone: the record was written before.
LEMMA StarterBudget ==
  ASSUME TypeOK, BudgetInv, NEW h \in Handlers, Starter(h)
  PROVE  BudgetInv'
<1> USE DEF store, handlerVars, monitorVars, history
<1>1. PICK to \in {"idle", "spawn"} :
        hpc[h] \in {"start", "spawn"} /\ hpc' = [hpc EXCEPT ![h] = to]
  BY DEF Starter, StartMonitoring, SpawnMonitor
<1>2. UNCHANGED <<phase, hst, mst, rl, probes, streak>>
  BY DEF Starter, StartMonitoring, SpawnMonitor
<1>3. \A m \in Monitors :
        mpc'[m] = mpc[m] \/ (mpc[m] = "off" /\ mpc'[m] = "load")
  BY DEF Starter, StartMonitoring, SpawnMonitor, TypeOK
<1>4. ~Dormant /\ ~Gone /\ ~Gone'
  BY <1>1, <1>2 DEF BudgetInv, Dormant, Gone
<1>5. Covered' = Covered /\ (Serving' <=> Serving)
  BY <1>2 DEF Covered, Serving
<1>6. \A m \in Monitors : mpc[m] \in Storing => mpc'[m] \in Storing
  BY <1>3 DEF Storing
<1>7. ASSUME NEW m \in Monitors
      PROVE  MonitorBudget(m)'
  BY <1>2, <1>3, <1>5 DEF MonitorBudget, BudgetInv
<1>8. \A g \in Handlers :
        hpc'[g] = "write" => hst'[g].attempts = 0 /\ hst'[g].succ = 0
  BY <1>1, <1>2 DEF BudgetInv, TypeOK
<1> QED
  BY <1>2, <1>4, <1>5, <1>6, <1>7, <1>8 DEF BudgetInv

\* A process that ends takes all its monitors along, and boots with none.
LEMMA ReplicaBudget ==
  ASSUME Alone, TypeOK, BudgetInv, NEW r \in Replicas, Replica(r)
  PROVE  BudgetInv'
<1> USE DEF store, handlerVars, monitorVars, history
<1>1. /\ Replicas = {r}
      /\ \A h \in Handlers : Home[h] = r
      /\ \A m \in Monitors : Home[m] = r
  BY ProcessAssumption DEF Alone
<1>2. CASE BeginShutdown(r) \/ SchedulerDrained(r) \/ DrainTimesOut(r)
  <2>1. /\ phase'[r] \notin {"up", "down"}
        /\ UNCHANGED <<handlerVars, monitorVars, rl, history>>
    BY <1>2 DEF BeginShutdown, SchedulerDrained, DrainTimesOut, TypeOK
  <2>2. ~Serving' /\ ~Gone'
    BY <1>1, <2>1 DEF Serving, Gone
  <2>3. \A m \in Monitors : MonitorBudget(m)'
    BY <2>1 DEF BudgetInv, MonitorBudget, Covered
  <2> QED
    BY <2>1, <2>2, <2>3 DEF BudgetInv
<1>3. CASE Terminate(r)
  <2>1. /\ phase' = [phase EXCEPT ![r] = "down"]
        /\ hpc' = [h \in Procs |-> IF h \in Handlers /\ Home[h] = r
                                   THEN "idle" ELSE hpc[h]]
        /\ mpc' = [m \in Monitors |-> IF Home[m] = r THEN "off" ELSE mpc[m]]
        /\ UNCHANGED <<rl, probes, streak>>
    BY <1>3 DEF Terminate
  <2>2. /\ \A h \in Handlers : hpc'[h] = "idle"
        /\ \A m \in Monitors : mpc'[m] = "off"
        /\ phase'[r] = "down"
    BY <1>1, <2>1 DEF Procs, TypeOK
  <2>3. Dormant' /\ ~Serving'
    BY <2>2 DEF Dormant, Serving
  <2>4. \A m \in Monitors : MonitorBudget(m)'
    BY <2>2 DEF MonitorBudget
  <2> QED
    BY <2>1, <2>2, <2>3, <2>4 DEF BudgetInv
<1>4. CASE Boot(r)
  <2>1. /\ phase[r] = "down" /\ phase'[r] = "up"
        /\ UNCHANGED <<handlerVars, monitorVars, rl, history>>
    BY <1>4 DEF Boot, TypeOK
  <2>2. Gone /\ ~Gone'
    BY <1>1, <2>1 DEF Gone
  <2>3. Dormant'
    BY <2>1, <2>2 DEF BudgetInv, Dormant
  <2>4. \A m \in Monitors : MonitorBudget(m)'
    BY <2>1 DEF BudgetInv, MonitorBudget, Covered
  <2> QED
    BY <2>1, <2>2, <2>3, <2>4 DEF BudgetInv
<1> QED
  BY <1>2, <1>3, <1>4 DEF Replica

\* Time and the provider take no probe and no success away.
LEMMA EnvironmentBudget ==
  ASSUME TypeOK, BudgetInv, Environment
  PROVE  BudgetInv'
<1> USE DEF store, handlerVars, monitorVars, history
<1>1. CASE ProviderTurns \/ MarkUnhealthy
  <2>1. UNCHANGED <<phase, handlerVars, monitorVars, rl, history>>
    BY <1>1 DEF ProviderTurns, MarkUnhealthy
  <2> QED
    BY <2>1 DEF BudgetInv, MonitorBudget, Covered, Serving, Gone, Dormant
<1>2. CASE ResetAfterPasses
  <2>1. \A s \in Record : Aged(s).attempts = s.attempts /\ Aged(s).succ = s.succ
    BY DEF Aged, Record
  <2>2. /\ UNCHANGED <<phase, hpc, mpc, probes, streak>>
        /\ rl'.attempts = rl.attempts /\ rl'.succ = rl.succ
        /\ \A h \in Procs : /\ hst'[h].attempts = hst[h].attempts
                            /\ hst'[h].succ = hst[h].succ
        /\ \A m \in Monitors : /\ mst'[m].attempts = mst[m].attempts
                               /\ mst'[m].succ = mst[m].succ
    BY <1>2, <2>1 DEF ResetAfterPasses, TypeOK
  <2>3. /\ Covered' = Covered /\ (Serving' <=> Serving) /\ (Gone' <=> Gone)
        /\ (Dormant' <=> Dormant)
    BY <2>2 DEF Covered, Serving, Gone, Dormant
  <2>4. \A m \in Monitors : MonitorBudget(m)'
    BY <2>2, <2>3 DEF BudgetInv, MonitorBudget
  <2>5. \A h \in Handlers :
          hpc'[h] = "write" => hst'[h].attempts = 0 /\ hst'[h].succ = 0
    BY <2>2 DEF BudgetInv, Procs
  <2> QED
    BY <2>2, <2>3, <2>4, <2>5 DEF BudgetInv
<1>3. CASE RecordExpires
  <2>1. /\ UNCHANGED <<phase, handlerVars, monitorVars, streak>>
        /\ rl' = NoRecord /\ probes' = 0
        /\ \A m \in Monitors :
             mpc[m] \notin {"reset", "probe", "save", "mark", "clear"}
    BY <1>3 DEF RecordExpires
  <2>2. Covered' /\ 0 =< MaxRetries
    BY <2>1, ConfigAssumption DEF Covered, NoRecord, TypeOK
  <2>3. \A m \in Monitors : MonitorBudget(m)'
    BY <2>1, <2>2 DEF MonitorBudget
  <2>4. (Gone' <=> Gone) /\ (Dormant' <=> Dormant)
    BY <2>1 DEF Gone, Dormant
  <2> QED
    BY <2>1, <2>2, <2>3, <2>4 DEF BudgetInv
<1> QED
  BY <1>1, <1>2, <1>3 DEF Environment

\* Nothing is spent at first.
LEMMA InitBudget == Init => BudgetInv
  BY ConfigAssumption DEF Init, BudgetInv, MonitorBudget, Dormant, Procs

\* Every step of a lone balancer keeps the budget.
LEMMA BudgetStep ==
  ASSUME Alone, RecoveryInv, BudgetInv, [Next]_vars
  PROVE  BudgetInv'
<1> USE DEF RecoveryInv
<1>1. ASSUME NEW m \in Monitors, Monitor(m)
      PROVE  BudgetInv'
  BY <1>1, PassBudget, AttemptBudget, EndBudget DEF Monitor
<1>2. CASE UNCHANGED vars
  BY <1>2 DEF vars, store, handlerVars, monitorVars, history, BudgetInv,
              MonitorBudget, Covered, Serving, Gone, Dormant
<1> QED
  BY <1>1, <1>2, SignalBudget, StarterBudget, ReplicaBudget, EnvironmentBudget
     DEF Next

\* A lone balancer whose Valkey answers probes a limited endpoint at most
\* max_retries times between two refills of the budget, whatever signals,
\* cancellations, crashes and resets come in between.
THEOREM BudgetCorrect ==
  ASSUME Alone
  PROVE  Spec => []ProbesInBudget
<1>1. Init => BudgetInv
  BY InitBudget
<1>2. RecoveryInv /\ BudgetInv /\ [Next]_vars => BudgetInv'
  BY BudgetStep
<1>3. BudgetInv => ProbesInBudget
  BY DEF BudgetInv, ProbesInBudget
<1> QED
  BY <1>1, <1>2, <1>3, RecoveryInvariant, PTL DEF Spec

\* A lone balancer lifts a limit only after required_successes probes in a
\* row: a monitor that is about to has counted them itself.
THEOREM RecoveryCorrect ==
  ASSUME Alone
  PROVE  Spec => RecoveryIsEarned
<1>1. Init => BudgetInv
  BY InitBudget
<1>2. RecoveryInv /\ BudgetInv /\ [Next]_vars => BudgetInv'
  BY BudgetStep
<1>3. BudgetInv /\ [Next]_vars
        => [(\E m \in Monitors : mpc[m] = "clear" /\ mpc'[m] = "exit")
              /\ rl.limited /\ ~rl'.limited
            => streak >= RequiredSuccesses]_vars
  BY DEF BudgetInv, MonitorBudget
<1> QED
  BY <1>1, <1>2, <1>3, RecoveryInvariant, PTL DEF Spec, RecoveryIsEarned

-------------------------------------------------------------------------------
(* The waits of a monitor.  Nobody eases the record behind the back of the   *)
(* only replica's monitor, so what it reads next is no shorter a backoff.    *)

\* The least the next wait of m may be.
Floor(m) == MinOf(mwait[m], MaxBackoff)

Backed(m) ==
  /\ mpc[m] = "off" => mwait[m] = 0
  /\ ~eased[m] =>
       /\ mpc[m] \in {"load", "wait", "check", "probe", "save"}
            => NextBackoff(rl) >= Floor(m)
       /\ mpc[m] \in {"probe", "save"}
            => mst[m].backoff >= Floor(m) /\ mst[m].backoff > 0

BackoffInv == \A m \in Monitors : Backed(m)

\* backoff_multiplier is at least 1, as in every configuration documented.
Growing == MultDen =< MultNum

\* A multiplier of at least one does not shorten a backoff, up to its cap.
LEMMA EscalationGrows ==
  ASSUME Growing, NEW b \in Nat \ {0}
  PROVE  /\ Escalated(b) \in Nat \ {0}
         /\ Escalated(b) >= MinOf(b, MaxBackoff)
<1>1. /\ MultNum \in Nat /\ MultDen \in Nat \ {0} /\ MultDen =< MultNum
      /\ MaxBackoff \in Nat \ {0}
  BY ConfigAssumption DEF Growing
<1>2. \A x, y, z \in Nat : y =< z => x * y =< x * z
  OBVIOUS
<1>3. b * MultDen =< b * MultNum /\ b * MultNum \in Nat /\ b * MultDen \in Nat
  BY <1>1, <1>2
<1>4. \A x \in Nat, d \in Nat \ {0} : b * d =< x => x \div d >= b
  <2> SUFFICES ASSUME NEW x \in Nat, NEW d \in Nat \ {0}, b * d =< x
               PROVE  x \div d >= b
    OBVIOUS
  <2>1. x \div d \in Nat /\ x < d * ((x \div d) + 1)
    OBVIOUS
  <2> DEFINE q == x \div d
  <2>2. q \in Nat /\ x < d * (q + 1)
    BY <2>1
  <2> HIDE DEF q
  <2>3. b * d < d * (q + 1)
    BY <2>2
  <2>4. b < q + 1
    BY <2>2, <2>3
  <2> QED
    BY <2>2, <2>4 DEF q
<1> DEFINE e == (b * MultNum) \div MultDen
<1>5. e \in Nat /\ e >= b
  BY <1>1, <1>3, <1>4
<1>6. Escalated(b) = MinOf(e, MaxBackoff)
  BY DEF Escalated
<1> HIDE DEF e
<1> QED
  BY <1>1, <1>5, <1>6 DEF MinOf

\* What an attempt stores is no shorter than the wait before it.
LEMMA AttemptGrows ==
  ASSUME Growing, NEW s \in Record
  PROVE  /\ Attempted(s).backoff \in Nat \ {0}
         /\ Attempted(s).backoff >= MinOf(NextBackoff(s), MaxBackoff)
<1>1. /\ InitialBackoff \in Nat \ {0} /\ MaxBackoff \in Nat \ {0}
      /\ s.backoff \in Nat
  BY ConfigAssumption DEF Record
<1>2. NextBackoff(s) \in Nat \ {0}
  BY <1>1 DEF NextBackoff
<1>3. \/ Attempted(s).backoff = NextBackoff(s)
      \/ Attempted(s).backoff = Escalated(NextBackoff(s))
  BY DEF Attempted, Record
<1>4. /\ Escalated(NextBackoff(s)) \in Nat \ {0}
      /\ Escalated(NextBackoff(s)) >= MinOf(NextBackoff(s), MaxBackoff)
  BY <1>2, EscalationGrows
<1> QED
  BY <1>1, <1>2, <1>3, <1>4 DEF MinOf

\* A step of a monitor is to be looked at with its own eyes only.
LEMMA BackoffFrame ==
  ASSUME TypeOK, BackoffInv, NEW m \in Monitors,
         \A n \in Monitors \ {m} : mpc[n] = "off",
         NEW to \in MonitorStates, mpc' = [mpc EXCEPT ![m] = to],
         \A n \in Monitors \ {m} : mwait'[n] = mwait[n],
         Backed(m)'
  PROVE  BackoffInv'
<1>1. \A n \in Monitors \ {m} : mpc'[n] = "off" /\ mwait'[n] = 0
  BY DEF TypeOK, BackoffInv, Backed
<1>2. \A n \in Monitors \ {m} : Backed(n)'
  BY <1>1 DEF Backed
<1> QED
  BY <1>2 DEF BackoffInv

\* A step of the monitor of a lone replica keeps its own floor.
LEMMA MonitorBackoff ==
  ASSUME Growing, TypeOK, BackoffInv, NEW m \in Monitors, Monitor(m),
         \A n \in Monitors \ {m} : mpc[n] = "off"
  PROVE  BackoffInv'
<1> USE DEF store, handlerVars, monitorVars, history, MoveTo
<1>1. /\ MaxBackoff \in Nat \ {0} /\ rl \in Record /\ mst[m] \in Record
      /\ mwait[m] \in Nat /\ NextBackoff(rl) \in Nat
      /\ NextBackoff(mst[m]) \in Nat /\ Backed(m)
      /\ rl.backoff \in Nat /\ mst[m].backoff \in Nat
  BY ConfigAssumption, LoopTypes DEF TypeOK, BackoffInv, Record
<1>2. Floor(m) \in Nat
  BY <1>1 DEF Floor, MinOf
<1>3. CASE LoadState(m)
  <2>1. /\ mpc' = [mpc EXCEPT ![m] = "wait"] /\ rl' = rl
        /\ mwait' = [mwait EXCEPT ![m] = NextBackoff(rl)]
    BY <1>3 DEF LoadState, ChooseWait
  <2>2. /\ mpc'[m] = "wait" /\ mwait'[m] = NextBackoff(rl)
        /\ \A n \in Monitors \ {m} : mwait'[n] = mwait[n]
    BY <2>1 DEF TypeOK
  <2>3. NextBackoff(rl)' = NextBackoff(rl)
    BY <2>1
  <2>4. Backed(m)'
    BY <1>1, <2>2, <2>3 DEF Backed, Floor, MinOf
  <2> QED
    BY <2>1, <2>2, <2>4, BackoffFrame DEF MonitorStates
<1>4. CASE \/ LoadPastCycle(m) \/ GiveUpEarly(m) \/ StopChecking(m)
           \/ MarkHealthy(m) \/ LiftLimit(m) \/ LeaveGroup(m)
  <2>1. PICK to \in {"reset", "exit", "clear", "cleanup"} :
          mpc' = [mpc EXCEPT ![m] = to]
    BY <1>4 DEF LoadPastCycle, GiveUpEarly, StopChecking, MarkHealthy,
                LiftLimit, LeaveGroup
  <2>2. mwait' = mwait
    BY <1>4 DEF LoadPastCycle, GiveUpEarly, StopChecking, MarkHealthy,
                LiftLimit, LeaveGroup
  <2>3. mpc'[m] = to
    BY <2>1 DEF TypeOK
  <2>4. Backed(m)'
    BY <2>3 DEF Backed
  <2> QED
    BY <2>1, <2>2, <2>4, BackoffFrame DEF MonitorStates
<1>5. CASE DropClaim(m)
  <2>1. /\ mpc' = [mpc EXCEPT ![m] = "off"]
        /\ mwait' = [mwait EXCEPT ![m] = 0]
    BY <1>5 DEF DropClaim
  <2>2. /\ mpc'[m] = "off" /\ mwait'[m] = 0
        /\ \A n \in Monitors \ {m} : mwait'[n] = mwait[n]
    BY <2>1 DEF TypeOK
  <2>3. Backed(m)'
    BY <2>2 DEF Backed
  <2> QED
    BY <2>1, <2>2, <2>3, BackoffFrame DEF MonitorStates
<1>6. CASE WriteReset(m)
  <2>1. /\ mpc' = [mpc EXCEPT ![m] = "wait"] /\ rl' = mst[m]
        /\ mwait' = [mwait EXCEPT ![m] = NextBackoff(mst[m])]
    BY <1>6 DEF WriteReset, ChooseWait
  <2>2. /\ mpc'[m] = "wait" /\ mwait'[m] = NextBackoff(mst[m])
        /\ \A n \in Monitors \ {m} : mwait'[n] = mwait[n]
    BY <2>1 DEF TypeOK
  <2>3. NextBackoff(rl)' = NextBackoff(mst[m])
    BY <2>1 DEF NextBackoff
  <2>4. Backed(m)'
    BY <1>1, <2>2, <2>3 DEF Backed, Floor, MinOf
  <2> QED
    BY <2>1, <2>2, <2>4, BackoffFrame DEF MonitorStates
<1>7. CASE WaitOver(m) \/ RetryCheck(m)
  <2>1. PICK to \in {"check", "load"} :
          /\ mpc[m] \in {"wait", "check", "save"}
          /\ mpc' = [mpc EXCEPT ![m] = to]
    BY <1>7 DEF WaitOver, RetryCheck
  <2>2. UNCHANGED <<rl, mwait, eased>>
    BY <1>7 DEF WaitOver, RetryCheck
  <2>3. mpc'[m] = to
    BY <2>1 DEF TypeOK
  <2>4. Floor(m)' = Floor(m) /\ NextBackoff(rl)' = NextBackoff(rl)
    BY <2>2 DEF Floor
  <2>5. Backed(m)'
    BY <1>1, <2>1, <2>2, <2>3, <2>4 DEF Backed
  <2> QED
    BY <2>1, <2>2, <2>5, BackoffFrame DEF MonitorStates
<1>8. CASE BeginAttempt(m)
  <2>1. /\ mpc[m] = "check" /\ mpc' = [mpc EXCEPT ![m] = "probe"]
        /\ mst' = [mst EXCEPT ![m] = Attempted(rl)]
        /\ UNCHANGED <<rl, mwait, eased>>
    BY <1>8 DEF BeginAttempt
  <2>2. mpc'[m] = "probe" /\ mst'[m] = Attempted(rl)
    BY <2>1 DEF TypeOK
  <2>3. Floor(m)' = Floor(m) /\ NextBackoff(rl)' = NextBackoff(rl)
    BY <2>1 DEF Floor
  <2>4. ~eased[m] => NextBackoff(rl) >= Floor(m)
    BY <1>1, <2>1 DEF Backed
  <2>5. Floor(m) =< MaxBackoff
    BY <1>1 DEF Floor, MinOf
  <2>6. /\ Attempted(rl).backoff \in Nat \ {0}
        /\ Attempted(rl).backoff >= MinOf(NextBackoff(rl), MaxBackoff)
    BY <1>1, AttemptGrows
  <2>7. ~eased[m] => Attempted(rl).backoff >= Floor(m)
    BY <1>1, <1>2, <2>4, <2>5, <2>6 DEF MinOf
  <2>8. Backed(m)'
    BY <1>2, <2>1, <2>2, <2>3, <2>4, <2>6, <2>7 DEF Backed
  <2> QED
    BY <2>1, <2>8, BackoffFrame DEF MonitorStates
<1>9. CASE ProbeSucceeds(m)
  <2>1. PICK to \in {"mark", "save"} : mpc' = [mpc EXCEPT ![m] = to]
    BY <1>9 DEF ProbeSucceeds
  <2>2. mwait' = mwait /\ eased'[m]
    BY <1>9 DEF ProbeSucceeds, EaseAll
  <2>3. mpc'[m] = to
    BY <2>1 DEF TypeOK
  <2>4. Backed(m)'
    BY <2>2, <2>3 DEF Backed
  <2> QED
    BY <2>1, <2>2, <2>4, BackoffFrame DEF MonitorStates
<1>10. CASE ProbeFails(m)
  <2>1. /\ mpc[m] = "probe" /\ mpc' = [mpc EXCEPT ![m] = "save"]
        /\ mst' = [mst EXCEPT ![m] = Failed(mst[m])]
        /\ UNCHANGED <<rl, mwait, eased>>
    BY <1>10 DEF ProbeFails
  <2>2. mpc'[m] = "save" /\ mst'[m].backoff = mst[m].backoff
    BY <1>1, <2>1 DEF TypeOK, Failed, Record
  <2>3. Floor(m)' = Floor(m) /\ NextBackoff(rl)' = NextBackoff(rl)
    BY <2>1 DEF Floor
  <2>4. Backed(m)'
    BY <1>1, <2>1, <2>2, <2>3 DEF Backed
  <2> QED
    BY <2>1, <2>4, BackoffFrame DEF MonitorStates
<1>11. CASE SaveAttempt(m)
  <2>1. /\ mpc[m] = "save" /\ mpc' = [mpc EXCEPT ![m] = "load"]
        /\ rl' = mst[m] /\ UNCHANGED <<mwait, eased>>
    BY <1>11 DEF SaveAttempt
  <2>2. mpc'[m] = "load"
    BY <2>1 DEF TypeOK
  <2>3. Floor(m)' = Floor(m) /\ NextBackoff(rl)' = NextBackoff(mst[m])
    BY <2>1 DEF Floor, NextBackoff
  <2>4. ~eased[m] => mst[m].backoff >= Floor(m) /\ mst[m].backoff > 0
    BY <1>1, <2>1 DEF Backed
  <2>5. ~eased[m] => NextBackoff(mst[m]) >= Floor(m)
    BY <1>1, <2>4 DEF NextBackoff
  <2>6. Backed(m)'
    BY <2>1, <2>2, <2>3, <2>5 DEF Backed
  <2> QED
    BY <2>1, <2>6, BackoffFrame DEF MonitorStates
<1> QED
  BY <1>3, <1>4, <1>5, <1>6, <1>7, <1>8, <1>9, <1>10, <1>11 DEF Monitor

\* No wait, no floor.
LEMMA InitBackoffs == Init => BackoffInv
<1> SUFFICES ASSUME Init, NEW m \in Monitors
             PROVE  Backed(m)
  BY DEF BackoffInv
<1>1. mpc[m] = "off" /\ mwait[m] = 0
  BY DEF Init
<1> QED
  BY <1>1 DEF Backed

\* Every step of a system of one replica keeps the floors, whoever else
\* writes the record.
LEMMA BackoffStep ==
  ASSUME Growing, \E r : Replicas = {r}, TypeOK, ClaimInv, BackoffInv, [Next]_vars
  PROVE  BackoffInv'
<1> USE DEF store, handlerVars, monitorVars, history
<1>1. PICK r : Replicas = {r}
  OBVIOUS
<1>2. \A m \in Monitors : Home[m] = r
  BY <1>1, ProcessAssumption
<1>3. ASSUME NEW m \in Monitors, Monitor(m)
      PROVE  BackoffInv'
  <2>1. mpc[m] # "off"
    BY <1>3 DEF Monitor, MoveTo, LoadState, LoadPastCycle, WriteReset,
                GiveUpEarly, WaitOver, BeginAttempt, StopChecking, RetryCheck,
                ProbeSucceeds, ProbeFails, SaveAttempt, MarkHealthy, LiftLimit,
                LeaveGroup, DropClaim
  <2>2. \A n \in Monitors \ {m} : mpc[n] = "off"
    BY <1>2, <2>1 DEF ClaimInv, OneMonitorPerReplica
  <2> QED
    BY <1>3, <2>2, MonitorBackoff
<1>4. ASSUME eased' = [m \in Monitors |-> TRUE], UNCHANGED <<mpc, mwait>>
      PROVE  BackoffInv'
  BY <1>4 DEF BackoffInv, Backed
<1>5. ASSUME UNCHANGED <<monitorVars, rl, eased>>
      PROVE  BackoffInv'
  BY <1>5 DEF BackoffInv, Backed, Floor
<1>6. ASSUME NEW h \in Procs, Handler(h)
      PROVE  BackoffInv'
  BY <1>4, <1>5, <1>6 DEF Handler, ReadForSignal, WriteSignal,
                          WriteSignalFails, EaseAll
<1>7. ASSUME NEW h \in Handlers, Starter(h)
      PROVE  BackoffInv'
  <2>1. CASE StartMonitoring(h)
    BY <1>5, <2>1 DEF StartMonitoring
  <2>2. CASE SpawnMonitor(h)
    <3>1. PICK m \in Monitors : mpc[m] = "off" /\ mpc' = [mpc EXCEPT ![m] = "load"]
      BY <2>2 DEF SpawnMonitor
    <3>2. UNCHANGED <<rl, mst, mwait, eased>>
      BY <2>2 DEF SpawnMonitor
    <3>3. NextBackoff(rl) \in Nat /\ MaxBackoff \in Nat
      BY LoopTypes, ConfigAssumption DEF TypeOK
    <3>4. mpc'[m] = "load" /\ mwait'[m] = 0
      BY <3>1, <3>2 DEF TypeOK, BackoffInv, Backed
    <3>5. Backed(m)'
      BY <3>2, <3>3, <3>4 DEF Backed, Floor, MinOf
    <3>6. \A n \in Monitors \ {m} : Backed(n)'
      BY <3>1, <3>2 DEF BackoffInv, Backed, Floor, TypeOK
    <3> QED
      BY <3>5, <3>6 DEF BackoffInv
  <2> QED
    BY <1>7, <2>1, <2>2 DEF Starter
<1>8. ASSUME NEW q \in Replicas, Replica(q)
      PROVE  BackoffInv'
  <2>1. CASE Terminate(q)
    <3>1. /\ mpc' = [m \in Monitors |-> IF Home[m] = q THEN "off" ELSE mpc[m]]
          /\ mwait' = [m \in Monitors |-> IF Home[m] = q THEN 0 ELSE mwait[m]]
      BY <2>1 DEF Terminate
    <3>2. \A m \in Monitors : mpc'[m] = "off" /\ mwait'[m] = 0
      BY <1>1, <1>2, <3>1
    <3> QED
      BY <3>2 DEF BackoffInv, Backed
  <2> QED
    BY <1>5, <1>8, <2>1 DEF Replica, BeginShutdown, SchedulerDrained,
                            DrainTimesOut, Boot
<1>9. CASE ResetAfterPasses
  <2>1. \A s \in Record : Aged(s).backoff = s.backoff
    BY DEF Aged, Record
  <2>2. /\ UNCHANGED <<mpc, mwait, eased>> /\ rl'.backoff = rl.backoff
        /\ \A m \in Monitors : mst'[m].backoff = mst[m].backoff
    BY <1>9, <2>1 DEF ResetAfterPasses, TypeOK
  <2>3. NextBackoff(rl)' = NextBackoff(rl)
    BY <2>2 DEF NextBackoff
  <2> QED
    BY <2>2, <2>3 DEF BackoffInv, Backed, Floor
<1>10. CASE ProviderTurns \/ MarkUnhealthy \/ RecordExpires
  BY <1>4, <1>5, <1>10 DEF ProviderTurns, MarkUnhealthy, RecordExpires, EaseAll
<1>11. CASE UNCHANGED vars
  BY <1>5, <1>11 DEF vars
<1> QED
  BY <1>3, <1>6, <1>7, <1>8, <1>9, <1>10, <1>11 DEF Next, Environment

\* With one replica and a backoff_multiplier of at least 1, and even if Valkey
\* fails and standalone checkers write the record too, a monitor whose record
\* nothing has eased never waits less than it did before, up to max_backoff.
THEOREM BackoffCorrect ==
  ASSUME Growing, \E r : Replicas = {r}
  PROVE  Spec => BackoffNeverShrinks
<1>1. Init => BackoffInv
  BY InitBackoffs
<1>2. RecoveryInv /\ BackoffInv /\ [Next]_vars => BackoffInv'
  BY BackoffStep DEF RecoveryInv
<1>3. RecoveryInv /\ BackoffInv /\ [Next]_vars
        => [\A m \in Monitors :
              mpc[m] = "load" /\ mpc'[m] = "wait" /\ ~eased[m]
              => mwait'[m] >= MinOf(mwait[m], MaxBackoff)]_vars
  <2> SUFFICES ASSUME RecoveryInv, BackoffInv, Next, NEW m \in Monitors,
                      mpc[m] = "load", mpc'[m] = "wait", ~eased[m]
               PROVE  mwait'[m] >= MinOf(mwait[m], MaxBackoff)
    OBVIOUS
  <2>1. NextBackoff(rl) >= MinOf(mwait[m], MaxBackoff)
    BY DEF BackoffInv, Backed, Floor
  <2>2. mwait'[m] = NextBackoff(rl)
    <3>1. ASSUME NEW n \in Monitors, Monitor(n)
          PROVE  LoadState(n) /\ n = m
      BY <3>1 DEF Monitor, MoveTo, LoadState, LoadPastCycle, WriteReset,
                  GiveUpEarly, WaitOver, BeginAttempt, StopChecking, RetryCheck,
                  ProbeSucceeds, ProbeFails, SaveAttempt, MarkHealthy, LiftLimit,
                  LeaveGroup, DropClaim, RecoveryInv, TypeOK
    <3>2. ~(\E h \in Procs : Handler(h)) /\ ~Environment
      BY DEF Handler, ReadForSignal, WriteSignal, WriteSignalFails, Environment,
             ProviderTurns, MarkUnhealthy, ResetAfterPasses, RecordExpires,
             monitorVars
    <3>3. ~(\E h \in Handlers : Starter(h))
      BY DEF Starter, StartMonitoring, SpawnMonitor, monitorVars, RecoveryInv,
             TypeOK
    <3>4. ~(\E r \in Replicas : Replica(r))
      BY DEF Replica, BeginShutdown, SchedulerDrained, DrainTimesOut, Terminate,
             Boot, monitorVars
    <3>5. LoadState(m)
      BY <3>1, <3>2, <3>3, <3>4 DEF Next
    <3> QED
      BY <3>5 DEF LoadState, ChooseWait, RecoveryInv, TypeOK
  <2> QED
    BY <2>1, <2>2
<1> QED
  BY <1>1, <1>2, <1>3, RecoveryInvariant, PTL DEF Spec, BackoffNeverShrinks
===============================================================================
