------------------------- MODULE EndpointHealthProofs -------------------------
(* What EndpointHealth promises for any number of sweeps, loops, balancers   *)
(* and handlers.  LoopsAreOwned is inductive as it stands, given the types.  *)
(* What a checker's write may change needs more: that the holder of the lock *)
(* stays where it took it, that its snapshot is the record unless somebody   *)
(* without the lock wrote meanwhile, and that a loop marks a protocol on the *)
(* strength of its successes.                                                *)
EXTENDS EndpointHealth, TLAPS

\* Where a task of each kind can be, and what a loop has behind it there.
TaskInv ==
    /\ \A l \in Loops :
         /\ at[l] \in {"off", "top", "probing", "report", "mark", "settle"}
         /\ at[l] # "mark" => run[l] < HealthyThreshold
         /\ at[l] = "mark" => ok[l] /\ run[l] >= HealthyThreshold
    /\ \A s \in Sweeps : at[s] \in {"off", "waiting"}
    /\ \A t \in Probes : at[t] \in {"off", "probing", "report", "done"}
    /\ \A s \in Sweeps, p \in Protocols : at[<<s, p>>] # "off" => at[s] = "waiting"

LockInv == lock # None => WantsLock(lock)

SnapInv ==
    lock # None /\ AliveTo(lock) /\ ~torn =>
        IF creating THEN rec = Absent /\ snap = Fresh ELSE rec = snap

WriteInv == TypeOK /\ TaskInv /\ LockInv /\ SnapInv

USE CheckerAssumption, TasksAssumption, BalancersAssumption, NothingAssumption

-----------------------------------------------------------------------------
(* Types                                                                     *)

\* A new record is a record.
LEMMA FreshRecord == Fresh \in Record
    BY DEF Fresh, Record

\* The kinds of tasks and their protocols.
LEMMA TaskKinds ==
    /\ \A t \in Probes : /\ Protocol(t) \in Protocols
                         /\ t \notin Loops /\ t \notin Sweeps
                         /\ t \in Tasks
    /\ \A l \in Loops : /\ Protocol(l) = Key[l] /\ Key[l] \in Protocols
                        /\ l \notin Sweeps /\ l \in Tasks
    /\ \A s \in Sweeps : s \in Tasks
    /\ \A s \in Sweeps, p \in Protocols : <<s, p>> \in Probes
    /\ \A p \in Protocols : <<Boot, p>> \in Probes
BY DEF Probes, Tasks, Protocol, IsLoop

\* A record with a result entered is a record.
LEMMA ResultRecord ==
    ASSUME NEW r \in Record, NEW p \in Protocols, NEW probed \in BOOLEAN
    PROVE  /\ WithResult(r, p, probed) \in Record
           /\ [r EXCEPT !.healthy[p] = probed] \in Record
<1>1. Resolve(r.checked[p], r.healthy[p], probed) \in BOOLEAN
    BY DEF Resolve, Record
<1>2. WithResult(r, p, probed) \in Record
    BY <1>1 DEF WithResult, Record
<1>3. [r EXCEPT !.healthy[p] = probed] \in Record
    BY DEF Record
<1>4. QED
    BY <1>2, <1>3

\* A sweep writes a record.
LEMMA BothRecord ==
    ASSUME NEW r \in Record, NEW s \in Sweeps, ok \in [Tasks -> BOOLEAN]
    PROVE  WithBoth(r, s) \in Record
<1>1. \A p \in Protocols : <<s, p>> \in Tasks
    BY TaskKinds
<1>2. \A p \in Protocols : Resolve(r.checked[p], r.healthy[p], ok[<<s, p>>]) \in BOOLEAN
    BY <1>1 DEF Resolve, Record
<1>3. QED
    BY <1>2 DEF WithBoth, Record

\* The types hold at first.
LEMMA InitType == Init => TypeOK
<1> SUFFICES ASSUME Init PROVE TypeOK
    OBVIOUS
<1>1. WorldTypeOK
  <2>1. budget \in 0..MaxEvents
    BY DEF Init
  <2>2. limited \in BOOLEAN
    BY DEF Init
  <2>3. Resting \in [at : {"idle", "read", "create", "store", "lift"}, snap : Record]
    BY FreshRecord DEF Resting
  <2>4. QED
    BY <2>1, <2>2, <2>3 DEF Init, WorldTypeOK
<1>2. CheckerTypeOK
  <2>1. scan \in {"off", "boot", "tick", "create", "act"}
    BY DEF Init
  <2>2. run \in [Loops -> 0..HealthyThreshold]
    BY DEF Init
  <2>3. QED
    BY <2>1, <2>2, FreshRecord DEF Init, AllOff, CheckerTypeOK
<1>3. BalancerTypeOK
  <2>1. Idle \in [at : {"idle", "fetch", "create", "fill", "sent", "mark", "store", "drop"},
                  protocol : Protocols, good : BOOLEAN, snap : Record]
    BY FreshRecord DEF Idle, Protocols
  <2>2. Even \in [failures : 0..FailureThreshold, successes : 0..SuccessThreshold]
    BY DEF Even
  <2>3. QED
    BY <2>1, <2>2 DEF Init, BalancerTypeOK
<1>4. QED
    BY <1>1, <1>2, <1>3 DEF TypeOK

-----------------------------------------------------------------------------
(* Steps that leave part of the state alone                                  *)

\* Who leaves tasks and lock alone keeps what is known of them.
LEMMA TasksFrame ==
    ASSUME WriteInv, UNCHANGED tasks, UNCHANGED lock
    PROVE  TaskInv' /\ LockInv'
BY DEF WriteInv, TaskInv, LockInv, WantsLock, Collected, tasks

\* The tasks and the lock are left alone, and so is the record, or whoever
\* writes it without the lock owns up to it.
LEMMA RecordFrame ==
    ASSUME WriteInv, UNCHANGED <<tasks, locking>>,
           \/ rec' = rec /\ torn' = torn
           \/ torn' = (torn \/ lock # None)
    PROVE  TaskInv' /\ LockInv' /\ SnapInv'
<1>1. TaskInv' /\ LockInv'
    BY TasksFrame DEF locking
<1>2. SnapInv'
    BY DEF WriteInv, TypeOK, CheckerTypeOK, SnapInv, AliveTo, tasks, locking
<1>3. QED
    BY <1>1, <1>2

\* Who leaves record and surroundings alone keeps their types.
LEMMA WorldFrame ==
    ASSUME WorldTypeOK, UNCHANGED <<rec, surroundings>>
    PROVE  WorldTypeOK'
BY DEF WorldTypeOK, surroundings

\* Who leaves the checker alone keeps its types.
LEMMA CheckerFrame ==
    ASSUME CheckerTypeOK, UNCHANGED <<scanner, tasks, locking, torn>>
    PROVE  CheckerTypeOK'
BY DEF CheckerTypeOK, scanner, tasks, locking

\* Who leaves the balancers alone keeps theirs.
LEMMA BalancerFrame ==
    ASSUME BalancerTypeOK, UNCHANGED balancing
    PROVE  BalancerTypeOK'
BY DEF BalancerTypeOK, balancing

-----------------------------------------------------------------------------
(* The checker's tasks                                                       *)

\* The end of a probe keeps the invariant.
LEMMA ProbeKeeps ==
    ASSUME WriteInv, NEW t \in Tasks, Probe(t)
    PROVE  WriteInv'
<1>0. /\ at \in [Tasks -> {"off", "probing", "report", "done", "waiting",
                          "top", "mark", "settle"}]
      /\ ok \in [Tasks -> BOOLEAN]
    BY DEF WriteInv, TypeOK, CheckerTypeOK
<1>1. t \notin Sweeps
    BY DEF WriteInv, TaskInv, Probe
<1>2. WorldTypeOK' /\ BalancerTypeOK'
    BY WorldFrame, BalancerFrame DEF WriteInv, TypeOK, Probe
<1>3. ok' \in [Tasks -> BOOLEAN]
  <2>1. (node[Protocol(t)] /\ (AliveTo(t) \/ Protocol(t) = "ws")) \in BOOLEAN
      BY <1>1, TaskKinds DEF WriteInv, TypeOK, WorldTypeOK, Tasks
  <2>2. QED
      BY <1>0, <2>1 DEF Probe
<1>4. CheckerTypeOK'
    BY <1>0, <1>3 DEF WriteInv, TypeOK, CheckerTypeOK, Probe, scanner, locking
<1>5. TaskInv'
  <2>1. t \in Loops \/ t \in Probes
      BY <1>1 DEF Tasks
  <2>2. \A u \in Tasks : u # t => at'[u] = at[u] /\ ok'[u] = ok[u]
      BY <1>0 DEF Probe
  <2>3. at'[t] = "report" /\ run' = run /\ at[t] = "probing"
      BY <1>0 DEF Probe
  <2>4. QED
      BY <1>1, <2>1, <2>2, <2>3, TaskKinds DEF WriteInv, TaskInv
<1>6. LockInv'
    BY <1>0, <1>1, TaskKinds DEF WriteInv, LockInv, WantsLock, Collected, Probe, locking
<1>7. SnapInv'
    BY DEF WriteInv, SnapInv, AliveTo, Probe, locking
<1>8. QED
    BY <1>2, <1>4, <1>5, <1>6, <1>7 DEF WriteInv, TypeOK

\* A task takes the lock and reads.
LEMMA AcquireKeeps ==
    ASSUME WriteInv, NEW t \in Tasks, Acquire(t) \/ AcquireBlind(t)
    PROVE  WriteInv'
<1>1. WorldTypeOK'
    BY DEF WriteInv, TypeOK, WorldTypeOK, Acquire, AcquireBlind, surroundings
<1>2. CheckerTypeOK'
  <2>1. snap' \in Record
      BY FreshRecord DEF WriteInv, TypeOK, WorldTypeOK, Acquire, AcquireBlind
  <2>2. QED
      BY <2>1 DEF WriteInv, TypeOK, CheckerTypeOK, Acquire, AcquireBlind, scanner, tasks
<1>3. BalancerTypeOK'
    BY BalancerFrame DEF WriteInv, TypeOK, Acquire, AcquireBlind
<1>4. TaskInv'
    BY DEF WriteInv, TaskInv, Acquire, AcquireBlind, tasks
<1>5. LockInv'
    BY DEF LockInv, WantsLock, Collected, Acquire, AcquireBlind, tasks
<1>6. SnapInv'
    BY DEF SnapInv, Acquire, AcquireBlind
<1>7. QED
    BY <1>1, <1>2, <1>3, <1>4, <1>5, <1>6 DEF WriteInv, TypeOK

\* A task finds no record and writes one.
LEMMA CreateKeeps ==
    ASSUME WriteInv, NEW t \in Tasks, CreateRecord(t)
    PROVE  WriteInv'
<1>1. WorldTypeOK'
    BY FreshRecord DEF WriteInv, TypeOK, WorldTypeOK, CreateRecord, surroundings
<1>2. CheckerTypeOK' /\ BalancerTypeOK'
    BY BalancerFrame
       DEF WriteInv, TypeOK, CheckerTypeOK, CreateRecord, scanner, tasks
<1>3. TaskInv' /\ LockInv'
    BY TasksFrame DEF CreateRecord
<1>4. SnapInv'
    BY DEF WriteInv, SnapInv, AliveTo, CreateRecord, tasks
<1>5. QED
    BY <1>1, <1>2, <1>3, <1>4 DEF WriteInv, TypeOK

\* Who wants the lock, and where from.
LEMMA WantKinds ==
    ASSUME WriteInv, NEW t \in Tasks, WantsLock(t)
    PROVE  \/ at[t] = "report" /\ t \in Loops
           \/ at[t] = "report" /\ t \in Probes
           \/ at[t] = "mark" /\ t \in Loops
           \/ at[t] = "waiting" /\ t \in Sweeps /\ Collected(t)
BY TaskKinds DEF WriteInv, TaskInv, WantsLock, Collected, Tasks

\* A task goes on after the report of its probe.
LEMMA AfterReportKeeps ==
    ASSUME WriteInv, NEW t \in Tasks, at[t] = "report", AfterReport(t)
    PROVE  /\ at' \in [Tasks -> {"off", "probing", "report", "done", "waiting",
                                "top", "mark", "settle"}]
           /\ ok' \in [Tasks -> BOOLEAN]
           /\ run' \in [Loops -> 0..HealthyThreshold]
           /\ TaskInv'
<1>0. /\ at \in [Tasks -> {"off", "probing", "report", "done", "waiting",
                          "top", "mark", "settle"}]
      /\ ok \in [Tasks -> BOOLEAN]
      /\ run \in [Loops -> 0..HealthyThreshold]
      /\ TaskInv
    BY DEF WriteInv, TypeOK, CheckerTypeOK
<1>1. CASE t \in Loops
  <2>1. run[t] < HealthyThreshold /\ run[t] \in 0..HealthyThreshold
    BY <1>0, <1>1 DEF TaskInv
  <2>2. Counted(t) \in 0..HealthyThreshold /\ (Counted(t) >= HealthyThreshold => ok[t])
    BY <2>1 DEF Counted
  <2>3. CASE Counted(t) >= HealthyThreshold
    <3>1. /\ at' = [at EXCEPT ![t] = "mark"]
          /\ ok' = [ok EXCEPT ![t] = TRUE]
          /\ run' = [run EXCEPT ![t] = Counted(t)]
      BY <1>1, <2>3, Zenon DEF AfterReport, IsLoop
    <3>2. QED
      BY <1>0, <1>1, <2>2, <2>3, <3>1, TaskKinds DEF TaskInv
  <2>4. CASE ~(Counted(t) >= HealthyThreshold)
    <3>1. /\ at' = [at EXCEPT ![t] = "top"]
          /\ ok' = [ok EXCEPT ![t] = Counted(t) >= HealthyThreshold]
          /\ run' = [run EXCEPT ![t] = Counted(t)]
      BY <1>1, <2>4, Zenon DEF AfterReport, IsLoop
    <3>2. Counted(t) < HealthyThreshold
      BY <2>2, <2>4
    <3>3. QED
      BY <1>0, <1>1, <2>2, <3>1, <3>2, TaskKinds DEF TaskInv
  <2>5. QED
    BY <2>3, <2>4
<1>2. CASE t \notin Loops
  <2>1. t \in Probes
    BY <1>0, <1>2 DEF TaskInv, Tasks
  <2>2. QED
    BY <1>0, <1>2, <2>1, TaskKinds DEF AfterReport, IsLoop, TaskInv
<1>3. QED
    BY <1>1, <1>2

\* A loop goes on after its mark.
LEMMA AfterMarkKeeps ==
    ASSUME WriteInv, NEW t \in Loops, at[t] = "mark", AfterMark(t)
    PROVE  /\ at' \in [Tasks -> {"off", "probing", "report", "done", "waiting",
                                "top", "mark", "settle"}]
           /\ ok' \in [Tasks -> BOOLEAN]
           /\ run' \in [Loops -> 0..HealthyThreshold]
           /\ TaskInv'
BY TaskKinds DEF WriteInv, TypeOK, CheckerTypeOK, AfterMark, TaskInv

\* A sweep goes on after its own write.
LEMMA AfterSweepKeeps ==
    ASSUME WriteInv, NEW t \in Sweeps, at[t] = "waiting", AfterSweep(t)
    PROVE  /\ at' \in [Tasks -> {"off", "probing", "report", "done", "waiting",
                                "top", "mark", "settle"}]
           /\ ok' \in [Tasks -> BOOLEAN]
           /\ run' \in [Loops -> 0..HealthyThreshold]
           /\ TaskInv'
<1>1. /\ \A u \in Tasks : at'[u] = at[u] \/ at'[u] = "off"
      /\ \A u \in Loops : at'[u] = at[u] /\ ok'[u] = ok[u]
      /\ \A p \in Protocols : at'[<<t, p>>] = "off"
      /\ \A s \in Sweeps : s # t => at'[s] = at[s]
    BY TaskKinds DEF AfterSweep, SweepOf
<1>2. /\ at' \in [Tasks -> {"off", "probing", "report", "done", "waiting",
                            "top", "mark", "settle"}]
      /\ ok' \in [Tasks -> BOOLEAN]
      /\ run' \in [Loops -> 0..HealthyThreshold]
    BY DEF WriteInv, TypeOK, CheckerTypeOK, AfterSweep
<1>3. run' = run
    BY DEF AfterSweep
<1>4. \A l \in Loops :
         /\ at'[l] \in {"off", "top", "probing", "report", "mark", "settle"}
         /\ at'[l] # "mark" => run'[l] < HealthyThreshold
         /\ at'[l] = "mark" => ok'[l] /\ run'[l] >= HealthyThreshold
    BY <1>1, <1>3 DEF WriteInv, TaskInv
<1>5. /\ \A s \in Sweeps : at'[s] \in {"off", "waiting"}
      /\ \A u \in Probes : at'[u] \in {"off", "probing", "report", "done"}
    BY <1>1, TaskKinds DEF WriteInv, TaskInv
<1>6. \A s \in Sweeps, p \in Protocols : at'[<<s, p>>] # "off" => at'[s] = "waiting"
    BY <1>1, TaskKinds DEF WriteInv, TaskInv
<1>7. QED
    BY <1>2, <1>4, <1>5, <1>6 DEF TaskInv

\* A task that gives the lock back goes on.
LEMMA GoOnKeeps ==
    ASSUME WriteInv, NEW t \in Tasks, WantsLock(t), GoOn(t), UNCHANGED scanner
    PROVE  CheckerTypeOK' /\ TaskInv' /\ LockInv' /\ SnapInv'
<1>1. /\ at' \in [Tasks -> {"off", "probing", "report", "done", "waiting",
                            "top", "mark", "settle"}]
      /\ ok' \in [Tasks -> BOOLEAN]
      /\ run' \in [Loops -> 0..HealthyThreshold]
      /\ TaskInv'
  <2>1. CASE at[t] = "report"
    <3>1. AfterReport(t)
      BY <2>1 DEF GoOn
    <3>2. QED
      BY <2>1, <3>1, AfterReportKeeps
  <2>2. CASE at[t] = "mark" /\ t \in Loops
    <3>1. AfterMark(t)
      BY <2>2 DEF GoOn
    <3>2. QED
      BY <2>2, <3>1, AfterMarkKeeps
  <2>3. CASE at[t] = "waiting" /\ t \in Sweeps
    <3>1. AfterSweep(t)
      BY <2>3 DEF GoOn
    <3>2. QED
      BY <2>3, <3>1, AfterSweepKeeps
  <2>4. QED
    BY <2>1, <2>2, <2>3, WantKinds
<1>2. CheckerTypeOK'
    BY <1>1, FreshRecord DEF WriteInv, TypeOK, CheckerTypeOK, GoOn, scanner
<1>3. LockInv' /\ SnapInv'
    BY DEF LockInv, SnapInv, GoOn
<1>4. QED
    BY <1>1, <1>2, <1>3

\* What a task makes of the record it read is a record.
LEMMA UpdatedRecord ==
    ASSUME WriteInv, NEW t \in Tasks, WantsLock(t)
    PROVE  Updated(t) \in Record
<1>0. snap \in Record /\ ok \in [Tasks -> BOOLEAN]
    BY DEF WriteInv, TypeOK, CheckerTypeOK
<1>1. CASE at[t] = "report" /\ (t \in Loops \/ t \in Probes)
  <2>1. Updated(t) = WithResult(snap, Protocol(t), ok[t])
    BY <1>1 DEF Updated
  <2>2. Protocol(t) \in Protocols /\ ok[t] \in BOOLEAN
    BY <1>0, <1>1, TaskKinds
  <2>3. WithResult(snap, Protocol(t), ok[t]) \in Record
    BY <1>0, <2>2, ResultRecord
  <2>4. QED
    BY <2>1, <2>3
<1>2. CASE at[t] = "mark" /\ t \in Loops
  <2>1. Updated(t) = [snap EXCEPT !.healthy[Key[t]] = TRUE]
    BY <1>2 DEF Updated
  <2>2. Key[t] \in Protocols
    BY <1>2, TaskKinds
  <2>3. [snap EXCEPT !.healthy[Key[t]] = TRUE] \in Record
    BY <1>0, <2>2, ResultRecord
  <2>4. QED
    BY <2>1, <2>3
<1>3. CASE at[t] = "waiting" /\ t \in Sweeps
  <2>1. Updated(t) = WithBoth(snap, t)
    BY <1>3 DEF Updated
  <2>2. QED
    BY <1>0, <1>3, <2>1, BothRecord
<1>4. QED
    BY <1>1, <1>2, <1>3, WantKinds

\* A task writes, or fails to.
LEMMA StoreKeeps ==
    ASSUME WriteInv, NEW t \in Tasks,
           Store(t) \/ StoreFails(t) \/ StoreCancelled(t)
    PROVE  WriteInv'
<1>1. WantsLock(t) /\ GoOn(t) /\ UNCHANGED <<scanner, balancing>>
    BY DEF WriteInv, LockInv, Store, StoreFails, StoreCancelled
<1>2. CheckerTypeOK' /\ TaskInv' /\ LockInv' /\ SnapInv'
    BY <1>1, GoOnKeeps
<1>3. WorldTypeOK'
  <2>1. CASE Store(t)
    BY <1>1, <2>1, UpdatedRecord
       DEF WriteInv, TypeOK, WorldTypeOK, Store, surroundings
  <2>2. CASE StoreFails(t)
    BY <2>2 DEF WriteInv, TypeOK, WorldTypeOK, StoreFails
  <2>3. CASE StoreCancelled(t)
    BY <2>3, WorldFrame DEF WriteInv, TypeOK, StoreCancelled
  <2>4. QED
    BY <2>1, <2>2, <2>3
<1>4. BalancerTypeOK'
    BY <1>1, BalancerFrame DEF WriteInv, TypeOK
<1>5. QED
    BY <1>2, <1>3, <1>4 DEF WriteInv, TypeOK

-----------------------------------------------------------------------------
(* Sweeps, scans and loops                                                   *)

\* A sweep starts its probes.
LEMMA StartSweepKeeps ==
    ASSUME WriteInv, NEW s \in Sweeps, StartSweep(s)
    PROVE  WriteInv'
<1>0. /\ at \in [Tasks -> {"off", "probing", "report", "done", "waiting",
                          "top", "mark", "settle"}]
      /\ at[s] = "off" /\ s \in Tasks
    BY TaskKinds DEF WriteInv, TypeOK, CheckerTypeOK, StartSweep
<1>1. WorldTypeOK' /\ BalancerTypeOK'
    BY WorldFrame, BalancerFrame DEF WriteInv, TypeOK, StartSweep
<1>2. /\ at' \in [Tasks -> {"off", "probing", "report", "done", "waiting",
                            "top", "mark", "settle"}]
      /\ at'[s] = "waiting"
      /\ \A u \in Loops : at'[u] = at[u]
      /\ \A u \in Sweeps : u # s => at'[u] = at[u]
      /\ \A u \in Probes : \/ at'[u] = at[u] /\ u[1] # s
                           \/ at'[u] \in {"probing", "done"} /\ u[1] = s
    BY <1>0, TaskKinds DEF StartSweep, SweepOf
<1>3. CheckerTypeOK'
    BY <1>2 DEF WriteInv, TypeOK, CheckerTypeOK, StartSweep, scanner, locking
<1>4. \A u \in Probes : u[1] = s => at[u] = "off"
    BY <1>0 DEF WriteInv, TaskInv, Probes
<1>5. TaskInv'
  <2>1. run' = run /\ ok' = ok
      BY DEF StartSweep
  <2>2. \A r \in Sweeps, p \in Protocols : at'[<<r, p>>] # "off" => at'[r] = "waiting"
      BY <1>2, TaskKinds DEF WriteInv, TaskInv
  <2>3. QED
      BY <1>2, <2>1, <2>2 DEF WriteInv, TaskInv
<1>6. LockInv'
  <2> SUFFICES ASSUME lock # None PROVE WantsLock(lock)'
      BY DEF LockInv, StartSweep, locking
  <2>1. WantsLock(lock) /\ lock \in Tasks /\ lock' = lock
      BY DEF WriteInv, LockInv, TypeOK, CheckerTypeOK, StartSweep, locking
  <2>2. CASE at[lock] \in {"report", "mark"}
    <3>1. at'[lock] = at[lock]
      BY <1>0, <1>2, <1>4, <2>1, <2>2 DEF Tasks
    <3>2. QED
      BY <2>1, <2>2, <3>1 DEF WantsLock
  <2>3. CASE lock \in Sweeps /\ Collected(lock)
    <3>1. lock # s
      BY <1>0, <2>3 DEF Collected
    <3>2. \A p \in Protocols : at'[<<lock, p>>] = at[<<lock, p>>]
      BY <1>2, <2>3, <3>1, TaskKinds
    <3>3. QED
      BY <1>2, <2>1, <2>3, <3>1, <3>2 DEF WantsLock, Collected
  <2>4. QED
      BY <2>1, <2>2, <2>3 DEF WantsLock
<1>7. SnapInv'
    BY DEF WriteInv, SnapInv, AliveTo, StartSweep, locking
<1>8. QED
    BY <1>1, <1>3, <1>5, <1>6, <1>7 DEF WriteInv, TypeOK

\* A step that moves tasks nobody waits for the lock in, and moves no sweep.
LEMMA MovesKeepLock ==
    ASSUME WriteInv, UNCHANGED locking,
           \A u \in Tasks : at[u] \in {"report", "mark", "done", "waiting"} => at'[u] = at[u]
    PROVE  LockInv'
BY TaskKinds
   DEF WriteInv, LockInv, TypeOK, CheckerTypeOK, WantsLock, Collected, locking

\* A probe of the start begins.
LEMMA BootKeeps ==
    ASSUME WriteInv, NEW p \in Protocols, BootProbe(p)
    PROVE  WriteInv'
<1>0. /\ at \in [Tasks -> {"off", "probing", "report", "done", "waiting",
                          "top", "mark", "settle"}]
      /\ <<Boot, p>> \in Probes /\ <<Boot, p>> \in Tasks
    BY TaskKinds DEF WriteInv, TypeOK, CheckerTypeOK
<1>1. WorldTypeOK' /\ BalancerTypeOK'
    BY WorldFrame, BalancerFrame DEF WriteInv, TypeOK, BootProbe
<1>2. CheckerTypeOK'
    BY <1>0 DEF WriteInv, TypeOK, CheckerTypeOK, BootProbe, scanner, locking
<1>3. /\ at[<<Boot, p>>] = "off" /\ at'[<<Boot, p>>] = "probing"
      /\ \A u \in Tasks : u # <<Boot, p>> => at'[u] = at[u]
      /\ run' = run /\ ok' = ok
    BY <1>0 DEF BootProbe
<1>4. TaskInv'
  <2>1. \A s \in Sweeps, q \in Protocols : at'[<<s, q>>] = at[<<s, q>>]
    <3>1. \A s \in Sweeps, q \in Protocols :
              <<s, q>> # <<Boot, p>> /\ <<s, q>> \in Tasks
      BY TaskKinds
    <3>2. QED
      BY <1>3, <3>1
  <2>0. \A s \in Sweeps : at'[s] = at[s]
    <3>1. \A s \in Sweeps : s \in Tasks /\ s # <<Boot, p>>
      BY TaskKinds
    <3>2. QED
      BY <1>3, <3>1
  <2>2. \A l \in Loops : at'[l] = at[l]
      BY <1>0, <1>3, TaskKinds
  <2>3. \A u \in Probes : at'[u] \in {"off", "probing", "report", "done"}
      BY <1>0, <1>3, TaskKinds DEF WriteInv, TaskInv
  <2>4. QED
      BY <1>3, <2>0, <2>1, <2>2, <2>3 DEF WriteInv, TaskInv
<1>5. LockInv'
    BY <1>3, MovesKeepLock DEF BootProbe
<1>6. SnapInv'
    BY DEF WriteInv, SnapInv, AliveTo, BootProbe, locking
<1>7. QED
    BY <1>1, <1>2, <1>4, <1>5, <1>6 DEF WriteInv, TypeOK

\* The scan reads the record.
LEMMA ScanReadsKeeps ==
    ASSUME WriteInv, BootEnds \/ ScanReads \/ ScanCreates \/ ScanFails
    PROVE  WriteInv'
<1>1. WorldTypeOK'
    BY FreshRecord
       DEF WriteInv, TypeOK, WorldTypeOK, BootEnds, ScanReads, ScanCreates,
           ScanFails, surroundings
<1>2. CheckerTypeOK'
  <2>1. view' \in Record
      BY FreshRecord
         DEF WriteInv, TypeOK, WorldTypeOK, CheckerTypeOK, BootEnds, ScanReads,
             ScanCreates, ScanFails
  <2>2. scan' \in {"off", "boot", "tick", "create", "act"} /\ torn' \in BOOLEAN
      BY DEF WriteInv, TypeOK, CheckerTypeOK, BootEnds, ScanReads, ScanCreates, ScanFails
  <2>3. UNCHANGED <<entry, tasks, locking>>
      BY DEF BootEnds, ScanReads, ScanCreates, ScanFails
  <2>4. QED
      BY <2>1, <2>2, <2>3 DEF WriteInv, TypeOK, CheckerTypeOK, tasks, locking
<1>3. BalancerTypeOK'
    BY BalancerFrame
       DEF WriteInv, TypeOK, BootEnds, ScanReads, ScanCreates, ScanFails
<1>4. TaskInv' /\ LockInv' /\ SnapInv'
    BY RecordFrame DEF BootEnds, ScanReads, ScanCreates, ScanFails
<1>5. QED
    BY <1>1, <1>2, <1>3, <1>4 DEF WriteInv, TypeOK

\* Loops that start are at their top; the others stay where they are.
LEMMA LaunchMoves ==
    ASSUME WriteInv, NEW start \in [Wanting -> Loops], Launch(start)
    PROVE  /\ \A u \in Tasks :
            at'[u] = at[u] \/ (u \in Loops /\ at[u] = "off" /\ at'[u] = "top")
           /\ at' \in [Tasks -> {"off", "probing", "report", "done", "waiting",
                                "top", "mark", "settle"}]
           /\ entry' \in [Protocols -> Loops \cup {None}]
<1>0. /\ at \in [Tasks -> {"off", "probing", "report", "done", "waiting",
                          "top", "mark", "settle"}]
      /\ entry \in [Protocols -> Loops \cup {None}]
    BY DEF WriteInv, TypeOK, CheckerTypeOK
<1>1. \A p \in Wanting : start[p] \in Loops /\ at[start[p]] = "off"
    BY DEF Launch, Free
<1>2. \A u \in Tasks : at'[u] = IF \E p \in Wanting : start[p] = u THEN "top" ELSE at[u]
    BY DEF Launch
<1>3. \A u \in Tasks :
            at'[u] = at[u] \/ (u \in Loops /\ at[u] = "off" /\ at'[u] = "top")
    BY <1>1, <1>2
<1>4. at' \in [Tasks -> {"off", "probing", "report", "done", "waiting",
                        "top", "mark", "settle"}]
  <2>1. \A u \in Tasks :
            (IF \E p \in Wanting : start[p] = u THEN "top" ELSE at[u])
              \in {"off", "probing", "report", "done", "waiting", "top", "mark", "settle"}
      BY <1>0
  <2>2. QED
      BY <2>1 DEF Launch
<1>5. entry' \in [Protocols -> Loops \cup {None}]
    BY <1>0, <1>1 DEF Launch
<1>6. QED
    BY <1>3, <1>4, <1>5

\* The scan starts and cancels loops.
LEMMA ScanActsKeeps ==
    ASSUME WriteInv, ScanActs
    PROVE  WriteInv'
<1>1. WorldTypeOK' /\ BalancerTypeOK'
    BY WorldFrame, BalancerFrame DEF WriteInv, TypeOK, ScanActs
<1>2. /\ \A u \in Tasks :
            at'[u] = at[u] \/ (u \in Loops /\ at[u] = "off" /\ at'[u] = "top")
      /\ at' \in [Tasks -> {"off", "probing", "report", "done", "waiting",
                           "top", "mark", "settle"}]
      /\ entry' \in [Protocols -> Loops \cup {None}]
  <2>1. CASE UNCHANGED <<at, entry, cancelled>>
    <3>1. at' = at /\ entry' = entry
      BY <2>1
    <3>2. QED
      BY <3>1 DEF WriteInv, TypeOK, CheckerTypeOK
  <2>2. CASE \E start \in [Wanting -> Loops] : Launch(start)
    <3>1. PICK start \in [Wanting -> Loops] : Launch(start)
      BY <2>2
    <3>2. QED
      BY <3>1, LaunchMoves
  <2>3. QED
      BY <2>1, <2>2 DEF ScanActs
<1>3. cancelled' \subseteq Loops /\ cancelled \subseteq cancelled'
  <2>1. \A p \in Stopped : entry[p] \in Loops
      BY DEF Stopped, WriteInv, TypeOK, CheckerTypeOK
  <2>2. QED
      BY <2>1 DEF ScanActs, WriteInv, TypeOK, CheckerTypeOK
<1>4. CheckerTypeOK'
    BY <1>2, <1>3, FreshRecord
       DEF WriteInv, TypeOK, CheckerTypeOK, ScanActs, locking
<1>5. TaskInv'
    BY <1>2, TaskKinds DEF WriteInv, TaskInv, ScanActs
<1>6. LockInv'
    BY <1>2, MovesKeepLock DEF ScanActs
<1>7. SnapInv'
    BY <1>3 DEF WriteInv, SnapInv, AliveTo, ScanActs, locking
<1>8. QED
    BY <1>1, <1>4, <1>5, <1>6, <1>7 DEF WriteInv, TypeOK

\* A loop begins another round, or settles.
LEMMA LoopKeeps ==
    ASSUME WriteInv, NEW l \in Loops, LoopTurns(l) \/ LoopSettles(l)
    PROVE  WriteInv'
<1>0. /\ at \in [Tasks -> {"off", "probing", "report", "done", "waiting",
                          "top", "mark", "settle"}]
      /\ run \in [Loops -> 0..HealthyThreshold] /\ cancelled \subseteq Loops
      /\ entry \in [Protocols -> Loops \cup {None}]
      /\ l \in Tasks /\ Key[l] \in Protocols
    BY TaskKinds DEF WriteInv, TypeOK, CheckerTypeOK
<1>1. WorldTypeOK' /\ BalancerTypeOK'
    BY WorldFrame, BalancerFrame DEF WriteInv, TypeOK, LoopTurns, LoopSettles
<1>2. /\ at[l] \in {"top", "settle"} /\ at'[l] \in {"probing", "off"}
      /\ \A u \in Tasks : u # l => at'[u] = at[u]
      /\ at' \in [Tasks -> {"off", "probing", "report", "done", "waiting",
                           "top", "mark", "settle"}]
    BY <1>0 DEF LoopTurns, LoopSettles
<1>3. /\ run' \in [Loops -> 0..HealthyThreshold]
      /\ \A m \in Loops : run'[m] = run[m] \/ (m = l /\ run'[m] = 0)
    BY <1>0 DEF LoopTurns, LoopSettles
<1>4. /\ cancelled' \subseteq Loops
      /\ \A u \in Tasks : u # l /\ u \in cancelled => u \in cancelled'
      /\ entry' \in [Protocols -> Loops \cup {None}]
    BY <1>0 DEF LoopTurns, LoopSettles, scanner
<1>5. CheckerTypeOK'
    BY <1>2, <1>3, <1>4
       DEF WriteInv, TypeOK, CheckerTypeOK, LoopTurns, LoopSettles, scanner, locking
<1>6. TaskInv'
  <2>1. ok' = ok
      BY DEF LoopTurns, LoopSettles
  <2>2. run[l] < HealthyThreshold
      BY <1>2 DEF WriteInv, TaskInv
  <2>3. run'[l] < HealthyThreshold
      BY <1>3, <2>2
  <2>4. QED
      BY <1>2, <1>3, <2>1, <2>3, TaskKinds DEF WriteInv, TaskInv
<1>7. LockInv'
    BY <1>2, MovesKeepLock DEF LoopTurns, LoopSettles
<1>8. SnapInv'
  <2>1. lock # l
      BY <1>2, TaskKinds DEF WriteInv, LockInv, WantsLock
  <2>2. lock \in Tasks \cup {None} /\ UNCHANGED <<lock, snap, creating, torn, rec>>
      BY DEF WriteInv, TypeOK, CheckerTypeOK, LoopTurns, LoopSettles, locking
  <2>3. QED
      BY <1>4, <2>1, <2>2 DEF WriteInv, SnapInv, AliveTo
<1>9. QED
    BY <1>1, <1>5, <1>6, <1>7, <1>8 DEF WriteInv, TypeOK

-----------------------------------------------------------------------------
(* Load balancers                                                            *)

Hand == [at : {"idle", "fetch", "create", "fill", "sent", "mark", "renew", "store",
              "drop"},
         protocol : Protocols, good : BOOLEAN, snap : Record]

Count == [failures : 0..FailureThreshold, successes : 0..SuccessThreshold]

\* The balancers' types, written out.
LEMMA BalancerTypes ==
    BalancerTypeOK <=> /\ hand \in [Handlers -> Hand]
                       /\ streak \in [Balancers -> [Protocols -> Count]]
                       /\ cache \in [Balancers -> Record \cup {None}]
BY DEF BalancerTypeOK, Hand, Count

\* A handler that has nothing to do has a hand, too.
LEMMA IdleHand == Idle \in Hand
    BY FreshRecord DEF Idle, Hand, Protocols

\* A count at its start is a count.
LEMMA EvenCount == Even \in Count
    BY DEF Even, Count

\* A handler that changes its hand keeps the type of all.
LEMMA SetHand ==
    ASSUME hand \in [Handlers -> Hand], NEW h \in Handlers, NEW f \in Hand, Set(h, f)
    PROVE  hand' \in [Handlers -> Hand]
BY DEF Set

\* So does one that routes a request.
LEMMA RouteHand ==
    ASSUME hand \in [Handlers -> Hand], NEW h \in Handlers, NEW p \in Protocols,
           NEW r, Route(h, p, r)
    PROVE  hand' \in [Handlers -> Hand]
<1>1. [Idle EXCEPT !.at = "sent", !.protocol = p] \in Hand
    BY IdleHand DEF Hand
<1>2. CASE Set(h, Idle)
    BY <1>2, IdleHand, SetHand
<1>3. CASE Set(h, [Idle EXCEPT !.at = "sent", !.protocol = p])
    BY <1>1, <1>3, SetHand
<1>4. QED
    BY <1>2, <1>3 DEF Route

\* A streak that goes on or breaks is a count.
LEMMA TallyCount ==
    ASSUME NEW c \in Count, NEW good \in BOOLEAN
    PROVE  Tally(c, good) \in Count
<1>1. c.failures \in 0..FailureThreshold /\ c.successes \in 0..SuccessThreshold
    BY DEF Count
<1>2. /\ (IF good THEN 0 ELSE IF c.failures < FailureThreshold THEN c.failures + 1
          ELSE c.failures) \in 0..FailureThreshold
      /\ (IF ~good THEN 0 ELSE IF c.successes < SuccessThreshold THEN c.successes + 1
          ELSE c.successes) \in 0..SuccessThreshold
    BY <1>1
<1>3. QED
    BY <1>2 DEF Tally, Count

\* What a load balancer does changes no more than its own state and the record.
LEMMA BalancerStep ==
    ASSUME WriteInv, BalancerTypeOK', WorldTypeOK',
           UNCHANGED <<scanner, tasks, locking>>,
           \/ rec' = rec /\ torn' = torn
           \/ torn' = (torn \/ lock # None)
    PROVE  WriteInv'
<1>1. TaskInv' /\ LockInv' /\ SnapInv'
    BY RecordFrame
<1>2. torn' \in BOOLEAN
    BY DEF WriteInv, TypeOK, CheckerTypeOK
<1>3. CheckerTypeOK'
    BY <1>2 DEF WriteInv, TypeOK, CheckerTypeOK, scanner, tasks, locking
<1>4. QED
    BY <1>1, <1>3 DEF WriteInv, TypeOK

\* So does a handler that is about to mark the record.
LEMMA MarkingHand ==
    ASSUME hand \in [Handlers -> Hand], NEW h \in Handlers, NEW r \in Record, Marking(h, r)
    PROVE  hand' \in [Handlers -> Hand]
<1> DEFINE p == hand[h].protocol
           marked == [r EXCEPT !.healthy[p] = hand[h].good]
<1>1. marked \in Record
    BY ResultRecord DEF Hand
<1>2. [Moved(h, "store") EXCEPT !.snap = marked] \in Hand
  <2> HIDE DEF marked
  <2>1. QED
      BY <1>1 DEF Moved, Hand
<1>3. Set(h, Idle) \/ Set(h, [Moved(h, "store") EXCEPT !.snap = marked])
    BY DEF Marking
<1>4. QED
    BY <1>2, <1>3, IdleHand, SetHand

\* Handlers keep the invariant.
LEMMA HandlerKeeps ==
    ASSUME WriteInv, NEW h \in Handlers,
           HandlerStep(h) \/ (\E p \in Served : Arrive(h, p))
    PROVE  WriteInv'
<1>0. /\ hand \in [Handlers -> Hand]
      /\ streak \in [Balancers -> [Protocols -> Count]]
      /\ cache \in [Balancers -> Record \cup {None}]
      /\ rec \in Record \cup {Absent} /\ WorldTypeOK
    BY BalancerTypes DEF WriteInv, TypeOK, WorldTypeOK
<1>1. hand[h] \in Hand /\ hand[h].protocol \in Protocols /\ hand[h].snap \in Record
    BY <1>0 DEF Hand
<1>2. CASE \E p \in Served : Arrive(h, p)
  <2>1. PICK p \in Served : Arrive(h, p)
      BY <1>2
  <2>2. hand' \in [Handlers -> Hand]
    <3>1. CASE Set(h, [Idle EXCEPT !.at = "fetch", !.protocol = p])
      <4>1. [Idle EXCEPT !.at = "fetch", !.protocol = p] \in Hand
        BY IdleHand DEF Hand
      <4>2. QED
        BY <1>0, <3>1, <4>1, SetHand
    <3>2. CASE Route(h, p, cache[Host[h]])
      BY <1>0, <3>2, RouteHand
    <3>3. QED
      BY <2>1, <3>1, <3>2 DEF Arrive
  <2>3. WorldTypeOK' /\ BalancerTypeOK'
      BY <1>0, <2>1, <2>2, WorldFrame DEF Arrive, BalancerTypeOK, Hand, Count
  <2>4. QED
      BY <2>1, <2>3, BalancerStep DEF Arrive
<1>3. CASE Fetch(h)
  <2>1. Moved(h, "create") \in Hand
      BY <1>1 DEF Moved, Hand
  <2>2. rec # Absent => [Moved(h, "fill") EXCEPT !.snap = rec] \in Hand
      BY <1>0, <1>1 DEF Moved, Hand
  <2>3. hand' \in [Handlers -> Hand]
      BY <1>0, <1>3, <2>1, <2>2, SetHand DEF Fetch
  <2>4. WorldTypeOK' /\ BalancerTypeOK'
      BY <1>0, <1>3, <2>3, WorldFrame DEF Fetch, BalancerTypeOK, Hand, Count
  <2>5. QED
      BY <1>3, <2>4, BalancerStep DEF Fetch
<1>4. CASE CreateForRequest(h)
  <2>1. [Moved(h, "fill") EXCEPT !.snap = Fresh] \in Hand
      BY <1>1, FreshRecord DEF Moved, Hand
  <2>2. hand' \in [Handlers -> Hand]
      BY <1>0, <1>4, <2>1, SetHand DEF CreateForRequest
  <2>3. WorldTypeOK'
      BY <1>0, <1>4, FreshRecord DEF CreateForRequest, WorldTypeOK, surroundings
  <2>4. BalancerTypeOK'
      BY <1>0, <1>4, <2>2 DEF CreateForRequest, BalancerTypeOK, Hand, Count
  <2>5. QED
      BY <1>4, <2>3, <2>4, BalancerStep DEF CreateForRequest
<1>5. CASE Fill(h)
  <2>1. hand' \in [Handlers -> Hand]
      BY <1>0, <1>1, <1>5, RouteHand DEF Fill
  <2>2. cache' \in [Balancers -> Record \cup {None}]
      BY <1>0, <1>1, <1>5 DEF Fill
  <2>3. WorldTypeOK' /\ BalancerTypeOK'
      BY <1>0, <1>5, <2>1, <2>2, WorldFrame DEF Fill, BalancerTypeOK, Hand, Count
  <2>4. QED
      BY <1>5, <2>3, BalancerStep DEF Fill
<1>6. CASE Observe(h)
  <2> DEFINE p == hand[h].protocol
             b == Host[h]
             now == Tally(streak[b][p], node[p])
  <2>1. node[p] \in BOOLEAN /\ b \in Balancers
      BY <1>0, <1>1 DEF WorldTypeOK
  <2>2. now \in Count
      BY <1>0, <1>1, <2>1, TallyCount
  <2>3. streak' \in [Balancers -> [Protocols -> Count]]
    <3>1. streak' = streak \/ streak' = [streak EXCEPT ![b][p] = now]
      BY <1>6 DEF Observe
    <3>2. p \in Protocols /\ b \in Balancers
      BY <1>1, <2>1
    <3> HIDE DEF p, b, now
    <3>3. [streak EXCEPT ![b][p] = now] \in [Balancers -> [Protocols -> Count]]
      BY <1>0, <2>2, <3>2
    <3>4. QED
      BY <1>0, <3>1, <3>3
  <2>4. [Moved(h, "mark") EXCEPT !.good = node[p]] \in Hand
      BY <1>1, <2>1 DEF Moved, Hand
  <2>5. hand' \in [Handlers -> Hand]
    <3>1. Set(h, [Moved(h, "mark") EXCEPT !.good = node[p]]) \/ Set(h, Idle)
      BY <1>6 DEF Observe
    <3>2. QED
      BY <1>0, <2>4, <3>1, IdleHand, SetHand
  <2>6. WorldTypeOK' /\ BalancerTypeOK'
      BY <1>0, <1>6, <2>3, <2>5, WorldFrame DEF Observe, BalancerTypeOK, Hand, Count
  <2>7. QED
      BY <1>6, <2>6, BalancerStep DEF Observe
<1>7. CASE MarkReads(h)
  <2>1. Moved(h, "renew") \in Hand
      BY <1>1 DEF Moved, Hand
  <2>2. Set(h, Moved(h, "renew")) \/ (rec \in Record /\ Marking(h, rec))
      BY <1>0, <1>7 DEF MarkReads
  <2>3. hand' \in [Handlers -> Hand]
      BY <1>0, <2>1, <2>2, SetHand, MarkingHand
  <2>4. WorldTypeOK' /\ BalancerTypeOK'
      BY <1>0, <1>7, <2>3, WorldFrame DEF MarkReads, BalancerTypeOK, Hand, Count
  <2>5. QED
      BY <1>7, <2>4, BalancerStep DEF MarkReads
<1>10. CASE MarkCreates(h)
  <2>1. hand' \in [Handlers -> Hand]
      BY <1>0, <1>10, FreshRecord, MarkingHand DEF MarkCreates
  <2>2. WorldTypeOK'
      BY <1>0, <1>10, FreshRecord DEF MarkCreates, WorldTypeOK, surroundings
  <2>3. BalancerTypeOK'
      BY <1>0, <1>10, <2>1 DEF MarkCreates, BalancerTypeOK, Hand, Count
  <2>4. QED
      BY <1>10, <2>2, <2>3, BalancerStep DEF MarkCreates
<1>8. CASE MarkStores(h)
  <2>1. Moved(h, "drop") \in Hand
      BY <1>1 DEF Moved, Hand
  <2>2. hand' \in [Handlers -> Hand]
      BY <1>0, <1>8, <2>1, SetHand DEF MarkStores
  <2>3. WorldTypeOK'
      BY <1>0, <1>1, <1>8 DEF MarkStores, WorldTypeOK, surroundings
  <2>4. BalancerTypeOK'
      BY <1>0, <1>8, <2>2 DEF MarkStores, BalancerTypeOK, Hand, Count
  <2>5. QED
      BY <1>8, <2>3, <2>4, BalancerStep DEF MarkStores
<1>9. CASE Invalidate(h)
  <2>1. hand' \in [Handlers -> Hand]
      BY <1>0, <1>9, IdleHand, SetHand DEF Invalidate
  <2>2. cache' \in [Balancers -> Record \cup {None}]
      BY <1>0, <1>9 DEF Invalidate
  <2>3. WorldTypeOK' /\ BalancerTypeOK'
      BY <1>0, <1>9, <2>1, <2>2, WorldFrame DEF Invalidate, BalancerTypeOK, Hand, Count
  <2>4. QED
      BY <1>9, <2>3, BalancerStep DEF Invalidate
<1>11. QED
    BY <1>2, <1>3, <1>4, <1>5, <1>6, <1>7, <1>8, <1>9, <1>10 DEF HandlerStep

-----------------------------------------------------------------------------
(* Surroundings                                                              *)

\* Caches that expire keep it.
LEMMA CacheExpiresKeeps ==
    ASSUME WriteInv, NEW b \in Balancers, CacheExpires(b)
    PROVE  WriteInv'
<1>1. BalancerTypeOK'
    BY BalancerTypes DEF WriteInv, TypeOK, CacheExpires, BalancerTypeOK
<1>2. WorldTypeOK'
    BY WorldFrame DEF WriteInv, TypeOK, CacheExpires
<1>3. QED
    BY <1>1, <1>2, BalancerStep DEF CacheExpires

\* Balancers that fail keep it.
LEMMA BalancerFaultsKeep ==
    ASSUME WriteInv,
           \/ \E b \in Balancers : BalancerRestarts(b)
           \/ \E h \in Handlers : BalancerFails(h)
    PROVE  WriteInv'
<1>0. /\ hand \in [Handlers -> Hand]
      /\ streak \in [Balancers -> [Protocols -> Count]]
      /\ cache \in [Balancers -> Record \cup {None}]
    BY BalancerTypes DEF WriteInv, TypeOK
<1>1. CASE \E b \in Balancers : BalancerRestarts(b)
  <2>1. PICK b \in Balancers : BalancerRestarts(b)
      BY <1>1
  <2>2. /\ hand' \in [Handlers -> Hand]
        /\ cache' \in [Balancers -> Record \cup {None}]
      BY <1>0, <2>1, IdleHand DEF BalancerRestarts
  <2>3. streak' \in [Balancers -> [Protocols -> Count]]
      BY <1>0, <2>1, EvenCount DEF BalancerRestarts
  <2>4. BalancerTypeOK'
      BY <2>2, <2>3 DEF BalancerTypeOK, Hand, Count
  <2>5. WorldTypeOK'
    <3>1. Resting \in [at : {"idle", "read", "create", "store", "lift"}, snap : Record]
        BY FreshRecord DEF Resting
    <3>2. QED
        BY <2>1, <3>1 DEF WriteInv, TypeOK, WorldTypeOK, BalancerRestarts
  <2>6. QED
      BY <2>1, <2>4, <2>5, BalancerStep DEF BalancerRestarts
<1>2. CASE \E h \in Handlers : BalancerFails(h)
  <2>1. PICK h \in Handlers : BalancerFails(h)
      BY <1>2
  <2>2. hand' \in [Handlers -> Hand]
      BY <1>0, <2>1, IdleHand, SetHand DEF BalancerFails
  <2>3. BalancerTypeOK'
      BY <1>0, <2>1, <2>2 DEF BalancerFails, BalancerTypeOK, Hand, Count
  <2>4. WorldTypeOK'
      BY <2>1 DEF WriteInv, TypeOK, WorldTypeOK, BalancerFails
  <2>5. QED
      BY <2>1, <2>3, <2>4, BalancerStep DEF BalancerFails
<1>3. QED
    BY <1>1, <1>2

\* A monitor leaves the checker and the handlers alone, and owns up to what it
\* writes.
LEMMA MonitorFrame ==
    ASSUME NEW b \in Balancers, MonitorStep(b)
    PROVE  /\ UNCHANGED <<scanner, tasks, locking, balancing>>
           /\ \/ rec' = rec /\ torn' = torn
              \/ torn' = (torn \/ lock # None)
BY DEF MonitorStep, MonitorSucceeds, MonitorReads, MonitorCreates, MonitorStores,
       MonitorLifts, MonitorFails

\* What it makes of the record it read is a record.
LEMMA LiftedRecord ==
    ASSUME NEW r \in Record
    PROVE  Lifted(r) \in Record
<1>1. [p \in Protocols |-> r.healthy[p] \/ p \in Served] \in [Protocols -> BOOLEAN]
    BY DEF Record
<1>2. QED
    BY <1>1 DEF Lifted, Record

\* Monitors keep the invariant.
LEMMA MonitorKeeps ==
    ASSUME WriteInv, NEW b \in Balancers, MonitorStep(b)
    PROVE  WriteInv'
<1> DEFINE Places == [at : {"idle", "read", "create", "store", "lift"}, snap : Record]
<1>0. /\ rec \in Record \cup {Absent} /\ monitor \in [Balancers -> Places]
      /\ node \in [Protocols -> BOOLEAN] /\ limited \in BOOLEAN
      /\ budget \in 0..MaxEvents /\ mode \in Modes
    BY DEF WriteInv, TypeOK, WorldTypeOK
<1>1. ASSUME NEW where \in {"idle", "read", "create", "store", "lift"},
             NEW r \in Record, Watch(b, where, r)
      PROVE  monitor' \in [Balancers -> Places]
    BY <1>0, <1>1 DEF Watch
<1>2. Lifted(Fresh) \in Record /\ (rec # Absent => Lifted(rec) \in Record)
    BY <1>0, FreshRecord, LiftedRecord
<1>3. monitor' \in [Balancers -> Places]
  <2>1. CASE MonitorReads(b)
      BY <1>0, <1>1, <1>2, <2>1, FreshRecord DEF MonitorReads
  <2>2. CASE MonitorCreates(b)
      BY <1>1, <1>2, <2>2 DEF MonitorCreates
  <2>3. CASE MonitorSucceeds(b) \/ MonitorStores(b) \/ MonitorLifts(b) \/ MonitorFails(b)
      BY <1>1, <2>3, FreshRecord
         DEF MonitorSucceeds, MonitorStores, MonitorLifts, MonitorFails
  <2>4. QED
      BY <2>1, <2>2, <2>3 DEF MonitorStep
<1>4. rec' \in Record \cup {Absent}
    BY <1>0, FreshRecord
       DEF MonitorStep, MonitorSucceeds, MonitorReads, MonitorCreates, MonitorStores,
           MonitorLifts, MonitorFails
<1>5. limited' \in BOOLEAN
    BY <1>0
       DEF MonitorStep, MonitorSucceeds, MonitorReads, MonitorCreates, MonitorStores,
           MonitorLifts, MonitorFails
<1>6. budget' \in 0..MaxEvents
  <2>1. budget' = budget \/ (budget > 0 /\ budget' = budget - 1)
      BY DEF MonitorStep, MonitorSucceeds, MonitorReads, MonitorCreates, MonitorStores,
             MonitorLifts, MonitorFails
  <2>2. QED
      BY <1>0, <2>1
<1>7. UNCHANGED <<node, mode>>
    BY DEF MonitorStep, MonitorSucceeds, MonitorReads, MonitorCreates, MonitorStores,
           MonitorLifts, MonitorFails
<1>8. WorldTypeOK'
    BY <1>0, <1>3, <1>4, <1>5, <1>6, <1>7 DEF WorldTypeOK
<1>9. BalancerTypeOK'
    BY MonitorFrame, BalancerFrame DEF WriteInv, TypeOK
<1>10. QED
    BY <1>8, <1>9, MonitorFrame, BalancerStep

\* Nodes and limits that change keep it.
LEMMA WorldKeeps ==
    ASSUME WriteInv, LimitChanges \/ (\E p \in Served : NodeChanges(p))
    PROVE  WriteInv'
<1>1. WorldTypeOK'
  <2>1. limited' \in BOOLEAN
      BY DEF WriteInv, TypeOK, WorldTypeOK, LimitChanges, NodeChanges
  <2>2. node' \in [Protocols -> BOOLEAN]
    <3>1. ASSUME NEW p \in Protocols
          PROVE  [node EXCEPT ![p] = ~@] \in [Protocols -> BOOLEAN]
        BY DEF WriteInv, TypeOK, WorldTypeOK
    <3>2. QED
        BY <3>1 DEF WriteInv, TypeOK, WorldTypeOK, LimitChanges, NodeChanges
  <2>3. QED
      BY <2>1, <2>2 DEF WriteInv, TypeOK, WorldTypeOK, LimitChanges, NodeChanges
<1>2. BalancerTypeOK'
    BY BalancerFrame DEF WriteInv, TypeOK, LimitChanges, NodeChanges
<1>3. QED
    BY <1>1, <1>2, BalancerStep DEF LimitChanges, NodeChanges

\* The cleanup of another process keeps it.
LEMMA CleanupKeeps ==
    ASSUME WriteInv, CleanedUp
    PROVE  WriteInv'
<1>1. WorldTypeOK'
    BY DEF WriteInv, TypeOK, WorldTypeOK, CleanedUp
<1>2. BalancerTypeOK'
    BY BalancerFrame DEF WriteInv, TypeOK, CleanedUp
<1>3. QED
    BY <1>1, <1>2, BalancerStep DEF CleanedUp

\* Where a checker process starts, nothing is under way.
LEMMA RestartKeeps ==
    ASSUME WriteInv, CheckerRestarts
    PROVE  WriteInv'
<1>1. /\ \A t \in Tasks : at'[t] = "off"
      /\ run' = [l \in Loops |-> 0] /\ lock' = None
    BY DEF CheckerRestarts, AllOff
<1>2. WorldTypeOK'
    BY DEF WriteInv, TypeOK, WorldTypeOK, CheckerRestarts
<1>3. CheckerTypeOK'
  <2>1. scan' \in {"off", "boot", "tick", "create", "act"}
      BY DEF CheckerRestarts
  <2>2. run' \in [Loops -> 0..HealthyThreshold]
      BY <1>1
  <2>3. QED
      BY <2>1, <2>2, FreshRecord DEF CheckerRestarts, AllOff, CheckerTypeOK
<1>4. BalancerTypeOK'
    BY BalancerFrame DEF WriteInv, TypeOK, CheckerRestarts
<1>5. TaskInv' /\ LockInv' /\ SnapInv'
    BY <1>1, TaskKinds DEF TaskInv, LockInv, SnapInv
<1>6. QED
    BY <1>2, <1>3, <1>4, <1>5 DEF WriteInv, TypeOK

\* The invariant holds at first.
LEMMA InitWrites == Init => WriteInv
<1> SUFFICES ASSUME Init PROVE WriteInv
    OBVIOUS
<1>1. \A t \in Tasks : at[t] = "off"
    BY DEF Init, AllOff
<1>2. TaskInv
    BY <1>1, TaskKinds DEF Init, TaskInv
<1>3. QED
    BY <1>2, InitType DEF Init, WriteInv, LockInv, SnapInv

\* Every step keeps it.
LEMMA NextWrites == WriteInv /\ [Next]_vars => WriteInv'
<1> SUFFICES ASSUME WriteInv, [Next]_vars PROVE WriteInv'
    OBVIOUS
<1>1. CASE \E t \in Tasks : TakesTurn(t) \/ AcquireBlind(t) \/ StoreFails(t)
    BY <1>1, AcquireKeeps, StoreKeeps DEF TakesTurn
<1>2. CASE \E t \in Tasks : Proceeds(t)
    BY <1>2, ProbeKeeps, CreateKeeps, StoreKeeps, LoopKeeps DEF Proceeds, IsLoop
<1>3. CASE \E s \in Sweeps : StartSweep(s)
    BY <1>3, StartSweepKeeps
<1>4. CASE ScanStep \/ ScanFails
    BY <1>4, BootKeeps, ScanReadsKeeps, ScanActsKeeps DEF ScanStep
<1>5. CASE \/ \E h \in Handlers : HandlerStep(h)
           \/ \E h \in Handlers, p \in Served : Arrive(h, p)
    BY <1>5, HandlerKeeps
<1>6. CASE \E b \in Balancers : CacheExpires(b) \/ MonitorStep(b)
    BY <1>6, CacheExpiresKeeps, MonitorKeeps
<1>7. CASE \/ \E b \in Balancers : BalancerRestarts(b)
           \/ \E h \in Handlers : BalancerFails(h)
    BY <1>7, BalancerFaultsKeep
<1>8. CASE LimitChanges \/ (\E p \in Served : NodeChanges(p))
    BY <1>8, WorldKeeps
<1>9. CASE CheckerRestarts
    BY <1>9, RestartKeeps
<1>10. CASE CleanedUp
    BY <1>10, CleanupKeeps
<1>11. CASE UNCHANGED vars
  <2>1. WorldTypeOK' /\ BalancerTypeOK'
      BY <1>11, WorldFrame, BalancerFrame DEF WriteInv, TypeOK, vars
  <2>2. QED
      BY <1>11, <2>1, BalancerStep DEF vars
<1>12. QED
    BY <1>1, <1>2, <1>3, <1>4, <1>5, <1>6, <1>7, <1>8, <1>9, <1>10, <1>11
       DEF Next, Surroundings

\* The invariant the theorems rest on.
THEOREM WritesInvariant == Spec => []WriteInv
<1>1. QED
    BY InitWrites, NextWrites, PTL DEF Spec

\* Every variable keeps its type: in particular no loop counts beyond its
\* threshold, for it marks the protocol and starts over (checker.go,
\* runEphemeralCheckProtocol).
THEOREM TypeCorrect == Spec => []TypeOK
<1>1. WriteInv => TypeOK
    BY DEF WriteInv
<1>2. QED
    BY <1>1, WritesInvariant, PTL

-----------------------------------------------------------------------------
(* What a write of the checker changes                                       *)

\* Only a store lets go of the lock and changes the record.
LEMMA OnlyStores ==
    ASSUME WriteInv, [Next]_vars, CheckerWrites
    PROVE  lock \in Tasks /\ Store(lock)
<1>1. lock # None /\ lock' # lock /\ rec' # rec
    BY DEF CheckerWrites
<1>2. \A t \in Tasks : ~Acquire(t) /\ ~AcquireBlind(t) /\ ~StoreFails(t)
                       /\ ~StoreCancelled(t) /\ ~Probe(t) /\ ~CreateRecord(t)
    BY <1>1 DEF Acquire, AcquireBlind, StoreFails, StoreCancelled, Probe,
                CreateRecord, locking
<1>3. \A l \in Loops : ~LoopTurns(l) /\ ~LoopSettles(l)
    BY <1>1 DEF LoopTurns, LoopSettles, locking
<1>4. (\A s \in Sweeps : ~StartSweep(s)) /\ ~ScanStep /\ ~ScanFails
    BY <1>1 DEF StartSweep, ScanStep, BootProbe, BootEnds, ScanReads, ScanCreates,
                ScanActs, ScanFails, locking
<1>5. \A h \in Handlers : /\ ~HandlerStep(h) /\ ~BalancerFails(h)
                          /\ \A p \in Served : ~Arrive(h, p)
    BY <1>1 DEF HandlerStep, Arrive, Fetch, CreateForRequest, Fill, Observe, MarkReads,
                MarkCreates, MarkStores, Invalidate, BalancerFails, locking
<1>6. \A b \in Balancers : ~CacheExpires(b) /\ ~BalancerRestarts(b) /\ ~MonitorStep(b)
    BY <1>1, MonitorFrame DEF CacheExpires, BalancerRestarts, locking
<1>7. /\ ~LimitChanges /\ ~CleanedUp /\ ~CheckerRestarts
      /\ \A p \in Served : ~NodeChanges(p)
    BY <1>1 DEF LimitChanges, CleanedUp, CheckerRestarts, NodeChanges, locking
<1>8. vars' # vars
    BY <1>1 DEF vars
<1>9. PICK t \in Tasks : Store(t)
    BY <1>2, <1>3, <1>4, <1>5, <1>6, <1>7, <1>8
       DEF Next, TakesTurn, Proceeds, IsLoop, Surroundings
<1>10. QED
    BY <1>9 DEF Store

\* An undisturbed task works on the record as it is.
LEMMA Undivided ==
    ASSUME WriteInv, ~torn, NEW t \in Tasks, Store(t)
    PROVE  /\ rec = snap /\ rec \in Record /\ rec' = Updated(t)
           /\ WantsLock(t) /\ ok \in [Tasks -> BOOLEAN] /\ rec' \in Record
<1>1. /\ snap \in Record /\ lock = t /\ lock # None /\ AliveTo(lock) /\ ~creating
      /\ ok \in [Tasks -> BOOLEAN]
    BY DEF WriteInv, TypeOK, CheckerTypeOK, Store
<1>2. rec = snap /\ WantsLock(t)
    BY <1>1 DEF WriteInv, SnapInv, LockInv
<1>3. Updated(t) \in Record
    BY <1>2, UpdatedRecord
<1>4. QED
    BY <1>1, <1>2, <1>3 DEF Store

\* One result changes the health of one protocol, and as it says.
LEMMA ResultHealth ==
    ASSUME NEW r \in Record, NEW q \in Protocols, NEW probed \in BOOLEAN,
           NEW p \in Protocols
    PROVE  /\ r.healthy[p] /\ ~WithResult(r, q, probed).healthy[p]
                => p = q /\ ~probed
           /\ EphemeralEnabled /\ ~r.healthy[p] /\ WithResult(r, q, probed).healthy[p]
                => p = q /\ probed /\ ~r.checked[p]
BY DEF WithResult, Record, Resolve

\* A task that lifts a protocol has found it well, and is the first to look at
\* it or a loop that has counted enough.
LEMMA StoreLifts ==
    ASSUME WriteInv, EphemeralEnabled, ~torn, NEW t \in Tasks, Store(t),
           NEW p \in Protocols, ~rec.healthy[p], rec'.healthy[p]
    PROVE  /\ Found(t, p, TRUE)
           /\ ~rec.checked[p] \/ (at[t] = "mark" /\ run[t] >= HealthyThreshold)
<1>0. /\ rec = snap /\ rec \in Record /\ rec' = Updated(t)
      /\ WantsLock(t) /\ ok \in [Tasks -> BOOLEAN]
    BY Undivided
<1>1. CASE at[t] = "report" /\ (t \in Loops \/ t \in Probes)
  <2>1. rec' = WithResult(rec, Protocol(t), ok[t])
      BY <1>0, <1>1 DEF Updated
  <2>2. Protocol(t) \in Protocols /\ ok[t] \in BOOLEAN /\ t \notin Sweeps
      BY <1>0, <1>1, TaskKinds
  <2>3. WithResult(rec, Protocol(t), ok[t]).healthy[p]
      BY <2>1
  <2>4. Protocol(t) = p /\ ok[t] /\ ~rec.checked[p]
      BY <1>0, <2>2, <2>3, ResultHealth
  <2>5. QED
      BY <2>2, <2>4 DEF Found
<1>2. CASE at[t] = "mark" /\ t \in Loops
  <2>1. rec' = [rec EXCEPT !.healthy[Key[t]] = TRUE]
      BY <1>0, <1>2 DEF Updated
  <2>2. Key[t] = p
      BY <1>0, <2>1 DEF Record
  <2>3. ok[t] /\ run[t] >= HealthyThreshold
      BY <1>2 DEF WriteInv, TaskInv
  <2>4. ok[t] = TRUE /\ t \notin Sweeps /\ Protocol(t) = p
      BY <1>0, <1>2, <2>2, <2>3, TaskKinds
  <2>5. QED
      BY <1>2, <2>3, <2>4 DEF Found
<1>3. CASE at[t] = "waiting" /\ t \in Sweeps
  <2>1. rec' = WithBoth(rec, t)
      BY <1>0, <1>3 DEF Updated
  <2>2. Resolve(rec.checked[p], rec.healthy[p], ok[<<t, p>>])
      BY <2>1 DEF WithBoth
  <2>3. <<t, p>> \in Tasks
      BY <1>3, TaskKinds
  <2>4. QED
      BY <1>0, <1>3, <2>2, <2>3 DEF Resolve, Found
<1>4. QED
    BY <1>0, <1>1, <1>2, <1>3, WantKinds

\* A task that lowers a protocol has found it down.
LEMMA StoreLowers ==
    ASSUME WriteInv, ~torn, NEW t \in Tasks, Store(t),
           NEW p \in Protocols, rec.healthy[p], ~rec'.healthy[p]
    PROVE  Found(t, p, FALSE)
<1>0. /\ rec = snap /\ rec \in Record /\ rec' = Updated(t)
      /\ WantsLock(t) /\ ok \in [Tasks -> BOOLEAN]
    BY Undivided
<1>1. CASE at[t] = "report" /\ (t \in Loops \/ t \in Probes)
  <2>1. rec' = WithResult(rec, Protocol(t), ok[t])
      BY <1>0, <1>1 DEF Updated
  <2>2. Protocol(t) \in Protocols /\ ok[t] \in BOOLEAN /\ t \notin Sweeps
      BY <1>0, <1>1, TaskKinds
  <2>3. ~WithResult(rec, Protocol(t), ok[t]).healthy[p]
      BY <2>1
  <2>4. Protocol(t) = p /\ ~ok[t]
      BY <1>0, <2>2, <2>3, ResultHealth
  <2>5. QED
      BY <2>2, <2>4 DEF Found
<1>2. CASE at[t] = "mark" /\ t \in Loops
  <2>1. rec' = [rec EXCEPT !.healthy[Key[t]] = TRUE]
      BY <1>0, <1>2 DEF Updated
  <2>2. QED
      BY <1>0, <2>1 DEF Record
<1>3. CASE at[t] = "waiting" /\ t \in Sweeps
  <2>1. rec' = WithBoth(rec, t)
      BY <1>0, <1>3 DEF Updated
  <2>2. ~Resolve(rec.checked[p], rec.healthy[p], ok[<<t, p>>])
      BY <2>1 DEF WithBoth
  <2>3. <<t, p>> \in Tasks
      BY <1>3, TaskKinds
  <2>4. QED
      BY <1>0, <1>3, <2>2, <2>3 DEF Resolve, Found
<1>4. QED
    BY <1>0, <1>1, <1>2, <1>3, WantKinds

\* LiftIsEarned: an unhealthy protocol that has been checked before is only
\* lifted by a loop with HealthyThreshold successes in a row (checker.go,
\* resolveHealthTransition and updateStatus), whatever writes of load
\* balancers are accounted for as disturbances.
THEOREM LiftCorrect == Spec => LiftIsEarned
<1>1. WriteInv /\ [Next]_vars =>
        [EphemeralEnabled /\ CheckerWrites =>
           \A p \in Protocols : ~HealthyIn(rec, p) /\ HealthyIn(rec', p) =>
              /\ Found(lock, p, TRUE)
              /\ \/ ~rec.checked[p]
                 \/ at[lock] = "mark" /\ run[lock] >= HealthyThreshold]_vars
  <2> SUFFICES ASSUME WriteInv, [Next]_vars, EphemeralEnabled, CheckerWrites,
                      NEW p \in Protocols, ~HealthyIn(rec, p), HealthyIn(rec', p)
               PROVE  /\ Found(lock, p, TRUE)
                      /\ \/ ~rec.checked[p]
                         \/ at[lock] = "mark" /\ run[lock] >= HealthyThreshold
      OBVIOUS
  <2>1. lock \in Tasks /\ Store(lock) /\ ~torn
      BY OnlyStores DEF CheckerWrites
  <2>2. ~rec.healthy[p] /\ rec'.healthy[p]
      BY <2>1, Undivided DEF HealthyIn
  <2>3. QED
      BY <2>1, <2>2, StoreLifts
<1>2. QED
    BY <1>1, WritesInvariant, PTL DEF Spec, LiftIsEarned

\* FallIsFound: with statusMu held over the read and the write
\* (checker.go, updateEndpointStatusInValkey), a task only lowers the protocol
\* its own probe found down.
THEOREM FallCorrect == Spec => FallIsFound
<1>1. WriteInv /\ [Next]_vars =>
        [CheckerWrites =>
           \A p \in Protocols : HealthyIn(rec, p) /\ ~HealthyIn(rec', p) =>
              Found(lock, p, FALSE)]_vars
  <2> SUFFICES ASSUME WriteInv, [Next]_vars, CheckerWrites,
                      NEW p \in Protocols, HealthyIn(rec, p), ~HealthyIn(rec', p)
               PROVE  Found(lock, p, FALSE)
      OBVIOUS
  <2>1. lock \in Tasks /\ Store(lock) /\ ~torn
      BY OnlyStores DEF CheckerWrites
  <2>2. rec.healthy[p] /\ ~rec'.healthy[p]
      BY <2>1, Undivided DEF HealthyIn
  <2>3. QED
      BY <2>1, <2>2, StoreLowers
<1>2. QED
    BY <1>1, WritesInvariant, PTL DEF Spec, FallIsFound

-----------------------------------------------------------------------------
(* Who owns the loops                                                        *)

Quiet == /\ UNCHANGED <<entry, cancelled>>
         /\ \A l \in Loops : at[l] = "off" => at'[l] = "off"

\* A step that leaves loops and map alone keeps them owned.
LEMMA QuietOwns ==
    ASSUME LoopsAreOwned, Quiet
    PROVE  LoopsAreOwned'
BY DEF LoopsAreOwned, Running, Quiet

\* Probes and writes are such steps.
LEMMA TasksQuiet ==
    ASSUME WriteInv, NEW t \in Tasks,
           \/ Probe(t) \/ Acquire(t) \/ AcquireBlind(t) \/ CreateRecord(t)
           \/ Store(t) \/ StoreFails(t) \/ StoreCancelled(t)
    PROVE  Quiet
<1>0. at \in [Tasks -> {"off", "probing", "report", "done", "waiting",
                        "top", "mark", "settle"}]
    BY DEF WriteInv, TypeOK, CheckerTypeOK
<1>1. CASE Acquire(t) \/ AcquireBlind(t) \/ CreateRecord(t)
    BY <1>1 DEF Acquire, AcquireBlind, CreateRecord, Quiet, scanner, tasks
<1>2. CASE Probe(t)
    BY <1>0, <1>2, TaskKinds DEF Probe, Quiet, scanner
<1>3. CASE Store(t) \/ StoreFails(t) \/ StoreCancelled(t)
  <2>1. WantsLock(t) /\ GoOn(t) /\ UNCHANGED <<entry, cancelled>>
      BY <1>3 DEF WriteInv, LockInv, Store, StoreFails, StoreCancelled, GoOn, scanner
  <2>2. CASE at[t] = "report"
    <3>1. AfterReport(t)
        BY <2>1, <2>2 DEF GoOn
    <3>2. \A u \in Tasks : u # t => at'[u] = at[u]
        BY <1>0, <3>1 DEF AfterReport
    <3>3. QED
        BY <2>1, <2>2, <3>2, TaskKinds DEF Quiet
  <2>3. CASE at[t] = "mark"
    <3>1. AfterMark(t)
        BY <2>1, <2>3 DEF GoOn
    <3>2. QED
        BY <1>0, <2>1, <2>3, <3>1, TaskKinds DEF AfterMark, Quiet
  <2>4. CASE at[t] = "waiting"
    <3>1. AfterSweep(t)
        BY <2>1, <2>4 DEF GoOn
    <3>2. QED
        BY <1>0, <2>1, <3>1, TaskKinds DEF AfterSweep, Quiet
  <2>5. QED
      BY <2>1, <2>2, <2>3, <2>4, WantKinds
<1>4. QED
    BY <1>1, <1>2, <1>3

\* A loop that finishes may free the protocol of a later loop, but then it
\* stops that loop as well.
LEMMA LoopOwns ==
    ASSUME WriteInv, LoopsAreOwned, NEW l \in Loops, LoopTurns(l) \/ LoopSettles(l)
    PROVE  LoopsAreOwned'
<1>0. /\ at \in [Tasks -> {"off", "probing", "report", "done", "waiting",
                          "top", "mark", "settle"}]
      /\ entry \in [Protocols -> Loops \cup {None}]
    BY DEF WriteInv, TypeOK, CheckerTypeOK
<1> SUFFICES ASSUME NEW m \in Loops, Running(m)' PROVE (entry[Key[m]] = m)'
    BY DEF LoopsAreOwned
<1>1. CASE LoopTurns(l)
    BY <1>0, <1>1, TaskKinds DEF LoopTurns, LoopsAreOwned, Running, scanner
<1>2. CASE LoopSettles(l)
  <2>1. m # l
      BY <1>0, <1>2, TaskKinds DEF LoopSettles, Running
  <2>2. Running(m) /\ entry[Key[m]] = m
      BY <1>0, <1>2, <2>1, TaskKinds DEF LoopSettles, LoopsAreOwned, Running
  <2>3. Key[m] # Key[l]
    <3>1. m # None
        BY DEF Tasks
    <3>2. QED
        BY <1>2, <2>1, <2>2, <3>1 DEF LoopSettles, Running
  <2>4. QED
      BY <1>0, <1>2, <2>2, <2>3, TaskKinds DEF LoopSettles
<1>3. QED
    BY <1>1, <1>2

\* The scan enters the loop it starts, and cancels the one it forgets.
LEMMA ScanOwns ==
    ASSUME WriteInv, LoopsAreOwned, ScanActs
    PROVE  LoopsAreOwned'
<1>1. CASE UNCHANGED <<at, entry, cancelled>>
    BY <1>1 DEF LoopsAreOwned, Running
<1>2. CASE /\ \E start \in [Wanting -> Loops] : Launch(start)
           /\ cancelled' = cancelled \cup {entry[p] : p \in Stopped}
  <2>1. PICK start \in [Wanting -> Loops] : Launch(start)
      BY <1>2
  <2>2. /\ \A u \in Tasks : at'[u] = IF \E p \in Wanting : start[p] = u THEN "top" ELSE at[u]
        /\ entry' = [p \in Protocols |-> IF p \in Stopped THEN None
                                         ELSE IF p \in Wanting THEN start[p]
                                         ELSE entry[p]]
        /\ \A p \in Wanting : Key[start[p]] = p
      BY <2>1 DEF Launch, Free
  <2> SUFFICES ASSUME NEW m \in Loops, Running(m)' PROVE (entry[Key[m]] = m)'
      BY DEF LoopsAreOwned
  <2>3. m \in Tasks /\ Key[m] \in Protocols /\ Key[m] \in Served /\ m # None
      BY TaskKinds
  <2>4. m \notin cancelled' /\ m \notin cancelled /\ at'[m] # "off"
      BY <1>2 DEF Running
  <2>5. CASE \E p \in Wanting : start[p] = m
    <3>1. Key[m] \in Wanting /\ start[Key[m]] = m
        BY <2>2, <2>5
    <3>2. Key[m] \notin Stopped
        BY <3>1 DEF Wanting, Stopped
    <3>3. QED
        BY <2>2, <2>3, <3>1, <3>2
  <2>6. CASE ~\E p \in Wanting : start[p] = m
    <3>1. entry[Key[m]] = m
        BY <2>2, <2>3, <2>4, <2>6 DEF LoopsAreOwned, Running
    <3>2. Key[m] \notin Stopped
        BY <1>2, <2>4, <3>1
    <3>3. Key[m] \notin Wanting
        BY <2>3, <3>1 DEF Wanting
    <3>4. QED
        BY <2>2, <2>3, <3>1, <3>2, <3>3
  <2>7. QED
      BY <2>5, <2>6
<1>3. QED
    BY <1>1, <1>2 DEF ScanActs

\* Every step keeps loops owned.
LEMMA NextOwns == WriteInv /\ LoopsAreOwned /\ [Next]_vars => LoopsAreOwned'
<1> SUFFICES ASSUME WriteInv, LoopsAreOwned, [Next]_vars PROVE LoopsAreOwned'
    OBVIOUS
<1>0. at \in [Tasks -> {"off", "probing", "report", "done", "waiting",
                        "top", "mark", "settle"}]
    BY DEF WriteInv, TypeOK, CheckerTypeOK
<1>1. CASE \E t \in Tasks : \/ TakesTurn(t) \/ AcquireBlind(t) \/ StoreFails(t)
                            \/ Probe(t) \/ CreateRecord(t) \/ Store(t)
    BY <1>1, TasksQuiet, QuietOwns DEF TakesTurn
<1>2. CASE \E l \in Loops : LoopTurns(l) \/ LoopSettles(l)
    BY <1>2, LoopOwns
<1>3. CASE \E s \in Sweeps : StartSweep(s)
  <2>1. PICK s \in Sweeps : StartSweep(s)
      BY <1>3
  <2>2. \A l \in Loops : at'[l] = at[l]
      BY <2>1, TaskKinds DEF StartSweep
  <2>3. QED
      BY <2>1, <2>2, QuietOwns DEF Quiet, StartSweep, scanner
<1>4. CASE \E p \in Protocols : BootProbe(p)
  <2>1. PICK p \in Protocols : BootProbe(p)
      BY <1>4
  <2>2. \A l \in Loops : at'[l] = at[l]
    <3>1. \A l \in Loops : l # <<Boot, p>> /\ l \in Tasks
        BY TaskKinds
    <3>2. QED
        BY <1>0, <2>1, <3>1 DEF BootProbe
  <2>3. QED
      BY <2>1, <2>2, QuietOwns DEF Quiet, BootProbe, scanner
<1>5. CASE ScanActs
    BY <1>5, ScanOwns
<1>6. CASE CheckerRestarts
    BY <1>6, TaskKinds DEF CheckerRestarts, AllOff, LoopsAreOwned, Running
<1>7. CASE \/ BootEnds \/ ScanReads \/ ScanCreates \/ ScanFails
    BY <1>7, QuietOwns DEF BootEnds, ScanReads, ScanCreates, ScanFails, Quiet, tasks
<1>8. CASE \/ LimitChanges \/ CleanedUp \/ (\E p \in Served : NodeChanges(p))
           \/ \E b \in Balancers : CacheExpires(b) \/ BalancerRestarts(b)
    BY <1>8, QuietOwns
       DEF LimitChanges, CleanedUp, NodeChanges, CacheExpires, BalancerRestarts, Quiet,
           scanner, tasks
<1>9. CASE \E h \in Handlers : \/ HandlerStep(h) \/ BalancerFails(h)
                               \/ \E p \in Served : Arrive(h, p)
    BY <1>9, QuietOwns
       DEF HandlerStep, Arrive, Fetch, CreateForRequest, Fill, Observe, MarkReads,
           MarkCreates, MarkStores, Invalidate, BalancerFails, Quiet, scanner, tasks
<1>10. CASE UNCHANGED vars
    BY <1>10, QuietOwns DEF vars, Quiet, scanner, tasks
<1>11. CASE \E b \in Balancers : MonitorStep(b)
    BY <1>11, MonitorFrame, QuietOwns DEF Quiet, scanner, tasks
<1>12. QED
    BY <1>1, <1>2, <1>3, <1>4, <1>5, <1>6, <1>7, <1>8, <1>9, <1>10, <1>11
       DEF Next, TakesTurn, Proceeds, IsLoop, ScanStep, Surroundings

\* LoopsAreOwned: however late a loop finishes and whatever it finds on the map
\* ephemeralChecks (checker.go, runEphemeralCheckProtocol), no loop that has
\* not been cancelled drops off the map, and none runs beside another.
THEOREM OwnedCorrect == Spec => []LoopsAreOwned
<1>1. Init => LoopsAreOwned
    BY TaskKinds DEF Init, AllOff, LoopsAreOwned, Running
<1>2. QED
    BY <1>1, NextOwns, WritesInvariant, PTL DEF Spec
=============================================================================
