---------------------------- MODULE ReadinessProofs ----------------------------
(* What holds of Readiness for any number of endpoints and probers, any      *)
(* deployment, grace period, timeout and concurrency, and every fault.       *)
EXTENDS Readiness, FiniteSetTheorems, TLAPS

ProbeStates == [at : {"idle", "ping", "ask", "decide"}, ready : BOOLEAN,
                age : 0..CallTimeout]

-------------------------------------------------------------------------------
(* Steps of a /ready, and ages.                                              *)

\* A /ready that goes on keeps what it was told and the age of its call.
LEMMA GoesOn ==
  ASSUME probe \in [Probers -> ProbeStates], NEW p \in Probers,
         NEW where \in {"idle", "ping", "ask", "decide"}, Goes(p, where)
  PROVE  /\ probe' \in [Probers -> ProbeStates]
         /\ probe'[p].at = where
         /\ probe'[p].ready = probe[p].ready /\ probe'[p].age = probe[p].age
         /\ \A q \in Probers \ {p} : probe'[q] = probe[q]
BY DEF Goes, ProbeStates

\* One that has its answer keeps the age of its call.
LEMMA LearnsAnswer ==
  ASSUME probe \in [Probers -> ProbeStates], NEW p \in Probers,
         NEW ready \in BOOLEAN, Learns(p, ready)
  PROVE  /\ probe' \in [Probers -> ProbeStates]
         /\ probe'[p].at = "decide"
         /\ probe'[p].ready = ready /\ probe'[p].age = probe[p].age
         /\ \A q \in Probers \ {p} : probe'[q] = probe[q]
<1> DEFINE new == [probe[p] EXCEPT !.at = "decide", !.ready = ready]
<1>1. probe[p] \in ProbeStates
  OBVIOUS
<1>2. /\ new \in ProbeStates /\ new.at = "decide" /\ new.ready = ready
      /\ new.age = probe[p].age
  BY <1>1 DEF ProbeStates
<1>3. probe' = [probe EXCEPT ![p] = new]
  BY <1>1 DEF Learns, ProbeStates
<1> HIDE DEF new
<1> QED
  BY <1>2, <1>3

\* One that is answered is forgotten.
LEMMA AnswerEnds ==
  ASSUME probe \in [Probers -> ProbeStates], NEW p \in Probers,
         NEW answer, Answered(p, answer)
  PROVE  /\ probe' \in [Probers -> ProbeStates] /\ said' = answer
         /\ probe'[p].at = "idle" /\ probe'[p].ready = FALSE
         /\ \A q \in Probers \ {p} : probe'[q] = probe[q]
<1>1. Idle \in ProbeStates /\ Idle.at = "idle" /\ Idle.ready = FALSE
  BY ReadinessAssumption DEF Idle, ProbeStates
<1> QED
  BY <1>1 DEF Answered

\* A tick ages every call that is out, and leaves the other requests alone.
LEMMA TickAges ==
  ASSUME TypeOK, Tick
  PROVE  /\ probe' \in [Probers -> ProbeStates]
         /\ \A p \in Probers :
              /\ probe'[p].at = probe[p].at /\ probe'[p].ready = probe[p].ready
              /\ InCall(p) => probe[p].age < CallTimeout
                              /\ probe'[p].age = probe[p].age + 1
<1> DEFINE new(p) == [probe[p] EXCEPT !.age = probe[p].age + 1]
<1>1. \A p \in Probers : probe[p] \in ProbeStates
  BY DEF TypeOK, ProbeStates
<1>2. probe' = [p \in Probers |-> IF InCall(p) THEN new(p) ELSE probe[p]]
  BY DEF Tick
<1>3. ASSUME NEW p \in Probers, InCall(p)
      PROVE  /\ probe[p].age < CallTimeout
             /\ new(p) \in ProbeStates
             /\ new(p).at = probe[p].at /\ new(p).ready = probe[p].ready
             /\ new(p).age = probe[p].age + 1
  <2>1. probe[p].age < CallTimeout
    BY <1>3 DEF Tick
  <2>2. probe[p].age \in Nat /\ probe[p].age + 1 \in 0..CallTimeout
    BY <1>1, <2>1, ReadinessAssumption DEF ProbeStates
  <2> QED
    BY <1>1, <2>1, <2>2 DEF ProbeStates
<1> HIDE DEF new
<1> QED
  BY <1>1, <1>2, <1>3

\* Growing older stays within the range, and what was never stays never.
LEMMA OlderAge ==
  ASSUME NEW n \in Nat, NEW age \in Age(n)
  PROVE  /\ Older(age, n) \in Age(n)
         /\ Older(age, n) = None <=> age = None
         /\ age # None => /\ Older(age, n) \in Nat /\ age \in Nat
                          /\ Older(age, n) = IF age < n THEN age + 1 ELSE n
BY ReadinessAssumption DEF Older, Age

-------------------------------------------------------------------------------
(* Types, and the semaphore.                                                 *)

\* What the bounds are, and the ages they admit.
LEMMA Bounds ==
  /\ Grace \in Nat /\ CallTimeout \in Nat /\ MaxFaults \in Nat
  /\ Concurrency \in Nat \ {0}
  /\ 0 \in Age(Grace) /\ None \in Age(Grace)
  /\ 0 \in Age(CallTimeout + 1) /\ None \in Age(CallTimeout + 1)
  /\ CallTimeout + 1 \in Age(CallTimeout + 1)
  /\ Idle \in ProbeStates
<1>1. /\ Grace \in Nat /\ CallTimeout \in Nat /\ MaxFaults \in Nat
      /\ Concurrency \in Nat \ {0}
  BY ReadinessAssumption
<1>2. \A n \in Nat : 0 \in Age(n) /\ None \in Age(n) /\ n \in Age(n)
  BY DEF Age
<1>3. CallTimeout + 1 \in Nat
  BY <1>1
<1>4. Idle \in ProbeStates
  BY <1>1 DEF Idle, ProbeStates
<1> QED
  BY <1>1, <1>2, <1>3, <1>4

\* A fault is spent from a budget that is not yet empty.
LEMMA Spending ==
  ASSUME budget \in 0..MaxFaults, budget' \in {budget, budget - 1},
         budget' # budget => budget > 0
  PROVE  budget' \in 0..MaxFaults
BY Bounds

Semaphore == Cardinality(Checking) <= Concurrency

\* No check waits for itself: a round that begins has the semaphore free.
LEMMA FreeSemaphore ==
  ASSUME check = Unchecked
  PROVE  Semaphore
<1>1. Checking = {}
  BY DEF Checking, Unchecked
<1> QED
  BY <1>1, FS_EmptySet, ReadinessAssumption DEF Semaphore

\* Finitely many endpoints are being checked.
LEMMA CheckingIsFinite == IsFiniteSet(Checking) /\ Cardinality(Checking) \in Nat
  <1>1. Checking \subseteq Endpoints /\ IsFiniteSet(Endpoints)
    BY ReadinessAssumption DEF Checking
  <1>2. IsFiniteSet(Checking)
    BY <1>1, FS_Subset
  <1> QED
    BY <1>2, FS_CardinalityType

\* The programs begin in the right shape.
LEMMA InitTypes == Init => TypeOK
<1> SUFFICES ASSUME Init PROVE TypeOK
  OBVIOUS
<1>1. budget \in 0..MaxFaults
  BY Bounds DEF Init
<1>2. Semaphore
  BY FreeSemaphore DEF Init
<1>3. check \in [Endpoints -> {"waiting", "checking", "done"}]
  BY DEF Init, Unchecked
<1> QED
  BY <1>1, <1>2, <1>3, Bounds DEF Init, TypeOK, Semaphore, ProbeStates

\* Steps of the first round: no check begins beyond HEALTH_CHECK_CONCURRENCY.
LEMMA CheckTypes ==
  ASSUME TypeOK, NEW e \in Endpoints, BeginCheck(e) \/ EndCheck(e)
  PROVE  TypeOK'
<1>1. UNCHANGED <<conf, budget, valkey, checker, balancer, serving, history>>
  BY DEF BeginCheck, EndCheck
<1>2. check' \in [Endpoints -> {"waiting", "checking", "done"}]
  BY DEF TypeOK, BeginCheck, EndCheck
<1>3. Concurrency \in Nat /\ IsFiniteSet(Checking) /\ Cardinality(Checking) \in Nat
  BY ReadinessAssumption, CheckingIsFinite
<1>4. CASE BeginCheck(e)
  <2>1. Checking' = Checking \cup {e} /\ e \notin Checking
    BY <1>4 DEF BeginCheck, Checking, TypeOK
  <2>2. Cardinality(Checking \cup {e}) = Cardinality(Checking) + 1
    BY <1>3, <2>1, FS_AddElement
  <2>3. Cardinality(Checking) < Concurrency
    BY <1>4 DEF BeginCheck
  <2>4. Cardinality(Checking)' = Cardinality(Checking \cup {e})
    BY <2>1
  <2>5. Semaphore'
    BY <1>3, <2>2, <2>3, <2>4 DEF Semaphore
  <2> QED
    BY <1>1, <1>2, <2>5 DEF TypeOK, Semaphore, serving, history
<1>5. CASE EndCheck(e)
  <2>1. Checking' \subseteq Checking
    BY <1>5 DEF EndCheck, Checking, TypeOK
  <2>2. /\ Cardinality(Checking') <= Cardinality(Checking)
        /\ Cardinality(Checking') \in Nat
    BY <1>3, <2>1, FS_Subset, FS_CardinalityType
  <2>3. Semaphore'
    <3>1. Cardinality(Checking) <= Concurrency
      BY DEF TypeOK
    <3> QED
      BY <1>3, <2>2, <3>1 DEF Semaphore
  <2> QED
    BY <1>1, <1>2, <2>3 DEF TypeOK, Semaphore, serving, history
<1> QED
  BY <1>4, <1>5

\* Starting, loading and crashing.
LEMMA ProgramTypes ==
  ASSUME TypeOK,
         \/ StartChecker \/ Load \/ FirstRoundEnds \/ StartBalancer
         \/ StartServing \/ CheckerCrashes
  PROVE  TypeOK'
<1> USE DEF serving, history
<1>1. /\ 0 \in Age(CallTimeout + 1) /\ None \in Age(CallTimeout + 1)
      /\ None \in Age(Grace)
  BY Bounds
<1>2. CASE StartChecker \/ FirstRoundEnds \/ StartServing \/ CheckerCrashes
  <2>1. /\ UNCHANGED <<conf, valkey, check, serving, granted>>
        /\ checker' \in {"off", "loading", "ready"}
        /\ balancer' \in {balancer, "serving"}
        /\ budget' \in {budget, budget - 1} /\ (budget' # budget => budget > 0)
        /\ vouched' \in BOOLEAN /\ away' \in {away, None, 0}
        /\ missed' \in {missed, None}
    BY <1>2 DEF StartChecker, FirstRoundEnds, BecomesReady, StartServing,
                CheckerCrashes, Spend, GoesAway, TypeOK
  <2>2. budget' \in 0..MaxFaults
    <3>1. budget \in 0..MaxFaults
      BY DEF TypeOK
    <3> QED
      BY <2>1, <3>1, Spending
  <2>3. Cardinality(Checking)' = Cardinality(Checking)
    BY <2>1 DEF Checking
  <2>4. /\ balancer' \in {"off", "waiting", "serving"}
        /\ away' \in Age(CallTimeout + 1) /\ missed' \in Age(Grace)
    <3>1. /\ balancer \in {"off", "waiting", "serving"}
          /\ away \in Age(CallTimeout + 1) /\ missed \in Age(Grace)
      BY DEF TypeOK
    <3> QED
      BY <1>1, <2>1, <3>1
  <2> QED
    BY <2>1, <2>2, <2>3, <2>4 DEF TypeOK
<1>3. CASE Load \/ StartBalancer
  <2>1. /\ UNCHANGED <<conf, budget, valkey, serving, away, missed, granted>>
        /\ checker' \in {checker, "off", "checking", "resting"}
        /\ balancer' \in {balancer, "waiting", "serving"}
        /\ check' \in {check, Unchecked}
        /\ vouched' \in BOOLEAN
    BY <1>3 DEF Load, StartBalancer, TypeOK
  <2>2. check' \in [Endpoints -> {"waiting", "checking", "done"}]
    BY <2>1 DEF TypeOK, Unchecked
  <2>3. Semaphore'
    <3>1. CASE check' = check
      BY <3>1 DEF TypeOK, Semaphore, Checking
    <3>2. CASE check' = Unchecked
      <4>1. Checking' = {}
        BY <3>2 DEF Checking, Unchecked
      <4> QED
        BY <4>1, FS_EmptySet, ReadinessAssumption DEF Semaphore
    <3> QED
      BY <2>1, <3>1, <3>2
  <2> QED
    BY <2>1, <2>2, <2>3 DEF TypeOK, Semaphore
<1> QED
  BY <1>2, <1>3

\* The load balancer's /ready.
LEMMA ProbeTypes ==
  ASSUME TypeOK, NEW p \in Probers, ProbeStep(p) \/ AskInVain(p)
  PROVE  TypeOK'
<1>1. /\ probe \in [Probers -> ProbeStates] /\ budget \in 0..MaxFaults
      /\ 0 \in Age(Grace) /\ None \in Age(Grace)
  BY Bounds DEF TypeOK, ProbeStates
<1>2. /\ UNCHANGED <<conf, valkey, checker, check, balancer, vouched, away>>
      /\ Cardinality(Checking)' = Cardinality(Checking)
  BY DEF ProbeStep, Arrive, Ping, Ask, AskInVain, Decide, Confirms, InGrace,
         NeverPassed, serving, history, Checking
<1>3. CASE Arrive(p) \/ Ping(p) \/ Ask(p) \/ AskInVain(p)
  <2>1. probe' \in [Probers -> ProbeStates]
    <3>1. \/ Goes(p, "ping") \/ Goes(p, "ask") \/ Answered(p, "no valkey")
          \/ Learns(p, checker = "ready") \/ Learns(p, FALSE)
      BY <1>3 DEF Arrive, Ping, Ask, AskInVain
    <3> QED
      BY <1>1, <3>1, GoesOn, LearnsAnswer, AnswerEnds
  <2>2. /\ UNCHANGED <<passed, failure, missed, granted>>
        /\ said' \in {said, "no valkey"}
        /\ budget' \in {budget, budget - 1} /\ (budget' # budget => budget > 0)
    BY <1>3 DEF Arrive, Ping, Ask, AskInVain, Answered, history
  <2>3. budget' \in 0..MaxFaults
    BY <1>1, <2>2, Spending
  <2> QED
    BY <1>2, <2>1, <2>2, <2>3 DEF TypeOK, ProbeStates
<1>4. CASE Decide(p)
  <2>1. PICK answer \in {"ready", "not yet", "no longer"} : Answered(p, answer)
    BY <1>4 DEF Decide, Confirms, InGrace, NeverPassed
  <2>2. probe' \in [Probers -> ProbeStates] /\ said' = answer
    BY <1>1, <2>1, AnswerEnds
  <2>3. /\ budget' = budget
        /\ passed' \in {passed, TRUE}
        /\ failure' \in {failure, None, 0}
        /\ missed' \in {missed, 0} /\ granted' \in {granted, 0}
    BY <1>4 DEF Decide, Confirms, InGrace, NeverPassed, Elapsed, Misses, history
  <2>4. /\ passed' \in BOOLEAN /\ failure' \in Age(Grace)
        /\ missed' \in Age(Grace) /\ granted' \in Age(Grace)
    <3>1. /\ passed \in BOOLEAN /\ failure \in Age(Grace)
          /\ missed \in Age(Grace) /\ granted \in Age(Grace)
      BY DEF TypeOK
    <3> QED
      BY <1>1, <2>3, <3>1
  <2>5. said' \in {"nothing", "ready", "no valkey", "not yet", "no longer"}
    BY <2>2
  <2> QED
    BY <1>2, <2>2, <2>3, <2>4, <2>5 DEF TypeOK, ProbeStates
<1> QED
  BY <1>3, <1>4 DEF ProbeStep

\* Time, and what else goes wrong.
LEMMA WorldTypes ==
  ASSUME TypeOK, Tick \/ ValkeyReturns \/ BalancerCrashes \/ ValkeyFails
  PROVE  TypeOK'
<1> USE DEF serving, history
<1>1. /\ Grace \in Nat /\ CallTimeout + 1 \in Nat
      /\ 0 \in Age(CallTimeout + 1) /\ None \in Age(Grace)
  BY Bounds
<1>5. budget \in 0..MaxFaults
  BY DEF TypeOK
<1>2. CASE Tick
  <2>1. probe' \in [Probers -> ProbeStates]
    BY <1>2, TickAges
  <2>2. /\ failure' \in Age(Grace) /\ away' \in Age(CallTimeout + 1)
        /\ missed' \in Age(Grace) /\ granted' \in Age(Grace)
    BY <1>1, <1>2, OlderAge DEF Tick, TypeOK
  <2>3. /\ UNCHANGED <<conf, budget, valkey, checker, check, balancer, passed,
                       said, vouched>>
        /\ Cardinality(Checking)' = Cardinality(Checking)
    BY <1>2 DEF Tick, Checking
  <2> QED
    BY <2>1, <2>2, <2>3 DEF TypeOK, ProbeStates
<1>3. CASE ValkeyReturns \/ ValkeyFails
  <2>1. /\ UNCHANGED <<conf, checker, check, balancer, serving, history>>
        /\ budget' \in {budget, budget - 1} /\ (budget' # budget => budget > 0)
        /\ valkey' \in BOOLEAN
        /\ Cardinality(Checking)' = Cardinality(Checking)
    BY <1>3 DEF ValkeyReturns, ValkeyFails, Spend, Checking
  <2>2. budget' \in 0..MaxFaults
    BY <1>5, <2>1, Spending
  <2> QED
    BY <2>1, <2>2 DEF TypeOK
<1>4. CASE BalancerCrashes
  <2>1. /\ UNCHANGED <<conf, valkey, check>>
        /\ budget > 0 /\ budget' = budget - 1
        /\ balancer' = "off" /\ passed' = FALSE /\ failure' = None
        /\ probe' = [q \in Probers |-> Idle] /\ said' = "nothing"
        /\ vouched' = FALSE /\ missed' = None /\ granted' = None
        /\ checker' \in {checker, "off"} /\ away' \in {away, 0}
        /\ Cardinality(Checking)' = Cardinality(Checking)
    BY <1>4 DEF BalancerCrashes, Spend, GoesAway, Checking
  <2>2. budget' \in 0..MaxFaults
    BY <1>5, <2>1, Spending
  <2>3. Idle \in ProbeStates
    BY Bounds
  <2> QED
    BY <1>1, <2>1, <2>2, <2>3 DEF TypeOK, ProbeStates
<1> QED
  BY <1>2, <1>3, <1>4

\* So does every step, and leaves it.
LEMMA TypeStep == TypeOK /\ [Next]_vars => TypeOK'
<1> SUFFICES ASSUME TypeOK, [Next]_vars PROVE TypeOK'
  OBVIOUS
<1>1. CASE UNCHANGED vars
  BY <1>1 DEF TypeOK, vars, Checking
<1> QED
  BY <1>1, CheckTypes, ProgramTypes, ProbeTypes, WorldTypes
     DEF Next, CheckerStep, Faults

\* Every variable keeps its type, and the checks of a round that run at the
\* same time are at most HEALTH_CHECK_CONCURRENCY, whoever restarts meanwhile.
THEOREM TypeCorrect == Spec => []TypeOK
  BY InitTypes, TypeStep, PTL DEF Spec

-------------------------------------------------------------------------------
(* Ready needs a checker: who may say "ready", or be about to, has had every *)
(* endpoint checked in the time of this load balancer.                       *)

VouchInv ==
  /\ checker = "ready" => AllDone
  /\ checker = "ready" /\ balancer # "off" => vouched
  /\ passed \/ said = "ready" => vouched
  /\ \A p \in Probers : probe[p].ready => vouched
  /\ balancer = "off" =>
       /\ ~passed /\ said # "ready"
       /\ \A p \in Probers : probe[p].at = "idle" /\ ~probe[p].ready
       /\ Integrated => checker = "off"

\* Nobody has said anything at first.
LEMMA InitVouch == Init => VouchInv
  BY DEF Init, VouchInv, Idle

\* The programs start, check and crash.
LEMMA ProgramVouch ==
  ASSUME TypeOK, VouchInv,
         \/ StartChecker \/ Load \/ FirstRoundEnds \/ StartBalancer
         \/ StartServing \/ CheckerCrashes
         \/ \E e \in Endpoints : BeginCheck(e) \/ EndCheck(e)
  PROVE  VouchInv'
<1> USE DEF serving, history
<1>1. UNCHANGED <<conf, passed, said, probe>> /\ (Integrated' <=> Integrated)
  BY DEF StartChecker, Load, FirstRoundEnds, BecomesReady, StartBalancer,
         StartServing, CheckerCrashes, BeginCheck, EndCheck, Integrated
<1>2. CASE StartChecker \/ Load \/ CheckerCrashes
           \/ \E e \in Endpoints : BeginCheck(e) \/ EndCheck(e)
  <2>1. /\ checker' # "ready" /\ UNCHANGED <<balancer, vouched>>
        /\ Integrated /\ checker = "off" => checker' = "off"
    BY <1>2 DEF StartChecker, Load, CheckerCrashes, BeginCheck, EndCheck
  <2> QED
    BY <1>1, <2>1 DEF VouchInv
<1>3. CASE FirstRoundEnds
  <2>1. /\ AllDone' /\ UNCHANGED balancer /\ checker = "checking"
        /\ vouched' = (vouched \/ balancer # "off")
    BY <1>3 DEF FirstRoundEnds, BecomesReady, AllDone
  <2> QED
    BY <1>1, <2>1 DEF VouchInv
<1>4. CASE StartBalancer
  <2>1. /\ balancer = "off" /\ balancer' # "off"
        /\ vouched' = (~Integrated /\ checker = "ready" /\ AllDone)
        /\ \/ checker' = "checking"
           \/ UNCHANGED <<checker, check>>
    BY <1>4 DEF StartBalancer
  <2>2. /\ ~passed /\ said # "ready" /\ (Integrated => checker = "off")
        /\ \A p \in Probers : ~probe[p].ready
        /\ checker = "ready" => AllDone
    BY <2>1 DEF VouchInv
  <2>3. checker' = "ready" => AllDone' /\ vouched'
    BY <2>1, <2>2 DEF AllDone
  <2> QED
    BY <1>1, <2>1, <2>2, <2>3 DEF VouchInv
<1>5. CASE StartServing
  <2>1. UNCHANGED <<checker, check, vouched>> /\ balancer # "off" /\ balancer' # "off"
    BY <1>5 DEF StartServing
  <2> QED
    BY <1>1, <2>1 DEF VouchInv, AllDone
<1> QED
  BY <1>2, <1>3, <1>4, <1>5

\* A /ready repeats what it has heard of the checker, or what is known since.
LEMMA ProbeVouch ==
  ASSUME TypeOK, VouchInv, NEW p \in Probers, ProbeStep(p) \/ AskInVain(p)
  PROVE  VouchInv'
<1> USE DEF history
<1>1. probe \in [Probers -> ProbeStates]
  BY DEF TypeOK, ProbeStates
<1>2. /\ UNCHANGED <<conf, checker, check, balancer, vouched>>
      /\ (Integrated' <=> Integrated) /\ (AllDone' <=> AllDone)
  BY DEF ProbeStep, Arrive, Ping, Ask, AskInVain, Decide, Confirms, InGrace,
         NeverPassed, Integrated, AllDone
<1>3. balancer # "off"
  BY DEF VouchInv, ProbeStep, Arrive, Ping, Ask, AskInVain, Decide
<1>4. ASSUME probe'[p].ready => vouched, passed' \/ said' = "ready" => vouched,
             \A q \in Probers \ {p} : probe'[q] = probe[q]
      PROVE  VouchInv'
  BY <1>2, <1>3, <1>4 DEF VouchInv
<1>5. CASE Arrive(p)
  <2>1. Goes(p, "ping") /\ UNCHANGED <<passed, said>>
    BY <1>5 DEF Arrive
  <2> QED
    BY <1>1, <1>4, <2>1, GoesOn DEF VouchInv
<1>6. CASE Ping(p)
  <2>1. /\ passed' = passed
        /\ \/ Goes(p, "ask") /\ said' = said
           \/ Answered(p, "no valkey")
    BY <1>6 DEF Ping
  <2>2. CASE Goes(p, "ask") /\ said' = said
    BY <1>1, <1>4, <2>1, <2>2, GoesOn DEF VouchInv
  <2>3. CASE Answered(p, "no valkey")
    <3>1. /\ said' = "no valkey" /\ ~probe'[p].ready
          /\ \A q \in Probers \ {p} : probe'[q] = probe[q]
      BY <1>1, <2>3, AnswerEnds
    <3> QED
      BY <1>4, <2>1, <3>1 DEF VouchInv
  <2> QED
    BY <2>1, <2>2, <2>3
<1>7. CASE Ask(p) \/ AskInVain(p)
  <2>1. /\ UNCHANGED <<passed, said>>
        /\ \/ Learns(p, checker = "ready")
           \/ Learns(p, FALSE)
    BY <1>7 DEF Ask, AskInVain
  <2>2. probe'[p].ready => checker = "ready"
    BY <1>1, <2>1, LearnsAnswer
  <2>3. \A q \in Probers \ {p} : probe'[q] = probe[q]
    BY <1>1, <2>1, LearnsAnswer
  <2> QED
    BY <1>3, <1>4, <2>1, <2>2, <2>3 DEF VouchInv
<1>8. CASE Decide(p)
  <2>1. PICK answer \in {"ready", "not yet", "no longer"} :
          /\ Answered(p, answer)
          /\ answer = "ready" => probe[p].ready \/ passed
          /\ passed' => probe[p].ready \/ passed
    BY <1>8 DEF Decide, Confirms, InGrace, NeverPassed
  <2>2. /\ said' = answer /\ ~probe'[p].ready
        /\ \A q \in Probers \ {p} : probe'[q] = probe[q]
    BY <1>1, <2>1, AnswerEnds
  <2> QED
    BY <1>4, <2>1, <2>2 DEF VouchInv
<1> QED
  BY <1>5, <1>6, <1>7, <1>8 DEF ProbeStep

\* A balancer that restarts forgets everything it was told.
LEMMA WorldVouch ==
  ASSUME TypeOK, VouchInv, Tick \/ ValkeyReturns \/ BalancerCrashes \/ ValkeyFails
  PROVE  VouchInv'
<1> USE DEF serving, history
<1>1. CASE Tick
  <2>1. /\ UNCHANGED <<conf, checker, check, balancer, passed, said, vouched>>
        /\ (Integrated' <=> Integrated) /\ (AllDone' <=> AllDone)
    BY <1>1 DEF Tick, Integrated, AllDone
  <2>2. \A p \in Probers :
          probe'[p].at = probe[p].at /\ probe'[p].ready = probe[p].ready
    BY <1>1, TickAges
  <2> QED
    BY <2>1, <2>2 DEF VouchInv
<1>2. CASE ValkeyReturns \/ ValkeyFails
  <2>1. /\ UNCHANGED <<conf, checker, check, balancer, serving, vouched>>
        /\ (Integrated' <=> Integrated) /\ (AllDone' <=> AllDone)
    BY <1>2 DEF ValkeyReturns, ValkeyFails, Integrated, AllDone
  <2> QED
    BY <2>1 DEF VouchInv
<1>3. CASE BalancerCrashes
  <2>1. /\ balancer' = "off" /\ passed' = FALSE /\ said' = "nothing"
        /\ probe' = [q \in Probers |-> Idle]
        /\ UNCHANGED <<conf, check>> /\ checker' \in {checker, "off"}
        /\ Integrated => checker' = "off"
        /\ (Integrated' <=> Integrated) /\ (AllDone' <=> AllDone)
    BY <1>3 DEF BalancerCrashes, Integrated, AllDone
  <2>2. \A p \in Probers : probe'[p].at = "idle" /\ ~probe'[p].ready
    BY <2>1 DEF Idle
  <2> QED
    BY <2>1, <2>2 DEF VouchInv
<1> QED
  BY <1>1, <1>2, <1>3

\* No step makes a promise that nobody has kept.
LEMMA VouchStep == TypeOK /\ VouchInv /\ [Next]_vars => VouchInv'
<1> SUFFICES ASSUME TypeOK, VouchInv, [Next]_vars PROVE VouchInv'
  OBVIOUS
<1>1. CASE UNCHANGED vars
  BY <1>1 DEF VouchInv, vars, AllDone, Integrated
<1> QED
  BY <1>1, ProgramVouch, ProbeVouch, WorldVouch DEF Next, CheckerStep, Faults

\* A load balancer that answers "ready", on the word of its checker or within
\* the grace period, has had a checker in its own time that had been through
\* every endpoint: an answer from before a restart is never used after it.
THEOREM ReadyCorrect == Spec => []ReadyNeedsAChecker
<1>1. VouchInv => ReadyNeedsAChecker
  BY DEF VouchInv, ReadyNeedsAChecker
<1> QED
  BY <1>1, InitVouch, VouchStep, TypeCorrect, PTL DEF Spec

-------------------------------------------------------------------------------
(* The grace period.  A refusal is counted only when no answer of the checker *)
(* that is gone can still be under way, and the clock of the load balancer is *)
(* never behind the one that counts from there, nor ahead of its last grant.  *)

Pending(p) == probe[p].at = "decide" /\ probe[p].ready

ReadyIsHere == checker = "ready" <=> away = None

GraceInv ==
  /\ ReadyIsHere
  /\ \A p \in Probers : Pending(p) => away = None \/ away =< probe[p].age
  /\ missed # None => away = CallTimeout + 1
  /\ missed # None => failure # None /\ missed =< failure
  /\ granted # None /\ failure # None => failure =< granted

\* Ages are numbers, or never.
LEMMA Ages ==
  ASSUME TypeOK
  PROVE  /\ Grace \in Nat /\ CallTimeout \in Nat /\ None \notin Nat
         /\ failure # None => failure \in 0..Grace
         /\ missed # None => missed \in 0..Grace
         /\ granted # None => granted \in 0..Grace
         /\ away # None => away \in 0..CallTimeout + 1
         /\ \A p \in Probers : probe[p] \in ProbeStates
         /\ \A p \in Probers : probe[p].age \in 0..CallTimeout
<1>1. /\ failure \in Age(Grace) /\ missed \in Age(Grace) /\ granted \in Age(Grace)
      /\ away \in Age(CallTimeout + 1)
  BY DEF TypeOK
<1>2. \A p \in Probers : probe[p] \in ProbeStates
  BY DEF TypeOK, ProbeStates
<1>3. \A p \in Probers : probe[p].age \in 0..CallTimeout
  BY <1>2 DEF ProbeStates
<1> QED
  BY <1>1, <1>2, <1>3, ReadinessAssumption DEF Age

\* While a refusal counts, no answer of a ready checker is under way.
LEMMA NoLateAnswer ==
  ASSUME TypeOK, GraceInv, missed # None, NEW p \in Probers
  PROVE  ~Pending(p)
<1>1. away = CallTimeout + 1
  BY DEF GraceInv
<1>2. away # None
  BY <1>1, Ages
<1> QED
  BY <1>1, <1>2, Ages DEF GraceInv

\* Nothing is out, and no clock runs.
LEMMA InitGrace == Init => GraceInv
<1> SUFFICES ASSUME Init PROVE GraceInv
  OBVIOUS
<1>1. CallTimeout + 1 \in Nat /\ None \notin Nat
  BY ReadinessAssumption
<1>2. \A p \in Probers : ~Pending(p)
  BY DEF Init, Pending, Idle
<1> QED
  BY <1>1, <1>2 DEF Init, GraceInv, ReadyIsHere

\* The programs start, check and crash.
LEMMA ProgramGrace ==
  ASSUME TypeOK, VouchInv, GraceInv,
         \/ StartChecker \/ Load \/ FirstRoundEnds \/ StartBalancer
         \/ StartServing \/ CheckerCrashes
         \/ \E e \in Endpoints : BeginCheck(e) \/ EndCheck(e)
  PROVE  GraceInv'
<1> USE DEF serving, history
<1>1. /\ UNCHANGED <<failure, probe, granted>>
      /\ \A p \in Probers : (Pending(p)' <=> Pending(p))
  BY DEF StartChecker, Load, FirstRoundEnds, BecomesReady, StartBalancer,
         StartServing, CheckerCrashes, BeginCheck, EndCheck, Pending
<1>2. CASE \/ StartChecker \/ Load \/ StartBalancer \/ StartServing
           \/ \E e \in Endpoints : BeginCheck(e) \/ EndCheck(e)
  <2>1. /\ UNCHANGED <<away, missed>>
        /\ checker' = "ready" <=> checker = "ready"
    BY <1>2 DEF StartChecker, Load, StartBalancer, StartServing, BeginCheck,
                EndCheck, VouchInv
  <2> QED
    BY <1>1, <2>1 DEF GraceInv, ReadyIsHere
<1>3. CASE FirstRoundEnds
  <2>1. checker' = "ready" /\ away' = None /\ missed' = None
    BY <1>3 DEF FirstRoundEnds, BecomesReady
  <2> QED
    BY <1>1, <2>1 DEF GraceInv, ReadyIsHere
<1>4. CASE CheckerCrashes
  <2>1. /\ checker' = "off" /\ missed' = missed
        /\ IF checker = "ready" THEN away' = 0 ELSE away' = away
    BY <1>4 DEF CheckerCrashes, GoesAway
  <2>2. CASE checker = "ready"
    <3>1. away = None /\ missed = None
      BY <2>2, Ages DEF GraceInv, ReadyIsHere
    <3>2. away' = 0 /\ 0 # None
      BY <2>1, <2>2, ReadinessAssumption
    <3>3. \A p \in Probers : 0 =< probe'[p].age
      BY <1>1, Ages
    <3> QED
      BY <1>1, <2>1, <3>1, <3>2, <3>3 DEF GraceInv, ReadyIsHere
  <2>3. CASE checker # "ready"
    BY <1>1, <2>1, <2>3 DEF GraceInv, ReadyIsHere
  <2> QED
    BY <2>2, <2>3
<1> QED
  BY <1>2, <1>3, <1>4

\* What a /ready makes of the clocks.
LEMMA DecideGrace ==
  ASSUME TypeOK, GraceInv, NEW p \in Probers, Decide(p)
  PROVE  GraceInv'
<1> USE DEF history
<1>1. /\ UNCHANGED <<checker, away>> /\ probe[p].at = "decide"
      /\ \E answer \in {"ready", "not yet", "no longer"} : Answered(p, answer)
  BY DEF Decide, Confirms, InGrace, NeverPassed
<1>2. \A q \in Probers : Pending(q)' => Pending(q) /\ probe'[q].age = probe[q].age
  <2>1. /\ probe'[p].at = "idle"
        /\ \A q \in Probers \ {p} : probe'[q] = probe[q]
    BY <1>1, AnswerEnds, Ages DEF TypeOK, ProbeStates
  <2> QED
    BY <2>1 DEF Pending
<1>3. CASE probe[p].ready
  <2>1. missed = None
    BY <1>1, <1>3, NoLateAnswer DEF Pending
  <2>2. missed' = missed /\ failure' = None
    BY <1>3 DEF Decide, Confirms
  <2> QED
    BY <1>1, <1>2, <2>1, <2>2 DEF GraceInv, ReadyIsHere
<1>4. CASE ~probe[p].ready /\ passed
  <2>1. failure' = Elapsed /\ missed' = Misses /\ granted' = granted
    BY <1>4 DEF Decide, InGrace
  <2>2. /\ Elapsed \in Nat /\ Elapsed # None
        /\ failure # None => Elapsed = failure
        /\ failure = None => Elapsed = 0
    BY Ages DEF Elapsed
  <2>3. missed' # None => away = CallTimeout + 1 /\ missed' =< Elapsed
    <3>1. CASE missed # None
      BY <2>1, <2>2, <3>1 DEF Misses, GraceInv
    <3>2. CASE missed = None
      <4>1. missed' # None => missed' = 0 /\ away \notin Age(CallTimeout)
        BY <2>1, <3>2 DEF Misses
      <4>2. away \notin Age(CallTimeout) => away = CallTimeout + 1
        BY Ages DEF Age
      <4> QED
        BY <2>2, <4>1, <4>2
    <3> QED
      BY <3>1, <3>2
  <2>4. granted # None => Elapsed =< granted
    BY <2>2, Ages DEF GraceInv
  <2> QED
    BY <1>1, <1>2, <2>1, <2>2, <2>3, <2>4 DEF GraceInv, ReadyIsHere
<1>5. CASE ~probe[p].ready /\ ~passed
  <2>1. UNCHANGED <<failure, missed, granted>>
    BY <1>5 DEF Decide, NeverPassed
  <2> QED
    BY <1>1, <1>2, <2>1 DEF GraceInv, ReadyIsHere
<1> QED
  BY <1>3, <1>4, <1>5

\* A /ready on its way asks a checker that is there, or hears nothing of it.
LEMMA ProbeGrace ==
  ASSUME TypeOK, GraceInv, NEW p \in Probers, ProbeStep(p) \/ AskInVain(p)
  PROVE  GraceInv'
<1> USE DEF history
<1>1. probe \in [Probers -> ProbeStates]
  BY DEF TypeOK, ProbeStates
<1>2. CASE Arrive(p) \/ Ping(p) \/ Ask(p) \/ AskInVain(p)
  <2>1. UNCHANGED <<checker, away, failure, missed, granted>>
    BY <1>2 DEF Arrive, Ping, Ask, AskInVain
  <2>2. \/ Goes(p, "ping") \/ Goes(p, "ask") \/ Answered(p, "no valkey")
        \/ Learns(p, checker = "ready") \/ Learns(p, FALSE)
    BY <1>2 DEF Arrive, Ping, Ask, AskInVain
  <2>3. \A q \in Probers \ {p} : probe'[q] = probe[q]
    BY <1>1, <2>2, GoesOn, AnswerEnds, LearnsAnswer
  <2>4. Pending(p)' => checker = "ready"
    BY <1>1, <2>2, GoesOn, AnswerEnds, LearnsAnswer DEF Pending
  <2>5. \A q \in Probers \ {p} : (Pending(q)' <=> Pending(q))
    BY <2>3 DEF Pending
  <2> QED
    BY <2>1, <2>3, <2>4, <2>5 DEF GraceInv, ReadyIsHere
<1> QED
  BY <1>2, DecideGrace DEF ProbeStep

\* All clocks run at the same pace; a balancer that dies stops its own.
LEMMA WorldGrace ==
  ASSUME TypeOK, GraceInv, Tick \/ ValkeyReturns \/ BalancerCrashes \/ ValkeyFails
  PROVE  GraceInv'
<1> USE DEF serving, history
<1>1. CASE Tick
  <2>1. /\ checker' = checker
        /\ failure' = Older(failure, Grace) /\ missed' = Older(missed, Grace)
        /\ granted' = Older(granted, Grace) /\ away' = Older(away, CallTimeout + 1)
    BY <1>1 DEF Tick
  <2>2. /\ Grace \in Nat /\ CallTimeout + 1 \in Nat
        /\ failure \in Age(Grace) /\ missed \in Age(Grace)
        /\ granted \in Age(Grace) /\ away \in Age(CallTimeout + 1)
    <3>1. Grace \in Nat /\ CallTimeout + 1 \in Nat
      BY Bounds
    <3> QED
      BY <3>1 DEF TypeOK
  <2>3. /\ failure' = None <=> failure = None
        /\ missed' = None <=> missed = None
        /\ granted' = None <=> granted = None
        /\ away' = None <=> away = None
    BY <2>1, <2>2, OlderAge
  <2>4. missed # None => failure # None /\ missed' =< failure'
    BY <2>1, <2>2, OlderAge DEF GraceInv
  <2>5. granted # None /\ failure # None => failure' =< granted'
    BY <2>1, <2>2, OlderAge DEF GraceInv
  <2>6. missed # None => away' = CallTimeout + 1
    <3> SUFFICES ASSUME missed # None PROVE away' = CallTimeout + 1
      OBVIOUS
    <3>1. away = CallTimeout + 1
      BY DEF GraceInv
    <3> QED
      BY <2>1, <3>1 DEF Older
  <2>7. ASSUME NEW p \in Probers, Pending(p)', away' # None
        PROVE  away' =< probe'[p].age
    <3>1. /\ Pending(p) /\ InCall(p) /\ probe'[p].age = probe[p].age + 1
      BY <1>1, <2>7, TickAges DEF Pending, InCall
    <3>2. away # None /\ away =< probe[p].age
      BY <2>3, <2>7, <3>1 DEF GraceInv
    <3>3. away' =< away + 1
      BY <2>1, <2>2, <3>2, OlderAge
    <3>4. away \in Nat /\ away' \in Nat /\ probe[p].age \in Nat
      BY <2>1, <2>2, <3>2, OlderAge, Ages
    <3> QED
      BY <3>1, <3>2, <3>3, <3>4
  <2> QED
    BY <2>1, <2>3, <2>4, <2>5, <2>6, <2>7 DEF GraceInv, ReadyIsHere
<1>2. CASE ValkeyReturns \/ ValkeyFails
  BY <1>2 DEF ValkeyReturns, ValkeyFails, GraceInv, ReadyIsHere, Pending
<1>3. CASE BalancerCrashes
  <2>1. /\ missed' = None /\ granted' = None
        /\ probe' = [q \in Probers |-> Idle]
    BY <1>3 DEF BalancerCrashes
  <2>2. \A q \in Probers : ~Pending(q)'
    BY <2>1 DEF Pending, Idle
  <2>3. ReadyIsHere'
    <3>1. \/ UNCHANGED <<checker, away>>
          \/ /\ checker' = "off"
             /\ away' = IF checker = "ready" THEN 0 ELSE away
      BY <1>3 DEF BalancerCrashes, GoesAway
    <3>2. 0 # None
      BY ReadinessAssumption
    <3> QED
      BY <3>1, <3>2 DEF GraceInv, ReadyIsHere
  <2> QED
    BY <2>1, <2>2, <2>3 DEF GraceInv
<1> QED
  BY <1>1, <1>2, <1>3

\* What is known of the answers and of the clocks.
ReadinessInv == TypeOK /\ VouchInv /\ GraceInv

\* It is known of every state.
LEMMA ReadinessInvariant == Spec => []ReadinessInv
<1>1. Init => ReadinessInv
  BY InitTypes, InitVouch, InitGrace DEF ReadinessInv
<1>2. ReadinessInv /\ [Next]_vars => ReadinessInv'
  <2> SUFFICES ASSUME ReadinessInv, [Next]_vars PROVE ReadinessInv'
    OBVIOUS
  <2>1. TypeOK' /\ VouchInv'
    BY TypeStep, VouchStep DEF ReadinessInv
  <2>2. ASSUME UNCHANGED vars PROVE GraceInv'
    BY <2>2 DEF ReadinessInv, GraceInv, ReadyIsHere, Pending, vars
  <2>3. ASSUME Next PROVE GraceInv'
    BY <2>3, ProgramGrace, ProbeGrace, WorldGrace
       DEF ReadinessInv, Next, CheckerStep, Faults
  <2> QED
    BY <2>1, <2>2, <2>3 DEF ReadinessInv
<1> QED
  BY <1>1, <1>2, PTL DEF Spec

\* The step that answers a /ready is its own.
LEMMA DecidesAlone ==
  ASSUME TypeOK, Next, NEW p \in Probers, Decides(p)
  PROVE  Decide(p)
<1>1. probe \in [Probers -> ProbeStates]
  BY DEF TypeOK, ProbeStates
<1>2. /\ probe[p].at = "decide" /\ probe'[p].at = "idle" /\ probe' # probe
      /\ balancer' # "off"
  BY DEF Decides
<1>3. ASSUME NEW q \in Probers, ProbeStep(q) \/ AskInVain(q)
      PROVE  q = p /\ Decide(p)
  <2>1. \A r \in Probers \ {q} : probe'[r] = probe[r]
    <3>1. \/ Goes(q, "ping") \/ Goes(q, "ask") \/ Learns(q, checker = "ready")
          \/ Learns(q, FALSE)
          \/ \E answer \in {"no valkey", "ready", "not yet", "no longer"} :
               Answered(q, answer)
      BY <1>3 DEF ProbeStep, Arrive, Ping, Ask, AskInVain, Decide, Confirms,
                  InGrace, NeverPassed
    <3> QED
      BY <1>1, <3>1, GoesOn, AnswerEnds, LearnsAnswer
  <2>2. q = p
    BY <1>2, <2>1
  <2>3. probe[q].at # "decide" \/ Decide(q)
    BY <1>3, <1>1, <1>2, <2>2, LearnsAnswer DEF ProbeStep, Arrive, Ping, Ask, AskInVain
  <2> QED
    BY <1>2, <2>2, <2>3
<1>4. ~Tick
  BY <1>2, TickAges
<1>5. /\ ~(StartChecker \/ StartBalancer \/ StartServing \/ ValkeyReturns)
      /\ ~(CheckerCrashes \/ BalancerCrashes \/ ValkeyFails) /\ ~CheckerStep
  BY <1>2 DEF StartChecker, StartBalancer, StartServing, ValkeyReturns,
              CheckerCrashes, BalancerCrashes, ValkeyFails, CheckerStep, Load,
              FirstRoundEnds, BecomesReady, BeginCheck, EndCheck, serving
<1> QED
  BY <1>3, <1>4, <1>5 DEF Next, Faults

\* A checker that is gone is covered for no more than the grace period from
\* the first refusal, however the answers of several probes overtake each
\* other and whoever restarts: nothing resets the clock but a checker that has
\* become ready again.
THEOREM GraceEnds == Spec => GraceRunsOut
<1>1. ReadinessInv /\ [Next]_vars
        => [\A p \in Probers :
              Decides(p) /\ said' = "ready" => missed = None \/ missed < Grace]_vars
  <2> SUFFICES ASSUME ReadinessInv, Next, NEW p \in Probers, Decides(p),
                      said' = "ready", missed # None
               PROVE  missed < Grace
    OBVIOUS
  <2> USE DEF ReadinessInv
  <2>1. Decide(p) /\ ~probe[p].ready
    BY DecidesAlone, NoLateAnswer DEF Decides, Pending
  <2>2. passed /\ Elapsed < Grace
    BY <2>1 DEF Decide, InGrace, NeverPassed, Answered
  <2>3. failure # None /\ missed =< failure /\ Elapsed = failure
    BY DEF GraceInv, Elapsed
  <2> QED
    BY <2>2, <2>3, Ages
<1> QED
  BY <1>1, ReadinessInvariant, PTL DEF Spec, GraceRunsOut

\* The clock of the grace period is not ahead of the last grant.
LEMMA LastGrant ==
  ASSUME TypeOK, GraceInv, ~(Elapsed < Grace), granted # None
  PROVE  granted >= Grace
<1>1. failure # None => failure =< granted
  BY DEF GraceInv
<1>2. Grace \in Nat /\ granted \in 0..Grace
  BY Ages
<1>3. failure # None => failure \in 0..Grace
  BY Ages
<1> QED
  BY <1>1, <1>2, <1>3 DEF Elapsed

\* A balancer that was ready on its checker's word takes that back no sooner
\* than the grace period later.
THEOREM GraceHolds == Spec => GraceIsGranted
<1>1. ReadinessInv /\ [Next]_vars
        => [\A p \in Probers :
              Decides(p) /\ said' = "no longer"
              => granted = None \/ granted >= Grace]_vars
  <2> SUFFICES ASSUME ReadinessInv, Next, NEW p \in Probers, Decides(p),
                      said' = "no longer", granted # None
               PROVE  granted >= Grace
    OBVIOUS
  <2> USE DEF ReadinessInv
  <2>1. Decide(p)
    BY DecidesAlone
  <2>2. ~(Elapsed < Grace)
    BY <2>1 DEF Decide, Confirms, InGrace, NeverPassed, Answered
  <2> QED
    BY <2>2, LastGrant
<1> QED
  BY <1>1, ReadinessInvariant, PTL DEF Spec, GraceIsGranted
===============================================================================
