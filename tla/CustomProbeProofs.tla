--------------------------- MODULE CustomProbeProofs ---------------------------
(* What holds of CustomProbe for any number of handlers and loops, any       *)
(* threshold, and every fault.                                               *)
EXTENDS CustomProbe, TLAPS

Places == {"off", "top", "probe", "look", "retest", "report", "mark", "clear",
           "settle"}

HandStates == [at : {"idle", "sent", "gate", "set"}, asks : Asks]

\* The shapes of the variables, without the bounds of the counters.
HandlersOK ==
  /\ healthy \in BOOLEAN /\ target \in BOOLEAN /\ gate \in BOOLEAN
  /\ node \subseteq Asks /\ budget \in 0..MaxEvents
  /\ hand \in [Handlers -> HandStates]

ChecksOK ==
  /\ scan \in {"boot", "tick", "act"} /\ view \in BOOLEAN
  /\ entry \in Loops \cup {None} /\ cancelled \subseteq Loops
  /\ at \in [Tasks -> Places]
  /\ ok \in [Tasks -> BOOLEAN]
  /\ run \in [Loops -> Nat]
  /\ stood \in [Loops -> BOOLEAN] /\ proven \in [Loops -> Nat]

\* The streak of a loop.  While the target it found at the beginning of the
\* streak stands, each success that it counts was one at the method, the one
\* that it is about to count included.
Streak(l) ==
  /\ stood[l] => target
  /\ run[l] =< HealthyThreshold
  /\ at[l] = "off" => run[l] = 0
  /\ at[l] = "mark" => run[l] = HealthyThreshold
  /\ at[l] \notin {"mark", "clear", "settle"} => run[l] < HealthyThreshold
  /\ at[l] = "report" =>
       /\ proven[l] =< run[l] + 1
       /\ stood[l] /\ ok[l] => proven[l] = run[l] + 1
  /\ at[l] # "report" =>
       /\ proven[l] =< run[l]
       /\ stood[l] => proven[l] = run[l]

StreakInv == \A l \in Loops : Streak(l)

ProbeInv == HandlersOK /\ ChecksOK /\ StreakInv

-------------------------------------------------------------------------------
(* Frames.                                                                   *)

\* The invariant gives every variable its type, counters within the threshold.
LEMMA ProbeInvTypes == ProbeInv => TypeOK
<1> SUFFICES ASSUME ProbeInv PROVE TypeOK
  OBVIOUS
<1>1. HealthyThreshold \in Nat
  BY CustomProbeAssumption
<1>2. \A l \in Loops : run[l] \in 0..HealthyThreshold
                       /\ proven[l] \in 0..HealthyThreshold
  <2> SUFFICES ASSUME NEW l \in Loops
               PROVE  run[l] \in 0..HealthyThreshold
                      /\ proven[l] \in 0..HealthyThreshold
    OBVIOUS
  <2>1. Streak(l) /\ run[l] \in Nat /\ proven[l] \in Nat
    BY DEF ProbeInv, StreakInv, ChecksOK
  <2>2. CASE at[l] = "report"
    BY <1>1, <2>1, <2>2 DEF Streak
  <2>3. CASE at[l] # "report"
    BY <1>1, <2>1, <2>3 DEF Streak
  <2> QED
    BY <2>2, <2>3
<1>3. run \in [Loops -> 0..HealthyThreshold] /\ proven \in [Loops -> 0..HealthyThreshold]
  BY <1>2 DEF ProbeInv, ChecksOK
<1> QED
  BY <1>3 DEF ProbeInv, HandlersOK, ChecksOK, TypeOK, Places, HandStates

\* A step away from the checks keeps the streaks, if it clears no target.
LEMMA AwayFrame ==
  ASSUME ProbeInv, HandlersOK', target => target',
         scan' \in {"boot", "tick", "act"}, view' \in BOOLEAN,
         UNCHANGED <<entry, cancelled, checks, history>>
  PROVE  ProbeInv'
<1>1. ChecksOK'
  BY DEF ProbeInv, ChecksOK, checks, history
<1>2. \A l \in Loops : Streak(l)'
  BY DEF ProbeInv, StreakInv, Streak, checks, history
<1> QED
  BY <1>1, <1>2 DEF ProbeInv, StreakInv

\* What a step of another task may do to a loop: forget its streak.
Spared(l) ==
  /\ run'[l] = run[l]
  /\ \/ stood'[l] = stood[l] /\ proven'[l] = proven[l]
     \/ stood'[l] = FALSE /\ proven'[l] = 0
  /\ stood'[l] => target'

\* A step of a task is to be looked at with its own eyes only.
LEMMA TaskFrame ==
  ASSUME ProbeInv, NEW t \in Tasks, NEW to \in Places, HandlersOK',
         at' = [at EXCEPT ![t] = to],
         NEW good \in BOOLEAN, ok' = [ok EXCEPT ![t] = good],
         UNCHANGED <<scan, view>>,
         entry' \in Loops \cup {None}, cancelled' \subseteq Loops,
         run' \in [Loops -> Nat], stood' \in [Loops -> BOOLEAN],
         proven' \in [Loops -> Nat],
         \A l \in Loops \ {t} : Spared(l),
         t \in Loops => Streak(t)'
  PROVE  ProbeInv'
<1>1. ChecksOK'
  BY DEF ProbeInv, ChecksOK
<1>2. ASSUME NEW l \in Loops \ {t}
      PROVE  Streak(l)'
  <2>1. at'[l] = at[l] /\ ok'[l] = ok[l]
    BY DEF ProbeInv, ChecksOK, Tasks
  <2>2. Spared(l) /\ Streak(l) /\ run[l] \in Nat
    BY DEF ProbeInv, StreakInv, ChecksOK
  <2> QED
    BY <2>1, <2>2 DEF Spared, Streak
<1> QED
  BY <1>1, <1>2 DEF ProbeInv, StreakInv

\* What a loop forgets, it has not proven.
LEMMA Forgets ==
  ASSUME ProbeInv, NEW loops, Forget(loops), target' = target \/ loops = Loops
  PROVE  /\ stood' \in [Loops -> BOOLEAN] /\ proven' \in [Loops -> Nat]
         /\ \A l \in loops \cap Loops : stood'[l] = FALSE /\ proven'[l] = 0
         /\ \A l \in Loops \ loops : stood'[l] = stood[l] /\ proven'[l] = proven[l]
         /\ \A l \in Loops : run'[l] = run[l] => Spared(l)
<1>1. /\ stood \in [Loops -> BOOLEAN] /\ proven \in [Loops -> Nat]
      /\ \A l \in Loops : stood[l] => target
  BY DEF ProbeInv, ChecksOK, StreakInv, Streak
<1>2. /\ stood' = [l \in Loops |-> stood[l] /\ l \notin loops]
      /\ proven' = [l \in Loops |-> IF l \in loops THEN 0 ELSE proven[l]]
  BY DEF Forget
<1>3. stood' \in [Loops -> BOOLEAN] /\ proven' \in [Loops -> Nat]
  BY <1>1, <1>2
<1>4. \A l \in loops \cap Loops : stood'[l] = FALSE /\ proven'[l] = 0
  BY <1>2
<1>5. \A l \in Loops \ loops : stood'[l] = stood[l] /\ proven'[l] = proven[l]
  BY <1>1, <1>2
<1> QED
  BY <1>1, <1>3, <1>4, <1>5 DEF Spared

\* A fault is spent from a budget that is not yet empty.
LEMMA Spending ==
  ASSUME HandlersOK, budget > 0, budget' = budget - 1
  PROVE  budget' \in 0..MaxEvents
<1>1. MaxEvents \in Nat /\ budget \in 0..MaxEvents
  BY CustomProbeAssumption DEF HandlersOK
<1> QED
  BY <1>1

-------------------------------------------------------------------------------
(* Steps away from the checks.                                               *)

\* The threshold is a positive number.
LEMMA Threshold == HealthyThreshold \in Nat \ {0} /\ Boot \notin Loops
                   /\ None \notin Loops /\ Boot \in Tasks /\ Loops \subseteq Tasks
  BY CustomProbeAssumption DEF Tasks

\* A fresh checker counts from nothing, and no streak has begun.
LEMMA FreshStreaks ==
  ASSUME HandlersOK', FreshChecker
  PROVE  ProbeInv'
<1> USE DEF FreshChecker
<1>1. ChecksOK'
  BY DEF ChecksOK, Places
<1>2. ASSUME NEW l \in Loops
      PROVE  Streak(l)'
  <2>1. /\ at'[l] = "off" /\ run'[l] = 0 /\ proven'[l] = 0 /\ stood'[l] = FALSE
    BY Threshold DEF Tasks
  <2> QED
    BY <2>1, Threshold DEF Streak
<1> QED
  BY <1>1, <1>2 DEF ProbeInv, StreakInv

\* Nothing has been counted at first.
LEMMA InitProbes == Init => ProbeInv
<1> SUFFICES ASSUME Init PROVE ProbeInv
  OBVIOUS
<1>1. Idle \in HandStates
  BY DEF Idle, HandStates, Asks
<1>2. HandlersOK
  <2>1. budget \in 0..MaxEvents
    BY CustomProbeAssumption DEF Init
  <2>2. hand \in [Handlers -> HandStates]
    BY <1>1 DEF Init
  <2> QED
    BY <2>1, <2>2 DEF Init, HandlersOK
<1>3. ChecksOK
  BY DEF Init, ChecksOK, Places
<1>4. ASSUME NEW l \in Loops
      PROVE  Streak(l)
  <2>1. /\ at[l] = "off" /\ run[l] = 0 /\ proven[l] = 0 /\ stood[l] = FALSE
    BY Threshold DEF Init, Tasks
  <2> QED
    BY <2>1, Threshold DEF Streak
<1> QED
  BY <1>2, <1>3, <1>4 DEF ProbeInv, StreakInv

\* The handlers capture and lift; they never clear a target.
LEMMA HandlerProbes ==
  ASSUME ProbeInv, NEW h \in Handlers,
         \/ HandlerStep(h) \/ CaptureFails(h)
         \/ \E asks \in Asks : Arrive(h, asks)
  PROVE  ProbeInv'
<1>1. /\ UNCHANGED <<node, scan, view, entry, cancelled, checks, history>>
      /\ target => target'
      /\ healthy' \in BOOLEAN /\ target' \in BOOLEAN /\ gate' \in BOOLEAN
  BY DEF HandlerStep, Succeeds, Fails, TryGate, SetTarget, CaptureFails, Arrive,
         captured, world, scanner, ProbeInv, HandlersOK
<1>2. budget' \in 0..MaxEvents
  <2>1. budget' = budget \/ (budget > 0 /\ budget' = budget - 1)
    BY DEF HandlerStep, Succeeds, Fails, TryGate, SetTarget, CaptureFails,
           Arrive, world, Spend
  <2> QED
    BY <2>1, Spending DEF ProbeInv, HandlersOK
<1>3. hand' \in [Handlers -> HandStates]
  <2>1. hand \in [Handlers -> HandStates] /\ Idle \in HandStates
    BY DEF ProbeInv, HandlersOK, Idle, HandStates, Asks
  <2>2. CASE \E asks \in Asks : Arrive(h, asks)
    <3>1. PICK asks \in Asks :
            hand' = [hand EXCEPT ![h] = [at |-> "sent", asks |-> asks]]
      BY <2>2 DEF Arrive
    <3>2. [at |-> "sent", asks |-> asks] \in HandStates
      BY DEF HandStates
    <3> QED
      BY <2>1, <3>1, <3>2
  <2>3. CASE HandlerStep(h) \/ CaptureFails(h)
    <3>1. \/ hand' = [hand EXCEPT ![h] = Idle]
          \/ \E where \in {"gate", "set"} : hand' = [hand EXCEPT ![h].at = where]
      BY <2>3 DEF HandlerStep, Succeeds, Fails, TryGate, SetTarget, CaptureFails,
                  Rests, Moves
    <3> QED
      BY <2>1, <3>1 DEF HandStates
  <2> QED
    BY <2>2, <2>3
<1>4. HandlersOK'
  BY <1>1, <1>2, <1>3 DEF ProbeInv, HandlersOK
<1> QED
  BY <1>1, <1>4, AwayFrame DEF ProbeInv, ChecksOK

\* The scan starts a loop that rests, and stops by its context only.
LEMMA ScanProbes ==
  ASSUME ProbeInv, ScanStep
  PROVE  ProbeInv'
<1> USE DEF captured, world
<1>1. HandlersOK'
  BY DEF ScanStep, BootEnds, ScanReads, ScanActs, ProbeInv, HandlersOK
<1>2. CASE BootEnds \/ ScanReads
  BY <1>1, <1>2, AwayFrame DEF BootEnds, ScanReads, ProbeInv, HandlersOK, ChecksOK
<1>3. CASE ScanActs
  <2>1. /\ UNCHANGED <<target, ok, run, stood, proven>>
        /\ scan' = "tick" /\ view' = FALSE
    BY <1>3 DEF ScanActs, history
  <2>2. /\ entry' \in Loops \cup {None} /\ cancelled' \subseteq Loops
        /\ \/ at' = at
           \/ \E l \in Loops : at[l] = "off" /\ at' = [at EXCEPT ![l] = "top"]
    BY <1>3 DEF ScanActs, Stop, Launch, Nothing, ProbeInv, ChecksOK
  <2>3. ChecksOK'
    BY <2>1, <2>2 DEF ProbeInv, ChecksOK, Places
  <2>4. ASSUME NEW l \in Loops
        PROVE  Streak(l)'
    <3>1. at'[l] = at[l] \/ (at[l] = "off" /\ at'[l] = "top")
      BY <2>2 DEF ProbeInv, ChecksOK, Tasks
    <3> QED
      BY <2>1, <3>1, Threshold DEF ProbeInv, StreakInv, Streak
  <2> QED
    BY <1>1, <2>3, <2>4 DEF ProbeInv, StreakInv
<1> QED
  BY <1>2, <1>3 DEF ScanStep

\* Neither the clock, the node nor a restart makes a streak.
LEMMA WorldProbes ==
  ASSUME ProbeInv, GateExpires \/ NodeChanges \/ CheckerRestarts
  PROVE  ProbeInv'
<1> USE DEF captured, world, scanner
<1>1. budget' = budget \/ (budget > 0 /\ budget' = budget - 1)
  BY DEF GateExpires, NodeChanges, CheckerRestarts, Spend
<1>2. budget' \in 0..MaxEvents
  BY <1>1, Spending DEF ProbeInv, HandlersOK
<1>3. HandlersOK' /\ target' = target
  BY <1>2 DEF GateExpires, NodeChanges, CheckerRestarts, ProbeInv, HandlersOK
<1>4. CASE GateExpires \/ NodeChanges
  BY <1>3, <1>4, AwayFrame DEF GateExpires, NodeChanges, ProbeInv, ChecksOK
<1>5. CASE CheckerRestarts
  BY <1>3, <1>5, FreshStreaks DEF CheckerRestarts
<1> QED
  BY <1>4, <1>5

\* Where the cleanup takes the target away, no streak is under one any more.
LEMMA CleanupProbes ==
  ASSUME ProbeInv, CleanedUp
  PROVE  ProbeInv'
<1>1. /\ UNCHANGED <<healthy, node, hand, scan, view, entry, cancelled, at, ok, run>>
      /\ target' \in BOOLEAN /\ gate' \in BOOLEAN
      /\ budget > 0 /\ budget' = budget - 1
  BY DEF CleanedUp, Spend, scanner, checks, ProbeInv, HandlersOK
<1>2. HandlersOK'
  <2>1. budget' \in 0..MaxEvents
    BY <1>1, Spending DEF ProbeInv
  <2> QED
    BY <1>1, <2>1 DEF ProbeInv, HandlersOK
<1>3. /\ stood' \in [Loops -> BOOLEAN] /\ proven' \in [Loops -> Nat]
      /\ \A l \in Loops : Spared(l)
  <2>1. CASE target' = target
    BY <1>1, <2>1, Forgets DEF CleanedUp
  <2>2. CASE target' # target
    <3>1. Forget(Loops)
      BY <2>2 DEF CleanedUp
    <3> QED
      BY <1>1, <3>1, Forgets
  <2> QED
    BY <2>1, <2>2
<1>4. ChecksOK'
  BY <1>1, <1>3 DEF ProbeInv, ChecksOK
<1>5. ASSUME NEW l \in Loops
      PROVE  Streak(l)'
  <2>1. Spared(l) /\ Streak(l) /\ run[l] \in Nat
    BY <1>3 DEF ProbeInv, StreakInv, ChecksOK
  <2> QED
    BY <1>1, <2>1 DEF Spared, Streak
<1> QED
  BY <1>2, <1>4, <1>5 DEF ProbeInv, StreakInv

-------------------------------------------------------------------------------
(* A check: whatever it cannot see, it forgets.                              *)

\* What a step of a task leaves alone, or spends.
LEMMA TaskWorld ==
  ASSUME ProbeInv, healthy' \in BOOLEAN, target' \in BOOLEAN,
         UNCHANGED <<gate, node, hand>>,
         budget' = budget \/ (budget > 0 /\ budget' = budget - 1)
  PROVE  HandlersOK'
<1>1. budget' \in 0..MaxEvents
  BY Spending DEF ProbeInv, HandlersOK
<1> QED
  BY <1>1 DEF ProbeInv, HandlersOK

\* The regular calls of a check, and its look at the target.
LEMMA LookProbes ==
  ASSUME ProbeInv, NEW t \in Tasks,
         Probe(t) \/ Look(t) \/ LookCancelled(t) \/ LookFails(t)
  PROVE  ProbeInv'
<1> USE DEF captured, world, scanner
<1>1. /\ UNCHANGED <<healthy, target, gate, node, hand, scan, view, entry,
                     cancelled, run>>
      /\ budget' = budget \/ (budget > 0 /\ budget' = budget - 1)
  BY DEF Probe, Look, LookCancelled, LookFails, Spend
<1>2. HandlersOK'
  BY <1>1, TaskWorld DEF ProbeInv, HandlersOK
<1>3. /\ at \in [Tasks -> Places] /\ ok \in [Tasks -> BOOLEAN]
      /\ entry \in Loops \cup {None} /\ cancelled \subseteq Loops
      /\ run \in [Loops -> Nat] /\ stood \in [Loops -> BOOLEAN]
      /\ proven \in [Loops -> Nat]
      /\ \A l \in Loops : Streak(l)
  BY DEF ProbeInv, ChecksOK, StreakInv
<1>4. CASE Probe(t)
  <2> DEFINE passes == "rest" \in node /\ Alive(t)
             to == IF passes THEN "look" ELSE "report"
  <2>1. /\ at[t] = "probe" /\ at' = [at EXCEPT ![t] = to]
        /\ ok' = [ok EXCEPT ![t] = passes] /\ UNCHANGED <<stood, proven>>
    BY <1>4 DEF Probe, history
  <2>2. passes \in BOOLEAN /\ to \in Places
    BY DEF Places
  <2>3. at'[t] = to /\ ok'[t] = passes /\ (to = "report" => ~passes)
    BY <1>3, <2>1
  <2>4. to = "look" \/ to = "report"
    OBVIOUS
  <2> HIDE DEF passes, to
  <2>5. t \in Loops => Streak(t)'
    BY <1>1, <1>3, <2>1, <2>3, <2>4 DEF Streak
  <2>6. \A l \in Loops : Spared(l)
    BY <1>1, <1>3, <2>1 DEF Spared, Streak
  <2> QED
    BY <1>1, <1>2, <1>3, <2>1, <2>2, <2>5, <2>6, TaskFrame
<1>5. CASE Look(t)
  <2>1. PICK to \in {"retest", "report"} :
          at[t] = "look" /\ at' = [at EXCEPT ![t] = to] /\ (target => to = "retest")
    BY <1>5 DEF Look
  <2>2. UNCHANGED <<ok, stood, proven>>
    BY <1>5 DEF Look, history
  <2>3. ok' = [ok EXCEPT ![t] = ok[t]] /\ ok[t] \in BOOLEAN
    BY <1>3, <2>2
  <2>4. at'[t] = to
    BY <1>3, <2>1
  <2>5. t \in Loops => Streak(t)'
    BY <1>1, <1>3, <2>1, <2>2, <2>4 DEF Streak
  <2>6. \A l \in Loops : Spared(l)
    BY <1>1, <1>3, <2>2 DEF Spared, Streak
  <2> QED
    BY <1>1, <1>2, <1>3, <2>1, <2>2, <2>3, <2>5, <2>6, TaskFrame DEF Places
<1>6. CASE LookCancelled(t) \/ LookFails(t)
  <2>1. /\ at[t] = "look" /\ at' = [at EXCEPT ![t] = "report"]
        /\ Forget({t}) /\ ok' = ok
    BY <1>6 DEF LookCancelled, LookFails
  <2>2. ok' = [ok EXCEPT ![t] = ok[t]] /\ ok[t] \in BOOLEAN
    BY <1>3, <2>1
  <2>3. at'[t] = "report"
    BY <1>3, <2>1
  <2>4. /\ stood' \in [Loops -> BOOLEAN] /\ proven' \in [Loops -> Nat]
        /\ t \in Loops => stood'[t] = FALSE /\ proven'[t] = 0
        /\ \A l \in Loops : Spared(l)
    BY <1>1, <2>1, Forgets
  <2>5. t \in Loops => Streak(t)'
    BY <1>1, <1>3, <2>1, <2>3, <2>4 DEF Streak
  <2> QED
    BY <1>1, <1>2, <1>3, <2>1, <2>2, <2>4, <2>5, TaskFrame DEF Places
<1> QED
  BY <1>4, <1>5, <1>6

\* A re-test that counts is one at which the node served the method.
LEMMA RetestProbes ==
  ASSUME ProbeInv, NEW t \in Tasks, Retest(t)
  PROVE  ProbeInv'
<1> USE DEF captured, world, scanner
<1>1. /\ UNCHANGED <<healthy, target, gate, node, hand, budget, scan, view, entry,
                     cancelled, run, stood>>
      /\ at[t] = "retest" /\ at' = [at EXCEPT ![t] = "report"]
  BY DEF Retest
<1>2. HandlersOK'
  BY <1>1, TaskWorld DEF ProbeInv, HandlersOK
<1>3. /\ at \in [Tasks -> Places] /\ ok \in [Tasks -> BOOLEAN]
      /\ entry \in Loops \cup {None} /\ cancelled \subseteq Loops
      /\ run \in [Loops -> Nat] /\ stood \in [Loops -> BOOLEAN]
      /\ proven \in [Loops -> Nat]
      /\ \A l \in Loops : Streak(l)
  BY DEF ProbeInv, ChecksOK, StreakInv
<1>4. PICK answer \in Answers : ok' = [ok EXCEPT ![t] = Passes(t, answer)]
  BY DEF Retest
<1>5. PICK good \in BOOLEAN :
        ok' = [ok EXCEPT ![t] = good] /\ (good => "method" \in node)
  BY <1>4 DEF Passes, Answers
<1>6. at'[t] = "report" /\ ok'[t] = good
  BY <1>1, <1>3, <1>5
<1>7. /\ proven' \in [Loops -> Nat]
      /\ \A l \in Loops \ {t} : proven'[l] = proven[l]
      /\ t \in Loops => proven'[t] = IF stood[t] /\ "method" \in node
                                     THEN proven[t] + 1 ELSE proven[t]
  BY <1>3 DEF Retest
<1>8. t \in Loops => Streak(t)'
  BY <1>1, <1>3, <1>5, <1>6, <1>7 DEF Streak
<1>9. \A l \in Loops \ {t} : Spared(l)
  BY <1>1, <1>3, <1>7 DEF Spared, Streak
<1> QED
  BY <1>1, <1>2, <1>3, <1>5, <1>7, <1>8, <1>9, TaskFrame DEF Places

\* A check is counted once, and a failure begins a new streak.
LEMMA ReportProbes ==
  ASSUME ProbeInv, NEW t \in Tasks, Report(t) \/ ReportFails(t)
  PROVE  ProbeInv'
<1> USE DEF captured, world, scanner
<1>1. /\ UNCHANGED <<target, gate, node, hand, scan, view, entry, cancelled, stood>>
      /\ healthy' \in BOOLEAN
      /\ budget' = budget \/ (budget > 0 /\ budget' = budget - 1)
      /\ at[t] = "report" /\ Judge(t) /\ ok' = [ok EXCEPT ![t] = FALSE]
  BY DEF Report, ReportFails, Spend, ProbeInv, HandlersOK
<1>2. HandlersOK'
  BY <1>1, TaskWorld DEF ProbeInv, HandlersOK
<1>3. /\ at \in [Tasks -> Places] /\ ok \in [Tasks -> BOOLEAN]
      /\ entry \in Loops \cup {None} /\ cancelled \subseteq Loops
      /\ run \in [Loops -> Nat] /\ stood \in [Loops -> BOOLEAN]
      /\ proven \in [Loops -> Nat]
      /\ \A l \in Loops : Streak(l)
  BY DEF ProbeInv, ChecksOK, StreakInv
<1>4. CASE t = Boot
  <2>1. at' = [at EXCEPT ![t] = "off"] /\ UNCHANGED <<run, proven>>
    BY <1>1, <1>4 DEF Judge
  <2>2. \A l \in Loops : Spared(l)
    BY <1>1, <1>3, <2>1 DEF Spared, Streak
  <2>3. t \notin Loops
    BY <1>4, Threshold
  <2> QED
    BY <1>1, <1>2, <1>3, <2>1, <2>2, <2>3, TaskFrame DEF Places
<1>5. CASE t \in Loops
  <2> DEFINE c == Counted(t)
             to == IF c >= HealthyThreshold THEN "mark" ELSE "top"
  <2>1. /\ at' = [at EXCEPT ![t] = to] /\ run' = [run EXCEPT ![t] = c]
        /\ proven' = [proven EXCEPT ![t] = IF ok[t] THEN proven[t] ELSE 0]
    BY <1>1, <1>5, Threshold DEF Judge
  <2>2. /\ c = IF ok[t] THEN run[t] + 1 ELSE 0
        /\ run[t] \in Nat /\ run[t] < HealthyThreshold
    BY <1>1, <1>3, <1>5 DEF Counted, Streak
  <2>3. /\ to \in {"mark", "top"} /\ (to = "mark" => c >= HealthyThreshold)
        /\ (to = "top" => ~(c >= HealthyThreshold))
    OBVIOUS
  <2> HIDE DEF c, to
  <2>4. c \in Nat /\ c =< HealthyThreshold
    BY <2>2, Threshold
  <2>5. /\ at'[t] = to /\ run'[t] = c
        /\ proven'[t] = IF ok[t] THEN proven[t] ELSE 0
        /\ run' \in [Loops -> Nat] /\ proven' \in [Loops -> Nat]
        /\ \A l \in Loops \ {t} : run'[l] = run[l] /\ proven'[l] = proven[l]
    BY <1>3, <1>5, <2>1, <2>4
  <2>6. Streak(t)'
    <3>1. c = HealthyThreshold \/ c < HealthyThreshold
      BY <2>4, Threshold
    <3>2. stood'[t] => target'
      BY <1>1, <1>3, <1>5 DEF Streak
    <3>3. proven'[t] =< c /\ (stood[t] => proven'[t] = c)
      <4>1. CASE ok[t]
        BY <1>1, <1>3, <1>5, <2>2, <2>5, <4>1 DEF Streak
      <4>2. CASE ~ok[t]
        BY <2>2, <2>5, <4>2
      <4> QED
        BY <4>1, <4>2
    <3> QED
      BY <1>1, <2>3, <2>4, <2>5, <3>1, <3>2, <3>3, Threshold DEF Streak
  <2>7. \A l \in Loops \ {t} : Spared(l)
    BY <1>1, <1>3, <2>5 DEF Spared, Streak
  <2> QED
    BY <1>1, <1>2, <1>3, <2>1, <2>3, <2>5, <2>6, <2>7, TaskFrame DEF Places
<1> QED
  BY <1>4, <1>5 DEF Tasks

\* Marking, clearing and settling: a target that is cleared ends all streaks.
LEMMA EndProbes ==
  ASSUME ProbeInv, NEW l \in Loops,
         Mark(l) \/ MarkFails(l) \/ Clear(l) \/ ClearFails(l)
  PROVE  ProbeInv'
<1> USE DEF captured, world, scanner
<1>1. /\ UNCHANGED <<gate, node, hand, scan, view, entry, cancelled, run, ok>>
      /\ healthy' \in BOOLEAN /\ target' \in BOOLEAN
      /\ budget' = budget \/ (budget > 0 /\ budget' = budget - 1)
  BY DEF Mark, MarkFails, Clear, ClearFails, Spend, ProbeInv, HandlersOK
<1>2. HandlersOK'
  BY <1>1, TaskWorld DEF ProbeInv, HandlersOK
<1>3. /\ at \in [Tasks -> Places] /\ ok \in [Tasks -> BOOLEAN]
      /\ entry \in Loops \cup {None} /\ cancelled \subseteq Loops
      /\ run \in [Loops -> Nat] /\ stood \in [Loops -> BOOLEAN]
      /\ proven \in [Loops -> Nat]
      /\ \A k \in Loops : Streak(k)
      /\ l \in Tasks
  BY Threshold DEF ProbeInv, ChecksOK, StreakInv
<1>4. ok' = [ok EXCEPT ![l] = ok[l]] /\ ok[l] \in BOOLEAN
  BY <1>1, <1>3
<1>5. PICK to \in {"clear", "settle"} :
        /\ at' = [at EXCEPT ![l] = to]
        /\ at[l] \in {"mark", "clear"}
  BY DEF Mark, MarkFails, Clear, ClearFails
<1>6. at'[l] = to
  BY <1>3, <1>5
<1>7. /\ stood' \in [Loops -> BOOLEAN] /\ proven' \in [Loops -> Nat]
      /\ \A k \in Loops : Spared(k)
  <2>1. CASE UNCHANGED <<target, stood, proven>>
    BY <1>1, <1>3, <2>1 DEF Spared, Streak
  <2>2. CASE Clear(l)
    <3>1. CASE Alive(l)
      <4>1. Forget(Loops)
        BY <2>2, <3>1 DEF Clear
      <4> QED
        BY <1>1, <4>1, Forgets
    <3>2. CASE ~Alive(l)
      <4>1. Forget({}) /\ target' = target
        BY <2>2, <3>2 DEF Clear, ProbeInv, HandlersOK
      <4> QED
        BY <1>1, <4>1, Forgets
    <3> QED
      BY <3>1, <3>2
  <2> QED
    BY <2>1, <2>2 DEF Mark, MarkFails, ClearFails, history
<1>8. Streak(l)'
  BY <1>1, <1>3, <1>5, <1>6, <1>7 DEF Streak, Spared
<1> QED
  BY <1>1, <1>2, <1>3, <1>4, <1>5, <1>7, <1>8, TaskFrame DEF Places

\* A loop that ends begins anew when it is started again; one that goes on
\* notes whether its streak begins under a target.
LEMMA TurnProbes ==
  ASSUME ProbeInv, NEW l \in Loops, Settle(l) \/ Leave(l) \/ Turn(l)
  PROVE  ProbeInv'
<1> USE DEF captured, world, scanner
<1>1. UNCHANGED <<healthy, target, gate, node, budget, hand, scan, view, ok>>
  BY DEF Settle, Leave, Turn
<1>2. HandlersOK'
  BY <1>1, TaskWorld DEF ProbeInv, HandlersOK
<1>3. /\ at \in [Tasks -> Places] /\ ok \in [Tasks -> BOOLEAN]
      /\ entry \in Loops \cup {None} /\ cancelled \subseteq Loops
      /\ run \in [Loops -> Nat] /\ stood \in [Loops -> BOOLEAN]
      /\ proven \in [Loops -> Nat] /\ target \in BOOLEAN
      /\ \A k \in Loops : Streak(k)
      /\ l \in Tasks
  BY Threshold DEF ProbeInv, ChecksOK, StreakInv, HandlersOK
<1>4. ok' = [ok EXCEPT ![l] = ok[l]] /\ ok[l] \in BOOLEAN
  BY <1>1, <1>3
<1>5. entry' \in Loops \cup {None} /\ cancelled' \subseteq Loops
  BY <1>3 DEF Settle, Leave, Turn
<1>6. CASE Settle(l) \/ Leave(l)
  <2>1. /\ at' = [at EXCEPT ![l] = "off"] /\ run' = [run EXCEPT ![l] = 0]
        /\ Forget({l})
    BY <1>6 DEF Settle, Leave, Gone
  <2>2. /\ at'[l] = "off" /\ run'[l] = 0 /\ run' \in [Loops -> Nat]
        /\ \A k \in Loops \ {l} : run'[k] = run[k]
    BY <1>3, <2>1
  <2>3. /\ stood' \in [Loops -> BOOLEAN] /\ proven' \in [Loops -> Nat]
        /\ stood'[l] = FALSE /\ proven'[l] = 0
        /\ \A k \in Loops \ {l} : Spared(k)
    BY <1>1, <2>1, <2>2, Forgets
  <2>4. Streak(l)'
    BY <2>2, <2>3, Threshold DEF Streak
  <2> QED
    BY <1>1, <1>2, <1>3, <1>4, <1>5, <2>1, <2>2, <2>3, <2>4, TaskFrame DEF Places
<1>7. CASE Turn(l)
  <2>1. /\ at[l] = "top" /\ at' = [at EXCEPT ![l] = "probe"]
        /\ UNCHANGED <<run, proven>>
        /\ stood' = IF run[l] = 0 THEN [stood EXCEPT ![l] = target] ELSE stood
    BY <1>7 DEF Turn
  <2>2. /\ at'[l] = "probe" /\ stood' \in [Loops -> BOOLEAN]
        /\ \A k \in Loops \ {l} : stood'[k] = stood[k]
        /\ run[l] = 0 => stood'[l] = target
        /\ run[l] # 0 => stood'[l] = stood[l]
    BY <1>3, <2>1
  <2>3. \A k \in Loops \ {l} : Spared(k)
    BY <1>1, <1>3, <2>1, <2>2 DEF Spared, Streak
  <2>4. Streak(l)'
    BY <1>1, <1>3, <2>1, <2>2 DEF Streak
  <2> QED
    BY <1>1, <1>2, <1>3, <1>4, <1>5, <2>1, <2>2, <2>3, <2>4, TaskFrame DEF Places
<1> QED
  BY <1>6, <1>7

\* Every step keeps the streaks.
LEMMA ProbeInvariant == Spec => []ProbeInv
<1>1. ProbeInv /\ [Next]_vars => ProbeInv'
  <2> SUFFICES ASSUME ProbeInv, [Next]_vars PROVE ProbeInv'
    OBVIOUS
  <2>1. CASE UNCHANGED vars
    BY <2>1, AwayFrame DEF vars, captured, world, scanner, ProbeInv, HandlersOK,
                           ChecksOK
  <2> QED
    BY <2>1, HandlerProbes, ScanProbes, WorldProbes, CleanupProbes, LookProbes,
       RetestProbes, ReportProbes, EndProbes, TurnProbes
       DEF Next, CheckStep, LoopStep, Surroundings
<1> QED
  BY <1>1, InitProbes, PTL DEF Spec

\* Every variable keeps its type; the counters of a loop stay within
\* EPHEMERAL_CHECKS_HEALTHY_THRESHOLD, whichever loop cancels whom.
THEOREM TypeCorrect == Spec => []TypeOK
  BY ProbeInvariant, ProbeInvTypes, PTL

\* An endpoint whose method was captured before the streak began is lifted
\* only by a loop whose every check saw the method served, for any number of
\* balancers that capture and of loops that clear, mark and cancel each other.
THEOREM TargetCorrect == Spec => TargetIsProven
<1>1. ProbeInv /\ [Next]_vars
        => [\A l \in Loops :
              at[l] = "mark" /\ ~healthy /\ healthy' /\ at'[l] = "clear" /\ stood[l]
              => proven[l] >= HealthyThreshold]_vars
  <2> SUFFICES ASSUME ProbeInv, NEW l \in Loops, at[l] = "mark", stood[l]
               PROVE  proven[l] >= HealthyThreshold
    OBVIOUS
  <2>1. Streak(l) /\ proven[l] \in Nat
    BY DEF ProbeInv, StreakInv, ChecksOK
  <2> QED
    BY <2>1, Threshold DEF Streak
<1> QED
  BY <1>1, ProbeInvariant, PTL DEF Spec, TargetIsProven
===============================================================================
