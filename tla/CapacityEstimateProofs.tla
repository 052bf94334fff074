------------------------ MODULE CapacityEstimateProofs ------------------------
(* What CapacityEstimate promises for any number of handlers and checkers,   *)
(* any windows and any arithmetic of decrease and growth its assumptions     *)
(* allow.                                                                    *)
EXTENDS CapacityEstimate, FiniteSetTheorems, TLAPS

USE LearningAssumption, ActorsAssumption, NothingAssumption

-----------------------------------------------------------------------------
(* The arithmetic                                                            *)

\* Quotients are numbers.
LEMMA Division ==
    ASSUME NEW m \in Nat, NEW n \in Nat \ {0}
    PROVE  m \div n \in Nat
    BY SMT

\* So are products.
LEMMA Product ==
    ASSUME NEW m \in Nat, NEW n \in Nat
    PROVE  m * n \in Nat
    BY SMT

\* The larger of two numbers bounds both.
LEMMA LargerBounds ==
    ASSUME NEW m \in Nat, NEW n \in Nat
    PROVE  /\ Larger(m, n) \in Nat /\ Larger(m, n) >= m /\ Larger(m, n) >= n
           /\ Smaller(m, n) \in Nat
    BY DEF Larger, Smaller

\* An estimate only grows, from a maximum that is at least the floor.
LEMMA EffectiveType ==
    ASSUME NEW r \in Estimate, NEW t \in Nat
    PROVE  Effective(r, t) \in Nat /\ Effective(r, t) >= MinEstimate
<1>1. r.max \in Nat /\ r.max >= MinEstimate /\ r.step \in Nat /\ r.at \in Nat
    BY DEF Estimate
<1>2. CASE t > r.at
  <2>1. t - r.at \in Nat
    BY <1>1, <1>2
  <2> DEFINE k == (t - r.at) \div IncreaseInterval
  <2>2. k \in Nat
    BY <2>1, Division
  <2> HIDE DEF k
  <2>3. k * r.step \in Nat
    BY <1>1, <2>2, Product
  <2>4. Effective(r, t) = r.max + k * r.step
    BY <1>2 DEF Effective, k
  <2>5. QED
    BY <1>1, <2>3, <2>4
<1>3. CASE ~(t > r.at)
    BY <1>1, <1>3 DEF Effective
<1>4. QED
    BY <1>2, <1>3

\* A reduced estimate stays above its floor.
LEMMA ReducedType ==
    ASSUME NEW n \in Nat
    PROVE  Reduced(n) \in Nat /\ Reduced(n) >= MinEstimate
<1>1. n * FactorNum \in Nat /\ FactorDen \in Nat \ {0}
    BY Product
<1>2. (n * FactorNum) \div FactorDen \in Nat
    BY <1>1, Division
<1>3. QED
    BY <1>2, LargerBounds DEF Reduced

\* A decrease yields an estimate with the window and the time it was given.
LEMMA DecreasedType ==
    ASSUME NEW r \in Estimate \cup {None}, NEW seen \in Nat,
           NEW w \in Windows, NEW t \in Nat
    PROVE  /\ Decreased(r, seen, w, t) \in Estimate
           /\ Decreased(r, seen, w, t).window = w
           /\ Decreased(r, seen, w, t).at = t
<1> DEFINE base == IF r = None THEN seen ELSE Smaller(Effective(r, t), seen)
           n == Reduced(base)
           d == [max |-> n, step |-> Larger(1, n \div 10), window |-> w, at |-> t]
<1>1. base \in Nat
    BY EffectiveType, LargerBounds
<1>2. n \in Nat /\ n >= MinEstimate
    BY <1>1, ReducedType
<1>3. Decreased(r, seen, w, t) = d
    BY DEF Decreased
<1> HIDE DEF n
<1>4. n \div 10 \in Nat
    BY <1>2, Division
<1>5. Larger(1, n \div 10) \in Nat /\ Larger(1, n \div 10) >= 1
    BY <1>4, LargerBounds
<1>6. QED
    BY <1>2, <1>3, <1>5 DEF Estimate

-----------------------------------------------------------------------------
(* Types                                                                     *)

\* An actor that has nothing to do has a job, too.
LEMMA IdleType == Idle \in Jobs
    BY DEF Idle, Jobs

\* An actor that changes its job keeps the type of all jobs.
LEMMA BecomesType ==
    ASSUME TypeOK, NEW a \in Actors, NEW j \in Jobs, Becomes(a, j)
    PROVE  job' \in [Actors -> Jobs]
    BY DEF TypeOK, Becomes

\* A ceiling is a number, unless there is none.
LEMMA CeilingType ==
    ASSUME NEW r \in Estimate \cup {None}, NEW t \in Nat
    PROVE  Ceiling(r, t) \in Nat \cup {None}
    BY EffectiveType DEF Ceiling

\* A window is one of the configured ones.
LEMMA WindowType ==
    ASSUME TypeOK, NEW a \in Actors, NEW r \in Estimate \cup {None}
    PROVE  WindowOf(a, r) \in Windows
<1>1. conf[Home[a]] \in Windows
    BY DEF TypeOK
<1>2. QED
    BY <1>1 DEF WindowOf, Estimate

\* What all but three actions leave alone.
Frame == UNCHANGED <<now, conf, deploys, est, history>>

\* A step that leaves the estimate and the time alone keeps the types.
LEMMA FrameType ==
    ASSUME TypeOK, Frame, job' \in [Actors -> Jobs], count' \in [Windows -> Nat],
           basis' \in [Actors -> SUBSET Nat], top' \in {top, None}
    PROVE  TypeOK'
    BY DEF TypeOK, Frame, history

\* What a handler reads before it sends, and what a signal reads.
LEMMA GatingTypes ==
    ASSUME TypeOK, NEW h \in Handlers, NEW blind \in BOOLEAN,
           ReadCeiling(h, blind) \/ Gate(h, blind) \/ Resolve(h, blind)
    PROVE  TypeOK'
<1>0. h \in Actors /\ now \in Nat /\ est \in Estimate \cup {None}
    BY DEF Actors, TypeOK
<1>1. /\ Frame /\ top' \in {top, None}
      /\ count' \in [Windows -> Nat] /\ basis' \in [Actors -> SUBSET Nat]
    BY DEF TypeOK, Frame, ReadCeiling, Gate, Resolve, Loosens
<1>2. CASE ReadCeiling(h, blind)
  <2> DEFINE r == IF blind THEN None ELSE est
             c == Ceiling(r, now)
             w == WindowOf(h, r)
             j == [Idle EXCEPT !.at = "gate", !.ceiling = c, !.window = w]
  <2>1. c \in Nat \cup {None}
    BY <1>0, CeilingType
  <2>2. w \in Windows
    BY <1>0, WindowType
  <2>3. Becomes(h, j)
    BY <1>2 DEF ReadCeiling
  <2> HIDE DEF c, w
  <2>4. j \in Jobs
    BY <2>1, <2>2 DEF Idle, Jobs
  <2>5. QED
    BY <1>0, <1>1, <2>3, <2>4, BecomesType, FrameType
<1>3. CASE Gate(h, blind)
  <2>1. PICK j \in {Idle, [Idle EXCEPT !.at = "resolve"]} : Becomes(h, j)
    BY <1>3 DEF Gate
  <2>2. [Idle EXCEPT !.at = "resolve"] \in Jobs
    BY DEF Idle, Jobs
  <2>3. j \in Jobs
    BY <2>2, IdleType
  <2>4. QED
    BY <1>0, <1>1, <2>1, <2>3, BecomesType, FrameType
<1>4. CASE Resolve(h, blind)
  <2> DEFINE w == WindowOf(h, IF blind THEN None ELSE est)
             j == [Idle EXCEPT !.at = "count", !.blind = blind, !.began = now,
                               !.window = w]
  <2>1. w \in Windows
    BY <1>0, WindowType
  <2>2. Becomes(h, j)
    BY <1>4 DEF Resolve
  <2> HIDE DEF w
  <2>3. j \in Jobs
    BY <1>0, <2>1 DEF Idle, Jobs
  <2>4. QED
    BY <1>0, <1>1, <2>2, <2>3, BecomesType, FrameType
<1>5. QED
    BY <1>2, <1>3, <1>4

\* The end of a request keeps the types.
LEMMA RequestTypes ==
    ASSUME TypeOK, NEW h \in Handlers, Count(h) \/ Answered(h)
    PROVE  TypeOK'
<1>1. /\ h \in Actors /\ Frame /\ top' \in {top, None}
      /\ basis' \in [Actors -> SUBSET Nat]
    BY DEF Actors, TypeOK, Frame, Count, Answered
<1>2. count' \in [Windows -> Nat]
  <2>1. CASE count' = count
    BY <2>1 DEF TypeOK
  <2>2. CASE count' = [count EXCEPT ![job[h].window] = @ + 1]
    <3>1. count \in [Windows -> Nat]
        BY DEF TypeOK
    <3>2. \A v \in Windows : count'[v] \in Nat
        BY <2>2, <3>1
    <3>3. QED
        BY <2>2, <3>1, <3>2
  <2>3. QED
    BY <2>1, <2>2 DEF Count, Answered
<1>3. PICK j \in {Idle, [Idle EXCEPT !.at = "sent"]} : Becomes(h, j)
    BY DEF Count, Answered
<1>4. [Idle EXCEPT !.at = "sent"] \in Jobs
    BY DEF Idle, Jobs
<1>5. j \in Jobs
    BY <1>4, IdleType
<1>6. QED
    BY <1>1, <1>2, <1>3, <1>5, BecomesType, FrameType

\* So do the reads of a signal.
LEMMA SignalTypes ==
    ASSUME TypeOK, NEW a \in Actors,
           Hit(a) \/ ReadEstimate(a) \/ ReadCount(a) \/ GiveUp(a)
    PROVE  TypeOK'
<1>0. /\ job[a] \in Jobs /\ now \in Nat /\ est \in Estimate \cup {None}
      /\ count \in [Windows -> Nat]
    BY DEF TypeOK
<1>1. /\ Frame /\ top' \in {top, None} /\ count' \in [Windows -> Nat]
      /\ basis' \in [Actors -> SUBSET Nat]
    BY DEF TypeOK, Frame, Hit, ReadEstimate, ReadCount, GiveUp
<1>2. PICK j \in Jobs : Becomes(a, j)
  <2>1. CASE Hit(a)
    <3>1. [Idle EXCEPT !.at = "learn", !.began = now] \in Jobs
        BY <1>0 DEF Idle, Jobs
    <3>2. QED
        BY <2>1, <3>1 DEF Hit
  <2>2. CASE ReadEstimate(a)
    <3>1. [job[a] EXCEPT !.at = "weigh", !.read = est] \in Jobs
        BY <1>0 DEF Jobs
    <3>2. QED
        BY <2>2, <3>1, IdleType DEF ReadEstimate
  <2>3. CASE ReadCount(a)
    <3>1. job[a].read \in Estimate \cup {None}
        BY <1>0 DEF Jobs
    <3> DEFINE n == count[WindowOf(a, job[a].read)]
    <3>2. n \in Nat
        BY <1>0, <3>1, WindowType
    <3>3. Becomes(a, [job[a] EXCEPT !.at = "write", !.seen = n])
        BY <2>3 DEF ReadCount
    <3> HIDE DEF n
    <3>4. [job[a] EXCEPT !.at = "write", !.seen = n] \in Jobs
        BY <1>0, <3>2 DEF Jobs
    <3>5. QED
        BY <3>3, <3>4
  <2>4. CASE GiveUp(a)
    BY <2>4, IdleType DEF GiveUp
  <2>5. QED
    BY <2>1, <2>2, <2>3, <2>4
<1>3. QED
    BY <1>1, <1>2, BecomesType, FrameType

\* What a write leaves behind.
LEMMA WriteMakes ==
    ASSUME TypeOK, NEW a \in Actors, Write(a)
    PROVE  /\ est' \in Estimate
           /\ est'.window = WindowOf(a, job[a].read) /\ est'.at = job[a].began
           /\ IF est # None /\ est.window = est'.window
              THEN /\ since' = since /\ raced' = raced
                   /\ top # None => top' = Larger(top, Effective(est', now))
                   /\ top = None => top' = None
              ELSE since' = now /\ raced' = (raced \/ est # None) /\ top' = None
<1>1. job[a] \in Jobs
    BY DEF TypeOK
<1>2. /\ job[a].read \in Estimate \cup {None}
      /\ job[a].seen \in Nat /\ job[a].began \in Nat
    BY <1>1 DEF Jobs
<1>3. WindowOf(a, job[a].read) \in Windows
    BY <1>2, WindowType
<1>4. PICK r \in Estimate \cup {None}, seen \in Nat, w \in Windows, t \in Nat :
        /\ r = job[a].read /\ seen = job[a].seen /\ w = WindowOf(a, job[a].read)
        /\ t = job[a].began
    BY <1>2, <1>3
<1> DEFINE d == Decreased(r, seen, w, t)
<1>5. d \in Estimate /\ d.window = w /\ d.at = t
    BY DecreasedType
<1>6. /\ est' = d
      /\ top' = IF (est # None /\ est.window = d.window) /\ top # None
                THEN Larger(top, Effective(d, now)) ELSE None
      /\ since' = IF est # None /\ est.window = d.window THEN since ELSE now
      /\ raced' = (raced \/ (est # None /\ ~(est # None /\ est.window = d.window)))
    BY <1>4 DEF Write
<1> HIDE DEF d
<1>7. /\ est' \in Estimate
      /\ est'.window = WindowOf(a, job[a].read) /\ est'.at = job[a].began
    BY <1>4, <1>5, <1>6
<1>8. CASE est # None /\ est.window = est'.window
  <2>1. since' = since /\ top' = IF top # None THEN Larger(top, Effective(est', now)) ELSE None
    BY <1>6, <1>8
  <2>2. raced' = raced
    BY <1>6, <1>8 DEF TypeOK
  <2>3. QED
    BY <1>7, <1>8, <2>1, <2>2
<1>9. CASE ~(est # None /\ est.window = est'.window)
  <2>1. since' = now /\ top' = None
    BY <1>6, <1>9
  <2>2. raced' = (raced \/ est # None)
    BY <1>6, <1>9 DEF TypeOK
  <2>3. QED
    BY <1>7, <1>9, <2>1, <2>2
<1>10. QED
    BY <1>8, <1>9

\* Its write keeps them.
LEMMA WriteTypes ==
    ASSUME TypeOK, NEW a \in Actors, Write(a)
    PROVE  TypeOK'
<1>1. est' \in Estimate
    BY WriteMakes
<1>2. job' \in [Actors -> Jobs]
    BY IdleType, BecomesType DEF Write
<1>3. job[a].began \in Nat
    BY DEF TypeOK, Jobs
<1>4. trail' \subseteq Nat /\ basis' \in [Actors -> SUBSET Nat]
    BY <1>3 DEF Write, TypeOK
<1>5. now \in Nat
    BY DEF TypeOK
<1>6. Effective(est', now) \in Nat
    BY <1>1, <1>5, EffectiveType
<1>7. top' \in Nat \cup {None}
  <2>1. \/ top' = None
        \/ top # None /\ top' = Larger(top, Effective(est', now))
    BY WriteMakes
  <2>2. QED
    BY <1>6, <2>1, LargerBounds DEF TypeOK
<1>8. since' \in Nat /\ raced' \in BOOLEAN
    BY <1>5, WriteMakes DEF TypeOK
<1>9. UNCHANGED <<now, conf, deploys, count>>
    BY DEF Write
<1>10. QED
    BY <1>1, <1>2, <1>4, <1>7, <1>8, <1>9 DEF TypeOK

\* The clock: the ceiling of the next second, and the counts it starts with.
LEMMA TickMakes ==
    ASSUME TypeOK, Tick
    PROVE  /\ now' \in Nat /\ count' \in [Windows -> Nat]
           /\ est # None => Effective(est, now') \in Nat /\ Effective(est, now') >= 1
<1>1. now' \in Nat
    BY DEF TypeOK, Tick
<1>2. count' \in [Windows -> Nat]
    BY DEF TypeOK, Tick
<1>3. est # None => Effective(est, now') \in Nat /\ Effective(est, now') >= MinEstimate
    BY <1>1, EffectiveType DEF TypeOK
<1>4. QED
    BY <1>1, <1>2, <1>3

\* The clock keeps them.
LEMMA TickTypes ==
    ASSUME TypeOK, Tick
    PROVE  TypeOK'
<1>1. now' \in 0..MaxTime
    BY DEF TypeOK, Tick
<1>2. top' \in Nat \cup {None}
    BY TickMakes, LargerBounds DEF Tick, TypeOK
<1>3. UNCHANGED <<conf, deploys, est, job, basis, history>> /\ count' \in [Windows -> Nat]
    BY TickMakes DEF Tick
<1>4. QED
    BY <1>1, <1>2, <1>3 DEF TypeOK, history

\* Every step keeps them.
LEMMA TypeStep ==
    ASSUME TypeOK, [Next]_vars
    PROVE  TypeOK'
<1>1. CASE \E h \in Handlers, blind \in BOOLEAN :
              ReadCeiling(h, blind) \/ Gate(h, blind) \/ Resolve(h, blind)
    BY <1>1, GatingTypes
<1>2. CASE \E h \in Handlers : Count(h) \/ Answered(h)
    BY <1>2, RequestTypes
<1>3. CASE \E a \in Actors : Hit(a) \/ ReadEstimate(a) \/ ReadCount(a) \/ GiveUp(a)
    BY <1>3, SignalTypes
<1>4. CASE \E a \in Actors : Write(a)
    BY <1>4, WriteTypes
<1>5. CASE Tick
    BY <1>5, TickTypes
<1>6. ASSUME NEW p \in Processes, Redeploy(p)
      PROVE  TypeOK'
  <2>1. conf' \in [Processes -> Windows]
    BY <1>6 DEF Redeploy, TypeOK
  <2>2. job' \in [Actors -> Jobs] /\ basis' \in [Actors -> SUBSET Nat]
    BY <1>6, IdleType DEF Redeploy, TypeOK
  <2>3. UNCHANGED <<now, est, count, top, history>> /\ deploys' \in 0..MaxDeploys
    BY <1>6 DEF Redeploy, TypeOK
  <2>4. QED
    BY <2>1, <2>2, <2>3 DEF TypeOK, history
<1>7. CASE UNCHANGED vars
    BY <1>7 DEF vars, TypeOK
<1>8. QED
    BY <1>1, <1>2, <1>3, <1>4, <1>5, <1>6, <1>7 DEF Next

\* The types hold: in particular no ceiling learned is below min_estimate, so
\* that none is zero, which the gate would take for no ceiling at all.
THEOREM TypeCorrect == Spec => []TypeOK
<1>1. Init => TypeOK
  <2> SUFFICES ASSUME Init
               PROVE  TypeOK
    OBVIOUS
  <2>1. job \in [Actors -> Jobs] /\ basis \in [Actors -> SUBSET Nat]
    BY IdleType DEF Init
  <2>2. conf \in [Processes -> Windows] /\ count \in [Windows -> Nat]
    BY DEF Init
  <2>3. now \in 0..MaxTime /\ deploys \in 0..MaxDeploys /\ since \in Nat
    BY DEF Init
  <2>4. /\ est \in Estimate \cup {None} /\ top \in Nat \cup {None}
        /\ trail \subseteq Nat /\ raced \in BOOLEAN
    BY DEF Init
  <2>5. QED
    BY <2>1, <2>2, <2>3, <2>4 DEF TypeOK
<1>2. TypeOK /\ [Next]_vars => TypeOK'
    BY TypeStep
<1>3. QED
    BY <1>1, <1>2, PTL DEF Spec

-----------------------------------------------------------------------------
(* The window of the estimate.  Whoever began a signal, or asked where to    *)
(* count, after the estimate got its window, works with that window.         *)

KnowsWindow(a) ==
    LET j == job[a] IN
    /\ j.began <= now
    /\ j.at \in {"weigh", "write"} /\ est # None /\ since < j.began =>
          j.read # None /\ j.read.window = est.window
    /\ j.at = "count" /\ ~j.blind =>
          /\ est = None => j.window = conf[Home[a]]
          /\ /\ est # None
             /\ since < j.began \/ (~raced /\ conf[Home[a]] = est.window)
             => j.window = est.window

WindowInv == since <= now /\ \A a \in Actors : KnowsWindow(a)

\* What a step may do to the estimate: leave it, give it another value for the
\* same window, or another window as from now.
WindowMoves ==
    /\ conf' = conf /\ now' = now
    /\ \/ UNCHANGED <<est, since, raced>>
       \/ /\ est # None /\ est' # None /\ est'.window = est.window
          /\ UNCHANGED <<since, raced>>
       \/ est' # None /\ since' = now /\ (est = None \/ raced' = TRUE)

\* Only the actor that moves need be looked at.
LEMMA OthersKnow ==
    ASSUME TypeOK, WindowInv, WindowMoves, raced => raced',
           NEW a \in Actors, NEW j, Becomes(a, j), KnowsWindow(a)'
    PROVE  WindowInv'
<1>1. since' <= now'
    BY DEF WindowInv, WindowMoves, TypeOK
<1>2. ASSUME NEW b \in Actors, b # a
      PROVE  KnowsWindow(b)'
  <2>1. job'[b] = job[b]
    BY <1>2 DEF Becomes, TypeOK
  <2>2. KnowsWindow(b)
    BY DEF WindowInv
  <2>3. job[b].began \in Nat /\ now \in Nat
    BY DEF TypeOK, Jobs
  <2>4. CASE UNCHANGED <<est, since, raced>>
    BY <2>1, <2>2, <2>4 DEF KnowsWindow, WindowMoves
  <2>5. CASE /\ est # None /\ est' # None /\ est'.window = est.window
             /\ UNCHANGED <<since, raced>>
    BY <2>1, <2>2, <2>5 DEF KnowsWindow, WindowMoves
  <2>6. CASE est' # None /\ since' = now /\ (est = None \/ raced' = TRUE)
    <3>1. job[b].began <= now
        BY <2>2 DEF KnowsWindow
    <3>2. ~(since' < job[b].began)
        BY <2>3, <2>6, <3>1
    <3>3. QED
        BY <2>1, <2>2, <2>6, <3>1, <3>2 DEF KnowsWindow, WindowMoves
  <2>7. QED
    BY <2>4, <2>5, <2>6 DEF WindowMoves
<1>3. QED
    BY <1>1, <1>2 DEF WindowInv

\* So too if it moves to a place where nothing it has read matters.
LEMMA ForgetfulStep ==
    ASSUME TypeOK, WindowInv, WindowMoves, raced => raced',
           NEW a \in Actors, NEW j, Becomes(a, j),
           j.at \notin {"count", "weigh", "write"}, j.began \in {0, now}
    PROVE  WindowInv'
<1>1. job'[a] = j
    BY DEF Becomes, TypeOK
<1>2. now' = now /\ now \in Nat
    BY DEF WindowMoves, TypeOK
<1>3. KnowsWindow(a)'
    BY <1>1, <1>2 DEF KnowsWindow
<1>4. QED
    BY <1>3, OthersKnow

\* A step that leaves the estimate alone is one of these.
LEMMA FrameMoves ==
    ASSUME Frame
    PROVE  WindowMoves /\ (raced => raced')
    BY DEF Frame, WindowMoves, history

\* A handler that can read the estimate counts in its window.
LEMMA ResolveWindow ==
    ASSUME TypeOK, WindowInv, NEW h \in Handlers, NEW blind \in BOOLEAN,
           Resolve(h, blind)
    PROVE  WindowInv'
<1> DEFINE w == WindowOf(h, IF blind THEN None ELSE est)
           j == [Idle EXCEPT !.at = "count", !.blind = blind, !.began = now,
                             !.window = w]
<1>1. Frame /\ Becomes(h, j) /\ h \in Actors
    BY DEF Resolve, Frame, Actors
<1>2. job'[h] = j
    BY <1>1 DEF Becomes, TypeOK
<1>3. ~blind => IF est = None THEN w = conf[Home[h]] ELSE w = est.window
    BY DEF WindowOf
<1> HIDE DEF w
<1>4. j.at = "count" /\ j.blind = blind /\ j.window = w /\ j.began = now
    BY DEF Idle
<1> HIDE DEF j
<1>5. /\ est' = est /\ conf' = conf /\ now' = now
    BY <1>1 DEF Frame
<1>6. now \in Nat
    BY DEF TypeOK
<1>7. KnowsWindow(h)'
    BY <1>2, <1>3, <1>4, <1>5, <1>6 DEF KnowsWindow
<1>8. QED
    BY <1>1, <1>7, OthersKnow, FrameMoves

\* An actor that reads the estimate to decrease it works with its window.
LEMMA ReadEstimateWindow ==
    ASSUME TypeOK, WindowInv, NEW a \in Actors, ReadEstimate(a)
    PROVE  WindowInv'
<1>1. Frame
    BY DEF ReadEstimate, Frame
<1>2. CASE Becomes(a, Idle)
    BY <1>1, <1>2, ForgetfulStep, FrameMoves DEF Idle
<1> DEFINE j == [job[a] EXCEPT !.at = "weigh", !.read = est]
<1>3. CASE Becomes(a, j)
  <2>1. job'[a] = j
    BY <1>3 DEF Becomes, TypeOK
  <2>2. job[a] \in Jobs
    BY DEF TypeOK
  <2>3. j.at = "weigh" /\ j.read = est /\ j.began = job[a].began
    BY <2>2 DEF Jobs
  <2> HIDE DEF j
  <2>4. est' = est /\ now' = now /\ job[a].began <= now
    BY <1>1 DEF Frame, WindowInv, KnowsWindow
  <2>5. KnowsWindow(a)'
    BY <2>1, <2>3, <2>4 DEF KnowsWindow
  <2>6. QED
    BY <1>1, <1>3, <2>5, OthersKnow, FrameMoves
<1>4. QED
    BY <1>2, <1>3 DEF ReadEstimate

\* So does one that reads the count.
LEMMA ReadCountWindow ==
    ASSUME TypeOK, WindowInv, NEW a \in Actors, ReadCount(a)
    PROVE  WindowInv'
<1> DEFINE n == count[WindowOf(a, job[a].read)]
           j == [job[a] EXCEPT !.at = "write", !.seen = n]
<1>1. Frame /\ Becomes(a, j) /\ job[a].at = "weigh"
    BY DEF ReadCount, Frame
<1>2. job'[a] = j
    BY <1>1 DEF Becomes, TypeOK
<1> HIDE DEF n
<1>3. job[a] \in Jobs
    BY DEF TypeOK
<1>4. j.at = "write" /\ j.read = job[a].read /\ j.began = job[a].began
    BY <1>3 DEF Jobs
<1> HIDE DEF j
<1>5. est' = est /\ since' = since /\ now' = now
    BY <1>1 DEF Frame, history
<1>6. KnowsWindow(a)
    BY DEF WindowInv
<1>7. KnowsWindow(a)'
    BY <1>1, <1>2, <1>4, <1>5, <1>6 DEF KnowsWindow
<1>8. QED
    BY <1>1, <1>7, OthersKnow, FrameMoves

\* A write gives the estimate the window it has, or another one as from now.
LEMMA WriteMoves ==
    ASSUME TypeOK, NEW a \in Actors, Write(a)
    PROVE  WindowMoves /\ (raced => raced')
<1>1. est' # None /\ conf' = conf /\ now' = now
    BY WriteMakes DEF Write
<1>2. CASE est # None /\ est.window = est'.window
    BY <1>1, <1>2, WriteMakes DEF WindowMoves
<1>3. CASE ~(est # None /\ est.window = est'.window)
  <2>1. since' = now /\ raced' = (raced \/ est # None)
    BY <1>3, WriteMakes
  <2>2. QED
    BY <1>1, <2>1 DEF WindowMoves
<1>4. QED
    BY <1>2, <1>3

\* A process that restarts leaves the handlers of the others what they know.
LEMMA RedeployWindow ==
    ASSUME TypeOK, WindowInv, NEW p \in Processes, Redeploy(p)
    PROVE  WindowInv'
<1>1. UNCHANGED <<now, est, since, raced>>
    BY DEF Redeploy, history
<1>2. ASSUME NEW a \in Actors
      PROVE  KnowsWindow(a)'
  <2>1. CASE Home[a] = p
    <3>1. job'[a].at = "idle" /\ job'[a].began = 0
        BY <2>1 DEF Redeploy, Idle
    <3>2. now \in Nat
        BY DEF TypeOK
    <3>3. QED
        BY <1>1, <3>1, <3>2 DEF KnowsWindow
  <2>2. CASE Home[a] # p
    <3>1. job'[a] = job[a]
        BY <2>2 DEF Redeploy
    <3>2. conf'[Home[a]] = conf[Home[a]]
        BY <2>2 DEF Redeploy, TypeOK
    <3>3. KnowsWindow(a)
        BY DEF WindowInv
    <3>4. QED
        BY <1>1, <3>1, <3>2, <3>3 DEF KnowsWindow
  <2>3. QED
    BY <2>1, <2>2
<1>3. QED
    BY <1>1, <1>2 DEF WindowInv

\* Every step keeps what they know.
LEMMA WindowStep ==
    ASSUME TypeOK, WindowInv, [Next]_vars
    PROVE  WindowInv'
<1>1. ASSUME NEW h \in Handlers, NEW blind \in BOOLEAN, ReadCeiling(h, blind)
      PROVE  WindowInv'
  <2> DEFINE c == Ceiling(IF blind THEN None ELSE est, now)
             w == WindowOf(h, IF blind THEN None ELSE est)
             j == [Idle EXCEPT !.at = "gate", !.ceiling = c, !.window = w]
  <2>1. Frame /\ h \in Actors /\ Becomes(h, j)
    BY <1>1 DEF ReadCeiling, Frame, Actors
  <2> HIDE DEF c, w
  <2>2. j.at = "gate" /\ j.began = 0
    BY DEF Idle
  <2> HIDE DEF j
  <2>3. QED
    BY <2>1, <2>2, ForgetfulStep, FrameMoves
<1>2. ASSUME NEW h \in Handlers, NEW blind \in BOOLEAN, Gate(h, blind)
      PROVE  WindowInv'
  <2>1. Frame /\ h \in Actors
    BY <1>2 DEF Gate, Frame, Actors
  <2>2. PICK j \in {Idle, [Idle EXCEPT !.at = "resolve"]} : Becomes(h, j)
    BY <1>2 DEF Gate
  <2>3. j.at \in {"idle", "resolve"} /\ j.began = 0
    BY DEF Idle
  <2>4. QED
    BY <2>1, <2>2, <2>3, ForgetfulStep, FrameMoves
<1>3. ASSUME NEW h \in Handlers, NEW blind \in BOOLEAN, Resolve(h, blind)
      PROVE  WindowInv'
    BY <1>3, ResolveWindow
<1>4. ASSUME NEW h \in Handlers, Count(h) \/ Answered(h)
      PROVE  WindowInv'
  <2>1. Frame /\ h \in Actors
    BY <1>4 DEF Count, Answered, Frame, Actors
  <2>2. PICK j \in {Idle, [Idle EXCEPT !.at = "sent"]} : Becomes(h, j)
    BY <1>4 DEF Count, Answered
  <2>3. j.at \in {"idle", "sent"} /\ j.began = 0
    BY DEF Idle
  <2>4. QED
    BY <2>1, <2>2, <2>3, ForgetfulStep, FrameMoves
<1>5. ASSUME NEW a \in Actors, Hit(a) \/ GiveUp(a)
      PROVE  WindowInv'
  <2>1. Frame
    BY <1>5 DEF Hit, GiveUp, Frame
  <2>2. PICK j \in {Idle, [Idle EXCEPT !.at = "learn", !.began = now]} : Becomes(a, j)
    BY <1>5 DEF Hit, GiveUp
  <2>3. j.at \in {"idle", "learn"} /\ j.began \in {0, now}
    <3>1. CASE j = Idle
        BY <3>1 DEF Idle
    <3>2. CASE j = [Idle EXCEPT !.at = "learn", !.began = now]
        BY <3>2 DEF Idle
    <3>3. QED
        BY <3>1, <3>2
  <2>4. QED
    BY <2>1, <2>2, <2>3, ForgetfulStep, FrameMoves
<1>6. ASSUME NEW a \in Actors, ReadEstimate(a)
      PROVE  WindowInv'
    BY <1>6, ReadEstimateWindow
<1>7. ASSUME NEW a \in Actors, ReadCount(a)
      PROVE  WindowInv'
    BY <1>7, ReadCountWindow
<1>8. ASSUME NEW a \in Actors, Write(a)
      PROVE  WindowInv'
  <2>1. Becomes(a, Idle) /\ Idle.at = "idle" /\ Idle.began = 0
    BY <1>8 DEF Write, Idle
  <2>2. QED
    BY <1>8, <2>1, ForgetfulStep, WriteMoves
<1>9. CASE Tick
  <2>1. now' = now + 1 /\ UNCHANGED <<conf, est, job, since, raced>>
    BY <1>9 DEF Tick, history
  <2>2. now \in Nat /\ since \in Nat /\ \A a \in Actors : job[a].began \in Nat
    BY DEF TypeOK, Jobs
  <2>3. QED
    BY <2>1, <2>2 DEF WindowInv, KnowsWindow
<1>10. ASSUME NEW p \in Processes, Redeploy(p)
       PROVE  WindowInv'
    BY <1>10, RedeployWindow
<1>11. CASE UNCHANGED vars
    BY <1>11 DEF vars, WindowInv, KnowsWindow
<1>12. QED
    BY <1>1, <1>2, <1>3, <1>4, <1>5, <1>6, <1>7, <1>8, <1>9, <1>10, <1>11 DEF Next

\* The types and the window hold of every behaviour.
LEMMA WindowHolds == Spec => [](TypeOK /\ WindowInv)
<1>1. Init => WindowInv
  <2> SUFFICES ASSUME Init
               PROVE  WindowInv
    OBVIOUS
  <2>1. \A a \in Actors : job[a].at = "idle" /\ job[a].began = 0
    BY DEF Init, Idle
  <2>2. now = 0 /\ since = 0
    BY DEF Init
  <2>3. QED
    BY <2>1, <2>2 DEF WindowInv, KnowsWindow
<1>2. WindowInv /\ TypeOK /\ [Next]_vars => WindowInv'
    BY WindowStep
<1>3. QED
    BY <1>1, <1>2, TypeCorrect, PTL DEF Spec

\* A window that has stood for longer than the calls of one signal may take
\* stands for ever: however many processes write, and whatever each of them is
\* configured with by then.  The racing first writes that may replace it are
\* over, for what is written then was read while it stood.
THEOREM FrozenCorrect == Spec => WindowFrozen
<1>1. TypeOK /\ WindowInv /\ [Next]_vars
        => [est # None /\ now - since > CallTimeout
              => est' # None /\ est'.window = est.window]_vars
  <2> SUFFICES ASSUME TypeOK, WindowInv, [Next]_vars, est # None,
                      now - since > CallTimeout
               PROVE  est' # None /\ est'.window = est.window
    OBVIOUS
  <2>1. ASSUME NEW a \in Actors, Write(a)
        PROVE  est' # None /\ est'.window = est.window
    <3>1. job[a].at = "write" /\ now - job[a].began <= CallTimeout
        BY <2>1 DEF Write, InTime
    <3>2. /\ now \in Nat /\ since \in Nat /\ CallTimeout \in Nat
          /\ job[a].began \in Nat
        BY DEF TypeOK, Jobs
    <3>3. since < job[a].began
        BY <3>1, <3>2
    <3>4. job[a].read # None /\ job[a].read.window = est.window
        BY <3>1, <3>3 DEF WindowInv, KnowsWindow
    <3>5. QED
        BY <2>1, <3>4, WriteMakes DEF WindowOf
  <2>2. est' = est \/ \E a \in Actors : Write(a)
    BY DEF Next, ReadCeiling, Gate, Resolve, Count, Answered, Hit, ReadEstimate,
                ReadCount, GiveUp, Tick, Redeploy, vars
  <2>3. QED
    BY <2>1, <2>2
<1>2. QED
    BY <1>1, WindowHolds, PTL DEF Spec, WindowFrozen

\* A request whose handler could read the estimate is counted in the window
\* the gates watch, but for the two exceptions the property names.
THEOREM CountedCorrect == Spec => []CountsWhereWatched
<1>1. WindowInv => CountsWhereWatched
    BY DEF WindowInv, KnowsWindow, CountsWhereWatched, Actors
<1>2. QED
    BY <1>1, WindowHolds, PTL

-----------------------------------------------------------------------------
(* The decreases an estimate compounds.  The last write wins, so what is     *)
(* said of the estimate in Valkey must be said of every copy from which an   *)
(* actor may still derive a new one.                                         *)

Spaced(ts, w) == \A s, t \in ts : s < t => t - s >= w

\* What is known of an estimate and the times of its decreases.
Spread(r, ts) ==
    IF r = None THEN ts = {}
    ELSE Spaced(ts, r.window) /\ \A t \in ts : t <= r.at

Weighed(a) ==
    LET j == job[a] IN
    j.at \in {"weigh", "write"} =>
        /\ Spread(j.read, basis[a])
        /\ j.read # None => j.began - j.read.at >= j.read.window

SpreadInv == Spread(est, trail) /\ \A a \in Actors : Weighed(a)

\* One decrease more, a window after the last.
LEMMA OneMoreSpread ==
    ASSUME NEW r \in Estimate \cup {None}, NEW ts \in SUBSET Nat, NEW t \in Nat,
           Spread(r, ts), r # None => t - r.at >= r.window,
           NEW e \in Estimate, e.at = t, r # None => e.window = r.window
    PROVE  Spread(e, ts \cup {t})
<1>1. e # None
    OBVIOUS
<1>2. CASE r = None
  <2>1. ts = {}
    BY <1>2 DEF Spread
  <2>2. ts \cup {t} = {t}
    BY <2>1
  <2>3. Spaced({t}, e.window) /\ t <= e.at
    BY DEF Spaced
  <2>4. QED
    BY <1>1, <2>2, <2>3 DEF Spread
<1>3. CASE r # None
  <2>1. r.at \in Nat /\ r.window \in Nat
    BY <1>3 DEF Estimate
  <2>2. \A s \in ts : s \in Nat /\ s <= r.at
    BY <1>3 DEF Spread
  <2>3. Spaced(ts, r.window)
    BY <1>3 DEF Spread
  <2>4. \A s \in ts : t - s >= r.window /\ s <= t
    BY <1>3, <2>1, <2>2
  <2>5. Spaced(ts \cup {t}, r.window)
    BY <2>1, <2>2, <2>3, <2>4 DEF Spaced
  <2>6. QED
    BY <1>1, <1>3, <2>4, <2>5 DEF Spread
<1>4. QED
    BY <1>2, <1>3

\* Nothing changes but the place of one actor, which holds what it held, or
\* nothing that matters.
LEMMA QuietSpread ==
    ASSUME TypeOK, SpreadInv, NEW a \in Actors, NEW j, Becomes(a, j),
           est' = est, trail' = trail,
           \A b \in Actors \ {a} : basis'[b] = basis[b], Weighed(a)'
    PROVE  SpreadInv'
<1>1. Spread(est, trail)'
    BY DEF SpreadInv, Spread
<1>2. ASSUME NEW b \in Actors, b # a
      PROVE  Weighed(b)'
  <2>1. job'[b] = job[b] /\ basis'[b] = basis[b]
    BY <1>2 DEF Becomes, TypeOK
  <2>2. QED
    BY <2>1 DEF SpreadInv, Weighed
<1>3. QED
    BY <1>1, <1>2 DEF SpreadInv

\* A copy that is read is spread as the estimate is.
LEMMA ReadEstimateSpread ==
    ASSUME TypeOK, SpreadInv, NEW a \in Actors, ReadEstimate(a)
    PROVE  SpreadInv'
<1>1. est' = est /\ trail' = trail /\ \A b \in Actors \ {a} : basis'[b] = basis[b]
    BY DEF ReadEstimate, TypeOK, history
<1>2. CASE Becomes(a, Idle)
  <2>1. Weighed(a)'
    BY <1>2 DEF Becomes, TypeOK, Weighed, Idle
  <2>2. QED
    BY <1>1, <1>2, <2>1, QuietSpread
<1> DEFINE j == [job[a] EXCEPT !.at = "weigh", !.read = est]
<1>3. CASE /\ Cooled(est, WindowOf(a, est), job[a].began) /\ Becomes(a, j)
           /\ basis' = [basis EXCEPT ![a] = trail]
  <2>1. job'[a] = j /\ basis'[a] = trail
    BY <1>3 DEF Becomes, TypeOK
  <2>2. job[a] \in Jobs
    BY DEF TypeOK
  <2>3. j.at = "weigh" /\ j.read = est /\ j.began = job[a].began
    BY <2>2 DEF Jobs
  <2> HIDE DEF j
  <2>4. est # None => job[a].began - est.at >= est.window
    BY <1>3 DEF Cooled, WindowOf
  <2>5. Spread(est, trail)
    BY DEF SpreadInv
  <2>6. Weighed(a)'
    BY <2>1, <2>3, <2>4, <2>5 DEF Weighed
  <2>7. QED
    BY <1>1, <1>3, <2>6, QuietSpread
<1>4. QED
    BY <1>2, <1>3 DEF ReadEstimate

\* Reading the count does not change that.
LEMMA ReadCountSpread ==
    ASSUME TypeOK, SpreadInv, NEW a \in Actors, ReadCount(a)
    PROVE  SpreadInv'
<1> DEFINE n == count[WindowOf(a, job[a].read)]
           j == [job[a] EXCEPT !.at = "write", !.seen = n]
<1>1. /\ Becomes(a, j) /\ job[a].at = "weigh"
      /\ est' = est /\ trail' = trail /\ basis' = basis
    BY DEF ReadCount, history
<1>2. job'[a] = j
    BY <1>1 DEF Becomes, TypeOK
<1> HIDE DEF n
<1>3. job[a] \in Jobs
    BY DEF TypeOK
<1>4. j.at = "write" /\ j.read = job[a].read /\ j.began = job[a].began
    BY <1>3 DEF Jobs
<1> HIDE DEF j
<1>5. Weighed(a)
    BY DEF SpreadInv
<1>6. Weighed(a)'
    BY <1>1, <1>2, <1>4, <1>5 DEF Weighed
<1>7. QED
    BY <1>1, <1>6, QuietSpread

\* A decrease is written only where one is due.
LEMMA WriteSpread ==
    ASSUME TypeOK, SpreadInv, NEW a \in Actors, Write(a)
    PROVE  SpreadInv'
<1>1. est' \in Estimate /\ est'.at = job[a].began /\ est'.window = WindowOf(a, job[a].read)
    BY WriteMakes
<1>2. job[a].read \in Estimate \cup {None} /\ job[a].began \in Nat /\ basis[a] \in SUBSET Nat
    BY DEF TypeOK, Jobs
<1>3. job[a].at = "write" /\ trail' = basis[a] \cup {job[a].began}
    BY DEF Write
<1>4. /\ Spread(job[a].read, basis[a])
      /\ job[a].read # None => job[a].began - job[a].read.at >= job[a].read.window
    BY <1>3 DEF SpreadInv, Weighed
<1>5. job[a].read # None => est'.window = job[a].read.window
    BY <1>1 DEF WindowOf
<1>6. PICK r \in Estimate \cup {None}, t \in Nat, ts \in SUBSET Nat, e \in Estimate :
        r = job[a].read /\ t = job[a].began /\ ts = basis[a] /\ e = est'
    BY <1>1, <1>2
<1>7. Spread(e, ts \cup {t})
    BY <1>1, <1>4, <1>5, <1>6, OneMoreSpread
<1>8. Spread(est, trail)'
    BY <1>3, <1>6, <1>7 DEF Spread
<1>9. ASSUME NEW b \in Actors
      PROVE  Weighed(b)'
  <2>1. CASE b = a
    <3>1. job'[b].at = "idle"
        BY <2>1 DEF Write, Becomes, TypeOK, Idle
    <3>2. QED
        BY <3>1 DEF Weighed
  <2>2. CASE b # a
    <3>1. job'[b] = job[b] /\ basis'[b] = basis[b]
        BY <2>2 DEF Write, Becomes, TypeOK
    <3>2. QED
        BY <3>1 DEF SpreadInv, Weighed
  <2>3. QED
    BY <2>1, <2>2
<1>10. QED
    BY <1>8, <1>9 DEF SpreadInv

\* Requests on their way touch nothing of this.
LEMMA RequestSpread ==
    ASSUME TypeOK, SpreadInv, NEW a \in Actors, NEW j, Becomes(a, j),
           j.at \notin {"weigh", "write"},
           est' = est, trail' = trail, \A b \in Actors \ {a} : basis'[b] = basis[b]
    PROVE  SpreadInv'
<1>1. Weighed(a)'
    BY DEF Becomes, TypeOK, Weighed
<1>2. QED
    BY <1>1, QuietSpread

\* Where such an actor goes.
LEMMA Elsewhere ==
    ASSUME NEW a \in Actors,
           \/ a \in Handlers /\ \E blind \in BOOLEAN :
                 ReadCeiling(a, blind) \/ Gate(a, blind) \/ Resolve(a, blind)
           \/ a \in Handlers /\ (Count(a) \/ Answered(a))
           \/ Hit(a) \/ GiveUp(a)
    PROVE  \E j : Becomes(a, j) /\ j.at \notin {"weigh", "write"}
<1>1. ASSUME NEW h \in Handlers, NEW blind \in BOOLEAN, ReadCeiling(h, blind)
      PROVE  \E j : Becomes(h, j) /\ j.at \notin {"weigh", "write"}
  <2> DEFINE r == IF blind THEN None ELSE est
             c == Ceiling(r, now)
             w == WindowOf(h, r)
             j == [Idle EXCEPT !.at = "gate", !.ceiling = c, !.window = w]
  <2>1. Becomes(h, j)
    BY <1>1 DEF ReadCeiling
  <2> HIDE DEF c, w
  <2>2. j.at = "gate"
    BY DEF Idle
  <2> HIDE DEF j
  <2>3. QED
    BY <2>1, <2>2
<1>2. ASSUME NEW h \in Handlers, NEW blind \in BOOLEAN, Gate(h, blind)
      PROVE  \E j : Becomes(h, j) /\ j.at \notin {"weigh", "write"}
  <2>1. PICK j \in {Idle, [Idle EXCEPT !.at = "resolve"]} : Becomes(h, j)
    BY <1>2 DEF Gate
  <2>2. j.at \in {"idle", "resolve"}
    BY DEF Idle
  <2>3. QED
    BY <2>1, <2>2
<1>3. ASSUME NEW h \in Handlers, NEW blind \in BOOLEAN, Resolve(h, blind)
      PROVE  \E j : Becomes(h, j) /\ j.at \notin {"weigh", "write"}
  <2> DEFINE w == WindowOf(h, IF blind THEN None ELSE est)
             j == [Idle EXCEPT !.at = "count", !.blind = blind, !.began = now,
                               !.window = w]
  <2>1. Becomes(h, j)
    BY <1>3 DEF Resolve
  <2> HIDE DEF w
  <2>2. j.at = "count"
    BY DEF Idle
  <2> HIDE DEF j
  <2>3. QED
    BY <2>1, <2>2
<1>4. ASSUME NEW h \in Handlers, Count(h) \/ Answered(h)
      PROVE  \E j : Becomes(h, j) /\ j.at \notin {"weigh", "write"}
    BY <1>4 DEF Count, Answered, Idle
<1>5. CASE Hit(a)
  <2> DEFINE j == [Idle EXCEPT !.at = "learn", !.began = now]
  <2>1. Becomes(a, j)
    BY <1>5 DEF Hit
  <2>2. j.at = "learn"
    BY DEF Idle
  <2> HIDE DEF j
  <2>3. QED
    BY <2>1, <2>2
<1>6. CASE GiveUp(a)
    BY <1>6 DEF GiveUp, Idle
<1>7. QED
    BY <1>1, <1>2, <1>3, <1>4, <1>5, <1>6

\* Every step keeps the spacing.
LEMMA SpreadStep ==
    ASSUME TypeOK, SpreadInv, [Next]_vars
    PROVE  SpreadInv'
<1>1. ASSUME NEW a \in Actors,
             \/ a \in Handlers /\ \E blind \in BOOLEAN :
                   ReadCeiling(a, blind) \/ Gate(a, blind) \/ Resolve(a, blind)
             \/ a \in Handlers /\ (Count(a) \/ Answered(a))
             \/ Hit(a) \/ GiveUp(a)
      PROVE  SpreadInv'
  <2>1. PICK j : Becomes(a, j) /\ j.at \notin {"weigh", "write"}
    BY <1>1, Elsewhere
  <2>2. est' = est /\ trail' = trail
    BY <1>1 DEF ReadCeiling, Gate, Resolve, Count, Answered, Hit, GiveUp, history
  <2>3. \A b \in Actors \ {a} : basis'[b] = basis[b]
    BY <1>1 DEF ReadCeiling, Gate, Resolve, Count, Answered, Hit, GiveUp, TypeOK
  <2>4. QED
    BY <2>1, <2>2, <2>3, RequestSpread
<1>2. CASE \E h \in Handlers, blind \in BOOLEAN :
              ReadCeiling(h, blind) \/ Gate(h, blind) \/ Resolve(h, blind)
    BY <1>1, <1>2 DEF Actors
<1>3. CASE \E h \in Handlers : Count(h) \/ Answered(h)
    BY <1>1, <1>3 DEF Actors
<1>4. CASE \E a \in Actors : Hit(a) \/ GiveUp(a)
    BY <1>1, <1>4
<1>5. CASE \E a \in Actors : ReadEstimate(a)
    BY <1>5, ReadEstimateSpread
<1>6. CASE \E a \in Actors : ReadCount(a)
    BY <1>6, ReadCountSpread
<1>7. CASE \E a \in Actors : Write(a)
    BY <1>7, WriteSpread
<1>8. CASE Tick
    BY <1>8 DEF Tick, history, SpreadInv, Spread, Weighed
<1>9. CASE \E p \in Processes : Redeploy(p)
  <2>1. \A a \in Actors :
          job'[a].at = "idle" \/ (job'[a] = job[a] /\ basis'[a] = basis[a])
    BY <1>9 DEF Redeploy, Idle
  <2>2. est' = est /\ trail' = trail
    BY <1>9 DEF Redeploy, history
  <2>3. QED
    BY <2>1, <2>2 DEF SpreadInv, Spread, Weighed
<1>10. CASE UNCHANGED vars
    BY <1>10 DEF vars, SpreadInv, Spread, Weighed
<1>11. QED
    BY <1>2, <1>3, <1>4, <1>5, <1>6, <1>7, <1>8, <1>9, <1>10 DEF Next

\* One decrease for one episode of rejections, whichever of the processes that
\* saw it write, and in whatever order.
THEOREM SpacedCorrect == Spec => []DecreasesAreSpaced
<1>1. Init => SpreadInv
  <2> SUFFICES ASSUME Init
               PROVE  SpreadInv
    OBVIOUS
  <2>1. \A a \in Actors : job[a].at = "idle"
    BY DEF Init, Idle
  <2>2. Spread(est, trail)
    BY DEF Init, Spread
  <2>3. QED
    BY <2>1, <2>2 DEF SpreadInv, Weighed
<1>2. SpreadInv /\ TypeOK /\ [Next]_vars => SpreadInv'
    BY SpreadStep
<1>3. SpreadInv => DecreasesAreSpaced
    BY DEF SpreadInv, Spread, Spaced, DecreasesAreSpaced
<1>4. QED
    BY <1>1, <1>2, <1>3, TypeCorrect, PTL DEF Spec

-----------------------------------------------------------------------------
(* The ceiling of the window.  A handler that is past the gate, or will be   *)
(* let through by what it has read, may still count one request more: these  *)
(* are the loose ones, and what is below the ceiling, or they, bound the     *)
(* count.                                                                    *)

IsLoose(j) ==
    \/ j.at \in {"resolve", "count"}
    \/ j.at = "gate" /\ (j.ceiling = None \/ j.ceiling > top \/ j.window # est.window)

Loose == {h \in Handlers : IsLoose(job[h])}

Bounded == LET n == count[est.window] IN
    n < top \/ n + Cardinality(Loose) <= top + Cardinality(Handlers) - 1

CeilingInv == est # None /\ top # None => Effective(est, now) <= top /\ Bounded

\* The loose handlers are finitely many, at most all of them.
LEMMA LooseFinite ==
    /\ IsFiniteSet(Loose) /\ Cardinality(Loose) \in Nat
    /\ Cardinality(Handlers) \in Nat /\ Cardinality(Handlers) >= 1
    /\ Cardinality(Loose) <= Cardinality(Handlers)
<1>1. Loose \subseteq Handlers
    BY DEF Loose
<1>2. Cardinality(Handlers) # 0
    BY FS_EmptySet
<1>3. QED
    BY <1>1, <1>2, FS_Subset, FS_CardinalityType

\* Fewer handlers are no more.
LEMMA LooseShrinks ==
    ASSUME Loose' \subseteq Loose
    PROVE  /\ Cardinality(Loose') \in Nat
           /\ Cardinality(Loose') <= Cardinality(Loose)
    BY LooseFinite, FS_Subset, FS_CardinalityType

\* A handler that leaves makes one less.
LEMMA LooseDrops ==
    ASSUME NEW h \in Loose, Loose' \subseteq Loose \ {h}
    PROVE  /\ Cardinality(Loose') \in Nat
           /\ Cardinality(Loose') <= Cardinality(Loose) - 1
<1>1. /\ IsFiniteSet(Loose \ {h})
      /\ Cardinality(Loose \ {h}) = Cardinality(Loose) - 1
    BY LooseFinite, FS_RemoveElement
<1>2. /\ Cardinality(Loose') <= Cardinality(Loose \ {h})
      /\ IsFiniteSet(Loose')
    BY <1>1, FS_Subset
<1>3. QED
    BY <1>1, <1>2, FS_CardinalityType

\* Without one of them they are not all.
LEMMA LooseMissesOne ==
    ASSUME NEW h \in Handlers, h \notin Loose'
    PROVE  /\ Cardinality(Loose') \in Nat
           /\ Cardinality(Loose') <= Cardinality(Handlers) - 1
<1>1. Loose' \subseteq Handlers \ {h}
    BY DEF Loose
<1>2. /\ IsFiniteSet(Handlers \ {h})
      /\ Cardinality(Handlers \ {h}) = Cardinality(Handlers) - 1
    BY FS_RemoveElement
<1>3. /\ Cardinality(Loose') <= Cardinality(Handlers \ {h})
      /\ IsFiniteSet(Loose')
    BY <1>1, <1>2, FS_Subset
<1>4. QED
    BY <1>2, <1>3, FS_CardinalityType

\* What an actor's move does to the loose ones.
LEMMA LooseMoves ==
    ASSUME TypeOK, NEW a \in Actors, NEW j, Becomes(a, j), top' = top, est' = est
    PROVE  /\ ~IsLoose(j) => Loose' \subseteq Loose \ {a}
           /\ a \in Loose => Loose' \subseteq Loose
<1>1. /\ job'[a] = j
      /\ \A h \in Handlers \ {a} : job'[h] = job[h]
    BY DEF Becomes, TypeOK, Actors
<1>2. QED
    BY <1>1 DEF Loose, IsLoose

\* The numbers are numbers.
LEMMA Numbers ==
    ASSUME TypeOK, est # None, top # None
    PROVE  /\ top \in Nat /\ est.window \in Windows /\ count[est.window] \in Nat
           /\ now \in Nat /\ est \in Estimate
           /\ Effective(est, now) \in Nat
<1>1. est \in Estimate /\ now \in Nat /\ top \in Nat
    BY DEF TypeOK
<1>2. est.window \in Windows
    BY <1>1 DEF Estimate
<1>3. QED
    BY <1>1, <1>2, EffectiveType DEF TypeOK

\* A step that counts nothing, changes no estimate and loosens no handler.
LEMMA QuietCeiling ==
    ASSUME TypeOK, CeilingInv, est' = est, now' = now, count' = count,
           top' # None => top' = top /\ Loose' \subseteq Loose
    PROVE  CeilingInv'
<1> SUFFICES ASSUME est # None, top' # None
             PROVE  Effective(est, now) <= top /\ Bounded'
    BY DEF CeilingInv
<1>1. top' = top /\ Loose' \subseteq Loose
    OBVIOUS
<1>2. Effective(est, now) <= top /\ Bounded
    BY <1>1 DEF CeilingInv
<1>3. /\ Cardinality(Loose') \in Nat
      /\ Cardinality(Loose') <= Cardinality(Loose)
    BY <1>1, LooseShrinks
<1>4. top \in Nat /\ count[est.window] \in Nat
    BY <1>1, Numbers
<1>5. Cardinality(Loose) \in Nat /\ Cardinality(Handlers) \in Nat
    BY LooseFinite
<1>6. Bounded'
    BY <1>1, <1>2, <1>3, <1>4, <1>5 DEF Bounded
<1>7. QED
    BY <1>2, <1>6

\* A handler is admitted only below the ceiling it reads.
LEMMA ReadCeilingStep ==
    ASSUME TypeOK, CeilingInv, NEW h \in Handlers, NEW blind \in BOOLEAN,
           ReadCeiling(h, blind)
    PROVE  CeilingInv'
<1>1. est' = est /\ now' = now /\ count' = count
    BY DEF ReadCeiling
<1>2. CASE est = None \/ top' = None
    BY <1>1, <1>2 DEF CeilingInv
<1>3. CASE est # None /\ top' # None
  <2>1. ~blind /\ top' = top
    BY <1>3 DEF ReadCeiling, Loosens
  <2> DEFINE c == Effective(est, now)
             w == est.window
             j == [Idle EXCEPT !.at = "gate", !.ceiling = c, !.window = w]
  <2>2. Becomes(h, j)
    BY <1>3, <2>1 DEF ReadCeiling, Ceiling, WindowOf
  <2>3. c <= top /\ c \in Nat /\ top \in Nat
    BY <1>3, <2>1, Numbers DEF CeilingInv
  <2> HIDE DEF c
  <2>4. j.at = "gate" /\ j.ceiling = c /\ j.window = est.window
    BY DEF Idle
  <2> HIDE DEF j
  <2>5. ~IsLoose(j)
    BY <2>3, <2>4 DEF IsLoose
  <2>6. Loose' \subseteq Loose
    BY <1>1, <2>1, <2>2, <2>5, LooseMoves DEF Actors
  <2>7. QED
    BY <1>1, <2>1, <2>6, QuietCeiling
<1>4. QED
    BY <1>2, <1>3

\* A handler passes the gate below the ceiling, or has been loose before.
LEMMA GateStep ==
    ASSUME TypeOK, CeilingInv, NEW h \in Handlers, NEW blind \in BOOLEAN,
           Gate(h, blind)
    PROVE  CeilingInv'
<1>1. est' = est /\ now' = now /\ count' = count /\ h \in Actors
    BY DEF Gate, Actors
<1>2. CASE est = None \/ top' = None
    BY <1>1, <1>2 DEF CeilingInv
<1>3. CASE est # None /\ top' # None
  <2>1. ~blind /\ top' = top /\ top # None
    BY <1>3 DEF Gate, Loosens
  <2>2. CASE h \in Loose
    <3>1. PICK j : Becomes(h, j)
        BY DEF Gate
    <3>2. Loose' \subseteq Loose
        BY <1>1, <2>1, <2>2, <3>1, LooseMoves
    <3>3. QED
        BY <1>1, <2>1, <3>2, QuietCeiling
  <2>3. CASE h \notin Loose /\ Becomes(h, Idle)
    <3>1. ~IsLoose(Idle)
        BY DEF IsLoose, Idle
    <3>2. Loose' \subseteq Loose
        BY <1>1, <2>1, <2>3, <3>1, LooseMoves
    <3>3. QED
        BY <1>1, <2>1, <3>2, QuietCeiling
  <2>4. CASE h \notin Loose /\ ~Becomes(h, Idle)
    <3>1. job[h].at = "gate" /\ job[h].ceiling # None /\ ~(job[h].ceiling > top)
        BY <2>4 DEF Gate, Loose, IsLoose
    <3>2. count[job[h].window] < job[h].ceiling
        BY <2>1, <2>4, <3>1 DEF Gate, Below
    <3>4. job[h].window = est.window
        BY <2>4, <3>1 DEF Loose, IsLoose
    <3>5. job[h].ceiling \in Nat \cup {None}
        BY <1>1 DEF TypeOK, Jobs
    <3>6. top \in Nat /\ count[est.window] \in Nat
        BY <1>3, <2>1, Numbers
    <3>7. count[est.window] < top
        BY <3>1, <3>2, <3>4, <3>5, <3>6
    <3>8. QED
        BY <1>1, <1>3, <2>1, <3>7 DEF CeilingInv, Bounded
  <2>5. QED
    BY <2>2, <2>3, <2>4
<1>4. QED
    BY <1>2, <1>3

\* Looking where to count admits nobody.
LEMMA ResolveStep ==
    ASSUME TypeOK, CeilingInv, NEW h \in Handlers, NEW blind \in BOOLEAN,
           Resolve(h, blind)
    PROVE  CeilingInv'
<1>1. est' = est /\ now' = now /\ count' = count /\ h \in Actors
    BY DEF Resolve, Actors
<1>2. h \in Loose
    BY DEF Resolve, Loose, IsLoose
<1>3. top' # None => top' = top
    BY DEF Resolve, Loosens
<1>4. PICK j : Becomes(h, j)
    BY DEF Resolve
<1>5. top' # None => Loose' \subseteq Loose
    BY <1>1, <1>2, <1>3, <1>4, LooseMoves
<1>6. QED
    BY <1>1, <1>3, <1>5, QuietCeiling

\* A request counted is one that was loose.
LEMMA CountStep ==
    ASSUME TypeOK, CeilingInv, NEW h \in Handlers, Count(h)
    PROVE  CeilingInv'
<1>1. est' = est /\ now' = now /\ top' = top /\ h \in Actors
    BY DEF Count, Actors
<1>2. h \in Loose
    BY DEF Count, Loose, IsLoose
<1> DEFINE j == [Idle EXCEPT !.at = "sent"]
<1>3. Becomes(h, j) /\ ~IsLoose(j)
    BY DEF Count, IsLoose, Idle
<1> HIDE DEF j
<1>4. Loose' \subseteq Loose \ {h}
    BY <1>1, <1>3, LooseMoves
<1> SUFFICES ASSUME est # None, top # None
             PROVE  Effective(est, now) <= top /\ Bounded'
    BY <1>1 DEF CeilingInv
<1>5. Effective(est, now) <= top /\ Bounded
    BY DEF CeilingInv
<1>6. /\ Cardinality(Loose') \in Nat
      /\ Cardinality(Loose') <= Cardinality(Loose) - 1
    BY <1>2, <1>4, LooseDrops
<1>7. /\ Cardinality(Loose) \in Nat /\ Cardinality(Handlers) \in Nat
      /\ Cardinality(Loose) <= Cardinality(Handlers)
    BY LooseFinite
<1>8. top \in Nat /\ count[est.window] \in Nat /\ est.window \in Windows
    BY Numbers
<1>9. count'[est.window] \in {count[est.window], count[est.window] + 1}
    BY <1>8 DEF Count, TypeOK
<1>10. Bounded'
    BY <1>1, <1>5, <1>6, <1>7, <1>8, <1>9 DEF Bounded
<1>11. QED
    BY <1>5, <1>10

\* A higher ceiling makes no handler loose.
LEMMA HigherCeiling ==
    ASSUME TypeOK, top \in Nat, top' \in Nat, top' >= top,
           est' # None /\ est'.window = est.window,
           \A h \in Handlers : job'[h] = job[h] \/ job'[h].at = "idle"
    PROVE  Loose' \subseteq Loose
<1>1. \A h \in Handlers : job[h].ceiling \in Nat \cup {None}
    BY DEF TypeOK, Jobs, Actors
<1>2. ASSUME NEW h \in Loose'
      PROVE  h \in Loose
  <2>1. h \in Handlers /\ job'[h] = job[h]
    BY <1>2 DEF Loose, IsLoose
  <2>2. job[h].at = "gate" /\ job[h].ceiling # None /\ job[h].ceiling > top'
        => job[h].ceiling > top
    BY <1>1, <2>1
  <2>3. QED
    BY <1>2, <2>1, <2>2 DEF Loose, IsLoose
<1>3. QED
    BY <1>2

\* The new ceiling is taken into the highest one, and the window is kept.
LEMMA WriteStep ==
    ASSUME TypeOK, CeilingInv, NEW a \in Actors, Write(a)
    PROVE  CeilingInv'
<1>1. est' \in Estimate
    BY WriteMakes
<1>2. Becomes(a, Idle) /\ now' = now /\ count' = count
    BY DEF Write
<1>3. CASE est = None \/ top = None \/ est.window # est'.window
    BY <1>3, WriteMakes DEF CeilingInv
<1>4. CASE est # None /\ top # None /\ est.window = est'.window
  <2>1. top \in Nat /\ count[est.window] \in Nat /\ now \in Nat
    BY <1>4, Numbers
  <2>2. Effective(est', now) \in Nat
    BY <1>1, <2>1, EffectiveType
  <2>3. top' = Larger(top, Effective(est', now))
    BY <1>4, WriteMakes
  <2>4. top' \in Nat /\ top' >= top /\ Effective(est', now) <= top'
    BY <2>1, <2>2, <2>3, LargerBounds
  <2>5. est'.window = est.window /\ est' # None
    BY <1>1, <1>4
  <2>6. Loose' \subseteq Loose
    <3>1. \A h \in Handlers : job'[h] = job[h] \/ job'[h].at = "idle"
        BY <1>2 DEF Becomes, TypeOK, Idle, Actors
    <3>2. QED
        BY <2>1, <2>4, <2>5, <3>1, HigherCeiling
  <2>7. /\ Cardinality(Loose') \in Nat
        /\ Cardinality(Loose') <= Cardinality(Loose)
    BY <2>6, LooseShrinks
  <2>8. Cardinality(Loose) \in Nat /\ Cardinality(Handlers) \in Nat
    BY LooseFinite
  <2>9. Bounded
    BY <1>4 DEF CeilingInv
  <2>10. Bounded'
    BY <1>2, <2>1, <2>4, <2>5, <2>7, <2>8, <2>9 DEF Bounded
  <2>11. QED
    BY <1>2, <2>4, <2>10 DEF CeilingInv
<1>5. QED
    BY <1>3, <1>4

\* A new window begins with nothing counted.
LEMMA TickStep ==
    ASSUME TypeOK, CeilingInv, Tick
    PROVE  CeilingInv'
<1>1. est' = est /\ job' = job
    BY DEF Tick
<1> SUFFICES ASSUME est # None, top' # None
             PROVE  Effective(est, now') <= top' /\ Bounded'
    BY <1>1 DEF CeilingInv
<1>2. /\ Effective(est, now') \in Nat /\ Effective(est, now') >= 1
      /\ count' \in [Windows -> Nat]
    BY TickMakes
<1>3. est.window \in Windows
    BY DEF TypeOK, Estimate
<1>4. CASE now' % est.window = 0
  <2>1. top' = Effective(est, now') /\ count'[est.window] = 0
    BY <1>3, <1>4 DEF Tick
  <2>2. QED
    BY <1>1, <1>2, <2>1 DEF Bounded
<1>5. CASE now' % est.window # 0
  <2>1. top # None /\ top' = Larger(top, Effective(est, now'))
    BY <1>5 DEF Tick
  <2>2. top \in Nat /\ count[est.window] \in Nat
    BY <2>1, Numbers
  <2>3. top' \in Nat /\ top' >= top /\ Effective(est, now') <= top'
    BY <1>2, <2>1, <2>2, LargerBounds
  <2>4. count'[est.window] = count[est.window]
    BY <1>3, <1>5 DEF Tick
  <2>5. Loose' \subseteq Loose
    BY <1>1, <2>2, <2>3, HigherCeiling
  <2>6. /\ Cardinality(Loose') \in Nat
        /\ Cardinality(Loose') <= Cardinality(Loose)
    BY <2>5, LooseShrinks
  <2>7. Cardinality(Loose) \in Nat /\ Cardinality(Handlers) \in Nat
    BY LooseFinite
  <2>8. Bounded
    BY <2>1 DEF CeilingInv
  <2>9. Bounded'
    BY <1>1, <2>2, <2>3, <2>4, <2>6, <2>7, <2>8 DEF Bounded
  <2>10. QED
    BY <2>3, <2>9
<1>6. QED
    BY <1>4, <1>5

\* An actor that learns is not loose, nor becomes it.
LEMMA LearningStep ==
    ASSUME TypeOK, CeilingInv, NEW a \in Actors,
           Hit(a) \/ ReadEstimate(a) \/ ReadCount(a) \/ GiveUp(a)
    PROVE  CeilingInv'
<1>1. est' = est /\ now' = now /\ count' = count /\ top' = top
    BY DEF Hit, ReadEstimate, ReadCount, GiveUp
<1>2. job[a] \in Jobs
    BY DEF TypeOK
<1>3. PICK j : Becomes(a, j) /\ j.at \in {"idle", "learn", "weigh", "write"}
  <2>1. CASE Hit(a)
    <3> DEFINE j == [Idle EXCEPT !.at = "learn", !.began = now]
    <3>1. Becomes(a, j) /\ j.at = "learn"
        BY <2>1 DEF Hit, Idle
    <3> HIDE DEF j
    <3>2. QED
        BY <3>1
  <2>2. CASE Becomes(a, Idle)
    BY <2>2 DEF Idle
  <2>3. CASE ReadEstimate(a) /\ ~Becomes(a, Idle)
    <3> DEFINE j == [job[a] EXCEPT !.at = "weigh", !.read = est]
    <3>1. Becomes(a, j) /\ j.at = "weigh"
        BY <1>2, <2>3 DEF ReadEstimate, Jobs
    <3> HIDE DEF j
    <3>2. QED
        BY <3>1
  <2>4. CASE ReadCount(a)
    <3> DEFINE n == count[WindowOf(a, job[a].read)]
               j == [job[a] EXCEPT !.at = "write", !.seen = n]
    <3>1. Becomes(a, j)
        BY <2>4 DEF ReadCount
    <3> HIDE DEF n
    <3>2. j.at = "write"
        BY <1>2 DEF Jobs
    <3> HIDE DEF j
    <3>3. QED
        BY <3>1, <3>2
  <2>5. QED
    BY <2>1, <2>2, <2>3, <2>4 DEF GiveUp
<1>4. ~IsLoose(j)
    BY <1>3 DEF IsLoose
<1>5. Loose' \subseteq Loose
    BY <1>1, <1>3, <1>4, LooseMoves
<1>6. QED
    BY <1>1, <1>5, QuietCeiling

\* Every step keeps the bound.
LEMMA CeilingStep ==
    ASSUME TypeOK, CeilingInv, [Next]_vars
    PROVE  CeilingInv'
<1>1. ASSUME NEW h \in Handlers, NEW blind \in BOOLEAN,
             ReadCeiling(h, blind) \/ Gate(h, blind) \/ Resolve(h, blind)
      PROVE  CeilingInv'
    BY <1>1, ReadCeilingStep, GateStep, ResolveStep
<1>2. ASSUME NEW h \in Handlers, Count(h)
      PROVE  CeilingInv'
    BY <1>2, CountStep
<1>3. ASSUME NEW h \in Handlers, Answered(h)
      PROVE  CeilingInv'
  <2>1. Becomes(h, Idle) /\ UNCHANGED <<est, now, count, top>> /\ h \in Actors
    BY <1>3 DEF Answered, Actors
  <2>2. ~IsLoose(Idle)
    BY DEF IsLoose, Idle
  <2>3. Loose' \subseteq Loose
    BY <2>1, <2>2, LooseMoves
  <2>4. QED
    BY <2>1, <2>3, QuietCeiling
<1>4. ASSUME NEW a \in Actors, Hit(a) \/ ReadEstimate(a) \/ ReadCount(a) \/ GiveUp(a)
      PROVE  CeilingInv'
    BY <1>4, LearningStep
<1>5. ASSUME NEW a \in Actors, Write(a)
      PROVE  CeilingInv'
    BY <1>5, WriteStep
<1>6. CASE Tick
    BY <1>6, TickStep
<1>7. CASE \E p \in Processes : Redeploy(p)
  <2>1. UNCHANGED <<est, now, count, top>>
    BY <1>7 DEF Redeploy
  <2>2. Loose' \subseteq Loose
    BY <1>7, <2>1 DEF Redeploy, Loose, IsLoose, Idle, Actors
  <2>3. QED
    BY <2>1, <2>2, QuietCeiling
<1>8. CASE UNCHANGED vars
  <2>1. Loose' = Loose /\ UNCHANGED <<est, now, count, top>>
    BY <1>8 DEF vars, Loose, IsLoose
  <2>2. QED
    BY <2>1, QuietCeiling
<1>9. QED
    BY <1>1, <1>2, <1>3, <1>4, <1>5, <1>6, <1>7, <1>8 DEF Next

\* A learned ceiling is passed by less than the number of handlers in any
\* window for the whole of which it is known, although reading it, reading the
\* count and counting are three calls.
THEOREM LearnedCorrect == Spec => []LearnedCeilingHolds
<1>1. Init => CeilingInv
    BY DEF Init, CeilingInv
<1>2. CeilingInv /\ TypeOK /\ [Next]_vars => CeilingInv'
    BY CeilingStep
<1>3. CeilingInv /\ TypeOK => LearnedCeilingHolds
  <2> SUFFICES ASSUME CeilingInv, TypeOK, est # None, top # None
               PROVE  count[est.window] < top + Cardinality(Handlers)
    BY DEF LearnedCeilingHolds
  <2>1. Bounded
    BY DEF CeilingInv
  <2>2. QED
    BY <2>1, Numbers, LooseFinite DEF Bounded
<1>4. QED
    BY <1>1, <1>2, <1>3, TypeCorrect, PTL DEF Spec
===============================================================================
