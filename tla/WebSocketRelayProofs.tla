------------------------- MODULE WebSocketRelayProofs -------------------------
(* What holds of WebSocketRelay for any number of frames that wait, and      *)
(* every order in which the peers end and the legs stop.                     *)
EXTENDS WebSocketRelay, SequenceTheorems, TLAPS

-------------------------------------------------------------------------------
(* The inductive invariant.                                                  *)

AtReading(p) == leg[p] \in {"read", "write", "control"}

\* The code with which a peer has said goodbye; an echo repeats what it heard.
Said(p) == IF goodbye[p] = "echo" THEN heard[p] ELSE goodbye[p]

\* A close frame that waits is the last one of its peer, and one that was sent
\* waits as long as the leg reads.
InboxInv(p) ==
  /\ \A i \in 1..Len(inbox[p]) :
       inbox[p][i] \in CloseCodes => goodbye[p] # "none" /\ inbox[p][i] = Said(p)
  /\ AtReading(p) /\ goodbye[p] # "none" =>
       inbox[p] # <<>> /\ inbox[p][Len(inbox[p])] \in CloseCodes

\* A close code is what the peer said, or stands for its end without a word.
ResultInv(p) ==
  /\ AtReading(p) => result[p] = Running
  /\ leg[p] \in {"flag", "forward"} => result[p].err \in CloseCodes
  /\ result[p].err \in CloseCodes => result[p].read
  /\ result[p].err = "abnormal" => link[p] = "fin" /\ goodbye[p] = "none"
  /\ result[p].err \in {"graceful", "odd"} =>
       goodbye[p] # "none" /\ result[p].err = Said(p)

\* What a peer hears is the last word of the leg of the other one, so that
\* they never echo each other.
CloseInv(p) ==
  /\ heard[p] # "none" =>
       /\ leg[Other(p)] = "stopped" /\ result[Other(p)].err \in CloseCodes
       /\ heard[p] = Wire(result[Other(p)].err)
  /\ goodbye[p] = "echo" => heard[p] # "none" /\ goodbye[Other(p)] # "echo"
  /\ p \in sealed => goodbye[p] # "none" \/ leg[Other(p)] = "stopped"

\* The flag is up before the client hears anything.
ToldInv ==
  /\ told => result["backend"].err \in CloseCodes
  /\ leg["backend"] = "forward" \/ heard["client"] # "none" => told
  /\ leg["client"] # "flag"

Leaves(p) == goodbye[p] \notin {"none", "echo"} \/ link[p] # "up" \/ p \in slow

\* Why the first leg stopped.
Explained(p) ==
  \/ unsent # {}
  \/ result[p].read /\ result[p].err \in CloseCodes
  \/ result[p].read /\ result[p].err = "idle" /\ p = "backend"
  \/ result[p].read /\ result[p].err = "net" /\ link[p] # "up" /\ goodbye[p] = "none"
  \/ ~result[p].read /\ result[p].err \in {"timeout", "net"} /\ Leaves(Other(p))

Verdict ==
  /\ main.first = "backend" => (main.atFault <=> result["backend"].read)
  /\ main.first = "client" =>
       /\ main.atFault => ~result["client"].read \/ told
       /\ ~result["client"].read \/ goodbye["client"] = "echo" => main.atFault

MainInv ==
  /\ open <=> main.at \in {"select", "weigh"}
  /\ main.at = "select" => \A p \in Peers : leg[p] = "stopped" => Explained(p)
  /\ main.at # "select" =>
       main.first \in Peers /\ leg[main.first] = "stopped" /\ Explained(main.first)
  /\ main.at \in {"drain", "over"} => Verdict

LegInv(p) == InboxInv(p) /\ ResultInv(p) /\ CloseInv(p)

RelayInv == TypeOK /\ (\A p \in Peers : LegInv(p)) /\ ToldInv /\ MainInv

-------------------------------------------------------------------------------
(* Peers, codes and frames.                                                  *)

FrameSet == Frames \cup {"graceful", "odd"}

\* There are two peers.
LEMMA TwoPeers ==
  /\ "client" \in Peers /\ "backend" \in Peers
  /\ \A p \in Peers : /\ Other(p) \in Peers /\ Other(p) # p /\ Other(Other(p)) = p
                      /\ \A q \in Peers : q = p \/ q = Other(p)
                      /\ p = "client" \/ p = "backend"
  /\ Other("client") = "backend" /\ Other("backend") = "client"
BY DEF Peers, Other

\* A frame is a close code only if a peer may send it as one.
LEMMA FrameCodes ==
  /\ \A f \in FrameSet : f \in CloseCodes => f \in {"graceful", "odd"}
  /\ \A f \in Frames : f \notin CloseCodes
  /\ \A c \in Codes : c \in FrameSet /\ c \in {"graceful", "odd"}
  /\ \A c \in CloseCodes : Wire(c) \in {"graceful", "odd"}
BY RelayAssumption DEF FrameSet, CloseCodes, Wire

\* A frame more waits behind the others.
LEMMA AppendFrame ==
  ASSUME NEW S, NEW s \in Seq(S), NEW f \in S
  PROVE  /\ Append(s, f) \in Seq(S)
         /\ Append(s, f) # <<>>
         /\ Len(Append(s, f)) = Len(s) + 1 /\ Len(s) \in Nat
         /\ Append(s, f)[Len(Append(s, f))] = f
         /\ \A i \in 1..Len(s) : Append(s, f)[i] = s[i]
         /\ \A i \in 1..Len(Append(s, f)) : i \in 1..Len(s) \/ i = Len(s) + 1
<1>1. /\ Append(s, f) \in Seq(S) /\ Append(s, f) # <<>>
      /\ Len(Append(s, f)) = Len(s) + 1 /\ Len(s) \in Nat
      /\ \A i \in 1..Len(s) : Append(s, f)[i] = s[i]
      /\ Append(s, f)[Len(s) + 1] = f
  BY AppendProperties, LenProperties
<1> QED
  BY <1>1

\* The rest of what waits keeps its order and its last frame.
LEMMA RestFrames ==
  ASSUME NEW S, NEW s \in Seq(S), s # <<>>
  PROVE  /\ Head(s) \in S /\ Tail(s) \in Seq(S)
         /\ Head(s) = s[1] /\ 1 \in 1..Len(s)
         /\ \A i \in 1..Len(Tail(s)) : i + 1 \in 1..Len(s) /\ Tail(s)[i] = s[i + 1]
         /\ s[Len(s)] # Head(s) =>
              Tail(s) # <<>> /\ Tail(s)[Len(Tail(s))] = s[Len(s)]
<1>1. /\ Head(s) \in S /\ Tail(s) \in Seq(S) /\ Head(s) = s[1]
      /\ Len(s) \in Nat /\ Len(s) >= 1 /\ Len(Tail(s)) = Len(s) - 1
      /\ \A i \in 1..Len(Tail(s)) : Tail(s)[i] = s[i + 1]
  BY HeadTailProperties, LenProperties, EmptySeq
<1>2. \A i \in 1..Len(Tail(s)) : i + 1 \in 1..Len(s)
  BY <1>1
<1>3. ASSUME s[Len(s)] # Head(s)
      PROVE  Tail(s) # <<>> /\ Tail(s)[Len(Tail(s))] = s[Len(s)]
  <2>1. Len(Tail(s)) \in 1..Len(Tail(s)) /\ Len(Tail(s)) + 1 = Len(s)
    BY <1>1, <1>3
  <2>2. Tail(s)[Len(Tail(s))] = s[Len(s)]
    BY <1>1, <2>1
  <2>3. Len(Tail(s)) # 0 /\ Len(<<>>) = 0
    BY <2>1, EmptySeq
  <2>4. Tail(s) # <<>>
    BY <2>3
  <2> QED
    BY <2>2, <2>4
<1> QED
  BY <1>1, <1>2, <1>3

\* The invariant holds when the relay begins.
LEMMA InitRelay == Init => RelayInv
<1> SUFFICES ASSUME Init PROVE RelayInv
  OBVIOUS
<1>1. Running \in Results
  BY DEF Running, Results, CloseCodes
<1>2. TypeOK
  <2>1. main \in [at : {"select", "weigh", "drain", "over"},
                 first : Peers \cup {"none"}, atFault : BOOLEAN]
    BY DEF Init
  <2>2. inbox \in [Peers -> Seq(Frames \cup {"graceful", "odd"})]
    BY DEF Init
  <2>3. result \in [Peers -> Results]
    BY <1>1 DEF Init
  <2> QED
    BY <2>1, <2>2, <2>3 DEF Init, TypeOK
<1>3. ASSUME NEW p \in Peers
      PROVE  LegInv(p)
  <2>1. /\ inbox[p] = <<>> /\ link[p] = "up" /\ goodbye[p] = "none"
        /\ heard[p] = "none" /\ leg[p] = "read" /\ result[p] = Running
        /\ sealed = {}
    BY <1>3 DEF Init
  <2>2. result[p].err = "none"
    BY <2>1 DEF Running
  <2> QED
    BY <2>1, <2>2 DEF LegInv, InboxInv, ResultInv, CloseInv, CloseCodes
<1>4. ToldInv
  BY TwoPeers DEF Init, ToldInv
<1>5. MainInv
  BY DEF Init, MainInv
<1> QED
  BY <1>2, <1>3, <1>4, <1>5 DEF RelayInv

-------------------------------------------------------------------------------
(* The peers.                                                                *)

\* What is known of a state, one peer at a time.
LEMMA RelayFacts ==
  ASSUME RelayInv, NEW p \in Peers
  PROVE  /\ inbox[p] \in Seq(FrameSet)
         /\ link[p] \in {"up", "fin", "rst"}
         /\ goodbye[p] \in Codes \cup {"none", "echo"}
         /\ heard[p] \in {"none", "graceful", "odd"}
         /\ leg[p] \in {"read", "write", "control", "flag", "forward", "stopped"}
         /\ result[p] \in Results /\ result[p].read \in BOOLEAN
         /\ InboxInv(p) /\ ResultInv(p) /\ CloseInv(p)
<1>1. TypeOK /\ LegInv(p)
  BY DEF RelayInv
<1>2. result[p] \in Results
  BY <1>1 DEF TypeOK
<1>3. result[p].read \in BOOLEAN
  BY <1>2 DEF Results
<1> QED
  BY <1>1, <1>2, <1>3 DEF TypeOK, LegInv, FrameSet

\* A leg that reads has nothing to report, and its other peer heard nothing.
LEMMA ReadingFacts ==
  ASSUME RelayInv, NEW p \in Peers, AtReading(p)
  PROVE  /\ result[p] = Running /\ result[p].err = "none"
         /\ heard[Other(p)] = "none" /\ goodbye[Other(p)] # "echo"
         /\ leg[p] # "stopped"
         /\ p = "backend" => ~told
<1>1. leg[p] # "stopped" /\ result[p] = Running
  BY RelayFacts DEF AtReading, ResultInv
<1>2. result[p].err = "none" /\ "none" \notin CloseCodes
  BY <1>1 DEF Running, CloseCodes
<1>3. heard[Other(p)] = "none" /\ goodbye[Other(p)] # "echo"
  BY <1>1, TwoPeers, RelayFacts DEF CloseInv
<1> QED
  BY <1>1, <1>2, <1>3 DEF RelayInv, ToldInv

\* A frame of a peer that has not said goodbye: one more waits.
LEMMA TalkRelay ==
  ASSUME RelayInv, NEW p \in Peers, Talking(p), NEW f \in FrameSet,
         NEW g \in Codes \cup {"none", "echo"},
         inbox' = [inbox EXCEPT ![p] = Append(@, f)],
         goodbye' = [goodbye EXCEPT ![p] = g],
         UNCHANGED <<link, slow, wires, leg, result, told, main, open, unsent>>,
         \/ g = "none" /\ f \notin CloseCodes
         \/ g \in Codes /\ g = f
         \/ g = "echo" /\ heard[p] # "none" /\ f = heard[p]
  PROVE  RelayInv'
<1> USE DEF wires
<1>1. /\ goodbye[p] = "none" /\ link[p] = "up" /\ main.at = "select"
      /\ AtReading(p)
  BY DEF Talking, Connected, AtReading
<1>2. TypeOK /\ inbox[p] \in Seq(FrameSet)
  BY RelayFacts DEF RelayInv
<1>3. /\ inbox'[p] = Append(inbox[p], f) /\ goodbye'[p] = g
      /\ \A q \in Peers \ {p} : inbox'[q] = inbox[q] /\ goodbye'[q] = goodbye[q]
  BY <1>2 DEF TypeOK
<1>4. TypeOK'
  <2>1. Append(inbox[p], f) \in Seq(FrameSet)
    BY <1>2, AppendFrame
  <2> QED
    BY <1>2, <2>1 DEF TypeOK, FrameSet
<1>5. g # "none" => f \in {"graceful", "odd"} /\ f \in CloseCodes /\ Said(p)' = f
  <2>1. g \in Codes => g \in {"graceful", "odd"}
    BY FrameCodes
  <2>2. heard[p] \in {"none", "graceful", "odd"}
    BY RelayFacts
  <2> QED
    BY <1>3, <2>1, <2>2 DEF Said, CloseCodes
<1>6. InboxInv(p)'
  <2>1. \A i \in 1..Len(inbox[p]) : inbox[p][i] \notin CloseCodes
    BY <1>1, RelayFacts DEF InboxInv
  <2>2. \A i \in 1..Len(inbox'[p]) :
          inbox'[p][i] \in CloseCodes => inbox'[p][i] = f
    <3> SUFFICES ASSUME NEW i \in 1..Len(inbox'[p]), inbox'[p][i] \in CloseCodes
                 PROVE  inbox'[p][i] = f
      OBVIOUS
    <3>1. CASE i \in 1..Len(inbox[p])
      BY <1>2, <1>3, <2>1, <3>1, AppendFrame
    <3>2. CASE i = Len(inbox[p]) + 1
      BY <1>2, <1>3, <3>2, AppendFrame
    <3> QED
      BY <1>2, <1>3, <3>1, <3>2, AppendFrame
  <2>3. inbox'[p] # <<>> /\ inbox'[p][Len(inbox'[p])] = f
    BY <1>2, <1>3, AppendFrame
  <2>4. f \in CloseCodes => g # "none"
    BY DEF CloseCodes
  <2> QED
    BY <1>3, <1>5, <2>2, <2>3, <2>4 DEF InboxInv
<1>7. ResultInv(p)'
  <2>1. result'[p] = Running /\ Running.err = "none" /\ "none" \notin CloseCodes
    BY <1>1, ReadingFacts DEF Running, CloseCodes
  <2> QED
    BY <1>1, <2>1 DEF ResultInv, AtReading
<1>8. heard[Other(p)] = "none" /\ goodbye[Other(p)] # "echo"
  BY <1>1, ReadingFacts
<1>9. \A q \in Peers : CloseInv(q)'
  <2>3. g = "echo" => heard[p] # "none"
    BY FrameCodes
  <2>4. /\ Other(p) \in Peers \ {p} /\ CloseInv(p) /\ CloseInv(Other(p))
        /\ Other(Other(p)) = p
    BY TwoPeers, RelayFacts
  <2>1. CloseInv(p)'
    BY <1>1, <1>3, <1>8, <2>3, <2>4 DEF CloseInv
  <2>2. CloseInv(Other(p))'
    BY <1>1, <1>3, <1>8, <2>4 DEF CloseInv
  <2> QED
    BY <2>1, <2>2, TwoPeers
<1>10. InboxInv(Other(p))' /\ ResultInv(Other(p))'
  <2>1. Said(Other(p))' = Said(Other(p))
    BY <1>3, TwoPeers DEF Said
  <2>2. /\ inbox'[Other(p)] = inbox[Other(p)] /\ goodbye'[Other(p)] = goodbye[Other(p)]
        /\ InboxInv(Other(p)) /\ ResultInv(Other(p))
    BY <1>3, TwoPeers, RelayFacts
  <2> QED
    BY <2>1, <2>2 DEF InboxInv, ResultInv, AtReading
<1>11. \A q \in Peers : LegInv(q)'
  BY <1>6, <1>7, <1>9, <1>10, TwoPeers DEF LegInv
<1>12. ToldInv'
  BY DEF RelayInv, ToldInv
<1>13. MainInv'
  <2>1. ASSUME NEW q \in Peers, leg[q] = "stopped", Explained(q)
        PROVE  Explained(q)'
    <3>1. q = Other(p) /\ q # p /\ Other(q) = p
      BY <1>1, <2>1, ReadingFacts, TwoPeers
    <3>2. Leaves(p) => Leaves(p)'
      BY <1>1, <1>3 DEF Leaves
    <3> QED
      BY <1>3, <2>1, <3>1, <3>2 DEF Explained
  <2> QED
    BY <1>1, <2>1 DEF RelayInv, MainInv
<1> QED
  BY <1>4, <1>11, <1>12, <1>13 DEF RelayInv

\* A peer that ends its connection or stalls leaves, and that is all.
LEMMA LeaveRelay ==
  ASSUME RelayInv, NEW p \in Peers, Drop(p) \/ Stall(p)
  PROVE  RelayInv'
<1> USE DEF wires, peers
<1>1. /\ link[p] = "up" /\ main.at = "select"
      /\ UNCHANGED <<inbox, goodbye, heard, sealed, timed, leg, result, told, main,
                     open, unsent>>
      /\ slow \subseteq slow' /\ slow' \subseteq Peers
      /\ \/ link' = link
         \/ \E how \in {"fin", "rst"} : link' = [link EXCEPT ![p] = how]
  BY DEF Drop, Stall, Connected, RelayInv, TypeOK
<1>2. /\ TypeOK' /\ \A q \in Peers \ {p} : link'[q] = link[q]
  <2>1. TypeOK
    BY DEF RelayInv
  <2>4. link \in [Peers -> {"up", "fin", "rst"}]
    BY <2>1 DEF TypeOK
  <2>2. link' \in [Peers -> {"up", "fin", "rst"}]
    BY <1>1, <2>4
  <2>3. \A q \in Peers \ {p} : link'[q] = link[q]
    BY <1>1, <2>4
  <2> QED
    BY <1>1, <2>1, <2>2, <2>3 DEF TypeOK
<1>3. ASSUME NEW q \in Peers
      PROVE  LegInv(q)' /\ (Leaves(q) => Leaves(q)')
  <2>1. Said(q)' = Said(q)
    BY <1>1 DEF Said
  <2>2. /\ link[q] = "fin" => link'[q] = "fin"
        /\ link[q] # "up" => link'[q] # "up"
    BY <1>1, <1>2
  <2>3. LegInv(q)'
    BY <1>1, <2>1, <2>2, RelayFacts DEF LegInv, InboxInv, ResultInv, CloseInv, AtReading
  <2> QED
    BY <1>1, <2>2, <2>3 DEF Leaves
<1>4. ASSUME NEW q \in Peers, Explained(q)
      PROVE  Explained(q)'
  <2>1. link[q] # "up" => link'[q] # "up"
    BY <1>1, <1>2
  <2>2. Leaves(Other(q)) => Leaves(Other(q))'
    BY <1>3, TwoPeers
  <2> QED
    BY <1>1, <1>4, <2>1, <2>2 DEF Explained
<1>5. MainInv'
  BY <1>1, <1>4 DEF RelayInv, MainInv
<1>6. ToldInv'
  BY <1>1 DEF RelayInv, ToldInv
<1> QED
  BY <1>2, <1>3, <1>5, <1>6 DEF RelayInv

\* The peers.
LEMMA PeerRelay ==
  ASSUME RelayInv, NEW p \in Peers, PeerStep(p)
  PROVE  RelayInv'
<1>1. ASSUME NEW f \in Frames, Send(p, f)
      PROVE  RelayInv'
  <2>1. goodbye' = [goodbye EXCEPT ![p] = "none"]
    BY <1>1 DEF Send, Talking, RelayInv, TypeOK
  <2> QED
    BY <1>1, <2>1, FrameCodes, TalkRelay DEF Send, FrameSet
<1>2. ASSUME NEW c \in Codes, SayGoodbye(p, c)
      PROVE  RelayInv'
  BY <1>2, FrameCodes, TalkRelay DEF SayGoodbye
<1>3. CASE EchoGoodbye(p)
  <2>1. heard[p] \in FrameSet /\ heard[p] # "none"
    BY <1>3, RelayFacts DEF EchoGoodbye, FrameSet
  <2> QED
    BY <1>3, <2>1, TalkRelay DEF EchoGoodbye
<1> QED
  BY <1>1, <1>2, <1>3, LeaveRelay DEF PeerStep

-------------------------------------------------------------------------------
(* The legs.                                                                 *)

\* A leg that was reading goes on, stops, or has a close code to pass on.
LEMMA LegRelay ==
  ASSUME RelayInv, NEW p \in Peers, AtReading(p),
         NEW to, NEW res,
         leg' = [leg EXCEPT ![p] = to], result' = [result EXCEPT ![p] = res],
         UNCHANGED <<link, goodbye, slow, heard, told, main, open>>,
         \A q \in Peers \ {p} : inbox'[q] = inbox[q],
         TypeOK', InboxInv(p)', ResultInv(p)',
         \A q \in sealed' : \/ q \in sealed
                            \/ q = p /\ goodbye[p] # "none"
                            \/ q = Other(p) /\ to = "stopped",
         p = "backend" => to # "forward",
         p = "client" => to # "flag",
         unsent # {} => unsent' # {},
         to = "stopped" /\ main.at = "select" => Explained(p)'
  PROVE  RelayInv'
<1>1. /\ leg'[p] = to /\ result'[p] = res /\ leg[p] # "stopped"
      /\ \A q \in Peers \ {p} : leg'[q] = leg[q] /\ result'[q] = result[q]
      /\ heard[Other(p)] = "none" /\ goodbye[Other(p)] # "echo"
      /\ p = "backend" => ~told
  BY ReadingFacts DEF RelayInv, TypeOK
<1>2. /\ Other(p) \in Peers \ {p} /\ Other(Other(p)) = p
      /\ \A q \in Peers : q = p \/ q = Other(p)
  BY TwoPeers
<1>3. InboxInv(Other(p))' /\ ResultInv(Other(p))'
  <2>1. Said(Other(p))' = Said(Other(p))
    BY DEF Said
  <2>2. /\ inbox'[Other(p)] = inbox[Other(p)] /\ goodbye'[Other(p)] = goodbye[Other(p)]
        /\ leg'[Other(p)] = leg[Other(p)] /\ result'[Other(p)] = result[Other(p)]
        /\ link'[Other(p)] = link[Other(p)]
        /\ InboxInv(Other(p)) /\ ResultInv(Other(p))
    BY <1>1, <1>2, RelayFacts
  <2> QED
    BY <2>1, <2>2 DEF InboxInv, ResultInv, AtReading
<1>4. CloseInv(p)' /\ CloseInv(Other(p))'
  <2>1. CloseInv(p) /\ CloseInv(Other(p))
    BY <1>2, RelayFacts
  <2>2. CloseInv(p)'
    BY <1>1, <1>2, <2>1 DEF CloseInv
  <2>3. CloseInv(Other(p))'
    BY <1>1, <1>2, <2>1 DEF CloseInv
  <2> QED
    BY <2>2, <2>3
<1>5. \A q \in Peers : LegInv(q)'
  BY <1>2, <1>3, <1>4 DEF LegInv
<1>6. ToldInv'
  BY <1>1, TwoPeers DEF RelayInv, ToldInv
<1>7. ASSUME NEW q \in Peers, q # p
      PROVE  Explained(q) => Explained(q)'
  <2>1. Leaves(Other(q))' = Leaves(Other(q))
    BY DEF Leaves
  <2>2. result'[q] = result[q] /\ goodbye'[q] = goodbye[q] /\ link'[q] = link[q]
    BY <1>1, <1>7
  <2> QED
    BY <2>1, <2>2 DEF Explained
<1>8. MainInv'
  <2>1. ASSUME main.at = "select", NEW q \in Peers, leg'[q] = "stopped"
        PROVE  Explained(q)'
    BY <1>1, <1>7, <2>1 DEF RelayInv, MainInv
  <2>2. ASSUME main.at # "select"
        PROVE  /\ main.first \in Peers /\ main.first # p
               /\ leg'[main.first] = "stopped" /\ Explained(main.first)'
    BY <1>1, <1>7, <2>2 DEF RelayInv, MainInv
  <2>3. main.at \in {"drain", "over"} => Verdict'
    BY <1>1, <2>2 DEF RelayInv, MainInv, Verdict
  <2> QED
    BY <2>1, <2>2, <2>3 DEF RelayInv, MainInv
<1> QED
  BY <1>5, <1>6, <1>8 DEF RelayInv

\* The next frame: a close code is what the peer said last, any other frame
\* leaves that still to be read.
LEMMA ReceiveRelay ==
  ASSUME RelayInv, NEW p \in Peers, Receive(p)
  PROVE  RelayInv'
<1> DEFINE f == Head(inbox[p])
           more == Tail(inbox[p])
<1>1. /\ leg[p] = "read" /\ AtReading(p) /\ inbox[p] # <<>>
      /\ UNCHANGED <<link, goodbye, slow, heard, timed, told, main, open, unsent>>
      /\ inbox' = [inbox EXCEPT ![p] = more]
  BY DEF Receive, Reading, AtReading
<1>2. TypeOK /\ inbox[p] \in Seq(FrameSet) /\ InboxInv(p) /\ ResultInv(p)
  BY RelayFacts DEF RelayInv
<1>3. /\ f \in FrameSet /\ more \in Seq(FrameSet)
      /\ f = inbox[p][1] /\ 1 \in 1..Len(inbox[p])
      /\ \A i \in 1..Len(more) : i + 1 \in 1..Len(inbox[p]) /\ more[i] = inbox[p][i + 1]
      /\ inbox[p][Len(inbox[p])] # f =>
           more # <<>> /\ more[Len(more)] = inbox[p][Len(inbox[p])]
  BY <1>1, <1>2, RestFrames
<1> HIDE DEF f, more
<1>4. /\ inbox'[p] = more /\ \A q \in Peers \ {p} : inbox'[q] = inbox[q]
      /\ inbox' \in [Peers -> Seq(FrameSet)]
  BY <1>1, <1>2, <1>3 DEF TypeOK, FrameSet
<1>5. Said(p)' = Said(p)
  BY <1>1 DEF Said
<1>6. \A i \in 1..Len(inbox'[p]) :
        inbox'[p][i] \in CloseCodes => goodbye'[p] # "none" /\ inbox'[p][i] = Said(p)'
  <2>1. \A i \in 1..Len(inbox[p]) :
          inbox[p][i] \in CloseCodes => goodbye[p] # "none" /\ inbox[p][i] = Said(p)
    BY <1>2 DEF InboxInv
  <2>2. ASSUME NEW i \in 1..Len(more), more[i] \in CloseCodes
        PROVE  goodbye[p] # "none" /\ more[i] = Said(p)
    BY <1>3, <2>1, <2>2
  <2> QED
    BY <1>1, <1>4, <1>5, <2>2
<1>7. CASE f \in CloseCodes
  <2> DEFINE to == IF p = "backend" THEN "flag" ELSE "forward"
             res == [err |-> f, read |-> TRUE]
  <2>1. /\ leg' = [leg EXCEPT ![p] = to] /\ result' = [result EXCEPT ![p] = res]
        /\ sealed' \subseteq sealed \cup {p}
    BY <1>7 DEF Receive, Forwards, Goes, f
  <2>2. f \in {"graceful", "odd"} /\ goodbye[p] # "none" /\ f = Said(p)
    BY <1>2, <1>3, <1>7, FrameCodes DEF InboxInv
  <2>3. res \in Results /\ res.err = f /\ res.read
    BY <1>7 DEF Results
  <2>4. /\ to \in {"flag", "forward"}
        /\ p = "backend" => to = "flag"
        /\ p = "client" => to = "forward"
    OBVIOUS
  <2> HIDE DEF to, res
  <2>5. leg'[p] = to /\ result'[p] = res
    BY <1>2, <2>1 DEF TypeOK
  <2>6. TypeOK'
    BY <1>1, <1>2, <1>4, <2>1, <2>3, <2>4 DEF TypeOK, FrameSet
  <2>7. InboxInv(p)' /\ ResultInv(p)'
    BY <1>1, <1>5, <1>6, <1>7, <2>2, <2>3, <2>4, <2>5 DEF InboxInv, ResultInv, AtReading
  <2>8. /\ \A q \in sealed' : q \in sealed \/ (q = p /\ goodbye[p] # "none")
        /\ to # "stopped"
        /\ p = "backend" => to # "forward"
        /\ p = "client" => to # "flag"
    BY <2>1, <2>2, <2>4
  <2> QED
    BY <1>1, <1>4, <2>1, <2>6, <2>7, <2>8, LegRelay
<1>8. CASE f \notin CloseCodes
  <2> DEFINE to == IF f = "data" THEN "write" ELSE "control"
  <2>1. leg' = [leg EXCEPT ![p] = to] /\ UNCHANGED <<sealed, result>>
    BY <1>8 DEF Receive, Goes, f
  <2>2. to \in {"write", "control"}
    OBVIOUS
  <2> HIDE DEF to
  <2>3. /\ leg'[p] = to /\ result'[p] = result[p]
        /\ result' = [result EXCEPT ![p] = result[p]]
    BY <1>2, <2>1 DEF TypeOK
  <2>4. TypeOK'
    BY <1>1, <1>2, <1>4, <2>1, <2>2 DEF TypeOK, FrameSet
  <2>5. InboxInv(p)'
    BY <1>1, <1>2, <1>3, <1>4, <1>6, <1>8 DEF InboxInv
  <2>6. ResultInv(p)'
    BY <1>1, <1>2, <1>5, <2>2, <2>3 DEF ResultInv, AtReading
  <2> QED
    BY <1>1, <1>4, <2>1, <2>2, <2>3, <2>4, <2>5, <2>6, LegRelay
<1> QED
  BY <1>7, <1>8

\* A leg that stops while it reads: InboxInv asks nothing of it any more.
LEMMA StopRelay ==
  ASSUME RelayInv, NEW p \in Peers, AtReading(p),
         NEW res \in Results, res.err \notin CloseCodes,
         leg' = [leg EXCEPT ![p] = "stopped"], result' = [result EXCEPT ![p] = res],
         UNCHANGED <<inbox, link, goodbye, slow, heard, told, main, open>>,
         timed' \subseteq Peers, unsent \subseteq unsent', unsent' \subseteq Peers,
         sealed' \subseteq sealed \cup {Other(p)},
         main.at = "select" => Explained(p)'
  PROVE  RelayInv'
<1>1. TypeOK /\ InboxInv(p) /\ CloseInv(p) /\ Other(p) \in Peers
  BY RelayFacts, TwoPeers DEF RelayInv
<1>2. leg'[p] = "stopped" /\ result'[p] = res
  BY <1>1 DEF TypeOK
<1>3. TypeOK'
  BY <1>1 DEF TypeOK
<1>4. Said(p)' = Said(p)
  BY DEF Said
<1>5. InboxInv(p)'
  BY <1>1, <1>2, <1>4 DEF InboxInv, AtReading
<1>6. ResultInv(p)'
  BY <1>2 DEF ResultInv, AtReading, CloseCodes
<1> QED
  BY <1>3, <1>5, <1>6, LegRelay

\* A leg that goes back to reading.
LEMMA GoOnRelay ==
  ASSUME RelayInv, NEW p \in Peers, AtReading(p),
         leg' = [leg EXCEPT ![p] = "read"],
         UNCHANGED <<peers, heard, sealed, result, told, main, open, unsent>>,
         timed' \subseteq Peers
  PROVE  RelayInv'
<1> USE DEF peers
<1>1. TypeOK /\ InboxInv(p) /\ ResultInv(p)
  BY RelayFacts DEF RelayInv
<1>2. /\ leg'[p] = "read" /\ result' = [result EXCEPT ![p] = result[p]]
      /\ result'[p] = result[p]
  BY <1>1 DEF TypeOK
<1>3. TypeOK'
  BY <1>1 DEF TypeOK
<1>4. Said(p)' = Said(p)
  BY DEF Said
<1>5. InboxInv(p)'
  BY <1>1, <1>2, <1>4 DEF InboxInv, AtReading
<1>6. ResultInv(p)'
  BY <1>1, <1>2, <1>4 DEF ResultInv, AtReading
<1> QED
  BY <1>2, <1>3, <1>5, <1>6, LegRelay

\* The connection of a peer ends: nothing waits, so the peer has not said
\* goodbye.
LEMMA LinkEndsRelay ==
  ASSUME RelayInv, NEW p \in Peers, LinkEnds(p)
  PROVE  RelayInv'
<1> USE DEF peers, wires
<1>1. /\ AtReading(p) /\ inbox[p] = <<>>
      /\ UNCHANGED <<inbox, link, goodbye, slow, heard, sealed, timed, told, main, open, unsent>>
  BY DEF LinkEnds, Reading, AtReading
<1>2. TypeOK /\ goodbye[p] = "none" /\ InboxInv(p)
  BY <1>1, RelayFacts DEF RelayInv, InboxInv
<1>3. Said(p)' = Said(p)
  BY <1>1 DEF Said
<1>4. CASE link[p] = "fin" /\ Forwards(p, "abnormal")
  <2> DEFINE to == IF p = "backend" THEN "flag" ELSE "forward"
             res == [err |-> "abnormal", read |-> TRUE]
  <2>1. leg' = [leg EXCEPT ![p] = to] /\ result' = [result EXCEPT ![p] = res]
    BY <1>4 DEF Forwards, Goes
  <2>2. res \in Results /\ res.err = "abnormal" /\ res.read
    BY DEF Results, CloseCodes
  <2>3. /\ to \in {"flag", "forward"}
        /\ p = "backend" => to = "flag"
        /\ p = "client" => to = "forward"
    OBVIOUS
  <2> HIDE DEF to, res
  <2>4. leg'[p] = to /\ result'[p] = res
    BY <1>2, <2>1 DEF TypeOK
  <2>5. TypeOK'
    BY <1>1, <1>2, <2>1, <2>2, <2>3 DEF TypeOK
  <2>6. InboxInv(p)' /\ ResultInv(p)'
    BY <1>1, <1>2, <1>3, <1>4, <2>2, <2>3, <2>4 DEF InboxInv, ResultInv, AtReading, CloseCodes
  <2> QED
    BY <1>1, <2>1, <2>3, <2>5, <2>6, LegRelay
<1>5. CASE link[p] = "rst" /\ Stops(p, "net", TRUE)
  <2> DEFINE res == [err |-> "net", read |-> TRUE]
  <2>1. leg' = [leg EXCEPT ![p] = "stopped"] /\ result' = [result EXCEPT ![p] = res]
    BY <1>5 DEF Stops, Goes
  <2>2. res \in Results /\ res.err = "net" /\ res.read /\ res.err \notin CloseCodes
    BY DEF Results, CloseCodes
  <2> HIDE DEF res
  <2>3. result'[p] = res
    BY <1>2, <2>1 DEF TypeOK
  <2>4. Explained(p)'
    BY <1>1, <1>2, <1>5, <2>2, <2>3 DEF Explained
  <2>5. timed \subseteq Peers /\ unsent \subseteq Peers
    BY <1>2 DEF TypeOK
  <2> QED
    BY <1>1, <2>1, <2>2, <2>4, <2>5, StopRelay
<1> QED
  BY <1>4, <1>5 DEF LinkEnds

\* The backend is silent for too long, or its connection or the client's has
\* been closed by the main goroutine.
LEMMA QuietRelay ==
  ASSUME RelayInv, NEW p \in Peers, FallsSilent(p) \/ ReadsClosed(p)
  PROVE  RelayInv'
<1> USE DEF peers, wires
<1>1. /\ AtReading(p)
      /\ UNCHANGED <<inbox, link, goodbye, slow, heard, sealed, timed, told, main, open, unsent>>
  BY DEF FallsSilent, ReadsClosed, Reading, AtReading
<1>2. TypeOK /\ timed \subseteq Peers /\ unsent \subseteq Peers
  BY DEF RelayInv, TypeOK
<1>3. PICK err \in {"idle", "net"} :
        /\ Stops(p, err, TRUE)
        /\ err = "idle" => p = "backend"
        /\ err = "net" => ~open
  BY DEF FallsSilent, ReadsClosed
<1> DEFINE res == [err |-> err, read |-> TRUE]
<1>4. leg' = [leg EXCEPT ![p] = "stopped"] /\ result' = [result EXCEPT ![p] = res]
  BY <1>3 DEF Stops, Goes
<1>5. res \in Results /\ res.err = err /\ res.read /\ res.err \notin CloseCodes
  BY <1>3 DEF Results, CloseCodes
<1> HIDE DEF res
<1>6. result'[p] = res
  BY <1>2, <1>4 DEF TypeOK
<1>7. main.at = "select" => Explained(p)'
  <2>1. ASSUME main.at = "select"
        PROVE  err = "idle" /\ p = "backend"
    BY <1>3, <2>1 DEF RelayInv, MainInv
  <2> QED
    BY <1>5, <1>6, <2>1 DEF Explained
<1> QED
  BY <1>1, <1>2, <1>4, <1>5, <1>7, StopRelay

\* A connection that takes no writes while the leg that writes to it runs, and
\* both are open: its peer has left it.
LEMMA UnwritableLeaves ==
  ASSUME RelayInv, NEW p \in Peers, AtReading(p), Unwritable(Other(p)), open
  PROVE  Leaves(Other(p))
<1>1. goodbye[Other(p)] # "echo" /\ leg[p] # "stopped"
  BY ReadingFacts
<1>2. CloseInv(Other(p)) /\ Other(Other(p)) = p
  BY TwoPeers, RelayFacts
<1> QED
  BY <1>1, <1>2 DEF Unwritable, Leaves, CloseInv

\* What a failed write returns.
LEMMA WriteErrors ==
  \A q : WriteError(q) \in {"timeout", "net"}
BY DEF WriteError

\* A message is passed on, or the peer does not take it.
LEMMA WriteRelay ==
  ASSUME RelayInv, NEW p \in Peers, WriteData(p)
  PROVE  RelayInv'
<1> USE DEF peers
<1> DEFINE q == Other(p)
           err == WriteError(q)
           res == [err |-> err, read |-> FALSE]
<1>1. /\ AtReading(p) /\ TypeOK /\ timed' = timed \cup {q} /\ q \in Peers
      /\ UNCHANGED <<inbox, link, goodbye, slow, heard, told, main, open, unsent>>
  BY TwoPeers DEF WriteData, AtReading, RelayInv
<1>2. timed' \subseteq Peers /\ unsent \subseteq Peers
  BY <1>1 DEF TypeOK
<1>3. CASE Goes(p, "read") /\ UNCHANGED <<result, sealed>>
  BY <1>1, <1>2, <1>3, GoOnRelay DEF Goes
<1>4. CASE /\ Unwritable(q) /\ Stops(p, err, FALSE)
           /\ sealed' = sealed \cup {q}
  <2>1. leg' = [leg EXCEPT ![p] = "stopped"] /\ result' = [result EXCEPT ![p] = res]
    BY <1>4 DEF Stops, Goes
  <2>2. err \in {"timeout", "net"}
    BY WriteErrors
  <2> HIDE DEF err
  <2>3. res \in Results /\ res.err = err /\ ~res.read /\ res.err \notin CloseCodes
    BY <2>2 DEF Results, CloseCodes
  <2> HIDE DEF res
  <2>4. result'[p] = res
    BY <1>1, <2>1 DEF TypeOK
  <2>5. ASSUME main.at = "select"
        PROVE  Explained(p)'
    <3>1. Leaves(q)
      BY <1>1, <1>4, <2>5, UnwritableLeaves DEF RelayInv, MainInv
    <3>2. Leaves(q)'
      BY <1>1, <3>1 DEF Leaves
    <3> QED
      BY <2>2, <2>3, <2>4, <3>2 DEF Explained
  <2> QED
    BY <1>1, <1>2, <1>4, <2>1, <2>3, <2>5, StopRelay
<1> QED
  BY <1>3, <1>4 DEF WriteData

\* A ping or pong is passed on, or is counted as one that cannot be.
LEMMA ControlRelay ==
  ASSUME RelayInv, NEW p \in Peers, PassControl(p)
  PROVE  RelayInv'
<1> USE DEF peers
<1> DEFINE q == Other(p)
           err == IF WriteError(q) = "timeout" /\ p = "backend" THEN "idle" ELSE WriteError(q)
           res == [err |-> err, read |-> TRUE]
<1>1. /\ AtReading(p) /\ TypeOK /\ q \in Peers
      /\ UNCHANGED <<inbox, link, goodbye, slow, heard, timed, told, main, open>>
  BY TwoPeers DEF PassControl, AtReading, RelayInv
<1>2. timed' \subseteq Peers /\ unsent \subseteq Peers
  BY <1>1 DEF TypeOK
<1>3. CASE Goes(p, "read") /\ UNCHANGED <<result, sealed, unsent>>
  BY <1>1, <1>2, <1>3, GoOnRelay DEF Goes
<1>4. CASE /\ Stops(p, err, TRUE)
           /\ sealed' = sealed \cup {q} /\ unsent' = unsent \cup {p}
  <2>1. leg' = [leg EXCEPT ![p] = "stopped"] /\ result' = [result EXCEPT ![p] = res]
    BY <1>4 DEF Stops, Goes
  <2>2. err \in {"timeout", "net", "idle"}
    BY WriteErrors
  <2> HIDE DEF err
  <2>3. res \in Results /\ res.err \notin CloseCodes
    BY <2>2 DEF Results, CloseCodes
  <2> HIDE DEF res
  <2>4. Explained(p)'
    BY <1>4 DEF Explained
  <2>5. unsent \subseteq unsent' /\ unsent' \subseteq Peers
    BY <1>2, <1>4
  <2> QED
    BY <1>1, <1>2, <1>4, <2>1, <2>3, <2>4, <2>5, StopRelay
<1> QED
  BY <1>3, <1>4 DEF PassControl

\* The flag goes up while the leg of the backend has a close code to pass on.
LEMMA SetToldRelay ==
  ASSUME RelayInv, NEW p \in Peers, SetTold(p)
  PROVE  RelayInv'
<1> USE DEF peers, wires
<1>1. /\ leg[p] = "flag" /\ leg' = [leg EXCEPT ![p] = "forward"] /\ told' = TRUE
      /\ UNCHANGED <<inbox, link, goodbye, slow, heard, sealed, timed, result, main,
                     open, unsent>>
  BY DEF SetTold, Goes
<1>2. p = "backend" /\ TypeOK
  BY <1>1, TwoPeers DEF RelayInv, ToldInv
<1>3. /\ TypeOK' /\ leg'[p] = "forward"
      /\ \A q \in Peers \ {p} : leg'[q] = leg[q]
  BY <1>1, <1>2 DEF TypeOK
<1>4. ASSUME NEW q \in Peers
      PROVE  LegInv(q)'
  <2>1. Said(q)' = Said(q)
    BY <1>1 DEF Said
  <2>2. /\ AtReading(q)' => AtReading(q)
        /\ leg'[q] \in {"flag", "forward"} => leg[q] \in {"flag", "forward"}
    BY <1>1, <1>3 DEF AtReading
  <2>3. leg[Other(q)] = "stopped" => leg'[Other(q)] = "stopped"
    BY <1>1, <1>3, TwoPeers
  <2> QED
    BY <1>1, <2>1, <2>2, <2>3, RelayFacts DEF LegInv, InboxInv, ResultInv, CloseInv
<1>5. ToldInv'
  <2>1. result["backend"].err \in CloseCodes
    BY <1>1, <1>2, RelayFacts DEF ResultInv
  <2> QED
    BY <1>1, <1>2, <1>3, <2>1, TwoPeers DEF RelayInv, ToldInv
<1>6. MainInv'
  <2>1. ASSUME NEW q \in Peers
        PROVE  /\ leg'[q] = "stopped" <=> leg[q] = "stopped"
               /\ Explained(q) => Explained(q)'
    BY <1>1, <1>3 DEF Explained, Leaves
  <2>2. Verdict => Verdict'
    BY <1>1 DEF Verdict
  <2> QED
    BY <1>1, <2>1, <2>2 DEF RelayInv, MainInv
<1> QED
  BY <1>3, <1>4, <1>5, <1>6 DEF RelayInv

\* The close code goes out to the other peer, which has heard nothing yet.
LEMMA ForwardCloseRelay ==
  ASSUME RelayInv, NEW p \in Peers, ForwardClose(p)
  PROVE  RelayInv'
<1> USE DEF peers
<1> DEFINE q == Other(p)
<1>1. /\ leg[p] = "forward" /\ leg' = [leg EXCEPT ![p] = "stopped"]
      /\ UNCHANGED <<inbox, link, goodbye, slow, timed, result, told, main, open, unsent>>
      /\ sealed' = sealed \cup {q}
      /\ heard' \in {heard, [heard EXCEPT ![q] = Wire(result[p].err)]}
  BY DEF ForwardClose, Goes
<1>2. /\ TypeOK /\ p \in Peers /\ q \in Peers /\ q # p /\ Other(q) = p
      /\ \A r \in Peers : r = p \/ r = q
  BY TwoPeers DEF RelayInv
<1>3. result[p].err \in CloseCodes /\ result[p].read
  BY <1>1, RelayFacts DEF ResultInv
<1>4. Wire(result[p].err) \in {"graceful", "odd"}
  BY <1>3, FrameCodes
<1>5. heard[q] = "none" /\ goodbye[q] # "echo"
  BY <1>1, <1>2, RelayFacts DEF CloseInv
<1> HIDE DEF q
<1>6. /\ leg'[p] = "stopped" /\ leg'[q] = leg[q] /\ heard'[p] = heard[p]
      /\ heard'[q] \in {"none", Wire(result[p].err)}
  BY <1>1, <1>2, <1>5 DEF TypeOK
<1>7. TypeOK'
  BY <1>1, <1>2, <1>4 DEF TypeOK
<1>8. Said(p)' = Said(p) /\ Said(q)' = Said(q)
  BY <1>1, <1>5, <1>6 DEF Said
<1>9. LegInv(p)'
  <2>1. InboxInv(p) /\ ResultInv(p) /\ CloseInv(p)
    BY RelayFacts
  <2>2. CloseInv(p)'
    BY <1>1, <1>2, <1>6, <2>1 DEF CloseInv, q
  <2>3. InboxInv(p)' /\ ResultInv(p)'
    BY <1>1, <1>6, <1>8, <2>1 DEF InboxInv, ResultInv, AtReading
  <2> QED
    BY <2>2, <2>3 DEF LegInv
<1>10. LegInv(q)'
  <2>1. InboxInv(q) /\ ResultInv(q)
    BY <1>2, RelayFacts
  <2>2. CloseInv(q)'
    BY <1>1, <1>2, <1>3, <1>5, <1>6 DEF CloseInv
  <2>3. InboxInv(q)' /\ ResultInv(q)'
    BY <1>1, <1>6, <1>8, <2>1 DEF InboxInv, ResultInv, AtReading
  <2> QED
    BY <2>2, <2>3 DEF LegInv
<1>11. ToldInv'
  <2>1. heard'["client"] # "none" => heard["client"] # "none" \/ p = "backend"
    BY <1>2, <1>6, TwoPeers
  <2>2. /\ leg'["backend"] = "forward" => leg["backend"] = "forward"
        /\ leg'["client"] # "flag"
    BY <1>2, <1>6, TwoPeers DEF RelayInv, ToldInv
  <2> QED
    BY <1>1, <2>1, <2>2 DEF RelayInv, ToldInv
<1>12. MainInv'
  <2>1. ASSUME NEW r \in Peers, r # p
        PROVE  /\ leg'[r] = "stopped" <=> leg[r] = "stopped"
               /\ Explained(r) => Explained(r)'
    BY <1>1, <1>2, <1>6, <2>1 DEF Explained, Leaves
  <2>2. Explained(p)'
    BY <1>1, <1>3 DEF Explained
  <2>3. Verdict => Verdict'
    BY <1>1 DEF Verdict
  <2> QED
    BY <1>1, <1>6, <2>1, <2>2, <2>3 DEF RelayInv, MainInv
<1> QED
  BY <1>2, <1>7, <1>9, <1>10, <1>11, <1>12 DEF RelayInv

-------------------------------------------------------------------------------
(* The main goroutine.                                                       *)

\* It leaves the legs and the peers alone.
LEMMA MainLeaves ==
  ASSUME RelayInv,
         UNCHANGED <<peers, wires, leg, result, told, unsent>>
  PROVE  /\ \A p \in Peers : LegInv(p)'
         /\ ToldInv'
         /\ \A p \in Peers : Explained(p) => Explained(p)'
<1> USE DEF peers, wires
<1>1. ASSUME NEW p \in Peers
      PROVE  LegInv(p)' /\ (Explained(p) => Explained(p)')
  <2>1. Said(p)' = Said(p)
    BY DEF Said
  <2>2. Explained(p) => Explained(p)'
    BY DEF Explained, Leaves
  <2> QED
    BY <2>1, <2>2, RelayFacts DEF LegInv, InboxInv, ResultInv, CloseInv, AtReading
<1> QED
  BY <1>1 DEF RelayInv, ToldInv

\* Taking the result of a leg, weighing it and waiting for the other leg.
LEMMA MainRelay ==
  ASSUME RelayInv, MainStep
  PROVE  RelayInv'
<1> USE DEF peers, wires
<1>1. UNCHANGED <<peers, wires, leg, result, told, unsent>>
  BY DEF MainStep, Take, Weigh, Drain
<1>2. /\ \A p \in Peers : LegInv(p)'
      /\ ToldInv'
      /\ \A p \in Peers : Explained(p) => Explained(p)'
  BY <1>1, MainLeaves
<1>3. /\ TypeOK
      /\ main \in [at : {"select", "weigh", "drain", "over"},
                   first : Peers \cup {"none"}, atFault : BOOLEAN]
  BY DEF RelayInv, TypeOK
<1>4. ASSUME NEW p \in Peers, Take(p)
      PROVE  TypeOK' /\ MainInv'
  <2>1. /\ main.at = "select" /\ leg[p] = "stopped" /\ open' = open
        /\ main' = [main EXCEPT !.at = "weigh", !.first = p]
    BY <1>4 DEF Take
  <2>2. main'.at = "weigh" /\ main'.first = p
    BY <1>3, <2>1
  <2>3. main' \in [at : {"select", "weigh", "drain", "over"},
                   first : Peers \cup {"none"}, atFault : BOOLEAN]
    BY <1>3, <2>1
  <2>4. TypeOK'
    BY <1>1, <1>3, <2>1, <2>3 DEF TypeOK
  <2>5. Explained(main.first)'
    BY <1>2, <2>1, <2>2 DEF RelayInv, MainInv
  <2> QED
    BY <1>1, <2>1, <2>2, <2>4, <2>5 DEF RelayInv, MainInv
<1>5. CASE Weigh
  <2> DEFINE fault == AtFault(main.first)
  <2>1. /\ main.at = "weigh" /\ open' = FALSE
        /\ main' = [main EXCEPT !.at = "drain", !.atFault = fault]
    BY <1>5 DEF Weigh, CloseBoth
  <2>2. main.first \in Peers /\ leg[main.first] = "stopped" /\ Explained(main.first)
    BY <2>1 DEF RelayInv, MainInv
  <2>3. fault \in BOOLEAN
    BY <1>3, <2>2, RelayFacts DEF AtFault, TypeOK
  <2>4. /\ main.first = "backend" => (fault <=> result["backend"].read)
        /\ main.first = "client" => (fault <=> ~result["client"].read \/ told)
    BY DEF AtFault
  <2> HIDE DEF fault
  <2>5. main'.at = "drain" /\ main'.first = main.first /\ main'.atFault = fault
    BY <1>3, <2>1
  <2>6. main' \in [at : {"select", "weigh", "drain", "over"},
                   first : Peers \cup {"none"}, atFault : BOOLEAN]
    BY <1>3, <2>1, <2>3
  <2>7. TypeOK'
    BY <1>1, <1>3, <2>1, <2>6 DEF TypeOK
  <2>8. goodbye["client"] = "echo" => told
    BY TwoPeers, RelayFacts DEF CloseInv, RelayInv, ToldInv
  <2>9. Verdict'
    BY <1>1, <2>4, <2>5, <2>8 DEF Verdict
  <2>10. Explained(main.first)'
    BY <1>2, <2>2, <2>5
  <2> QED
    BY <1>1, <1>2, <2>1, <2>2, <2>5, <2>7, <2>9, <2>10 DEF RelayInv, MainInv
<1>6. CASE Drain
  <2>1. /\ main.at = "drain" /\ open' = open
        /\ main' = [main EXCEPT !.at = "over"]
    BY <1>6 DEF Drain
  <2>2. main'.at = "over" /\ main'.first = main.first /\ main'.atFault = main.atFault
    BY <1>3, <2>1
  <2>3. main' \in [at : {"select", "weigh", "drain", "over"},
                   first : Peers \cup {"none"}, atFault : BOOLEAN]
    BY <1>3, <2>1
  <2>4. TypeOK'
    BY <1>1, <1>3, <2>1, <2>3 DEF TypeOK
  <2>5. /\ main.first \in Peers /\ leg[main.first] = "stopped" /\ Explained(main.first)
        /\ Verdict /\ ~open
    BY <2>1 DEF RelayInv, MainInv
  <2>6. Verdict'
    BY <1>1, <2>2, <2>5 DEF Verdict
  <2>7. Explained(main.first)'
    BY <1>2, <2>2, <2>5
  <2> QED
    BY <1>1, <1>2, <2>1, <2>2, <2>4, <2>5, <2>6, <2>7 DEF RelayInv, MainInv
<1> QED
  BY <1>2, <1>4, <1>5, <1>6 DEF MainStep, RelayInv

-------------------------------------------------------------------------------
(* The relay.                                                                *)

\* A step that changes nothing keeps the invariant.
LEMMA StutterRelay == RelayInv /\ UNCHANGED vars => RelayInv'
<1> SUFFICES ASSUME RelayInv, UNCHANGED vars PROVE RelayInv'
  OBVIOUS
<1> USE DEF vars, peers, wires
<1>1. /\ \A p \in Peers : LegInv(p)'
      /\ ToldInv'
      /\ \A p \in Peers : Explained(p) => Explained(p)'
  BY MainLeaves
<1>2. TypeOK'
  BY DEF RelayInv, TypeOK
<1>3. MainInv'
  <2>1. Verdict => Verdict'
    BY DEF Verdict
  <2> QED
    BY <1>1, <2>1 DEF RelayInv, MainInv
<1> QED
  BY <1>1, <1>2, <1>3 DEF RelayInv

\* Every step keeps the invariant.
LEMMA StepRelay == RelayInv /\ [Next]_vars => RelayInv'
<1> SUFFICES ASSUME RelayInv, [Next]_vars PROVE RelayInv'
  OBVIOUS
<1>1. ASSUME NEW p \in Peers, LegStep(p) \/ FallsSilent(p)
      PROVE  RelayInv'
  BY <1>1, ReceiveRelay, LinkEndsRelay, QuietRelay, WriteRelay, ControlRelay,
     SetToldRelay, ForwardCloseRelay DEF LegStep
<1>2. ASSUME NEW p \in Peers, PeerStep(p)
      PROVE  RelayInv'
  BY <1>2, PeerRelay
<1> QED
  BY <1>1, <1>2, MainRelay, StutterRelay DEF Next

\* The invariant holds of every behaviour of the relay.
LEMMA RelayInvariant == Spec => []RelayInv
<1> QED
  BY InitRelay, StepRelay, PTL DEF Spec

-------------------------------------------------------------------------------
(* Whom the endpoint's failures are charged to.                              *)

\* A close code of the backend's leg is its own, stands for an end without a
\* word, or is its echo of what the client said.
LEMMA BackendCode ==
  ASSUME RelayInv, result["backend"].err \in CloseCodes
  PROVE  \/ goodbye["backend"] = result["backend"].err
         \/ /\ goodbye["backend"] = "none" /\ link["backend"] = "fin"
            /\ result["backend"].err = "abnormal"
         \/ /\ goodbye["backend"] = "echo" /\ goodbye["client"] # "echo"
            /\ result["backend"].err = heard["backend"]
            /\ \/ goodbye["client"] = heard["backend"]
               \/ heard["backend"] = "graceful" /\ link["client"] = "fin"
<1>1. /\ ResultInv("backend") /\ CloseInv("backend") /\ ResultInv("client")
      /\ Other("backend") = "client"
  BY TwoPeers, RelayFacts
<1>2. CASE result["backend"].err = "abnormal"
  BY <1>1, <1>2 DEF ResultInv
<1>3. CASE result["backend"].err # "abnormal"
  <2>1. goodbye["backend"] # "none" /\ result["backend"].err = Said("backend")
    BY <1>1, <1>3 DEF ResultInv, CloseCodes
  <2>2. ASSUME goodbye["backend"] = "echo"
        PROVE  /\ goodbye["client"] # "echo"
               /\ result["backend"].err = heard["backend"]
               /\ \/ goodbye["client"] = heard["backend"]
                  \/ heard["backend"] = "graceful" /\ link["client"] = "fin"
    <3>1. /\ goodbye["client"] # "echo" /\ result["client"].err \in CloseCodes
          /\ heard["backend"] = Wire(result["client"].err)
          /\ result["backend"].err = heard["backend"]
      BY <1>1, <2>1, <2>2 DEF CloseInv, Said
    <3>2. CASE result["client"].err = "abnormal"
      BY <1>1, <3>1, <3>2 DEF ResultInv, Wire
    <3>3. CASE result["client"].err # "abnormal"
      BY <1>1, <3>1, <3>3 DEF ResultInv, Wire, Said, CloseCodes
    <3> QED
      BY <3>1, <3>2, <3>3
  <2> QED
    BY <2>1, <2>2 DEF Said
<1> QED
  BY <1>2, <1>3

\* What is known of a relay that is over.
LEMMA OverFacts ==
  ASSUME RelayInv, Over
  PROVE  /\ main.first = "client" \/ main.first = "backend"
         /\ Explained(main.first) /\ Verdict
         /\ Blamed <=> \/ result[main.first].err = "idle"
                       \/ main.atFault /\ result[main.first].err # "graceful"
<1>1. /\ main.first \in Peers /\ Explained(main.first) /\ Verdict
  BY DEF Over, RelayInv, MainInv
<1>2. Blamed <=> \/ result[main.first].err = "idle"
                 \/ main.atFault /\ result[main.first].err # "graceful"
  BY DEF Blamed, Outcome, Over
<1> QED
  BY <1>1, <1>2 DEF Peers

\* In a state of the invariant, who is blamed has failed or left.
LEMMA BlameFollows == RelayInv => OnlyFailuresAreBlamed
<1> SUFFICES ASSUME RelayInv, Blamed, unsent = {}
             PROVE  \/ BackendFailed
                    \/ /\ goodbye["backend"] \in {"graceful", "echo"}
                       /\ main.first = "client" \/ goodbye["client"] = "odd"
  BY DEF OnlyFailuresAreBlamed
<1> DEFINE err == result[main.first].err
<1>1. /\ main.first = "client" \/ main.first = "backend"
      /\ Explained(main.first) /\ Verdict
      /\ err = "idle" \/ (main.atFault /\ err # "graceful")
  BY OverFacts DEF Blamed
<1>2. /\ goodbye["backend"] \in {"none", "echo", "graceful", "odd"}
      /\ heard["backend"] \in {"none", "graceful", "odd"}
  BY TwoPeers, RelayFacts, RelayAssumption
<1> HIDE DEF err
<1>3. CASE main.first = "backend"
  <2>1. /\ err = result["backend"].err
        /\ main.atFault <=> result["backend"].read
    BY <1>1, <1>3 DEF err, Verdict
  <2>2. CASE result["backend"].read /\ err \in CloseCodes
    <3>1. err \in {"odd", "abnormal"}
      BY <1>1, <2>2 DEF CloseCodes
    <3> QED
      BY <1>2, <2>1, <2>2, <3>1, BackendCode DEF BackendFailed
  <2>3. CASE err = "idle"
    BY <2>1, <2>3 DEF BackendFailed
  <2>4. CASE link["backend"] # "up" /\ goodbye["backend"] = "none"
    BY <2>4 DEF BackendFailed
  <2>5. CASE ~result["backend"].read /\ err \in {"timeout", "net"}
    BY <1>1, <2>1, <2>5
  <2> QED
    BY <1>1, <1>3, <2>1, <2>2, <2>3, <2>4, <2>5 DEF Explained
<1>4. CASE main.first = "client"
  <2>1. CASE told
    <3>1. result["backend"].err \in CloseCodes
      BY <2>1 DEF RelayInv, ToldInv
    <3> QED
      BY <1>2, <1>4, <3>1, BackendCode DEF BackendFailed, CloseCodes
  <2>2. CASE ~told
    <3>1. err = result["client"].err /\ ("client" # "backend")
      BY <1>4 DEF err
    <3>2. main.atFault => ~result["client"].read
      BY <1>1, <1>4, <2>2 DEF Verdict
    <3>3. Leaves("backend")
      BY <1>1, <1>4, <3>1, <3>2, TwoPeers DEF Explained, CloseCodes
    <3> QED
      BY <1>2, <1>4, <3>3 DEF Leaves, BackendFailed
  <2> QED
    BY <2>1, <2>2
<1> QED
  BY <1>1, <1>3, <1>4

\* In a state of the invariant, a client that stays means a backend that is
\* blamed, or one of the two ways to go that are taken for the client's.
LEMMA FailureFollows == RelayInv => FailuresAreBlamed
<1> SUFFICES ASSUME RelayInv, Over, unsent = {}, ClientStays, ~Blamed
             PROVE  \/ goodbye["backend"] = "graceful"
                    \/ /\ link["backend"] = "fin" /\ goodbye["client"] = "echo"
                       /\ main.first = "client"
  BY DEF FailuresAreBlamed
<1> DEFINE err == result[main.first].err
<1>1. /\ main.first = "client" \/ main.first = "backend"
      /\ Explained(main.first) /\ Verdict
      /\ err # "idle" /\ (main.atFault => err = "graceful")
  BY OverFacts
<1>2. /\ goodbye["client"] \in {"none", "echo"} /\ link["client"] = "up"
      /\ ~Leaves("client")
  BY DEF ClientStays, Leaves
<1> HIDE DEF err
<1>3. CASE main.first = "backend"
  <2>1. /\ err = result["backend"].err
        /\ main.atFault <=> result["backend"].read
    BY <1>1, <1>3 DEF err, Verdict
  <2>2. result["backend"].read
    BY <1>1, <1>2, <1>3, TwoPeers DEF Explained
  <2>3. err = "graceful" /\ err \in CloseCodes
    BY <1>1, <2>1, <2>2 DEF CloseCodes
  <2> QED
    BY <1>2, <2>1, <2>3, BackendCode
<1>4. CASE main.first = "client"
  <2>1. /\ err = result["client"].err
        /\ ~result["client"].read \/ goodbye["client"] = "echo" => main.atFault
    BY <1>1, <1>4 DEF err, Verdict
  <2>2. result["client"].read /\ err \in CloseCodes
    BY <1>1, <1>2, <1>4, <2>1 DEF Explained
  <2>3. ResultInv("client") /\ CloseInv("client") /\ Other("client") = "backend"
    BY TwoPeers, RelayFacts
  <2>4. goodbye["client"] = "echo"
    BY <1>2, <2>1, <2>2, <2>3 DEF ResultInv, CloseCodes
  <2>5. err = "graceful" /\ err = heard["client"]
    BY <1>1, <2>1, <2>3, <2>4 DEF ResultInv, Said
  <2>6. /\ result["backend"].err \in CloseCodes /\ goodbye["backend"] # "echo"
        /\ Wire(result["backend"].err) = "graceful"
    BY <2>3, <2>4, <2>5 DEF CloseInv
  <2>7. result["backend"].err \in {"graceful", "abnormal"}
    BY <2>6 DEF Wire, CloseCodes
  <2>8. goodbye["backend"] # "abnormal"
    BY TwoPeers, RelayFacts, RelayAssumption
  <2> QED
    BY <1>4, <2>4, <2>6, <2>7, <2>8, BackendCode
<1> QED
  BY <1>1, <1>3, <1>4

\* Every state of the relay has the shape TypeOK gives it: the frames that
\* wait, the close frames sent and passed on, the legs and their results.
THEOREM TypeCorrect == Spec => []TypeOK
<1>1. RelayInv => TypeOK
  BY DEF RelayInv
<1> QED
  BY <1>1, RelayInvariant, PTL

\* An endpoint is charged with a relay only if it failed it, save for the two
\* races OnlyFailuresAreBlamed names (defaultProxyWebSocket: backendAtFault).
THEOREM BlameCorrect == Spec => []OnlyFailuresAreBlamed
BY RelayInvariant, BlameFollows, PTL

\* A relay the client did not end is charged to the backend, whichever leg
\* stops first, with the exceptions FailuresAreBlamed names.
THEOREM FailuresCorrect == Spec => []FailuresAreBlamed
BY RelayInvariant, FailureFollows, PTL
===============================================================================
