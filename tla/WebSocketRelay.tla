---------------------------- MODULE WebSocketRelay ----------------------------
(* One WebSocket that the load balancer relays: defaultProxyWebSocket of     *)
(* internal/server/server.go from the upgrade on, with proxyWebSocketCopy    *)
(* and the control forwarders.  The leg of a peer reads what that peer sends *)
(* and writes it to the other one; the main goroutine takes the result of    *)
(* the leg that stops first, closes both connections, waits for the other    *)
(* leg and decides whether the endpoint is to blame.                         *)
(*                                                                           *)
(* Close codes count by what the code tells apart: "graceful" stands for     *)
(* 1000, 1001 and 1005, "odd" for 1011 and the like, and "abnormal" for 1006,*)
(* which gorilla/websocket makes of a connection that ends without a close   *)
(* frame.  That library is modelled from how it is used here: it answers a   *)
(* close frame by itself, and a connection on which a close frame went out   *)
(* or a write failed takes no more writes.                                   *)
EXTENDS Naturals, Sequences

CONSTANTS
    Codes,      \* close codes the peers send: a subset of {"graceful", "odd"}
    Frames,     \* what else they send: a subset of {"data", "ping"}
    Faults,     \* subset of {"drop", "slow", "quiet", "silence"}
    MaxFrames   \* bound: frames a peer sends

ASSUME RelayAssumption ==
    /\ Codes \subseteq {"graceful", "odd"}
    /\ Frames \subseteq {"data", "ping"}
    /\ Faults \subseteq {"drop", "slow", "quiet", "silence"}
    /\ MaxFrames \in Nat

Peers == {"client", "backend"}
Other(p) == IF p = "client" THEN "backend" ELSE "client"

VARIABLES
    inbox,     \* frames of each peer that its leg has still to read
    link,      \* "up", "fin": the peer ended the connection, "rst": it broke
    goodbye,   \* the close frame each peer has sent: "none", a code or "echo"
    heard,     \* the close frame the relay has passed on to each peer
    slow,      \* peers that no longer take what is written to them
    sealed,    \* connections that take no more writes
    timed,     \* peers to which a message was written: it set a deadline
    leg,       \* where the goroutine that reads each peer is
    result,    \* what it stopped with
    told,      \* closeSentToClient
    main,      \* the main goroutine: at, first leg to stop, backendAtFault
    open,      \* the relay has closed neither connection
    unsent     \* history: peers whose pings or pongs could not be passed on

vars == <<inbox, link, goodbye, heard, slow, sealed, timed, leg, result,
          told, main, open, unsent>>
peers == <<inbox, link, goodbye, slow>>
wires == <<heard, sealed, timed>>

CloseCodes == {"graceful", "odd", "abnormal"}

\* A result is a close code, the silence of the backend, a write that timed
\* out, or any other error of the network; read says which call returned it.
Running == [err |-> "none", read |-> FALSE]
Results == [err : CloseCodes \cup {"none", "idle", "timeout", "net"}, read : BOOLEAN]

TypeOK ==
    /\ inbox \in [Peers -> Seq(Frames \cup {"graceful", "odd"})]
    /\ link \in [Peers -> {"up", "fin", "rst"}]
    /\ goodbye \in [Peers -> Codes \cup {"none", "echo"}]
    /\ heard \in [Peers -> {"none", "graceful", "odd"}]
    /\ slow \subseteq Peers /\ sealed \subseteq Peers /\ timed \subseteq Peers
    /\ leg \in [Peers -> {"read", "write", "control", "flag", "forward", "stopped"}]
    /\ result \in [Peers -> Results]
    /\ told \in BOOLEAN /\ open \in BOOLEAN /\ unsent \subseteq Peers
    /\ main \in [at : {"select", "weigh", "drain", "over"},
                 first : Peers \cup {"none"}, atFault : BOOLEAN]

Init ==
    /\ inbox = [p \in Peers |-> <<>>]
    /\ link = [p \in Peers |-> "up"]
    /\ goodbye = [p \in Peers |-> "none"]
    /\ heard = [p \in Peers |-> "none"]
    /\ slow = {} /\ sealed = {} /\ timed = {}
    /\ leg = [p \in Peers |-> "read"]
    /\ result = [p \in Peers |-> Running]
    /\ told = FALSE /\ unsent = {}
    /\ main = [at |-> "select", first |-> "none", atFault |-> FALSE]
    /\ open = TRUE

-------------------------------------------------------------------------------
(* The peers.                                                                *)

\* What a peer does once a leg has reported makes no difference, nor what it
\* sends once its own leg reads no more.
Connected(p) == link[p] = "up" /\ main.at = "select"
Talking(p) ==
    Connected(p) /\ goodbye[p] = "none" /\ leg[p] \in {"read", "write", "control"}

\* MaxFrames bounds what waits to be read, not what is sent in all.
Send(p, f) ==
    /\ Talking(p) /\ Len(inbox[p]) < MaxFrames
    /\ inbox' = [inbox EXCEPT ![p] = Append(@, f)]
    /\ UNCHANGED <<link, goodbye, slow, wires, leg, result, told, main, open, unsent>>

SayGoodbye(p, c) ==
    /\ Talking(p)
    /\ goodbye' = [goodbye EXCEPT ![p] = c]
    /\ inbox' = [inbox EXCEPT ![p] = Append(@, c)]
    /\ UNCHANGED <<link, slow, wires, leg, result, told, main, open, unsent>>

\* A peer that is sent a close frame answers with the same code.
EchoGoodbye(p) ==
    /\ Talking(p) /\ heard[p] # "none"
    /\ goodbye' = [goodbye EXCEPT ![p] = "echo"]
    /\ inbox' = [inbox EXCEPT ![p] = Append(@, heard[p])]
    /\ UNCHANGED <<link, slow, wires, leg, result, told, main, open, unsent>>

\* After its close frame or without one; what it sent before can be read.
Drop(p) ==
    /\ "drop" \in Faults /\ Connected(p)
    /\ \E how \in {"fin", "rst"} : link' = [link EXCEPT ![p] = how]
    /\ UNCHANGED <<inbox, goodbye, slow, wires, leg, result, told, main, open, unsent>>

\* Its buffers are full, which takes some data.
Stall(p) ==
    /\ "slow" \in Faults /\ Connected(p) /\ p \in timed \ slow
    /\ slow' = slow \cup {p}
    /\ UNCHANGED <<inbox, link, goodbye, wires, leg, result, told, main, open, unsent>>

-------------------------------------------------------------------------------
(* Writing to a peer.                                                        *)

\* A peer that has closed its end resets the connection at the second write.
Writable(q) == open /\ q \notin sealed /\ link[q] # "rst" /\ q \notin slow

Unwritable(q) == ~open \/ q \in sealed \/ link[q] # "up" \/ q \in slow

\* The deadline is what ends a write to a slow peer.
WriteError(q) ==
    IF open /\ q \notin sealed /\ link[q] = "up" THEN "timeout" ELSE "net"

Goes(p, where) == leg' = [leg EXCEPT ![p] = where]

Stops(p, err, read) ==
    /\ Goes(p, "stopped")
    /\ result' = [result EXCEPT ![p] = [err |-> err, read |-> read]]

-------------------------------------------------------------------------------
(* The legs.                                                                 *)

Reading(p) == leg[p] = "read" /\ open

\* 1005, 1006 and 1015 must not be sent: they go out as 1001.
Wire_Verbatim(c) == c
Wire(c) == IF c = "abnormal" THEN "graceful" ELSE c

\* The leg of the client has no flag to set.
Forwards(p, c) ==
    /\ Goes(p, IF p = "backend" THEN "flag" ELSE "forward")
    /\ result' = [result EXCEPT ![p] = [err |-> c, read |-> TRUE]]

\* A close frame is answered before ReadMessage returns, unless a blocked
\* write to the same peer keeps the answer waiting for too long.
Receive(p) ==
    LET f == Head(inbox[p]) IN
    /\ Reading(p) /\ inbox[p] # <<>>
    /\ inbox' = [inbox EXCEPT ![p] = Tail(@)]
    /\ IF f \in CloseCodes
       THEN /\ Forwards(p, f)
            /\ sealed' = IF p \in slow /\ leg[Other(p)] \in {"write", "control"}
                         THEN sealed ELSE sealed \cup {p}
       ELSE /\ Goes(p, IF f = "data" THEN "write" ELSE "control")
            /\ UNCHANGED <<sealed, result>>
    /\ UNCHANGED <<link, goodbye, slow, heard, timed, told, main, open, unsent>>

LinkEnds(p) ==
    /\ Reading(p) /\ inbox[p] = <<>>
    /\ \/ link[p] = "fin" /\ Forwards(p, "abnormal")
       \/ link[p] = "rst" /\ Stops(p, "net", TRUE)
    /\ UNCHANGED <<peers, wires, told, main, open, unsent>>

\* Nothing from the backend for wsIdleTimeout; the client may be silent.
FallsSilent(p) ==
    /\ "silence" \in Faults /\ p = "backend"
    /\ Reading(p) /\ inbox[p] = <<>> /\ link[p] = "up"
    /\ Stops(p, "idle", TRUE)
    /\ UNCHANGED <<peers, wires, told, main, open, unsent>>

\* The main goroutine has closed the connection the leg reads.
ReadsClosed(p) ==
    /\ leg[p] = "read" /\ ~open
    /\ Stops(p, "net", TRUE)
    /\ UNCHANGED <<peers, wires, told, main, open, unsent>>

\* Every message sets a deadline for its own write, and for all that follow
\* until the next.
WriteData(p) ==
    LET q == Other(p) IN
    /\ leg[p] = "write"
    /\ timed' = timed \cup {q}
    /\ \/ /\ Writable(q)
          /\ Goes(p, "read")
          /\ UNCHANGED <<result, sealed>>
       \/ /\ Unwritable(q)
          /\ Stops(p, WriteError(q), FALSE)
          /\ sealed' = sealed \cup {q}
    /\ UNCHANGED <<peers, heard, told, main, open, unsent>>

\* A ping or pong is passed on inside ReadMessage, which returns the error of
\* the write; on the leg of the backend a timeout is taken for its silence.
PassControl(p) ==
    LET q == Other(p)
        err == WriteError(q)
    IN
    /\ leg[p] = "control"
    /\ \/ /\ Writable(q)
          /\ Goes(p, "read")
          /\ UNCHANGED <<result, sealed, unsent>>
       \/ /\ Unwritable(q)
          /\ Stops(p, IF err = "timeout" /\ p = "backend" THEN "idle" ELSE err, TRUE)
          /\ sealed' = sealed \cup {q}
          /\ unsent' = unsent \cup {p}
    /\ UNCHANGED <<peers, heard, timed, told, main, open>>

\* closeSentToClient is set only once the close frame is out.
SetTold_Late(p) ==
    /\ leg[p] = "flag"
    /\ Goes(p, "forward")
    /\ told' = (told \/ heard["client"] # "none")
    /\ UNCHANGED <<peers, wires, result, main, open, unsent>>

SetTold(p) ==
    /\ leg[p] = "flag"
    /\ Goes(p, "forward")
    /\ told' = TRUE
    /\ UNCHANGED <<peers, wires, result, main, open, unsent>>

\* The close frame goes out under the deadline of the last message, which
\* may have passed since.
Expired(q) == "quiet" \in Faults /\ q \in timed

ForwardClose(p) ==
    LET q == Other(p) IN
    /\ leg[p] = "forward"
    /\ \/ /\ Writable(q)
          /\ heard' = [heard EXCEPT ![q] = Wire(result[p].err)]
       \/ /\ Unwritable(q) \/ Expired(q)
          /\ heard' = heard
    /\ sealed' = sealed \cup {q}
    /\ Goes(p, "stopped")
    /\ UNCHANGED <<peers, timed, result, told, main, open, unsent>>

-------------------------------------------------------------------------------
(* The main goroutine.                                                       *)

Take(p) ==
    /\ main.at = "select" /\ leg[p] = "stopped"
    /\ main' = [main EXCEPT !.at = "weigh", !.first = p]
    /\ UNCHANGED <<peers, wires, leg, result, told, open, unsent>>

\* Whatever stops the leg of the backend is the backend's.
AtFault_AnyError(p) == p = "backend" \/ ~result[p].read \/ told

\* backendAtFault
AtFault(p) ==
    IF p = "backend" THEN result[p].read
    ELSE ~result[p].read \/ told

CloseBoth == open' = FALSE

\* Only the connection of the backend is closed.
Weigh_LeavesClient ==
    /\ main.at = "weigh"
    /\ main' = [main EXCEPT !.at = "drain", !.atFault = AtFault(main.first)]
    /\ open' = (main.first = "backend")
    /\ UNCHANGED <<peers, wires, leg, result, told, unsent>>

Weigh ==
    /\ main.at = "weigh"
    /\ main' = [main EXCEPT !.at = "drain", !.atFault = AtFault(main.first)]
    /\ CloseBoth
    /\ UNCHANGED <<peers, wires, leg, result, told, unsent>>

Drain ==
    /\ main.at = "drain" /\ leg[Other(main.first)] = "stopped"
    /\ main' = [main EXCEPT !.at = "over"]
    /\ UNCHANGED <<peers, wires, leg, result, told, open, unsent>>

\* What the handler makes of it: nil is a success, an error that
\* isExpectedWSClose knows ends the request, any other one is retried.
Outcome ==
    LET err == result[main.first].err IN
    IF err # "idle" /\ (~main.atFault \/ err = "graceful") THEN "ended"
    ELSE IF err \in {"abnormal", "timeout"} THEN "dropped"
    ELSE "failed"

Over == main.at = "over"
Blamed == Over /\ Outcome # "ended"

-------------------------------------------------------------------------------

LegStep(p) ==
    \/ Receive(p) \/ LinkEnds(p) \/ ReadsClosed(p)
    \/ WriteData(p) \/ PassControl(p) \/ SetTold(p) \/ ForwardClose(p)

MainStep == (\E p \in Peers : Take(p)) \/ Weigh \/ Drain

PeerStep(p) ==
    \/ \E f \in Frames : Send(p, f)
    \/ \E c \in Codes : SayGoodbye(p, c)
    \/ EchoGoodbye(p) \/ Drop(p) \/ Stall(p)

Next ==
    \/ \E p \in Peers : LegStep(p) \/ FallsSilent(p) \/ PeerStep(p)
    \/ MainStep

Spec == Init /\ [][Next]_vars

\* Goroutines run, calls end at their deadlines, and what a peer sent is read.
\* Nothing is assumed of the peers.
FairSpec == Spec /\ (\A p \in Peers : WF_vars(LegStep(p))) /\ WF_vars(MainStep)

-------------------------------------------------------------------------------
(* Properties.                                                               *)

BackendFailed ==
    \/ goodbye["backend"] = "odd"
    \/ goodbye["backend"] = "none" /\ link["backend"] # "up"
    \/ result["backend"].err = "idle"
    \/ "backend" \in slow

\* An endpoint is charged with a relay only if it failed it, save for two
\* races of an endpoint that closes gracefully or answers a close frame: the
\* leg of the client stops first and its error is taken for the client's
\* answer, or the endpoint's answer to an odd close of the client does.
\* (A ping that cannot be passed on is charged to the peer that sent it.)
OnlyFailuresAreBlamed ==
    Blamed /\ unsent = {} =>
        \/ BackendFailed
        \/ /\ goodbye["backend"] \in {"graceful", "echo"}
           /\ main.first = "client" \/ goodbye["client"] = "odd"

\* The client has done nothing to end the relay but answer a close frame.
ClientStays ==
    goodbye["client"] \in {"none", "echo"} /\ link["client"] = "up" /\ "client" \notin slow

\* A relay that the client did not end is charged to the backend whichever
\* leg stops first, with one exception: a connection dropped without a close
\* frame reaches the client as 1001, and its echo of that comes in first.
FailuresAreBlamed ==
    Over /\ unsent = {} /\ ClientStays =>
        \/ Blamed
        \/ goodbye["backend"] = "graceful"
        \/ link["backend"] = "fin" /\ goodbye["client"] = "echo" /\ main.first = "client"

\* Once a peer has closed or dropped its connection, or a leg has stopped,
\* both legs stop and the handler goes on.
RelayEnds ==
    (\E p \in Peers : goodbye[p] # "none" \/ link[p] # "up" \/ leg[p] = "stopped") ~> Over
===============================================================================
