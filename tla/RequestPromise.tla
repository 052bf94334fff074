---------------------------- MODULE RequestPromise ----------------------------
(* What the load balancer promises each of its clients, whatever becomes of  *)
(* the endpoints: endpoints are asked one at a time, none of them twice, no  *)
(* more than MaxRetries, and of the metered ones no more than MaxMetered;    *)
(* what is passed on is one whole answer, after any that broke off; and      *)
(* nothing follows it.  RequestRouting shows how.                            *)
EXTENDS Naturals, FiniteSets

CONSTANTS
    Requests, Endpoints,
    MaxRetries,
    Metered, MaxMetered,  \* endpoints of which only so many may be asked
    None

VARIABLES
    protocol,  \* of each request
    phase,     \* "none", "open" or "over"
    asked,     \* endpoints the request was sent to
    asking,    \* the one it is at now, or None
    heard,     \* how many answers the client has seen begin
    broken     \* whether one broke off

vars == <<protocol, phase, asked, asking, heard, broken>>

Init ==
    /\ protocol \in [Requests -> {"http", "ws"}]
    /\ phase = [r \in Requests |-> "none"]
    /\ asked = [r \in Requests |-> {}]
    /\ asking = [r \in Requests |-> None]
    /\ heard = [r \in Requests |-> 0]
    /\ broken = [r \in Requests |-> FALSE]

Begin(r) ==
    /\ phase[r] # "open"
    /\ \E p \in {"http", "ws"} : protocol' = [protocol EXCEPT ![r] = p]
    /\ phase' = [phase EXCEPT ![r] = "open"]
    /\ asked' = [asked EXCEPT ![r] = {}]
    /\ asking' = [asking EXCEPT ![r] = None]
    /\ heard' = [heard EXCEPT ![r] = 0]
    /\ broken' = [broken EXCEPT ![r] = FALSE]

Ask(r, e) ==
    /\ phase[r] = "open" /\ asking[r] = None
    /\ e \notin asked[r] /\ Cardinality(asked[r]) < MaxRetries
    /\ e \in Metered => Cardinality(asked[r] \cap Metered) < MaxMetered
    /\ asked' = [asked EXCEPT ![r] = @ \cup {e}]
    /\ asking' = [asking EXCEPT ![r] = e]
    /\ UNCHANGED <<protocol, phase, heard, broken>>

\* A WebSocket stands, and may go on for as long as it likes.
Connect(r) ==
    /\ protocol[r] = "ws" /\ asking[r] # None /\ heard[r] = 0
    /\ heard' = [heard EXCEPT ![r] = 1]
    /\ UNCHANGED <<protocol, phase, asked, asking, broken>>

\* The endpoint is given up; the client may have seen an answer begin and
\* break off, or what stood do so.
GiveUpOn(r) ==
    /\ asking[r] # None
    /\ asking' = [asking EXCEPT ![r] = None]
    /\ \/ UNCHANGED <<heard, broken>>
       \/ /\ broken' = [broken EXCEPT ![r] = TRUE]
          /\ \E n \in {0, 1} : heard' = [heard EXCEPT ![r] = @ + n]
    /\ UNCHANGED <<protocol, phase, asked>>

\* The last answer is the endpoint's or the balancer's own.  An upgraded
\* connection gets none; over WebSocket it may also be left out.
Finish(r) ==
    /\ phase[r] = "open"
    /\ phase' = [phase EXCEPT ![r] = "over"]
    /\ asking' = [asking EXCEPT ![r] = None]
    /\ \E n \in {0, 1} :
          /\ n = 0 => protocol[r] = "ws"
          /\ n = 1 => heard[r] = 0 \/ broken[r]
          /\ heard' = [heard EXCEPT ![r] = @ + n]
    /\ UNCHANGED <<protocol, asked, broken>>

Next ==
    \E r \in Requests :
        \/ Begin(r) \/ Connect(r) \/ GiveUpOn(r) \/ Finish(r)
        \/ \E e \in Endpoints : Ask(r, e)

Spec == Init /\ [][Next]_vars
===============================================================================
