---------------------------- MODULE RequestRouting ----------------------------
(* How the load balancer serves one request: handleRequestHTTP and           *)
(* handleRequestWS of internal/server/server.go with what they call, for     *)
(* several requests at a time.  A request lists the endpoints it may use,    *)
(* one read of Valkey after the other, then tries them in order of role      *)
(* until one serves it, the retries are spent or nothing is left.            *)
(*                                                                           *)
(* Shared by the requests: the capacity counters of the current window and   *)
(* the rate-limit flags.  Health is the business of another module: here an  *)
(* endpoint may be missing from a listing for any reason, and `blamed'       *)
(* records each call of markEndpointUnhealthyProtocol.  Which endpoint of a  *)
(* tier has the lowest score is left open.                                   *)
EXTENDS Integers, FiniteSets, Sequences

CONSTANTS
    Requests,             \* handler goroutines; one serves many requests in turn
    Endpoints,
    NoWSURL,              \* those configured without a ws_url
    Protocols,            \* those the clients use: a subset of {"http", "ws"}
    Role,                 \* the configured role of each endpoint
    Ceiling,              \* requests per window, 0 where there is no ceiling
    MaxRetries,           \* PROXY_MAX_RETRIES
    PublicFirst,          \* PUBLIC_FIRST
    PublicFirstAttempts,  \* PUBLIC_FIRST_ATTEMPTS
    Faults                \* subset of {"store", "context"}

None == "none"

\* What the balancer says to a client on its own account.
OwnAnswers == {"101", "400", "429", "502", "503", "504"}

ASSUME EndpointsAssumption ==
    /\ Endpoints \cap (OwnAnswers \cup {None}) = {}
    /\ Role \in [Endpoints -> {"public", "primary", "fallback"}]
    /\ Ceiling \in [Endpoints -> Nat]
    /\ NoWSURL \subseteq Endpoints
ASSUME RequestsAssumption ==
    /\ IsFiniteSet(Requests) /\ Requests # {}
    /\ Protocols \subseteq {"http", "ws"} /\ Protocols # {}
ASSUME LimitsAssumption ==
    /\ MaxRetries \in Nat /\ PublicFirstAttempts \in Nat
    /\ PublicFirst \in BOOLEAN
    /\ Faults \subseteq {"store", "context"}

VARIABLES
    pc,       \* where each handler is
    todo,     \* endpoints the listing has still to look at
    avail,    \* allEndpoints: those this request may still use
    at,       \* the endpoint the request is at now, None between two tries
    job,      \* the loop's counters, and what came of the request
    ctx,      \* "open", or "over": the client left or PROXY_TIMEOUT has passed
    used,     \* capacity counter of each endpoint in the current window
    limited,  \* endpoints with RateLimited set
    strays    \* history: tries of each endpoint since it was set, counted up
              \* to one more than there are handlers

vars == <<pc, todo, avail, at, job, ctx, used, limited, strays>>
flow == <<pc, todo, avail, at, job, ctx>>
store == <<used, limited, strays>>

Fates == {"untried", "sent",     \* not yet, or under way
          "failed", "limited",   \* the endpoint did not serve the request
          "balked",              \* it answered 400
          "cut", "unwanted",     \* nothing wrong with it: see CutShort, UpgradeFails
          "broke",               \* it answered and broke off
          "won"}

NewJob(p) ==
          [protocol |-> p, retries |-> 0, publics |-> 0, first400 |-> None, listed |-> {},
           fate |-> [e \in Endpoints |-> "untried"], blamed |-> {},
           said |-> <<>>, giving_up |-> FALSE,
           stuck |-> "no"]     \* history: what kept a choice from being made

-----------------------------------------------------------------------------
(* Small operators                                                           *)

PriorityOrder ==
    IF PublicFirst THEN [public |-> 1, primary |-> 2, fallback |-> 3]
                   ELSE [primary |-> 1, fallback |-> 2, public |-> 3]

BestTier(S) == {e \in S : \A f \in S : PriorityOrder[Role[e]] <= PriorityOrder[Role[f]]}

AtCeiling(e) == Ceiling[e] # 0 /\ used[e] >= Ceiling[e]

\* An endpoint past this test enters the list if its health allows.  A read
\* of Valkey that fails does not keep it out.
Admitted(e) == "store" \in Faults \/ (e \notin limited /\ ~AtCeiling(e))

OverPublicBudget(r, e) ==
    /\ PublicFirst /\ Role[e] = "public"
    /\ job[r].publics >= PublicFirstAttempts

\* A listing goes by HasWS of the record in Valkey, which may be older than
\* the configuration.
Unlinked(r, e) == job[r].protocol = "ws" /\ e \in NoWSURL

Exhausted_OneMore(r) == job[r].retries > MaxRetries \/ avail[r] = {}
Exhausted(r) == job[r].retries >= MaxRetries \/ avail[r] = {}

Tried(r) == {e \in Endpoints : job[r].fate[e] # "untried"}

-----------------------------------------------------------------------------
(* Ends of a try                                                             *)

\* The handler returns.
Finish(r, j) ==
    /\ pc' = [pc EXCEPT ![r] = "done"]
    /\ job' = [job EXCEPT ![r] = j]
    /\ avail' = [avail EXCEPT ![r] = {}]
    /\ at' = [at EXCEPT ![r] = None]
    /\ UNCHANGED <<todo, ctx>>

\* What goes out to the client; nothing more once its connection is hijacked.
Say(j, what) == IF j.said = <<"101">> THEN j ELSE [j EXCEPT !.said = Append(@, what)]

Blame(j, e) == [j EXCEPT !.blamed = @ \cup {e}]

\* The endpoint at hand is done with, for the reason given.
Ended(r, fate) == [job[r] EXCEPT !.fate[at[r]] = fate]

\* The endpoint stays in the list.
Lose_Keeps(r, j) ==
    /\ pc' = [pc EXCEPT ![r] = "choosing"]
    /\ at' = [at EXCEPT ![r] = None]
    /\ job' = [job EXCEPT ![r] = [j EXCEPT !.retries = @ + 1]]
    /\ UNCHANGED <<todo, avail, ctx>>

\* The endpoint leaves the list, a retry is spent, and the loop goes round.
Lose(r, j) ==
    /\ pc' = [pc EXCEPT ![r] = "choosing"]
    /\ avail' = [avail EXCEPT ![r] = @ \ {at[r]}]
    /\ at' = [at EXCEPT ![r] = None]
    /\ job' = [job EXCEPT ![r] = [j EXCEPT !.retries = @ + 1]]
    /\ UNCHANGED <<todo, ctx>>

-----------------------------------------------------------------------------
(* Listing                                                                   *)

Init ==
    /\ pc = [r \in Requests |-> "idle"]
    /\ todo = [r \in Requests |-> {}]
    /\ avail = [r \in Requests |-> {}]
    /\ at = [r \in Requests |-> None]
    /\ job \in [Requests -> {NewJob(p) : p \in Protocols}]
    /\ ctx = [r \in Requests |-> "open"]
    /\ used = [e \in Endpoints |-> 0]
    /\ limited = {}
    /\ strays = [e \in Endpoints |-> 0]

Arrive(r) ==
    /\ pc[r] \in {"idle", "done"}
    /\ pc' = [pc EXCEPT ![r] = "listing"]
    /\ todo' = [todo EXCEPT ![r] = Endpoints]
    /\ avail' = [avail EXCEPT ![r] = {}]
    /\ at' = [at EXCEPT ![r] = None]
    /\ \E p \in Protocols : job' = [job EXCEPT ![r] = NewJob(p)]
    /\ ctx' = [ctx EXCEPT ![r] = "open"]
    /\ UNCHANGED store

\* The body cannot be read, or a GET asks for no WebSocket.
Refuse(r) ==
    /\ pc[r] = "listing" /\ todo[r] = Endpoints
    /\ Finish(r, Say(job[r], "400"))
    /\ UNCHANGED store

\* A capacity check that lets an endpoint at its ceiling pass.
Consider_Ungated(r, e) ==
    /\ pc[r] = "listing" /\ e \in todo[r]
    /\ todo' = [todo EXCEPT ![r] = @ \ {e}]
    /\ \/ avail' = avail
       \/ e \notin limited /\ avail' = [avail EXCEPT ![r] = @ \cup {e}]
    /\ UNCHANGED <<pc, at, job, ctx, store>>

\* A listing that does not look at the rate limit.
Consider_Unlimited(r, e) ==
    /\ pc[r] = "listing" /\ e \in todo[r]
    /\ todo' = [todo EXCEPT ![r] = @ \ {e}]
    /\ \/ avail' = avail
       \/ ~AtCeiling(e) /\ avail' = [avail EXCEPT ![r] = @ \cup {e}]
    /\ UNCHANGED <<pc, at, job, ctx, store>>

\* One endpoint of getEndpointsByRole.  Unhealthy for this protocol, not an
\* archive node or without a readable status it stays out; so does one that
\* is rate limited or at its ceiling, as far as the reads succeed.
Consider(r, e) ==
    /\ pc[r] = "listing" /\ e \in todo[r]
    /\ todo' = [todo EXCEPT ![r] = @ \ {e}]
    /\ \/ avail' = avail
       \/ Admitted(e) /\ avail' = [avail EXCEPT ![r] = @ \cup {e}]
    /\ UNCHANGED <<pc, at, job, ctx, store>>

EndListing(r) ==
    /\ pc[r] = "listing" /\ todo[r] = {}
    /\ \/ avail[r] = {} /\ Finish(r, Say(job[r], "503"))
       \/ /\ avail[r] # {}
          /\ pc' = [pc EXCEPT ![r] = "choosing"]
          /\ job' = [job EXCEPT ![r].listed = avail[r]]
          /\ UNCHANGED <<todo, avail, at, ctx>>
    /\ UNCHANGED store

-----------------------------------------------------------------------------
(* The retry loop                                                            *)

Choosing(r) == pc[r] = "choosing" /\ ~Exhausted(r)

\* The context is over at the top of the loop.
ContextOver(r) ==
    /\ Choosing(r) /\ ctx[r] = "over"
    /\ Finish(r, IF job[r].protocol = "http" THEN Say(job[r], "504") ELSE job[r])
    /\ UNCHANGED store

\* Endpoints whose request counts could be read; reads fail with the store,
\* and all of them once the context is over.
Readable(r) ==
    IF "store" \in Faults THEN SUBSET avail[r]
    ELSE IF ctx[r] = "over" THEN {avail[r], {}} ELSE {avail[r]}

\* `break' although retries and endpoints are left: no request count could
\* be read, or the best endpoint has no URL for a WebSocket.  The client hears
\* that all endpoints are unavailable.
NothingSuitable(r) ==
    /\ Choosing(r)
    /\ \E s \in Readable(r), why \in {"unread", "unlinked"} :
        /\ why = "unread" => s = {}
        /\ why = "unlinked" => \E e \in BestTier(s) : Unlinked(r, e)
        /\ Finish(r, [Say(job[r], "502") EXCEPT !.giving_up = TRUE, !.stuck = why])
    /\ UNCHANGED store

\* `break' for `continue': the request ends at the limit.
SkipPublic_Breaks(r) ==
    /\ Choosing(r)
    /\ \E s \in Readable(r) : \E e \in BestTier(s) :
        /\ ~Unlinked(r, e) /\ OverPublicBudget(r, e)
        /\ avail' = [avail EXCEPT ![r] = {}]
    /\ UNCHANGED <<pc, todo, at, job, ctx, store>>

\* `continue' alone: the same endpoint is the best one again.
SkipPublic_Spins(r) ==
    /\ Choosing(r)
    /\ \E s \in Readable(r) : \E e \in BestTier(s) :
        ~Unlinked(r, e) /\ OverPublicBudget(r, e)
    /\ UNCHANGED vars

\* A public endpoint beyond the limit leaves the list at no cost.
SkipPublic(r) ==
    /\ Choosing(r)
    /\ \E s \in Readable(r) : \E e \in BestTier(s) :
        /\ ~Unlinked(r, e) /\ OverPublicBudget(r, e)
        /\ avail' = [avail EXCEPT ![r] = @ \ {e}]
    /\ UNCHANGED <<pc, todo, at, job, ctx, store>>

\* A public try is not counted.
Dispatched_Uncounted(r, e) == [job[r] EXCEPT !.fate[e] = "sent"]

Dispatched(r, e) ==
    [job[r] EXCEPT !.fate[e] = "sent",
                   !.publics = IF Role[e] = "public" THEN @ + 1 ELSE @]

\* recordCapacityUsage, whatever comes of the try.
Counted(e) ==
    IF Ceiling[e] = 0 THEN used ELSE [used EXCEPT ![e] = @ + 1]

Attempt(r) ==
    /\ Choosing(r)
    /\ \E s \in Readable(r) : \E e \in BestTier(s) :
        /\ ~Unlinked(r, e) /\ ~OverPublicBudget(r, e)
        /\ pc' = [pc EXCEPT ![r] = "sending"]
        /\ at' = [at EXCEPT ![r] = e]
        /\ job' = [job EXCEPT ![r] = Dispatched(r, e)]
        /\ used' \in {Counted(e)} \cup (IF "store" \in Faults THEN {used} ELSE {})
        /\ strays' = IF e \in limited /\ strays[e] <= Cardinality(Requests)
                     THEN [strays EXCEPT ![e] = @ + 1] ELSE strays
    /\ UNCHANGED <<todo, avail, ctx, limited>>

\* All retries failed.
GiveUp(r) ==
    /\ pc[r] = "choosing" /\ Exhausted(r)
    /\ Finish(r, [Say(job[r], "502") EXCEPT !.giving_up = TRUE])
    /\ UNCHANGED store

-----------------------------------------------------------------------------
(* What a try comes to, over either protocol                                 *)

Sending(r) == pc[r] = "sending"

\* No connection, no answer in time, or a status that is neither a success,
\* a 400 nor a rate limit.
EndpointFails(r) ==
    /\ Sending(r)
    /\ Lose(r, Blame(Ended(r, "failed"), at[r]))
    /\ UNCHANGED store

\* A second 400 is passed on and the loop not left.
BadRequest_GoesOn(r) ==
    /\ Sending(r)
    /\ IF job[r].first400 = None
       THEN Lose(r, [Ended(r, "balked") EXCEPT !.first400 = at[r]])
       ELSE Lose(r, Say(Ended(r, "balked"), "400"))
    /\ UNCHANGED store

\* A second 400 blames the endpoint of the first.
BadRequest_Blames(r) ==
    /\ Sending(r)
    /\ IF job[r].first400 = None
       THEN Lose(r, [Ended(r, "balked") EXCEPT !.first400 = at[r]])
       ELSE Finish(r, Blame(Say(Ended(r, "balked"), "400"), job[r].first400))
    /\ UNCHANGED store

\* The first 400 is kept, a second one is the client's own fault.
BadRequest(r) ==
    /\ Sending(r)
    /\ IF job[r].first400 = None
       THEN Lose(r, [Ended(r, "balked") EXCEPT !.first400 = at[r]])
       ELSE Finish(r, Say(Ended(r, "balked"), "400"))
    /\ UNCHANGED store

\* handleRateLimit; what it stores may not reach Valkey.
MarkLimited(e) ==
    /\ limited' \in {limited \cup {e}}
                    \cup (IF "store" \in Faults THEN {limited} ELSE {})
    /\ strays' = IF e \in limited THEN strays ELSE [strays EXCEPT ![e] = 0]
    /\ UNCHANGED used

\* A rate-limit status.  The WebSocket handler answers by itself when this
\* was the last try.
RateLimited(r) ==
    /\ Sending(r)
    /\ MarkLimited(at[r])
    /\ LET j == Blame(Ended(r, "limited"), at[r]) IN
       IF job[r].protocol = "http" \/ (avail[r] # {at[r]} /\ j.retries + 1 < MaxRetries)
       THEN Lose(r, j)
       ELSE Finish(r, [Say(j, IF j.retries + 1 >= MaxRetries THEN "502" ELSE "429")
                          EXCEPT !.retries = @ + 1, !.giving_up = TRUE])

Won(j) ==
    IF j.first400 = None THEN j
    ELSE [Blame(j, j.first400) EXCEPT !.first400 = None]

-----------------------------------------------------------------------------
(* HTTP                                                                      *)

\* The context ends during the try: client.Do returns its error, which is
\* charged to the endpoint like any other.
CutShort(r) ==
    /\ Sending(r) /\ job[r].protocol = "http" /\ ctx[r] = "over"
    /\ Lose(r, Blame(Ended(r, "cut"), at[r]))
    /\ UNCHANGED store

\* A 2xx answer with a rate limit inside.
EmbeddedLimit(r) ==
    /\ Sending(r) /\ job[r].protocol = "http"
    /\ MarkLimited(at[r])
    /\ Lose(r, Ended(r, "limited"))

Served(r) ==
    /\ Sending(r) /\ job[r].protocol = "http"
    /\ Finish(r, Won(Say(Ended(r, "won"), at[r])))
    /\ UNCHANGED store

\* The headers are out when the copy of the body fails; the error makes the
\* loop go on.
BrokeOff(r) ==
    /\ Sending(r) /\ job[r].protocol = "http"
    /\ Lose(r, Say(Ended(r, "broke"), at[r]))
    /\ UNCHANGED store

-----------------------------------------------------------------------------
(* WebSocket                                                                 *)

\* The dial ends in a timeout or an EOF, which isExpectedWSClose takes for
\* the normal end of a connection.
DialUnanswered(r) ==
    /\ Sending(r) /\ job[r].protocol = "ws"
    /\ Finish(r, Blame(Ended(r, "failed"), at[r]))
    /\ UNCHANGED store

Upgrade(r) ==
    /\ Sending(r) /\ job[r].protocol = "ws" /\ job[r].said = <<>>
    /\ pc' = [pc EXCEPT ![r] = "relaying"]
    /\ job' = [job EXCEPT ![r] = Say(@, "101")]
    /\ UNCHANGED <<todo, avail, at, ctx, store>>

\* The backend is there, the client's connection cannot be upgraded: the
\* upgrader answers it, unless it is no longer there to be answered.
UpgradeFails(r) ==
    /\ Sending(r) /\ job[r].protocol = "ws"
    /\ Lose(r, Say(Ended(r, "unwanted"), "400"))
    /\ UNCHANGED store

\* Closed by the client, or by the backend with 1000, 1001 or 1005.
RelayEnds(r) ==
    /\ pc[r] = "relaying"
    /\ Finish(r, Won(Ended(r, "won")))
    /\ UNCHANGED store

\* A drop (1006) or a write that timed out: charged, not retried.
RelayDrops(r) ==
    /\ pc[r] = "relaying"
    /\ Finish(r, Blame(Ended(r, "failed"), at[r]))
    /\ UNCHANGED store

\* Any other close code or error, silence included: charged and retried.
RelayFails(r) ==
    /\ pc[r] = "relaying"
    /\ Lose(r, Blame(Ended(r, "failed"), at[r]))
    /\ UNCHANGED store

-----------------------------------------------------------------------------
(* The environment                                                           *)

ContextEnds(r) ==
    /\ "context" \in Faults
    /\ pc[r] \notin {"idle", "done"} /\ ctx[r] = "open"
    /\ ctx' = [ctx EXCEPT ![r] = "over"]
    /\ UNCHANGED <<pc, todo, avail, at, job, store>>

NewWindow(e) ==
    /\ used[e] # 0
    /\ used' = [used EXCEPT ![e] = 0]
    /\ UNCHANGED <<flow, limited, strays>>

\* By a health checker, or another load balancer.
LimitedElsewhere(e) ==
    /\ e \notin limited
    /\ limited' = limited \cup {e}
    /\ strays' = [strays EXCEPT ![e] = 0]
    /\ UNCHANGED <<flow, used>>

\* The recovery of RateLimitRecovery.
LimitLifted(e) ==
    /\ e \in limited
    /\ limited' = limited \ {e}
    /\ UNCHANGED <<flow, used, strays>>

-----------------------------------------------------------------------------
(* Specification                                                             *)

HandlerStep(r) ==
    \/ \E e \in Endpoints : Consider(r, e)
    \/ EndListing(r) \/ ContextOver(r) \/ NothingSuitable(r) \/ SkipPublic(r)
    \/ Attempt(r) \/ GiveUp(r)
    \/ EndpointFails(r) \/ BadRequest(r) \/ RateLimited(r)
    \/ CutShort(r) \/ EmbeddedLimit(r) \/ Served(r) \/ BrokeOff(r)
    \/ DialUnanswered(r) \/ Upgrade(r) \/ UpgradeFails(r)

RelayStep(r) == RelayEnds(r) \/ RelayDrops(r) \/ RelayFails(r)

ClientStep(r) == Arrive(r) \/ Refuse(r) \/ ContextEnds(r)

EndpointStep(e) == NewWindow(e) \/ LimitedElsewhere(e) \/ LimitLifted(e)

Next ==
    \/ \E r \in Requests : HandlerStep(r) \/ RelayStep(r) \/ ClientStep(r)
    \/ \E e \in Endpoints : EndpointStep(e)

\* A handler goroutine runs, and each try ends: PROXY_TIMEOUT_PER_TRY cuts an
\* HTTP try, the dialer's handshake timeout a WebSocket one.  Nothing ends a
\* relay.
Fairness == \A r \in Requests : WF_vars(HandlerStep(r))

Spec == Init /\ [][Next]_vars
FairSpec == Spec /\ Fairness

-----------------------------------------------------------------------------
(* Properties                                                                *)

Jobs ==
    [protocol : Protocols, retries : 0..MaxRetries, publics : 0..MaxRetries,
     first400 : Endpoints \cup {None}, listed : SUBSET Endpoints,
     fate : [Endpoints -> Fates], blamed : SUBSET Endpoints,
     said : Seq(Endpoints \cup OwnAnswers),
     giving_up : BOOLEAN, stuck : {"no", "unread", "unlinked"}]

TypeOK ==
    /\ pc \in [Requests -> {"idle", "listing", "choosing", "sending", "relaying", "done"}]
    /\ todo \in [Requests -> SUBSET Endpoints]
    /\ avail \in [Requests -> SUBSET Endpoints]
    /\ at \in [Requests -> Endpoints \cup {None}]
    /\ job \in [Requests -> Jobs]
    /\ ctx \in [Requests -> {"open", "over"}]
    /\ used \in [Endpoints -> Nat]
    /\ limited \subseteq Endpoints
    /\ strays \in [Endpoints -> Nat]

\* A request that leaves the loop with "all endpoints unavailable" has spent
\* its retries or tried each endpoint of its listing, save public ones over
\* the limit.  There are two exceptions: the request counts of all that was
\* left could not be read, for a fault of the store or because the request's
\* time was over; or among what was left was an endpoint without a WebSocket
\* URL, listed by a record older than the configuration.
GivesUpOnlyWhenSpent ==
    \A r \in Requests :
        job[r].giving_up =>
            LET left == job[r].listed \ Tried(r) IN
            \/ Cardinality(Tried(r)) = MaxRetries
            \/ \A e \in left : OverPublicBudget(r, e)
            \/ job[r].stuck = "unread" /\ ("store" \in Faults \/ ctx[r] = "over")
            \/ job[r].stuck = "unlinked" /\ \E e \in left : Unlinked(r, e)

Deserved(r, e) ==
    \/ job[r].fate[e] \in {"failed", "limited"}
    \/ job[r].fate[e] = "balked" /\ \E f \in Endpoints : job[r].fate[f] = "won"

\* An endpoint is charged with a failure only when it failed the request, or
\* the end of the request's own context cut the HTTP try short; for a 400
\* another endpoint must have served the same request.
BlameHasACause ==
    \A r \in Requests : \A e \in job[r].blamed :
        Deserved(r, e) \/ job[r].fate[e] = "cut"

\* The gate and the count are two steps, so a ceiling may be passed: by one
\* request of each other handler at most.
CapacityHolds ==
    \A e \in Endpoints :
        Ceiling[e] # 0 => used[e] <= Ceiling[e] + Cardinality(Requests) - 1

\* From the signal on, an endpoint marked as rate limited sees at most one
\* more try of each handler, until the limit is lifted.
StragglersBounded ==
    \A e \in limited : strays[e] <= Cardinality(Requests)

\* A request ends, unless a WebSocket relay goes on.
EveryRequestEnds ==
    \A r \in Requests : pc[r] = "listing" ~> pc[r] \in {"done", "relaying"}

-----------------------------------------------------------------------------
(* The promise                                                               *)

Phase(r) == IF pc[r] = "idle" THEN "none" ELSE IF pc[r] = "done" THEN "over" ELSE "open"

\* An answer broke off, or the client's connection could not be upgraded.
Sullied(r) == \E e \in Endpoints : job[r].fate[e] \in {"broke", "unwanted"}

Promise == INSTANCE RequestPromise WITH
    Metered <- IF PublicFirst THEN {e \in Endpoints : Role[e] = "public"} ELSE {},
    MaxMetered <- PublicFirstAttempts,
    protocol <- [r \in Requests |-> job[r].protocol],
    phase <- [r \in Requests |-> Phase(r)],
    asked <- [r \in Requests |-> Tried(r)],
    asking <- at,
    heard <- [r \in Requests |-> Len(job[r].said)],
    broken <- [r \in Requests |-> Sullied(r)]

\* Listing, retrying, skipping and relaying are one way of keeping the promise
\* of RequestPromise: no endpoint is asked twice, no more of them than
\* PROXY_MAX_RETRIES, nor public ones than PUBLIC_FIRST_ATTEMPTS, however the
\* tries end; a client hears one thing, and more only after an answer that
\* broke off or an upgrade that failed, or nothing over a WebSocket whose
\* failure is taken for a normal close; no step follows the last answer.
KeepsPromise == Promise!Spec
===============================================================================
