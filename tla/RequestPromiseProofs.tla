------------------------- MODULE RequestPromiseProofs -------------------------
(* RequestRouting keeps RequestPromise, for any number of handlers and       *)
(* endpoints and whatever fails.  The argument is about one request at a     *)
(* time: its books (which endpoints it may still use, which it has tried and *)
(* how many retries that took), its charges (whom it blames) and its words   *)
(* (what the client has heard).  A step of the handler is one of a few kinds, *)
(* and each kind keeps all three.                                            *)
EXTENDS RequestRouting, FiniteSetTheorems, SequenceTheorems, TLAPS

USE EndpointsAssumption, RequestsAssumption, LimitsAssumption

-----------------------------------------------------------------------------
(* One request                                                               *)

TriedBy(j) == {e \in Endpoints : j.fate[e] # "untried"}
PublicsBy(j) == {e \in TriedBy(j) : Role[e] = "public"}
SulliedIn(j) == \E e \in Endpoints : j.fate[e] \in {"broke", "unwanted"}

OverBudget(j, e) ==
    PublicFirst /\ Role[e] = "public" /\ j.publics >= PublicFirstAttempts

\* A job, but for the bounds on its counters.
Shapes ==
    [protocol : Protocols, retries : Nat, publics : Nat,
     first400 : Endpoints \cup {None}, listed : SUBSET Endpoints,
     fate : [Endpoints -> Fates], blamed : SUBSET Endpoints,
     said : Seq(Endpoints \cup OwnAnswers), giving_up : BOOLEAN,
     stuck : {"no", "unread", "unlinked"}]

AtEndpoint == {"sending", "relaying"}
Open == {"listing", "choosing"} \cup AtEndpoint

\* The loop was left with endpoints to try: see NothingSuitable.
DeadEnd(j) ==
    \/ j.stuck = "unread"
    \/ /\ j.stuck = "unlinked" /\ j.protocol = "ws"
       /\ \E e \in j.listed \ TriedBy(j) : e \in NoWSURL

\* What is on the list was not tried, but for the endpoint at hand; the
\* retries are the tries that have ended; what is neither on the list nor
\* tried was skipped.
Books(p, a, x, j) ==
    /\ p \in Open \cup {"idle", "done"} /\ a \subseteq Endpoints /\ j \in Shapes
    /\ p \in {"idle", "listing"} => \E q \in Protocols : j = NewJob(q)
    /\ IF p \in AtEndpoint THEN x \in a ELSE x = None
    /\ \A e \in Endpoints : j.fate[e] = "sent" <=> e = x
    /\ \A e \in a : j.fate[e] = "untried" \/ e = x
    /\ IsFiniteSet(TriedBy(j)) /\ Cardinality(TriedBy(j)) <= MaxRetries
    /\ j.retries <= MaxRetries
    /\ j.publics = Cardinality(PublicsBy(j))
    /\ p = "choosing" => j.retries = Cardinality(TriedBy(j))
    /\ p \in AtEndpoint => j.retries + 1 = Cardinality(TriedBy(j))
    /\ p \in {"choosing"} \cup AtEndpoint =>
          /\ a \subseteq j.listed
          /\ \A e \in j.listed : e \in a \cup TriedBy(j) \/ OverBudget(j, e)
    /\ j.giving_up =>
          /\ p = "done"
          /\ \/ Cardinality(TriedBy(j)) = MaxRetries
             \/ \A e \in j.listed \ TriedBy(j) : OverBudget(j, e)
             \/ DeadEnd(j)

\* Whom the request blames, and whom it would if another endpoint served it.
Charges(j) ==
    /\ \A e \in j.blamed :
          \/ j.fate[e] \in {"failed", "limited", "cut"}
          \/ j.fate[e] = "balked" /\ \E f \in Endpoints : j.fate[f] = "won"
    /\ j.first400 # None => j.fate[j.first400] = "balked"

\* While the request is open the client has heard nothing, or something that
\* broke off, or that its connection is upgraded.
Words(p, j) ==
    /\ p \in Open =>
          /\ j.said = <<>> \/ SulliedIn(j) \/ (j.protocol = "ws" /\ j.said = <<"101">>)
          /\ j.protocol = "http" => j.said # <<"101">>
    /\ p = "relaying" => j.protocol = "ws" /\ j.said = <<"101">>

Fits(p, a, x, j) == Books(p, a, x, j) /\ Charges(j) /\ Words(p, j)

JobInv ==
    /\ pc \in [Requests -> Open \cup {"idle", "done"}]
    /\ avail \in [Requests -> SUBSET Endpoints]
    /\ at \in [Requests -> Endpoints \cup {None}]
    /\ job \in [Requests -> Shapes]
    /\ \A r \in Requests : Fits(pc[r], avail[r], at[r], job[r])

-----------------------------------------------------------------------------
(* What the small operators do to a job                                      *)

\* A request that has just arrived has tried nothing.
LEMMA NewJobShape ==
    ASSUME NEW p \in Protocols
    PROVE  /\ NewJob(p) \in Shapes
           /\ TriedBy(NewJob(p)) = {} /\ PublicsBy(NewJob(p)) = {}
<1>1. <<>> \in Seq(Endpoints \cup OwnAnswers)
    OBVIOUS
<1>2. NewJob(p) \in Shapes
    BY <1>1 DEF NewJob, Shapes, Fates
<1>3. QED
    BY <1>2 DEF NewJob, TriedBy, PublicsBy

\* Saying something changes nothing else, and nothing at all once the
\* connection is upgraded.
LEMMA SayShape ==
    ASSUME NEW j \in Shapes, NEW w \in Endpoints \cup OwnAnswers
    PROVE  /\ Say(j, w) \in Shapes
           /\ \/ j.said = <<"101">> /\ Say(j, w) = j
              \/ /\ j.said # <<"101">>
                 /\ Say(j, w).said = Append(j.said, w)
                 /\ Len(Say(j, w).said) = Len(j.said) + 1
           /\ Say(j, w).protocol = j.protocol /\ Say(j, w).retries = j.retries
           /\ Say(j, w).publics = j.publics /\ Say(j, w).first400 = j.first400
           /\ Say(j, w).listed = j.listed /\ Say(j, w).fate = j.fate
           /\ Say(j, w).blamed = j.blamed /\ Say(j, w).giving_up = j.giving_up
           /\ Say(j, w).stuck = j.stuck
<1>1. CASE j.said = <<"101">>
    BY <1>1 DEF Say
<1>2. CASE j.said # <<"101">>
  <2>1. Say(j, w) = [j EXCEPT !.said = Append(j.said, w)]
    BY <1>2 DEF Say
  <2>2. /\ j.said \in Seq(Endpoints \cup OwnAnswers)
        /\ Append(j.said, w) \in Seq(Endpoints \cup OwnAnswers)
        /\ Len(Append(j.said, w)) = Len(j.said) + 1
    BY DEF Shapes
  <2>3. QED
    BY <1>2, <2>1, <2>2 DEF Shapes
<1>3. QED
    BY <1>1, <1>2

\* Blaming an endpoint changes nothing else.
LEMMA BlameShape ==
    ASSUME NEW j \in Shapes, NEW e \in Endpoints
    PROVE  /\ Blame(j, e) \in Shapes
           /\ Blame(j, e).blamed = j.blamed \cup {e}
           /\ Blame(j, e).protocol = j.protocol /\ Blame(j, e).retries = j.retries
           /\ Blame(j, e).publics = j.publics /\ Blame(j, e).first400 = j.first400
           /\ Blame(j, e).listed = j.listed /\ Blame(j, e).fate = j.fate
           /\ Blame(j, e).said = j.said /\ Blame(j, e).giving_up = j.giving_up
           /\ Blame(j, e).stuck = j.stuck
    BY DEF Blame, Shapes

\* A retry is spent.
Spent(j) == [j EXCEPT !.retries = @ + 1]

\* Spending a retry changes nothing else.
LEMMA SpentShape ==
    ASSUME NEW j \in Shapes
    PROVE  /\ Spent(j) \in Shapes /\ Spent(j).retries = j.retries + 1
           /\ Spent(j).protocol = j.protocol /\ Spent(j).publics = j.publics
           /\ Spent(j).first400 = j.first400 /\ Spent(j).listed = j.listed
           /\ Spent(j).fate = j.fate /\ Spent(j).blamed = j.blamed
           /\ Spent(j).said = j.said /\ Spent(j).giving_up = j.giving_up
<1> DEFINE n == j.retries + 1
<1>1. n \in Nat
    BY DEF Shapes
<1>2. Spent(j) = [j EXCEPT !.retries = n]
    BY DEF Spent
<1> HIDE DEF n
<1>3. Spent(j) \in Shapes /\ Spent(j).retries = n
    BY <1>1, <1>2 DEF Shapes
<1>4. QED
    BY <1>2, <1>3 DEF Shapes, n

\* The end of a try changes the fate of its endpoint only.
LEMMA EndedShape ==
    ASSUME NEW r \in Requests, job[r] \in Shapes, at[r] \in Endpoints, NEW f \in Fates
    PROVE  /\ Ended(r, f) \in Shapes
           /\ Ended(r, f).fate = [job[r].fate EXCEPT ![at[r]] = f]
           /\ Ended(r, f).protocol = job[r].protocol /\ Ended(r, f).retries = job[r].retries
           /\ Ended(r, f).publics = job[r].publics /\ Ended(r, f).first400 = job[r].first400
           /\ Ended(r, f).listed = job[r].listed /\ Ended(r, f).blamed = job[r].blamed
           /\ Ended(r, f).said = job[r].said /\ Ended(r, f).giving_up = job[r].giving_up
           /\ Ended(r, f).stuck = job[r].stuck
    BY DEF Ended, Shapes

-----------------------------------------------------------------------------
(* The books                                                                 *)

\* k is what becomes of j when the try at x comes to f.
Settled(j, x, f, k) ==
    /\ k \in Shapes /\ f \in Fates \ {"untried", "sent"}
    /\ k.fate = [j.fate EXCEPT ![x] = f]
    /\ k.protocol = j.protocol /\ k.publics = j.publics /\ k.listed = j.listed

\* The end of a try neither adds to the tried endpoints nor takes away.
LEMMA SettledTried ==
    ASSUME NEW j \in Shapes, NEW x \in Endpoints, j.fate[x] = "sent",
           NEW f, NEW k, Settled(j, x, f, k)
    PROVE  /\ TriedBy(k) = TriedBy(j) /\ PublicsBy(k) = PublicsBy(j)
           /\ \A e : OverBudget(k, e) <=> OverBudget(j, e)
           /\ \A e \in Endpoints \ {x} : k.fate[e] = j.fate[e]
           /\ k.fate[x] = f
<1>1. j.fate \in [Endpoints -> Fates]
    BY DEF Shapes
<1>2. /\ \A e \in Endpoints \ {x} : k.fate[e] = j.fate[e]
      /\ k.fate[x] = f /\ f # "untried"
    BY <1>1 DEF Settled
<1>3. TriedBy(k) = TriedBy(j)
    BY <1>2 DEF TriedBy
<1>4. QED
    BY <1>2, <1>3 DEF PublicsBy, OverBudget, Settled

\* The books stand when the request goes on without the endpoint at hand.
LEMMA BooksLose ==
    ASSUME NEW p \in AtEndpoint, NEW a, NEW x, NEW j, Books(p, a, x, j),
           NEW f, NEW k, Settled(j, x, f, k), k.retries = j.retries, ~k.giving_up
    PROVE  Books("choosing", a \ {x}, None, Spent(k))
<1> DEFINE k2 == Spent(k)
<1>1. /\ j \in Shapes /\ a \subseteq Endpoints /\ x \in a /\ j.fate[x] = "sent"
      /\ j.retries \in Nat /\ k \in Shapes
    BY DEF Books, Shapes, Settled
<1>2. /\ TriedBy(k) = TriedBy(j) /\ PublicsBy(k) = PublicsBy(j)
      /\ \A e : OverBudget(k, e) <=> OverBudget(j, e)
      /\ \A e \in Endpoints \ {x} : k.fate[e] = j.fate[e]
      /\ k.fate[x] = f
    BY <1>1, SettledTried
<1>3. /\ k2 \in Shapes /\ k2.retries = j.retries + 1 /\ k2.fate = k.fate
      /\ k2.publics = j.publics /\ k2.listed = j.listed /\ ~k2.giving_up
    BY <1>1, SpentShape DEF Settled
<1> HIDE DEF k2
<1>4. /\ TriedBy(k2) = TriedBy(j) /\ PublicsBy(k2) = PublicsBy(j)
      /\ \A e : OverBudget(k2, e) <=> OverBudget(j, e)
    BY <1>2, <1>3 DEF TriedBy, PublicsBy, OverBudget, Settled
<1>5. f # "sent" /\ \A e \in Endpoints : k2.fate[e] # "sent"
    BY <1>1, <1>2, <1>3 DEF Settled, Books
<1>6. /\ IsFiniteSet(TriedBy(j)) /\ Cardinality(TriedBy(j)) <= MaxRetries
      /\ j.retries + 1 = Cardinality(TriedBy(j))
      /\ j.publics = Cardinality(PublicsBy(j))
      /\ \A e \in j.listed : e \in a \cup TriedBy(j) \/ OverBudget(j, e)
      /\ a \subseteq j.listed
      /\ \A e \in a : j.fate[e] = "untried" \/ e = x
    BY DEF Books
<1>7. x \in TriedBy(j)
    BY <1>1 DEF TriedBy
<1>8. Books("choosing", a \ {x}, None, k2)
    BY <1>1, <1>2, <1>3, <1>4, <1>5, <1>6, <1>7 DEF Books, Open, AtEndpoint
<1>9. QED
    BY <1>8 DEF k2

\* They stand when it ends with the try at hand.
LEMMA BooksFinish ==
    ASSUME NEW p \in AtEndpoint, NEW a, NEW x, NEW j, Books(p, a, x, j),
           NEW f, NEW k, Settled(j, x, f, k), k.retries \in {j.retries, j.retries + 1},
           k.giving_up =>
             k.retries = j.retries + 1 /\ (a = {x} \/ k.retries >= MaxRetries)
    PROVE  Books("done", {}, None, k) /\ TriedBy(k) = TriedBy(j)
<1>1. /\ j \in Shapes /\ a \subseteq Endpoints /\ x \in a /\ j.fate[x] = "sent"
      /\ j.retries \in Nat /\ k \in Shapes
    BY DEF Books, Shapes, Settled
<1>2. /\ TriedBy(k) = TriedBy(j) /\ PublicsBy(k) = PublicsBy(j)
      /\ \A e : OverBudget(k, e) <=> OverBudget(j, e)
      /\ \A e \in Endpoints \ {x} : k.fate[e] = j.fate[e]
      /\ k.fate[x] = f
    BY <1>1, SettledTried
<1>3. \A e \in Endpoints : k.fate[e] # "sent"
    BY <1>1, <1>2 DEF Settled, Books
<1>4. /\ IsFiniteSet(TriedBy(j)) /\ Cardinality(TriedBy(j)) <= MaxRetries
      /\ j.retries + 1 = Cardinality(TriedBy(j))
      /\ j.publics = Cardinality(PublicsBy(j)) /\ k.publics = j.publics
      /\ \A e \in j.listed : e \in a \cup TriedBy(j) \/ OverBudget(j, e)
      /\ k.listed = j.listed
    BY DEF Books, Settled
<1>5. x \in TriedBy(j)
    BY <1>1 DEF TriedBy
<1>6. k.giving_up =>
        \/ Cardinality(TriedBy(k)) = MaxRetries
        \/ \A e \in k.listed \ TriedBy(k) : OverBudget(k, e)
    BY <1>1, <1>2, <1>4, <1>5
<1>7. QED
    BY <1>1, <1>2, <1>3, <1>4, <1>6 DEF Books, Open, AtEndpoint

\* What the end of a request at a dead end has seen of its list.
Astray(a, k) ==
    \/ k.stuck = "unread"
    \/ k.stuck = "unlinked" /\ k.protocol = "ws" /\ \E e \in a : e \in NoWSURL

\* A handler that is at no endpoint returns.
LEMMA BooksQuit ==
    ASSUME NEW p \in {"listing", "choosing"}, NEW a, NEW x, NEW j, Books(p, a, x, j),
           NEW k \in Shapes, k.fate = j.fate, k.publics = j.publics,
           k.listed = j.listed, k.retries = j.retries,
           k.giving_up =>
             p = "choosing" /\ (j.retries >= MaxRetries \/ a = {} \/ Astray(a, k))
    PROVE  Books("done", {}, None, k) /\ TriedBy(k) = TriedBy(j)
<1>1. /\ TriedBy(k) = TriedBy(j) /\ PublicsBy(k) = PublicsBy(j)
      /\ \A e : OverBudget(k, e) <=> OverBudget(j, e)
    BY DEF TriedBy, PublicsBy, OverBudget
<1>2. x = None /\ None \notin Endpoints
    BY DEF Books, AtEndpoint
<1>3. \A e \in Endpoints : k.fate[e] # "sent"
    BY <1>2 DEF Books
<1>4. /\ IsFiniteSet(TriedBy(j)) /\ Cardinality(TriedBy(j)) <= MaxRetries
      /\ j.retries <= MaxRetries /\ j.retries \in Nat
      /\ j.publics = Cardinality(PublicsBy(j))
      /\ p = "choosing" => /\ j.retries = Cardinality(TriedBy(j))
                           /\ \A e \in j.listed : e \in a \cup TriedBy(j) \/ OverBudget(j, e)
                           /\ a \subseteq j.listed
    BY DEF Books, Shapes
<1>5. \A e \in a : e \notin TriedBy(j)
    BY <1>2 DEF Books, TriedBy
<1>6. p = "choosing" /\ Astray(a, k) => DeadEnd(k)
    BY <1>1, <1>4, <1>5 DEF Astray, DeadEnd
<1>7. k.giving_up =>
        \/ Cardinality(TriedBy(k)) = MaxRetries
        \/ \A e \in k.listed \ TriedBy(k) : OverBudget(k, e)
        \/ DeadEnd(k)
    BY <1>1, <1>4, <1>6
<1>8. QED
    BY <1>1, <1>3, <1>4, <1>7 DEF Books, Open, AtEndpoint

-----------------------------------------------------------------------------
(* The charges and the words                                                 *)

\* Whom k blames beyond j: the endpoint that failed, or the one of the first
\* 400 once another one has served the request.
Charged(j, x, f, k) ==
    /\ \/ k.blamed = j.blamed
       \/ f \in {"failed", "limited", "cut"} /\ k.blamed = j.blamed \cup {x}
       \/ f = "won" /\ j.first400 # None /\ k.blamed = j.blamed \cup {j.first400}
    /\ k.first400 \in {j.first400, None} \/ (k.first400 = x /\ f = "balked")

\* The charges stand when a try ends and its endpoint gets what the fate
\* deserves.
LEMMA ChargesTry ==
    ASSUME NEW p \in AtEndpoint, NEW a, NEW x, NEW j, Books(p, a, x, j), Charges(j),
           NEW f, NEW k, Settled(j, x, f, k), Charged(j, x, f, k)
    PROVE  Charges(k)
<1>1. /\ j \in Shapes /\ x \in Endpoints /\ j.fate[x] = "sent"
      /\ k \in Shapes /\ j.blamed \subseteq Endpoints
      /\ j.first400 \in Endpoints \cup {None} /\ None \notin Endpoints
    BY DEF Books, Shapes, Settled
<1>2. /\ \A e \in Endpoints \ {x} : k.fate[e] = j.fate[e]
      /\ k.fate[x] = f
    BY <1>1, SettledTried
<1>3. \A e \in j.blamed : e # x
    BY <1>1 DEF Charges
<1>4. \A e \in j.blamed :
        \/ k.fate[e] \in {"failed", "limited", "cut"}
        \/ k.fate[e] = "balked" /\ \E g \in Endpoints : k.fate[g] = "won"
  <2> SUFFICES ASSUME NEW e \in j.blamed
               PROVE  \/ k.fate[e] \in {"failed", "limited", "cut"}
                      \/ k.fate[e] = "balked" /\ \E g \in Endpoints : k.fate[g] = "won"
    OBVIOUS
  <2>1. k.fate[e] = j.fate[e]
    BY <1>1, <1>2, <1>3
  <2>2. CASE j.fate[e] \in {"failed", "limited", "cut"}
    BY <2>1, <2>2
  <2>3. CASE j.fate[e] = "balked" /\ \E g \in Endpoints : j.fate[g] = "won"
    <3>1. PICK g \in Endpoints : j.fate[g] = "won"
        BY <2>3
    <3>2. k.fate[g] = "won"
        BY <1>1, <1>2, <3>1
    <3>3. QED
        BY <2>1, <2>3, <3>2
  <2>4. QED
    BY <2>2, <2>3 DEF Charges
<1>5. j.first400 # None => j.first400 # x /\ k.fate[j.first400] = "balked"
    BY <1>1, <1>2 DEF Charges
<1>6. k.first400 # None => k.fate[k.first400] = "balked"
    BY <1>2, <1>5 DEF Charged
<1>7. QED
    BY <1>1, <1>2, <1>4, <1>5, <1>6 DEF Charges, Charged

\* They stand in a step that touches neither fates nor blame.
LEMMA ChargesSame ==
    ASSUME NEW j, Charges(j), NEW k, k.fate = j.fate, k.blamed = j.blamed,
           k.first400 = j.first400
    PROVE  Charges(k)
    BY DEF Charges

\* An answer of any other kind is no upgrade.
LEMMA NotUpgraded ==
    ASSUME NEW s \in Seq(Endpoints \cup OwnAnswers),
           NEW w \in (Endpoints \cup OwnAnswers) \ {"101"}
    PROVE  Append(s, w) # <<"101">> /\ Len(Append(s, w)) = Len(s) + 1
<1> DEFINE S == Endpoints \cup OwnAnswers
           t == Append(s, w)
<1>1. s \in Seq(S) /\ w \in S
    OBVIOUS
<1> HIDE DEF S
<1>2. Len(t) = Len(s) + 1 /\ t[Len(s) + 1] = w
    BY <1>1, AppendProperties
<1>3. Len(s) \in Nat
    BY <1>1
<1> HIDE DEF t
<1>4. ASSUME t = <<"101">> PROVE FALSE
  <2>1. Len(t) = 1 /\ t[1] = "101"
    BY <1>4
  <2>2. QED
    BY <1>2, <1>3, <2>1
<1>5. QED
    BY <1>2, <1>4 DEF t

\* The end of a try says nothing, or is an answer that broke off, or a
\* refusal to upgrade.
LEMMA WordsLose ==
    ASSUME NEW p \in AtEndpoint, NEW a, NEW x, NEW j, Books(p, a, x, j), Words(p, j),
           NEW f, NEW k, Settled(j, x, f, k),
           \/ f \notin {"broke", "unwanted"} /\ k.said = j.said
           \/ /\ f \in {"broke", "unwanted"}
              /\ \E w \in (Endpoints \cup OwnAnswers) \ {"101"} :
                    \/ k.said = Append(j.said, w)
                    \/ k.said = j.said
    PROVE  /\ Words("choosing", k)
           /\ \/ k.said = j.said /\ (SulliedIn(k) <=> SulliedIn(j))
              \/ SulliedIn(k) /\ Len(k.said) \in {Len(j.said), Len(j.said) + 1}
<1>1. /\ j \in Shapes /\ x \in Endpoints /\ j.fate[x] = "sent" /\ k \in Shapes
      /\ j.said \in Seq(Endpoints \cup OwnAnswers)
    BY DEF Books, Shapes, Settled
<1>2. /\ \A e \in Endpoints \ {x} : k.fate[e] = j.fate[e]
      /\ k.fate[x] = f
    BY <1>1, SettledTried
<1>3. k.protocol = j.protocol
    BY DEF Settled
<1>4. /\ j.said = <<>> \/ SulliedIn(j) \/ (j.protocol = "ws" /\ j.said = <<"101">>)
      /\ j.protocol = "http" => j.said # <<"101">>
    BY DEF Words, Open
<1>5. CASE f \notin {"broke", "unwanted"} /\ k.said = j.said
  <2>1. SulliedIn(k) <=> SulliedIn(j)
    BY <1>1, <1>2, <1>5 DEF SulliedIn
  <2>2. QED
    BY <1>3, <1>4, <1>5, <2>1 DEF Words, Open, AtEndpoint
<1>6. CASE f \in {"broke", "unwanted"}
  <2>1. PICK w \in (Endpoints \cup OwnAnswers) \ {"101"} :
           k.said = Append(j.said, w) \/ k.said = j.said
    BY <1>6
  <2>2. /\ Append(j.said, w) # <<"101">>
        /\ Len(Append(j.said, w)) = Len(j.said) + 1
    BY <1>1, NotUpgraded
  <2>3. SulliedIn(k)
    BY <1>1, <1>2, <1>6 DEF SulliedIn
  <2>4. QED
    BY <1>3, <1>4, <2>1, <2>2, <2>3 DEF Words, Open, AtEndpoint
<1>7. QED
    BY <1>5, <1>6

-----------------------------------------------------------------------------
(* What the promise sees of a step                                           *)

ProtocolBar == [r \in Requests |-> job[r].protocol]
PhaseBar == [r \in Requests |-> Phase(r)]
AskedBar == [r \in Requests |-> Tried(r)]
HeardBar == [r \in Requests |-> Len(job[r].said)]
BrokenBar == [r \in Requests |-> Sullied(r)]

PhaseOf(p) == IF p = "idle" THEN "none" ELSE IF p = "done" THEN "over" ELSE "open"

\* A step of the handler of r.
Moves(r, p, x, k) ==
    /\ pc' = [pc EXCEPT ![r] = p]
    /\ at' = [at EXCEPT ![r] = x]
    /\ job' = [job EXCEPT ![r] = k]

\* What the promise sees of a request.
LEMMA BarsNow ==
    ASSUME JobInv, NEW r \in Requests
    PROVE  /\ ProtocolBar[r] = job[r].protocol /\ PhaseBar[r] = PhaseOf(pc[r])
           /\ AskedBar[r] = TriedBy(job[r]) /\ HeardBar[r] = Len(job[r].said)
           /\ BrokenBar[r] = SulliedIn(job[r]) /\ HeardBar[r] \in Nat
    BY DEF ProtocolBar, PhaseBar, AskedBar, HeardBar, BrokenBar, Phase, PhaseOf,
           Tried, TriedBy, Sullied, SulliedIn, JobInv, Shapes

\* What it sees of a request that moves: the others stand still.
LEMMA BarsNext ==
    ASSUME JobInv, NEW r \in Requests, NEW p, NEW x, NEW k, Moves(r, p, x, k)
    PROVE  /\ ProtocolBar' = [ProtocolBar EXCEPT ![r] = k.protocol]
           /\ PhaseBar' = [PhaseBar EXCEPT ![r] = PhaseOf(p)]
           /\ AskedBar' = [AskedBar EXCEPT ![r] = TriedBy(k)]
           /\ HeardBar' = [HeardBar EXCEPT ![r] = Len(k.said)]
           /\ BrokenBar' = [BrokenBar EXCEPT ![r] = SulliedIn(k)]
<1>1. /\ \A q \in Requests \ {r} : pc'[q] = pc[q] /\ job'[q] = job[q]
      /\ pc'[r] = p /\ job'[r] = k
    BY DEF JobInv, Moves
<1>2. \A q \in Requests : Tried(q)' = IF q = r THEN TriedBy(k) ELSE Tried(q)
    BY <1>1 DEF Tried, TriedBy
<1>3. \A q \in Requests : Sullied(q)' = IF q = r THEN SulliedIn(k) ELSE Sullied(q)
    BY <1>1 DEF Sullied, SulliedIn
<1>4. \A q \in Requests : Phase(q)' = IF q = r THEN PhaseOf(p) ELSE Phase(q)
    BY <1>1 DEF Phase, PhaseOf
<1>5. QED
    BY <1>1, <1>2, <1>3, <1>4 DEF ProtocolBar, PhaseBar, AskedBar, HeardBar, BrokenBar

\* What is set to the value it has stays as it is.
LEMMA BarsKept ==
    ASSUME JobInv, NEW r \in Requests
    PROVE  /\ [ProtocolBar EXCEPT ![r] = ProtocolBar[r]] = ProtocolBar
           /\ [PhaseBar EXCEPT ![r] = PhaseBar[r]] = PhaseBar
           /\ [AskedBar EXCEPT ![r] = AskedBar[r]] = AskedBar
           /\ [HeardBar EXCEPT ![r] = HeardBar[r]] = HeardBar
           /\ [BrokenBar EXCEPT ![r] = BrokenBar[r]] = BrokenBar
    BY DEF ProtocolBar, PhaseBar, AskedBar, HeardBar, BrokenBar

\* A step after which the client may only have heard more.
LEMMA BarsSame ==
    ASSUME JobInv, NEW r \in Requests, NEW p, NEW x, NEW k, Moves(r, p, x, k),
           PhaseOf(p) = PhaseOf(pc[r]), k.protocol = job[r].protocol,
           TriedBy(k) = TriedBy(job[r]), SulliedIn(k) = SulliedIn(job[r])
    PROVE  /\ ProtocolBar' = ProtocolBar /\ AskedBar' = AskedBar
           /\ BrokenBar' = BrokenBar /\ PhaseBar' = PhaseBar
           /\ HeardBar' = [HeardBar EXCEPT ![r] = Len(k.said)]
    BY BarsNow, BarsNext, BarsKept

\* Losing an endpoint is GiveUpOn, with what was begun of an answer.
LEMMA PromiseGiveUp ==
    ASSUME JobInv, NEW r \in Requests, at[r] # None, pc[r] \in AtEndpoint,
           NEW k \in Shapes, Moves(r, "choosing", None, k),
           k.protocol = job[r].protocol, TriedBy(k) = TriedBy(job[r]),
           \/ k.said = job[r].said /\ (SulliedIn(k) <=> SulliedIn(job[r]))
           \/ SulliedIn(k) /\ Len(k.said) \in {Len(job[r].said), Len(job[r].said) + 1}
    PROVE  Promise!GiveUpOn(r)
<1>1. PhaseOf("choosing") = PhaseOf(pc[r])
    BY DEF PhaseOf, AtEndpoint
<1>2. /\ ProtocolBar' = ProtocolBar /\ PhaseBar' = PhaseBar /\ AskedBar' = AskedBar
      /\ HeardBar' = [HeardBar EXCEPT ![r] = Len(k.said)]
      /\ BrokenBar' = [BrokenBar EXCEPT ![r] = SulliedIn(k)]
    BY <1>1, BarsNow, BarsNext, BarsKept
<1>3. \/ HeardBar' = HeardBar /\ BrokenBar' = BrokenBar
      \/ /\ BrokenBar' = [BrokenBar EXCEPT ![r] = TRUE]
         /\ \E n \in {0, 1} : HeardBar' = [HeardBar EXCEPT ![r] = @ + n]
  <2>1. CASE k.said = job[r].said /\ (SulliedIn(k) <=> SulliedIn(job[r]))
    <3>1. SulliedIn(k) = SulliedIn(job[r])
        BY <2>1 DEF SulliedIn
    <3>2. QED
        BY <1>2, <2>1, <3>1, BarsNow, BarsKept
  <2>2. CASE SulliedIn(k) /\ Len(k.said) \in {Len(job[r].said), Len(job[r].said) + 1}
    <3>1. SulliedIn(k) = TRUE
        BY <2>2 DEF SulliedIn
    <3>2. HeardBar[r] = Len(job[r].said) /\ Len(job[r].said) \in Nat
        BY BarsNow
    <3>3. \E n \in {0, 1} : Len(k.said) = HeardBar[r] + n
        BY <2>2, <3>2
    <3>4. QED
        BY <1>2, <3>1, <3>3
  <2>3. QED
    BY <2>1, <2>2
<1>4. QED
    BY <1>2, <1>3 DEF Promise!GiveUpOn, Moves, ProtocolBar, PhaseBar, AskedBar,
                      HeardBar, BrokenBar

\* Ending a request is Finish, if the client is told once or has been
\* upgraded.
LEMMA PromiseFinish ==
    ASSUME JobInv, NEW r \in Requests, pc[r] \in Open,
           NEW k \in Shapes, Moves(r, "done", None, k),
           k.protocol = job[r].protocol, TriedBy(k) = TriedBy(job[r]),
           SulliedIn(k) <=> SulliedIn(job[r]), Words(pc[r], job[r]),
           \/ k.said = job[r].said /\ k.protocol = "ws"
           \/ Len(k.said) = Len(job[r].said) + 1 /\ job[r].said # <<"101">>
    PROVE  Promise!Finish(r)
<1>1. PhaseOf(pc[r]) = "open" /\ PhaseOf("done") = "over"
    BY DEF PhaseOf, AtEndpoint, Open
<1>2. SulliedIn(k) = SulliedIn(job[r])
    BY DEF SulliedIn
<1>3. /\ ProtocolBar' = ProtocolBar /\ AskedBar' = AskedBar /\ BrokenBar' = BrokenBar
      /\ PhaseBar' = [PhaseBar EXCEPT ![r] = "over"] /\ PhaseBar[r] = "open"
      /\ HeardBar' = [HeardBar EXCEPT ![r] = Len(k.said)]
    BY <1>1, <1>2, BarsNow, BarsNext, BarsKept
<1>4. \E n \in {0, 1} :
         /\ n = 0 => ProtocolBar[r] = "ws"
         /\ n = 1 => HeardBar[r] = 0 \/ BrokenBar[r]
         /\ HeardBar' = [HeardBar EXCEPT ![r] = @ + n]
  <2>1. CASE k.said = job[r].said /\ k.protocol = "ws"
    <3>1. Len(k.said) = HeardBar[r] + 0
        BY <2>1, BarsNow
    <3>2. ProtocolBar[r] = "ws"
        BY <2>1, BarsNow, Zenon
    <3>3. HeardBar' = [HeardBar EXCEPT ![r] = @ + 0]
        BY <1>3, <3>1
    <3>4. QED
        BY <3>2, <3>3
  <2>2. CASE Len(k.said) = Len(job[r].said) + 1 /\ job[r].said # <<"101">>
    <3>1. Len(k.said) = HeardBar[r] + 1
        BY <2>2, BarsNow
    <3>2. job[r].said = <<>> \/ SulliedIn(job[r])
        BY <2>2 DEF Words
    <3>3. HeardBar[r] = 0 \/ BrokenBar[r]
        BY <3>2, BarsNow
    <3>4. HeardBar' = [HeardBar EXCEPT ![r] = @ + 1]
        BY <1>3, <3>1
    <3>5. 1 \in {0, 1} /\ 1 # 0
        OBVIOUS
    <3>6. QED
        BY <3>3, <3>4, <3>5, Zenon
  <2>3. QED
    BY <2>1, <2>2
<1>5. QED
    BY <1>3, <1>4 DEF Promise!Finish, Moves, ProtocolBar, PhaseBar, AskedBar,
                      HeardBar, BrokenBar

\* A request that arrives is Begin.
LEMMA PromiseBegin ==
    ASSUME JobInv, NEW r \in Requests, pc[r] \in {"idle", "done"},
           NEW p \in Protocols, Moves(r, "listing", None, NewJob(p))
    PROVE  Promise!Begin(r)
<1>1. PhaseOf(pc[r]) # "open" /\ PhaseOf("listing") = "open"
    BY DEF PhaseOf
<1>2. /\ NewJob(p).protocol = p /\ TriedBy(NewJob(p)) = {}
      /\ Len(NewJob(p).said) = 0 /\ SulliedIn(NewJob(p)) = FALSE
    BY NewJobShape DEF NewJob, SulliedIn
<1>3. /\ ProtocolBar' = [ProtocolBar EXCEPT ![r] = p] /\ p \in {"http", "ws"}
      /\ PhaseBar' = [PhaseBar EXCEPT ![r] = "open"] /\ PhaseBar[r] # "open"
      /\ AskedBar' = [AskedBar EXCEPT ![r] = {}]
      /\ HeardBar' = [HeardBar EXCEPT ![r] = 0]
      /\ BrokenBar' = [BrokenBar EXCEPT ![r] = FALSE]
    BY <1>1, <1>2, BarsNow, BarsNext
<1>4. QED
    BY <1>3 DEF Promise!Begin, Moves, ProtocolBar, PhaseBar, AskedBar,
                HeardBar, BrokenBar

\* k is j with its client's connection upgraded.
Upgraded(j, k) ==
    /\ j.protocol = "ws" /\ Len(j.said) = 0
    /\ k.fate = j.fate /\ k.protocol = j.protocol /\ Len(k.said) = 1

\* An upgrade is Connect.
LEMMA PromiseConnect ==
    ASSUME JobInv, NEW r \in Requests, NEW k, Moves(r, "relaying", at[r], k), at' = at,
           PhaseOf(pc[r]) = "open", at[r] # None, Upgraded(job[r], k)
    PROVE  Promise!Connect(r)
<1>1. PhaseOf("relaying") = PhaseOf(pc[r])
    BY DEF PhaseOf
<1>2. /\ TriedBy(k) = TriedBy(job[r]) /\ SulliedIn(k) = SulliedIn(job[r])
      /\ k.protocol = job[r].protocol
    BY DEF TriedBy, SulliedIn, Upgraded
<1>3. /\ ProtocolBar' = ProtocolBar /\ AskedBar' = AskedBar /\ BrokenBar' = BrokenBar
      /\ PhaseBar' = PhaseBar
    BY <1>1, <1>2, BarsSame
<1>4. HeardBar' = [HeardBar EXCEPT ![r] = Len(k.said)]
    BY BarsNext
<1>5. ProtocolBar[r] = "ws" /\ HeardBar[r] = 0
    BY BarsNow, Zenon DEF Upgraded
<1>6. HeardBar' = [HeardBar EXCEPT ![r] = 1]
    BY <1>4 DEF Upgraded
<1>7. QED
    BY <1>3, <1>5, <1>6 DEF Promise!Connect, ProtocolBar, PhaseBar, AskedBar, HeardBar, BrokenBar

\* The bookkeeping of a handler is nothing to its client.
LEMMA PromiseStutter ==
    ASSUME JobInv, NEW r \in Requests, NEW p, NEW k, at' = at,
           pc' = [pc EXCEPT ![r] = p], PhaseOf(p) = PhaseOf(pc[r]),
           job' = [job EXCEPT ![r] = k], k.protocol = job[r].protocol,
           k.fate = job[r].fate, k.said = job[r].said
    PROVE  UNCHANGED Promise!vars
<1>1. Moves(r, p, at[r], k)
    BY DEF Moves, JobInv
<1>2. TriedBy(k) = TriedBy(job[r]) /\ SulliedIn(k) = SulliedIn(job[r])
    BY DEF TriedBy, SulliedIn
<1>3. /\ ProtocolBar' = ProtocolBar /\ AskedBar' = AskedBar /\ BrokenBar' = BrokenBar
      /\ PhaseBar' = PhaseBar /\ HeardBar' = HeardBar
    BY <1>1, <1>2, BarsNow, BarsNext, BarsKept
<1>4. QED
    BY <1>3 DEF Promise!vars, ProtocolBar, PhaseBar, AskedBar, HeardBar, BrokenBar

Asked(r, e) ==
    /\ pc[r] = "choosing" /\ e \in Endpoints /\ job[r].fate[e] = "untried"
    /\ job[r].retries < MaxRetries /\ ~OverBudget(job[r], e)

\* The promise counts as the requests do.
LEMMA SameCardinality == \A S : Promise!Cardinality(S) = Cardinality(S)
    BY DEF Promise!Cardinality, Cardinality

\* Starting a try is Ask.
LEMMA PromiseAsk ==
    ASSUME JobInv, NEW r \in Requests, NEW e, Asked(r, e),
           NEW k, Moves(r, "sending", e, k), k.protocol = job[r].protocol,
           TriedBy(k) = TriedBy(job[r]) \cup {e},
           SulliedIn(k) <=> SulliedIn(job[r]), k.said = job[r].said
    PROVE  Promise!Ask(r, e)
<1> DEFINE Metered == IF PublicFirst THEN {f \in Endpoints : Role[f] = "public"} ELSE {}
<1>1. PhaseOf("choosing") = "open" /\ PhaseOf("sending") = "open" /\ None \notin Endpoints
    BY DEF PhaseOf
<1>2. /\ Books("choosing", avail[r], at[r], job[r]) /\ e \in Endpoints
      /\ e \notin TriedBy(job[r]) /\ job[r].retries < MaxRetries
      /\ pc[r] = "choosing"
    BY DEF JobInv, Fits, Asked, TriedBy
<1>3. /\ at[r] = None /\ Cardinality(TriedBy(job[r])) < MaxRetries
      /\ job[r].publics = Cardinality(PublicsBy(job[r])) /\ job[r].publics \in Nat
    BY <1>2 DEF Books, AtEndpoint, Shapes
<1>4. ASSUME e \in Metered
      PROVE  Cardinality(AskedBar[r] \cap Metered) < PublicFirstAttempts
  <2>1. PublicFirst /\ Role[e] = "public"
    BY <1>4, Zenon
  <2>2. Metered = {f \in Endpoints : Role[f] = "public"}
    BY <2>1, Zenon
  <2>3. AskedBar[r] \cap {f \in Endpoints : Role[f] = "public"} = PublicsBy(job[r])
    BY BarsNow DEF PublicsBy, TriedBy
  <2>4. job[r].publics < PublicFirstAttempts
    BY <1>3, <2>1 DEF Asked, OverBudget
  <2>5. QED
    BY <1>3, <2>2, <2>3, <2>4
<1>5. SulliedIn(k) = SulliedIn(job[r])
    BY DEF SulliedIn
<1>6. /\ ProtocolBar' = ProtocolBar /\ PhaseBar' = PhaseBar /\ HeardBar' = HeardBar
      /\ BrokenBar' = BrokenBar
      /\ AskedBar' = [AskedBar EXCEPT ![r] = AskedBar[r] \cup {e}]
    BY <1>1, <1>2, <1>5, BarsNow, BarsNext, BarsKept
<1>7. /\ PhaseBar[r] = "open" /\ e \notin AskedBar[r]
      /\ Cardinality(AskedBar[r]) < MaxRetries
    BY <1>1, <1>2, <1>3, BarsNow
<1>8. at' = [at EXCEPT ![r] = e]
    BY DEF Moves
<1> HIDE DEF Metered
<1>9. e \in Metered => Cardinality(AskedBar[r] \cap Metered) < PublicFirstAttempts
    BY <1>4
<1>10. QED
    BY <1>3, <1>6, <1>7, <1>8, <1>9, SameCardinality
    DEF Promise!Ask, Metered, ProtocolBar, PhaseBar, AskedBar, HeardBar, BrokenBar

-----------------------------------------------------------------------------
(* The invariant of all requests is that of the one that takes the step      *)

\* A step of one request keeps what fits the others.
LEMMA FitsFrame ==
    ASSUME JobInv, NEW r \in Requests, NEW p, NEW a, NEW x, NEW k,
           pc' = [pc EXCEPT ![r] = p], avail' = [avail EXCEPT ![r] = a],
           at' = [at EXCEPT ![r] = x], job' = [job EXCEPT ![r] = k],
           Fits(p, a, x, k)
    PROVE  JobInv'
<1>1. /\ p \in Open \cup {"idle", "done"} /\ a \in SUBSET Endpoints
      /\ k \in Shapes /\ x \in Endpoints \cup {None}
    BY DEF Fits, Books
<1>2. /\ pc' \in [Requests -> Open \cup {"idle", "done"}]
      /\ avail' \in [Requests -> SUBSET Endpoints]
      /\ at' \in [Requests -> Endpoints \cup {None}]
      /\ job' \in [Requests -> Shapes]
    BY <1>1 DEF JobInv
<1>3. ASSUME NEW q \in Requests
      PROVE  Fits(pc'[q], avail'[q], at'[q], job'[q])
  <2>1. CASE q = r
    BY <2>1 DEF JobInv
  <2>2. CASE q # r
    <3>1. pc'[q] = pc[q] /\ avail'[q] = avail[q] /\ at'[q] = at[q] /\ job'[q] = job[q]
        BY <2>2 DEF JobInv
    <3>2. QED
        BY <3>1 DEF JobInv
  <2>3. QED
    BY <2>1, <2>2
<1>4. QED
    BY <1>2, <1>3 DEF JobInv

-----------------------------------------------------------------------------
(* The kinds of steps                                                        *)

\* The client hears one more thing, or has a WebSocket that says no more.
Answered(j, k) ==
    \/ k.said = j.said /\ j.protocol = "ws"
    \/ Len(k.said) = Len(j.said) + 1 /\ j.said # <<"101">>

\* Saying anything is an answer, or comes after an upgrade.
LEMMA SayAnswers ==
    ASSUME NEW p \in Open, NEW j, Words(p, j), NEW i \in Shapes, i.said = j.said,
           i.protocol = j.protocol, NEW w \in Endpoints \cup OwnAnswers,
           NEW k, k.said = Say(i, w).said
    PROVE  Answered(j, k)
<1>1. CASE j.said = <<"101">>
  <2>1. j.protocol = "ws"
    BY <1>1 DEF Words, Shapes
  <2>2. QED
    BY <1>1, <2>1, SayShape DEF Answered
<1>2. CASE j.said # <<"101">>
    BY <1>2, SayShape DEF Answered
<1>3. QED
    BY <1>1, <1>2

\* A try ends, and the loop goes on.
LEMMA TryLost ==
    ASSUME JobInv, NEW r \in Requests, pc[r] \in AtEndpoint,
           NEW f, NEW k, Settled(job[r], at[r], f, k), Charged(job[r], at[r], f, k),
           k.retries = job[r].retries, k.giving_up = job[r].giving_up,
           \/ f \notin {"broke", "unwanted"} /\ k.said = job[r].said
           \/ /\ f \in {"broke", "unwanted"}
              /\ \E w \in (Endpoints \cup OwnAnswers) \ {"101"} :
                    \/ k.said = Append(job[r].said, w)
                    \/ k.said = job[r].said,
           Lose(r, k)
    PROVE  JobInv' /\ Promise!GiveUpOn(r)
<1> DEFINE k2 == Spent(k)
<1>1. /\ Books(pc[r], avail[r], at[r], job[r]) /\ Charges(job[r])
      /\ Words(pc[r], job[r])
    BY DEF JobInv, Fits
<1>2. /\ ~k.giving_up /\ at[r] \in Endpoints /\ at[r] # None
      /\ job[r] \in Shapes /\ job[r].fate[at[r]] = "sent"
    BY <1>1 DEF Books, AtEndpoint
<1>3. /\ Books("choosing", avail[r] \ {at[r]}, None, k2)
      /\ TriedBy(k2) = TriedBy(job[r])
  <2>1. Books("choosing", avail[r] \ {at[r]}, None, k2)
    BY <1>1, <1>2, BooksLose
  <2>2. TriedBy(k) = TriedBy(job[r])
    BY <1>2, SettledTried
  <2>3. k2.fate = k.fate
    BY SpentShape DEF Settled
  <2>4. QED
    BY <2>1, <2>2, <2>3 DEF TriedBy
<1>4. Charges(k)
    BY <1>1, ChargesTry
<1>5. /\ Words("choosing", k)
      /\ \/ k.said = job[r].said /\ (SulliedIn(k) <=> SulliedIn(job[r]))
         \/ SulliedIn(k) /\ Len(k.said) \in {Len(job[r].said), Len(job[r].said) + 1}
    BY <1>1, WordsLose
<1>6. /\ k2 \in Shapes /\ k2.protocol = k.protocol /\ k2.first400 = k.first400
      /\ k2.fate = k.fate /\ k2.blamed = k.blamed /\ k2.said = k.said
      /\ k.protocol = job[r].protocol
    BY SpentShape DEF Settled
<1> HIDE DEF k2
<1>7. Charges(k2)
    BY <1>4, <1>6, ChargesSame
<1>8. (SulliedIn(k2) <=> SulliedIn(k)) /\ Words("choosing", k2)
    BY <1>5, <1>6 DEF SulliedIn, Words
<1>9. /\ pc' = [pc EXCEPT ![r] = "choosing"]
      /\ avail' = [avail EXCEPT ![r] = avail[r] \ {at[r]}]
      /\ at' = [at EXCEPT ![r] = None] /\ job' = [job EXCEPT ![r] = k2]
    BY DEF Lose, Spent, k2
<1>10. JobInv'
    BY <1>3, <1>7, <1>8, <1>9, FitsFrame DEF Fits
<1>11. Moves(r, "choosing", None, k2)
    BY <1>9 DEF Moves
<1>12. \/ k2.said = job[r].said /\ (SulliedIn(k2) <=> SulliedIn(job[r]))
       \/ SulliedIn(k2) /\ Len(k2.said) \in {Len(job[r].said), Len(job[r].said) + 1}
    BY <1>5, <1>6, <1>8
<1>13. Promise!GiveUpOn(r)
    BY <1>2, <1>3, <1>6, <1>11, <1>12, PromiseGiveUp
<1>14. QED
    BY <1>10, <1>13

\* A try ends, and the request with it.
LEMMA TryFinished ==
    ASSUME JobInv, NEW r \in Requests, pc[r] \in AtEndpoint,
           NEW f, NEW k, Settled(job[r], at[r], f, k), Charged(job[r], at[r], f, k),
           f \notin {"broke", "unwanted"},
           k.retries \in {job[r].retries, job[r].retries + 1},
           k.giving_up => /\ k.retries = job[r].retries + 1
                          /\ avail[r] = {at[r]} \/ k.retries >= MaxRetries,
           Answered(job[r], k), Finish(r, k)
    PROVE  JobInv' /\ Promise!Finish(r)
<1>1. /\ Books(pc[r], avail[r], at[r], job[r]) /\ Charges(job[r])
      /\ Words(pc[r], job[r])
    BY DEF JobInv, Fits
<1>2. /\ at[r] \in Endpoints /\ job[r].fate[at[r]] = "sent" /\ job[r] \in Shapes
      /\ k \in Shapes /\ k.protocol = job[r].protocol
    BY <1>1 DEF Books, AtEndpoint, Settled
<1>3. Books("done", {}, None, k) /\ TriedBy(k) = TriedBy(job[r])
    BY <1>1, BooksFinish
<1>4. Charges(k)
    BY <1>1, ChargesTry
<1>5. Words("done", k)
    BY DEF Words, Open, AtEndpoint
<1>6. /\ pc' = [pc EXCEPT ![r] = "done"] /\ avail' = [avail EXCEPT ![r] = {}]
      /\ at' = [at EXCEPT ![r] = None] /\ job' = [job EXCEPT ![r] = k]
    BY DEF Finish
<1>7. JobInv'
    BY <1>3, <1>4, <1>5, <1>6, FitsFrame DEF Fits
<1>8. SulliedIn(k) <=> SulliedIn(job[r])
    BY <1>2, SettledTried DEF SulliedIn
<1>9. Moves(r, "done", None, k) /\ pc[r] \in Open
    BY <1>6 DEF Moves, Open
<1>10. Promise!Finish(r)
    BY <1>1, <1>2, <1>3, <1>8, <1>9, PromiseFinish DEF Answered
<1>11. QED
    BY <1>7, <1>10

\* The request ends between two tries.
LEMMA Quits ==
    ASSUME JobInv, NEW r \in Requests, pc[r] \in {"listing", "choosing"},
           NEW k \in Shapes, k.fate = job[r].fate, k.publics = job[r].publics,
           k.listed = job[r].listed, k.retries = job[r].retries,
           k.protocol = job[r].protocol, k.blamed = job[r].blamed,
           k.first400 = job[r].first400,
           k.giving_up => pc[r] = "choosing" /\ (Exhausted(r) \/ Astray(avail[r], k)),
           Answered(job[r], k), Finish(r, k)
    PROVE  JobInv' /\ Promise!Finish(r)
<1>1. /\ Books(pc[r], avail[r], at[r], job[r]) /\ Charges(job[r])
      /\ Words(pc[r], job[r])
    BY DEF JobInv, Fits
<1>2. Books("done", {}, None, k) /\ TriedBy(k) = TriedBy(job[r])
    BY <1>1, BooksQuit DEF Exhausted
<1>3. Charges(k)
    BY <1>1, ChargesSame
<1>4. Words("done", k)
    BY DEF Words, Open, AtEndpoint
<1>5. /\ pc' = [pc EXCEPT ![r] = "done"] /\ avail' = [avail EXCEPT ![r] = {}]
      /\ at' = [at EXCEPT ![r] = None] /\ job' = [job EXCEPT ![r] = k]
    BY DEF Finish
<1>6. JobInv'
    BY <1>2, <1>3, <1>4, <1>5, FitsFrame DEF Fits
<1>7. SulliedIn(k) <=> SulliedIn(job[r])
    BY DEF SulliedIn
<1>8. Moves(r, "done", None, k) /\ pc[r] \in Open
    BY <1>5 DEF Moves, Open
<1>9. Promise!Finish(r)
    BY <1>1, <1>2, <1>7, <1>8, PromiseFinish DEF Answered
<1>10. QED
    BY <1>6, <1>9

\* A step that the client sees nothing of and that leaves the job alone.
LEMMA Bookkeeping ==
    ASSUME JobInv, NEW r \in Requests, NEW a, avail' = [avail EXCEPT ![r] = a],
           UNCHANGED <<pc, at, job>>, Books(pc[r], a, at[r], job[r])
    PROVE  JobInv' /\ UNCHANGED Promise!vars
<1>1. Charges(job[r]) /\ Words(pc[r], job[r])
    BY DEF JobInv, Fits
<1>2. /\ pc' = [pc EXCEPT ![r] = pc[r]] /\ at' = [at EXCEPT ![r] = at[r]]
      /\ job' = [job EXCEPT ![r] = job[r]]
    BY DEF JobInv
<1>3. JobInv'
    BY <1>1, <1>2, FitsFrame DEF Fits
<1>4. UNCHANGED Promise!vars
    BY DEF Promise!vars, Phase, Tried, Sullied
<1>5. QED
    BY <1>3, <1>4

-----------------------------------------------------------------------------
(* What a try comes to                                                       *)

\* What is known of a request during a try.
LEMMA AtATry ==
    ASSUME JobInv, NEW r \in Requests, pc[r] \in AtEndpoint
    PROVE  /\ at[r] \in Endpoints /\ at[r] # None /\ at[r] \in avail[r]
           /\ job[r] \in Shapes /\ ~job[r].giving_up
           /\ Words(pc[r], job[r]) /\ pc[r] \in Open
           /\ job[r].first400 # at[r] /\ job[r].fate[at[r]] = "sent"
<1>1. /\ Books(pc[r], avail[r], at[r], job[r]) /\ Charges(job[r])
      /\ Words(pc[r], job[r])
    BY DEF JobInv, Fits
<1>2. /\ at[r] \in Endpoints /\ at[r] # None /\ at[r] \in avail[r]
      /\ job[r] \in Shapes /\ ~job[r].giving_up /\ pc[r] \in Open
      /\ job[r].fate[at[r]] = "sent"
    BY <1>1 DEF Books, AtEndpoint, Open
<1>3. job[r].first400 # at[r]
    BY <1>1, <1>2 DEF Charges
<1>4. QED
    BY <1>1, <1>2, <1>3

\* The job once the try has come to f, and anything that only changes what is
\* said, who is blamed and whose 400 is kept.
LEMMA EndedSettles ==
    ASSUME JobInv, NEW r \in Requests, pc[r] \in AtEndpoint,
           NEW f \in Fates \ {"untried", "sent"},
           NEW k \in Shapes, k.fate = Ended(r, f).fate, k.publics = Ended(r, f).publics,
           k.protocol = Ended(r, f).protocol, k.listed = Ended(r, f).listed
    PROVE  Settled(job[r], at[r], f, k)
    BY AtATry, EndedShape DEF Settled

\* The job at the end of a try, and with one endpoint blamed or one thing said.
EndsAs(r, f, k) ==
    /\ k \in Shapes /\ k.fate = Ended(r, f).fate /\ k.publics = Ended(r, f).publics
    /\ k.protocol = Ended(r, f).protocol /\ k.listed = Ended(r, f).listed
    /\ k.retries = job[r].retries /\ k.first400 = job[r].first400
    /\ k.giving_up = job[r].giving_up

\* What ends a try and changes nothing else.
LEMMA EndsPlainly ==
    ASSUME NEW r \in Requests, job[r] \in Shapes, at[r] \in Endpoints, NEW f \in Fates
    PROVE  /\ Ended(r, f) \in Shapes /\ EndsAs(r, f, Ended(r, f))
           /\ Ended(r, f).blamed = job[r].blamed /\ Ended(r, f).said = job[r].said
<1> DEFINE j == Ended(r, f)
<1>1. /\ j \in Shapes /\ j.said = job[r].said /\ j.blamed = job[r].blamed
      /\ j.retries = job[r].retries /\ j.first400 = job[r].first400
      /\ j.giving_up = job[r].giving_up
    BY EndedShape
<1>2. QED
    BY <1>1 DEF EndsAs

\* The end of a try whose endpoint is blamed.
LEMMA EndsBlaming ==
    ASSUME NEW r \in Requests, job[r] \in Shapes, at[r] \in Endpoints, NEW f \in Fates
    PROVE  /\ EndsAs(r, f, Blame(Ended(r, f), at[r]))
           /\ Blame(Ended(r, f), at[r]).blamed = job[r].blamed \cup {at[r]}
           /\ Blame(Ended(r, f), at[r]).said = job[r].said
<1> DEFINE j == Ended(r, f)
<1>1. /\ j \in Shapes /\ j.retries = job[r].retries /\ j.first400 = job[r].first400
      /\ j.giving_up = job[r].giving_up /\ j.blamed = job[r].blamed
      /\ j.said = job[r].said
    BY EndedShape
<1>2. /\ EndsAs(r, f, Blame(j, at[r])) <=>
            /\ Blame(j, at[r]) \in Shapes /\ Blame(j, at[r]).fate = j.fate
            /\ Blame(j, at[r]).publics = j.publics
            /\ Blame(j, at[r]).protocol = j.protocol /\ Blame(j, at[r]).listed = j.listed
            /\ Blame(j, at[r]).retries = job[r].retries
            /\ Blame(j, at[r]).first400 = job[r].first400
            /\ Blame(j, at[r]).giving_up = job[r].giving_up
    BY DEF EndsAs
<1> HIDE DEF j
<1>3. /\ EndsAs(r, f, Blame(j, at[r]))
      /\ Blame(j, at[r]).blamed = job[r].blamed \cup {at[r]}
      /\ Blame(j, at[r]).said = job[r].said
    BY <1>1, <1>2, BlameShape
<1>4. QED
    BY <1>3 DEF j

\* The end of a try after which the client is told something.
LEMMA EndsSaying ==
    ASSUME NEW r \in Requests, job[r] \in Shapes, at[r] \in Endpoints, NEW f \in Fates,
           NEW w \in Endpoints \cup OwnAnswers
    PROVE  /\ EndsAs(r, f, Say(Ended(r, f), w))
           /\ Say(Ended(r, f), w).blamed = job[r].blamed
           /\ \/ Say(Ended(r, f), w).said = job[r].said
              \/ Say(Ended(r, f), w).said = Append(job[r].said, w)
<1> DEFINE j == Ended(r, f)
<1>1. /\ j \in Shapes /\ j.retries = job[r].retries /\ j.first400 = job[r].first400
      /\ j.giving_up = job[r].giving_up /\ j.blamed = job[r].blamed
      /\ j.said = job[r].said
    BY EndedShape
<1>2. /\ EndsAs(r, f, Say(j, w)) <=>
            /\ Say(j, w) \in Shapes /\ Say(j, w).fate = j.fate
            /\ Say(j, w).publics = j.publics
            /\ Say(j, w).protocol = j.protocol /\ Say(j, w).listed = j.listed
            /\ Say(j, w).retries = job[r].retries
            /\ Say(j, w).first400 = job[r].first400
            /\ Say(j, w).giving_up = job[r].giving_up
    BY DEF EndsAs
<1> HIDE DEF j
<1>3. /\ EndsAs(r, f, Say(j, w))
      /\ Say(j, w).blamed = job[r].blamed
      /\ \/ Say(j, w).said = job[r].said
         \/ Say(j, w).said = Append(job[r].said, w)
  <2>1. /\ Say(j, w) \in Shapes /\ Say(j, w).fate = j.fate
        /\ Say(j, w).publics = j.publics /\ Say(j, w).protocol = j.protocol
        /\ Say(j, w).listed = j.listed /\ Say(j, w).retries = j.retries
    BY <1>1, SayShape
  <2>2. /\ Say(j, w).first400 = j.first400 /\ Say(j, w).giving_up = j.giving_up
        /\ Say(j, w).blamed = j.blamed
    BY <1>1, SayShape
  <2>3. Say(j, w).said = j.said \/ Say(j, w).said = Append(j.said, w)
    BY <1>1, SayShape
  <2>4. QED
    BY <1>1, <1>2, <2>1, <2>2, <2>3
<1>4. QED
    BY <1>3 DEF j

\* A failed endpoint is blamed and given up.
LEMMA BlameLoses ==
    ASSUME JobInv, NEW r \in Requests, pc[r] \in AtEndpoint,
           NEW f \in {"failed", "cut", "limited"},
           Lose(r, Blame(Ended(r, f), at[r]))
    PROVE  JobInv' /\ Promise!GiveUpOn(r)
<1> DEFINE k == Blame(Ended(r, f), at[r])
<1>1. at[r] \in Endpoints /\ job[r] \in Shapes /\ f \in Fates \ {"untried", "sent"}
    BY AtATry DEF Fates
<1>2. /\ EndsAs(r, f, k) /\ k.blamed = job[r].blamed \cup {at[r]}
      /\ k.said = job[r].said
    BY <1>1, EndsBlaming
<1>3. Lose(r, k)
    OBVIOUS
<1> HIDE DEF k
<1>4. Settled(job[r], at[r], f, k)
    BY <1>1, <1>2, EndedSettles DEF EndsAs
<1>5. Charged(job[r], at[r], f, k)
    BY <1>2 DEF Charged, EndsAs
<1>6. QED
    BY <1>2, <1>3, <1>4, <1>5, TryLost DEF EndsAs

\* A relay may fail for good: the request ends with the blame.
LEMMA BlameFinishes ==
    ASSUME JobInv, NEW r \in Requests, pc[r] \in AtEndpoint, job[r].protocol = "ws",
           Finish(r, Blame(Ended(r, "failed"), at[r]))
    PROVE  JobInv' /\ Promise!Finish(r)
<1> DEFINE f == "failed"
           k == Blame(Ended(r, f), at[r])
<1>1. at[r] \in Endpoints /\ job[r] \in Shapes /\ f \in Fates \ {"untried", "sent"}
    BY AtATry DEF Fates
<1>2. /\ EndsAs(r, f, k) /\ k.blamed = job[r].blamed \cup {at[r]}
      /\ k.said = job[r].said
    BY <1>1, EndsBlaming
<1>3. Finish(r, k) /\ ~k.giving_up /\ f \notin {"broke", "unwanted"}
    BY <1>2, AtATry DEF EndsAs
<1> HIDE DEF k
<1>4. Settled(job[r], at[r], f, k)
    BY <1>1, <1>2, EndedSettles DEF EndsAs
<1>5. Charged(job[r], at[r], f, k)
    BY <1>2 DEF Charged, EndsAs
<1>6. Answered(job[r], k)
    BY <1>2 DEF Answered
<1>7. QED
    BY <1>2, <1>3, <1>4, <1>5, <1>6, TryFinished DEF EndsAs

\* A rate limit inside an answer of status 200 costs the try.
LEMMA EmbeddedLimitLoses ==
    ASSUME JobInv, NEW r \in Requests, EmbeddedLimit(r)
    PROVE  JobInv' /\ Promise!GiveUpOn(r)
<1> DEFINE f == "limited"
           k == Ended(r, f)
<1>1. pc[r] \in AtEndpoint /\ Lose(r, k)
    BY DEF EmbeddedLimit, Sending, AtEndpoint
<1>2. /\ at[r] \in Endpoints /\ job[r] \in Shapes /\ f \in Fates \ {"untried", "sent"}
      /\ f \notin {"broke", "unwanted"}
    BY <1>1, AtATry DEF Fates
<1>3. /\ k \in Shapes /\ k.blamed = job[r].blamed /\ k.retries = job[r].retries
      /\ k.first400 = job[r].first400
      /\ k.said = job[r].said /\ k.giving_up = job[r].giving_up
    BY <1>2, EndedShape
<1>4. Settled(job[r], at[r], f, k)
    BY <1>1, <1>2, <1>3, EndedSettles
<1> HIDE DEF k
<1>5. Charged(job[r], at[r], f, k)
    BY <1>3 DEF Charged
<1>6. QED
    BY <1>1, <1>2, <1>3, <1>4, <1>5, TryLost DEF EndsAs

\* An answer that breaks off, or an upgrade that fails.
LEMMA SulliedLoses ==
    ASSUME JobInv, NEW r \in Requests, BrokeOff(r) \/ UpgradeFails(r)
    PROVE  JobInv' /\ Promise!GiveUpOn(r)
<1>1. pc[r] \in AtEndpoint
    BY DEF BrokeOff, UpgradeFails, Sending, AtEndpoint
<1>2. at[r] \in Endpoints /\ job[r] \in Shapes /\ at[r] \notin OwnAnswers
    BY <1>1, AtATry
<1>3. PICK f \in {"broke", "unwanted"}, w \in (Endpoints \cup OwnAnswers) \ {"101"} :
         Lose(r, Say(Ended(r, f), w))
    BY <1>2 DEF BrokeOff, UpgradeFails, OwnAnswers
<1> DEFINE k == Say(Ended(r, f), w)
<1>4. f \in Fates \ {"untried", "sent"}
    BY DEF Fates
<1>5. /\ EndsAs(r, f, k) /\ k.blamed = job[r].blamed
      /\ k.said = job[r].said \/ k.said = Append(job[r].said, w)
    BY <1>2, <1>4, EndsSaying
<1>6. Lose(r, k)
    BY <1>3
<1> HIDE DEF k
<1>7. Settled(job[r], at[r], f, k)
    BY <1>1, <1>4, <1>5, EndedSettles DEF EndsAs
<1>8. Charged(job[r], at[r], f, k)
    BY <1>5 DEF Charged, EndsAs
<1>9. \E v \in (Endpoints \cup OwnAnswers) \ {"101"} :
         k.said = Append(job[r].said, v) \/ k.said = job[r].said
    BY <1>5
<1>10. QED
    BY <1>1, <1>5, <1>6, <1>7, <1>8, <1>9, TryLost DEF EndsAs

\* The first 400 of a request.
LEMMA FirstBadRequest ==
    ASSUME JobInv, NEW r \in Requests, pc[r] \in AtEndpoint,
           Lose(r, [Ended(r, "balked") EXCEPT !.first400 = at[r]])
    PROVE  JobInv' /\ Promise!GiveUpOn(r)
<1> DEFINE f == "balked"
           j == Ended(r, f)
           k == [j EXCEPT !.first400 = at[r]]
<1>1. /\ at[r] \in Endpoints /\ job[r] \in Shapes /\ f \in Fates \ {"untried", "sent"}
      /\ f \notin {"broke", "unwanted"}
    BY AtATry DEF Fates
<1>2. /\ j \in Shapes /\ j.retries = job[r].retries /\ j.blamed = job[r].blamed
      /\ j.said = job[r].said /\ j.giving_up = job[r].giving_up
    BY <1>1, EndedShape
<1>3. Lose(r, k)
    OBVIOUS
<1> HIDE DEF j
<1>4. /\ k \in Shapes /\ k.fate = j.fate /\ k.publics = j.publics
      /\ k.protocol = j.protocol /\ k.listed = j.listed /\ k.first400 = at[r]
      /\ k.retries = j.retries /\ k.blamed = j.blamed /\ k.said = j.said
      /\ k.giving_up = j.giving_up
    BY <1>1, <1>2 DEF Shapes
<1> HIDE DEF k
<1>5. Settled(job[r], at[r], f, k)
    BY <1>1, <1>4, EndedSettles DEF j
<1>6. Charged(job[r], at[r], f, k)
    BY <1>2, <1>4 DEF Charged
<1>7. QED
    BY <1>1, <1>2, <1>3, <1>4, <1>5, <1>6, TryLost

\* The second one is passed on.
LEMMA SecondBadRequest ==
    ASSUME JobInv, NEW r \in Requests, pc[r] \in AtEndpoint,
           Finish(r, Say(Ended(r, "balked"), "400"))
    PROVE  JobInv' /\ Promise!Finish(r)
<1> DEFINE f == "balked"
           k == Say(Ended(r, f), "400")
<1>1. /\ at[r] \in Endpoints /\ job[r] \in Shapes /\ f \in Fates \ {"untried", "sent"}
      /\ f \notin {"broke", "unwanted"} /\ "400" \in Endpoints \cup OwnAnswers
    BY AtATry DEF Fates, OwnAnswers
<1>2. EndsAs(r, f, k) /\ k.blamed = job[r].blamed
    BY <1>1, EndsSaying
<1>3. Finish(r, k) /\ ~k.giving_up
    BY <1>2, AtATry DEF EndsAs
<1>4. Answered(job[r], k)
  <2>1. /\ Ended(r, f) \in Shapes /\ Ended(r, f).said = job[r].said
        /\ Ended(r, f).protocol = job[r].protocol
    BY <1>1, EndedShape
  <2>2. QED
    BY <1>1, <2>1, AtATry, SayAnswers
<1> HIDE DEF k
<1>5. Settled(job[r], at[r], f, k)
    BY <1>1, <1>2, EndedSettles DEF EndsAs
<1>6. Charged(job[r], at[r], f, k)
    BY <1>2 DEF Charged, EndsAs
<1>7. QED
    BY <1>1, <1>2, <1>3, <1>4, <1>5, <1>6, TryFinished DEF EndsAs

\* The endpoint serves the request; the one that answered 400 before it is
\* blamed.
LEMMA WonShape ==
    ASSUME NEW j \in Shapes
    PROVE  /\ Won(j) \in Shapes
           /\ \/ j.first400 = None /\ Won(j).blamed = j.blamed
              \/ j.first400 # None /\ Won(j).blamed = j.blamed \cup {j.first400}
           /\ Won(j).first400 = None
           /\ Won(j).protocol = j.protocol /\ Won(j).retries = j.retries
           /\ Won(j).publics = j.publics /\ Won(j).listed = j.listed
           /\ Won(j).fate = j.fate /\ Won(j).said = j.said
           /\ Won(j).giving_up = j.giving_up
<1>1. CASE j.first400 = None
    BY <1>1 DEF Won
<1>2. CASE j.first400 # None
  <2> DEFINE b == Blame(j, j.first400)
  <2>1. /\ b \in Shapes /\ b.blamed = j.blamed \cup {j.first400}
        /\ b.protocol = j.protocol /\ b.retries = j.retries
        /\ b.publics = j.publics /\ b.listed = j.listed
        /\ b.fate = j.fate /\ b.said = j.said /\ b.giving_up = j.giving_up
    <3>1. j.first400 \in Endpoints
        BY <1>2 DEF Shapes
    <3>2. QED
        BY <3>1, BlameShape
  <2>2. Won(j) = [b EXCEPT !.first400 = None]
    BY <1>2 DEF Won
  <2> HIDE DEF b
  <2>3. QED
    BY <1>2, <2>1, <2>2 DEF Shapes
<1>3. QED
    BY <1>1, <1>2

\* A try that is won ends the request, with the endpoint of an earlier 400
\* blamed.
LEMMA WonFinishes ==
    ASSUME JobInv, NEW r \in Requests, pc[r] \in AtEndpoint,
           NEW j \in Shapes, Finish(r, Won(j)), Answered(job[r], j),
           EndsAs(r, "won", j), j.blamed = job[r].blamed
    PROVE  JobInv' /\ Promise!Finish(r)
<1> DEFINE f == "won"
           k == Won(j)
<1>1. /\ at[r] \in Endpoints /\ job[r] \in Shapes /\ f \in Fates \ {"untried", "sent"}
      /\ f \notin {"broke", "unwanted"} /\ ~job[r].giving_up
    BY AtATry DEF Fates
<1>2. /\ k \in Shapes /\ k.fate = j.fate /\ k.publics = j.publics
      /\ k.protocol = j.protocol /\ k.listed = j.listed /\ k.first400 = None
      /\ k.retries = j.retries /\ k.said = j.said /\ k.giving_up = j.giving_up
      /\ \/ j.first400 = None /\ k.blamed = j.blamed
         \/ j.first400 # None /\ k.blamed = j.blamed \cup {j.first400}
    BY WonShape
<1>3. Finish(r, k)
    OBVIOUS
<1> HIDE DEF k
<1>4. Answered(job[r], k)
    BY <1>2 DEF Answered
<1>5. Settled(job[r], at[r], f, k)
    BY <1>1, <1>2, EndedSettles DEF EndsAs
<1>6. Charged(job[r], at[r], f, k)
    BY <1>2 DEF Charged, EndsAs
<1>7. ~k.giving_up /\ k.retries = job[r].retries
    BY <1>1, <1>2 DEF EndsAs
<1>8. QED
    BY <1>1, <1>3, <1>4, <1>5, <1>6, <1>7, TryFinished

\* An HTTP answer that is passed on ends the request.
LEMMA ServedFinishes ==
    ASSUME JobInv, NEW r \in Requests, Served(r)
    PROVE  JobInv' /\ Promise!Finish(r)
<1> DEFINE f == "won"
           j == Say(Ended(r, f), at[r])
<1>1. pc[r] \in AtEndpoint /\ Finish(r, Won(j))
    BY DEF Served, Sending, AtEndpoint
<1>2. /\ at[r] \in Endpoints /\ job[r] \in Shapes /\ f \in Fates
      /\ at[r] \in Endpoints \cup OwnAnswers
    BY <1>1, AtATry DEF Fates
<1>3. EndsAs(r, f, j) /\ j.blamed = job[r].blamed
    BY <1>2, EndsSaying
<1>4. Answered(job[r], j)
  <2>1. /\ Ended(r, f) \in Shapes /\ Ended(r, f).said = job[r].said
        /\ Ended(r, f).protocol = job[r].protocol
    BY <1>2, EndedShape
  <2>2. QED
    BY <1>1, <1>2, <2>1, AtATry, SayAnswers
<1> HIDE DEF j
<1>5. QED
    BY <1>1, <1>3, <1>4, WonFinishes DEF EndsAs

\* So does a relay that ends.
LEMMA RelayEndFinishes ==
    ASSUME JobInv, NEW r \in Requests, RelayEnds(r)
    PROVE  JobInv' /\ Promise!Finish(r)
<1> DEFINE f == "won"
           j == Ended(r, f)
<1>1. pc[r] \in AtEndpoint /\ Finish(r, Won(j)) /\ pc[r] = "relaying"
    BY DEF RelayEnds, AtEndpoint
<1>2. /\ at[r] \in Endpoints /\ job[r] \in Shapes /\ f \in Fates
      /\ job[r].protocol = "ws"
    BY <1>1, AtATry DEF Fates, Words
<1>3. /\ j \in Shapes /\ j.said = job[r].said /\ j.blamed = job[r].blamed
      /\ EndsAs(r, f, j)
    BY <1>2, EndsPlainly
<1> HIDE DEF j
<1>4. Answered(job[r], j)
    BY <1>2, <1>3 DEF Answered
<1>5. QED
    BY <1>1, <1>3, <1>4, WonFinishes

\* A rate limit met on the last try of a WebSocket request.
LEMMA LastLimitFinishes ==
    ASSUME JobInv, NEW r \in Requests, pc[r] \in AtEndpoint,
           job[r].protocol # "http",
           ~(avail[r] # {at[r]} /\ Blame(Ended(r, "limited"), at[r]).retries + 1 < MaxRetries),
           NEW w \in {"502", "429"},
           Finish(r, [Say(Blame(Ended(r, "limited"), at[r]), w)
                        EXCEPT !.retries = @ + 1, !.giving_up = TRUE])
    PROVE  JobInv' /\ Promise!Finish(r)
<1> DEFINE f == "limited"
           b == Blame(Ended(r, f), at[r])
           s == Say(b, w)
           n == s.retries + 1
           k == [s EXCEPT !.retries = n, !.giving_up = TRUE]
<1>1. /\ at[r] \in Endpoints /\ job[r] \in Shapes /\ f \in Fates \ {"untried", "sent"}
      /\ f \notin {"broke", "unwanted"} /\ w \in Endpoints \cup OwnAnswers
    BY AtATry DEF Fates, OwnAnswers
<1>2. /\ EndsAs(r, f, b) /\ b.blamed = job[r].blamed \cup {at[r]}
      /\ b.said = job[r].said
    BY <1>1, EndsBlaming
<1>3. Finish(r, k) /\ ~(avail[r] # {at[r]} /\ b.retries + 1 < MaxRetries)
    OBVIOUS
<1> HIDE DEF b
<1>4. /\ EndsAs(r, f, s) /\ s.blamed = b.blamed
      /\ b \in Shapes /\ b.protocol = job[r].protocol
  <2>1. b \in Shapes /\ b.protocol = job[r].protocol
    BY <1>1, <1>2, EndedShape DEF EndsAs
  <2>2. /\ s \in Shapes /\ s.protocol = b.protocol /\ s.retries = b.retries
        /\ s.publics = b.publics /\ s.first400 = b.first400
        /\ s.listed = b.listed /\ s.fate = b.fate
        /\ s.blamed = b.blamed /\ s.giving_up = b.giving_up
    BY <1>1, <2>1, SayShape
  <2> HIDE DEF s
  <2>3. QED
    BY <1>2, <2>1, <2>2 DEF EndsAs
<1>5. Answered(job[r], s)
    BY <1>1, <1>2, <1>4, AtATry, SayAnswers
<1> HIDE DEF s
<1>6. n \in Nat /\ n = job[r].retries + 1
    BY <1>4 DEF EndsAs, Shapes
<1> HIDE DEF n
<1>7. /\ k \in Shapes /\ k.fate = s.fate /\ k.publics = s.publics
      /\ k.protocol = s.protocol /\ k.listed = s.listed /\ k.first400 = s.first400
      /\ k.retries = n /\ k.said = s.said /\ k.blamed = s.blamed
    BY <1>4, <1>6 DEF EndsAs, Shapes
<1> HIDE DEF k
<1>8. Settled(job[r], at[r], f, k)
    BY <1>1, <1>4, <1>7, EndedSettles DEF EndsAs
<1>9. Charged(job[r], at[r], f, k)
    BY <1>2, <1>4, <1>7 DEF Charged, EndsAs
<1>10. Answered(job[r], k)
    BY <1>5, <1>7 DEF Answered
<1>11. k.retries = job[r].retries + 1 /\ (avail[r] = {at[r]} \/ k.retries >= MaxRetries)
    BY <1>1, <1>2, <1>3, <1>6, <1>7 DEF EndsAs, Shapes
<1>12. QED
    BY <1>1, <1>3, <1>8, <1>9, <1>10, <1>11, TryFinished

\* A rate limit costs the try, or the request if it was a WebSocket's last.
LEMMA RateLimitedStep ==
    ASSUME JobInv, NEW r \in Requests, RateLimited(r)
    PROVE  JobInv' /\ (Promise!GiveUpOn(r) \/ Promise!Finish(r))
<1> DEFINE j == Blame(Ended(r, "limited"), at[r])
           goesOn == job[r].protocol = "http" \/ (avail[r] # {at[r]} /\ j.retries + 1 < MaxRetries)
           w == IF j.retries + 1 >= MaxRetries THEN "502" ELSE "429"
<1>1. pc[r] \in AtEndpoint
    BY DEF RateLimited, Sending, AtEndpoint
<1>2. IF goesOn THEN Lose(r, j)
      ELSE Finish(r, [Say(j, w) EXCEPT !.retries = @ + 1, !.giving_up = TRUE])
    BY Zenon DEF RateLimited
<1>3. CASE goesOn
  <2>1. Lose(r, j)
    BY <1>2, <1>3
  <2>2. QED
    BY <1>1, <2>1, BlameLoses
<1>4. CASE ~goesOn
  <2>1. PICK v \in {"502", "429"} :
           Finish(r, [Say(j, v) EXCEPT !.retries = @ + 1, !.giving_up = TRUE])
    <3>1. w \in {"502", "429"}
        OBVIOUS
    <3>2. Finish(r, [Say(j, w) EXCEPT !.retries = @ + 1, !.giving_up = TRUE])
        BY <1>2, <1>4, Zenon
    <3> HIDE DEF w
    <3>3. QED
        BY <3>1, <3>2, Zenon
  <2>2. job[r].protocol # "http" /\ ~(avail[r] # {at[r]} /\ j.retries + 1 < MaxRetries)
    BY <1>4
  <2>3. QED
    BY <1>1, <2>1, <2>2, LastLimitFinishes
<1>5. QED
    BY <1>3, <1>4

-----------------------------------------------------------------------------
(* Between two tries                                                         *)

\* What is known of a request between its tries.
LEMMA Between ==
    ASSUME JobInv, NEW r \in Requests, pc[r] \in {"idle", "listing", "choosing"}
    PROVE  /\ job[r] \in Shapes /\ at[r] = None /\ ~job[r].giving_up
           /\ Books(pc[r], avail[r], None, job[r]) /\ Charges(job[r])
           /\ Words(pc[r], job[r])
    BY DEF JobInv, Fits, Books, AtEndpoint

\* The balancer answers on its own account.
LEMMA SayQuits ==
    ASSUME JobInv, NEW r \in Requests, pc[r] \in {"listing", "choosing"},
           NEW w \in OwnAnswers, Finish(r, Say(job[r], w))
    PROVE  JobInv' /\ Promise!Finish(r)
<1> DEFINE k == Say(job[r], w)
<1>1. /\ job[r] \in Shapes /\ pc[r] \in Open /\ w \in Endpoints \cup OwnAnswers
      /\ Words(pc[r], job[r]) /\ ~job[r].giving_up
    BY Between DEF Open
<1>2. Answered(job[r], k)
    BY <1>1, SayAnswers
<1>3. /\ k \in Shapes /\ k.fate = job[r].fate /\ k.publics = job[r].publics
      /\ k.listed = job[r].listed /\ k.retries = job[r].retries
      /\ k.protocol = job[r].protocol /\ k.blamed = job[r].blamed
      /\ k.first400 = job[r].first400 /\ k.giving_up = job[r].giving_up
    BY <1>1, SayShape
<1>4. Finish(r, k)
    OBVIOUS
<1> HIDE DEF k
<1>5. QED
    BY <1>1, <1>2, <1>3, <1>4, Quits

\* A request that finds no endpoint is told so.
LEMMA OwnAnswerQuits ==
    ASSUME JobInv, NEW r \in Requests,
           \/ Refuse(r)
           \/ EndListing(r) /\ avail[r] = {}
    PROVE  JobInv' /\ Promise!Finish(r)
<1>1. pc[r] \in {"listing", "choosing"}
    BY DEF Refuse, EndListing
<1>2. PICK w \in OwnAnswers : Finish(r, Say(job[r], w))
  <2>1. "400" \in OwnAnswers /\ "503" \in OwnAnswers
    BY DEF OwnAnswers
  <2>2. Finish(r, Say(job[r], "400")) \/ Finish(r, Say(job[r], "503"))
    BY DEF Refuse, EndListing
  <2>3. QED
    BY <2>1, <2>2, Zenon
<1>3. QED
    BY <1>1, <1>2, SayQuits

\* A request whose time is over is told so before its next try.
LEMMA ContextOverQuits ==
    ASSUME JobInv, NEW r \in Requests, ContextOver(r)
    PROVE  JobInv' /\ Promise!Finish(r)
<1>1. pc[r] \in {"listing", "choosing"}
    BY DEF ContextOver, Choosing
<1>2. CASE job[r].protocol = "http"
  <2>1. Finish(r, Say(job[r], "504")) /\ "504" \in OwnAnswers
    BY <1>2 DEF ContextOver, OwnAnswers
  <2>2. QED
    BY <1>1, <2>1, SayQuits
<1>3. CASE job[r].protocol # "http"
  <2>1. Finish(r, job[r])
    BY <1>3 DEF ContextOver
  <2>2. job[r].protocol = "ws" /\ job[r] \in Shapes /\ ~job[r].giving_up
    BY <1>1, <1>3, Between DEF Shapes
  <2>3. Answered(job[r], job[r])
    BY <2>2 DEF Answered
  <2>4. QED
    BY <1>1, <2>1, <2>2, <2>3, Quits
<1>4. QED
    BY <1>2, <1>3

\* The job of a request that gives up for a reason.
GivenUp(r, why) == [Say(job[r], "502") EXCEPT !.giving_up = TRUE, !.stuck = why]

\* A request that gives up is told so.
LEMMA GivingUpQuits ==
    ASSUME JobInv, NEW r \in Requests, pc[r] = "choosing",
           NEW why \in {"no", "unread", "unlinked"}, Finish(r, GivenUp(r, why)),
           Exhausted(r) \/ Astray(avail[r], GivenUp(r, why))
    PROVE  JobInv' /\ Promise!Finish(r)
<1> DEFINE s == Say(job[r], "502")
           k == [s EXCEPT !.giving_up = TRUE, !.stuck = why]
<1>1. Finish(r, k) /\ (Exhausted(r) \/ Astray(avail[r], k))
    BY DEF GivenUp
<1>2. /\ job[r] \in Shapes /\ pc[r] \in Open /\ "502" \in Endpoints \cup OwnAnswers
      /\ Words(pc[r], job[r])
    BY Between DEF Open, OwnAnswers
<1>3. Answered(job[r], s)
    BY <1>2, SayAnswers
<1>4. /\ s \in Shapes /\ s.fate = job[r].fate /\ s.publics = job[r].publics
      /\ s.listed = job[r].listed /\ s.retries = job[r].retries
      /\ s.protocol = job[r].protocol /\ s.blamed = job[r].blamed
      /\ s.first400 = job[r].first400
    BY <1>2, SayShape
<1> HIDE DEF s
<1>5. /\ k \in Shapes /\ k.fate = s.fate /\ k.publics = s.publics
      /\ k.listed = s.listed /\ k.retries = s.retries
      /\ k.protocol = s.protocol /\ k.blamed = s.blamed
      /\ k.first400 = s.first400 /\ k.said = s.said
    BY <1>4 DEF Shapes
<1> HIDE DEF k
<1>6. Answered(job[r], k)
    BY <1>3, <1>5 DEF Answered
<1>7. QED
    BY <1>1, <1>4, <1>5, <1>6, Quits

\* It gives up when the retries or the list are spent.
LEMMA GiveUpQuits ==
    ASSUME JobInv, NEW r \in Requests, GiveUp(r)
    PROVE  JobInv' /\ Promise!Finish(r)
<1> DEFINE s == Say(job[r], "502")
<1>1. pc[r] = "choosing" /\ Exhausted(r) /\ Finish(r, [s EXCEPT !.giving_up = TRUE])
    BY DEF GiveUp
<1>2. job[r] \in Shapes /\ "502" \in Endpoints \cup OwnAnswers
    BY <1>1, Between DEF OwnAnswers
<1>3. s \in Shapes /\ s.stuck = job[r].stuck
    BY <1>2, SayShape
<1>4. job[r].stuck \in {"no", "unread", "unlinked"}
    BY <1>2 DEF Shapes
<1>5. [s EXCEPT !.giving_up = TRUE] = [s EXCEPT !.giving_up = TRUE, !.stuck = job[r].stuck]
  <2> HIDE DEF s
  <2>1. QED
    BY <1>3 DEF Shapes
<1>6. Finish(r, GivenUp(r, job[r].stuck))
    BY <1>1, <1>5 DEF GivenUp
<1>7. QED
    BY <1>1, <1>4, <1>6, GivingUpQuits

\* The listing ends with something on the list.
LEMMA ListingEnds ==
    ASSUME JobInv, NEW r \in Requests, EndListing(r), avail[r] # {}
    PROVE  JobInv' /\ UNCHANGED Promise!vars
<1> DEFINE j == job[r]
           k == [j EXCEPT !.listed = avail[r]]
<1>1. /\ pc[r] = "listing" /\ pc' = [pc EXCEPT ![r] = "choosing"]
      /\ job' = [job EXCEPT ![r] = k] /\ avail' = avail /\ at' = at
    BY DEF EndListing
<1>2. /\ j \in Shapes /\ at[r] = None /\ ~j.giving_up
      /\ Books("listing", avail[r], None, j) /\ Charges(j) /\ Words("listing", j)
    BY <1>1, Between
<1>3. PICK p \in Protocols : j = NewJob(p)
    BY <1>2 DEF Books
<1>4. TriedBy(j) = {} /\ j.retries = 0 /\ avail[r] \subseteq Endpoints
  <2>1. avail[r] \subseteq Endpoints
    BY <1>2 DEF Books
  <2>2. TriedBy(NewJob(p)) = {}
    BY NewJobShape
  <2>3. NewJob(p).retries = 0
    BY DEF NewJob
  <2>4. QED
    BY <1>3, <2>1, <2>2, <2>3
<1> HIDE DEF j
<1>5. /\ k \in Shapes /\ k.fate = j.fate /\ k.publics = j.publics
      /\ k.listed = avail[r] /\ k.retries = j.retries
      /\ k.protocol = j.protocol /\ k.blamed = j.blamed
      /\ k.first400 = j.first400 /\ k.said = j.said /\ k.giving_up = j.giving_up
    BY <1>2, <1>4 DEF Shapes
<1> HIDE DEF k
<1>6. /\ TriedBy(k) = TriedBy(j) /\ PublicsBy(k) = PublicsBy(j)
      /\ SulliedIn(k) <=> SulliedIn(j)
    BY <1>5 DEF TriedBy, PublicsBy, SulliedIn
<1>7. Cardinality(TriedBy(k)) = 0
    BY <1>4, <1>6, FS_EmptySet
<1>8. Books("choosing", avail[r], None, k)
    BY <1>2, <1>4, <1>5, <1>6, <1>7 DEF Books, Open, AtEndpoint
<1>9. Charges(k)
    BY <1>2, <1>5, ChargesSame
<1>10. Words("choosing", k)
    BY <1>2, <1>5, <1>6 DEF Words, Open, AtEndpoint
<1>11. /\ avail' = [avail EXCEPT ![r] = avail[r]] /\ at' = [at EXCEPT ![r] = None]
    BY <1>1, <1>2 DEF JobInv
<1>12. JobInv'
    BY <1>1, <1>8, <1>9, <1>10, <1>11, FitsFrame DEF Fits
<1>13. PhaseOf("choosing") = PhaseOf(pc[r])
    BY <1>1 DEF PhaseOf
<1>14. UNCHANGED Promise!vars
    BY <1>1, <1>5, <1>13, PromiseStutter DEF j
<1>15. QED
    BY <1>12, <1>14

\* A new request.
LEMMA ArriveBegins ==
    ASSUME JobInv, NEW r \in Requests, Arrive(r)
    PROVE  JobInv' /\ Promise!Begin(r)
<1>1. PICK p \in Protocols : job' = [job EXCEPT ![r] = NewJob(p)]
    BY DEF Arrive
<1> DEFINE k == NewJob(p)
<1>2. /\ k \in Shapes /\ TriedBy(k) = {} /\ PublicsBy(k) = {}
    BY NewJobShape
<1>3. /\ k.retries = 0 /\ k.publics = 0 /\ k.first400 = None /\ k.blamed = {}
      /\ k.said = <<>> /\ ~k.giving_up
      /\ \A e \in Endpoints : k.fate[e] = "untried"
    BY DEF NewJob
<1>4. \E q \in Protocols : k = NewJob(q)
    OBVIOUS
<1> HIDE DEF k
<1>5. /\ Cardinality(TriedBy(k)) = 0 /\ IsFiniteSet(TriedBy(k))
      /\ Cardinality(PublicsBy(k)) = 0
    BY <1>2, FS_EmptySet
<1>6. Books("listing", {}, None, k)
    BY <1>2, <1>3, <1>4, <1>5 DEF Books, Open, AtEndpoint
<1>7. Charges(k) /\ Words("listing", k)
    BY <1>3 DEF Charges, Words, Open, AtEndpoint
<1>8. /\ pc[r] \in {"idle", "done"} /\ pc' = [pc EXCEPT ![r] = "listing"]
      /\ avail' = [avail EXCEPT ![r] = {}] /\ at' = [at EXCEPT ![r] = None]
      /\ job' = [job EXCEPT ![r] = k]
    BY <1>1 DEF Arrive, k
<1>9. JobInv'
    BY <1>6, <1>7, <1>8, FitsFrame DEF Fits
<1>10. Moves(r, "listing", None, NewJob(p))
    BY <1>8 DEF Moves, k
<1>11. QED
    BY <1>8, <1>9, <1>10, PromiseBegin

\* The listing, the clock of the context and the skipping of public
\* endpoints touch no job.
LEMMA ConsiderKeeps ==
    ASSUME JobInv, NEW r \in Requests, NEW e \in Endpoints, Consider(r, e)
    PROVE  JobInv' /\ UNCHANGED Promise!vars
<1>1. PICK a \in {avail[r], avail[r] \cup {e}} : avail' = [avail EXCEPT ![r] = a]
    BY DEF Consider, JobInv
<1>2. pc[r] = "listing" /\ UNCHANGED <<pc, at, job>>
    BY DEF Consider
<1>3. Books("listing", avail[r], None, job[r]) /\ at[r] = None
    BY <1>2, Between
<1>4. PICK p \in Protocols : job[r] = NewJob(p)
    BY <1>3 DEF Books
<1>5. \A f \in Endpoints : job[r].fate[f] = "untried"
    BY <1>4 DEF NewJob
<1>6. Books("listing", a, None, job[r])
    BY <1>3, <1>5 DEF Books, AtEndpoint
<1>7. QED
    BY <1>1, <1>2, <1>3, <1>6, Bookkeeping

\* The end of a context is no step of the promise.
LEMMA ContextEndKeeps ==
    ASSUME JobInv, NEW r \in Requests, ContextEnds(r)
    PROVE  JobInv' /\ UNCHANGED Promise!vars
<1>1. UNCHANGED <<pc, at, job>> /\ avail' = [avail EXCEPT ![r] = avail[r]]
    BY DEF ContextEnds, JobInv
<1>2. Books(pc[r], avail[r], at[r], job[r])
    BY DEF JobInv, Fits
<1>3. QED
    BY <1>1, <1>2, Bookkeeping

\* The endpoint that is chosen is on the list.
LEMMA ReadableAvail ==
    ASSUME NEW r \in Requests, NEW s \in Readable(r), NEW e \in BestTier(s)
    PROVE  e \in avail[r]
    BY DEF Readable, BestTier

\* And when none of the list can be chosen.
LEMMA NothingSuitableQuits ==
    ASSUME JobInv, NEW r \in Requests, NothingSuitable(r)
    PROVE  JobInv' /\ Promise!Finish(r)
<1>1. pc[r] = "choosing"
    BY DEF NothingSuitable, Choosing
<1>2. PICK s \in Readable(r), why \in {"unread", "unlinked"} :
        /\ why = "unlinked" => \E e \in BestTier(s) : Unlinked(r, e)
        /\ Finish(r, GivenUp(r, why))
    BY DEF NothingSuitable, GivenUp
<1>3. why = "unlinked" => job[r].protocol = "ws" /\ \E e \in avail[r] : e \in NoWSURL
    BY <1>2, ReadableAvail DEF Unlinked
<1> DEFINE w == Say(job[r], "502")
           k == GivenUp(r, why)
<1>4. w \in Shapes /\ w.protocol = job[r].protocol
  <2>1. job[r] \in Shapes /\ "502" \in Endpoints \cup OwnAnswers
    BY <1>1, Between DEF OwnAnswers
  <2>2. QED
    BY <2>1, SayShape
<1>5. k = [w EXCEPT !.giving_up = TRUE, !.stuck = why]
    BY DEF GivenUp
<1> HIDE DEF w, k
<1>6. k.stuck = why /\ k.protocol = job[r].protocol
    BY <1>4, <1>5 DEF Shapes
<1>7. Astray(avail[r], k)
    BY <1>2, <1>3, <1>6 DEF Astray
<1>8. why \in {"no", "unread", "unlinked"}
    OBVIOUS
<1>9. QED
    BY <1>1, <1>2, <1>7, <1>8, GivingUpQuits DEF k

\* Skipping a public endpoint is no step of the promise.
LEMMA SkipKeeps ==
    ASSUME JobInv, NEW r \in Requests, SkipPublic(r)
    PROVE  JobInv' /\ UNCHANGED Promise!vars
<1>1. pc[r] = "choosing" /\ UNCHANGED <<pc, at, job>>
    BY DEF SkipPublic, Choosing
<1>2. PICK e \in avail[r] :
         OverPublicBudget(r, e) /\ avail' = [avail EXCEPT ![r] = avail[r] \ {e}]
    BY ReadableAvail DEF SkipPublic
<1>3. Books("choosing", avail[r], None, job[r]) /\ at[r] = None
    BY <1>1, Between
<1>4. OverBudget(job[r], e)
    BY <1>2 DEF OverPublicBudget, OverBudget
<1>5. Books("choosing", avail[r] \ {e}, None, job[r])
    BY <1>3, <1>4 DEF Books, AtEndpoint
<1>6. QED
    BY <1>1, <1>2, <1>3, <1>5, Bookkeeping

\* A try begins.
LEMMA AttemptAsks ==
    ASSUME JobInv, NEW r \in Requests, Attempt(r)
    PROVE  JobInv' /\ \E e \in Endpoints : Promise!Ask(r, e)
<1> DEFINE j == job[r]
<1>1. /\ pc[r] = "choosing" /\ j.retries < MaxRetries /\ avail' = avail
  <2>1. pc[r] = "choosing" /\ ~(j.retries >= MaxRetries) /\ avail' = avail
    BY DEF Attempt, Choosing, Exhausted
  <2>2. j.retries \in Nat
    BY DEF JobInv, Shapes
  <2>3. QED
    BY <2>1, <2>2
<1>2. PICK e \in avail[r] :
         /\ ~OverPublicBudget(r, e)
         /\ pc' = [pc EXCEPT ![r] = "sending"] /\ at' = [at EXCEPT ![r] = e]
         /\ job' = [job EXCEPT ![r] = Dispatched(r, e)]
    BY ReadableAvail DEF Attempt
<1> DEFINE k == Dispatched(r, e)
           n == IF Role[e] = "public" THEN j.publics + 1 ELSE j.publics
<1>3. /\ Books("choosing", avail[r], None, j) /\ Charges(j) /\ Words("choosing", j)
      /\ j \in Shapes /\ at[r] = None /\ ~j.giving_up
    BY <1>1, Between
<1>4. /\ e \in avail[r] /\ e \in Endpoints /\ None \notin Endpoints
    BY <1>2, <1>3 DEF Books
<1>5. j.fate[e] = "untried"
    BY <1>3, <1>4 DEF Books
<1>6. ~OverBudget(j, e)
    BY <1>2 DEF OverPublicBudget, OverBudget
<1>7. k = [j EXCEPT !.fate = [j.fate EXCEPT ![e] = "sent"], !.publics = n]
    BY DEF Dispatched
<1>8. n \in Nat
    BY <1>3 DEF Shapes
<1> HIDE DEF n
<1>9. /\ k \in Shapes /\ k.fate = [j.fate EXCEPT ![e] = "sent"] /\ k.publics = n
      /\ k.listed = j.listed /\ k.retries = j.retries
      /\ k.protocol = j.protocol /\ k.blamed = j.blamed
      /\ k.first400 = j.first400 /\ k.said = j.said /\ k.giving_up = j.giving_up
  <2> HIDE DEF j, k
  <2>1. "sent" \in Fates
    BY DEF Fates
  <2>2. QED
    BY <1>3, <1>4, <1>7, <1>8, <2>1 DEF Shapes
<1> HIDE DEF k
<1>10. job' = [job EXCEPT ![r] = k]
    BY <1>2 DEF k
<1> HIDE DEF j
<1>11. /\ k.fate[e] = "sent"
       /\ \A f \in Endpoints \ {e} : k.fate[f] = j.fate[f]
    BY <1>3, <1>4, <1>9 DEF Shapes
<1>12. TriedBy(k) = TriedBy(j) \cup {e} /\ e \notin TriedBy(j)
    BY <1>4, <1>5, <1>11 DEF TriedBy
<1>13. /\ IsFiniteSet(TriedBy(j)) /\ j.retries = Cardinality(TriedBy(j))
       /\ j.publics = Cardinality(PublicsBy(j)) /\ j.retries \in Nat
    BY <1>3 DEF Books, Shapes
<1>14. IsFiniteSet(TriedBy(k)) /\ Cardinality(TriedBy(k)) = j.retries + 1
    BY <1>12, <1>13, FS_AddElement
<1>15. n = Cardinality(PublicsBy(k))
  <2>1. IsFiniteSet(PublicsBy(j))
    <3>1. PublicsBy(j) \in SUBSET TriedBy(j)
        BY DEF PublicsBy
    <3>2. QED
        BY <1>13, <3>1, FS_Subset
  <2>2. CASE Role[e] = "public"
    <3>1. PublicsBy(k) = PublicsBy(j) \cup {e} /\ e \notin PublicsBy(j)
        BY <1>12, <2>2 DEF PublicsBy
    <3>2. Cardinality(PublicsBy(k)) = Cardinality(PublicsBy(j)) + 1
        BY <2>1, <3>1, FS_AddElement
    <3>3. n = j.publics + 1
        BY <2>2 DEF n
    <3>4. QED
        BY <1>13, <3>2, <3>3
  <2>3. CASE Role[e] # "public"
    <3>1. PublicsBy(k) = PublicsBy(j)
        BY <1>12, <2>3 DEF PublicsBy
    <3>2. QED
        BY <1>13, <2>3, <3>1 DEF n
  <2>4. QED
    BY <2>2, <2>3
<1>16. \A f : OverBudget(j, f) => OverBudget(k, f)
  <2>1. j.publics \in Nat /\ (n = j.publics \/ n = j.publics + 1)
    BY <1>3 DEF Shapes, n
  <2>2. QED
    BY <1>9, <2>1 DEF OverBudget
<1>17. Books("sending", avail[r], e, k)
  <2>1. \A f \in Endpoints : k.fate[f] = "sent" <=> f = e
    BY <1>3, <1>4, <1>11 DEF Books
  <2>2. \A f \in avail[r] : k.fate[f] = "untried" \/ f = e
    BY <1>3, <1>4, <1>11 DEF Books
  <2>3. \A f \in k.listed : f \in avail[r] \cup TriedBy(k) \/ OverBudget(k, f)
    BY <1>3, <1>9, <1>12, <1>16 DEF Books
  <2>4. avail[r] \subseteq Endpoints
    BY <1>3 DEF Books
  <2>5. /\ j.retries + 1 = Cardinality(TriedBy(k)) /\ k.retries <= MaxRetries
        /\ Cardinality(TriedBy(k)) <= MaxRetries
    BY <1>1, <1>9, <1>13, <1>14 DEF j
  <2>6. QED
    BY <1>3, <1>4, <1>9, <1>14, <1>15, <2>1, <2>2, <2>3, <2>4, <2>5
    DEF Books, Open, AtEndpoint
<1>18. Charges(k)
  <2>1. j.blamed \subseteq Endpoints
    BY <1>3 DEF Shapes
  <2>2. \A f \in Endpoints : j.fate[f] # "untried" => k.fate[f] = j.fate[f]
    BY <1>5, <1>11
  <2>3. \A f \in j.blamed :
           \/ k.fate[f] \in {"failed", "limited", "cut"}
           \/ k.fate[f] = "balked" /\ \E g \in Endpoints : k.fate[g] = "won"
    BY <1>3, <2>1, <2>2 DEF Charges
  <2>4. j.first400 # None => k.fate[j.first400] = "balked"
    <3>1. j.first400 \in Endpoints \cup {None}
        BY <1>3 DEF Shapes
    <3>2. QED
        BY <1>3, <2>2, <3>1 DEF Charges
  <2>5. QED
    BY <1>9, <2>3, <2>4 DEF Charges
<1>19. SulliedIn(k) <=> SulliedIn(j)
    BY <1>4, <1>5, <1>11 DEF SulliedIn
<1>20. Words("sending", k)
    BY <1>3, <1>9, <1>19 DEF Words, Open, AtEndpoint
<1>21. avail' = [avail EXCEPT ![r] = avail[r]]
    BY <1>1 DEF JobInv
<1>22. JobInv'
    BY <1>2, <1>10, <1>17, <1>18, <1>20, <1>21, FitsFrame DEF Fits
<1>23. Moves(r, "sending", e, k)
    BY <1>2, <1>10 DEF Moves
<1>24. Asked(r, e)
    BY <1>1, <1>4, <1>5, <1>6 DEF Asked, j
<1>25. Promise!Ask(r, e)
    BY <1>9, <1>12, <1>19, <1>23, <1>24, PromiseAsk DEF j
<1>26. QED
    BY <1>4, <1>22, <1>25

\* The client's connection is upgraded.
LEMMA UpgradeConnects ==
    ASSUME JobInv, NEW r \in Requests, Upgrade(r)
    PROVE  JobInv' /\ Promise!Connect(r)
<1> DEFINE j == job[r]
           k == Say(j, "101")
<1>1. /\ pc[r] = "sending" /\ j.protocol = "ws" /\ j.said = <<>>
      /\ pc' = [pc EXCEPT ![r] = "relaying"] /\ job' = [job EXCEPT ![r] = k]
      /\ avail' = avail /\ at' = at
    BY DEF Upgrade, Sending
<1>2. /\ at[r] \in Endpoints /\ at[r] # None /\ j \in Shapes
      /\ Books("sending", avail[r], at[r], j) /\ Charges(j)
    BY <1>1, AtATry DEF JobInv, Fits, AtEndpoint
<1>3. k = [j EXCEPT !.said = Append(<<>>, "101")] /\ <<>> # <<"101">>
    BY <1>1 DEF Say
<1>4. Append(<<>>, "101") = <<"101">> /\ Len(<<"101">>) = 1 /\ Len(<<>>) = 0
    OBVIOUS
<1>5. /\ k \in Shapes /\ k.fate = j.fate /\ k.publics = j.publics
      /\ k.listed = j.listed /\ k.retries = j.retries
      /\ k.protocol = j.protocol /\ k.blamed = j.blamed
      /\ k.first400 = j.first400 /\ k.giving_up = j.giving_up
  <2>1. "101" \in Endpoints \cup OwnAnswers
    BY DEF OwnAnswers
  <2>2. QED
    BY <1>2, <2>1, SayShape
<1>6. k.said = <<"101">>
    BY <1>1, <1>2, <1>3, <1>4 DEF Shapes
<1>7. Upgraded(j, k)
    BY <1>1, <1>4, <1>5, <1>6 DEF Upgraded
<1> HIDE DEF j, k
<1>8. /\ TriedBy(k) = TriedBy(j) /\ PublicsBy(k) = PublicsBy(j)
      /\ \A e : OverBudget(k, e) <=> OverBudget(j, e)
    BY <1>5 DEF TriedBy, PublicsBy, OverBudget
<1>9. Books("relaying", avail[r], at[r], k)
    BY <1>2, <1>5, <1>8 DEF Books, Open, AtEndpoint
<1>10. Charges(k)
    BY <1>2, <1>5, ChargesSame
<1>11. Words("relaying", k)
    BY <1>1, <1>5, <1>6 DEF Words
<1>12. avail' = [avail EXCEPT ![r] = avail[r]] /\ at' = [at EXCEPT ![r] = at[r]]
    BY <1>1 DEF JobInv
<1>13. JobInv'
    BY <1>1, <1>9, <1>10, <1>11, <1>12, FitsFrame DEF Fits
<1>14. Moves(r, "relaying", at[r], k) /\ PhaseOf(pc[r]) = "open"
    BY <1>1, <1>12 DEF Moves, PhaseOf
<1>15. Promise!Connect(r)
    BY <1>1, <1>2, <1>7, <1>14, PromiseConnect DEF j
<1>16. QED
    BY <1>13, <1>15

-----------------------------------------------------------------------------
(* Every step                                                                *)

\* Every step of a handler keeps the invariant and the promise.
LEMMA HandlerStepKeeps ==
    ASSUME JobInv, NEW r \in Requests, HandlerStep(r)
    PROVE  JobInv' /\ [Promise!Next]_(Promise!vars)
<1>1. CASE \E e \in Endpoints : Consider(r, e)
    BY <1>1, ConsiderKeeps
<1>2. CASE EndListing(r)
  <2>1. CASE avail[r] = {}
    BY <1>2, <2>1, OwnAnswerQuits DEF Promise!Next
  <2>2. CASE avail[r] # {}
    BY <1>2, <2>2, ListingEnds
  <2>3. QED
    BY <2>1, <2>2
<1>3. CASE ContextOver(r)
    BY <1>3, ContextOverQuits DEF Promise!Next
<1>4. CASE NothingSuitable(r)
    BY <1>4, NothingSuitableQuits DEF Promise!Next
<1>5. CASE SkipPublic(r)
    BY <1>5, SkipKeeps
<1>6. CASE Attempt(r)
    BY <1>6, AttemptAsks DEF Promise!Next
<1>7. CASE GiveUp(r)
    BY <1>7, GiveUpQuits DEF Promise!Next
<1>8. CASE EndpointFails(r)
  <2>1. pc[r] \in AtEndpoint /\ Lose(r, Blame(Ended(r, "failed"), at[r]))
    BY <1>8 DEF EndpointFails, Sending, AtEndpoint
  <2>2. QED
    BY <2>1, BlameLoses DEF Promise!Next
<1>9. CASE BadRequest(r)
  <2>1. pc[r] \in AtEndpoint
    BY <1>9 DEF BadRequest, Sending, AtEndpoint
  <2>2. CASE job[r].first400 = None
    <3>1. Lose(r, [Ended(r, "balked") EXCEPT !.first400 = at[r]])
        BY <1>9, <2>2 DEF BadRequest
    <3>2. QED
        BY <2>1, <3>1, FirstBadRequest DEF Promise!Next
  <2>3. CASE job[r].first400 # None
    <3>1. Finish(r, Say(Ended(r, "balked"), "400"))
        BY <1>9, <2>3 DEF BadRequest
    <3>2. QED
        BY <2>1, <3>1, SecondBadRequest DEF Promise!Next
  <2>4. QED
    BY <2>2, <2>3
<1>10. CASE RateLimited(r)
    BY <1>10, RateLimitedStep DEF Promise!Next
<1>11. CASE CutShort(r)
  <2>1. pc[r] \in AtEndpoint /\ Lose(r, Blame(Ended(r, "cut"), at[r]))
    BY <1>11 DEF CutShort, Sending, AtEndpoint
  <2>2. QED
    BY <2>1, BlameLoses DEF Promise!Next
<1>12. CASE EmbeddedLimit(r)
    BY <1>12, EmbeddedLimitLoses DEF Promise!Next
<1>13. CASE Served(r)
    BY <1>13, ServedFinishes DEF Promise!Next
<1>14. CASE BrokeOff(r) \/ UpgradeFails(r)
    BY <1>14, SulliedLoses DEF Promise!Next
<1>15. CASE DialUnanswered(r)
  <2>1. /\ pc[r] \in AtEndpoint /\ Finish(r, Blame(Ended(r, "failed"), at[r]))
        /\ job[r].protocol = "ws"
    BY <1>15 DEF DialUnanswered, Sending, AtEndpoint
  <2>2. QED
    BY <2>1, BlameFinishes DEF Promise!Next
<1>16. CASE Upgrade(r)
    BY <1>16, UpgradeConnects DEF Promise!Next
<1>17. QED
    BY <1>1, <1>2, <1>3, <1>4, <1>5, <1>6, <1>7, <1>8, <1>9, <1>10, <1>11, <1>12,
       <1>13, <1>14, <1>15, <1>16 DEF HandlerStep

\* So does every step of a relay.
LEMMA RelayStepKeeps ==
    ASSUME JobInv, NEW r \in Requests, RelayStep(r)
    PROVE  JobInv' /\ [Promise!Next]_(Promise!vars)
<1>1. pc[r] = "relaying" /\ pc[r] \in AtEndpoint
    BY DEF RelayStep, RelayEnds, RelayDrops, RelayFails, AtEndpoint
<1>2. CASE RelayEnds(r)
    BY <1>2, RelayEndFinishes DEF Promise!Next
<1>3. CASE RelayDrops(r)
  <2>1. Finish(r, Blame(Ended(r, "failed"), at[r])) /\ job[r].protocol = "ws"
    BY <1>1, <1>3, AtATry DEF RelayDrops, Words
  <2>2. QED
    BY <1>1, <2>1, BlameFinishes DEF Promise!Next
<1>4. CASE RelayFails(r)
  <2>1. Lose(r, Blame(Ended(r, "failed"), at[r]))
    BY <1>4 DEF RelayFails
  <2>2. QED
    BY <1>1, <2>1, BlameLoses DEF Promise!Next
<1>5. QED
    BY <1>2, <1>3, <1>4 DEF RelayStep

\* So does every step of the client.
LEMMA ClientStepKeeps ==
    ASSUME JobInv, NEW r \in Requests, ClientStep(r)
    PROVE  JobInv' /\ [Promise!Next]_(Promise!vars)
<1>1. CASE Arrive(r)
    BY <1>1, ArriveBegins DEF Promise!Next
<1>2. CASE Refuse(r)
    BY <1>2, OwnAnswerQuits DEF Promise!Next
<1>3. CASE ContextEnds(r)
    BY <1>3, ContextEndKeeps
<1>4. QED
    BY <1>1, <1>2, <1>3 DEF ClientStep

\* What goes on elsewhere touches no request.
LEMMA QuietStepKeeps ==
    ASSUME JobInv, UNCHANGED <<pc, avail, at, job>>
    PROVE  JobInv' /\ UNCHANGED Promise!vars
<1>1. JobInv'
    BY DEF JobInv
<1>2. UNCHANGED Promise!vars
    BY DEF Promise!vars, Phase, Tried, Sullied
<1>3. QED
    BY <1>1, <1>2

\* So does every step there is.
LEMMA StepKeeps ==
    ASSUME JobInv, [Next]_vars
    PROVE  JobInv' /\ [Promise!Next]_(Promise!vars)
<1>1. CASE \E r \in Requests : HandlerStep(r) \/ RelayStep(r) \/ ClientStep(r)
    BY <1>1, HandlerStepKeeps, RelayStepKeeps, ClientStepKeeps
<1>2. CASE \E e \in Endpoints : EndpointStep(e)
  <2>1. UNCHANGED <<pc, avail, at, job>>
    BY <1>2 DEF EndpointStep, NewWindow, LimitedElsewhere, LimitLifted, flow
  <2>2. QED
    BY <2>1, QuietStepKeeps
<1>3. CASE UNCHANGED vars
  <2>1. UNCHANGED <<pc, avail, at, job>>
    BY <1>3 DEF vars
  <2>2. QED
    BY <2>1, QuietStepKeeps
<1>4. QED
    BY <1>1, <1>2, <1>3 DEF Next

\* The promise holds at the beginning.
LEMMA InitJob == Init => JobInv /\ Promise!Init
<1> SUFFICES ASSUME Init PROVE JobInv /\ Promise!Init
    OBVIOUS
<1>1. ASSUME NEW r \in Requests
      PROVE  /\ job[r] \in Shapes /\ Fits("idle", {}, None, job[r])
             /\ TriedBy(job[r]) = {} /\ Len(job[r].said) = 0 /\ ~SulliedIn(job[r])
             /\ job[r].protocol \in {"http", "ws"}
  <2>1. PICK p \in Protocols : job[r] = NewJob(p)
    BY DEF Init
  <2> DEFINE k == job[r]
  <2>2. /\ k \in Shapes /\ TriedBy(k) = {} /\ PublicsBy(k) = {}
    BY <2>1, NewJobShape
  <2>3. /\ k.retries = 0 /\ k.publics = 0 /\ k.first400 = None /\ k.blamed = {}
        /\ k.said = <<>> /\ ~k.giving_up /\ k.protocol = p
        /\ \A e \in Endpoints : k.fate[e] = "untried"
    BY <2>1 DEF NewJob
  <2>4. \E q \in Protocols : k = NewJob(q)
    BY <2>1
  <2> HIDE DEF k
  <2>5. /\ Cardinality(TriedBy(k)) = 0 /\ IsFiniteSet(TriedBy(k))
        /\ Cardinality(PublicsBy(k)) = 0
    BY <2>2, FS_EmptySet
  <2>6. Books("idle", {}, None, k)
    BY <2>2, <2>3, <2>4, <2>5 DEF Books, Open, AtEndpoint
  <2>7. Charges(k) /\ Words("idle", k)
    BY <2>3 DEF Charges, Words, Open, AtEndpoint
  <2>8. ~SulliedIn(k) /\ Len(k.said) = 0
    BY <2>3 DEF SulliedIn
  <2>9. QED
    BY <2>2, <2>3, <2>6, <2>7, <2>8 DEF Fits, k
<1>2. /\ pc = [r \in Requests |-> "idle"] /\ avail = [r \in Requests |-> {}]
      /\ at = [r \in Requests |-> None]
      /\ \E S : job \in [Requests -> S]
    BY DEF Init
<1>3. JobInv
    BY <1>1, <1>2 DEF JobInv
<1>4. ASSUME NEW r \in Requests
      PROVE  /\ Phase(r) = "none" /\ Tried(r) = {} /\ Len(job[r].said) = 0
             /\ Sullied(r) = FALSE /\ job[r].protocol \in {"http", "ws"}
    BY <1>1, <1>2 DEF Phase, Tried, TriedBy, Sullied, SulliedIn
<1>5. Promise!Init
    BY <1>2, <1>4 DEF Promise!Init
<1>6. QED
    BY <1>3, <1>5

\* The invariant holds of every behaviour.
LEMMA JobInvariant == Spec => []JobInv
<1>1. Init => JobInv
    BY InitJob
<1>2. JobInv /\ [Next]_vars => JobInv'
    BY StepKeeps
<1>3. QED
    BY <1>1, <1>2, PTL DEF Spec

\* The request loop keeps the promise of RequestPromise, whatever fails and
\* however many clients there are: no endpoint is asked twice for a request,
\* no more of them than PROXY_MAX_RETRIES nor public ones than
\* PUBLIC_FIRST_ATTEMPTS; the client hears one answer, another one only after
\* an answer that broke off or an upgrade that failed; and none after the end.
THEOREM PromiseKept == Spec => KeepsPromise
<1>1. Init => Promise!Init
    BY InitJob
<1>2. JobInv /\ [Next]_vars => [Promise!Next]_(Promise!vars)
    BY StepKeeps
<1>3. QED
    BY <1>1, <1>2, JobInvariant, PTL DEF Spec, KeepsPromise, Promise!Spec

\* Whom markEndpointUnhealthyProtocol is called for has failed the request, or
\* its try was cut short by the request's own context; for a 400 another
\* endpoint has served the request.
THEOREM BlameCorrect == Spec => []BlameHasACause
<1>1. JobInv => BlameHasACause
  <2> SUFFICES ASSUME JobInv, NEW r \in Requests, NEW e \in job[r].blamed
               PROVE  Deserved(r, e) \/ job[r].fate[e] = "cut"
    BY DEF BlameHasACause
  <2>1. Charges(job[r])
    BY DEF JobInv, Fits
  <2>2. QED
    BY <2>1 DEF Charges, Deserved
<1>2. QED
    BY <1>1, JobInvariant, PTL

\* Request counts that could not be read had a reason.
UnreadInv ==
    \A r \in Requests :
        job[r].stuck = "unread" => "store" \in Faults \/ ctx[r] = "over"

\* The job of a handler that lost its endpoint or returned.
Settles(r, j) == Lose(r, j) \/ Finish(r, j)

\* The end of a try or of a request leaves the reason as the job has it.
LEMMA SettlesStuck ==
    ASSUME JobInv, NEW r \in Requests, NEW j \in Shapes, Settles(r, j)
    PROVE  job'[r].stuck = j.stuck /\ ctx' = ctx
           /\ \A q \in Requests \ {r} : job'[q] = job[q]
<1>1. CASE Finish(r, j)
    BY <1>1 DEF Finish, JobInv
<1>2. CASE Lose(r, j)
  <2>1. job' = [job EXCEPT ![r] = [j EXCEPT !.retries = @ + 1]] /\ ctx' = ctx
    BY <1>2 DEF Lose
  <2>2. [j EXCEPT !.retries = @ + 1].stuck = j.stuck
    BY DEF Shapes
  <2>3. QED
    BY <2>1, <2>2 DEF JobInv
<1>3. QED
    BY <1>1, <1>2 DEF Settles

\* None of the ends of a try gives a reason.
LEMMA TriesGiveNoReason ==
    ASSUME JobInv, NEW r \in Requests,
           \/ EndpointFails(r) \/ BadRequest(r) \/ RateLimited(r) \/ CutShort(r)
           \/ EmbeddedLimit(r) \/ Served(r) \/ BrokeOff(r) \/ DialUnanswered(r)
           \/ UpgradeFails(r) \/ RelayStep(r)
    PROVE  \E j \in Shapes : j.stuck = job[r].stuck /\ Settles(r, j)
<1>1. job[r] \in Shapes /\ at[r] \in Endpoints
  <2>1. pc[r] \in AtEndpoint
    BY DEF EndpointFails, BadRequest, RateLimited, CutShort, EmbeddedLimit, Served,
           BrokeOff, DialUnanswered, UpgradeFails, RelayStep, RelayEnds, RelayDrops,
           RelayFails, Sending, AtEndpoint
  <2>2. QED
    BY <2>1, AtATry DEF JobInv
<1> DEFINE d(f) == Ended(r, f)
<1>2. ASSUME NEW f \in Fates
      PROVE  /\ d(f) \in Shapes /\ d(f).stuck = job[r].stuck
             /\ d(f).first400 = job[r].first400
    BY <1>1, EndedShape
<1>3. ASSUME NEW f \in Fates, NEW e \in Endpoints
      PROVE  Blame(d(f), e) \in Shapes /\ Blame(d(f), e).stuck = job[r].stuck
    BY <1>2, BlameShape
<1>4. ASSUME NEW f \in Fates, NEW w \in Endpoints \cup OwnAnswers
      PROVE  Say(d(f), w) \in Shapes /\ Say(d(f), w).stuck = job[r].stuck
    BY <1>2, SayShape
<1>5. /\ {"failed", "limited", "balked", "cut", "unwanted", "broke", "won"} \subseteq Fates
      /\ {"400", "429", "502"} \subseteq Endpoints \cup OwnAnswers
      /\ at[r] \in Endpoints \cup OwnAnswers
    BY <1>1 DEF Fates, OwnAnswers
<1>6. CASE \/ EndpointFails(r) \/ CutShort(r) \/ DialUnanswered(r)
           \/ RelayDrops(r) \/ RelayFails(r)
  <2>1. \E f \in {"failed", "cut"} : Settles(r, Blame(d(f), at[r]))
    BY <1>6 DEF EndpointFails, CutShort, DialUnanswered, RelayDrops, RelayFails, Settles
  <2> HIDE DEF d
  <2>2. QED
    BY <1>1, <1>3, <1>5, <2>1
<1>7. CASE BadRequest(r)
  <2>1. CASE job[r].first400 = None
    <3> DEFINE j == [d("balked") EXCEPT !.first400 = at[r]]
    <3>1. Settles(r, j)
        BY <1>7, <2>1 DEF BadRequest, Settles
    <3>2. d("balked") \in Shapes /\ d("balked").stuck = job[r].stuck
        BY <1>2, <1>5
    <3> HIDE DEF d
    <3>3. j \in Shapes /\ j.stuck = job[r].stuck
        BY <1>1, <3>2 DEF Shapes
    <3>4. QED
        BY <3>1, <3>3
  <2>2. CASE job[r].first400 # None
    <3>1. Settles(r, Say(d("balked"), "400"))
        BY <1>7, <2>2 DEF BadRequest, Settles
    <3>2. QED
        BY <1>4, <1>5, <3>1
  <2>3. QED
    BY <2>1, <2>2
<1>8. CASE RateLimited(r)
  <2> DEFINE j == Blame(d("limited"), at[r])
  <2>1. j \in Shapes /\ j.stuck = job[r].stuck
    BY <1>1, <1>3, <1>5
  <2>2. CASE Lose(r, j)
    BY <2>1, <2>2 DEF Settles
  <2>3. CASE ~Lose(r, j)
    <3>1. PICK w \in {"429", "502"} :
            Finish(r, [Say(j, w) EXCEPT !.retries = @ + 1, !.giving_up = TRUE])
        BY <1>8, <2>3 DEF RateLimited
    <3> HIDE DEF j
    <3> DEFINE s == Say(j, w)
               k == [s EXCEPT !.retries = @ + 1, !.giving_up = TRUE]
    <3>2. s \in Shapes /\ s.stuck = job[r].stuck
      <4>1. w \in Endpoints \cup OwnAnswers
            BY <1>5
      <4>2. s \in Shapes /\ s.stuck = j.stuck
            BY <2>1, <4>1, SayShape
      <4>3. QED
            BY <2>1, <4>2
    <3> HIDE DEF s
    <3>3. s.retries \in Nat
        BY <3>2 DEF Shapes
    <3>4. s.retries + 1 \in Nat
        BY <3>3
    <3>5. k \in Shapes /\ k.stuck = job[r].stuck
        BY <3>2, <3>4 DEF Shapes
    <3>6. Settles(r, k)
        BY <3>1 DEF Settles, s
    <3>7. QED
        BY <3>5, <3>6
  <2>4. QED
    BY <2>2, <2>3
<1>9. CASE EmbeddedLimit(r) \/ BrokeOff(r) \/ UpgradeFails(r)
  <2>1. \/ Settles(r, d("limited")) \/ Settles(r, Say(d("broke"), at[r]))
        \/ Settles(r, Say(d("unwanted"), "400"))
    BY <1>9 DEF EmbeddedLimit, BrokeOff, UpgradeFails, Settles
  <2> HIDE DEF d
  <2>2. QED
    BY <1>2, <1>4, <1>5, <2>1
<1>10. CASE Served(r) \/ RelayEnds(r)
  <2>1. PICK j \in {d("won"), Say(d("won"), at[r])} : Settles(r, Won(j))
    BY <1>10 DEF Served, RelayEnds, Settles
  <2> HIDE DEF d
  <2>2. j \in Shapes /\ j.stuck = job[r].stuck
    BY <1>2, <1>4, <1>5, <2>1
  <2>3. j.first400 \in Endpoints \cup {None}
    BY <2>2 DEF Shapes
  <2>4. CASE j.first400 = None
    BY <2>1, <2>2, <2>4 DEF Won
  <2>5. CASE j.first400 # None
    <3> DEFINE b == Blame(j, j.first400)
    <3>1. b \in Shapes /\ b.stuck = job[r].stuck
        BY <2>2, <2>3, <2>5, BlameShape
    <3>2. Settles(r, [b EXCEPT !.first400 = None])
        BY <2>1, <2>5 DEF Won
    <3> HIDE DEF b
    <3>3. [b EXCEPT !.first400 = None] \in Shapes
        BY <3>1 DEF Shapes
    <3>4. [b EXCEPT !.first400 = None].stuck = job[r].stuck
        BY <3>1 DEF Shapes
    <3>5. QED
        BY <3>2, <3>3, <3>4
  <2>6. QED
    BY <2>4, <2>5
<1>11. QED
    BY <1>6, <1>7, <1>8, <1>9, <1>10 DEF RelayStep

\* Nor does any other step of a handler but NothingSuitable, whose reads
\* have failed for a reason.
LEMMA HandlerReason ==
    ASSUME JobInv, UnreadInv, NEW r \in Requests, HandlerStep(r)
    PROVE  UnreadInv'
<1>1. job[r] \in Shapes
    BY DEF JobInv
<1>2. ASSUME NEW j \in Shapes, Settles(r, j),
             j.stuck = "unread" => "store" \in Faults \/ ctx[r] = "over"
      PROVE  UnreadInv'
  <2>1. job'[r].stuck = j.stuck /\ ctx' = ctx /\ \A q \in Requests \ {r} : job'[q] = job[q]
    BY <1>2, SettlesStuck
  <2>2. QED
    BY <1>2, <2>1 DEF UnreadInv
<1>3. ASSUME NEW k \in Shapes, job' = [job EXCEPT ![r] = k], ctx' = ctx,
             k.stuck = job[r].stuck
      PROVE  UnreadInv'
    BY <1>3 DEF UnreadInv, JobInv
<1>4. CASE \E e \in Endpoints : Consider(r, e)
    BY <1>4 DEF UnreadInv, Consider
<1>5. CASE SkipPublic(r)
    BY <1>5 DEF UnreadInv, SkipPublic
<1>6. CASE EndListing(r)
  <2>1. CASE avail[r] = {}
    <3>1. Settles(r, Say(job[r], "503"))
        BY <1>6, <2>1 DEF EndListing, Settles
    <3>2. Say(job[r], "503") \in Shapes /\ Say(job[r], "503").stuck = job[r].stuck
        BY <1>1, SayShape DEF OwnAnswers
    <3>3. QED
        BY <1>2, <3>1, <3>2 DEF UnreadInv
  <2>2. CASE avail[r] # {}
    <3> DEFINE k == [job[r] EXCEPT !.listed = avail[r]]
    <3>1. job' = [job EXCEPT ![r] = k] /\ ctx' = ctx
        BY <1>6, <2>2 DEF EndListing
    <3>2. k \in Shapes /\ k.stuck = job[r].stuck
        BY <1>1 DEF JobInv, Shapes
    <3> HIDE DEF k
    <3>3. QED
        BY <1>3, <3>1, <3>2
  <2>3. QED
    BY <2>1, <2>2
<1>7. CASE ContextOver(r)
  <2>1. Settles(r, job[r]) \/ Settles(r, Say(job[r], "504"))
    BY <1>7 DEF ContextOver, Settles
  <2>2. Say(job[r], "504") \in Shapes /\ Say(job[r], "504").stuck = job[r].stuck
    BY <1>1, SayShape DEF OwnAnswers
  <2>3. QED
    BY <1>1, <1>2, <2>1, <2>2 DEF UnreadInv
<1>8. CASE NothingSuitable(r)
  <2>1. PICK s \in Readable(r), why \in {"unread", "unlinked"} :
           /\ why = "unread" => s = {}
           /\ Finish(r, [Say(job[r], "502") EXCEPT !.giving_up = TRUE, !.stuck = why])
    BY <1>8 DEF NothingSuitable
  <2> DEFINE w == Say(job[r], "502")
             k == [w EXCEPT !.giving_up = TRUE, !.stuck = why]
  <2>2. w \in Shapes
    BY <1>1, SayShape DEF OwnAnswers
  <2>3. Settles(r, k)
    BY <2>1 DEF Settles
  <2> HIDE DEF w
  <2>4. k \in Shapes /\ k.stuck = why
    BY <2>2 DEF Shapes
  <2>5. avail[r] # {}
    BY <1>8 DEF NothingSuitable, Choosing, Exhausted
  <2>6. why = "unread" => "store" \in Faults \/ ctx[r] = "over"
    BY <2>1, <2>5 DEF Readable
  <2> HIDE DEF k
  <2>7. QED
    BY <1>2, <2>3, <2>4, <2>6
<1>9. CASE Attempt(r)
  <2>1. PICK e \in Endpoints : job' = [job EXCEPT ![r] = Dispatched(r, e)] /\ ctx' = ctx
    BY <1>9, ReadableAvail DEF Attempt, JobInv
  <2> DEFINE k == Dispatched(r, e)
             n == IF Role[e] = "public" THEN job[r].publics + 1 ELSE job[r].publics
             g == [job[r].fate EXCEPT ![e] = "sent"]
  <2>2. n \in Nat /\ g \in [Endpoints -> Fates]
    BY <1>1 DEF Shapes, Fates
  <2>3. k = [job[r] EXCEPT !.fate = g, !.publics = n]
    BY DEF Dispatched
  <2> HIDE DEF n, g
  <2>4. k \in Shapes /\ k.stuck = job[r].stuck
    BY <1>1, <2>2, <2>3 DEF Shapes
  <2> HIDE DEF k
  <2>5. QED
    BY <1>3, <2>1, <2>4 DEF k
<1>10. CASE GiveUp(r)
  <2> DEFINE w == Say(job[r], "502")
             k == [w EXCEPT !.giving_up = TRUE]
  <2>1. Settles(r, k)
    BY <1>10 DEF GiveUp, Settles
  <2>2. w \in Shapes /\ w.stuck = job[r].stuck
    BY <1>1, SayShape DEF OwnAnswers
  <2> HIDE DEF w
  <2>3. k \in Shapes /\ k.stuck = job[r].stuck
    BY <2>2 DEF Shapes
  <2> HIDE DEF k
  <2>4. QED
    BY <1>2, <2>1, <2>3 DEF UnreadInv
<1>11. CASE Upgrade(r)
  <2>1. job' = [job EXCEPT ![r] = Say(job[r], "101")] /\ ctx' = ctx
    BY <1>11 DEF Upgrade
  <2>2. Say(job[r], "101") \in Shapes /\ Say(job[r], "101").stuck = job[r].stuck
    BY <1>1, SayShape DEF OwnAnswers
  <2>3. QED
    BY <1>3, <2>1, <2>2
<1>12. CASE \/ EndpointFails(r) \/ BadRequest(r) \/ RateLimited(r) \/ CutShort(r)
            \/ EmbeddedLimit(r) \/ Served(r) \/ BrokeOff(r) \/ DialUnanswered(r)
            \/ UpgradeFails(r)
    BY <1>2, <1>12, TriesGiveNoReason DEF UnreadInv
<1>13. QED
    BY <1>4, <1>5, <1>6, <1>7, <1>8, <1>9, <1>10, <1>11, <1>12 DEF HandlerStep

\* So every behaviour keeps to it.
LEMMA UnreadInvariant == Spec => []UnreadInv
<1>1. Init => UnreadInv
  <2> SUFFICES ASSUME Init, NEW r \in Requests PROVE job[r].stuck = "no"
    BY DEF UnreadInv
  <2>1. QED
    BY DEF Init, NewJob
<1>2. JobInv /\ UnreadInv /\ [Next]_vars => UnreadInv'
  <2> SUFFICES ASSUME JobInv, UnreadInv, [Next]_vars PROVE UnreadInv'
    OBVIOUS
  <2>1. ASSUME NEW r \in Requests, RelayStep(r) PROVE UnreadInv'
    <3>1. PICK j \in Shapes : j.stuck = job[r].stuck /\ Settles(r, j)
        BY <2>1, TriesGiveNoReason
    <3>2. /\ job'[r].stuck = job[r].stuck /\ ctx' = ctx
          /\ \A q \in Requests \ {r} : job'[q] = job[q]
        BY <3>1, SettlesStuck
    <3>3. QED
        BY <3>2 DEF UnreadInv
  <2>2. ASSUME NEW r \in Requests, ClientStep(r) PROVE UnreadInv'
    <3>1. CASE Arrive(r)
      <4>1. PICK p \in Protocols : job' = [job EXCEPT ![r] = NewJob(p)]
            BY <3>1 DEF Arrive
      <4>2. job'[r].stuck = "no" /\ \A q \in Requests \ {r} : job'[q] = job[q]
            BY <4>1 DEF NewJob, JobInv
      <4>3. \A q \in Requests \ {r} : ctx'[q] = ctx[q]
            BY <3>1 DEF Arrive
      <4>4. QED
            BY <4>2, <4>3 DEF UnreadInv
    <3>2. CASE Refuse(r)
      <4>1. Settles(r, Say(job[r], "400"))
            BY <3>2 DEF Refuse, Settles
      <4>2. Say(job[r], "400") \in Shapes /\ Say(job[r], "400").stuck = job[r].stuck
            BY SayShape DEF OwnAnswers, JobInv
      <4>3. /\ job'[r].stuck = job[r].stuck /\ ctx' = ctx
            /\ \A q \in Requests \ {r} : job'[q] = job[q]
            BY <4>1, <4>2, SettlesStuck
      <4>4. QED
            BY <4>3 DEF UnreadInv
    <3>3. CASE ContextEnds(r)
        BY <3>3 DEF ContextEnds, UnreadInv
    <3>4. QED
        BY <2>2, <3>1, <3>2, <3>3 DEF ClientStep
  <2>3. ASSUME NEW e \in Endpoints, EndpointStep(e) PROVE UnreadInv'
    BY <2>3 DEF EndpointStep, NewWindow, LimitedElsewhere, LimitLifted, flow, UnreadInv
  <2>4. CASE UNCHANGED vars
    BY <2>4 DEF vars, UnreadInv
  <2>5. QED
    BY <2>1, <2>2, <2>3, <2>4, HandlerReason DEF Next
<1>3. QED
    BY <1>1, <1>2, JobInvariant, PTL DEF Spec

\* A request that leaves the loop with nothing to say but that it failed has
\* spent its retries, or tried each endpoint of its listing but for public
\* ones over the limit; or it could read no request count, for a fault of the
\* store or because its time was over; or it had an endpoint without a
\* WebSocket URL before it.
THEOREM GivesUpCorrect == Spec => []GivesUpOnlyWhenSpent
<1>1. JobInv /\ UnreadInv => GivesUpOnlyWhenSpent
  <2> SUFFICES ASSUME JobInv, UnreadInv, NEW r \in Requests, job[r].giving_up
               PROVE  LET left == job[r].listed \ Tried(r) IN
                      \/ Cardinality(Tried(r)) = MaxRetries
                      \/ \A e \in left : OverPublicBudget(r, e)
                      \/ job[r].stuck = "unread" /\ ("store" \in Faults \/ ctx[r] = "over")
                      \/ job[r].stuck = "unlinked" /\ \E e \in left : Unlinked(r, e)
    BY DEF GivesUpOnlyWhenSpent
  <2>1. \/ Cardinality(TriedBy(job[r])) = MaxRetries
        \/ \A e \in job[r].listed \ TriedBy(job[r]) : OverBudget(job[r], e)
        \/ DeadEnd(job[r])
    BY DEF JobInv, Fits, Books
  <2>2. TriedBy(job[r]) = Tried(r)
    BY DEF TriedBy, Tried
  <2>3. \A e : OverBudget(job[r], e) <=> OverPublicBudget(r, e)
    BY DEF OverBudget, OverPublicBudget
  <2>4. CASE DeadEnd(job[r])
    BY <2>2, <2>4 DEF DeadEnd, Unlinked, UnreadInv
  <2>5. QED
    BY <2>1, <2>2, <2>3, <2>4
<1>2. QED
    BY <1>1, JobInvariant, UnreadInvariant, PTL

-----------------------------------------------------------------------------
(* Types                                                                     *)

\* The rest of the state.
RestOK ==
    /\ todo \in [Requests -> SUBSET Endpoints]
    /\ ctx \in [Requests -> {"open", "over"}]
    /\ used \in [Endpoints -> Nat]
    /\ limited \subseteq Endpoints
    /\ strays \in [Endpoints -> Nat]

\* The end of a try or of a request keeps the types of the rest.
LEMMA EndsKeepRest ==
    ASSUME RestOK, NEW r \in Requests, NEW k, Lose(r, k) \/ Finish(r, k)
    PROVE  /\ todo' \in [Requests -> SUBSET Endpoints]
           /\ ctx' \in [Requests -> {"open", "over"}]
    BY DEF RestOK, Lose, Finish

\* So does a limit that is marked.
LEMMA MarkKeepsRest ==
    ASSUME RestOK, NEW e \in Endpoints, MarkLimited(e)
    PROVE  /\ used' \in [Endpoints -> Nat] /\ limited' \subseteq Endpoints
           /\ strays' \in [Endpoints -> Nat]
    BY DEF RestOK, MarkLimited

\* So does a try that starts.
LEMMA AttemptKeepsRest ==
    ASSUME JobInv, RestOK, NEW r \in Requests, Attempt(r)
    PROVE  RestOK'
<1>1. PICK e \in avail[r] :
         /\ used' \in {Counted(e)} \cup (IF "store" \in Faults THEN {used} ELSE {})
         /\ strays' = IF e \in limited /\ strays[e] <= Cardinality(Requests)
                      THEN [strays EXCEPT ![e] = @ + 1] ELSE strays
    BY ReadableAvail DEF Attempt
<1>2. e \in Endpoints
    BY DEF JobInv
<1>3. Counted(e) \in [Endpoints -> Nat]
  <2>1. used[e] + 1 \in Nat
    BY <1>2 DEF RestOK
  <2>2. QED
    BY <1>2, <2>1 DEF RestOK, Counted
<1>4. used' \in [Endpoints -> Nat]
    BY <1>1, <1>3 DEF RestOK
<1>5. strays' \in [Endpoints -> Nat]
  <2>1. strays[e] + 1 \in Nat
    BY <1>2 DEF RestOK
  <2>2. QED
    BY <1>1, <1>2, <2>1 DEF RestOK
<1>6. UNCHANGED <<todo, ctx, limited>>
    BY DEF Attempt
<1>7. QED
    BY <1>4, <1>5, <1>6 DEF RestOK

\* So does every other step.
LEMMA RestKeeps ==
    ASSUME JobInv, RestOK, [Next]_vars
    PROVE  RestOK'
<1>1. ASSUME NEW r \in Requests, HandlerStep(r)
      PROVE  RestOK'
  <2>1. CASE \E e \in Endpoints : Consider(r, e)
    BY <2>1 DEF RestOK, Consider, store
  <2>2. CASE EndListing(r)
    BY <2>2, EndsKeepRest DEF RestOK, EndListing, store
  <2>3. CASE ContextOver(r) \/ NothingSuitable(r) \/ GiveUp(r)
    BY <2>3, EndsKeepRest DEF RestOK, ContextOver, NothingSuitable, GiveUp, store
  <2>4. CASE SkipPublic(r) \/ Upgrade(r)
    BY <2>4 DEF RestOK, SkipPublic, Upgrade, store
  <2>5. CASE Attempt(r)
    BY <2>5, AttemptKeepsRest
  <2>6. CASE EndpointFails(r) \/ BadRequest(r) \/ CutShort(r)
    BY <2>6, EndsKeepRest DEF RestOK, EndpointFails, BadRequest, CutShort, store
  <2>7. CASE Served(r) \/ BrokeOff(r) \/ DialUnanswered(r) \/ UpgradeFails(r)
    BY <2>7, EndsKeepRest DEF RestOK, Served, BrokeOff, DialUnanswered, UpgradeFails, store
  <2>8. CASE RateLimited(r) \/ EmbeddedLimit(r)
    <3>1. pc[r] \in AtEndpoint /\ MarkLimited(at[r])
        BY <2>8 DEF RateLimited, EmbeddedLimit, Sending, AtEndpoint
    <3>2. /\ used' \in [Endpoints -> Nat] /\ limited' \subseteq Endpoints
          /\ strays' \in [Endpoints -> Nat]
        BY <3>1, AtATry, MarkKeepsRest
    <3>3. \E k : Lose(r, k) \/ Finish(r, k)
        BY <2>8, Zenon DEF RateLimited, EmbeddedLimit
    <3>4. QED
        BY <3>2, <3>3, EndsKeepRest DEF RestOK
  <2>9. QED
    BY <1>1, <2>1, <2>2, <2>3, <2>4, <2>5, <2>6, <2>7, <2>8 DEF HandlerStep
<1>2. ASSUME NEW r \in Requests, RelayStep(r)
      PROVE  RestOK'
    BY <1>2, EndsKeepRest DEF RestOK, RelayStep, RelayEnds, RelayDrops, RelayFails, store
<1>3. ASSUME NEW r \in Requests, ClientStep(r)
      PROVE  RestOK'
  <2>1. CASE Arrive(r)
    BY <2>1 DEF RestOK, Arrive, store
  <2>2. CASE Refuse(r)
    BY <2>2, EndsKeepRest DEF RestOK, Refuse, store
  <2>3. CASE ContextEnds(r)
    BY <2>3 DEF RestOK, ContextEnds, store
  <2>4. QED
    BY <1>3, <2>1, <2>2, <2>3 DEF ClientStep
<1>4. ASSUME NEW e \in Endpoints, EndpointStep(e)
      PROVE  RestOK'
    BY <1>4 DEF RestOK, EndpointStep, NewWindow, LimitedElsewhere, LimitLifted, flow
<1>5. CASE UNCHANGED vars
    BY <1>5 DEF RestOK, vars
<1>6. QED
    BY <1>1, <1>2, <1>3, <1>4, <1>5 DEF Next

\* Each variable stays within its type; no request counts more tries than
\* PROXY_MAX_RETRIES.
THEOREM TypeCorrect == Spec => []TypeOK
<1>1. Init => RestOK
    BY DEF Init, RestOK
<1>2. JobInv /\ RestOK /\ [Next]_vars => RestOK'
    BY RestKeeps
<1>3. JobInv /\ RestOK => TypeOK
  <2> SUFFICES ASSUME JobInv, RestOK PROVE TypeOK
    OBVIOUS
  <2>1. ASSUME NEW r \in Requests
        PROVE  job[r] \in Jobs
    <3>1. Books(pc[r], avail[r], at[r], job[r]) /\ job[r] \in Shapes
        BY DEF JobInv, Fits
    <3>2. PublicsBy(job[r]) \in SUBSET TriedBy(job[r])
        BY DEF PublicsBy
    <3>3. /\ Cardinality(PublicsBy(job[r])) <= Cardinality(TriedBy(job[r]))
          /\ IsFiniteSet(TriedBy(job[r]))
        BY <3>1, <3>2, FS_Subset DEF Books
    <3>4. Cardinality(TriedBy(job[r])) \in Nat
        BY <3>3, FS_CardinalityType
    <3>5. job[r].retries \in 0..MaxRetries /\ job[r].publics \in 0..MaxRetries
        BY <3>1, <3>3, <3>4 DEF Books, Shapes
    <3>6. QED
        BY <3>1, <3>5 DEF Jobs, Shapes
  <2>2. QED
    BY <2>1 DEF JobInv, RestOK, TypeOK, Open, AtEndpoint
<1>4. QED
    BY <1>1, <1>2, <1>3, JobInvariant, PTL DEF Spec
===============================================================================
