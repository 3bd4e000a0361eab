------------------------- MODULE IndexerRestProofs -------------------------
(***************************************************************************)
(* What the REST server's cache and the tables keep, for any number of     *)
(* concurrent requests, any lifetime and any calls of the repositories in  *)
(* any order.  The cache answers a request with a result that its own      *)
(* query has had, or that of a request which a "?" in a path gives the     *)
(* same key.  In the tables keys are unique, references resolve, every row *)
(* passes the validators of ent/schema and has values of its columns'      *)
(* types, and a balance is the sum of what was added to it until rounding  *)
(* sets in.                                                                *)
(***************************************************************************)
EXTENDS IndexerRest, TLAPS, FiniteSetTheorems, SequenceTheorems, WellFoundedInduction

---------------------------------------------------------------------------
(* The inductive invariant                                                 *)

\* The history has the present result of every request.
TruthsCurrent ==
    truths = [r \in load.requests |-> truths[r]]
    /\ \A r \in load.requests : Truth(db, r) \in truths[r]

\* An entry holds a result of a GET that has its key.
IsEntry(e) == e = [key |-> e.key, body |-> e.body, age |-> e.age]
EntryOf(e, r) ==
    r.method = "GET" /\ e.key = getMemcacheKey(r) /\ Json(200, e.body) \in truths[r]
CacheTrue ==
    \A e \in cache : IsEntry(e) /\ \E r \in load.requests : EntryOf(e, r)

IsJson(response) == response = [status |-> response.status, body |-> response.body]
Positive(response) == response.status = 200 /\ response.body # Null
RequestTrue(q) ==
    /\ q.state # "idle" => q.request \in load.requests
    /\ q.state \in {"handled", "answered"} =>
         /\ IsJson(q.response)
         /\ Positive(q.response) => \E r \in Owners(q.request) : q.response \in truths[r]
RequestsTrue ==
    requests = [c \in Clients |-> requests[c]] /\ \A c \in Clients : RequestTrue(requests[c])

AreRequests == \A r \in load.requests : IsRequest(r)

RestInv == IsLoad(load) /\ AreRequests /\ TruthsCurrent /\ CacheTrue /\ RequestsTrue

---------------------------------------------------------------------------
(* The key                                                                 *)

\* What is where in a key.
LEMMA KeyPlaces ==
    ASSUME NEW S, "?" \in S, NEW p \in Seq(S), NEW u \in Seq(S), NEW k, k = p \o <<"?">> \o u
    PROVE  /\ Len(k) = Len(p) + 1 + Len(u)
           /\ \A i \in 1 .. Len(p) : k[i] = p[i]
           /\ k[Len(p) + 1] = "?"
           /\ \A i \in 1 .. Len(u) : k[Len(p) + 1 + i] = u[i]
<1>1. <<"?">> \in Seq(S) /\ Len(<<"?">>) = 1
  OBVIOUS
<1> DEFINE h == p \o <<"?">>
<1>2. /\ h \in Seq(S) /\ Len(h) = Len(p) + 1
      /\ \A i \in 1 .. Len(p) + 1 : h[i] = IF i <= Len(p) THEN p[i] ELSE <<"?">>[i - Len(p)]
  BY <1>1, ConcatProperties
<1>3. Len(p) \in Nat /\ Len(u) \in Nat
  BY LenProperties
<1>4. h[Len(p) + 1] = "?" /\ \A i \in 1 .. Len(p) : h[i] = p[i]
  BY <1>2, <1>3
<1>5. k = h \o u
  OBVIOUS
<1>. HIDE DEF h
<1>6. /\ Len(k) = Len(h) + Len(u)
      /\ \A i \in 1 .. Len(h) + Len(u) : k[i] = IF i <= Len(h) THEN h[i] ELSE u[i - Len(h)]
  BY <1>2, <1>5, ConcatProperties
<1>. QED BY <1>2, <1>3, <1>4, <1>6

\* A path without a "?" ends at the first one of its key.
LEMMA PathNotLonger ==
    ASSUME NEW S, "?" \in S, NEW p \in Seq(S), NEW u \in Seq(S), NEW q \in Seq(S), NEW v \in Seq(S),
           \A i \in DOMAIN p : p[i] # "?", p \o <<"?">> \o u = q \o <<"?">> \o v
    PROVE  Len(p) <= Len(q)
<1>1. PICK k : k = p \o <<"?">> \o u
  OBVIOUS
<1>2. \A i \in 1 .. Len(p) : k[i] = p[i]
  BY <1>1, KeyPlaces
<1>3. k = q \o <<"?">> \o v
  BY <1>1
<1>4. k[Len(q) + 1] = "?"
  BY <1>3, KeyPlaces
<1>5. Len(p) \in Nat /\ Len(q) \in Nat /\ DOMAIN p = 1 .. Len(p)
  BY LenProperties
<1> SUFFICES ASSUME ~(Len(p) <= Len(q)) PROVE FALSE
  OBVIOUS
<1>6. Len(q) + 1 \in 1 .. Len(p)
  BY <1>5
<1>7. p[Len(q) + 1] = "?" /\ p[Len(q) + 1] # "?"
  BY <1>2, <1>4, <1>5, <1>6
<1>. QED BY <1>7

\* Of the requests without a "?" in their paths no two have the same key.
LEMMA PlainKeysDiffer ==
    ASSUME NEW r, NEW s, IsRequest(r), IsRequest(s), r.method = s.method, Plain(r), Plain(s),
           getMemcacheKey(r) = getMemcacheKey(s)
    PROVE  r = s
<1> DEFINE Pieces(t) == {t[i] : i \in DOMAIN t}
           S == {"?"} \cup Pieces(r.path) \cup Pieces(r.query)
                      \cup Pieces(s.path) \cup Pieces(s.query)
<1>1. ASSUME NEW t, IsList(t), Pieces(t) \subseteq S PROVE t \in Seq(S)
  <2>1. t \in Seq(Pieces(t))
    BY <1>1 DEF IsList
  <2>. HIDE DEF S, Pieces
  <2>. QED BY <1>1, <2>1, SeqMonotonic
<1>2. r.path \in Seq(S) /\ r.query \in Seq(S) /\ s.path \in Seq(S) /\ s.query \in Seq(S)
  <2>1. IsList(r.path) /\ IsList(r.query) /\ IsList(s.path) /\ IsList(s.query)
    BY DEF IsRequest
  <2>2. /\ Pieces(r.path) \subseteq S /\ Pieces(r.query) \subseteq S
        /\ Pieces(s.path) \subseteq S /\ Pieces(s.query) \subseteq S
    OBVIOUS
  <2>. HIDE DEF S, Pieces
  <2>. QED BY <1>1, <2>1, <2>2
<1>3. "?" \in S
  OBVIOUS
<1>. HIDE DEF S
<1>4. PICK p, u, q, v : p = r.path /\ u = r.query /\ q = s.path /\ v = s.query
  OBVIOUS
<1>5. /\ p \in Seq(S) /\ u \in Seq(S) /\ q \in Seq(S) /\ v \in Seq(S)
      /\ p \o <<"?">> \o u = q \o <<"?">> \o v
      /\ (\A i \in DOMAIN p : p[i] # "?") /\ \A i \in DOMAIN q : q[i] # "?"
  BY <1>2, <1>4 DEF getMemcacheKey, Plain
<1>6. Len(p) = Len(q)
  <2>1. Len(p) <= Len(q) /\ Len(q) <= Len(p)
    BY <1>3, <1>5, PathNotLonger
  <2>. QED BY <1>5, <2>1, LenProperties
<1>7. PICK k : k = p \o <<"?">> \o u
  OBVIOUS
<1>8. /\ Len(k) = Len(p) + 1 + Len(u)
      /\ \A i \in 1 .. Len(p) : k[i] = p[i]
      /\ \A i \in 1 .. Len(u) : k[Len(p) + 1 + i] = u[i]
  BY <1>3, <1>5, <1>7, KeyPlaces
<1>9. /\ Len(k) = Len(q) + 1 + Len(v)
      /\ \A i \in 1 .. Len(q) : k[i] = q[i]
      /\ \A i \in 1 .. Len(v) : k[Len(q) + 1 + i] = v[i]
  <2>1. k = q \o <<"?">> \o v
    BY <1>5, <1>7
  <2>. QED BY <1>3, <1>5, <2>1, KeyPlaces
<1>10. Len(u) = Len(v)
  <2>1. Len(p) \in Nat /\ Len(u) \in Nat /\ Len(v) \in Nat
    BY <1>5, LenProperties
  <2>. QED BY <1>6, <1>8, <1>9, <2>1
<1>11. p = q
  <2>1. \A i \in 1 .. Len(p) : p[i] = q[i]
    BY <1>6, <1>8, <1>9
  <2>. QED BY <1>5, <1>6, <2>1, SeqEqual
<1>12. u = v
  <2>1. \A i \in 1 .. Len(u) : u[i] = v[i]
    BY <1>6, <1>8, <1>9, <1>10
  <2>. QED BY <1>5, <1>10, <2>1, SeqEqual
<1>. QED BY <1>4, <1>11, <1>12 DEF IsRequest

\* So whoever has a request's key is one of its owners.
LEMMA KeyMakesOwner ==
    ASSUME AreRequests, NEW r \in load.requests, NEW s \in load.requests,
           r.method = "GET", s.method = "GET", getMemcacheKey(r) = getMemcacheKey(s)
    PROVE  s \in Owners(r)
  BY PlainKeysDiffer DEF AreRequests, Owners

LEMMA OwnersFrame == ASSUME load'.requests = load.requests, NEW r PROVE Owners(r)' = Owners(r)
  BY DEF Owners, Plain, getMemcacheKey

LEMMA OwnsItself == ASSUME NEW r PROVE r \in Owners(r)
  BY DEF Owners

---------------------------------------------------------------------------
(* The handlers                                                            *)

\* A query that failed leaves nothing to store.
LEMMA FailureIsNotPositive ==
    ASSUME NEW d, NEW r PROVE ~Positive(handleTokenRoutes(d, r, TRUE))
  BY DEF Positive, handleTokenRoutes, NotFound, BalancesFailed, NoBody, Json, GetTokenBalances,
         GetTokenAccountBalances, GetTransferHistory

LEMMA HandlersAnswerJson ==
    ASSUME NEW d, NEW r, NEW fails \in BOOLEAN PROVE IsJson(handleTokenRoutes(d, r, fails))
  BY DEF IsJson, handleTokenRoutes, NotFound, BalancesFailed, NoBody, Json, GetTokenBalances,
         GetTokenAccountBalances, GetTransferHistory

---------------------------------------------------------------------------
(* The steps                                                               *)

LEMMA RestInit == Init => RestInv
<1> SUFFICES ASSUME Init PROVE RestInv
  OBVIOUS
<1>1. IsLoad(load) /\ AreRequests
  BY LoadsAssumption DEF Init, AreRequests
<1>2. truths = [r \in load.requests |-> {Truth(db, r)}] /\ cache = {}
      /\ requests = [c \in Clients |-> Idle]
  BY DEF Init
<1>3. TruthsCurrent
  BY <1>2 DEF TruthsCurrent
<1>4. CacheTrue /\ RequestsTrue
  BY <1>2 DEF CacheTrue, RequestsTrue, RequestTrue, Idle
<1>. QED BY <1>1, <1>3, <1>4 DEF RestInv

\* Steps of the server leave the tables and the history alone.
LEMMA ServerFrame ==
    ASSUME RestInv, UNCHANGED <<db, load, truths>>
    PROVE  IsLoad(load)' /\ AreRequests' /\ TruthsCurrent'
  BY DEF RestInv, IsLoad, AreRequests, IsRequest, IsList, TruthsCurrent, Truth

LEMMA CacheFrame ==
    ASSUME RestInv, UNCHANGED <<load, truths>>, cache' \subseteq cache PROVE CacheTrue'
  BY DEF RestInv, CacheTrue, IsEntry, EntryOf, getMemcacheKey, Json

\* One client moves on, to a request that is in order.
LEMMA ClientStep ==
    ASSUME RestInv, UNCHANGED <<load, truths>>, NEW c \in Clients, NEW q,
           requests' = [requests EXCEPT ![c] = q], RequestTrue(q)
    PROVE  RequestsTrue'
<1>1. \A b \in Clients : requests'[b] = IF b = c THEN q ELSE requests[b]
  BY DEF RestInv, RequestsTrue
<1>2. requests' = [b \in Clients |-> requests'[b]]
  BY DEF RestInv, RequestsTrue
<1>3. \A b \in Clients : RequestTrue(requests'[b])
  BY <1>1 DEF RestInv, RequestsTrue
<1>4. \A b \in Clients : RequestTrue(requests[b])'
  BY <1>3, OwnersFrame DEF RequestTrue, IsJson, Positive
<1>. QED BY <1>2, <1>4 DEF RequestsTrue

\* An entry that a GET finds holds a result of one of its owners.
LEMMA FoundIsOwned ==
    ASSUME RestInv, NEW r \in load.requests, r.method = "GET", NEW e \in findFromLocalCache(r)
    PROVE  \E s \in Owners(r) : Json(200, e.body) \in truths[s]
<1>1. PICK s \in load.requests : EntryOf(e, s)
  BY DEF RestInv, CacheTrue, findFromLocalCache
<1>2. s \in Owners(r)
  BY <1>1, KeyMakesOwner DEF RestInv, EntryOf, findFromLocalCache
<1>. QED BY <1>1, <1>2 DEF EntryOf

LEMMA HitStep == ASSUME RestInv, NEW c \in Clients, Hit(c) PROVE RestInv'
<1>1. UNCHANGED <<db, load, truths, cache>>
  BY DEF Hit, AfterHit
<1>0. PICK r \in load.requests :
         /\ r.method = "GET"
         /\ \E e \in findFromLocalCache(r) :
              requests' = [requests EXCEPT ![c] =
                  [state |-> "answered", request |-> r, response |-> Json(200, e.body)]]
  BY DEF Hit
<1>2. PICK e \in findFromLocalCache(r) :
         requests' = [requests EXCEPT ![c] =
                [state |-> "answered", request |-> r, response |-> Json(200, e.body)]]
  BY <1>0
<1>3. \E s \in Owners(r) : Json(200, e.body) \in truths[s]
  BY <1>0, FoundIsOwned
<1>4. RequestTrue([state |-> "answered", request |-> r, response |-> Json(200, e.body)])
  BY <1>3 DEF RequestTrue, IsJson, Json
<1>5. RequestsTrue'
  BY <1>1, <1>2, <1>4, ClientStep
<1>. QED BY <1>1, <1>5, ServerFrame, CacheFrame DEF RestInv

LEMMA MissStep == ASSUME RestInv, NEW c \in Clients, Miss(c) PROVE RestInv'
<1>1. UNCHANGED <<db, load, truths, cache>>
  BY DEF Miss
<1>2. PICK r \in load.requests :
         requests' = [requests EXCEPT ![c] = [state |-> "handling", request |-> r]]
  BY DEF Miss
<1>3. RequestTrue([state |-> "handling", request |-> r])
  BY DEF RequestTrue
<1>4. RequestsTrue'
  BY <1>1, <1>2, <1>3, ClientStep
<1>. QED BY <1>1, <1>4, ServerFrame, CacheFrame DEF RestInv

LEMMA HandleStep == ASSUME RestInv, NEW c \in Clients, Handle(c) PROVE RestInv'
<1>1. UNCHANGED <<db, load, truths, cache>> /\ requests[c].state = "handling"
  BY DEF Handle
<1>2. PICK fails \in BOOLEAN :
         requests' = [requests EXCEPT ![c] =
             [state |-> "handled", request |-> requests[c].request,
              response |-> handleTokenRoutes(db, requests[c].request, fails)]]
  BY DEF Handle
<1>3. PICK r : r = requests[c].request
  OBVIOUS
<1>4. r \in load.requests
  BY <1>1, <1>3 DEF RestInv, RequestsTrue, RequestTrue
<1>5. PICK response : response = handleTokenRoutes(db, r, fails)
  OBVIOUS
<1>6. Positive(response) => response \in truths[r]
  <2>1. CASE fails = TRUE
    BY <1>5, <2>1, FailureIsNotPositive
  <2>2. CASE fails = FALSE
    BY <1>4, <1>5, <2>2 DEF RestInv, TruthsCurrent, Truth
  <2>. QED BY <2>1, <2>2
<1>7. RequestTrue([state |-> "handled", request |-> r, response |-> response])
  BY <1>4, <1>5, <1>6, HandlersAnswerJson, OwnsItself DEF RequestTrue
<1>8. RequestsTrue'
  BY <1>1, <1>2, <1>3, <1>5, <1>7, ClientStep
<1>. QED BY <1>1, <1>8, ServerFrame, CacheFrame DEF RestInv
\* What is stored for a request is a result of one that has its key.
LEMMA StoredIsTrue ==
    ASSUME RestInv, UNCHANGED <<load, truths>>, NEW r \in load.requests, NEW body,
           r.method = "GET", NEW s \in Owners(r), Json(200, body) \in truths[s],
           cache' = Stored(r, body)
    PROVE  CacheTrue'
<1>1. PICK new : new = [key |-> getMemcacheKey(r), body |-> body, age |-> 0]
  OBVIOUS
<1>2. cache' \subseteq cache \cup {new}
  BY <1>1 DEF Stored
<1>3. IsEntry(new)
  BY <1>1 DEF IsEntry
<1>4. s \in load.requests /\ EntryOf(new, s)
  BY <1>1 DEF Owners, EntryOf
<1>5. \A e \in cache' : IsEntry(e) /\ \E t \in load.requests : EntryOf(e, t)
  BY <1>2, <1>3, <1>4 DEF RestInv, CacheTrue
<1>. QED BY <1>5 DEF CacheTrue, IsEntry, EntryOf, getMemcacheKey, Json

LEMMA RespondStep == ASSUME RestInv, NEW c \in Clients, Respond(c) PROVE RestInv'
<1>1. UNCHANGED <<db, load, truths>> /\ requests[c].state = "handled"
  BY DEF Respond
<1>2. PICK r, response : r = requests[c].request /\ response = requests[c].response
  OBVIOUS
<1>3. /\ r \in load.requests /\ IsJson(response)
      /\ Positive(response) => \E s \in Owners(r) : response \in truths[s]
  BY <1>1, <1>2 DEF RestInv, RequestsTrue, RequestTrue
<1>4. requests' = [requests EXCEPT ![c] =
          [state |-> "answered", request |-> r, response |-> response]]
  BY <1>2 DEF Respond
<1>5. RequestTrue([state |-> "answered", request |-> r, response |-> response])
  BY <1>3 DEF RequestTrue
<1>6. RequestsTrue'
  BY <1>1, <1>4, <1>5, ClientStep
<1>7. CacheTrue'
  <2>1. CASE cache' = cache
    BY <1>1, <2>1, CacheFrame
  <2>2. CASE Storable(r, response) /\ cache' = Stored(r, response.body)
    <3>1. response.status = 200 /\ r.method = "GET" /\ Positive(response)
      BY <2>2 DEF Storable, Positive
    <3>2. PICK s \in Owners(r) : response \in truths[s]
      BY <1>3, <3>1
    <3>3. Json(200, response.body) \in truths[s]
      BY <1>3, <3>1, <3>2 DEF IsJson, Json
    <3>. QED BY <1>1, <1>3, <2>2, <3>1, <3>2, <3>3, StoredIsTrue
  <2>. QED BY <1>2, <2>1, <2>2 DEF Respond
<1>. QED BY <1>1, <1>6, <1>7, ServerFrame DEF RestInv

LEMMA LeaveStep == ASSUME RestInv, NEW c \in Clients, Leave(c) PROVE RestInv'
<1>1. UNCHANGED <<db, load, truths, cache>> /\ requests' = [requests EXCEPT ![c] = Idle]
  BY DEF Leave
<1>2. RequestTrue(Idle)
  BY DEF RequestTrue, Idle
<1>3. RequestsTrue'
  BY <1>1, <1>2, ClientStep
<1>. QED BY <1>1, <1>3, ServerFrame, CacheFrame DEF RestInv

\* Eviction and time take entries away; time changes their age only.
LEMMA CacheStep == ASSUME RestInv, Evict \/ Tick PROVE RestInv'
<1>1. UNCHANGED <<db, load, truths, requests>>
  BY DEF Evict, Tick
<1>2. RequestsTrue'
  BY <1>1, OwnersFrame DEF RestInv, RequestsTrue, RequestTrue, IsJson, Positive
<1>3. CacheTrue'
  <2>1. CASE Evict
    BY <1>1, <2>1, CacheFrame DEF Evict
  <2>2. CASE Tick
    <3>1. ASSUME NEW e \in cache'
          PROVE  IsEntry(e) /\ \E r \in load.requests : EntryOf(e, r)
      <4>1. PICK old \in cache : e = [old EXCEPT !.age = @ + 1]
        BY <2>2 DEF Tick
      <4>2. old = [key |-> old.key, body |-> old.body, age |-> old.age]
        BY DEF RestInv, CacheTrue, IsEntry
      <4>3. e = [key |-> old.key, body |-> old.body, age |-> old.age + 1]
        BY <4>1, <4>2
      <4>4. \E r \in load.requests : EntryOf(old, r)
        BY DEF RestInv, CacheTrue
      <4>. QED BY <4>3, <4>4 DEF IsEntry, EntryOf
    <3>. QED BY <1>1, <3>1 DEF CacheTrue, IsEntry, EntryOf, getMemcacheKey, Json
  <2>. QED BY <2>1, <2>2
<1>. QED BY <1>1, <1>2, <1>3, ServerFrame DEF RestInv

\* A write makes results outdated, but not untrue: the history keeps them.
LEMMA WriteStep == ASSUME RestInv, NEW d, NEW l, Write(d, l) PROVE RestInv'
<1>1. /\ db' = d /\ UNCHANGED <<cache, requests>>
      /\ truths' = [r \in load.requests |-> truths[r] \cup {Truth(d, r)}]
  BY DEF Write, restVars
<1>2. load' = load \/ load' = [load EXCEPT !.writes = @ - 1]
  BY DEF Write
<1>3. IsLoad(load)' /\ AreRequests' /\ load'.requests = load.requests
  BY <1>2 DEF RestInv, IsLoad, AreRequests, IsRequest, IsList
<1>4. \A r \in load.requests : truths'[r] = truths[r] \cup {Truth(d, r)}
  BY <1>1
<1>5. TruthsCurrent'
  BY <1>1, <1>3 DEF TruthsCurrent
<1>6. CacheTrue'
  <2>1. ASSUME NEW e \in cache
        PROVE  IsEntry(e) /\ \E r \in load.requests :
                   r.method = "GET" /\ e.key = getMemcacheKey(r) /\ Json(200, e.body) \in truths'[r]
    BY <1>4 DEF RestInv, CacheTrue, EntryOf
  <2>. QED BY <1>1, <1>3, <2>1 DEF CacheTrue, IsEntry, EntryOf, getMemcacheKey, Json
<1>7. RequestsTrue'
  <2>1. ASSUME NEW c \in Clients PROVE RequestTrue(requests[c])'
    <3>1. RequestTrue(requests[c])
      BY DEF RestInv, RequestsTrue
    <3>2. requests[c].state # "idle" => Owners(requests[c].request) \subseteq load.requests
      BY <3>1 DEF RequestTrue, Owners
    <3>. QED BY <1>1, <1>3, <1>4, <3>1, <3>2, OwnersFrame DEF RequestTrue, IsJson, Positive
  <2>. QED BY <1>1, <2>1 DEF RestInv, RequestsTrue
<1>. QED BY <1>3, <1>5, <1>6, <1>7 DEF RestInv
LEMMA RestStutter == RestInv /\ UNCHANGED vars => RestInv'
<1> SUFFICES ASSUME RestInv, UNCHANGED vars PROVE RestInv'
  OBVIOUS
<1>1. UNCHANGED <<db, load, truths, cache, requests>>
  BY DEF vars
<1>2. RequestsTrue'
  BY <1>1, OwnersFrame DEF RestInv, RequestsTrue, RequestTrue, IsJson, Positive
<1>. QED BY <1>1, <1>2, ServerFrame, CacheFrame DEF RestInv

LEMMA RestStep == RestInv /\ [Next]_vars => RestInv'
<1> SUFFICES ASSUME RestInv, Next \/ UNCHANGED vars PROVE RestInv'
  OBVIOUS
<1>1. CASE \E c \in Clients : Hit(c) \/ Miss(c) \/ Handle(c) \/ Respond(c) \/ Leave(c)
  BY <1>1, HitStep, MissStep, HandleStep, RespondStep, LeaveStep
<1>2. CASE Evict \/ Tick
  BY <1>2, CacheStep
<1>3. CASE \/ WriteBlock \/ WriteBlocks \/ WriteTransaction \/ WriteTransactions
           \/ WriteAccount \/ WriteBalance \/ WriteTransfer \/ WriteTransfers \/ WriteRestore
  <2>1. PICK d, l : Write(d, l)
    BY <1>3 DEF WriteBlock, WriteBlocks, WriteTransaction, WriteTransactions, WriteAccount,
                WriteBalance, WriteTransfer, WriteTransfers, WriteRestore
  <2>. QED BY <2>1, WriteStep
<1>4. CASE UNCHANGED vars
  BY <1>4, RestStutter
<1>. QED BY <1>1, <1>2, <1>3, <1>4 DEF Next

\* CachedWasTrue, the cache of controller.go: an answer with status 200 and a body, and an
\* entry a request finds, was at some time the result of that request's own query, or of a
\* request with the same key.  PlainKeysDiffer says who that can be: the unescaped key tells
\* any two requests apart that have no "?" in their paths.
THEOREM CacheServesTheTruth == Spec => []CachedWasTrue
<1>1. RestInv => CachedWasTrue
  BY FoundIsOwned DEF RestInv, RequestsTrue, RequestTrue, Positive, CachedWasTrue
<1>. QED BY <1>1, RestInit, RestStep, PTL DEF Spec

---------------------------------------------------------------------------
(* The server keeps well-formed requests, responses and entries            *)

RequestTyped(q) ==
    /\ q.state \in {"idle", "handling", "handled", "answered"}
    /\ q.state \in {"handled", "answered"} => q.response \in Response
ServerTyped ==
    /\ \A e \in cache : e.age \in 0 .. TTL - 1
    /\ \A c \in Clients : RequestTyped(requests[c])

\* Results that a query has had are responses, and so is a failure.
LEMMA TruthsAreResponses ==
    ASSUME NEW r \in load.requests, NEW x \in truths[r], IsJson(x), x.status \in {200, 404, 500}
    PROVE  x \in Response
<1>1. x.body \in Bodies
  BY DEF Bodies
<1>2. x = [status |-> x.status, body |-> x.body]
  BY DEF IsJson
<1>. QED BY <1>1, <1>2 DEF Response

LEMMA HandlersStatus ==
    ASSUME NEW d, NEW r, NEW fails \in BOOLEAN
    PROVE  handleTokenRoutes(d, r, fails).status \in {200, 404, 500}
  BY DEF handleTokenRoutes, NotFound, BalancesFailed, NoBody, Json, GetTokenBalances,
         GetTokenAccountBalances, GetTransferHistory

LEMMA FailuresAreResponses ==
    ASSUME NEW d, NEW r PROVE handleTokenRoutes(d, r, TRUE) \in Response
<1>1. handleTokenRoutes(d, r, TRUE) \in {NotFound, BalancesFailed, NoBody}
  BY DEF handleTokenRoutes, GetTokenBalances, GetTokenAccountBalances, GetTransferHistory
<1>2. NotFound \in Response /\ BalancesFailed \in Response /\ NoBody \in Response
  BY DEF NotFound, BalancesFailed, NoBody, Json, Response
<1>. QED BY <1>1, <1>2

LEMMA HandlersAnswerResponses ==
    ASSUME RestInv, NEW r \in load.requests, NEW fails \in BOOLEAN
    PROVE  handleTokenRoutes(db, r, fails) \in Response
<1> DEFINE x == handleTokenRoutes(db, r, fails)
<1>1. IsJson(x)
  BY HandlersAnswerJson
<1>2. x.status \in {200, 404, 500}
  BY HandlersStatus
<1>3. CASE fails = TRUE
  BY <1>3, FailuresAreResponses
<1>4. CASE fails = FALSE
  <2>1. handleTokenRoutes(db, r, FALSE) \in truths[r]
    BY DEF RestInv, TruthsCurrent, Truth
  <2>2. x \in truths[r]
    BY <1>4, <2>1
  <2>. HIDE DEF x
  <2>3. x \in Response
    BY <1>1, <1>2, <2>2, TruthsAreResponses
  <2>. QED BY <2>3 DEF x
<1>. QED BY <1>3, <1>4

LEMMA ResponseFrame == ASSUME UNCHANGED <<load, truths>> PROVE Response' = Response
  BY DEF Response, Bodies

\* One client moves on.
LEMMA ClientTyped ==
    ASSUME RestInv, ServerTyped, UNCHANGED <<load, truths>>, NEW c \in Clients, NEW q,
           requests' = [requests EXCEPT ![c] = q], RequestTyped(q)
    PROVE  \A b \in Clients : RequestTyped(requests[b])'
<1>1. \A b \in Clients : requests'[b] = IF b = c THEN q ELSE requests[b]
  BY DEF RestInv, RequestsTrue
<1>2. \A b \in Clients : RequestTyped(requests'[b])
  BY <1>1 DEF ServerTyped
<1>. QED BY <1>2, ResponseFrame DEF RequestTyped

LEMMA HitTyped ==
    ASSUME RestInv, ServerTyped, NEW c \in Clients, Hit(c) PROVE ServerTyped'
<1>1. UNCHANGED <<load, truths, cache>>
  BY DEF Hit, AfterHit
<1>2. PICK r \in load.requests : /\ r.method = "GET"
         /\ \E e \in findFromLocalCache(r) :
              requests' = [requests EXCEPT ![c] =
                  [state |-> "answered", request |-> r, response |-> Json(200, e.body)]]
  BY DEF Hit
<1>3. PICK e \in findFromLocalCache(r) :
         requests' = [requests EXCEPT ![c] =
                  [state |-> "answered", request |-> r, response |-> Json(200, e.body)]]
  BY <1>2
<1> DEFINE x == Json(200, e.body)
<1>4. PICK s \in load.requests : x \in truths[s]
  BY <1>2 DEF RestInv, CacheTrue, EntryOf, findFromLocalCache
<1>5. IsJson(x) /\ x.status = 200
  BY DEF IsJson, Json
<1>. HIDE DEF x
<1>6. x \in Response
  BY <1>4, <1>5, TruthsAreResponses
<1>7. RequestTyped([state |-> "answered", request |-> r, response |-> x])
  BY <1>6 DEF RequestTyped
<1>8. requests' = [requests EXCEPT ![c] = [state |-> "answered", request |-> r, response |-> x]]
  BY <1>3 DEF x
<1>9. \A b \in Clients : RequestTyped(requests[b])'
  BY <1>1, <1>7, <1>8, ClientTyped
<1>. QED BY <1>1, <1>9 DEF ServerTyped

LEMMA MissTyped ==
    ASSUME RestInv, ServerTyped, NEW c \in Clients, Miss(c) PROVE ServerTyped'
<1>1. UNCHANGED <<load, truths, cache>>
  BY DEF Miss
<1>2. PICK r : requests' = [requests EXCEPT ![c] = [state |-> "handling", request |-> r]]
  BY DEF Miss
<1>3. RequestTyped([state |-> "handling", request |-> r])
  BY DEF RequestTyped
<1>4. \A b \in Clients : RequestTyped(requests[b])'
  BY <1>1, <1>2, <1>3, ClientTyped
<1>. QED BY <1>1, <1>4 DEF ServerTyped

LEMMA HandleTyped ==
    ASSUME RestInv, ServerTyped, NEW c \in Clients, Handle(c) PROVE ServerTyped'
<1>1. UNCHANGED <<load, truths, cache>> /\ requests[c].state = "handling"
  BY DEF Handle
<1>2. PICK fails \in BOOLEAN :
         requests' = [requests EXCEPT ![c] =
             [state |-> "handled", request |-> requests[c].request,
              response |-> handleTokenRoutes(db, requests[c].request, fails)]]
  BY DEF Handle
<1>3. PICK r : r = requests[c].request
  OBVIOUS
<1>4. r \in load.requests
  BY <1>1, <1>3 DEF RestInv, RequestsTrue, RequestTrue
<1>5. PICK x : x = handleTokenRoutes(db, r, fails)
  OBVIOUS
<1>6. RequestTyped([state |-> "handled", request |-> r, response |-> x])
  BY <1>4, <1>5, HandlersAnswerResponses DEF RequestTyped
<1>7. requests' = [requests EXCEPT ![c] = [state |-> "handled", request |-> r, response |-> x]]
  BY <1>2, <1>3, <1>5
<1>8. \A b \in Clients : RequestTyped(requests[b])'
  BY <1>1, <1>6, <1>7, ClientTyped
<1>. QED BY <1>1, <1>8 DEF ServerTyped

LEMMA RespondTyped ==
    ASSUME RestInv, ServerTyped, NEW c \in Clients, Respond(c) PROVE ServerTyped'
<1>1. UNCHANGED <<load, truths>> /\ requests[c].state = "handled"
  BY DEF Respond
<1>2. PICK r, x : r = requests[c].request /\ x = requests[c].response
  OBVIOUS
<1>3. requests' = [requests EXCEPT ![c] = [state |-> "answered", request |-> r, response |-> x]]
  BY <1>2 DEF Respond
<1>4. x \in Response
  BY <1>1, <1>2 DEF ServerTyped, RequestTyped
<1>5. RequestTyped([state |-> "answered", request |-> r, response |-> x])
  BY <1>4 DEF RequestTyped
<1>6. \A b \in Clients : RequestTyped(requests[b])'
  BY <1>1, <1>3, <1>5, ClientTyped
<1>7. \A e \in cache' : e.age \in 0 .. TTL - 1
  <2>1. 0 \in 0 .. TTL - 1
    BY TTLAssumption
  <2>2. PICK body : cache' \subseteq cache \cup {[key |-> getMemcacheKey(r), body |-> body, age |-> 0]}
    BY <1>2 DEF Respond, Stored
  <2>. QED BY <2>1, <2>2 DEF ServerTyped
<1>. QED BY <1>6, <1>7 DEF ServerTyped

LEMMA LeaveTyped ==
    ASSUME RestInv, ServerTyped, NEW c \in Clients, Leave(c) PROVE ServerTyped'
<1>1. UNCHANGED <<load, truths, cache>> /\ requests' = [requests EXCEPT ![c] = Idle]
  BY DEF Leave
<1>2. RequestTyped(Idle)
  BY DEF RequestTyped, Idle
<1>3. \A b \in Clients : RequestTyped(requests[b])'
  BY <1>1, <1>2, ClientTyped
<1>. QED BY <1>1, <1>3 DEF ServerTyped

LEMMA CacheTyped ==
    ASSUME RestInv, ServerTyped, Evict \/ Tick PROVE ServerTyped'
<1>1. UNCHANGED <<load, truths, requests>>
  BY DEF Evict, Tick
<1>2. \A b \in Clients : RequestTyped(requests[b])'
  BY <1>1, ResponseFrame DEF ServerTyped, RequestTyped
<1>3. CASE Evict
  BY <1>2, <1>3 DEF Evict, ServerTyped
<1>4. CASE Tick
  <2>1. ASSUME NEW e \in cache' PROVE e.age \in 0 .. TTL - 1
    <3>1. PICK old \in cache : e = [old EXCEPT !.age = @ + 1] /\ old.age + 1 < TTL
      BY <1>4 DEF Tick
    <3>2. old = [key |-> old.key, body |-> old.body, age |-> old.age]
      BY DEF RestInv, CacheTrue, IsEntry
    <3>3. e.age = old.age + 1
      BY <3>1, <3>2
    <3>4. old.age \in 0 .. TTL - 1 /\ TTL \in Nat
      BY TTLAssumption DEF ServerTyped
    <3>. QED BY <3>1, <3>3, <3>4
  <2>. QED BY <1>2, <2>1 DEF ServerTyped
<1>. QED BY <1>3, <1>4

LEMMA WriteTyped ==
    ASSUME RestInv, ServerTyped, NEW d, NEW l, Write(d, l) PROVE ServerTyped'
<1>1. UNCHANGED <<cache, requests>>
  BY DEF Write, restVars
<1>2. load'.requests = load.requests
      /\ \A r \in load.requests : truths[r] \subseteq truths'[r]
  BY DEF Write, RestInv, IsLoad
<1>3. Bodies \subseteq Bodies'
  BY <1>2 DEF Bodies
<1>4. Response \subseteq Response'
  BY <1>3 DEF Response
<1>5. \A b \in Clients : RequestTyped(requests[b])'
  <2>1. ASSUME NEW b \in Clients PROVE RequestTyped(requests[b])'
    <3>1. RequestTyped(requests[b])
      BY DEF ServerTyped
    <3>. QED BY <1>1, <1>4, <3>1 DEF RequestTyped
  <2>. QED BY <2>1
<1>. QED BY <1>1, <1>5 DEF ServerTyped

---------------------------------------------------------------------------
(* Consistency, table by table                                             *)

Names == {t.name : t \in Tables}
IsDb(d) == d = [n \in Names |-> d[n]]

IsRow(t, r) == r = [c \in t.columns |-> r[c]]
Shaped(d) == \A t \in Tables : \A r \in d[t.name] : IsRow(t, r)

Consistent(d) == IsDb(d) /\ Shaped(d) /\ KeysUnique(d) /\ ReferencesResolve(d)

\* ValidatorsHold, for one row.
RowValid(t, r) ==
    /\ t = AccountsTable => r.address # NoAddress /\ r.token # NoToken
    /\ t = TransfersTable => r.amount > 0 /\ r.func # "" /\ r.token # NoToken
    /\ t = TransactionsTable => r.block_transactions # Null
AllValid(d) == \A t \in Tables : \A r \in d[t.name] : RowValid(t, r)

Sound(d) == Consistent(d) /\ AllValid(d)

TablesInv == IsLoad(load) /\ Null \notin load.calls.heights /\ Sound(db)

---------------------------------------------------------------------------
(* The schema                                                              *)

LEMMA TableNames ==
    /\ \A t, u \in Tables : t.name = u.name => t = u
    /\ \A t \in Tables : t.name \in Names
  BY DEF Tables, Names, AccountsTable, BlocksTable, TransactionsTable, TransfersTable,
         RestoreHistoriesTable

\* Every table has a unique index on its primary key.
LEMMA KeyIsIndexed == \A t \in Tables : {t.id} \in t.unique /\ t.id \in t.columns
  BY DEF Tables, AccountsTable, BlocksTable, TransactionsTable, TransfersTable,
         RestoreHistoriesTable, AccountColumns, BlockColumns, TransactionColumns,
         TransferColumns, RestoreHistoryColumns

\* Every foreign key is a column and refers to the primary key of a table.
LEMMA ForeignIsKey ==
    \A t \in Tables : \A fk \in t.foreign :
        /\ fk.column \in t.columns \ {t.id}
        /\ \E u \in Tables : fk.table = u.name /\ fk.refers = u.id
  BY DEF Tables, AccountsTable, BlocksTable, TransactionsTable, TransfersTable,
         RestoreHistoriesTable, AccountColumns, BlockColumns, TransactionColumns,
         TransferColumns, RestoreHistoryColumns

\* Only accounts come with a key of their own.
LEMMA SerialTables ==
    \A t \in Tables : (t.serial = TRUE \/ t.serial = FALSE)
                      /\ (t # AccountsTable => t.serial = TRUE) /\ AccountsTable.serial = FALSE
  BY DEF Tables, AccountsTable, BlocksTable, TransactionsTable, TransfersTable,
         RestoreHistoriesTable

\* Blocks and restore histories have no validators that RowsAreValid is about.
LEMMA OnlyThreeValidated ==
    \A r : RowValid(BlocksTable, r) /\ RowValid(RestoreHistoriesTable, r)
  BY DEF RowValid, BlocksTable, RestoreHistoriesTable, AccountsTable, TransfersTable,
         TransactionsTable

\* No validator looks at a key that the database has numbered.
LEMMA KeysAreNotValidated ==
    ASSUME NEW t \in Tables, t.serial = TRUE, NEW r, NEW s, RowValid(t, r),
           \A c \in t.columns \ {t.id} : s[c] = r[c]
    PROVE  RowValid(t, s)
<1>1. ASSUME t = TransfersTable PROVE s.amount > 0 /\ s.func # "" /\ s.token # NoToken
  <2>1. {"amount", "func", "token"} \subseteq t.columns \ {t.id}
    BY <1>1 DEF TransfersTable, TransferColumns
  <2>. QED BY <1>1, <2>1 DEF RowValid
<1>2. ASSUME t = TransactionsTable PROVE s.block_transactions # Null
  <2>1. "block_transactions" \in t.columns \ {t.id}
    BY <1>2 DEF TransactionsTable, TransactionColumns
  <2>. QED BY <1>2, <2>1 DEF RowValid
<1>3. t # AccountsTable
  BY DEF AccountsTable
<1>. QED BY <1>1, <1>2, <1>3 DEF RowValid

---------------------------------------------------------------------------
(* Statements                                                              *)

\* A statement that changes the rows of one table, and loses no key.
LEMMA ChangeOneTable ==
    ASSUME NEW d, Consistent(d), NEW t \in Tables, NEW S,
           \A s \in S : IsRow(t, s) /\ References(d, t, s),
           \A r, s \in S : r[t.id] = s[t.id] => r = s,
           \A r \in d[t.name] : \E s \in S : s[t.id] = r[t.id]
    PROVE  Consistent([d EXCEPT ![t.name] = S])
<1> DEFINE e == [d EXCEPT ![t.name] = S]
<1>1. IsDb(e)
  BY DEF Consistent, IsDb
<1>2. /\ e[t.name] = S
      /\ \A u \in Tables : u # t => e[u.name] = d[u.name]
  BY TableNames DEF Consistent, IsDb
<1>3. Shaped(e)
  BY <1>2 DEF Shaped, Consistent
<1>4. KeysUnique(e)
  BY <1>2 DEF KeysUnique, Consistent
<1>5. ASSUME NEW u \in Tables, NEW r, References(d, u, r) PROVE References(e, u, r)
  <2> SUFFICES ASSUME NEW fk \in u.foreign, r[fk.column] # Null
               PROVE  \E s \in e[fk.table] : s[fk.refers] = r[fk.column]
    BY DEF References
  <2>1. PICK v \in Tables : fk.table = v.name /\ fk.refers = v.id
    BY ForeignIsKey
  <2>2. PICK s \in d[v.name] : s[v.id] = r[fk.column]
    BY <1>5, <2>1 DEF References
  <2>. QED BY <1>2, <2>1, <2>2
<1>6. ReferencesResolve(e)
  <2> SUFFICES ASSUME NEW u \in Tables, NEW r \in e[u.name] PROVE References(e, u, r)
    BY DEF ReferencesResolve
  <2>1. References(d, u, r)
    BY <1>2 DEF Consistent, ReferencesResolve
  <2>. QED BY <1>5, <2>1
<1>. QED BY <1>1, <1>3, <1>4, <1>6 DEF Consistent

LEMMA ValidOneTable ==
    ASSUME NEW d, IsDb(d), AllValid(d), NEW t \in Tables, NEW S, \A s \in S : RowValid(t, s)
    PROVE  AllValid([d EXCEPT ![t.name] = S])
  BY TableNames DEF AllValid, IsDb

\* An INSERT keeps the tables sound when the rows it is given are valid.
LEMMA InsertSound ==
    ASSUME NEW d, Sound(d), NEW t \in Tables, NEW rows,
           \A i \in DOMAIN rows : IsRow(t, rows[i]) /\ RowValid(t, rows[i])
    PROVE  Sound(Insert(d, t, rows).db)
<1> DEFINE new == Numbered(d, t, rows)
           S == d[t.name] \cup {new[i] : i \in DOMAIN new}
<1>1. CASE ~(Unique(d, t, new) /\ \A i \in DOMAIN new : References(d, t, new[i]))
  BY <1>1 DEF Insert, Failed
<1>2. CASE Unique(d, t, new) /\ \A i \in DOMAIN new : References(d, t, new[i])
  <2>1. Insert(d, t, rows).db = [d EXCEPT ![t.name] = S]
    BY <1>2 DEF Insert, Done
  <2>2. \A i \in DOMAIN new : IsRow(t, new[i]) /\ RowValid(t, new[i])
    <3> SUFFICES ASSUME NEW i \in DOMAIN new PROVE IsRow(t, new[i]) /\ RowValid(t, new[i])
      OBVIOUS
    \* Numbering changes keys only, and those of accounts not at all.
    <3>1. i \in DOMAIN rows /\ IsRow(t, rows[i]) /\ RowValid(t, rows[i])
      BY DEF Numbered
    <3>2. /\ IsRow(t, new[i])
          /\ \A c \in t.columns \ {t.id} : new[i][c] = rows[i][c]
          /\ t.serial = FALSE => new[i] = rows[i]
      BY <3>1 DEF Numbered, IsRow
    <3>. HIDE DEF new
    <3>3. RowValid(t, new[i])
      BY <3>1, <3>2, KeysAreNotValidated, SerialTables
    <3>. QED BY <3>2, <3>3
  <2>3. /\ \A i \in DOMAIN new : \A r \in d[t.name] : r[t.id] # new[i][t.id]
        /\ \A i, j \in DOMAIN new : i # j => new[j][t.id] # new[i][t.id]
    <3>. HIDE DEF new
    <3>1. {t.id} \in t.unique
      BY KeyIsIndexed
    <3>2. \A r, s : r[t.id] = s[t.id] => KeyOf(r, {t.id}) = KeyOf(s, {t.id})
      BY DEF KeyOf
    <3>. QED BY <1>2, <3>1, <3>2 DEF Unique
  <2>. HIDE DEF new
  <2>4. \A s \in S : IsRow(t, s) /\ References(d, t, s) /\ RowValid(t, s)
    BY <1>2, <2>2 DEF Sound, Consistent, Shaped, ReferencesResolve, AllValid
  <2>5. \A r, s \in S : r[t.id] = s[t.id] => r = s
    BY <2>3 DEF Sound, Consistent, KeysUnique
  <2>6. \A r \in d[t.name] : \E s \in S : s[t.id] = r[t.id]
    OBVIOUS
  <2>. HIDE DEF S
  <2>7. Consistent([d EXCEPT ![t.name] = S])
    BY <2>4, <2>5, <2>6, ChangeOneTable DEF Sound
  <2>8. AllValid([d EXCEPT ![t.name] = S])
    BY <2>4, ValidOneTable DEF Sound, Consistent
  <2>. QED BY <2>1, <2>7, <2>8 DEF Sound
<1>. QED BY <1>1, <1>2
\* A create builder asks for the INSERT only if its checks pass.
LEMMA CreateSound ==
    ASSUME NEW d, Sound(d), NEW t \in Tables, NEW fields, NEW m, NEW row,
           Valid(m, fields) => IsRow(t, row) /\ RowValid(t, row)
    PROVE  Sound(Create(d, t, fields, m, row).db)
<1>1. CASE ~Valid(m, fields)
  BY <1>1 DEF Create, Failed
<1>2. CASE Valid(m, fields)
  <2>1. \A i \in DOMAIN <<row>> : IsRow(t, <<row>>[i]) /\ RowValid(t, <<row>>[i])
    BY <1>2
  <2>2. Create(d, t, fields, m, row).db = Insert(d, t, <<row>>).db
    BY <1>2 DEF Create
  <2>. QED BY <2>1, <2>2, InsertSound
<1>. QED BY <1>1, <1>2

\* A bulk asks for it only if the checks of every builder pass.
LEMMA CreateBulkSound ==
    ASSUME NEW d, Sound(d), NEW t \in Tables, NEW fields, NEW ms, NEW rows,
           DOMAIN rows = DOMAIN ms,
           \A i \in DOMAIN ms : Valid(ms[i], fields) => IsRow(t, rows[i]) /\ RowValid(t, rows[i])
    PROVE  Sound(CreateBulk(d, t, fields, ms, rows).db)
<1>1. CASE ms = << >> \/ ~(\A i \in DOMAIN ms : Valid(ms[i], fields))
  BY <1>1 DEF CreateBulk, Failed, Done
<1>2. CASE ms # << >> /\ \A i \in DOMAIN ms : Valid(ms[i], fields)
  <2>1. \A i \in DOMAIN rows : IsRow(t, rows[i]) /\ RowValid(t, rows[i])
    BY <1>2
  <2>2. CreateBulk(d, t, fields, ms, rows).db = Insert(d, t, rows).db
    BY <1>2 DEF CreateBulk
  <2>. QED BY <2>1, <2>2, InsertSound
<1>. QED BY <1>1, <1>2

\* An UPDATE that keeps keys, references and what the validators look at.
LEMMA RewriteSound ==
    ASSUME NEW d, Sound(d), NEW t \in Tables, NEW g,
           \A r \in d[t.name] : /\ IsRow(t, g[r]) /\ RowValid(t, g[r])
                                 /\ g[r][t.id] = r[t.id]
                                 /\ References(d, t, g[r])
    PROVE  Sound([d EXCEPT ![t.name] = {g[r] : r \in d[t.name]}])
<1> DEFINE S == {g[r] : r \in d[t.name]}
<1>1. \A s \in S : IsRow(t, s) /\ References(d, t, s) /\ RowValid(t, s)
  OBVIOUS
<1>2. \A r, s \in S : r[t.id] = s[t.id] => r = s
  BY DEF Sound, Consistent, KeysUnique
<1>3. \A r \in d[t.name] : \E s \in S : s[t.id] = r[t.id]
  OBVIOUS
<1>. HIDE DEF S
<1>4. Consistent([d EXCEPT ![t.name] = S])
  BY <1>1, <1>2, <1>3, ChangeOneTable DEF Sound
<1>5. AllValid([d EXCEPT ![t.name] = S])
  BY <1>1, ValidOneTable DEF Sound, Consistent
<1>. QED BY <1>4, <1>5 DEF Sound, S

---------------------------------------------------------------------------
(* Builders                                                                *)

LEMMA RowOfIsRow == ASSUME NEW t, NEW m PROVE IsRow(t, RowOf(t, m))
  BY DEF IsRow, RowOf

\* The last setter decides.
LEMMA LastSetterDecides ==
    ASSUME NEW m, NEW values, NEW f \in DOMAIN values
    PROVE  f \in DOMAIN SetFields(m, values).set /\ SetFields(m, values).set[f] = values[f]
  BY DEF SetFields, Over

\* A column that a builder has to set is not NULL, and its validator has accepted it.
LEMMA ValidatedColumn ==
    ASSUME NEW t, NEW m, NEW fields, Valid(m, fields), NEW c \in t.columns,
           c \in fields.required \/ c \in DOMAIN m.set
    PROVE  /\ RowOf(t, m)[c] = m.set[c]
           /\ c \in fields.notEmpty => RowOf(t, m)[c] \notin Blank
           /\ c \in fields.positive => RowOf(t, m)[c] > 0
  BY DEF RowOf, Valid

LEMMA TransferRowValid ==
    ASSUME NEW m, Valid(m, TransferFields)
    PROVE  IsRow(TransfersTable, TransferSpec(m)) /\ RowValid(TransfersTable, TransferSpec(m))
<1>1. IsRow(TransfersTable, TransferSpec(m))
  BY RowOfIsRow DEF TransferSpec
<1>2. {"amount", "func", "token"} \subseteq TransfersTable.columns \cap TransferFields.required
  BY DEF TransfersTable, TransferColumns, TransferFields
<1>3. "amount" \in TransferFields.positive /\ {"func", "token"} \subseteq TransferFields.notEmpty
  BY DEF TransferFields
<1>4. TransferSpec(m).amount > 0 /\ TransferSpec(m).func \notin Blank
      /\ TransferSpec(m).token \notin Blank
  BY <1>2, <1>3, ValidatedColumn DEF TransferSpec
<1>5. TransfersTable # AccountsTable /\ TransfersTable # TransactionsTable
  BY DEF TransfersTable, AccountsTable, TransactionsTable
<1>. QED BY <1>1, <1>4, <1>5 DEF RowValid, Blank

LEMMA AccountRowValid ==
    ASSUME NEW id, NEW token, NEW amount,
           Valid(AccountCreate(id, token, amount), AccountFields)
    PROVE  LET row == AccountSpec(AccountCreate(id, token, amount))
           IN  IsRow(AccountsTable, row) /\ RowValid(AccountsTable, row)
<1> DEFINE m == AccountCreate(id, token, amount)
<1>1. IsRow(AccountsTable, AccountSpec(m))
  BY RowOfIsRow DEF AccountSpec
<1>2. "address" \in DOMAIN m.set
  <2> DEFINE v == [address |-> id, token |-> token, amount |-> Float(amount)]
  <2>1. "address" \in DOMAIN v
    OBVIOUS
  <2>2. m = SetFields(AccountMutation, v)
    BY DEF AccountCreate, SetAccountFields
  <2>. HIDE DEF v, m
  <2>. QED BY <2>1, <2>2, LastSetterDecides
<1>3. {"address", "token"} \subseteq AccountsTable.columns \cap AccountFields.notEmpty
      /\ "token" \in AccountFields.required
  BY DEF AccountsTable, AccountColumns, AccountFields
<1>. HIDE DEF m
<1>4. AccountSpec(m).address \notin Blank /\ AccountSpec(m).token \notin Blank
  BY <1>2, <1>3, ValidatedColumn DEF AccountSpec, m
<1>5. AccountsTable # TransfersTable /\ AccountsTable # TransactionsTable
  BY DEF TransfersTable, AccountsTable, TransactionsTable
<1>. QED BY <1>1, <1>4, <1>5 DEF RowValid, Blank, m

\* The edge to the block is the block number of the call, in whatever row.
LEMMA TransactionRowValid ==
    ASSUME NEW tx, NEW h, h # Null, NEW start
    PROVE  LET row == TransactionSpec(TransactionDefaults(TransactionCreate(tx, h, Now), start))
           IN  IsRow(TransactionsTable, row) /\ RowValid(TransactionsTable, row)
<1> DEFINE m == TransactionDefaults(TransactionCreate(tx, h, Now), start)
<1>1. IsRow(TransactionsTable, TransactionSpec(m))
  BY RowOfIsRow DEF TransactionSpec
<1>2. "block" \in DOMAIN TransactionCreate(tx, h, Now).set
      /\ TransactionCreate(tx, h, Now).set.block = h
  <2> DEFINE v == [response |-> tx.response, created_at |-> Now, block |-> h]
  <2>1. "block" \in DOMAIN v /\ v["block"] = h
    OBVIOUS
  <2>2. PICK n : TransactionCreate(tx, h, Now) = SetFields(n, v)
    BY DEF TransactionCreate, SetTransactionEdges
  <2>. HIDE DEF v
  <2>. QED BY <2>1, <2>2, LastSetterDecides
<1>3. m.set.block = h
  <2>1. m.set = Over(TransactionCreate(tx, h, Now).set, [success |-> FALSE, created_at |-> start])
    BY DEF TransactionDefaults, WithDefaults, TransactionCreate, SetTransactionEdges, SetFields
  <2>. HIDE DEF m
  <2>. QED BY <1>2, <2>1 DEF Over
<1>. HIDE DEF m
<1>4. SetFields(m, [block_transactions |-> m.set.block]).set.block_transactions = h
      /\ "block_transactions" \in DOMAIN SetFields(m, [block_transactions |-> m.set.block]).set
  <2> DEFINE v == [block_transactions |-> m.set.block]
  <2>1. "block_transactions" \in DOMAIN v /\ v["block_transactions"] = h
    BY <1>3
  <2>. HIDE DEF v
  <2>2. /\ SetFields(m, v).set["block_transactions"] = h
        /\ "block_transactions" \in DOMAIN SetFields(m, v).set
    BY <2>1, LastSetterDecides
  <2>. QED BY <2>2 DEF v
<1>5. TransactionSpec(m).block_transactions = h
  BY <1>4 DEF TransactionSpec, RowOf, TransactionsTable, TransactionColumns
<1>6. TransactionsTable # TransfersTable /\ AccountsTable # TransactionsTable
  BY DEF TransfersTable, AccountsTable, TransactionsTable
<1>. QED BY <1>1, <1>5, <1>6 DEF RowValid, m
---------------------------------------------------------------------------
(* The calls of the repositories                                           *)

LEMMA AddBlockSound == ASSUME NEW d, Sound(d), NEW b PROVE Sound(AddBlock(d, b).db)
<1> DEFINE m == BlockDefaults(BlockCreate(b, Now), Now)
<1>1. IsRow(BlocksTable, BlockSpec(m)) /\ RowValid(BlocksTable, BlockSpec(m))
  BY RowOfIsRow, OnlyThreeValidated DEF BlockSpec
<1>2. AddBlock(d, b).db = Create(d, BlocksTable, BlockFields, m, BlockSpec(m)).db
  BY DEF AddBlock, SaveBlock
<1>. HIDE DEF m
<1>3. BlocksTable \in Tables
  BY DEF Tables
<1>. QED BY <1>1, <1>2, <1>3, CreateSound

LEMMA AddBlocksSound == ASSUME NEW d, Sound(d), NEW bs PROVE Sound(AddBlocks(d, bs).db)
<1> DEFINE ms == [i \in DOMAIN bs |-> BlockDefaults(BlockCreate(bs[i], Now), Now)]
           rows == [i \in DOMAIN ms |-> BlockSpec(ms[i])]
<1>1. CASE bs = << >>
  BY <1>1 DEF AddBlocks
<1>2. CASE bs # << >>
  <2>1. AddBlocks(d, bs).db = CreateBulk(d, BlocksTable, BlockFields, ms, rows).db
    BY <1>2 DEF AddBlocks, Written, SaveBlocks
  <2>2. DOMAIN rows = DOMAIN ms
    OBVIOUS
  <2>3. \A i \in DOMAIN ms : IsRow(BlocksTable, rows[i]) /\ RowValid(BlocksTable, rows[i])
    BY RowOfIsRow, OnlyThreeValidated DEF BlockSpec
  <2>4. BlocksTable \in Tables
    BY DEF Tables
  <2>. HIDE DEF ms, rows
  <2>. QED BY <2>1, <2>2, <2>3, <2>4, CreateBulkSound
<1>. QED BY <1>1, <1>2

LEMMA AddTransactionSound ==
    ASSUME NEW d, Sound(d), NEW h, h # Null, NEW tx PROVE Sound(AddTransaction(d, h, tx).db)
<1> DEFINE m == TransactionDefaults(NewTransaction(h, tx), Now)
<1>1. /\ IsRow(TransactionsTable, TransactionSpec(m))
      /\ RowValid(TransactionsTable, TransactionSpec(m))
  BY TransactionRowValid DEF NewTransaction
<1>2. AddTransaction(d, h, tx).db
        = Create(d, TransactionsTable, TransactionFields, m, TransactionSpec(m)).db
  BY DEF AddTransaction, Written, SaveTransaction
<1>. HIDE DEF m
<1>3. TransactionsTable \in Tables
  BY DEF Tables
<1>. QED BY <1>1, <1>2, <1>3, CreateSound

LEMMA AddTransactionsSound ==
    ASSUME NEW d, Sound(d), NEW h, h # Null, NEW txs
    PROVE  Sound(AddTransactions(d, h, txs).db)
<1> DEFINE ms == [i \in DOMAIN txs |-> TransactionDefaults(NewTransaction(h, txs[i]), Now)]
           rows == [i \in DOMAIN ms |-> TransactionSpec(ms[i])]
<1>1. CASE txs = << >>
  BY <1>1 DEF AddTransactions
<1>2. CASE txs # << >>
  <2>1. AddTransactions(d, h, txs).db
          = CreateBulk(d, TransactionsTable, TransactionFields, ms, rows).db
    BY <1>2 DEF AddTransactions, SaveTransactions
  <2>2. DOMAIN rows = DOMAIN ms
    OBVIOUS
  <2>3. \A i \in DOMAIN ms :
          IsRow(TransactionsTable, rows[i]) /\ RowValid(TransactionsTable, rows[i])
    BY TransactionRowValid DEF NewTransaction
  <2>4. TransactionsTable \in Tables
    BY DEF Tables
  <2>. HIDE DEF ms, rows
  <2>. QED BY <2>1, <2>2, <2>3, <2>4, CreateBulkSound
<1>. QED BY <1>1, <1>2

LEMMA AddAccountSound == ASSUME NEW d, Sound(d), NEW a PROVE Sound(AddAccount(d, a).db)
<1> DEFINE m == AccountCreate(a.address, a.token, a.amount)
<1>1. Valid(m, AccountFields) => IsRow(AccountsTable, AccountSpec(m))
                                 /\ RowValid(AccountsTable, AccountSpec(m))
  BY AccountRowValid
<1>2. AddAccount(d, a).db = Create(d, AccountsTable, AccountFields, m, AccountSpec(m)).db
  BY DEF AddAccount, Written, SaveAccount
<1>. HIDE DEF m
<1>3. AccountsTable \in Tables
  BY DEF Tables
<1>. QED BY <1>1, <1>2, <1>3, CreateSound

LEMMA AddTransferSound ==
    ASSUME NEW d, Sound(d), NEW tx, NEW t PROVE Sound(AddTransfer(d, tx, t).db)
<1> DEFINE m == TransferDefaults(NewTransfer(tx.hash, t), Now)
<1>1. Valid(m, TransferFields) => IsRow(TransfersTable, TransferSpec(m))
                                  /\ RowValid(TransfersTable, TransferSpec(m))
  BY TransferRowValid
<1>2. AddTransfer(d, tx, t).db = Create(d, TransfersTable, TransferFields, m, TransferSpec(m)).db
  BY DEF AddTransfer, Written, SaveTransfer
<1>. HIDE DEF m
<1>3. TransfersTable \in Tables
  BY DEF Tables
<1>. QED BY <1>1, <1>2, <1>3, CreateSound

LEMMA AddTransfersSound ==
    ASSUME NEW d, Sound(d), NEW tx, NEW ts PROVE Sound(AddTransfers(d, tx, ts).db)
<1> DEFINE ms == [i \in DOMAIN ts |-> TransferDefaults(NewTransfer(tx.hash, ts[i]), Now)]
           rows == [i \in DOMAIN ms |-> TransferSpec(ms[i])]
<1>1. AddTransfers(d, tx, ts).db = CreateBulk(d, TransfersTable, TransferFields,
          [i \in DOMAIN ts |-> TransferDefaults(NewTransfer(tx.hash, ts[i]), Now)], rows).db
  <2>1. SaveTransfers(d, [i \in DOMAIN ts |-> NewTransfer(tx.hash, ts[i])], Now)
          = CreateBulk(d, TransfersTable, TransferFields, ms, rows)
    BY DEF SaveTransfers
  <2>. QED BY <2>1 DEF AddTransfers, Written
<1>2. DOMAIN rows = DOMAIN ms
  OBVIOUS
<1>3. \A i \in DOMAIN ms : Valid(ms[i], TransferFields) => IsRow(TransfersTable, rows[i])
                                                          /\ RowValid(TransfersTable, rows[i])
  BY TransferRowValid
<1>4. TransfersTable \in Tables
  BY DEF Tables
<1>. HIDE DEF rows
<1>. QED BY <1>1, <1>2, <1>3, <1>4, CreateBulkSound

Incremented(r, address, token, n) ==
    IF r.address = address /\ r.token = token
      THEN [r EXCEPT !.amount = Float(r.amount + Float(Float(n)))] ELSE r
IncrementedRows(d, address, token, n) == {Incremented(r, address, token, n) : r \in d.accounts}

\* IncrementAccountBalance adds to the amounts of the rows of its address and token.
LEMMA IncrementDoes ==
    ASSUME NEW d, Sound(d), NEW address, NEW token, NEW n
    PROVE  IncrementAccountBalance(d, address, token, n) =
             [db |-> [d EXCEPT !.accounts = IncrementedRows(d, address, token, n)],
              err |-> "none"]
<1> DEFINE u == AccountUpdate({AccountIDEQ(address), AccountTokenEQ(token)}, Float(n))
           m == u.mutation
           x == Float(Float(n))
           old == Matching(d, AccountsTable, Where(NewQuery, u.where))
           new == {UpdatedAccount(r, m) : r \in old}
<1>1. m.set = << >> /\ m.add = [f \in {"amount"} |-> x]
  BY DEF AccountUpdate, AddAccountAmount, AddToField, AccountMutation, NewMutation, Over
<1>2. u.where = {AccountIDEQ(address), AccountTokenEQ(token)}
  BY DEF AccountUpdate
<1>3. IncrementAccountBalance(d, address, token, n) = Written(SaveAccountUpdate(d, u))
  BY DEF IncrementAccountBalance
<1>4. Valid(m, [AccountFields EXCEPT !.required = {}])
  BY <1>1 DEF Valid, AccountFields
<1>. HIDE DEF u, x
<1>5. SaveAccountUpdate(d, u) = Done([d EXCEPT !.accounts = (@ \ old) \cup new], << >>)
  BY <1>4 DEF SaveAccountUpdate
<1>6. old = {r \in d.accounts : r.address = address /\ r.token = token}
  <2>1. Where(NewQuery, u.where).where
          = {[column |-> "address", value |-> address], [column |-> "token", value |-> token]}
    BY <1>2 DEF Where, NewQuery, AccountIDEQ, AccountTokenEQ, EQ
  <2>2. AccountsTable.name = "accounts"
    BY DEF AccountsTable
  <2> DEFINE q == Where(NewQuery, u.where)
  <2>3. \A r : (\A p \in q.where : r[p.column] = p.value)
               <=> r.address = address /\ r.token = token
    BY <2>1
  <2>. HIDE DEF q
  <2>4. Matching(d, AccountsTable, q)
          = {r \in d.accounts : r.address = address /\ r.token = token}
    BY <2>2, <2>3 DEF Matching
  <2>. QED BY <2>4 DEF q
<1>7. ASSUME NEW r \in old PROVE UpdatedAccount(r, m) = [r EXCEPT !.amount = Float(r.amount + x)]
  <2>1. r \in d.accounts
    BY <1>6
  <2>2. r = [c \in AccountColumns |-> r[c]]
    <3>1. IsRow(AccountsTable, r)
      BY <2>1 DEF Sound, Consistent, Shaped, Tables, AccountsTable
    <3>. QED BY <3>1 DEF IsRow, AccountsTable
  <2>3. UpdatedAccount(r, m)
          = [c \in AccountColumns |-> IF c = "amount" THEN Float(r.amount + x) ELSE r[c]]
    <3>1. DOMAIN r = AccountColumns
      BY <2>2
    <3>2. DOMAIN m.set = {} /\ DOMAIN m.add = {"amount"} /\ m.add["amount"] = x
      BY <1>1
    <3>. HIDE DEF m
    <3>. QED BY <3>1, <3>2 DEF UpdatedAccount
  <2>. QED BY <2>2, <2>3
<1>. HIDE DEF m
<1>8. (d.accounts \ old) \cup new = IncrementedRows(d, address, token, n)
  <2> DEFINE Inc(r) == [r EXCEPT !.amount = Float(r.amount + x)]
  <2>1. new = {Inc(r) : r \in old}
    BY <1>7
  <2>2. \A r \in d.accounts : Incremented(r, address, token, n) = IF r \in old THEN Inc(r) ELSE r
    BY <1>6 DEF Incremented, x
  <2>. HIDE DEF Inc, old, new
  <2>3. old \subseteq d.accounts
    BY <1>6 DEF old
  <2>. QED BY <2>1, <2>2, <2>3 DEF IncrementedRows
<1>. HIDE DEF old, new
<1>9. \A e : Written(Done(e, << >>)) = [db |-> e, err |-> "none"]
  BY DEF Written, Done
<1> DEFINE e == [d EXCEPT !.accounts = IncrementedRows(d, address, token, n)]
<1>10. SaveAccountUpdate(d, u) = Done(e, << >>)
  BY <1>5, <1>8
<1>. HIDE DEF e
<1>11. IncrementAccountBalance(d, address, token, n) = [db |-> e, err |-> "none"]
  BY <1>3, <1>9, <1>10
<1>. QED BY <1>11 DEF e

LEMMA IncrementSound ==
    ASSUME NEW d, Sound(d), NEW address, NEW token, NEW n
    PROVE  Sound(IncrementAccountBalance(d, address, token, n).db)
<1> DEFINE t == AccountsTable
           g == [r \in d.accounts |-> Incremented(r, address, token, n)]
<1>1. t \in Tables /\ t.name = "accounts" /\ t.id = "address" /\ t.foreign = {}
      /\ t.columns = {"address", "token", "amount"} /\ t # TransfersTable /\ t # TransactionsTable
  BY DEF Tables, AccountsTable, AccountColumns, TransfersTable, TransactionsTable
<1>2. ASSUME NEW r \in d.accounts
      PROVE  /\ IsRow(t, g[r]) /\ RowValid(t, g[r])
             /\ g[r].address = r.address /\ References(d, t, g[r])
  <2> DEFINE s == Incremented(r, address, token, n)
  <2>1. IsRow(t, r) /\ RowValid(t, r)
    BY <1>1 DEF Sound, Consistent, Shaped, AllValid
  <2>2. IsRow(t, s) /\ s.address = r.address /\ s.token = r.token
    BY <1>1, <2>1 DEF IsRow, Incremented
  <2>. HIDE DEF s
  <2>3. RowValid(t, s)
    <3>1. r.address # NoAddress /\ r.token # NoToken
      BY <2>1 DEF RowValid
    <3>. QED BY <1>1, <2>2, <3>1 DEF RowValid
  <2>4. References(d, t, s) /\ g[r] = s
    BY <1>1 DEF References, s
  <2>. QED BY <2>2, <2>3, <2>4
<1>3. {g[r] : r \in d.accounts} = IncrementedRows(d, address, token, n)
  BY DEF IncrementedRows
<1>. HIDE DEF g
<1>4. Sound([d EXCEPT ![t.name] = {g[r] : r \in d[t.name]}])
  BY <1>1, <1>2, RewriteSound
<1>. HIDE DEF t
<1>5. Sound([d EXCEPT !.accounts = IncrementedRows(d, address, token, n)])
  BY <1>1, <1>3, <1>4
<1>. QED BY <1>5, IncrementDoes

\* The columns that the upsert updates, and the row it sends.
RestoreColumns == {"restore_range_start", "restore_range_end", "being_block"}
RestoreRow(start, end) == RestoreHistorySpec(RestoreHistoryCreate(1, start, end, 0))
Restored(r, row) ==
    IF KeyOf(r, {"id"}) = KeyOf(row, {"id"})
      THEN [c \in DOMAIN r |-> IF c \in RestoreColumns THEN row[c] ELSE r[c]] ELSE r
RestoredRows(d, row) == {Restored(r, row) : r \in d.restore_histories}

LEMMA RestoreUpserts ==
    ASSUME NEW d, NEW start, NEW end
    PROVE  SaveRestoringHistory(d, start, end).db =
             Upsert(d, RestoreHistoriesTable, RestoreHistoryFields,
                    RestoreHistoryCreate(1, start, end, 0), RestoreRow(start, end),
                    {"id"}, RestoreColumns).db
<1> DEFINE m == RestoreHistoryCreate(1, start, end, 0)
<1>. HIDE DEF m
<1> DEFINE u == UpdateRestoreColumns(OnConflictColumns(m, {"id"}))
<1>1. u = [mutation |-> m, target |-> {"id"}, update |-> RestoreColumns]
  <2> DEFINE Updating(s) == [mutation |-> m, target |-> {"id"}, update |-> s]
  <2>1. \A s, c : UpdateColumn(Updating(s), c) = Updating(s \cup {c})
    BY DEF UpdateColumn
  <2>2. OnConflictColumns(m, {"id"}) = Updating({})
    BY DEF OnConflictColumns
  <2> DEFINE one == {} \cup {"restore_range_start"}
             two == one \cup {"restore_range_end"}
             three == two \cup {"being_block"}
  <2>3. three = RestoreColumns
    BY DEF RestoreColumns
  <2>. HIDE DEF Updating
  <2>4. UpdateColumn(Updating({}), "restore_range_start") = Updating(one)
    BY <2>1
  <2>. HIDE DEF one
  <2>5. UpdateColumn(Updating(one), "restore_range_end") = Updating(two)
    BY <2>1
  <2>. HIDE DEF two
  <2>6. UpdateColumn(Updating(two), "being_block") = Updating(three)
    BY <2>1
  <2>. HIDE DEF three
  <2>7. u = Updating(three)
    BY <2>2, <2>4, <2>5, <2>6 DEF UpdateRestoreColumns
  <2>. QED BY <2>3, <2>7 DEF Updating
<1>2. SaveRestoringHistory(d, start, end).db = ExecRestoreHistoryUpsert(d, u).db
  BY DEF SaveRestoringHistory, Written, m
<1>. HIDE DEF u
<1>3. u.target # {} /\ u.mutation = m /\ u.target = {"id"} /\ u.update = RestoreColumns
  BY <1>1
<1>. QED BY <1>2, <1>3 DEF ExecRestoreHistoryUpsert, RestoreRow, m

\* It inserts its row, or rewrites the row that has its key.
LEMMA RestoreDoes ==
    ASSUME NEW d, NEW start, NEW end
    PROVE  SaveRestoringHistory(d, start, end).db \in
             {d, Insert(d, RestoreHistoriesTable, <<RestoreRow(start, end)>>).db,
              [d EXCEPT !.restore_histories = RestoredRows(d, RestoreRow(start, end))]}
<1> DEFINE t == RestoreHistoriesTable
           m == RestoreHistoryCreate(1, start, end, 0)
           row == RestoreRow(start, end)
           old == {r \in d[t.name] : KeyOf(r, {"id"}) = KeyOf(row, {"id"})}
           Updated(r) == [c \in DOMAIN r |-> IF c \in RestoreColumns THEN row[c] ELSE r[c]]
           S == (d[t.name] \ old) \cup {Updated(r) : r \in old}
<1>1. t.name = "restore_histories"
  BY DEF RestoreHistoriesTable
<1>. HIDE DEF m, row, t
<1>2. Upsert(d, t, RestoreHistoryFields, m, row, {"id"}, RestoreColumns).db
        \in {d, Insert(d, t, <<row>>).db, [d EXCEPT ![t.name] = S]}
  BY DEF Upsert, Failed, Done
<1>3. S = RestoredRows(d, row)
  BY <1>1 DEF RestoredRows, Restored
<1>. HIDE DEF S
<1>. QED BY <1>1, <1>2, <1>3, RestoreUpserts DEF t, m, row

LEMMA SaveRestoringHistorySound ==
    ASSUME NEW d, Sound(d), NEW start, NEW end
    PROVE  Sound(SaveRestoringHistory(d, start, end).db)
<1> DEFINE t == RestoreHistoriesTable
           row == RestoreRow(start, end)
           g == [r \in d[t.name] |-> Restored(r, row)]
           e == [d EXCEPT !.restore_histories = RestoredRows(d, row)]
<1>1. t \in Tables /\ t.id = "id" /\ t.foreign = {} /\ t.columns = RestoreColumns \cup {"id"}
      /\ t.name = "restore_histories"
  BY DEF Tables, RestoreHistoriesTable, RestoreHistoryColumns, RestoreColumns
<1>2. IsRow(t, row)
  BY RowOfIsRow DEF RestoreHistorySpec, RestoreRow
<1>. HIDE DEF row, t
<1>3. Sound(Insert(d, t, <<row>>).db)
  <2>1. \A i \in DOMAIN <<row>> : IsRow(t, <<row>>[i]) /\ RowValid(t, <<row>>[i])
    BY <1>2, OnlyThreeValidated DEF t
  <2>. QED BY <1>1, <2>1, InsertSound
<1>4. Sound(e)
  <2>1. ASSUME NEW r \in d[t.name]
        PROVE  /\ IsRow(t, g[r]) /\ RowValid(t, g[r])
               /\ g[r][t.id] = r[t.id] /\ References(d, t, g[r])
    <3>1. IsRow(t, r)
      BY <1>1 DEF Sound, Consistent, Shaped
    <3>2. DOMAIN r = RestoreColumns \cup {"id"} /\ "id" \notin RestoreColumns
      BY <1>1, <3>1 DEF IsRow, RestoreColumns
    <3>3. IsRow(t, g[r]) /\ g[r][t.id] = r[t.id]
      BY <1>1, <3>1, <3>2 DEF IsRow, Restored
    <3>4. RowValid(t, g[r]) /\ References(d, t, g[r])
      BY <1>1, OnlyThreeValidated DEF References, t
    <3>. QED BY <3>3, <3>4
  <2>2. {g[r] : r \in d[t.name]} = RestoredRows(d, row)
    BY <1>1 DEF RestoredRows
  <2>. HIDE DEF g
  <2>3. Sound([d EXCEPT ![t.name] = {g[r] : r \in d[t.name]}])
    BY <1>1, <2>1, RewriteSound
  <2>. QED BY <1>1, <2>2, <2>3
<1>. HIDE DEF e
<1>5. SaveRestoringHistory(d, start, end).db \in {d, Insert(d, t, <<row>>).db, e}
  BY RestoreDoes DEF e, t, row
<1>. QED BY <1>3, <1>4, <1>5

---------------------------------------------------------------------------
(* The specification                                                       *)

LEMMA SoundMeansValid == ASSUME Sound(db) PROVE RowsAreValid
<1>1. KeysUnique(db) /\ ReferencesResolve(db)
  BY DEF Sound, Consistent
<1>2. /\ \A r \in db.accounts : RowValid(AccountsTable, r)
      /\ \A r \in db.transfers : RowValid(TransfersTable, r)
      /\ \A r \in db.transactions : RowValid(TransactionsTable, r)
  BY DEF Sound, AllValid, Tables, AccountsTable, TransfersTable, TransactionsTable
<1>3. ValidatorsHold(db)
  BY <1>2 DEF ValidatorsHold, RowValid
<1>. QED BY <1>1, <1>3 DEF RowsAreValid

LEMMA TablesInit == Init => TablesInv
<1> SUFFICES ASSUME Init PROVE TablesInv
  OBVIOUS
<1>1. IsLoad(load) /\ Null \notin load.calls.heights
  BY LoadsAssumption, CallsAssumption, NullIsNoInteger DEF Init, AreCalls
<1>2. \A t \in Tables : db[t.name] = {}
  BY DEF Init, NewRepositoryEnt, Tables, AccountsTable, BlocksTable, TransactionsTable,
         TransfersTable, RestoreHistoriesTable
<1>3. Names = {"accounts", "blocks", "restore_histories", "transactions", "transfers"}
  BY DEF Names, Tables, AccountsTable, BlocksTable, TransactionsTable, TransfersTable,
         RestoreHistoriesTable
<1>4. IsDb(db)
  BY <1>3 DEF IsDb, Init, NewRepositoryEnt
<1>5. Sound(db)
  BY <1>2, <1>4 DEF Sound, Consistent, Shaped, KeysUnique, ReferencesResolve, AllValid
<1>. QED BY <1>1, <1>5 DEF TablesInv

\* A call counts against the bound, and is otherwise whatever it is.
LEMMA TablesWriteStep ==
    ASSUME TablesInv, NEW d, NEW l, Write(d, l), Sound(d) PROVE TablesInv'
<1>1. IsLoad(load)' /\ load'.calls = load.calls
  BY DEF Write, TablesInv, IsLoad
<1>2. Sound(db')
  BY DEF Write
<1>3. Sound(db)'
  BY <1>2 DEF Sound, Consistent, IsDb, Shaped, IsRow, KeysUnique, ReferencesResolve,
              References, AllValid, RowValid
<1>. QED BY <1>1, <1>3 DEF TablesInv

LEMMA TablesFrame == ASSUME TablesInv, UNCHANGED <<db, load>> PROVE TablesInv'
  BY DEF TablesInv, IsLoad, Sound, Consistent, IsDb, Shaped, IsRow, KeysUnique,
         ReferencesResolve, References, AllValid, RowValid

LEMMA TablesStep == ASSUME TablesInv, [Next]_vars PROVE TablesInv'
<1>0. Sound(db) /\ Null \notin load.calls.heights
  BY DEF TablesInv
<1>1. CASE UNCHANGED vars
  BY <1>1, TablesFrame DEF vars
<1>2. CASE \E c \in Clients : Hit(c) \/ Miss(c) \/ Handle(c) \/ Respond(c) \/ Leave(c)
  BY <1>2, TablesFrame DEF Hit, Miss, Handle, Respond, Leave
<1>3. CASE Evict \/ Tick
  BY <1>3, TablesFrame DEF Evict, Tick
<1>4. CASE WriteBlock \/ WriteBlocks
  BY <1>0, <1>4, AddBlockSound, AddBlocksSound, TablesWriteStep DEF WriteBlock, WriteBlocks
<1>5. CASE WriteTransaction
  <2>1. PICK h \in load.calls.heights : \E tx \in load.calls.transactions :
            Write(AddTransaction(db, h, tx).db, ledger)
    BY <1>5 DEF WriteTransaction
  <2>. QED BY <1>0, <2>1, AddTransactionSound, TablesWriteStep
<1>6. CASE WriteTransactions
  <2>1. PICK h \in load.calls.heights : \E txs \in load.calls.transactionBatches :
            Write(AddTransactions(db, h, txs).db, ledger)
    BY <1>6 DEF WriteTransactions
  <2>. QED BY <1>0, <2>1, AddTransactionsSound, TablesWriteStep
<1>7. CASE WriteAccount
  BY <1>0, <1>7, AddAccountSound, TablesWriteStep DEF WriteAccount
<1>8. CASE WriteBalance
  <2>1. PICK a, n, l : Write(IncrementAccountBalance(db, a.address, a.token, n).db, l)
    BY <1>8 DEF WriteBalance
  <2>. QED BY <1>0, <2>1, IncrementSound, TablesWriteStep
<1>9. CASE WriteTransfer \/ WriteTransfers
  BY <1>0, <1>9, AddTransferSound, AddTransfersSound, TablesWriteStep DEF WriteTransfer, WriteTransfers
<1>10. CASE WriteRestore
  BY <1>0, <1>10, SaveRestoringHistorySound, TablesWriteStep DEF WriteRestore
<1>. QED BY <1>1, <1>2, <1>3, <1>4, <1>5, <1>6, <1>7, <1>8, <1>9, <1>10 DEF Next

\* Whatever the repositories of the event processor and the block synchronizer are called
\* with (repository_ent.go, through the create, bulk, update and upsert builders of
\* src/ent), the tables keep unique keys and resolved references, and no row gets past
\* the validators of ent/schema.
THEOREM TablesStaySound == Spec => []RowsAreValid
<1>1. Init => TablesInv
  BY TablesInit
<1>2. TablesInv /\ [Next]_vars => TablesInv'
  BY TablesStep
<1>3. TablesInv => RowsAreValid
  BY SoundMeansValid DEF TablesInv
<1>. QED BY <1>1, <1>2, <1>3, PTL DEF Spec

---------------------------------------------------------------------------
(* Powers of two                                                           *)

\* A set of naturals has a least one.
LEMMA LeastNatural ==
    ASSUME NEW T \in SUBSET Nat, T # {} PROVE \E x \in T : \A y \in T : x <= y
<1>1. PICK x \in T : \A y \in T : <<y, x>> \notin OpToRel(<, Nat)
  BY WFMin, NatLessThanWellFounded
<1>2. \A y \in T : ~(y < x)
  BY <1>1 DEF OpToRel
<1>3. \A y \in T : y \in Nat /\ x \in Nat
  OBVIOUS
<1>4. \A y \in T : x <= y
  BY <1>2, <1>3
<1>. QED BY <1>4

\* 2^n counts the subsets of a set of n elements; this is where its laws come from.
LEMMA PowerCounts ==
    ASSUME NEW n \in Nat
    PROVE  /\ IsFiniteSet(SUBSET (1 .. n)) /\ Cardinality(SUBSET (1 .. n)) = 2^n
           /\ 2^n \in Nat /\ 2^n > 0
<1>1. IsFiniteSet(1 .. n) /\ Cardinality(1 .. n) = n
  BY FS_Interval
<1>2. IsFiniteSet(SUBSET (1 .. n)) /\ Cardinality(SUBSET (1 .. n)) = 2^n
  BY <1>1, FS_SUBSET
<1>3. Cardinality(SUBSET (1 .. n)) \in Nat /\ Cardinality(SUBSET (1 .. n)) # 0
  BY <1>2, FS_CardinalityType, FS_EmptySet
<1>. QED BY <1>2, <1>3

LEMMA PowerOfZero == 2^0 = 1
<1>1. 1 .. 0 = {} /\ SUBSET (1 .. 0) = {{}}
  OBVIOUS
<1>2. Cardinality(SUBSET (1 .. 0)) = 1
  BY <1>1, FS_Singleton
<1>. QED BY <1>2, PowerCounts

LEMMA PowerDoubles == ASSUME NEW n \in Nat PROVE 2^(n + 1) = 2 * 2^n
<1> DEFINE A == SUBSET (1 .. n)
           B == {s \cup {n + 1} : s \in A}
           g == [s \in A |-> s \cup {n + 1}]
<1>1. SUBSET (1 .. (n + 1)) = A \cup B
  <2>1. ASSUME NEW s \in SUBSET (1 .. (n + 1)) PROVE s \in A \cup B
    <3>1. CASE n + 1 \notin s
      BY <3>1
    <3>2. CASE n + 1 \in s
      <4>1. s \ {n + 1} \in A /\ s = (s \ {n + 1}) \cup {n + 1}
        BY <3>2
      <4>. QED BY <4>1
    <3>. QED BY <3>1, <3>2
  <2>2. 1 .. n \subseteq 1 .. (n + 1) /\ n + 1 \in 1 .. (n + 1)
    OBVIOUS
  <2>3. A \cup B \subseteq SUBSET (1 .. (n + 1))
    BY <2>2
  <2>. QED BY <2>1, <2>3
<1>2. A \cap B = {}
  <2>1. n + 1 \notin 1 .. n
    OBVIOUS
  <2>. QED BY <2>1
<1>3. IsFiniteSet(B) /\ Cardinality(B) = Cardinality(A)
  <2>1. n + 1 \notin 1 .. n
    OBVIOUS
  <2>2. \A s, u \in A : g[s] = g[u] => s = u
    <3> SUFFICES ASSUME NEW s \in A, NEW u \in A, s \cup {n + 1} = u \cup {n + 1} PROVE s = u
      OBVIOUS
    <3>1. n + 1 \notin s /\ n + 1 \notin u
      BY <2>1
    <3>. QED BY <3>1
  <2>3. g \in [A -> B] /\ \A b \in B : \E s \in A : g[s] = b
    OBVIOUS
  <2>. HIDE DEF g, A, B
  <2>4. g \in Bijection(A, B)
    BY <2>2, <2>3 DEF Bijection, Injection, Surjection, IsInjective
  <2>5. ExistsBijection(A, B)
    BY <2>4 DEF ExistsBijection
  <2>6. IsFiniteSet(A)
    BY PowerCounts DEF A
  <2>. QED BY <2>5, <2>6, FS_Bijection
<1>. HIDE DEF A, B
<1>4. Cardinality(A) = 2^n /\ IsFiniteSet(A) /\ 2^n \in Nat
  BY PowerCounts DEF A
<1>5. Cardinality(A \cup B) = 2^(n + 1)
  <2>1. n + 1 \in Nat
    OBVIOUS
  <2>. QED BY <1>1, <2>1, PowerCounts
<1>6. Cardinality(A \cup B) = Cardinality(A) + Cardinality(B) - Cardinality({})
  BY <1>2, <1>3, <1>4, FS_Union
<1>. QED BY <1>3, <1>4, <1>5, <1>6, FS_EmptySet

LEMMA PowerGrows == ASSUME NEW m \in Nat, NEW n \in Nat, m <= n PROVE 2^m <= 2^n
<1> DEFINE A == SUBSET (1 .. m)
           B == SUBSET (1 .. n)
<1>1. A \in SUBSET B
  <2>1. 1 .. m \subseteq 1 .. n
    OBVIOUS
  <2>. QED BY <2>1
<1>2. IsFiniteSet(B) /\ Cardinality(B) = 2^n /\ Cardinality(A) = 2^m
  BY PowerCounts
<1>. HIDE DEF A, B
<1>. QED BY <1>1, <1>2, FS_Subset

LEMMA PowerGrowsStrictly == ASSUME NEW m \in Nat, NEW n \in Nat, m < n PROVE 2^m < 2^n
<1>1. m + 1 \in Nat /\ m + 1 <= n
  OBVIOUS
<1> DEFINE p == 2^m
           q == 2^n
           r == 2^(m + 1)
<1>2. r <= q
  BY <1>1, PowerGrows
<1>3. p \in Nat /\ p > 0 /\ q \in Nat /\ r = 2 * p
  BY PowerCounts, PowerDoubles
<1>. HIDE DEF p, q, r
<1>4. p < q
  BY <1>2, <1>3
<1>. QED BY <1>4 DEF p, q

LEMMA PowerExceeds == ASSUME NEW n \in Nat PROVE n < 2^n
<1> DEFINE T == {k \in Nat : ~(k < 2^k)}
<1> SUFFICES ASSUME T # {} PROVE FALSE
  OBVIOUS
<1>0. T \in SUBSET Nat
  OBVIOUS
<1>. HIDE DEF T
<1>1. PICK k \in T : \A j \in T : k <= j
  BY <1>0, LeastNatural
<1>2. k \in Nat /\ ~(k < 2^k)
  BY DEF T
<1>3. k # 0
  <2>1. 0 < 2^0
    BY PowerOfZero
  <2>. QED BY <1>2, <2>1, Zenon
<1> DEFINE j == k - 1
<1>4. j \in Nat /\ j + 1 = k /\ ~(k <= j)
  BY <1>2, <1>3
<1>5. j < 2^j
  BY <1>1, <1>4 DEF T
<1>6. 2^j \in Nat /\ 2^(j + 1) = 2 * 2^j
  BY <1>4, PowerCounts, PowerDoubles
<1> DEFINE p == 2^j
           q == 2^k
<1>7. q = 2 * p /\ p \in Nat /\ j < p /\ ~(k < q)
  BY <1>2, <1>4, <1>5, <1>6
<1>. HIDE DEF p, q, j
<1>. QED BY <1>2, <1>4, <1>7

---------------------------------------------------------------------------
(* Floats                                                                  *)

\* The condition Excess chooses by.
Fits(a, bits, k) == a < 2^(bits + k) /\ (k > 0 => a >= 2^(bits + k - 1))

LEMMA FitsExists ==
    ASSUME NEW a \in Nat, NEW bits \in Nat PROVE \E k \in 0 .. a : Fits(a, bits, k)
<1> DEFINE T == {k \in Nat : a < 2^(bits + k)}
<1>1. a \in T
  <2>1. a < 2^a /\ 2^a <= 2^(bits + a) /\ 2^a \in Nat /\ 2^(bits + a) \in Nat
    <3>1. bits + a \in Nat /\ a <= bits + a
      OBVIOUS
    <3>. QED BY <3>1, PowerExceeds, PowerGrows, PowerCounts
  <2>. QED BY <2>1
<1>2. T \in SUBSET Nat
  OBVIOUS
<1>. HIDE DEF T
<1>3. PICK k \in T : \A j \in T : k <= j
  BY <1>1, <1>2, LeastNatural
<1>4. k \in 0 .. a /\ k \in Nat
  BY <1>1, <1>2, <1>3
<1>5. a < 2^(bits + k)
  BY <1>3 DEF T
<1>6. ASSUME k > 0 PROVE a >= 2^(bits + k - 1)
  <2> DEFINE j == k - 1
  <2>1. j \in Nat /\ ~(k <= j) /\ bits + j = bits + k - 1 /\ bits + j \in Nat
    BY <1>4, <1>6
  <2>2. ~(a < 2^(bits + j))
    BY <1>3, <2>1 DEF T
  <2>3. 2^(bits + j) \in Nat /\ 2^(bits + j) = 2^(bits + k - 1)
    BY <2>1, PowerCounts
  <2>. HIDE DEF j
  <2>. QED BY <2>2, <2>3
<1>. QED BY <1>4, <1>5, <1>6 DEF Fits

LEMMA FitsIsUnique ==
    ASSUME NEW a \in Nat, NEW bits \in Nat, NEW j \in 0 .. a, NEW k \in 0 .. a,
           Fits(a, bits, j), Fits(a, bits, k), j < k
    PROVE  FALSE
<1> DEFINE m == bits + j
           n == bits + k - 1
<1>1. m \in Nat /\ n \in Nat /\ m <= n /\ k > 0
  OBVIOUS
<1>2. a < 2^m /\ a >= 2^n
  BY <1>1 DEF Fits
<1>. HIDE DEF m, n
<1>3. 2^m <= 2^n /\ 2^m \in Nat /\ 2^n \in Nat
  BY <1>1, PowerGrows, PowerCounts
<1>. QED BY <1>2, <1>3

LEMMA ExcessFits ==
    ASSUME NEW a \in Nat, NEW bits \in Nat
    PROVE  Excess(a, bits) \in 0 .. a /\ Fits(a, bits, Excess(a, bits))
<1>1. Excess(a, bits) = CHOOSE k \in 0 .. a : Fits(a, bits, k)
  BY DEF Excess, Fits
<1>2. \E k \in 0 .. a : Fits(a, bits, k)
  BY FitsExists
<1>. QED BY <1>1, <1>2

LEMMA ExcessIs ==
    ASSUME NEW a \in Nat, NEW bits \in Nat, NEW k \in 0 .. a, Fits(a, bits, k)
    PROVE  Excess(a, bits) = k
<1> DEFINE e == Excess(a, bits)
<1>1. e \in 0 .. a /\ Fits(a, bits, e)
  BY ExcessFits
<1>. HIDE DEF e
<1>2. ~(e < k) /\ ~(k < e)
  BY <1>1, FitsIsUnique
<1>3. e = k
  BY <1>1, <1>2
<1>. QED BY <1>3 DEF e

\* Rounding a magnitude a to a multiple of unit.
Rounding(a, unit) ==
    LET q == a \div unit
        r == 2 * (a % unit)
    IN  (IF r > unit \/ (r = unit /\ q % 2 = 1) THEN q + 1 ELSE q) * unit

LEMMA ToFloatRounds ==
    ASSUME NEW n, NEW bits
    PROVE  ToFloat(n, bits) =
             IF n < 0 THEN -Rounding(-n, 2^Excess(-n, bits))
             ELSE Rounding(n, 2^Excess(n, bits))
  BY DEF ToFloat, Rounding

LEMMA RoundingIsNatural ==
    ASSUME NEW a \in Nat, NEW unit \in Nat, unit > 0
    PROVE  Rounding(a, unit) \in Nat /\ (a >= unit => Rounding(a, unit) > 0)
<1> DEFINE q == a \div unit
           r == 2 * (a % unit)
           m == IF r > unit \/ (r = unit /\ q % 2 = 1) THEN q + 1 ELSE q
<1>1. q \in Nat /\ (a >= unit => q > 0)
  OBVIOUS
<1>2. Rounding(a, unit) = m * unit
  BY DEF Rounding
<1>3. m = q \/ m = q + 1
  OBVIOUS
<1>. HIDE DEF q, m
<1>4. m \in Nat /\ (a >= unit => m > 0)
  BY <1>1, <1>3
<1>5. m * unit \in Nat /\ (m > 0 => m * unit > 0)
  BY <1>4
<1>. QED BY <1>2, <1>4, <1>5

\* A magnitude that is not 0 keeps at least its leading bit.
LEMMA UnitIsBelow ==
    ASSUME NEW a \in Nat, NEW bits \in Nat \ {0}
    PROVE  /\ 2^Excess(a, bits) \in Nat /\ 2^Excess(a, bits) > 0
           /\ a > 0 => a >= 2^Excess(a, bits)
<1> DEFINE k == Excess(a, bits)
<1>1. k \in 0 .. a /\ Fits(a, bits, k)
  BY ExcessFits
<1>. HIDE DEF k
<1>2. k \in Nat
  BY <1>1
<1>5. 2^k \in Nat /\ 2^k > 0
  BY <1>2, PowerCounts
<1>3. CASE k = 0
  <2>1. 2^k = 1
    BY <1>3, PowerOfZero
  <2>. QED BY <1>2, <1>5, <2>1 DEF k
<1>4. CASE k > 0
  <2> DEFINE n == bits + k - 1
  <2>1. n \in Nat /\ k <= n
    BY <1>2
  <2>2. a >= 2^n
    BY <1>1, <1>4 DEF Fits
  <2>. HIDE DEF n
  <2>3. 2^k <= 2^n /\ 2^n \in Nat
    BY <1>2, <2>1, PowerGrows, PowerCounts
  <2>4. a >= 2^k
    BY <1>2, <1>5, <2>2, <2>3
  <2>. QED BY <1>5, <2>4 DEF k
<1>. QED BY <1>2, <1>3, <1>4

LEMMA FloatIsInteger ==
    ASSUME NEW n \in Int PROVE Float(n) \in Int /\ (n > 0 <=> Float(n) > 0)
<1> DEFINE a == IF n < 0 THEN -n ELSE n
           unit == 2^Excess(a, Mantissa)
           f == Rounding(a, unit)
<1>1. a \in Nat /\ Mantissa \in Nat \ {0} /\ (n < 0 => a = -n) /\ (~(n < 0) => a = n)
  BY MantissaIsPositive
<1>2. Float(n) = IF n < 0 THEN -f ELSE f
  BY <1>1, ToFloatRounds DEF Float
<1>. HIDE DEF a
<1>3. unit \in Nat /\ unit > 0 /\ (a > 0 => a >= unit)
  BY <1>1, UnitIsBelow
<1>. HIDE DEF unit
<1>4. f \in Nat /\ (a > 0 => f > 0)
  BY <1>1, <1>3, RoundingIsNatural
<1>5. a = 0 => f = 0
  <2>1. ASSUME a = 0 PROVE f = 0
    <3>1. a \div unit = 0 /\ a % unit = 0
      BY <1>3, <2>1
    <3>2. f = (IF 2 * 0 > unit \/ (2 * 0 = unit /\ 0 % 2 = 1) THEN 0 + 1 ELSE 0) * unit
      BY <3>1 DEF Rounding
    <3>3. ~(2 * 0 > unit) /\ 2 * 0 # unit
      BY <1>3
    <3>4. f = 0 * unit
      BY <3>2, <3>3
    <3>. QED BY <1>3, <3>4
  <2>. QED BY <2>1
<1>. HIDE DEF f
<1>. QED BY <1>1, <1>2, <1>4, <1>5

\* Up to 2^Mantissa no bit is dropped, or a last one that is 0.
LEMMA RoundingIsExact ==
    ASSUME NEW a \in Nat, NEW bits \in Nat \ {0}, a <= 2^bits
    PROVE  Rounding(a, 2^Excess(a, bits)) = a
<1>0. bits \in Nat /\ bits + 0 = bits /\ 2^bits \in Nat /\ 2^bits > 0
  <2>1. bits \in Nat /\ bits + 0 = bits
    OBVIOUS
  <2>. QED BY <2>1, PowerCounts
<1>1. CASE a < 2^bits
  <2>1. 0 \in 0 .. a /\ Fits(a, bits, 0)
    BY <1>0, <1>1 DEF Fits
  <2>2. Excess(a, bits) = 0
    BY <2>1, ExcessIs
  <2>3. a \div 1 = a /\ a % 1 = 0
    OBVIOUS
  <2>4. Rounding(a, 1) = (IF 2 * 0 > 1 \/ (2 * 0 = 1 /\ a % 2 = 1) THEN a + 1 ELSE a) * 1
    BY <2>3 DEF Rounding
  <2>5. Rounding(a, 1) = a
    BY <2>4
  <2>. QED BY <2>2, <2>5, PowerOfZero
<1>2. CASE a = 2^bits
  <2> DEFINE h == 2^(bits - 1)
  <2>1. bits - 1 \in Nat /\ (bits - 1) + 1 = bits
    OBVIOUS
  <2>2. h \in Nat /\ h > 0 /\ 2^((bits - 1) + 1) = 2 * h
    BY <2>1, PowerCounts, PowerDoubles
  <2>3. a = 2 * h
    BY <1>2, <2>1, <2>2
  <2>4. 2^(bits + 1) = 2 * a
    BY <1>2, PowerDoubles
  <2>5. bits + 1 - 1 = bits
    OBVIOUS
  <2>6. 1 \in 0 .. a /\ Fits(a, bits, 1)
    <3>1. 1 \in 0 .. a /\ a < 2^(bits + 1)
      BY <1>0, <1>2, <2>4
    <3>2. a >= 2^(bits + 1 - 1)
      BY <1>2, <2>5
    <3>. QED BY <3>1, <3>2 DEF Fits
  <2>7. Excess(a, bits) = 1
    BY <2>6, ExcessIs
  <2>8. 2^1 = 2
    BY PowerOfZero, PowerDoubles
  <2>. HIDE DEF h
  <2>9. a \div 2 = h /\ a % 2 = 0
    BY <2>2, <2>3
  <2>10. Rounding(a, 2) = (IF 2 * 0 > 2 \/ (2 * 0 = 2 /\ h % 2 = 1) THEN h + 1 ELSE h) * 2
    BY <2>9 DEF Rounding
  <2>11. Rounding(a, 2) = a
    BY <2>2, <2>3, <2>10
  <2>. QED BY <2>7, <2>8, <2>11
<1>. QED BY <1>0, <1>1, <1>2

LEMMA FloatIsExact ==
    ASSUME NEW n \in Int, n <= 2^Mantissa, -n <= 2^Mantissa PROVE Float(n) = n
<1> DEFINE a == IF n < 0 THEN -n ELSE n
<1>1. a \in Nat /\ Mantissa \in Nat \ {0} /\ a <= 2^Mantissa
      /\ (n < 0 => a = -n) /\ (~(n < 0) => a = n)
  BY MantissaIsPositive
<1> DEFINE f == Rounding(a, 2^Excess(a, Mantissa))
<1>2. Float(n) = IF n < 0 THEN -f ELSE f
  BY <1>1, ToFloatRounds DEF Float
<1>. HIDE DEF a
<1>3. f = a
  BY <1>1, RoundingIsExact
<1>. HIDE DEF f
<1>. QED BY <1>1, <1>2, <1>3

LEMMA PowerAdds == ASSUME NEW m \in Nat, NEW n \in Nat PROVE 2^(m + n) = 2^m * 2^n
<1> DEFINE T == {k \in Nat : 2^(m + k) # 2^m * 2^k}
<1> SUFFICES ASSUME T # {} PROVE FALSE
  <2>1. n \notin T => 2^(m + n) = 2^m * 2^n
    OBVIOUS
  <2>. QED BY <2>1
<1>0. T \in SUBSET Nat
  OBVIOUS
<1>. HIDE DEF T
<1>1. PICK k \in T : \A j \in T : k <= j
  BY <1>0, LeastNatural
<1>2. k \in Nat /\ 2^(m + k) # 2^m * 2^k
  BY DEF T
<1> DEFINE p == 2^m
<1>3. p \in Nat
  BY PowerCounts
<1>4. k # 0
  <2>1. m + 0 = m
    OBVIOUS
  <2>2. p * 1 = p
    BY <1>3
  <2>3. 2^(m + 0) = 2^m * 2^0
    BY <2>1, <2>2, PowerOfZero
  <2>. QED BY <1>2, <2>3, Zenon
<1> DEFINE j == k - 1
           q == 2^j
<1>5. j \in Nat /\ j + 1 = k /\ ~(k <= j)
  BY <1>2, <1>4
<1>6. 2^(m + j) = p * q
  BY <1>1, <1>5 DEF T
<1>7. m + j \in Nat /\ (m + j) + 1 = m + k
  BY <1>2, <1>5
<1>. HIDE DEF j
<1>8. 2^((m + j) + 1) = 2 * 2^(m + j) /\ 2^(j + 1) = 2 * q /\ q \in Nat
  BY <1>5, <1>7, PowerCounts, PowerDoubles
<1>. HIDE DEF p, q
<1>9. 2 * (p * q) = p * (2 * q)
  BY <1>3, <1>8
<1>10. 2^(m + k) = p * 2^k
  BY <1>5, <1>6, <1>7, <1>8, <1>9
<1>. QED BY <1>2, <1>10 DEF p

\* A multiple of the unit is not rounded.
LEMMA MultiplesStay ==
    ASSUME NEW q \in Nat, NEW unit \in Nat, unit > 0 PROVE Rounding(q * unit, unit) = q * unit
<1> DEFINE a == q * unit
           d == a \div unit
           r == a % unit
<1>1. a \in Nat /\ d \in Int /\ r \in Int /\ a = unit * d + r /\ 0 <= r /\ r < unit
  OBVIOUS
<1>. HIDE DEF d, r
<1>2. d = q
  <2>1. a = q * unit
    OBVIOUS
  <2>. HIDE DEF a
  <2>2. unit * q = unit * d + r
    BY <1>1, <2>1
  <2>3. unit * (q - d) = r
    BY <1>1, <2>2
  <2>4. CASE q - d >= 1
    <3>1. unit * (q - d) >= unit
      BY <1>1, <2>4
    <3>. QED BY <1>1, <2>3, <3>1
  <2>5. CASE q - d <= -1
    <3>1. unit * (q - d) <= -unit
      BY <1>1, <2>5
    <3>. QED BY <1>1, <2>3, <3>1
  <2>. QED BY <1>1, <2>4, <2>5
<1>3. r = 0
  <2>1. unit * q = q * unit /\ unit * q \in Int
    OBVIOUS
  <2> DEFINE x == unit * q
  <2>2. a = x
    BY <2>1
  <2>3. x = x + r
    BY <1>1, <1>2, <2>2
  <2>. HIDE DEF x
  <2>. QED BY <1>1, <2>1, <2>3 DEF x
<1>4. Rounding(a, unit) = (IF 2 * r > unit \/ (2 * r = unit /\ d % 2 = 1) THEN d + 1 ELSE d) * unit
  BY DEF Rounding, d, r
<1>5. ~(2 * r > unit) /\ 2 * r # unit
  BY <1>3
<1>. QED BY <1>2, <1>4, <1>5

\* The quotient of a magnitude that the unit fits has exactly bits bits.
LEMMA QuotientHasBits ==
    ASSUME NEW p \in Nat, NEW h \in Nat, NEW unit \in Nat, unit > 0, NEW a \in Nat,
           a < p * unit, a >= h * unit
    PROVE  a \div unit < p /\ a \div unit >= h /\ a \div unit \in Nat
<1> DEFINE d == a \div unit
           r == a % unit
<1>1. d \in Nat /\ r \in Int /\ a = unit * d + r /\ 0 <= r /\ r < unit
  OBVIOUS
<1>. HIDE DEF d, r
<1>2. d < p
  <2>1. CASE d >= p
    <3>1. unit * d >= unit * p
      BY <1>1, <2>1
    <3>2. unit * p = p * unit /\ unit * p \in Int /\ unit * d \in Int
      BY <1>1
    <3> DEFINE x == unit * d
               y == unit * p
               z == p * unit
    <3>3. x >= y /\ y = z /\ x \in Int /\ y \in Int /\ a < z /\ a = x + r
      BY <1>1, <3>1, <3>2
    <3>. HIDE DEF x, y, z
    <3>. QED BY <1>1, <3>3
  <2>. QED BY <1>1, <2>1
<1>3. d >= h
  <2>1. CASE d + 1 <= h
    <3>1. unit * (d + 1) <= unit * h
      BY <1>1, <2>1
    <3>2. unit * h = h * unit /\ unit * h \in Int /\ unit * (d + 1) = unit * d + unit
          /\ unit * d \in Int
      BY <1>1
    <3> DEFINE x == unit * d
               y == unit * h
               z == h * unit
    <3>3. x + unit <= y /\ y = z /\ x \in Int /\ y \in Int /\ a >= z /\ a = x + r
      BY <1>1, <3>1, <3>2
    <3>. HIDE DEF x, y, z
    <3>. QED BY <1>1, <3>3
  <2>. QED BY <1>1, <2>1
<1>. QED BY <1>1, <1>2, <1>3 DEF d

LEMMA RoundingIsStable ==
    ASSUME NEW a \in Nat, NEW bits \in Nat \ {0},
           NEW f, f = Rounding(a, 2^Excess(a, bits))
    PROVE  f \in Nat /\ Rounding(f, 2^Excess(f, bits)) = f
<1> DEFINE k == Excess(a, bits)
           unit == 2^k
           p == 2^bits
           h == 2^(bits - 1)
           q == a \div unit
           m == IF 2 * (a % unit) > unit \/ (2 * (a % unit) = unit /\ q % 2 = 1)
                THEN q + 1 ELSE q
<1>1. k \in 0 .. a /\ Fits(a, bits, k) /\ bits \in Nat /\ bits - 1 \in Nat
      /\ (bits - 1) + 1 = bits
  BY ExcessFits
<1>. HIDE DEF k
<1>2. k \in Nat /\ bits + k \in Nat
  BY <1>1
<1>3. unit \in Nat /\ unit > 0 /\ p \in Nat /\ p > 0 /\ h \in Nat /\ h > 0 /\ k < unit
  BY <1>1, <1>2, PowerCounts, PowerExceeds
<1>4. p = 2 * h /\ 2^(bits + k) = p * unit
  <2>1. 2^((bits - 1) + 1) = 2 * 2^(bits - 1)
    BY <1>1, PowerDoubles
  <2>2. 2^(bits + k) = 2^bits * 2^k
    BY <1>1, <1>2, PowerAdds
  <2>. QED BY <1>1, <2>1, <2>2
<1>5. a < p * unit
  BY <1>1, <1>4 DEF Fits
<1>6. f = m * unit /\ m \in {q, q + 1}
  BY DEF Rounding, k
<1>7. CASE k = 0
  <2>1. unit = 1
    BY <1>7, PowerOfZero
  <2>2. a <= p
    BY <1>3, <1>5, <2>1
  <2>3. f = a
    BY <2>2, RoundingIsExact DEF k
  <2>. QED BY <2>2, <2>3, RoundingIsExact
<1>8. CASE k > 0
  <2>1. 2^(bits + k - 1) = h * unit
    <3>1. bits + k - 1 = (bits - 1) + k
      BY <1>1, <1>2
    <3>2. 2^((bits - 1) + k) = 2^(bits - 1) * 2^k
      BY <1>1, <1>2, PowerAdds
    <3>. QED BY <3>1, <3>2
  <2>2. a >= h * unit
    BY <1>1, <1>8, <2>1 DEF Fits
  <2>. HIDE DEF unit, p, h
  <2>3. q < p /\ q >= h /\ q \in Nat
    BY <1>3, <1>5, <2>2, QuotientHasBits
  <2>. HIDE DEF q
  <2>. HIDE DEF m
  <2>4. m \in Nat /\ m <= p /\ m >= h
    BY <1>3, <1>6, <2>3
  <2>5. f \in Nat /\ f >= unit
    BY <1>3, <1>6, <2>4
  <2>6. CASE m < p
    <3>1. f < p * unit /\ f >= h * unit
      BY <1>3, <1>6, <2>4, <2>6
    <3>2. Fits(f, bits, k)
      BY <1>4, <2>1, <3>1 DEF Fits
    <3>3. k \in 0 .. f
      BY <1>2, <1>3, <2>5
    <3>4. Excess(f, bits) = k
      BY <1>1, <2>5, <3>2, <3>3, ExcessIs
    <3>5. Rounding(f, unit) = f
      BY <1>3, <1>6, <2>4, MultiplesStay
    <3>. QED BY <2>5, <3>4, <3>5 DEF unit
  <2>7. CASE m = p
    <3>1. f = 2^(bits + k)
      BY <1>4, <1>6, <2>7
    <3>2. k + 1 \in 0 .. f /\ k + 1 \in Nat
      BY <1>2, <1>3, <2>5
    <3>3. bits + (k + 1) = (bits + k) + 1 /\ bits + (k + 1) - 1 = bits + k
      BY <1>1, <1>2
    <3>4. 2^(bits + (k + 1)) = 2 * f
      BY <1>2, <3>1, <3>3, PowerDoubles
    <3>5. f < 2 * f
      BY <1>3, <2>5
    <3>6. Fits(f, bits, k + 1)
      <4>1. f < 2^(bits + (k + 1))
        BY <3>4, <3>5
      <4>2. f >= 2^(bits + (k + 1) - 1)
        BY <2>5, <3>1, <3>3
      <4>. QED BY <4>1, <4>2 DEF Fits
    <3>7. Excess(f, bits) = k + 1
      BY <1>1, <2>5, <3>2, <3>6, ExcessIs
    <3>8. 2^(k + 1) = 2 * unit
      BY <1>2, PowerDoubles DEF unit
    <3> DEFINE u == 2 * unit
    <3>9. f = h * u /\ u \in Nat /\ u > 0
      BY <1>3, <1>4, <1>6, <2>7
    <3>. HIDE DEF u
    <3>10. Rounding(f, u) = f
      BY <1>3, <3>9, MultiplesStay
    <3>. QED BY <2>5, <3>7, <3>8, <3>10 DEF u
  <2>. QED BY <2>4, <2>6, <2>7, <1>3
<1>. QED BY <1>2, <1>7, <1>8

\* A float is its own nearest float.
LEMMA FloatIsStable == ASSUME NEW n \in Int PROVE Float(Float(n)) = Float(n)
<1> DEFINE a == IF n < 0 THEN -n ELSE n
           f == Rounding(a, 2^Excess(a, Mantissa))
           g == Rounding(f, 2^Excess(f, Mantissa))
<1>1. a \in Nat /\ Mantissa \in Nat \ {0} /\ (n < 0 => a = -n) /\ (~(n < 0) => a = n)
  BY MantissaIsPositive
<1>2. Float(n) = IF n < 0 THEN -f ELSE f
  BY <1>1, ToFloatRounds DEF Float
<1>. HIDE DEF a
<1>3. f \in Nat /\ g = f
  BY <1>1, RoundingIsStable
<1>. HIDE DEF f
<1>4. Float(f) = f
  <2>1. ~(f < 0)
    BY <1>3
  <2>. QED BY <1>3, <2>1, ToFloatRounds DEF Float
<1>5. ASSUME f > 0 PROVE Float(-f) = -f
  <2>1. -f < 0 /\ -(-f) = f
    BY <1>3, <1>5
  <2>2. Float(-f) = IF -f < 0 THEN -Rounding(-(-f), 2^Excess(-(-f), Mantissa))
                    ELSE Rounding(-f, 2^Excess(-f, Mantissa))
    BY ToFloatRounds DEF Float
  <2>3. Float(-f) = -g
    BY <2>1, <2>2
  <2>. QED BY <1>3, <2>3
<1>. HIDE DEF g
<1>6. ASSUME ~(f > 0) PROVE -f = f
  <2>1. f \in Int /\ f <= 0 /\ f >= 0
    BY <1>3, <1>6
  <2>. QED BY <2>1
<1>. QED BY <1>2, <1>3, <1>4, <1>5, <1>6

---------------------------------------------------------------------------
(* Finite sets of rows                                                     *)

LEMMA ImageIsFinite ==
    ASSUME NEW S, IsFiniteSet(S), NEW g, DOMAIN g = S PROVE IsFiniteSet({g[x] : x \in S})
<1> DEFINE T == {g[x] : x \in S}
           f == [x \in S |-> g[x]]
<1>1. f \in [S -> T] /\ \A y \in T : \E x \in S : f[x] = y
  OBVIOUS
<1>. HIDE DEF f, T
<1>2. f \in Surjection(S, T)
  BY <1>1 DEF Surjection
<1>3. IsFiniteSet(T)
  BY <1>2, FS_Surjection
<1>. QED BY <1>3 DEF T

\* The rows of a list.
LEMMA ListIsFinite ==
    ASSUME NEW s, IsList(s) PROVE DOMAIN s = 1 .. Len(s) /\ Len(s) \in Nat
                                  /\ IsFiniteSet(DOMAIN s)
<1> DEFINE S == {s[i] : i \in DOMAIN s}
<1>1. s \in Seq(S)
  BY DEF IsList
<1>. HIDE DEF S
<1>2. DOMAIN s = 1 .. Len(s) /\ Len(s) \in Nat
  BY <1>1
<1>. QED BY <1>2, FS_Interval

LEMMA MaxOfNaturals ==
    ASSUME NEW S \in SUBSET Nat, IsFiniteSet(S), S # {}
    PROVE  Max(S) \in S /\ \A y \in S : y <= Max(S)
<1> DEFINE Topped(T) == \E x \in T : \A y \in T : x >= y
           Bad == {T \in SUBSET S : T # {} /\ ~Topped(T)}
           Sizes == {Cardinality(T) : T \in Bad}
<1>1. Topped(S)
  <2> SUFFICES ASSUME ~Topped(S) PROVE FALSE
    OBVIOUS
  <2>1. S \in Bad
    OBVIOUS
  <2>2. \A T \in Bad : IsFiniteSet(T) /\ Cardinality(T) \in Nat
    <3>1. \A T \in Bad : T \in SUBSET S
      OBVIOUS
    <3>. HIDE DEF Bad
    <3>. QED BY <3>1, FS_Subset, FS_CardinalityType
  <2>3. PICK T \in Bad : \A U \in Bad : Cardinality(T) <= Cardinality(U)
    <3>. HIDE DEF Bad
    <3>1. Sizes \in SUBSET Nat /\ Sizes # {}
      BY <2>1, <2>2
    <3>. HIDE DEF Sizes
    <3>2. PICK n \in Sizes : \A m \in Sizes : n <= m
      BY <3>1, LeastNatural
    <3>. QED BY <3>2 DEF Sizes
  <2>4. T \in SUBSET S /\ T # {} /\ ~Topped(T)
    OBVIOUS
  <2>5. PICK x \in T : TRUE
    BY <2>4
  <2> DEFINE U == T \ {x}
  <2>6. Cardinality(U) = Cardinality(T) - 1 /\ Cardinality(T) \in Nat
    BY <2>2, <2>5, FS_RemoveElement
  <2>7. U \notin Bad
    <3>. HIDE DEF Bad, U
    <3>1. ASSUME U \in Bad PROVE FALSE
      <4>1. Cardinality(T) <= Cardinality(U)
        BY <2>3, <3>1
      <4>. QED BY <2>6, <4>1
    <3>. QED BY <3>1
  <2>8. U = {} \/ Topped(U)
    BY <2>4, <2>7
  <2>9. CASE U = {}
    <3>1. T = {x} /\ x \in Nat
      BY <2>4, <2>5, <2>9
    <3>2. Topped(T)
      BY <3>1
    <3>. QED BY <2>4, <3>2
  <2>10. CASE Topped(U)
    <3>1. PICK y \in U : \A z \in U : y >= z
      BY <2>10
    <3>2. x \in Nat /\ y \in Nat /\ \A z \in T : z \in Nat /\ (z = x \/ z \in U)
      BY <2>4, <2>5, <3>1
    <3>3. Topped(T)
      <4>1. CASE x >= y
        <5>1. \A z \in T : x >= z
          BY <3>1, <3>2, <4>1
        <5>. QED BY <2>5, <5>1
      <4>2. CASE y > x
        <5>1. \A z \in T : y >= z
          BY <3>1, <3>2, <4>2
        <5>. QED BY <3>1, <5>1
      <4>. QED BY <3>2, <4>1, <4>2
    <3>. QED BY <2>4, <3>3
  <2>. QED BY <2>8, <2>9, <2>10
<1>2. PICK x \in S : \A y \in S : x >= y
  BY <1>1
<1>3. Max(S) = CHOOSE z \in S : \A y \in S : z >= y
  BY DEF Max
<1>4. Max(S) \in S /\ \A y \in S : Max(S) >= y
  BY <1>2, <1>3
<1>. QED BY <1>4

---------------------------------------------------------------------------
(* The types of rows                                                       *)

\* What TypeOK says of a row, beyond its columns.
RowTyped(t, r) ==
    /\ t = AccountsTable => r.address \in Address /\ r.token \in Token /\ r.amount \in Int
    /\ t = BlocksTable => r.height \in Height
    /\ t \in {TransactionsTable, TransfersTable} => r.id \in Nat \ {0}
    /\ t = RestoreHistoriesTable => r.id = 1
Typed(d) == \A t \in Tables : IsFiniteSet(d[t.name]) /\ \A r \in d[t.name] : RowTyped(t, r)

LEMMA TypedOneTable ==
    ASSUME NEW d, IsDb(d), Typed(d), NEW t \in Tables, NEW S, IsFiniteSet(S),
           \A s \in S : RowTyped(t, s)
    PROVE  Typed([d EXCEPT ![t.name] = S])
  BY TableNames DEF Typed, IsDb

\* A row without a key gets the next number; a row with one keeps it.
LEMMA NumberedRow ==
    ASSUME NEW d, Sound(d), Typed(d), NEW t \in Tables, NEW rows, IsList(rows),
           NEW i \in DOMAIN rows, IsRow(t, rows[i]), t.serial = TRUE
    PROVE  /\ rows[i][t.id] # Null => Numbered(d, t, rows)[i] = rows[i]
           /\ (t \in {TransactionsTable, TransfersTable} /\ rows[i][t.id] = Null)
                => Numbered(d, t, rows)[i][t.id] \in Nat \ {0}
<1>1. rows[i][t.id] # Null => Numbered(d, t, rows)[i] = rows[i]
  BY DEF Numbered
<1>2. ASSUME t \in {TransactionsTable, TransfersTable}, rows[i][t.id] = Null
      PROVE  Numbered(d, t, rows)[i][t.id] \in Nat \ {0}
  <2> DEFINE ids == {r[t.id] : r \in d[t.name]}
             next == i + Max({0} \cup ids)
  <2>1. t.id = "id"
    BY <1>2 DEF TransactionsTable, TransfersTable
  <2>2. ids \in SUBSET Nat
    BY <1>2, <2>1 DEF Typed, RowTyped
  <2>3. IsFiniteSet(ids)
    <3> DEFINE g == [r \in d[t.name] |-> r[t.id]]
    <3>1. IsFiniteSet(d[t.name]) /\ DOMAIN g = d[t.name]
      BY DEF Typed
    <3>2. ids = {g[r] : r \in d[t.name]}
      OBVIOUS
    <3>. HIDE DEF g
    <3>3. IsFiniteSet({g[r] : r \in d[t.name]})
      BY <3>1, ImageIsFinite
    <3>. QED BY <3>2, <3>3
  <2>4. Numbered(d, t, rows)[i] = [rows[i] EXCEPT ![t.id] = next]
    BY <1>2 DEF Numbered
  <2>. HIDE DEF ids
  <2>5. Max({0} \cup ids) \in Nat
    <3>1. IsFiniteSet({0}) /\ IsFiniteSet({0} \cup ids)
      BY <2>3, FS_Singleton, FS_Union
    <3>2. ({0} \cup ids) \in SUBSET Nat /\ {0} \cup ids # {}
      BY <2>2
    <3> DEFINE S == {0} \cup ids
    <3>. HIDE DEF S
    <3>3. Max(S) \in S
      BY <3>1, <3>2, MaxOfNaturals DEF S
    <3>. QED BY <3>2, <3>3 DEF S
  <2>6. i \in Nat \ {0}
    <3>1. i \in 1 .. Len(rows) /\ Len(rows) \in Nat
      BY ListIsFinite
    <3>. QED BY <3>1
  <2>7. next \in Nat \ {0}
    BY <2>5, <2>6
  <2>. HIDE DEF next
  <2>8. t.id \in DOMAIN rows[i]
    BY KeyIsIndexed DEF IsRow
  <2>. QED BY <2>4, <2>7, <2>8
<1>. QED BY <1>1, <1>2

LEMMA InsertTyped ==
    ASSUME NEW d, Sound(d), Typed(d), NEW t \in Tables, NEW rows, IsList(rows),
           \A i \in DOMAIN rows : RowTyped(t, Numbered(d, t, rows)[i])
    PROVE  Typed(Insert(d, t, rows).db)
<1> DEFINE new == Numbered(d, t, rows)
           N == {new[i] : i \in DOMAIN new}
           S == d[t.name] \cup N
<1>1. Insert(d, t, rows).db \in {d, [d EXCEPT ![t.name] = S]}
  BY DEF Insert, Failed, Done
<1>2. DOMAIN new = DOMAIN rows
  BY DEF Numbered
<1>3. IsFiniteSet(N)
  <2>1. IsFiniteSet(DOMAIN rows)
    BY ListIsFinite
  <2>. HIDE DEF new
  <2>2. IsFiniteSet({new[i] : i \in DOMAIN rows})
    BY <1>2, <2>1, ImageIsFinite
  <2>. QED BY <1>2, <2>2
<1>4. \A s \in N : RowTyped(t, s)
  BY <1>2
<1>. HIDE DEF new, N
<1>5. IsFiniteSet(S) /\ \A s \in S : RowTyped(t, s)
  BY <1>3, <1>4, FS_Union DEF Typed
<1>. HIDE DEF S
<1>6. Typed([d EXCEPT ![t.name] = S])
  BY <1>5, TypedOneTable DEF Sound, Consistent
<1>. QED BY <1>1, <1>6

LEMMA OneRowIsList == ASSUME NEW row PROVE IsList(<<row>>) /\ DOMAIN <<row>> = {1}
  BY DEF IsList

LEMMA CreateTyped ==
    ASSUME NEW d, Sound(d), Typed(d), NEW t \in Tables, NEW fields, NEW m, NEW row,
           Valid(m, fields) => RowTyped(t, Numbered(d, t, <<row>>)[1])
    PROVE  Typed(Create(d, t, fields, m, row).db)
<1>1. CASE ~Valid(m, fields)
  BY <1>1 DEF Create, Failed
<1>2. CASE Valid(m, fields)
  <2>1. Typed(Insert(d, t, <<row>>).db)
    BY <1>2, OneRowIsList, InsertTyped
  <2>. QED BY <1>2, <2>1 DEF Create
<1>. QED BY <1>1, <1>2

LEMMA CreateBulkTyped ==
    ASSUME NEW d, Sound(d), Typed(d), NEW t \in Tables, NEW fields, NEW ms, NEW rows,
           DOMAIN rows = DOMAIN ms, IsList(rows),
           \A i \in DOMAIN ms : Valid(ms[i], fields) => RowTyped(t, Numbered(d, t, rows)[i])
    PROVE  Typed(CreateBulk(d, t, fields, ms, rows).db)
<1>1. CASE ms = << >> \/ ~(\A i \in DOMAIN ms : Valid(ms[i], fields))
  BY <1>1 DEF CreateBulk, Failed, Done
<1>2. CASE ms # << >> /\ \A i \in DOMAIN ms : Valid(ms[i], fields)
  <2>1. CreateBulk(d, t, fields, ms, rows).db = Insert(d, t, rows).db
    BY <1>2 DEF CreateBulk
  <2>2. Typed(Insert(d, t, rows).db)
    BY <1>2, InsertTyped
  <2>. QED BY <2>1, <2>2
<1>. QED BY <1>1, <1>2

---------------------------------------------------------------------------
(* What the calls send                                                     *)

LEMMA FieldsThatAreSet ==
    ASSUME NEW m, NEW values
    PROVE  /\ DOMAIN SetFields(m, values).set = DOMAIN values \cup DOMAIN m.set
           /\ \A f \in DOMAIN values : SetFields(m, values).set[f] = values[f]
           /\ \A f \in DOMAIN m.set \ DOMAIN values : SetFields(m, values).set[f] = m.set[f]
  BY DEF SetFields, Over

LEMMA DefaultsThatAreSet ==
    ASSUME NEW m, "set" \in DOMAIN m, NEW values
    PROVE  LET s == WithDefaults(m, values).set
           IN  /\ DOMAIN s = DOMAIN m.set \cup DOMAIN values
               /\ \A f \in DOMAIN m.set : s[f] = m.set[f]
  BY DEF WithDefaults, Over

LEMMA SettersReturnMutations ==
    ASSUME NEW m, NEW values PROVE "set" \in DOMAIN SetFields(m, values)
  BY DEF SetFields

\* The fields of an account's builder.
LEMMA AccountCreateSets ==
    ASSUME NEW id, NEW token, NEW amount
    PROVE  LET s == AccountCreate(id, token, amount).set
           IN  /\ DOMAIN s = {"address", "token", "amount"}
               /\ s.address = id /\ s.token = token /\ s.amount = Float(amount)
<1> DEFINE v == [address |-> id, token |-> token, amount |-> Float(amount)]
           s == SetFields(AccountMutation, v).set
<1>1. DOMAIN v = {"address", "token", "amount"} /\ v["address"] = id
      /\ v["token"] = token /\ v["amount"] = Float(amount)
  OBVIOUS
<1>2. DOMAIN AccountMutation.set = {}
  BY DEF AccountMutation, NewMutation
<1>3. AccountCreate(id, token, amount).set = s
  BY DEF AccountCreate, SetAccountFields
<1>. HIDE DEF v
<1>4. /\ DOMAIN s = DOMAIN v \cup DOMAIN AccountMutation.set
      /\ \A f \in DOMAIN v : s[f] = v[f]
  BY FieldsThatAreSet
<1>. HIDE DEF s
<1>5. DOMAIN s = DOMAIN v
  BY <1>2, <1>4
<1>. QED BY <1>1, <1>3, <1>4, <1>5

NewRow(a) == [address |-> a.address, token |-> a.token, amount |-> Float(a.amount)]
MayAdd(d, a) == /\ a.address \notin Blank /\ a.token \notin Blank
                /\ \A r \in d.accounts : r.address # a.address

\* AddAccount inserts its row if both strings are given and the address is new.
LEMMA AddAccountDoes ==
    ASSUME NEW d, NEW a
    PROVE  AddAccount(d, a) =
             IF MayAdd(d, a)
               THEN [db |-> [d EXCEPT !.accounts = @ \cup {NewRow(a)}], err |-> "none"]
               ELSE [db |-> d, err |-> "error"]
<1> DEFINE t == AccountsTable
           m == AccountCreate(a.address, a.token, a.amount)
           row == AccountSpec(m)
<1>1. /\ DOMAIN m.set = {"address", "token", "amount"} /\ m.set.address = a.address
      /\ m.set.token = a.token /\ m.set.amount = Float(a.amount)
  BY AccountCreateSets
<1>2. /\ t.name = "accounts" /\ t.id = "address" /\ t.serial = FALSE /\ t.foreign = {}
      /\ t.columns = {"address", "token", "amount"}
      /\ t.unique = {{"address"}, {"address", "token"}}
  BY DEF AccountsTable, AccountColumns
<1>. HIDE DEF m, t
<1>3. row = NewRow(a)
  <2>1. row = [c \in t.columns |-> IF c \in DOMAIN m.set THEN m.set[c] ELSE Null]
    BY DEF AccountSpec, RowOf, t
  <2>. QED BY <1>1, <1>2, <2>1 DEF NewRow
<1>. HIDE DEF row
<1>4. Valid(m, AccountFields) <=> a.address \notin Blank /\ a.token \notin Blank
  BY <1>1 DEF Valid, AccountFields
<1>5. Numbered(d, t, <<row>>) = <<row>>
  <2>1. Numbered(d, t, <<row>>) = [i \in DOMAIN <<row>> |-> <<row>>[i]]
    BY <1>2 DEF Numbered
  <2>. QED BY <2>1
<1>6. Unique(d, t, <<row>>) <=> \A r \in d.accounts : r.address # a.address
  <2>1. row.address = a.address
    BY <1>3 DEF NewRow
  <2>2. Unique(d, t, <<row>>) <=>
          \A key \in t.unique : \A r \in d.accounts : KeyOf(r, key) # KeyOf(row, key)
    BY <1>2 DEF Unique
  <2>3. \A r : KeyOf(r, {"address"}) = KeyOf(row, {"address"}) <=> r.address = row.address
    BY DEF KeyOf
  <2>4. \A r : KeyOf(r, {"address", "token"}) = KeyOf(row, {"address", "token"})
                 => r.address = row.address
    <3> SUFFICES ASSUME NEW r,
                        KeyOf(r, {"address", "token"}) = KeyOf(row, {"address", "token"})
                 PROVE  r.address = row.address
      OBVIOUS
    <3>1. KeyOf(r, {"address", "token"})["address"] = r.address
          /\ KeyOf(row, {"address", "token"})["address"] = row.address
      BY DEF KeyOf
    <3>. QED BY <3>1
  <2>. QED BY <1>2, <2>1, <2>2, <2>3, <2>4
<1>7. \A i \in DOMAIN <<row>> : References(d, t, <<row>>[i])
  BY <1>2 DEF References
<1>8. Insert(d, t, <<row>>) =
        IF \A r \in d.accounts : r.address # a.address
          THEN Done([d EXCEPT !.accounts = @ \cup {row}], <<row>>)
          ELSE Failed(d, "constraint")
  <2>1. {<<row>>[i] : i \in DOMAIN <<row>>} = {row}
    OBVIOUS
  <2>2. [d EXCEPT ![t.name] = @ \cup {row}] = [d EXCEPT !.accounts = @ \cup {row}]
    BY <1>2
  <2> DEFINE rows == <<row>>
             S == {rows[i] : i \in DOMAIN rows}
  <2>3. Numbered(d, t, rows) = rows /\ S = {row}
        /\ \A i \in DOMAIN rows : References(d, t, rows[i])
    BY <1>5, <1>7, <2>1
  <2>4. Insert(d, t, rows) = IF Unique(d, t, rows)
                               THEN Done([d EXCEPT ![t.name] = @ \cup S], rows)
                               ELSE Failed(d, "constraint")
    <3>. HIDE DEF rows
    <3>. QED BY <2>3 DEF Insert
  <2>. HIDE DEF S
  <2>. QED BY <1>6, <2>2, <2>3, <2>4
<1>9. AddAccount(d, a) = Written(Create(d, t, AccountFields, m, row))
  BY DEF AddAccount, SaveAccount, t, row, m
<1>10. CASE MayAdd(d, a)
  <2>1. Create(d, t, AccountFields, m, row) = Done([d EXCEPT !.accounts = @ \cup {row}], <<row>>)
    BY <1>4, <1>8, <1>10 DEF Create, MayAdd
  <2>. QED BY <1>3, <1>9, <1>10, <2>1 DEF Written, Done
<1>11. CASE ~MayAdd(d, a)
  <2>1. Create(d, t, AccountFields, m, row)
          \in {Failed(d, "constraint"), Failed(d, "validation")}
    BY <1>4, <1>8, <1>11 DEF Create, MayAdd
  <2>. QED BY <1>9, <1>11, <2>1 DEF Written, Failed
<1>. QED BY <1>10, <1>11

LEMMA AddAccountTyped ==
    ASSUME NEW d, Sound(d), Typed(d), NEW a \in CreatedAccount PROVE Typed(AddAccount(d, a).db)
<1> DEFINE S == d.accounts \cup {NewRow(a)}
<1>1. AccountsTable \in Tables /\ AccountsTable.name = "accounts"
  BY DEF Tables, AccountsTable
<1>2. CASE ~MayAdd(d, a)
  BY <1>2, AddAccountDoes
<1>3. CASE MayAdd(d, a)
  <2>1. IsFiniteSet(S)
    BY <1>1, FS_AddElement DEF Typed
  <2>2. RowTyped(AccountsTable, NewRow(a))
    <3>1. a.address \in Address /\ a.token \in Token
      BY <1>3 DEF MayAdd, CreatedAccount, Blank
    <3>2. Float(a.amount) \in Int
      BY FloatIsInteger DEF CreatedAccount
    <3>. QED BY <3>1, <3>2 DEF RowTyped, NewRow, AccountsTable, BlocksTable, TransactionsTable,
                               TransfersTable, RestoreHistoriesTable
  <2>3. \A s \in S : RowTyped(AccountsTable, s)
    BY <1>1, <2>2 DEF Typed
  <2>. HIDE DEF S
  <2>4. Typed([d EXCEPT ![AccountsTable.name] = S])
    BY <1>1, <2>1, <2>3, TypedOneTable DEF Sound, Consistent
  <2>. QED BY <1>1, <1>3, <2>4, AddAccountDoes DEF S
<1>. QED BY <1>2, <1>3

LEMMA IncrementTyped ==
    ASSUME NEW d, Sound(d), Typed(d), NEW address, NEW token, NEW n \in Int
    PROVE  Typed(IncrementAccountBalance(d, address, token, n).db)
<1> DEFINE S == IncrementedRows(d, address, token, n)
           g == [r \in d.accounts |-> Incremented(r, address, token, n)]
<1>1. AccountsTable \in Tables /\ AccountsTable.name = "accounts"
  BY DEF Tables, AccountsTable
<1>2. IsFiniteSet(S)
  <2>1. IsFiniteSet(d.accounts) /\ DOMAIN g = d.accounts
    BY <1>1 DEF Typed
  <2>2. S = {g[r] : r \in d.accounts}
    BY DEF IncrementedRows
  <2>. HIDE DEF g
  <2>3. IsFiniteSet({g[r] : r \in d.accounts})
    BY <2>1, ImageIsFinite
  <2>. QED BY <2>2, <2>3
<1>3. ASSUME NEW r \in d.accounts PROVE RowTyped(AccountsTable, Incremented(r, address, token, n))
  <2>1. RowTyped(AccountsTable, r)
    BY <1>1 DEF Typed
  <2>2. r.address \in Address /\ r.token \in Token /\ r.amount \in Int
    BY <2>1 DEF RowTyped
  <2>3. Float(Float(n)) \in Int
    BY FloatIsInteger
  <2> DEFINE x == Float(Float(n))
             s == Incremented(r, address, token, n)
  <2>4. r.amount + x \in Int
    BY <2>2, <2>3
  <2>5. Float(r.amount + x) \in Int
    BY <2>4, FloatIsInteger
  <2>6. DOMAIN r = AccountColumns
    <3>1. IsRow(AccountsTable, r)
      BY <1>1 DEF Sound, Consistent, Shaped
    <3>. QED BY <3>1 DEF IsRow, AccountsTable
  <2>7. s.address = r.address /\ s.token = r.token /\ s.amount \in {r.amount, Float(r.amount + x)}
    BY <2>6 DEF Incremented, AccountColumns
  <2>. HIDE DEF x, s
  <2>8. s.address \in Address /\ s.token \in Token /\ s.amount \in Int
    BY <2>2, <2>5, <2>7
  <2>9. RowTyped(AccountsTable, s)
    BY <2>8 DEF RowTyped, AccountsTable, BlocksTable, TransactionsTable, TransfersTable,
                RestoreHistoriesTable
  <2>. QED BY <2>9 DEF s
<1>4. \A s \in S : RowTyped(AccountsTable, s)
  BY <1>3 DEF IncrementedRows
<1>. HIDE DEF S
<1>5. Typed([d EXCEPT ![AccountsTable.name] = S])
  BY <1>1, <1>2, <1>4, TypedOneTable DEF Sound, Consistent
<1>6. IncrementAccountBalance(d, address, token, n).db = [d EXCEPT !.accounts = S]
  BY IncrementDoes DEF S
<1>. QED BY <1>1, <1>5, <1>6

\* The row of a block: its key is the height.
LEMMA BlockRowKey ==
    ASSUME NEW b, NEW now
    PROVE  BlockSpec(BlockDefaults(BlockCreate(b, now), now)).height = b.height
<1> DEFINE m1 == SetBlockIdentity(BlockMutation, b.height, b.hash, b.time)
           m2 == BlockCreate(b, now)
           m3 == BlockDefaults(m2, now)
           v1 == [height |-> b.height, hash |-> b.hash, time |-> b.time]
           v2 == [total_txs |-> b.total_txs, num_txs |-> b.num_txs, created_at |-> now]
<1>1. m1 = SetFields(BlockMutation, v1) /\ m2 = SetFields(m1, v2)
      /\ m3 = WithDefaults(m2, [created_at |-> now])
  BY DEF BlockCreate, SetBlockIdentity, SetBlockCounts, BlockDefaults
<1>2. "height" \in DOMAIN v1 /\ v1["height"] = b.height /\ "height" \notin DOMAIN v2
  OBVIOUS
<1>. HIDE DEF m1, m2, m3, v1, v2
<1>3. "height" \in DOMAIN m1.set /\ m1.set["height"] = b.height
  BY <1>1, <1>2, FieldsThatAreSet
<1>4. "height" \in DOMAIN m2.set /\ m2.set["height"] = b.height
  BY <1>1, <1>2, <1>3, FieldsThatAreSet
<1>5. "height" \in DOMAIN m3.set /\ m3.set["height"] = b.height
  BY <1>1, <1>4, DefaultsThatAreSet, SettersReturnMutations
<1>6. "height" \in BlocksTable.columns
  BY DEF BlocksTable, BlockColumns
<1>7. BlockSpec(m3)["height"] = b.height
  BY <1>5, <1>6 DEF BlockSpec, RowOf
<1>. QED BY <1>7 DEF m3, m2

\* The builders of transactions and transfers set no key.
LEMMA TransactionRowHasNoKey ==
    ASSUME NEW tx, NEW h, NEW now
    PROVE  TransactionSpec(TransactionDefaults(TransactionCreate(tx, h, now), now)).id = Null
<1> DEFINE v1 == [index |-> tx.index, hash |-> tx.hash, success |-> tx.success]
           v2 == [block_height |-> tx.block_height]
           v3 == [gas_wanted |-> tx.gas_wanted, gas_used |-> tx.gas_used]
           v4 == [memo |-> tx.memo, gas_fee |-> tx.gas_fee, messages |-> tx.messages]
           v5 == [response |-> tx.response, created_at |-> now, block |-> h]
           v6 == [success |-> FALSE, created_at |-> now]
           m0 == TransactionMutation
           m1 == SetFields(m0, v1)
           m2 == SetFields(m1, v2)
           m3 == SetFields(m2, v3)
           m4 == SetFields(m3, v4)
           m5 == SetFields(m4, v5)
           m6 == WithDefaults(m5, v6)
           v7 == [block_transactions |-> m6.set.block]
           m7 == SetFields(m6, v7)
<1>1. /\ "id" \notin DOMAIN v1 /\ "id" \notin DOMAIN v2 /\ "id" \notin DOMAIN v3
      /\ "id" \notin DOMAIN v4 /\ "id" \notin DOMAIN v5 /\ "id" \notin DOMAIN v6
      /\ "id" \notin DOMAIN v7
  OBVIOUS
<1>2. "id" \notin DOMAIN m0.set
  BY DEF TransactionMutation, NewMutation
<1>3. m6 = TransactionDefaults(TransactionCreate(tx, h, now), now)
  BY DEF TransactionDefaults, TransactionCreate, SetTransactionIdentity, SetTransactionHeight,
         SetTransactionGas, SetTransactionBody, SetTransactionEdges
<1>4. TransactionSpec(m6) = RowOf(TransactionsTable, m7)
  BY DEF TransactionSpec
<1>. HIDE DEF v1, v2, v3, v4, v5, v6, v7, m0
<1>5. "id" \notin DOMAIN m1.set
  BY <1>1, <1>2, FieldsThatAreSet
<1>. HIDE DEF m1
<1>6. "id" \notin DOMAIN m2.set
  BY <1>1, <1>5, FieldsThatAreSet
<1>. HIDE DEF m2
<1>7. "id" \notin DOMAIN m3.set
  BY <1>1, <1>6, FieldsThatAreSet
<1>. HIDE DEF m3
<1>8. "id" \notin DOMAIN m4.set
  BY <1>1, <1>7, FieldsThatAreSet
<1>. HIDE DEF m4
<1>9. "id" \notin DOMAIN m5.set /\ "set" \in DOMAIN m5
  BY <1>1, <1>8, FieldsThatAreSet, SettersReturnMutations
<1>. HIDE DEF m5
<1>10. "id" \notin DOMAIN m6.set
  BY <1>1, <1>9, DefaultsThatAreSet
<1>. HIDE DEF m6
<1>11. "id" \notin DOMAIN m7.set
  BY <1>1, <1>10, FieldsThatAreSet
<1>. HIDE DEF m7
<1>12. "id" \in TransactionsTable.columns
  BY DEF TransactionsTable, TransactionColumns
<1>. QED BY <1>3, <1>4, <1>11, <1>12 DEF RowOf

\* What a transfer's builder sets: an empty address is left out.
TransferFieldsSet(t) ==
    {"hash", "func", "token", "amount", "denom", "created_at"}
    \cup (IF t.from_address = NoAddress THEN {} ELSE {"from_address"})
    \cup (IF t.to_address = NoAddress THEN {} ELSE {"to_address"})

LEMMA TransferBuilderSets ==
    ASSUME NEW hash, NEW t
    PROVE  LET s == TransferDefaults(NewTransfer(hash, t), Now).set
           IN  /\ DOMAIN s = TransferFieldsSet(t)
               /\ s.hash = hash /\ s.func = ToLower(t.func) /\ s.token = t.token
               /\ s.amount = Float(t.amount) /\ s.denom = t.denom
               /\ t.from_address # NoAddress => s.from_address = t.from_address
               /\ t.to_address # NoAddress => s.to_address = t.to_address
<1> DEFINE v1 == [hash |-> hash, func |-> ToLower(t.func)]
           v2 == [token |-> t.token, amount |-> Float(t.amount), denom |-> t.denom,
                  created_at |-> Now]
           v3 == [from_address |-> t.from_address]
           v4 == [to_address |-> t.to_address]
           v5 == [created_at |-> Now]
           m0 == TransferMutation
           m1 == SetFields(m0, v1)
           m2 == SetFields(m1, v2)
           m3 == IF t.from_address = NoAddress THEN m2 ELSE SetFields(m2, v3)
           m4 == IF t.to_address = NoAddress THEN m3 ELSE SetFields(m3, v4)
           m5 == WithDefaults(m4, v5)
<1>1. /\ DOMAIN v1 = {"hash", "func"} /\ DOMAIN v2 = {"token", "amount", "denom", "created_at"}
      /\ DOMAIN v3 = {"from_address"} /\ DOMAIN v4 = {"to_address"} /\ DOMAIN v5 = {"created_at"}
  OBVIOUS
<1>2. /\ v1["hash"] = hash /\ v1["func"] = ToLower(t.func) /\ v2["token"] = t.token
      /\ v2["amount"] = Float(t.amount) /\ v2["denom"] = t.denom
      /\ v3["from_address"] = t.from_address /\ v4["to_address"] = t.to_address
  OBVIOUS
<1>3. DOMAIN m0.set = {}
  BY DEF TransferMutation, NewMutation
<1>4. m5 = TransferDefaults(NewTransfer(hash, t), Now)
  BY DEF TransferDefaults, NewTransfer, TransferCreate, SetTransferOrigin, SetTransferValue,
         SetFromAddress, SetToAddress
<1>. HIDE DEF v1, v2, v3, v4, v5, m0
<1>5. DOMAIN m1.set = {"hash", "func"} /\ m1.set["hash"] = hash
      /\ m1.set["func"] = ToLower(t.func)
  BY <1>1, <1>2, <1>3, FieldsThatAreSet
<1>. HIDE DEF m1
<1> DEFINE Six == {"hash", "func", "token", "amount", "denom", "created_at"}
           Same(s) == /\ s["hash"] = hash /\ s["func"] = ToLower(t.func) /\ s["token"] = t.token
                      /\ s["amount"] = Float(t.amount) /\ s["denom"] = t.denom
<1>6. DOMAIN m2.set = Six
  BY <1>1, <1>5, FieldsThatAreSet
<1>7. Same(m2.set)
  BY <1>1, <1>2, <1>5, FieldsThatAreSet
<1>8. "set" \in DOMAIN m2
  BY SettersReturnMutations
<1>. HIDE DEF m2
<1> DEFINE From == IF t.from_address = NoAddress THEN {} ELSE {"from_address"}
           To == IF t.to_address = NoAddress THEN {} ELSE {"to_address"}
<1>9. /\ DOMAIN m3.set = Six \cup From /\ "set" \in DOMAIN m3 /\ Same(m3.set)
      /\ t.from_address # NoAddress => m3.set["from_address"] = t.from_address
  <2>1. CASE t.from_address = NoAddress
    BY <1>6, <1>7, <1>8, <2>1
  <2>2. CASE t.from_address # NoAddress
    <3>1. m3 = SetFields(m2, v3)
      BY <2>2
    <3>. HIDE DEF m3
    <3>2. DOMAIN m3.set = {"from_address"} \cup Six /\ m3.set["from_address"] = t.from_address
          /\ \A f \in Six : m3.set[f] = m2.set[f]
      BY <1>1, <1>2, <1>6, <3>1, FieldsThatAreSet
    <3>3. Same(m3.set)
      BY <1>7, <3>2
    <3>. QED BY <2>2, <3>1, <3>2, <3>3, SettersReturnMutations
  <2>. QED BY <2>1, <2>2
<1>. HIDE DEF m3
<1>10. /\ DOMAIN m4.set = Six \cup From \cup To /\ "set" \in DOMAIN m4 /\ Same(m4.set)
       /\ t.from_address # NoAddress => m4.set["from_address"] = t.from_address
       /\ t.to_address # NoAddress => m4.set["to_address"] = t.to_address
  <2>1. CASE t.to_address = NoAddress
    BY <1>9, <2>1
  <2>2. CASE t.to_address # NoAddress
    <3>1. m4 = SetFields(m3, v4)
      BY <2>2
    <3>. HIDE DEF m4
    <3>2. DOMAIN m4.set = {"to_address"} \cup Six \cup From
          /\ m4.set["to_address"] = t.to_address
          /\ \A f \in Six \cup From : m4.set[f] = m3.set[f]
      BY <1>1, <1>2, <1>9, <3>1, FieldsThatAreSet
    <3>3. Same(m4.set) /\ (t.from_address # NoAddress => m4.set["from_address"] = t.from_address)
      BY <1>9, <3>2
    <3>. QED BY <2>2, <3>1, <3>2, <3>3, SettersReturnMutations
  <2>. QED BY <2>1, <2>2
<1>. HIDE DEF m4
<1>11. DOMAIN m5.set = Six \cup From \cup To
       /\ \A f \in Six \cup From \cup To : m5.set[f] = m4.set[f]
  BY <1>1, <1>10, DefaultsThatAreSet
<1>. HIDE DEF m5
<1>12. /\ Same(m5.set)
       /\ t.from_address # NoAddress => m5.set["from_address"] = t.from_address
       /\ t.to_address # NoAddress => m5.set["to_address"] = t.to_address
  BY <1>10, <1>11
<1>. QED BY <1>4, <1>11, <1>12 DEF TransferFieldsSet

\* A transfer's row, column by column.
LEMMA TransferRowOf ==
    ASSUME NEW hash, NEW t
    PROVE  LET row == TransferSpec(TransferDefaults(NewTransfer(hash, t), Now))
           IN  /\ row.id = Null /\ row.hash = hash /\ row.func = ToLower(t.func)
               /\ row.token = t.token /\ row.amount = Float(t.amount)
               /\ row.from_address = (IF t.from_address = NoAddress THEN Null
                                      ELSE t.from_address)
               /\ row.to_address = (IF t.to_address = NoAddress THEN Null ELSE t.to_address)
<1> DEFINE s == TransferDefaults(NewTransfer(hash, t), Now).set
           row == TransferSpec(TransferDefaults(NewTransfer(hash, t), Now))
<1>1. /\ DOMAIN s = TransferFieldsSet(t)
      /\ s.hash = hash /\ s.func = ToLower(t.func) /\ s.token = t.token
      /\ s.amount = Float(t.amount) /\ s.denom = t.denom
      /\ t.from_address # NoAddress => s.from_address = t.from_address
      /\ t.to_address # NoAddress => s.to_address = t.to_address
  BY TransferBuilderSets
<1>2. row = [c \in TransferColumns |-> IF c \in DOMAIN s THEN s[c] ELSE Null]
  BY DEF TransferSpec, RowOf, TransfersTable
<1>. HIDE DEF s, row
<1>3. \A c \in TransferColumns : row[c] = IF c \in TransferFieldsSet(t) THEN s[c] ELSE Null
  BY <1>1, <1>2
<1>4. /\ row.id = Null /\ row.hash = hash /\ row.func = ToLower(t.func) /\ row.token = t.token
      /\ row.amount = Float(t.amount)
  BY <1>1, <1>3 DEF TransferColumns, TransferFieldsSet
<1>5. row.from_address = IF t.from_address = NoAddress THEN Null ELSE t.from_address
  BY <1>1, <1>3 DEF TransferColumns, TransferFieldsSet
<1>6. row.to_address = IF t.to_address = NoAddress THEN Null ELSE t.to_address
  BY <1>1, <1>3 DEF TransferColumns, TransferFieldsSet
<1>. QED BY <1>4, <1>5, <1>6 DEF row

LEMMA ListOf ==
    ASSUME NEW s, IsList(s), NEW r, r = [i \in DOMAIN s |-> r[i]] PROVE IsList(r)
<1> DEFINE S == {r[i] : i \in DOMAIN r}
<1>1. DOMAIN s = 1 .. Len(s) /\ Len(s) \in Nat
  BY ListIsFinite
<1> DEFINE n == Len(s)
<1>. HIDE DEF n
<1>2. DOMAIN r = 1 .. n /\ n \in Nat /\ r = [i \in 1 .. n |-> r[i]]
  BY <1>1 DEF n
<1>3. r \in [1 .. n -> S]
  BY <1>2
<1>. HIDE DEF S
<1>4. r \in Seq(S)
  BY <1>2, <1>3
<1>. QED BY <1>4 DEF IsList, S

\* A row without a key, in a table of transactions or transfers; a row of a block.
LEMMA NumberedTyped ==
    ASSUME NEW d, Sound(d), Typed(d), NEW t \in {TransactionsTable, TransfersTable},
           NEW rows, IsList(rows), NEW i \in DOMAIN rows, IsRow(t, rows[i]), rows[i].id = Null
    PROVE  RowTyped(t, Numbered(d, t, rows)[i])
<1>1. t \in Tables /\ t.serial = TRUE /\ t.id = "id" /\ t # AccountsTable /\ t # BlocksTable
      /\ t # RestoreHistoriesTable
  BY DEF Tables, AccountsTable, BlocksTable, TransactionsTable, TransfersTable,
         RestoreHistoriesTable
<1>2. Numbered(d, t, rows)[i][t.id] \in Nat \ {0}
  BY <1>1, NumberedRow
<1>. QED BY <1>1, <1>2 DEF RowTyped

LEMMA BlockNumberedTyped ==
    ASSUME NEW d, Sound(d), Typed(d), NEW rows, IsList(rows), NEW i \in DOMAIN rows,
           IsRow(BlocksTable, rows[i]), rows[i].height \in Height
    PROVE  RowTyped(BlocksTable, Numbered(d, BlocksTable, rows)[i])
<1>1. /\ BlocksTable \in Tables /\ BlocksTable.serial = TRUE /\ BlocksTable.id = "height"
      /\ BlocksTable # AccountsTable /\ BlocksTable # RestoreHistoriesTable
      /\ BlocksTable \notin {TransactionsTable, TransfersTable}
  BY DEF Tables, AccountsTable, BlocksTable, TransactionsTable, TransfersTable,
         RestoreHistoriesTable
<1>2. rows[i][BlocksTable.id] # Null
  BY <1>1, HeightsAreIntegers, NullIsNoInteger
<1>3. Numbered(d, BlocksTable, rows)[i] = rows[i]
  BY <1>2 DEF Numbered
<1>. QED BY <1>1, <1>3 DEF RowTyped

LEMMA AddBlockTyped ==
    ASSUME NEW d, Sound(d), Typed(d), NEW b, b.height \in Height
    PROVE  Typed(AddBlock(d, b).db)
<1> DEFINE m == BlockDefaults(BlockCreate(b, Now), Now)
           row == BlockSpec(m)
<1>1. row.height = b.height
  BY BlockRowKey
<1>2. AddBlock(d, b).db = Create(d, BlocksTable, BlockFields, m, row).db
  BY DEF AddBlock, SaveBlock
<1>3. IsRow(BlocksTable, row) /\ BlocksTable \in Tables
  BY RowOfIsRow DEF BlockSpec, Tables
<1>. HIDE DEF m, row
<1>4. RowTyped(BlocksTable, Numbered(d, BlocksTable, <<row>>)[1])
  <2> DEFINE rows == <<row>>
  <2>1. IsList(rows) /\ 1 \in DOMAIN rows /\ rows[1] = row
    BY OneRowIsList
  <2>. HIDE DEF rows
  <2>2. RowTyped(BlocksTable, Numbered(d, BlocksTable, rows)[1])
    BY <1>1, <1>3, <2>1, BlockNumberedTyped
  <2>. QED BY <2>2 DEF rows
<1>. QED BY <1>2, <1>3, <1>4, CreateTyped

LEMMA AddBlocksTyped ==
    ASSUME NEW d, Sound(d), Typed(d), NEW bs, IsList(bs), \A i \in DOMAIN bs : bs[i].height \in Height
    PROVE  Typed(AddBlocks(d, bs).db)
<1> DEFINE ms == [i \in DOMAIN bs |-> BlockDefaults(BlockCreate(bs[i], Now), Now)]
           rows == [i \in DOMAIN ms |-> BlockSpec(ms[i])]
<1>1. CASE bs = << >>
  BY <1>1 DEF AddBlocks
<1>2. CASE bs # << >>
  <2>1. AddBlocks(d, bs).db = CreateBulk(d, BlocksTable, BlockFields, ms, rows).db
    BY <1>2 DEF AddBlocks, Written, SaveBlocks
  <2>2. DOMAIN rows = DOMAIN ms /\ DOMAIN ms = DOMAIN bs /\ rows = [i \in DOMAIN bs |-> rows[i]]
    OBVIOUS
  <2>3. \A i \in DOMAIN bs : IsRow(BlocksTable, rows[i]) /\ rows[i].height = bs[i].height
    BY RowOfIsRow, BlockRowKey DEF BlockSpec
  <2>4. BlocksTable \in Tables
    BY DEF Tables
  <2>. HIDE DEF ms, rows
  <2>5. IsList(rows)
    BY <2>2, ListOf
  <2>6. \A i \in DOMAIN ms : RowTyped(BlocksTable, Numbered(d, BlocksTable, rows)[i])
    BY <2>2, <2>3, <2>5, BlockNumberedTyped
  <2>. QED BY <2>1, <2>2, <2>4, <2>5, <2>6, CreateBulkTyped
<1>. QED BY <1>1, <1>2

LEMMA AddTransactionTyped ==
    ASSUME NEW d, Sound(d), Typed(d), NEW h, NEW tx PROVE Typed(AddTransaction(d, h, tx).db)
<1> DEFINE m == TransactionDefaults(NewTransaction(h, tx), Now)
           row == TransactionSpec(m)
           rows == <<row>>
<1>1. row.id = Null
  BY TransactionRowHasNoKey DEF NewTransaction
<1>2. AddTransaction(d, h, tx).db = Create(d, TransactionsTable, TransactionFields, m, row).db
  BY DEF AddTransaction, Written, SaveTransaction
<1>3. IsRow(TransactionsTable, row) /\ TransactionsTable \in Tables
  BY RowOfIsRow DEF TransactionSpec, Tables
<1>. HIDE DEF m, row
<1>4. IsList(rows) /\ 1 \in DOMAIN rows /\ rows[1] = row
  BY OneRowIsList
<1>5. RowTyped(TransactionsTable, Numbered(d, TransactionsTable, rows)[1])
  <2>. HIDE DEF rows
  <2>. QED BY <1>1, <1>3, <1>4, NumberedTyped
<1>. QED BY <1>2, <1>3, <1>5, CreateTyped

LEMMA AddTransactionsTyped ==
    ASSUME NEW d, Sound(d), Typed(d), NEW h, NEW txs, IsList(txs)
    PROVE  Typed(AddTransactions(d, h, txs).db)
<1> DEFINE ms == [i \in DOMAIN txs |-> TransactionDefaults(NewTransaction(h, txs[i]), Now)]
           rows == [i \in DOMAIN ms |-> TransactionSpec(ms[i])]
<1>1. CASE txs = << >>
  BY <1>1 DEF AddTransactions
<1>2. CASE txs # << >>
  <2>1. AddTransactions(d, h, txs).db
          = CreateBulk(d, TransactionsTable, TransactionFields, ms, rows).db
    BY <1>2 DEF AddTransactions, SaveTransactions
  <2>2. DOMAIN rows = DOMAIN ms /\ DOMAIN ms = DOMAIN txs /\ rows = [i \in DOMAIN txs |-> rows[i]]
    OBVIOUS
  <2>3. \A i \in DOMAIN txs : IsRow(TransactionsTable, rows[i]) /\ rows[i].id = Null
    BY RowOfIsRow, TransactionRowHasNoKey DEF TransactionSpec, NewTransaction
  <2>4. TransactionsTable \in Tables
    BY DEF Tables
  <2>. HIDE DEF ms, rows
  <2>5. IsList(rows)
    BY <2>2, ListOf
  <2>6. \A i \in DOMAIN ms : RowTyped(TransactionsTable, Numbered(d, TransactionsTable, rows)[i])
    BY <2>2, <2>3, <2>5, NumberedTyped
  <2>. QED BY <2>1, <2>2, <2>4, <2>5, <2>6, CreateBulkTyped
<1>. QED BY <1>1, <1>2

LEMMA AddTransferTyped ==
    ASSUME NEW d, Sound(d), Typed(d), NEW tx, NEW t PROVE Typed(AddTransfer(d, tx, t).db)
<1> DEFINE m == TransferDefaults(NewTransfer(tx.hash, t), Now)
           row == TransferSpec(m)
           rows == <<row>>
<1>1. row.id = Null
  BY TransferRowOf
<1>2. AddTransfer(d, tx, t).db = Create(d, TransfersTable, TransferFields, m, row).db
  BY DEF AddTransfer, Written, SaveTransfer
<1>3. IsRow(TransfersTable, row) /\ TransfersTable \in Tables
  BY RowOfIsRow DEF TransferSpec, Tables
<1>. HIDE DEF m, row
<1>4. IsList(rows) /\ 1 \in DOMAIN rows /\ rows[1] = row
  BY OneRowIsList
<1>5. RowTyped(TransfersTable, Numbered(d, TransfersTable, rows)[1])
  <2>. HIDE DEF rows
  <2>. QED BY <1>1, <1>3, <1>4, NumberedTyped
<1>. QED BY <1>2, <1>3, <1>5, CreateTyped

LEMMA AddTransfersTyped ==
    ASSUME NEW d, Sound(d), Typed(d), NEW tx, NEW ts, IsList(ts)
    PROVE  Typed(AddTransfers(d, tx, ts).db)
<1> DEFINE ms == [i \in DOMAIN ts |-> TransferDefaults(NewTransfer(tx.hash, ts[i]), Now)]
           rows == [i \in DOMAIN ms |-> TransferSpec(ms[i])]
<1>1. AddTransfers(d, tx, ts).db = CreateBulk(d, TransfersTable, TransferFields, ms, rows).db
  <2>1. SaveTransfers(d, [i \in DOMAIN ts |-> NewTransfer(tx.hash, ts[i])], Now)
          = CreateBulk(d, TransfersTable, TransferFields, ms, rows)
    BY DEF SaveTransfers
  <2>. QED BY <2>1 DEF AddTransfers, Written
<1>2. DOMAIN rows = DOMAIN ms /\ DOMAIN ms = DOMAIN ts /\ rows = [i \in DOMAIN ts |-> rows[i]]
  OBVIOUS
<1>3. \A i \in DOMAIN ts : IsRow(TransfersTable, rows[i]) /\ rows[i].id = Null
  BY RowOfIsRow, TransferRowOf DEF TransferSpec
<1>4. TransfersTable \in Tables
  BY DEF Tables
<1>. HIDE DEF ms, rows
<1>5. IsList(rows)
  BY <1>2, ListOf
<1>6. \A i \in DOMAIN ms : RowTyped(TransfersTable, Numbered(d, TransfersTable, rows)[i])
  BY <1>2, <1>3, <1>5, NumberedTyped
<1>. QED BY <1>1, <1>2, <1>4, <1>5, <1>6, CreateBulkTyped

\* The upsert's row has key 1, and no row changes its key.
LEMMA RestoreRowKey == ASSUME NEW start, NEW end PROVE RestoreRow(start, end).id = 1
<1> DEFINE v1 == [id |-> 1, restore_range_start |-> start]
           v2 == [restore_range_end |-> end, being_block |-> 0]
           m1 == SetFields(RestoreHistoryMutation, v1)
           m2 == SetFields(m1, v2)
<1>1. m2 = RestoreHistoryCreate(1, start, end, 0)
  BY DEF RestoreHistoryCreate, SetRestoreEnd, SetRestoreStart
<1>2. "id" \in DOMAIN v1 /\ v1["id"] = 1 /\ "id" \notin DOMAIN v2
  OBVIOUS
<1>. HIDE DEF v1, v2
<1>3. "id" \in DOMAIN m1.set /\ m1.set["id"] = 1
  BY <1>2, FieldsThatAreSet
<1>. HIDE DEF m1
<1>4. "id" \in DOMAIN m2.set /\ m2.set["id"] = 1
  BY <1>2, <1>3, FieldsThatAreSet
<1>. HIDE DEF m2
<1>5. "id" \in RestoreHistoriesTable.columns
  BY DEF RestoreHistoriesTable, RestoreHistoryColumns
<1>6. RowOf(RestoreHistoriesTable, m2)["id"] = 1
  BY <1>4, <1>5 DEF RowOf
<1>. QED BY <1>1, <1>6 DEF RestoreRow, RestoreHistorySpec

LEMMA SaveRestoringHistoryTyped ==
    ASSUME NEW d, Sound(d), Typed(d), NEW start, NEW end
    PROVE  Typed(SaveRestoringHistory(d, start, end).db)
<1> DEFINE t == RestoreHistoriesTable
           row == RestoreRow(start, end)
           rows == <<row>>
           S == RestoredRows(d, row)
           g == [r \in d.restore_histories |-> Restored(r, row)]
<1>1. /\ t \in Tables /\ t.name = "restore_histories" /\ t.id = "id"
      /\ t.columns = RestoreColumns \cup {"id"}
      /\ \A r : RowTyped(t, r) <=> r.id = 1
  BY DEF Tables, RestoreHistoriesTable, RestoreHistoryColumns, RestoreColumns, RowTyped,
         AccountsTable, BlocksTable, TransactionsTable, TransfersTable
<1>2. row.id = 1
  BY RestoreRowKey
<1>3. IsList(rows) /\ DOMAIN rows = {1} /\ rows[1] = row
  BY OneRowIsList
<1>. HIDE DEF t, row
<1>4. Typed(Insert(d, t, rows).db)
  <2>. HIDE DEF rows
  <2>1. rows[1][t.id] # Null
    BY <1>1, <1>2, <1>3, NullIsNoInteger
  <2>2. Numbered(d, t, rows)[1] = row
    BY <1>3, <2>1 DEF Numbered
  <2>3. \A i \in DOMAIN rows : RowTyped(t, Numbered(d, t, rows)[i])
    BY <1>1, <1>2, <1>3, <2>2
  <2>. QED BY <1>1, <1>3, <2>3, InsertTyped
<1>5. Typed([d EXCEPT !.restore_histories = S])
  <2>1. IsFiniteSet(S)
    <3>1. IsFiniteSet(d.restore_histories) /\ DOMAIN g = d.restore_histories
      BY <1>1 DEF Typed
    <3>2. S = {g[r] : r \in d.restore_histories}
      BY DEF RestoredRows
    <3>. HIDE DEF g
    <3>3. IsFiniteSet({g[r] : r \in d.restore_histories})
      BY <3>1, ImageIsFinite
    <3>. QED BY <3>2, <3>3
  <2>2. ASSUME NEW r \in d.restore_histories PROVE RowTyped(t, Restored(r, row))
    <3>1. r.id = 1 /\ IsRow(t, r)
      BY <1>1 DEF Typed, Sound, Consistent, Shaped
    <3>2. "id" \in DOMAIN r /\ "id" \notin RestoreColumns
      BY <1>1, <3>1 DEF IsRow, RestoreColumns
    <3>. QED BY <1>1, <3>1, <3>2 DEF Restored
  <2>3. \A s \in S : RowTyped(t, s)
    BY <2>2 DEF RestoredRows
  <2>. HIDE DEF S
  <2>4. Typed([d EXCEPT ![t.name] = S])
    BY <1>1, <2>1, <2>3, TypedOneTable DEF Sound, Consistent
  <2>. QED BY <1>1, <2>4
<1>6. SaveRestoringHistory(d, start, end).db
        \in {d, Insert(d, t, rows).db, [d EXCEPT !.restore_histories = S]}
  BY RestoreDoes DEF t, row
<1>. HIDE DEF rows, S
<1>. QED BY <1>4, <1>5, <1>6

---------------------------------------------------------------------------
(* Type correctness                                                        *)

TypedInv ==
    TablesInv /\ RestInv /\ Typed(db) /\ AreCalls(load.calls) /\ ServerTyped

\* Every call leaves rows of the right types.
LEMMA WritesAreTyped ==
    ASSUME TypedInv,
           \/ WriteBlock \/ WriteBlocks \/ WriteTransaction \/ WriteTransactions
           \/ WriteAccount \/ WriteBalance \/ WriteTransfer \/ WriteTransfers \/ WriteRestore
    PROVE  \E d, l : Write(d, l) /\ Typed(d)
<1>0. Sound(db) /\ Typed(db) /\ AreCalls(load.calls)
  BY DEF TypedInv, TablesInv
<1>1. CASE WriteBlock
  <2>1. PICK b \in load.calls.blocks : Write(AddBlock(db, b).db, ledger)
    BY <1>1 DEF WriteBlock
  <2>2. b.height \in Height
    BY <1>0 DEF AreCalls
  <2>. QED BY <1>0, <2>1, <2>2, AddBlockTyped
<1>2. CASE WriteBlocks
  <2>1. PICK bs \in load.calls.blockBatches : Write(AddBlocks(db, bs).db, ledger)
    BY <1>2 DEF WriteBlocks
  <2>2. IsList(bs) /\ \A i \in DOMAIN bs : bs[i].height \in Height
    BY <1>0 DEF AreCalls
  <2>. QED BY <1>0, <2>1, <2>2, AddBlocksTyped
<1>3. CASE WriteTransaction
  <2>1. PICK h, tx : Write(AddTransaction(db, h, tx).db, ledger)
    BY <1>3 DEF WriteTransaction
  <2>. QED BY <1>0, <2>1, AddTransactionTyped
<1>4. CASE WriteTransactions
  <2>1. PICK h \in load.calls.heights, txs \in load.calls.transactionBatches :
            Write(AddTransactions(db, h, txs).db, ledger)
    BY <1>4 DEF WriteTransactions
  <2>2. IsList(txs)
    BY <1>0 DEF AreCalls
  <2>. QED BY <1>0, <2>1, <2>2, AddTransactionsTyped
<1>5. CASE WriteAccount
  <2>1. PICK a \in load.calls.accounts : Write(AddAccount(db, a).db, ledger)
    BY <1>5 DEF WriteAccount
  <2>2. a \in CreatedAccount
    BY <1>0 DEF AreCalls
  <2>. QED BY <1>0, <2>1, <2>2, AddAccountTyped
<1>6. CASE WriteBalance
  <2>1. PICK a \in load.calls.accounts, n \in load.calls.amounts : \E l :
            Write(IncrementAccountBalance(db, a.address, a.token, n).db, l)
    BY <1>6 DEF WriteBalance
  <2>2. n \in Int
    BY <1>0 DEF AreCalls
  <2>. QED BY <1>0, <2>1, <2>2, IncrementTyped
<1>7. CASE WriteTransfer
  <2>1. PICK t \in load.calls.transfers :
            Write(AddTransfer(db, [hash |-> t.hash], t.transfer).db, ledger)
    BY <1>7 DEF WriteTransfer
  <2>. QED BY <1>0, <2>1, AddTransferTyped
<1>8. CASE WriteTransfers
  <2>1. PICK b \in load.calls.transferBatches :
            Write(AddTransfers(db, [hash |-> b.hash], b.transfers).db, ledger)
    BY <1>8 DEF WriteTransfers
  <2>2. IsList(b.transfers)
    BY <1>0 DEF AreCalls
  <2>. QED BY <1>0, <2>1, <2>2, AddTransfersTyped
<1>9. CASE WriteRestore
  <2>1. PICK s : Write(SaveRestoringHistory(db, s, s + 1).db, [ledger EXCEPT !.restored = s])
    BY <1>9 DEF WriteRestore
  <2>. QED BY <1>0, <2>1, SaveRestoringHistoryTyped
<1>. QED BY <1>1, <1>2, <1>3, <1>4, <1>5, <1>6, <1>7, <1>8, <1>9

LEMMA TypedFrame == ASSUME Typed(db), UNCHANGED db PROVE Typed(db)'
  BY DEF Typed, RowTyped

LEMMA TypedInit == Init => TypedInv
<1> SUFFICES ASSUME Init PROVE TypedInv
  OBVIOUS
<1>1. \A t \in Tables : db[t.name] = {}
  BY DEF Init, NewRepositoryEnt, Tables, AccountsTable, BlocksTable, TransactionsTable,
         TransfersTable, RestoreHistoriesTable
<1>2. Typed(db)
  BY <1>1, FS_EmptySet DEF Typed
<1>3. AreCalls(load.calls)
  BY CallsAssumption DEF Init
<1>4. ServerTyped
  BY DEF Init, ServerTyped, RequestTyped, Idle
<1>. QED BY <1>2, <1>3, <1>4, TablesInit, RestInit DEF TypedInv

LEMMA TypedStep == TypedInv /\ [Next]_vars => TypedInv'
<1> SUFFICES ASSUME TypedInv, [Next]_vars PROVE TypedInv'
  OBVIOUS
<1>0. TablesInv' /\ RestInv'
  BY TablesStep, RestStep DEF TypedInv
<1>1. RestInv /\ ServerTyped /\ Typed(db) /\ AreCalls(load.calls)
  BY DEF TypedInv
<1>2. ASSUME UNCHANGED <<db, load>>, ServerTyped' PROVE TypedInv'
  BY <1>0, <1>1, <1>2, TypedFrame DEF TypedInv, AreCalls, IsList, IsTransfer
<1>3. CASE UNCHANGED vars
  <2>1. ServerTyped'
    BY <1>1, <1>3, ResponseFrame DEF vars, ServerTyped, RequestTyped
  <2>. QED BY <1>2, <1>3, <2>1 DEF vars
<1>4. ASSUME NEW c \in Clients, Hit(c) \/ Miss(c) \/ Handle(c) \/ Respond(c) \/ Leave(c)
      PROVE  TypedInv'
  <2>1. UNCHANGED <<db, load>>
    BY <1>4 DEF Hit, Miss, Handle, Respond, Leave
  <2>2. ServerTyped'
    BY <1>1, <1>4, HitTyped, MissTyped, HandleTyped, RespondTyped, LeaveTyped
  <2>. QED BY <1>2, <2>1, <2>2
<1>5. CASE Evict \/ Tick
  <2>1. UNCHANGED <<db, load>>
    BY <1>5 DEF Evict, Tick
  <2>2. ServerTyped'
    BY <1>1, <1>5, CacheTyped
  <2>. QED BY <1>2, <2>1, <2>2
<1>6. CASE \/ WriteBlock \/ WriteBlocks \/ WriteTransaction \/ WriteTransactions
           \/ WriteAccount \/ WriteBalance \/ WriteTransfer \/ WriteTransfers \/ WriteRestore
  <2>1. PICK d, l : Write(d, l) /\ Typed(d)
    BY <1>6, WritesAreTyped
  <2>2. ServerTyped'
    BY <1>1, <2>1, WriteTyped
  <2>3. db' = d /\ load'.calls = load.calls
    BY <1>1, <2>1 DEF Write, RestInv, IsLoad
  <2>4. Typed(db)'
    BY <2>1, <2>3 DEF Typed, RowTyped
  <2>5. AreCalls(load.calls)'
    BY <1>1, <2>3 DEF AreCalls, IsList, IsTransfer
  <2>. QED BY <1>0, <2>2, <2>4, <2>5 DEF TypedInv
<1>. QED BY <1>3, <1>4, <1>5, <1>6 DEF Next

\* TypeOK: in every table the rows have the table's columns, with amounts that are whole
\* numbers however they were rounded, heights of blocks and keys that are set; and every
\* request and entry of the server is well formed.
THEOREM RowsAndRequestsAreTyped == Spec => []TypeOK
<1>1. TypedInv => TypeOK
  <2> SUFFICES ASSUME TypedInv PROVE TypeOK
    OBVIOUS
  <2>1. \A t \in Tables : \A r \in db[t.name] : IsRow(t, r) /\ RowTyped(t, r)
    BY DEF TypedInv, TablesInv, Sound, Consistent, Shaped, Typed
  <2>2. \A t \in Tables : \A r \in db[t.name] : DOMAIN r = t.columns
    BY <2>1 DEF IsRow
  <2>3. ASSUME NEW r \in db.accounts
        PROVE  r \in [address : Address, token : Token, amount : Int]
    <3>1. IsRow(AccountsTable, r) /\ RowTyped(AccountsTable, r)
      BY <2>1 DEF Tables, AccountsTable
    <3>2. r = [c \in {"address", "token", "amount"} |-> r[c]]
      BY <3>1 DEF IsRow, AccountsTable, AccountColumns
    <3>3. r.address \in Address /\ r.token \in Token /\ r.amount \in Int
      BY <3>1 DEF RowTyped
    <3>4. r = [address |-> r.address, token |-> r.token, amount |-> r.amount]
      BY <3>2
    <3>. QED BY <3>3, <3>4
  <2>4. \A r \in db.blocks : DOMAIN r = BlockColumns /\ r.height \in Height
    <3>1. BlocksTable \in Tables /\ BlocksTable.name = "blocks"
          /\ BlocksTable.columns = BlockColumns
      BY DEF Tables, BlocksTable
    <3>. QED BY <2>1, <2>2, <3>1 DEF RowTyped
  <2>5. \A r \in db.transactions : DOMAIN r = TransactionColumns /\ r.id \in Nat \ {0}
    <3>1. TransactionsTable \in Tables /\ TransactionsTable.name = "transactions"
          /\ TransactionsTable.columns = TransactionColumns
      BY DEF Tables, TransactionsTable
    <3>. QED BY <2>1, <2>2, <3>1 DEF RowTyped
  <2>6. \A r \in db.transfers : DOMAIN r = TransferColumns /\ r.id \in Nat \ {0}
    <3>1. TransfersTable \in Tables /\ TransfersTable.name = "transfers"
          /\ TransfersTable.columns = TransferColumns
      BY DEF Tables, TransfersTable
    <3>. QED BY <2>1, <2>2, <3>1 DEF RowTyped
  <2>7. \A r \in db.restore_histories : DOMAIN r = RestoreHistoryColumns /\ r.id = 1
    <3>1. RestoreHistoriesTable \in Tables /\ RestoreHistoriesTable.name = "restore_histories"
          /\ RestoreHistoriesTable.columns = RestoreHistoryColumns
      BY DEF Tables, RestoreHistoriesTable
    <3>. QED BY <2>1, <2>2, <3>1 DEF RowTyped
  <2>8. \A e \in cache : e.age \in 0 .. TTL - 1
    BY DEF TypedInv, ServerTyped
  <2>9. \A c \in Clients :
           /\ requests[c].state \in {"idle", "handling", "handled", "answered"}
           /\ requests[c].state # "idle" => requests[c].request \in load.requests
           /\ requests[c].state \in {"handled", "answered"} => requests[c].response \in Response
    BY DEF TypedInv, ServerTyped, RequestTyped, RestInv, RequestsTrue, RequestTrue
  <2>. QED BY <2>3, <2>4, <2>5, <2>6, <2>7, <2>8, <2>9 DEF TypeOK
<1>. QED BY <1>1, TypedInit, TypedStep, PTL DEF Spec

---------------------------------------------------------------------------
(* Balances and what was added to them                                     *)

\* Only the rows of table t have changed.
OnlyIn(t, d, e) == \A n \in Names \ {t.name} : e[n] = d[n]

LEMMA OneTableChanges ==
    ASSUME NEW d, IsDb(d), NEW t, NEW S PROVE OnlyIn(t, d, [d EXCEPT ![t.name] = S])
  BY DEF OnlyIn, IsDb

LEMMA InsertsInOne ==
    ASSUME NEW d, IsDb(d), NEW t, NEW rows PROVE OnlyIn(t, d, Insert(d, t, rows).db)
<1>1. PICK S : Insert(d, t, rows).db \in {d, [d EXCEPT ![t.name] = S]}
  BY DEF Insert, Failed, Done
<1> DEFINE e == [d EXCEPT ![t.name] = S]
<1>2. OnlyIn(t, d, e) /\ OnlyIn(t, d, d)
  BY OneTableChanges DEF OnlyIn
<1>. HIDE DEF e
<1>3. Insert(d, t, rows).db \in {d, e}
  BY <1>1 DEF e
<1>. QED BY <1>2, <1>3

LEMMA CreatesInOne ==
    ASSUME NEW d, IsDb(d), NEW t, NEW fields, NEW m, NEW row
    PROVE  OnlyIn(t, d, Create(d, t, fields, m, row).db)
<1>1. Create(d, t, fields, m, row).db \in {d, Insert(d, t, <<row>>).db}
  BY DEF Create, Failed
<1>. QED BY <1>1, InsertsInOne DEF OnlyIn

LEMMA CreatesBulkInOne ==
    ASSUME NEW d, IsDb(d), NEW t, NEW fields, NEW ms, NEW rows
    PROVE  OnlyIn(t, d, CreateBulk(d, t, fields, ms, rows).db)
<1>1. CreateBulk(d, t, fields, ms, rows).db \in {d, Insert(d, t, rows).db}
  BY DEF CreateBulk, Failed, Done
<1>. QED BY <1>1, InsertsInOne DEF OnlyIn

LEMMA BlocksChangeBlocks ==
    ASSUME NEW d, IsDb(d)
    PROVE  /\ \A b : OnlyIn(BlocksTable, d, AddBlock(d, b).db)
           /\ \A bs : OnlyIn(BlocksTable, d, AddBlocks(d, bs).db)
<1>1. ASSUME NEW b PROVE OnlyIn(BlocksTable, d, AddBlock(d, b).db)
  BY CreatesInOne DEF AddBlock, SaveBlock
<1>2. ASSUME NEW bs PROVE OnlyIn(BlocksTable, d, AddBlocks(d, bs).db)
  <2>1. CASE bs = << >>
    BY <2>1 DEF AddBlocks, OnlyIn
  <2>2. CASE bs # << >>
    BY <2>2, CreatesBulkInOne DEF AddBlocks, Written, SaveBlocks
  <2>. QED BY <2>1, <2>2
<1>. QED BY <1>1, <1>2

LEMMA TransactionsChangeTransactions ==
    ASSUME NEW d, IsDb(d), NEW h
    PROVE  /\ \A tx : OnlyIn(TransactionsTable, d, AddTransaction(d, h, tx).db)
           /\ \A txs : OnlyIn(TransactionsTable, d, AddTransactions(d, h, txs).db)
<1>1. ASSUME NEW tx PROVE OnlyIn(TransactionsTable, d, AddTransaction(d, h, tx).db)
  BY CreatesInOne DEF AddTransaction, Written, SaveTransaction
<1>2. ASSUME NEW txs PROVE OnlyIn(TransactionsTable, d, AddTransactions(d, h, txs).db)
  <2>1. CASE txs = << >>
    BY <2>1 DEF AddTransactions, OnlyIn
  <2>2. CASE txs # << >>
    BY <2>2, CreatesBulkInOne DEF AddTransactions, SaveTransactions
  <2>. QED BY <2>1, <2>2
<1>. QED BY <1>1, <1>2

LEMMA TransfersChangeTransfers ==
    ASSUME NEW d, IsDb(d), NEW tx
    PROVE  /\ \A t : OnlyIn(TransfersTable, d, AddTransfer(d, tx, t).db)
           /\ \A ts : OnlyIn(TransfersTable, d, AddTransfers(d, tx, ts).db)
<1>1. ASSUME NEW t PROVE OnlyIn(TransfersTable, d, AddTransfer(d, tx, t).db)
  BY CreatesInOne DEF AddTransfer, Written, SaveTransfer
<1>2. ASSUME NEW ts PROVE OnlyIn(TransfersTable, d, AddTransfers(d, tx, ts).db)
  BY CreatesBulkInOne DEF AddTransfers, Written, SaveTransfers
<1>. QED BY <1>1, <1>2

LEMMA RestoresChangeRestores ==
    ASSUME NEW d, IsDb(d), NEW start, NEW end
    PROVE  OnlyIn(RestoreHistoriesTable, d, SaveRestoringHistory(d, start, end).db)
<1> DEFINE row == RestoreRow(start, end)
           e == SaveRestoringHistory(d, start, end).db
<1>1. e \in {d, Insert(d, RestoreHistoriesTable, <<row>>).db,
             [d EXCEPT !.restore_histories = RestoredRows(d, row)]}
  BY RestoreDoes
<1>2. RestoreHistoriesTable.name = "restore_histories"
  BY DEF RestoreHistoriesTable
<1>. HIDE DEF e, row
<1>3. OnlyIn(RestoreHistoriesTable, d, [d EXCEPT !.restore_histories = RestoredRows(d, row)])
  BY <1>2 DEF OnlyIn, IsDb
<1>4. OnlyIn(RestoreHistoriesTable, d, e)
  BY <1>1, <1>3, InsertsInOne DEF OnlyIn
<1>. QED BY <1>4 DEF e

LEMMA AccountsApart ==
    \A t \in Tables \ {AccountsTable} : \A d, e : OnlyIn(t, d, e) => e.accounts = d.accounts
  BY DEF OnlyIn, Names, Tables, AccountsTable, BlocksTable, TransactionsTable, TransfersTable,
         RestoreHistoriesTable

Keys == Address \X Token
RowKey(r) == <<r.address, r.token>>

LedgerTyped(l) ==
    /\ l = [exact |-> l.exact, volume |-> l.volume, restored |-> l.restored]
    /\ l.exact \in [Keys -> Int] /\ l.volume \in [Keys -> Nat]

\* ExactWhileSmall, for any database and history.
Balanced(d, l) ==
    \A r \in d.accounts : l.volume[RowKey(r)] <= 2^Mantissa => r.amount = l.exact[RowKey(r)]

\* A sum is no larger than what has gone through the account ...
VolumeBounds(l) == \A k \in Keys : l.exact[k] <= l.volume[k] /\ -l.exact[k] <= l.volume[k]

\* ... and nothing has been added where there is no row.
Untouched(d, l) == \A k \in Keys : (\A r \in d.accounts : RowKey(r) # k) => l.exact[k] = 0

Explained(d, l) == LedgerTyped(l) /\ Balanced(d, l) /\ VolumeBounds(l) /\ Untouched(d, l)

LedgerInv == TypedInv /\ Explained(db, ledger)

LEMMA TypedAccount ==
    ASSUME NEW d, Sound(d), Typed(d), NEW r \in d.accounts
    PROVE  /\ r = [c \in AccountColumns |-> r[c]]
           /\ r.address \in Address /\ r.token \in Token /\ r.amount \in Int /\ RowKey(r) \in Keys
<1>1. AccountsTable \in Tables /\ AccountsTable.name = "accounts"
      /\ AccountsTable.columns = AccountColumns
  BY DEF Tables, AccountsTable
<1>2. IsRow(AccountsTable, r) /\ RowTyped(AccountsTable, r)
  BY <1>1 DEF Sound, Consistent, Shaped, Typed
<1>. QED BY <1>1, <1>2 DEF IsRow, RowTyped, RowKey, Keys

\* Calls that leave the accounts alone.
LEMMA ExplainedElsewhere ==
    ASSUME NEW d, NEW l, Explained(d, l), NEW e, e.accounts = d.accounts, NEW s
    PROVE  Explained(e, l) /\ Explained(e, [l EXCEPT !.restored = s])
<1> DEFINE m == [l EXCEPT !.restored = s]
<1>1. m = [exact |-> l.exact, volume |-> l.volume, restored |-> s]
  BY DEF Explained, LedgerTyped
<1>2. LedgerTyped(m) /\ m.exact = l.exact /\ m.volume = l.volume
  BY <1>1 DEF Explained, LedgerTyped
<1>. HIDE DEF m
<1>3. Explained(e, l)
  BY DEF Explained, Balanced, Untouched
<1>4. Explained(e, m)
  BY <1>2, <1>3 DEF Explained, Balanced, Untouched, VolumeBounds
<1>. QED BY <1>3, <1>4 DEF m

\* A new account has an empty balance, and nothing has been added to it.
LEMMA ExplainedAfterAddAccount ==
    ASSUME NEW d, NEW l, Sound(d), Typed(d), Explained(d, l), NEW a \in CreatedAccount
    PROVE  Explained(AddAccount(d, a).db, l)
<1> DEFINE e == [d EXCEPT !.accounts = @ \cup {NewRow(a)}]
<1>1. CASE ~MayAdd(d, a)
  BY <1>1, AddAccountDoes
<1>2. CASE MayAdd(d, a)
  <2>1. a.address \in Address /\ a.token \in Token /\ a.amount = 0
        /\ \A r \in d.accounts : r.address # a.address
    BY <1>2 DEF MayAdd, CreatedAccount, Blank
  <2>2. Float(a.amount) = 0
    <3>1. Mantissa \in Nat
      BY MantissaIsPositive
    <3> DEFINE top == 2^Mantissa
    <3>2. top \in Nat
      BY <3>1, PowerCounts
    <3>3. 0 \in Int /\ 0 <= top /\ -0 <= top
      <4>. HIDE DEF top
      <4>. QED BY <3>2
    <3>4. Float(0) = 0
      BY <3>3, FloatIsExact
    <3>. QED BY <2>1, <3>4
  <2>3. NewRow(a).address = a.address /\ NewRow(a).token = a.token /\ NewRow(a).amount = 0
    BY <2>2 DEF NewRow
  <2>4. RowKey(NewRow(a)) \in Keys /\ l.exact[RowKey(NewRow(a))] = 0
    <3>1. RowKey(NewRow(a)) = <<a.address, a.token>>
      BY <2>3 DEF RowKey
    <3>2. \A r \in d.accounts : RowKey(r) # <<a.address, a.token>>
      BY <2>1 DEF RowKey
    <3>. QED BY <2>1, <3>1, <3>2 DEF Explained, Untouched, Keys
  <2>5. e.accounts = d.accounts \cup {NewRow(a)}
    <3>1. "accounts" \in DOMAIN d
      BY DEF Sound, Consistent, IsDb, Names, Tables, AccountsTable
    <3>. QED BY <3>1
  <2>. HIDE DEF e
  <2>6. Balanced(e, l)
    BY <2>3, <2>4, <2>5 DEF Explained, Balanced
  <2>7. Untouched(e, l)
    BY <2>5 DEF Explained, Untouched
  <2>8. AddAccount(d, a).db = e
    BY <1>2, AddAccountDoes DEF e
  <2>. QED BY <2>6, <2>7, <2>8 DEF Explained
<1>. QED BY <1>1, <1>2

\* One addition to a balance that has had no more than 2^Mantissa go through it.
LEMMA AdditionIsExact ==
    ASSUME NEW amount \in Int, NEW n \in Int, NEW volume \in Nat, NEW size \in Nat,
           n <= size, -n <= size, amount <= volume, -amount <= volume,
           volume + size <= 2^Mantissa
    PROVE  Float(amount + Float(Float(n))) = amount + n
<1> DEFINE top == 2^Mantissa
<1>1. top \in Nat /\ volume + size <= top
  BY MantissaIsPositive, PowerCounts
<1>. HIDE DEF top
<1>2. n <= top /\ -n <= top /\ amount + n <= top /\ -(amount + n) <= top /\ amount + n \in Int
  BY <1>1
<1>3. Float(n) = n
  BY <1>2, FloatIsExact DEF top
<1> DEFINE sum == amount + n
<1>4. Float(sum) = sum
  <2>1. sum \in Int /\ sum <= top /\ -sum <= top
    BY <1>2
  <2>. HIDE DEF sum
  <2>. QED BY <2>1, FloatIsExact DEF top
<1>. QED BY <1>3, <1>4

\* What WriteBalance notes in the history.
Size(n) == IF n < 0 THEN -n ELSE n
Added(l, key, n) == [l EXCEPT !.exact[key] = @ + n, !.volume[key] = @ + Size(n)]
Noted(d, l, a, n) ==
    IF ~\E r \in d.accounts : r.address = a.address /\ r.token = a.token THEN l
    ELSE Added(l, <<a.address, a.token>>, n)

LEMMA AddedDoes ==
    ASSUME NEW l, LedgerTyped(l), NEW key \in Keys, NEW n \in Int
    PROVE  LET m == Added(l, key, n)
           IN  /\ LedgerTyped(m)
               /\ m.exact[key] = l.exact[key] + n /\ m.volume[key] = l.volume[key] + Size(n)
               /\ \A k \in Keys \ {key} : m.exact[k] = l.exact[k] /\ m.volume[k] = l.volume[k]
<1> DEFINE x == [l.exact EXCEPT ![key] = @ + n]
           v == [l.volume EXCEPT ![key] = @ + Size(n)]
           m == Added(l, key, n)
<1>1. m = [exact |-> x, volume |-> v, restored |-> l.restored]
  <2>1. PICK e, f, g : l = [exact |-> e, volume |-> f, restored |-> g]
    BY DEF LedgerTyped
  <2>2. l.exact = e /\ l.volume = f /\ l.restored = g
    BY <2>1
  <2>3. [l EXCEPT !.exact[key] = @ + n] = [exact |-> x, volume |-> f, restored |-> g]
    BY <2>1, <2>2
  <2>4. m = [[l EXCEPT !.exact[key] = @ + n] EXCEPT !.volume[key] = @ + Size(n)]
    BY <2>1, <2>2 DEF Added
  <2>5. [[exact |-> x, volume |-> f, restored |-> g] EXCEPT !.volume[key] = @ + Size(n)]
          = [exact |-> x, volume |-> [f EXCEPT ![key] = @ + Size(n)], restored |-> g]
    OBVIOUS
  <2>. HIDE DEF x, v, m
  <2>6. v = [f EXCEPT ![key] = @ + Size(n)]
    BY <2>2 DEF v
  <2>. QED BY <2>2, <2>3, <2>4, <2>5, <2>6
<1>2. Size(n) \in Nat
  BY DEF Size
<1>3. x \in [Keys -> Int] /\ v \in [Keys -> Nat]
  BY <1>2 DEF LedgerTyped
<1>4. /\ x[key] = l.exact[key] + n /\ v[key] = l.volume[key] + Size(n)
      /\ \A k \in Keys \ {key} : x[k] = l.exact[k] /\ v[k] = l.volume[k]
  BY DEF LedgerTyped
<1>. HIDE DEF x, v, m
<1>5. m.exact = x /\ m.volume = v /\ m.restored = l.restored
  BY <1>1
<1>6. LedgerTyped(m)
  BY <1>1, <1>3, <1>5 DEF LedgerTyped
<1>. QED BY <1>4, <1>5, <1>6 DEF m

\* An addition to the row's column is an addition to its sum, unless more has gone through it.
LEMMA ExplainedAfterIncrement ==
    ASSUME NEW d, NEW l, Sound(d), Typed(d), Explained(d, l), NEW a, NEW n \in Int
    PROVE  Explained(IncrementAccountBalance(d, a.address, a.token, n).db, Noted(d, l, a, n))
<1> DEFINE key == <<a.address, a.token>>
           Inc(r) == Incremented(r, a.address, a.token, n)
           e == [d EXCEPT !.accounts = IncrementedRows(d, a.address, a.token, n)]
           m == Noted(d, l, a, n)
           found == \E r \in d.accounts : r.address = a.address /\ r.token = a.token
<1>1. IncrementAccountBalance(d, a.address, a.token, n).db = e
  BY IncrementDoes
<1>2. e.accounts = {Inc(r) : r \in d.accounts}
  BY DEF IncrementedRows, Sound, Consistent, IsDb, Names, Tables, AccountsTable
<1>3. CASE ~found
  <2>1. m = l
    BY <1>3 DEF Noted
  <2>2. \A r \in d.accounts : Inc(r) = r
    BY <1>3 DEF Incremented
  <2>. HIDE DEF Inc, m, e
  <2>3. e.accounts = d.accounts
    BY <1>2, <2>2
  <2>. QED BY <1>1, <2>1, <2>3, ExplainedElsewhere DEF m
<1>4. CASE found
  <2>1. key \in Keys
    BY <1>4, TypedAccount DEF RowKey
  <2>2. m = Added(l, key, n)
    BY <1>4 DEF Noted
  <2>3. LedgerTyped(l)
    BY DEF Explained
  <2>. HIDE DEF m, key, e
  <2>4. /\ LedgerTyped(m)
        /\ m.exact[key] = l.exact[key] + n /\ m.volume[key] = l.volume[key] + Size(n)
        /\ \A k \in Keys \ {key} : m.exact[k] = l.exact[k] /\ m.volume[k] = l.volume[k]
    BY <2>1, <2>2, <2>3, AddedDoes
  <2>5. Size(n) \in Nat /\ n <= Size(n) /\ -n <= Size(n)
    BY DEF Size
  <2>6. /\ l.exact[key] \in Int /\ l.volume[key] \in Nat
        /\ l.exact[key] <= l.volume[key] /\ -l.exact[key] <= l.volume[key]
    BY <2>1 DEF Explained, LedgerTyped, VolumeBounds
  <2>7. VolumeBounds(m)
    <3>1. m.exact[key] <= m.volume[key] /\ -m.exact[key] <= m.volume[key]
      BY <2>4, <2>5, <2>6
    <3>. QED BY <2>4, <3>1 DEF VolumeBounds, Explained
  <2>8. ASSUME NEW r \in d.accounts
        PROVE  /\ RowKey(Inc(r)) = RowKey(r)
               /\ m.volume[RowKey(r)] <= 2^Mantissa => Inc(r).amount = m.exact[RowKey(r)]
    <3>1. /\ r = [c \in AccountColumns |-> r[c]]
          /\ r.address \in Address /\ r.token \in Token /\ r.amount \in Int /\ RowKey(r) \in Keys
      BY TypedAccount
    <3>2. l.volume[RowKey(r)] <= 2^Mantissa => r.amount = l.exact[RowKey(r)]
      BY DEF Explained, Balanced
    <3>3. CASE RowKey(r) # key
      <4>1. Inc(r) = r
        BY <3>3 DEF Incremented, RowKey, key
      <4>2. m.volume[RowKey(r)] = l.volume[RowKey(r)] /\ m.exact[RowKey(r)] = l.exact[RowKey(r)]
        BY <2>4, <3>1, <3>3
      <4>. QED BY <3>2, <4>1, <4>2
    <3>4. CASE RowKey(r) = key
      <4>1. r.address = a.address /\ r.token = a.token
        BY <3>4 DEF RowKey, key
      <4>2. Inc(r) = [r EXCEPT !.amount = Float(r.amount + Float(Float(n)))]
        BY <4>1 DEF Incremented
      <4> DEFINE new == Float(r.amount + Float(Float(n)))
      <4>3. DOMAIN r = {"address", "token", "amount"}
        BY <3>1 DEF AccountColumns
      <4>. HIDE DEF new
      <4>4. Inc(r).address = r.address /\ Inc(r).token = r.token /\ Inc(r).amount = new
        BY <4>2, <4>3 DEF new
      <4>5. ASSUME m.volume[key] <= 2^Mantissa PROVE new = m.exact[key]
        <5> DEFINE top == 2^Mantissa
        <5>1. top \in Nat
          BY MantissaIsPositive, PowerCounts
        <5>2. l.volume[key] + Size(n) <= top
          BY <2>4, <4>5
        <5>. HIDE DEF top
        <5>3. l.volume[key] <= top
          BY <2>5, <2>6, <5>1, <5>2
        <5>4. r.amount = l.exact[key]
          BY <3>2, <3>4, <5>3 DEF top
        <5>5. Float(l.exact[key] + Float(Float(n))) = l.exact[key] + n
          <6>1. PICK x, v, s : x = l.exact[key] /\ v = l.volume[key] /\ s = Size(n)
            OBVIOUS
          <6>2. x \in Int /\ v \in Nat /\ s \in Nat /\ n <= s /\ -n <= s
                /\ x <= v /\ -x <= v /\ v + s <= 2^Mantissa
            BY <2>5, <2>6, <5>2, <6>1 DEF top
          <6>3. Float(x + Float(Float(n))) = x + n
            BY <6>2, AdditionIsExact
          <6>. QED BY <6>1, <6>3
        <5>. QED BY <2>4, <5>4, <5>5 DEF new
      <4>. QED BY <3>4, <4>4, <4>5 DEF RowKey
    <3>. QED BY <3>3, <3>4
  <2>. HIDE DEF Inc
  <2>9. Balanced(e, m)
    <3>1. ASSUME NEW s \in e.accounts, m.volume[RowKey(s)] <= 2^Mantissa
          PROVE  s.amount = m.exact[RowKey(s)]
      <4>1. PICK r \in d.accounts : s = Inc(r)
        BY <1>2
      <4>. QED BY <2>8, <3>1, <4>1
    <3>. QED BY <3>1 DEF Balanced
  <2>10. Untouched(e, m)
    <3>1. ASSUME NEW k \in Keys, \A s \in e.accounts : RowKey(s) # k PROVE m.exact[k] = 0
      <4>1. \A r \in d.accounts : RowKey(r) # k
        BY <1>2, <2>8, <3>1
      <4>2. k # key
        BY <1>4, <4>1 DEF RowKey, key
      <4>3. l.exact[k] = 0
        BY <4>1 DEF Explained, Untouched
      <4>. QED BY <2>4, <4>2, <4>3
    <3>. QED BY <3>1 DEF Untouched
  <2>11. Explained(e, m)
    BY <2>4, <2>7, <2>9, <2>10 DEF Explained
  <2>. QED BY <1>1, <2>11 DEF m, e
<1>. QED BY <1>3, <1>4

LEMMA LedgerInit == Init => LedgerInv
<1> SUFFICES ASSUME Init PROVE LedgerInv
  OBVIOUS
<1> DEFINE zero == [k \in Keys |-> 0]
<1>1. ledger = [exact |-> zero, volume |-> zero, restored |-> 1] /\ db.accounts = {}
  BY DEF Init, Keys, NewRepositoryEnt
<1>2. zero \in [Keys -> Int] /\ zero \in [Keys -> Nat] /\ \A k \in Keys : zero[k] = 0
  OBVIOUS
<1>. HIDE DEF zero
<1>3. LedgerTyped(ledger) /\ VolumeBounds(ledger)
  BY <1>1, <1>2 DEF LedgerTyped, VolumeBounds
<1>4. Balanced(db, ledger) /\ Untouched(db, ledger)
  BY <1>1, <1>2 DEF Balanced, Untouched
<1>. QED BY <1>3, <1>4, TypedInit DEF LedgerInv, Explained

LEMMA ExplainedFrame == ASSUME Explained(db, ledger), UNCHANGED <<db, ledger>>
                        PROVE  Explained(db, ledger)'
  BY DEF Explained, LedgerTyped, Balanced, VolumeBounds, Untouched, RowKey, Keys

\* Every call notes what it adds.
LEMMA WritesAreExplained ==
    ASSUME LedgerInv,
           \/ WriteBlock \/ WriteBlocks \/ WriteTransaction \/ WriteTransactions
           \/ WriteAccount \/ WriteBalance \/ WriteTransfer \/ WriteTransfers \/ WriteRestore
    PROVE  \E d, l : Write(d, l) /\ Explained(d, l)
<1>0. Sound(db) /\ Typed(db) /\ AreCalls(load.calls) /\ Explained(db, ledger) /\ IsDb(db)
  BY DEF LedgerInv, TypedInv, TablesInv, Sound, Consistent
<1>1. ASSUME NEW d, NEW t \in Tables \ {AccountsTable}, OnlyIn(t, db, d), Write(d, ledger)
      PROVE  \E e, l : Write(e, l) /\ Explained(e, l)
  BY <1>0, <1>1, AccountsApart, ExplainedElsewhere
<1>2. {BlocksTable, TransactionsTable, TransfersTable, RestoreHistoriesTable}
        \subseteq Tables \ {AccountsTable}
  BY DEF Tables, AccountsTable, BlocksTable, TransactionsTable, TransfersTable,
         RestoreHistoriesTable
<1>3. CASE WriteBlock \/ WriteBlocks
  <2>1. PICK d : Write(d, ledger) /\ OnlyIn(BlocksTable, db, d)
    BY <1>0, <1>3, BlocksChangeBlocks DEF WriteBlock, WriteBlocks
  <2>. QED BY <1>1, <1>2, <2>1
<1>4. CASE WriteTransaction \/ WriteTransactions
  <2>1. PICK d : Write(d, ledger) /\ OnlyIn(TransactionsTable, db, d)
    BY <1>0, <1>4, TransactionsChangeTransactions DEF WriteTransaction, WriteTransactions
  <2>. QED BY <1>1, <1>2, <2>1
<1>5. CASE WriteTransfer \/ WriteTransfers
  <2>1. PICK d : Write(d, ledger) /\ OnlyIn(TransfersTable, db, d)
    BY <1>0, <1>5, TransfersChangeTransfers DEF WriteTransfer, WriteTransfers
  <2>. QED BY <1>1, <1>2, <2>1
<1>6. CASE WriteRestore
  <2>1. PICK s : Write(SaveRestoringHistory(db, s, s + 1).db, [ledger EXCEPT !.restored = s])
    BY <1>6 DEF WriteRestore
  <2> DEFINE d == SaveRestoringHistory(db, s, s + 1).db
  <2>2. OnlyIn(RestoreHistoriesTable, db, d)
    BY <1>0, RestoresChangeRestores
  <2>. HIDE DEF d
  <2>3. d.accounts = db.accounts
    BY <1>2, <2>2, AccountsApart
  <2>4. Explained(d, [ledger EXCEPT !.restored = s])
    BY <1>0, <2>3, ExplainedElsewhere
  <2>. QED BY <2>1, <2>4 DEF d
<1>7. CASE WriteAccount
  <2>1. PICK a \in load.calls.accounts : Write(AddAccount(db, a).db, ledger)
    BY <1>7 DEF WriteAccount
  <2>2. a \in CreatedAccount
    BY <1>0 DEF AreCalls
  <2>. QED BY <1>0, <2>1, <2>2, ExplainedAfterAddAccount
<1>8. CASE WriteBalance
  <2>1. PICK a \in load.calls.accounts, n \in load.calls.amounts :
            Write(IncrementAccountBalance(db, a.address, a.token, n).db, Noted(db, ledger, a, n))
    BY <1>8 DEF WriteBalance, Noted, Added, Size
  <2>2. n \in Int
    BY <1>0 DEF AreCalls
  <2>3. Explained(IncrementAccountBalance(db, a.address, a.token, n).db, Noted(db, ledger, a, n))
    BY <1>0, <2>2, ExplainedAfterIncrement
  <2>. QED BY <2>1, <2>3
<1>. QED BY <1>3, <1>4, <1>5, <1>6, <1>7, <1>8

LEMMA LedgerStep == LedgerInv /\ [Next]_vars => LedgerInv'
<1> SUFFICES ASSUME LedgerInv, [Next]_vars PROVE LedgerInv'
  OBVIOUS
<1>0. TypedInv' /\ Explained(db, ledger)
  BY TypedStep DEF LedgerInv
<1>1. CASE UNCHANGED <<db, ledger>>
  BY <1>0, <1>1, ExplainedFrame DEF LedgerInv
<1>2. CASE \/ WriteBlock \/ WriteBlocks \/ WriteTransaction \/ WriteTransactions
           \/ WriteAccount \/ WriteBalance \/ WriteTransfer \/ WriteTransfers \/ WriteRestore
  <2>1. PICK d, l : Write(d, l) /\ Explained(d, l)
    BY <1>2, WritesAreExplained
  <2>2. db' = d /\ ledger' = l
    BY <2>1 DEF Write
  <2>3. Explained(db, ledger)'
    BY <2>1, <2>2 DEF Explained, LedgerTyped, Balanced, VolumeBounds, Untouched, RowKey, Keys
  <2>. QED BY <1>0, <2>3 DEF LedgerInv
<1>3. CASE \E c \in Clients : Hit(c) \/ Miss(c) \/ Handle(c) \/ Respond(c) \/ Leave(c)
  BY <1>1, <1>3 DEF Hit, Miss, Handle, Respond, Leave
<1>4. CASE Evict \/ Tick \/ UNCHANGED vars
  BY <1>1, <1>4 DEF Evict, Tick, vars
<1>. QED BY <1>2, <1>3, <1>4 DEF Next

\* ExactWhileSmall: however the additions to an account are ordered and whatever other calls
\* come between them, float64(amount) and the float column (repository_ent.go, the account's
\* UPDATE) have lost nothing as long as at most 2^Mantissa has gone through the account.
THEOREM BalancesAreExactWhileSmall == Spec => []ExactWhileSmall
<1>1. LedgerInv => ExactWhileSmall
  BY DEF LedgerInv, Explained, Balanced, RowKey, ExactWhileSmall
<1>. QED BY <1>1, LedgerInit, LedgerStep, PTL DEF Spec
=============================================================================
