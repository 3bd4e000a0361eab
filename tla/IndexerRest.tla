---------------------------- MODULE IndexerRest ----------------------------
(***************************************************************************)
(* src/cmd/indexer-rest: the HTTP server that answers from the tables and  *)
(* caches its answers in memory for 60 seconds, while the event processor  *)
(* and the block synchronizer write to the same tables.  A request is      *)
(* looked up in the cache, its handler sends one query, and the response   *)
(* is stored on the way out: other requests, writes and the passing of     *)
(* time come between these steps.  The writers make any call of their      *)
(* repositories, in any order; what order they really use is in            *)
(* EventProcessor and BlockSynchronizer.                                   *)
(***************************************************************************)
EXTENDS RepositoryEnt

CONSTANTS Height, Address, Token, Hash, Name,  \* as in Repository
          Clients,   \* requests in flight at once (a bound)
          TTL,       \* lifetime of a cache entry: 60 s in the program, in ticks here
          Loads      \* the workloads explored: [calls, writes, requests] (a bound)

IsList(s) == s \in Seq({s[i] : i \in DOMAIN s})

\* A request is a method, the decoded path after /tokens, and the raw query string.  Both
\* texts are sequences of pieces ("/balances", "?", "address=", a token, an address ...)
\* that make up a text in one way only.
IsRequest(r) ==
    r = [method |-> r.method, path |-> r.path, query |-> r.query] /\ IsList(r.path) /\ IsList(r.query)

\* A workload says what may be called, how often the tables change, and what is asked.
IsLoad(l) == l = [calls |-> l.calls, writes |-> l.writes, requests |-> l.requests]
ASSUME LoadsAssumption == \A l \in Loads : IsLoad(l) /\ \A r \in l.requests : IsRequest(r)

\* What the writers' calls are given: block numbers, indexes and amounts are ints, none is
\* NULL, lists are sequences, accounts are created empty (service.go:230, 263, 288, 303), blocks
\* and transactions have hashes, and a transfer's denomination is a constant (service.go:198).
CreatedAccount ==
    [address : Address \cup {NoAddress}, token : Token \cup {NoToken}, amount : {0}]
IsTransfer(t) ==
    /\ t.from_address \in Address \cup {NoAddress} /\ t.to_address \in Address \cup {NoAddress}
    /\ t.token \in Token \cup {NoToken} /\ ToLower(t.func) \in Name \cup {""}
    /\ t.amount \in Int /\ t.denom \notin Blank
\* A transaction has the fields of model.go, with no NULL among them.
IsTransaction(tx) ==
    /\ tx = ModelTransaction(tx) /\ tx.index \in Int
    /\ tx.memo # Null /\ tx.gas_fee # Null /\ tx.messages # Null /\ tx.response # Null
AreCalls(c) ==
    /\ c.heights \subseteq Int /\ c.amounts \subseteq Int
    /\ c.accounts \subseteq CreatedAccount
    /\ \A b \in c.blocks : b.height \in Height /\ b.hash \notin Blank
    /\ \A bs \in c.blockBatches : IsList(bs) /\ \A i \in DOMAIN bs : bs[i].height \in Height
    /\ \A tx \in c.transactions : IsTransaction(tx)
    /\ \A txs \in c.transactionBatches :
         IsList(txs) /\ \A i \in DOMAIN txs : IsTransaction(txs[i])
    /\ \A t \in c.transfers : t.hash \in Hash /\ IsTransfer(t.transfer)
    /\ \A b \in c.transferBatches :
         b.hash \in Hash /\ IsList(b.transfers) /\ \A i \in DOMAIN b.transfers : IsTransfer(b.transfers[i])
ASSUME CallsAssumption == \A l \in Loads : AreCalls(l.calls)

\* No text but the empty one is empty, and NULL is neither a text nor a record.
ASSUME TextsAssumption == (Address \cup Token \cup Hash \cup Name) \cap Blank = {}
ASSUME NullAssumption ==
    /\ Null \notin Address
    /\ Null \notin [address : Address \cup {NoAddress}, token : Token \cup {NoToken}, amount : Int]

ASSUME HeightsAreIntegers == Height \subseteq Int
ASSUME TTLAssumption == TTL \in Nat \ {0}

VARIABLES db,        \* the PostgreSQL database
          ledger,    \* history: what the calls that succeeded asked for
          load,      \* the workload of this behaviour
          cache,     \* localCache: entries [key, body, age]
          requests,  \* each client's request
          truths     \* history: the results each request's query has had so far

restVars == <<cache, requests>>
vars == <<db, ledger, load, cache, requests, truths>>

---------------------------------------------------------------------------
(* The handlers                                                            *)

\* A route, with the token of the path if it has one.
BalancesRoute == [handler |-> "balances", token |-> NoToken]
AccountsRoute(token) == [handler |-> "accounts", token |-> token]
HistoryRoute == [handler |-> "transfer-history", token |-> NoToken]
OtherRoute == [handler |-> "not found", token |-> NoToken]

\* What a text names: a text of several pieces names no address and no token of the tables.
Text(pieces, none) ==
    CASE pieces = << >> -> none
      [] Len(pieces) = 1 -> pieces[1]
      [] OTHER -> pieces

WithoutSlash(pieces) == IF pieces # << >> /\ Head(pieces) = "/" THEN Tail(pieces) ELSE pieces

\* The token "" is reached by a path with two slashes.
Route(path) ==
    CASE path = <<"/balances">> -> BalancesRoute
      [] path = <<"/transfer-history">> -> HistoryRoute
      [] Len(path) > 1 /\ path[Len(path)] = "/balances" ->
           AccountsRoute(Text(WithoutSlash(Front(path)), NoToken))
      [] OTHER -> OtherRoute

UpTo(pieces, piece) ==
    LET i == SelectInSeq(pieces, LAMBDA x : x = piece)
    IN  IF i = 0 THEN pieces ELSE SubSeq(pieces, 1, i - 1)

\* The query's address, empty if it has none.
AddressOf(query) ==
    IF query # << >> /\ Head(query) = "address=" THEN Text(UpTo(Tail(query), "&"), NoAddress)
    ELSE NoAddress

Json(status, body) == [status |-> status, body |-> body]
NotFound == Json(404, [error |-> "endpoint not found"])
BalancesFailed == Json(500, [error |-> "Failed to get account balances"])
\* A handler that returns without writing leaves status 200 and no body.
NoBody == Json(200, Null)

GetTokenBalances(d, address, fails) ==
    IF fails THEN BalancesFailed
    ELSE LET balances == GetBalances(d, address).value
         IN  Json(200, [balances |-> [i \in DOMAIN balances |->
                 [tokenPath |-> balances[i].token, amount |-> balances[i].amount]]])

GetTokenAccountBalances(d, token, address, fails) ==
    IF fails THEN NoBody
    ELSE LET accounts == GetAccounts(d, address, token).value
         IN  Json(200, [accountBalances |-> [i \in DOMAIN accounts |->
                 [address |-> accounts[i].address, tokenPath |-> accounts[i].token,
                  amount |-> accounts[i].amount]]])

\* The address of the query string is never bound: it is always empty.
GetTransferHistory(d, fails) ==
    IF fails THEN NoBody
    ELSE LET transfers == GetTransfers(d, NoAddress, NoAddress, NoToken).value
         IN  Json(200, [transfers |-> [i \in DOMAIN transfers |->
                 [fromAddress |-> transfers[i].from_address,
                  toAddress |-> transfers[i].to_address,
                  token |-> transfers[i].token, amount |-> transfers[i].amount]]])

\* The only route is for GET.
handleTokenRoutes(d, r, fails) ==
    LET route == Route(r.path)
        address == AddressOf(r.query)
    IN  CASE r.method # "GET" \/ route = OtherRoute -> NotFound
          [] route = BalancesRoute -> GetTokenBalances(d, address, fails)
          [] route = HistoryRoute -> GetTransferHistory(d, fails)
          [] OTHER -> GetTokenAccountBalances(d, route.token, address, fails)

\* What a request gets from the database as it is.
Truth(d, r) == handleTokenRoutes(d, r, FALSE)

---------------------------------------------------------------------------
(* The cache                                                               *)

\* Variant for a mutation run: the key is the path alone.
PathKey(r) == r.path

\* The path and the query string, joined without escaping: a path may itself have a "?"
\* (sent as %3F), so that requests to different routes can have the same key.
getMemcacheKey(r) == r.path \o <<"?">> \o r.query

findFromLocalCache(r) == {e \in cache : e.key = getMemcacheKey(r)}

\* A response is stored when it has status 200 and a body.
Storable(r, response) ==
    r.method = "GET" /\ response.status = 200 /\ response.body # Null

Stored(r, body) ==
    {e \in cache : e.key # getMemcacheKey(r)}
    \cup {[key |-> getMemcacheKey(r), body |-> body, age |-> 0]}

\* Variant for a mutation run: a hit starts the entry's lifetime again.
Touched(r) ==
    {IF e.key = getMemcacheKey(r) THEN [e EXCEPT !.age = 0] ELSE e : e \in cache}
\* A hit leaves the cache as it is.
AfterHit(r) == cache

---------------------------------------------------------------------------
(* Requests                                                                *)

Idle == [state |-> "idle"]

\* The first middleware: a GET that finds an entry is answered from it and
\* goes no further; any other request goes on to its handler.
Hit(c) ==
    /\ requests[c].state = "idle"
    /\ \E r \in load.requests :
         /\ r.method = "GET"
         /\ \E e \in findFromLocalCache(r) :
              requests' = [requests EXCEPT ![c] =
                  [state |-> "answered", request |-> r, response |-> Json(200, e.body)]]
         /\ cache' = AfterHit(r)
    /\ UNCHANGED <<db, ledger, load, truths>>

Miss(c) ==
    /\ requests[c].state = "idle"
    /\ \E r \in load.requests :
         /\ r.method = "GET" => findFromLocalCache(r) = {}
         /\ requests' = [requests EXCEPT ![c] = [state |-> "handling", request |-> r]]
    /\ UNCHANGED <<db, ledger, load, cache, truths>>

\* The handler and its query, which may fail.
Handle(c) ==
    /\ requests[c].state = "handling"
    /\ \E fails \in BOOLEAN :
         requests' = [requests EXCEPT ![c] =
             [state |-> "handled", request |-> requests[c].request,
              response |-> handleTokenRoutes(db, requests[c].request, fails)]]
    /\ UNCHANGED <<db, ledger, load, cache, truths>>

\* The second middleware stores the response on the way out; freecache refuses
\* an entry that is too large for it.
Respond(c) ==
    /\ requests[c].state = "handled"
    /\ LET r == requests[c].request
           response == requests[c].response
       IN  /\ cache' \in {cache} \cup (IF Storable(r, response) THEN {Stored(r, response.body)}
                                       ELSE {})
           /\ requests' = [requests EXCEPT ![c] =
                [state |-> "answered", request |-> r, response |-> response]]
    /\ UNCHANGED <<db, ledger, load, truths>>

\* The response has left, and the client may ask again.
Leave(c) ==
    /\ requests[c].state = "answered"
    /\ requests' = [requests EXCEPT ![c] = Idle]
    /\ UNCHANGED <<db, ledger, load, cache, truths>>

\* freecache drops an entry to make room.
Evict ==
    /\ \E e \in cache : cache' = cache \ {e}
    /\ UNCHANGED <<db, ledger, load, requests, truths>>

\* Time passes; an entry of age TTL is gone.
Tick ==
    /\ cache # {}
    /\ cache' = {[e EXCEPT !.age = @ + 1] : e \in {e \in cache : e.age + 1 < TTL}}
    /\ UNCHANGED <<db, ledger, load, requests, truths>>

---------------------------------------------------------------------------
(* The writers                                                             *)

\* A call that changed nothing does not count against the bound.
Write(d, l) ==
    /\ load.writes > 0
    /\ db' = d
    /\ ledger' = l
    /\ load' = IF d = db /\ l = ledger THEN load ELSE [load EXCEPT !.writes = @ - 1]
    /\ truths' = [r \in load.requests |-> truths[r] \cup {Truth(d, r)}]
    /\ UNCHANGED restVars

WriteBlock == \E b \in load.calls.blocks : Write(AddBlock(db, b).db, ledger)
WriteBlocks == \E bs \in load.calls.blockBatches : Write(AddBlocks(db, bs).db, ledger)

WriteTransaction ==
    \E h \in load.calls.heights, tx \in load.calls.transactions :
        Write(AddTransaction(db, h, tx).db, ledger)
WriteTransactions ==
    \E h \in load.calls.heights, txs \in load.calls.transactionBatches :
        Write(AddTransactions(db, h, txs).db, ledger)

WriteAccount ==
    \E a \in load.calls.accounts : Write(AddAccount(db, a).db, ledger)

\* The ledger keeps the exact sum and the volume of what was added to a row.
WriteBalance ==
    \E a \in load.calls.accounts, d \in load.calls.amounts :
        LET key == <<a.address, a.token>>
            found == \E r \in db.accounts : r.address = a.address /\ r.token = a.token
            size == IF d < 0 THEN -d ELSE d
        IN  Write(IncrementAccountBalance(db, a.address, a.token, d).db,
                  IF ~found THEN ledger
                  ELSE [ledger EXCEPT !.exact[key] = @ + d, !.volume[key] = @ + size])

WriteTransfer ==
    \E t \in load.calls.transfers :
        Write(AddTransfer(db, [hash |-> t.hash], t.transfer).db, ledger)
WriteTransfers ==
    \E b \in load.calls.transferBatches :
        Write(AddTransfers(db, [hash |-> b.hash], b.transfers).db, ledger)

WriteRestore ==
    \E s \in load.calls.starts :
        Write(SaveRestoringHistory(db, s, s + 1).db, [ledger EXCEPT !.restored = s])

---------------------------------------------------------------------------
Init ==
    /\ db = NewRepositoryEnt
    /\ ledger = [exact |-> [k \in Address \X Token |-> 0],
                 volume |-> [k \in Address \X Token |-> 0], restored |-> 1]
    /\ load \in Loads
    /\ cache = {}
    /\ requests = [c \in Clients |-> Idle]
    /\ truths = [r \in load.requests |-> {Truth(db, r)}]

Next ==
    \/ \E c \in Clients : Hit(c) \/ Miss(c) \/ Handle(c) \/ Respond(c) \/ Leave(c)
    \/ Evict \/ Tick
    \/ WriteBlock \/ WriteBlocks \/ WriteTransaction \/ WriteTransactions
    \/ WriteAccount \/ WriteBalance \/ WriteTransfer \/ WriteTransfers \/ WriteRestore

Spec == Init /\ [][Next]_vars

\* A request in flight gets on, and time passes; no client has to ask.
Fairness ==
    /\ \A c \in Clients : WF_vars(Handle(c)) /\ WF_vars(Respond(c)) /\ WF_vars(Leave(c))
    /\ WF_vars(Tick)

FairSpec == Spec /\ Fairness

---------------------------------------------------------------------------
(* The tables as module Repository has them                                *)

Heights == {r.height : r \in db.blocks}

\* The row at place i in the order of the keys: i rows have keys no greater than its own.
AtPlace(rows, i) == {r \in rows : Cardinality({s \in rows : s.id <= r.id}) = i}
The(S) == CHOOSE x \in S : TRUE

BlockRows(d, h) == {r \in d.transactions : r.block_transactions = h}
TransactionsOf(d, h) ==
    [i \in 1 .. Cardinality(BlockRows(d, h)) |->
        ModelTransaction(TransactionNode(The(AtPlace(BlockRows(d, h), i))))]

Calls == INSTANCE Repository
    WITH blocks <- Heights,
         transactions <- [h \in Height |-> TransactionsOf(db, h)],
         accounts <- db.accounts,
         transfers <- [x \in Hash |-> << >>]

\* A bulk of transfers as Repository's rows.
AbstractBulk(b) ==
    {[event |-> i, func |-> ToLower(b.transfers[i].func), from |-> b.transfers[i].from_address,
      to |-> b.transfers[i].to_address, token |-> b.transfers[i].token,
      amount |-> b.transfers[i].amount] : i \in DOMAIN b.transfers}

Bulks == load.calls.transferBatches
         \cup {[hash |-> t.hash, transfers |-> <<t.transfer>>] : t \in load.calls.transfers}

\* The stored rows of a bulk, without their keys, with the amounts the float column holds.
RowsOfBulk(b) ==
    {[func |-> r.func, from |-> r.from, to |-> r.to, token |-> r.token,
      amount |-> Float(r.amount), hash |-> b.hash] : r \in AbstractBulk(b)}
StoredRows(rows) ==
    {[func |-> r.func, from |-> Scanned(r, "from_address", NoAddress),
      to |-> Scanned(r, "to_address", NoAddress), token |-> r.token, amount |-> r.amount,
      hash |-> r.hash] : r \in rows}

Others(tables) == \A t \in DOMAIN db \ tables : db'[t] = db[t]

\* More has gone through an account than its float column holds exactly.
Rounded == \E k \in Address \X Token : ledger'.volume[k] > 2^Mantissa

RepositoryStep ==
    \/ /\ \E hs \in SUBSET (Height \ Heights) : Heights' = Heights \cup hs
       /\ Others({"blocks"})
    \/ /\ \E h \in Heights :
            \/ \E tx \in load.calls.transactions : Calls!InsertTransactions(h, <<tx>>)
            \/ \E txs \in load.calls.transactionBatches : Calls!InsertTransactions(h, txs)
       /\ Others({"transactions"})
    \/ /\ \E a \in Address, t \in Token :
            Calls!AddAccountAllowed(a, t) /\ Calls!InsertAccount(a, t)
       /\ Others({"accounts"})
    \/ /\ \/ Rounded
          \/ \E a \in Address, t \in Token, d \in load.calls.amounts :
               Calls!IncrementAccountBalance(a, t, d)
       /\ Others({"accounts"})
    \/ /\ \E b \in Bulks :
            /\ Calls!AddTransfersAllowed(AbstractBulk(b))
            /\ Cardinality(db'.transfers) = Cardinality(db.transfers) + Len(b.transfers)
            /\ StoredRows(db'.transfers \ db.transfers) = RowsOfBulk(b)
       /\ db.transfers \subseteq db'.transfers
       /\ Others({"transfers"})
    \/ Others({"restore_histories"})

---------------------------------------------------------------------------
(* Properties                                                              *)

Bodies == UNION {{t.body : t \in truths[r]} : r \in load.requests}
Response ==
    [status : {200, 404, 500},
     body : {Null} \cup {NotFound.body, BalancesFailed.body} \cup Bodies]

\* Type correctness: every row has the columns of its table and a key, and every request
\* and entry of the server is well formed (the tables, and controller.go's cache).
TypeOK ==
    /\ \A r \in db.accounts : r \in [address : Address, token : Token, amount : Int]
    /\ \A r \in db.blocks : DOMAIN r = BlockColumns /\ r.height \in Height
    /\ \A r \in db.transactions : DOMAIN r = TransactionColumns /\ r.id \in Nat \ {0}
    /\ \A r \in db.transfers : DOMAIN r = TransferColumns /\ r.id \in Nat \ {0}
    /\ \A r \in db.restore_histories : DOMAIN r = RestoreHistoryColumns /\ r.id = 1
    /\ \A e \in cache : e.age \in 0 .. TTL - 1
    /\ \A c \in Clients :
         /\ requests[c].state \in {"idle", "handling", "handled", "answered"}
         /\ requests[c].state # "idle" => requests[c].request \in load.requests
         /\ requests[c].state \in {"handled", "answered"} => requests[c].response \in Response

\* The calls of repository_ent.go, through the generated client, take the steps that module
\* Repository gives the event processor: every change of the tables is one of its calls,
\* complete, under the condition Repository states for it.
RepositorySteps == [][RepositoryStep]_db

\* A state in which only the tables are of interest, so that the checks on their
\* contents are made once for each.
Quiet == cache = {} /\ \A c \in Clients : requests[c] = Idle

\* Each call reports what module Repository says it reports: a block that exists, an
\* account that is missing, found or ambiguous, an insert that is refused.
OutcomesAgree ==
    Quiet =>
    /\ \A b \in load.calls.blocks : AddBlock(db, b).exists = Calls!BlockExists(b.height)
    /\ \A a \in Address \cup {NoAddress}, t \in Token \cup {NoToken} :
         LET r == GetAccount(db, a, t) IN
         /\ (r.err = "none" /\ r.value = Null) <=> Calls!AccountMissing(a, t)
         /\ (r.err = "none" /\ r.value # Null) <=> Calls!AccountFound(a, t)
         /\ r.err = "error" <=> Calls!AccountAmbiguous(a, t)
         /\ AddAccount(db, [address |-> a, token |-> t, amount |-> 0]).err = "none"
              <=> Calls!AddAccountAllowed(a, t)
    /\ \A b \in Bulks :
         AddTransfers(db, [hash |-> b.hash], b.transfers).err = "none"
           <=> Calls!AddTransfersAllowed(AbstractBulk(b))

\* How many heights are at least h.
Rank(h) == Cardinality({k \in Heights : k >= h})

\* What the reading calls return, stated without queries: the highest block, pages of
\* blocks from the top and of transactions by index, the one block, the one transaction,
\* balances that add up, transfers between the given addresses, the last saved restore.
ReadsAgree ==
    Quiet =>
    /\ LET r == GetHighestBlock(db) IN
       IF Heights = {} THEN r = ReadError
       ELSE r.value.height \in Heights /\ \A h \in Heights : h <= r.value.height
    /\ \A h \in Height :
         LET r == GetBlock(db, h) IN
         IF h \in Heights THEN r.value.height = h ELSE r = ReadError
    /\ \A offset, limit \in 0 .. 2 :
         LET v == GetBlocks(db, offset, limit).value IN
         /\ {v[i].height : i \in DOMAIN v} =
              {h \in Heights : Rank(h) > offset /\ (limit > 0 => Rank(h) <= offset + limit)}
         /\ \A i, j \in DOMAIN v : i < j => v[i].height > v[j].height
    /\ \A x \in Hash :
         LET rows == {r \in db.transactions : r.hash = x}
             r == GetTransaction(db, x) IN
         (r.err = "none" /\ r.value.hash = x) <=> Cardinality(rows) = 1
    /\ \A h \in Height :
         LET rows == {r \in db.transactions : r.block_height = h}
             v == GetTransactions(db, h, 0, 0).value IN
         /\ Len(v) = Cardinality(rows)
         /\ \A i \in DOMAIN v : v[i].block_height = h /\ (i > 1 => v[i - 1].index <= v[i].index)
         /\ \A i \in 0 .. 1 : GetTransactions(db, h, i, 1).value = SubSeq(v, i + 1, Min({i + 1, Len(v)}))
    /\ \A a \in Address \cup {NoAddress} :
         LET v == GetBalances(db, a).value
             rows == {r \in db.accounts : a # NoAddress => r.address = a} IN
         /\ {v[i].token : i \in DOMAIN v} = {r.token : r \in rows}
         /\ \A i, j \in DOMAIN v : v[i].token = v[j].token => i = j
         /\ \A r \in rows : (\A s \in rows : s.token = r.token => s = r)
                            => \E i \in DOMAIN v : v[i] = [token |-> r.token, amount |-> r.amount]
         /\ \A t \in Token \cup {NoToken} :
              Len(GetAccounts(db, a, t).value) = Cardinality(Calls!MatchingAccounts(a, t))
    /\ \A a, b \in Address \cup {NoAddress} :
         Len(GetTransfers(db, a, b, NoToken).value) =
         Cardinality({r \in db.transfers : /\ r.func = "transfer"
                                           /\ a # NoAddress => r.from_address = a
                                           /\ b # NoAddress => r.to_address = b})
    /\ GetNotSequentialBlockNum(db) = Value(ledger.restored)

Tables == {AccountsTable, BlocksTable, TransactionsTable, TransfersTable,
           RestoreHistoriesTable}
KeysUnique(d) == \A t \in Tables : \A r, s \in d[t.name] : r[t.id] = s[t.id] => r = s
ReferencesResolve(d) == \A t \in Tables : \A r \in d[t.name] : References(d, t, r)
ValidatorsHold(d) ==
    /\ \A r \in d.accounts : r.address # NoAddress /\ r.token # NoToken
    /\ \A r \in d.transfers : r.amount > 0 /\ r.func # "" /\ r.token # NoToken
    /\ \A r \in d.transactions : r.block_transactions # Null

\* The tables stay consistent whatever the calls and whatever they are given: keys are
\* unique, references resolve, and no validator of ent/schema is got round by a bulk.
RowsAreValid == Quiet => KeysUnique(db) /\ ReferencesResolve(db) /\ ValidatorsHold(db)

\* A balance is the exact sum of what was added to it as long as no more than 2^Mantissa
\* has gone through the account: float64(amount) and the float column lose nothing before.
ExactWhileSmall ==
    \A r \in db.accounts :
        LET key == <<r.address, r.token>>
        IN  ledger.volume[key] <= 2^Mantissa => r.amount = ledger.exact[key]

\* A request without a "?" in its path.
Plain(r) == \A i \in DOMAIN r.path : r.path[i] # "?"

\* The requests whose results may be passed for those of r: itself, and, where one of the
\* two has a "?" in its path, the requests that give the same text with it.
Owners(r) ==
    {r} \cup {s \in load.requests : /\ s.method = "GET" /\ getMemcacheKey(s) = getMemcacheKey(r)
                                  /\ ~(Plain(r) /\ Plain(s))}

\* Whatever a request finds in the cache, or is answered with status 200 and a body, was at
\* some time the result of its own query, or of one that a "?" in a path confuses with it:
\* no other query's entry, no failure and no empty body is passed for it (controller.go's
\* key and its conditions for storing).
CachedWasTrue ==
    /\ \A r \in load.requests : \A e \in findFromLocalCache(r) :
         r.method = "GET" => \E s \in Owners(r) : Json(200, e.body) \in truths[s]
    /\ \A c \in Clients :
         LET q == requests[c] IN
         (q.state = "answered" /\ q.response.status = 200 /\ q.response.body # Null)
           => \E s \in Owners(q.request) : q.response \in truths[s]

\* Once the writers are done, the cache catches up with the tables for good, however often
\* it is asked: hits do not keep an entry alive, and slow requests come to an end.
CacheCatchesUp ==
    <>[](\A r \in load.requests : \A e \in findFromLocalCache(r) :
            r.method = "GET" => \E s \in Owners(r) : Json(200, e.body) = Truth(db, s))
=============================================================================
