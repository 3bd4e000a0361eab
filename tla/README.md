# Formal model of the gno.land block indexer

The indexer copies the blocks of a gno.land chain into PostgreSQL. Three programs take
part: the *block synchronizer* reads blocks from the chain's GraphQL service and publishes
them, the *event processor* consumes them and writes tables, the *REST API* reads the
tables through a cache. SNS/SQS (LocalStack) connects the first two.

This directory has TLA+ modules for that system, TLC configurations that check them on
small instances, and proofs that TLAPS checks. Paths below are relative to `src/`.

## Inventory

| part | state | operations | what is hard |
|---|---|---|---|
| event processor, `cmd/event-processor/service/service.go` | `workCh` (100), five `messageWorker`s, their position in the transaction and event loops | subscription handler, `ProcessBlockWithTransactions`, event parsing, mint / burn / transfer | every repository call is a statement of its own, so workers interleave and errors or crashes leave half a block |
| repository, `repository/repository_ent.go`, and `ent/` | tables blocks, transactions, accounts, transfers | `AddBlock`, `AddTransactions`, `GetAccount`, `AddAccount`, `IncrementAccountBalance`, `AddTransfers`, the queries of the API | what the keys and validators accept decides which blocks are abandoned |
| block synchronizer, `cmd/block-synchronizer/service/service.go` | loop variable, target and window of the restore; `ch` (100), `workCh` (1000), ten `blockWorker`s | `RestoreMissingBlockAndTransactions`, `SubscribeAndPush`, `SubscribeLastestBlock`, `PollBlocks`, `PollTransactions` | exclusive bounds, cursor against crash, chain growth between two queries, channel shutdown |
| restore history, `cmd/block-synchronizer/repository/repository_ent.go` | row 1 of restore_histories | `GetNotSequentialBlockNum`, `SaveRestoringHistory` | written before the window it stands for is published |
| message broker, `externals/msgbroker/msgbroker_localstack.go` | topic ARNs, one queue per subscription, pollers | `Publish`, `Subscribe`, `processMessage`, `Close` | at-least-once delivery, deletion before processing |
| REST API, `cmd/indexer-rest/controller/controller.go` | a local cache, 60 s | three GET routes | stale and mutually inconsistent answers |
| chain and GraphQL service | blocks and transactions | queries, announcements | external; grows at any time |
| `lib/log`, `main.go` files | none | | not modelled |

What makes each part correct:

* event processor: a block is indexed at most once; a balance is the sum of the updates
  executed; an indexed block is in the tables entirely, as far as its events name accounts;
  transfers never run ahead of balances and are recorded once; jobs end and shutdown ends;
* repository: each call changes what it says and reports what it did; keys are unique and
  references resolve, whatever the order of calls and bulks;
* synchronizer: the cursor claims nothing that was not published or reported; a finished
  restore covers its range; a message carries exactly its block's transactions; a block
  disappears without a log line in two known ways only, at a full `ch` and between the two
  paths;
* broker: a message is deleted only when its handler took it, and what the handler took is
  indexed or lost in a way that can be named;
* REST: an answer is a result its own query has had, or that of a query which a `?` in a
  path confuses with it, and not for longer than the cache lives.

The hazards, each at its line, are in `PROJECT.json`.

## Modules

| module | models |
|---|---|
| `Repository` | tables and repository calls, as operators to be conjoined into a caller's actions |
| `EventProcessor` | EXTENDS `Repository`: the event processor and its environment |
| `EventProcessorLedger` | what a message's events prescribe for the balances, and the properties that compare it with the tables |
| `MCEventProcessor` | message sets for the runs |
| `EventProcessorProofs` | theorems and proofs about `EventProcessor` |
| `EventProcessorLedgerProofs` | theorems and proofs about the ledger, and the lemmas on joined sequences and sums they need |
| `BlockSynchronizer` | restore, live pipeline, restore cursor, external chain |
| `MCBlockSynchronizer` | the runs' instance; they have one worker, more are interchangeable |
| `BlockSynchronizerProofs` | theorems and proofs about `BlockSynchronizer` |
| `BlockIndexing` | abstract event processor: an inbox, workers, the life of a block |
| `IndexingRefinement` | proof that `EventProcessor` implements `BlockIndexing` |
| `BlockPublishing` | abstract synchronizer: which messages may be published of which chain |
| `PublishingRefinement` | proof that `BlockSynchronizer` implements it; proof of `NoOtherGap` |
| `MsgBroker` | topic, queue of the running subscriber, its poller |
| `Indexer` | `BlockPublishing`, `MsgBroker` and `BlockIndexing` composed; `MCIndexer` is its instance |
| `IndexerProofs` | theorems and proofs about `Indexer` |
| `Ent` | what the entities of the generated client share, and the SQL statements behind it |
| `EntAccount`, `EntBlock`, `EntTransaction`, `EntTransfer`, `EntRestoreHistory` | each entity's schema, table, builders, predicates, queries and scanning |
| `RepositoryEnt` | every call of both repositories, written with those builders |
| `IndexerRest` | the REST server and its cache over tables that the repositories' calls change |
| `MCIndexerRest` | four workloads for its run |
| `IndexerRestProofs` | theorems and proofs about the cache, and about what the tables keep under every call of the repositories |
| `RepositoryEntProofs` | theorems and proofs about what the calls report, change and return |

**EventProcessor.** A worker's `pc` names the repository call it makes next, `"parse"`
between calls, `"idle"` at its select; `ti` and `ei` are the indices of the two `for`
loops. `AddBlock`, `AddTransactions`, `GetFrom`, `AddFrom`, `IncFrom`, ... are one step
each. Every writing call can take effect and still report an error (connection lost after
the commit); `CallFails` is the call that had no effect. All errors return to
`messageWorker`, which logs and goes on (`Leave`). `Deliver` is the handler: it never
blocks, and drops a message that finds `workCh` full. `SendOnClosed` is the handler called
after cancellation closed `workCh`: the send panics and ends the process. `Crash` and
`SendOnClosed` restart with the database as it is.

Events are records with the last `from`, `to`, `value` attribute; a value that any
`ParseInt` of the event rejects is `BadValue`. Amounts are integers. Names of event types
and functions are strings from a set `Name` that must hold the three function names the
code compares with. `ToLower` is modelled on the spellings the runs use.

`claim`, `executed` and `indexed` are history variables: the message whose `AddBlock`
inserted a height, how many balance updates were executed for it, and whether it was
processed without an error. They are in no guard. An update that is executed need not change
a row: one of an empty address or token matches none and succeeds all the same
(`repository_ent.go:376-385`). `executed` counts it, no balance holds it, and the properties
keep the two apart (`HasAccount`).

**BlockSynchronizer.** A block's transactions are represented by its height, so the
transactions of a message are a set of heights. `rpc` is the restore goroutine's next
call; `from` is the loop variable, `target` the announced height, `batch` the polled
blocks still to be published, `polled` the window's transactions. `lpc`, `lAt`, `ch`,
`workCh`, `wpc` are the live pipeline. A subscription receives the blocks added after it
was opened, one by one; an announcement without usable data is skipped, a connection may
end normally or with an error, and is not opened again. `PublishFails` covers both an
error before and after the broker took the message. The order in which a response lists
its blocks is left open. `ReadTimesOut` is a subscription that hears nothing for 120 s: the
loop reads the connection again, the websocket library fails every further read and panics
at the thousandth, and the process is started again. Three history variables say where
blocks went that were not published: `unpublished`, which the restore reported and passed
over; `lost`, which the live pipeline gave up with a log line; and `dropped`, which found
`ch` full, logged at every hundredth message only (`service.go:790`).

**BlockIndexing, BlockPublishing.** The two abstract specifications say what the rest of
the system may rely on. A block's life goes from absent to owned by one worker, then to
indexed or abandoned, for good; a message is of a block of the chain and has the block's
transactions when it was restored, at most its successor's when it was live. The
refinement mappings `IndexesBlocks` and `PublishesBlocks` are checked by `ep_racing` and
`bs_growing` and proved.

**MsgBroker.** A publication is named by its position in `sent`. A process subscribes a new
queue whenever it starts, so what was published before is not in it; when it cannot
subscribe it runs on without messages (`"deaf"`). The poller receives up to `MaxReceive`
messages, handles them one after another, and deletes those whose handler returned nil.
A received message is hidden and may reappear, a message may expire; deleting may fail.

**Indexer.** Composes the two abstract specifications with the broker. `PublishForeign` is
another publisher whose messages the handler rejects. `lost` names the publications that
the event processor took and then gave up: they met a full inbox, a death, or a claim that
failed.

**Ent and its entities.** A builder is a record that the `Set`, `Add` and `Where` operators
transform, as the methods do in Go; a statement is an operator from a database to a result
with the new database, the nodes and the error. The checks before a statement (required
fields, validators, defaults) and what the database refuses (unique indexes, foreign keys)
are modelled, as are bulks that are stored entirely or not at all, upserts, `Only`, `First`,
`All`, offset, limit, order and grouping. Columns of type float64 hold integers rounded to
`Mantissa` bits, ties to even. A setter's lines in `ent/mutation.go` are the block of its
field, getter included, which the specs of the builders read; the `Old...` and `Reset...`
methods in that block belong to the API that nobody calls (below).

**RepositoryEnt.** Each call is one operator. `Repository` is the abstraction of the same
calls with which the event processor is modelled and proved: the action property
`RepositorySteps` and the invariant `OutcomesAgree` of `IndexerRest` tie them together, with
`blocks`, `transactions` and `accounts` of `Repository` computed from the tables.

**IndexerRest.** A request is a method, a decoded path and a raw query string. Both texts are
sequences of pieces, the ones that the code looks for (`"/balances"`, `"?"`, `"address="`,
`"&"`) and names, so that joining two texts is what it is for strings: `Route` and
`AddressOf` take them apart as the handlers do, and `getMemcacheKey` puts a `"?"` between
them without escaping, as `controller.go:54` does. `Hit` and `Miss` are the first
middleware, `Handle` the handler with its one query, `Respond` the second middleware, which stores a response of status 200 with a body. Between
any two of them other requests, writes, `Tick` (a part of the 60 s) and `Evict` may come.
`truths` is a history variable: for each request, the results its query has had so far;
`ledger` has the exact sums of what was added to the balances.

In both programs the deployed `main` passes a context that is never cancelled;
`MayCancel` models the services' own contract, which does handle cancellation.

## Runs

| run | instance | result |
|---|---|---|
| `ep_racing` | two workers, two heights, two addresses, three deliveries with a conflicting message for one height, one failing call, one crash, cancellation; liveness under `FairSpec` | pass, 216,606 states |
| `ep_odd` | two workers, ten messages at the edges of the handlers, two tokens, cancellation | pass, 464,058 |
| `ep_empty_sender` | one worker, a transfer without a sender, no failure | **violation** of `ExecutedUpdatesFindTheirAccount` |
| `ep_account_race` | two workers create the same account, no failure | **violation** of `EveryClaimedBlockIsIndexed` |
| `ep_two_tokens` | one worker, one address, two tokens, no failure | **violation** of `NamedAccountsExist` |
| `bs_growing` | chain of six blocks, windows of two, one failing call or read timeout, one crash, cancellation; liveness under `FairSpec` | pass, 425,714 |
| `bs_live_txs` | growing chain, no failure | **violation** of `LiveHasItsTransactions` |
| `bs_block_one` | restore from scratch, no failure | **violation** of `RestoreBeginsWithBlockOne` |
| `bs_ended` | a subscription ends, nobody cancels | **violation** of `EndedSubscriptionIsNoticed` |
| `bs_timeout` | a chain silent for longer than the read deadline, no crash | **violation** of `WaitsThroughSilence` |
| `indexer` | two heights, two publications among restored, live and foreign messages, one worker, an inbox of one, one failing call, one death | pass, about 305,000 |
| `rest` | four workloads: every call of the repositories, four changes; three requests over changing accounts; three requests over changing transfers; two requests of two routes that share a key; two clients; liveness under `FairSpec` | pass, 82,716 |

### What the passing runs show

* `OneOwnerPerBlock`: the primary key of table blocks is enough to keep concurrent workers
  and redeliveries from applying a block twice.
* `BalancesExplained`: under any interleaving, error or crash each balance is the sum of
  the updates executed, each block's executed updates are a prefix of what its events
  prescribe, and those that name an address and a token have their row, so that they are in a
  balance. It needs the increment to be one relative UPDATE, and its filter to have both
  columns. Updates of an empty address or token are executed and in no balance: that is what
  `ep_empty_sender` shows.
* `IndexedIsWhole`, `TransfersFollowBalances`: completeness of a block that was processed
  without an error (its transactions, its transfers, every update of a named account), and
  order of the two kinds of writes.
* `TransfersOnce`: table transfers has a serial key and would take the same bulk again; it
  is recorded once for each place its transaction stands at in a claimed block, which rests
  on `AddBlock`'s conflict across redeliveries, races and crashes.
* `AbandonedStaysAbandoned`: the reverse side of "already exists, skipping": a block given
  up after `AddBlock` is never repaired.
* `UpdateHasItsRow`: a silent update of no row never happens to a named account, because
  accounts are not deleted and lookups filter by both columns. (An empty sender or token is
  different: its lookup finds other rows, and its update matches none. `HasAccount` leaves
  those out.)
* `CursorCoverage`, `CursorNeverBack`, `RestoreCoversTarget`: saving the *start* of a
  window makes the restore safe against a crash between saving and publishing, at the cost
  of repeating the window. A block that fails to be published is logged, counted in
  `unpublished`, and not tried again once the cursor has passed it: the properties count it
  as dealt with, as the code does.
* `RestoredHasItsTransactions`: the two queries of a window select the same heights, and
  later blocks the chain adds in between fall out by `block_height`.
* `IndexesBlocks`, `PublishesBlocks`: the refinements above.
* `NoOtherGap`: with the restore at its end and the subscription open, a height that left
  neither a message nor a log line, and is not on its way in the pipeline, was dropped at a
  full `ch`, or lies between the restore's target and the height at which the subscription
  was opened. Both gaps are in the code, and both occur in the run; there is no third.
* liveness: jobs, queues and shutdown of both programs.
* `NoneForgotten`, `StartsAfresh`, `TakenIsAccountedFor` (`indexer`): a publication is in a
  queue, was handled, or was missed for a reason that is named; one that was handled is in
  the process's memory, its block is claimed, or it is in `lost`. The first makes the
  broker's part precise, the last what deletion before processing costs.
* `ContentIsRestoredOrLive`, `ContentStays`: what a block is indexed with is decided by the
  first message, and neither redelivery nor a restore changes it.
* `QueuedIsSettled` (liveness): a message in the queue is worked off or meets a named loss,
  whatever rejected messages stay next to it.
* `RepositorySteps`, `OutcomesAgree` (`rest`): the calls of `repository_ent.go`, through the
  generated client, take the steps and report the outcomes that `Repository` gives the
  event processor. This is what entitles the rest of the project to use `Repository`.
* `ReadsAgree`: the reading calls against definitions without queries; among others
  `GetTransfers` conjoins its two address filters, and a limit of 0 is no limit.
* `RowsAreValid`: no order of calls, and no bulk, gets a row past keys, references and
  validators.
* `ExactWhileSmall`: balances are exact sums while no more than 2^Mantissa has gone through
  the account, and the run has accounts beyond that, which are not.
* `CachedWasTrue`, `CacheCatchesUp`: the cache answers only with results the request's own
  query has had, never with a failure or an empty body. The one exception is in the key: the
  decoded path, `?` and the raw query are joined without escaping, so that a request whose
  path has a `?` of its own (sent as `%3F`) may be answered with the result of a request to
  another route, and the other way round. `Owners` is that set of requests; between two
  requests without a `?` in their paths no answer is ever exchanged. And once
  the tables stop changing it agrees with them for good, though a slow request may still
  overwrite a newer entry with an older one for a time.

### What the violations show

* Two blocks that are the first to name an account: both workers find it missing, the
  second `AddAccount` hits the primary key, its block is abandoned
  (`service.go:216`: "Check if account exists, create if not").
* `accounts` has the address alone as primary key, against the composite index declared in
  `ent/schema/account.go:35-38`: no address can hold two tokens.
* A live block is published with the next block's transactions, or none: the worker polls
  the heights *after* `block.Height`. As the event processor skips blocks it has, a later
  restore does not repair this.
* Block 1 is never restored: the default start 1 is an exclusive bound.
* A subscription that ends leaves its reader waiting: the channel is never closed.
* An event without a sender: the look-up of the empty address drops its filter and finds
  another account's row, no account is created, and the debit matches no row. The bulk
  `Update` reports that with a count nobody reads, never with the not-found error that
  `repository_ent.go:384` waits for: the receiver is credited and nobody is debited.
* A chain silent for 120 s: the loop means to wait on ("Don't return on timeout",
  `service.go:697`), but the connection it reads again is dead, and the process ends.

### Bounds

`MaxDeliveries`, `MaxFaults`, `MaxCrashes`, `MaxHeight` bound what the environment does. Three
deliveries let two messages race and a third be dropped, redelivered, or arrive after a crash;
one fault suffices because an error only ends one block, and one crash because a restart keeps
nothing but the tables. `WorkChCap = 1` makes the full queue common. Two workers suffice for
races on a row, since each race is between two statements. For the restore, windows of two and
a chain of six give up to three windows, the last one partly filled, and blocks that appear
between the two queries of a window. `WorkerSymmetry` is used in `ep_odd` only, which checks no
liveness; no step compares workers. In `indexer` two publications are enough for each to be
restored, live or foreign, to compete for one place in the inbox, and to be redelivered around
a death; one height starts on the chain and one is added. In `rest` a mantissa of two bits (53
in the code) rounds sums from 5 on, which two additions reach; a lifetime of two ticks
separates an entry from its expiry by steps of other requests; two clients suffice for a late
store, which is a race of two; two requests suffice to share a key. The loads split what would
multiply: the calls of the repositories do not look at the cache. All bounds hold only for TLC:
the theorems are for every value of the constants.

`CHECK_DEADLOCK FALSE` is set because the instances stop when the bounded environment has
nothing more to deliver, and because a cancelled service really stops.

### Fairness

`FairSpec` assumes weak fairness for each worker, for the restore once it has a target, for
the dispatcher and for the closing of the channels: goroutines that can run are scheduled,
database calls return, and HTTP polls have a timeout of 30 s. Nothing is assumed of the
broker, the chain, or the subscription: no message and no block need ever come. Weak
fairness is enough, since no other actor disables a worker's next step for good.

In `Indexer` the poller, the workers and the visibility timeout are weakly fair, and each
message strongly fair to be received: SQS hides a rejected message for 30 s while the poller
asks again at once, so rejected ones cannot take its turn for ever. Publishing, subscribing
and expiry have no fairness. In `IndexerRest` a request in flight gets on (`Handle`,
`Respond`, `Leave`, one goroutine per request) and time passes (`Tick`); no client has to
ask, and nothing has to be written.

## Proofs

`EventProcessorProofs` proves, for every number of workers, set of messages, capacity and
bound, under the assumptions named in `Repository` and `EventProcessor`:

| theorem | statement | argument |
|---|---|---|
| `TypeCorrect` | `[]TypeOK` | `TypeInv` adds `LoopOK`: a busy worker holds a message, its indices point into it where its step needs them, and the event it handles has a parsed value. Without it an `Int` amount cannot be shown. |
| `BlocksHaveOneOwner` | `[]OneOwnerPerBlock` | `OwnerInv`; only `AddBlock` creates an owner, and only of a height without a row |
| `AbandonedForever` | `AbandonedStaysAbandoned` | a step that writes for a height is a step of its owner (`WritesByOwner`), and no owner appears for a height with a row |
| `UpdatesFindTheirRow` | `[]UpdateHasItsRow` | `KnownRowsInv`: past the lookup of an account its row exists; rows persist (`RowsPersist`) |

`EventProcessorLedgerProofs` proves what the tables say about the messages:

| theorem | statement | argument |
|---|---|---|
| `BalancesAreExplained` | `[]BalancesExplained` | `LedgerBase` and `BalanceInv`: one increment adds one executed update, of the very account whose row it changes; every executed update of a named account has its row |
| `IndexedBlocksAreWhole` | `[]IndexedIsWhole` | `LedgerBase` and `WrittenInv`: what a worker has passed in its two loops is written |
| `TransfersAreBacked` | `[]TransfersFollowBalances` | `LedgerBase`: `AddTransfers` is reached with all the transaction's updates executed (`EndOfTx`), and the history only grows (`HistoryGrows`) |
| `TransfersAreRecordedOnce` | `[]TransfersOnce` | `LedgerBase` and `OnceInv`: there are no more bulks than places that a worker has passed, and the one it stands at is not among them |

All four rest on `LedgerBase`, which ties the indices of a worker's loops to the history of
its block: the number of updates executed for the block is the number that precede the
worker's place in the message (`CountedInv`, with `UpdatesBefore`), the indices stay in
their sequences (`BoundedInv`), a height without a row has no history (`FreshInv`), and the
claim of a height with one is the message whose `AddBlock` inserted it (`ClaimedInv`). That
needs `OwnerInv`, since a second owner would count for the first, and `KnownRowsInv`, since
an update of a named account that matched no row would be counted and in no balance.

The updates of a message are sequences joined by a recursive function and the balances are
sums over finite sets. Both need an induction, which the library offers only with an operator
as parameter; the module proves the two it needs from theorems on sets, `NatInduct` from the
well-foundedness of `<` and the sums by the cardinality of the set that is summed over.
Writing these proofs uncovered an error in the model: `Updates` was a `CASE` with overlapping
guards, a skipped event also being a mint or a burn, so that which updates a skipped event
prescribes was undefined. TLC takes the first guard that holds, and so never showed it. The
skipped events are now apart.

`BlockSynchronizerProofs` proves, for every chain, window size, number of workers, capacity
and placement of failures:

| theorem | statement | argument |
|---|---|---|
| `TypeCorrect` | `[]TypeOK` | `TypeInv` adds `HoldsBlock`: a worker past its receive holds a block, so that what it publishes is a message of the chain |
| `CursorIsCovered` | `[]CursorCoverage`: up to the cursor everything was published or reported | `RestoreInv`, below |
| `FinishedRestoreCovers` | `[]RestoreCoversTarget` | `RestoreInv` |
| `RestoredMessagesAreWhole` | `[]RestoredHasItsTransactions` | `RestoreInv` |
| `CursorOnlyAdvances` | `CursorNeverBack` | only `RestoreSave` moves the cursor, and in the loop it is behind `from` |

None of the four is inductive by itself: the cursor is saved from the loop variable, so one
has to know that everything up to the loop variable was dealt with (`LoopInv`); that a
window is complete is known only because its batch was polled up to the target
(`BatchInv`), and the poll is never empty because the target is on the chain (`Counters`);
the transactions of a window decide those of every block left in its batch (`PolledInv`).
The environment, the live path and a restart leave `RestoreInv` alone (`OtherStep`,
`RestartStep`); every step of the goroutine has a lemma of its own.

`IndexingRefinement` and `PublishingRefinement` prove the two implementations,
`ImplementsBlockIndexing` and `ImplementsBlockPublishing`. For the first, what a step does
to the life of a block depends on its owner, so the proof uses `OwnerInv`; a restart maps
to `Die`. For the second, `SourceInv` says of every message in a channel or a worker's hands
which poll it came from. `OnlyKnownBlocksAreMissed` proves `[]NoOtherGap` with `GapInv`: the
live path has handled, holds, or dropped at a full `ch` everything from where it started
listening.

`IndexerProofs` proves, for any number of workers, publications, failures, deaths and
redeliveries:

| theorem | statement | argument |
|---|---|---|
| `TypeCorrect` | `[]TypeOK` | `IndexerInv`; publishable messages are messages of the topic |
| `NoMessageIsForgotten`, `ProcessStartsAfresh` | `[]NoneForgotten`, `[]StartsAfresh` | `BrokerInv`: a message leaves the queue only handled or missed, and a process that does not poll has none |
| `TakenMessagesAreAccountedFor` | `[]TakenIsAccountedFor` | each step that removes a message from inbox or worker claims its block or adds it to `lost` |
| `ContentIsOfTheBlock`, `FirstMessageDecides` | `[]ContentIsRestoredOrLive`, `ContentStays` | every message waiting or at work is faithful to what was published, and only the claim of an absent block sets its content |

`IndexerRestProofs` first proves `CacheServesTheTruth`, `[]CachedWasTrue`, for any requests,
clients, lifetime and calls. `CachedWasTrue` is not inductive: an entry stored by one request
is found by every other with its key, so the invariant `RestInv` has of every entry that a
request with its key has had that result (`EntryOf`), that a request's present result is among
those it has had (`TruthsCurrent`), and that a failed query leaves nothing to store
(`FailureIsNotPositive`). Who else may have a request's key is a lemma about joined texts,
`PlainKeysDiffer`: the first `?` of a key ends the path when the path has none, so two
requests without one that share a key are the same GET (`FoundIsOwned`).

The tables follow, in `IndexerRestProofs` and `RepositoryEntProofs`, for any sequence of calls
of the repositories and any mantissa:

| theorem | statement | argument |
|---|---|---|
| `TablesStaySound` | `[]RowsAreValid` | `TablesInv`: every row has exactly its table's columns (`Shaped`), keys are unique, references resolve, validators hold |
| `RowsAndRequestsAreTyped` | `[]TypeOK` | `TypedInv`: with `TablesInv` the tables are finite and the values of a row have their types (`RowTyped`); with `RestInv` the server keeps its requests, responses and entries well formed (`ServerTyped`) |
| `BalancesAreExactWhileSmall` | `[]ExactWhileSmall` | `LedgerInv`: a sum is bounded by what has gone through the account (`VolumeBounds`), and nothing has been added where there is no row (`Untouched`) |
| `CallsReportTheirOutcomes` | `[]OutcomesAgree` | `TypedInv`, below |
| `CallsTakeRepositorySteps` | `RepositorySteps` | `LedgerInv` before and after the step, below |
| `CallsReadTheTables` | `[]ReadsAgree` | `ReadInv`: with `LedgerInv`, transactions have indexes, amounts are floats, and the table of restores has the last saved one; below |

The first goes by statement, not by call: `ChangeOneTable` says when replacing
the rows of one table keeps keys and references, `InsertSound` and `RewriteSound` that INSERT
and UPDATE meet it, `CreateSound` and `CreateBulkSound` that the builders' checks are made for
every row that is sent, and each call has a lemma that shows what it sends. Two columns are
not required by the builders and need an argument of their own: the address of an account,
which is validated only because the call sets it, and the block of a transaction, which is
the call's block number, not NULL.

The types of a row need the key the database gives it: it is one more than the largest of a
finite set (`MaxOfNaturals`), so finiteness is part of the invariant. An amount has been
rounded by `ToFloat`, which is defined with powers of two. The prover knows nothing of them,
so the module gets what it needs from the library's theorem that a set of n elements has 2^n
subsets (`PowerDoubles`, `PowerGrows`, `PowerExceeds`); from that follow the bits a float
drops (`ExcessFits`), that a rounded number is whole and positive if it was
(`FloatIsInteger`), and that one of magnitude at most 2^Mantissa is not rounded
(`FloatIsExact`). `ExactWhileSmall` then needs that the running balance stays in that range:
the volume bounds it, the history of a new account is empty (`Untouched`), and the calls that
are not for accounts leave that table alone (`OnlyIn`). These proofs uncovered an error in the
definition of `Response`: `UNION` and `\cup` bind equally, so that the prover read a union that
was not meant; the set is now built of named parts.

The assumptions are the named ASSUMEs: the empty strings are not addresses or tokens,
messages have the shape the JSON decoder gives, capacities, window and bounds are naturals,
the transactions' heights are on the chain, and NULL is no number. Of a workload
(`CallsAssumption`) they say what the Go types do: block numbers and amounts are ints and
lists are finite; that blocks are of `Height`; and that accounts are created with amount 0, as
`service.go:230`, `263`, `288` and `303` do; that blocks and transactions have hashes, and that
a transfer's denomination is not empty (`service.go:198`). `TextsAssumption` keeps the empty
strings apart from all others, `NullAssumption` NULL from addresses and accounts. Addresses, tokens and amounts that the schema
refuses are among them. The lifetime of an entry is positive.

`OutcomesAgree` follows from the same invariant. A query's rows come in some order, of which
only their number matters: `SetToSeqEnumerates` says that the list has each row once, and
`TwoRowsTell` that asking for two rows tells none, one and several apart, which is what `Only`
relies on. Numbers that the database gives to the rows of a bulk are above every key there is
(`NumberingIsFresh`), so that only a validator or a foreign key refuses transfers
(`TransferChecks`, `TransferReferences`), under exactly the condition `Repository` states.

`RepositorySteps` is the refinement that makes `Repository` a fair abstraction, call by call. A
call changes one table (`OnlyIn`), and what is left is what it does to that one:

* an INSERT into blocks only adds heights (`BlocksStep`); `AddAccount` adds an empty account at
  an address that has none (`AccountWritesStep`); the upsert concerns the restore history alone
  (`RestoreWritesStep`);
* `IncrementAccountBalance` is an addition to the one row (`BalanceWritesStep`): the balance
  before and after the call is the exact sum, by `LedgerInv`. A step after which more than
  2^Mantissa has gone through some account (`Rounded`) is only said to change no other table;
* an INSERT into transfers stores the whole bulk under `AddTransfersAllowed`, with as many new
  rows as the bulk has members, equal ones included (`TransfersAppend`, `StoredRow`). The stored
  amount is the float nearest to the given one: `RowsOfBulk` says so, for an amount of more than
  `Mantissa` bits is stored rounded, which the proof brought up;
* an INSERT into transactions appends to the list of its block and to no other's, and the block
  has a row (`TransactionsAppend`). The list is in the order of the keys, with the row at place i
  having i keys no greater than its own (`AtPlace`), so that it can be reasoned about with
  cardinalities: new rows, numbered above all others, take the next places (`PlacesAppend`) and
  leave the places of the others (`Joined` puts the list together). A transaction reads back as
  it was written (`TransactionReadsBack`), which needs that the calls are given transactions of
  `model.go`, without NULL (`IsTransaction` in `CallsAssumption`).

`ReadsAgree` is about all that can be read. Its invariant `ReadInv` adds to `LedgerInv` what a
reader of the tables relies on and no writer states (`Readable`): every transaction has an
index, which is what `IsTransaction` asks of the calls; a stored amount is a number that the
float column holds; the table of restores is empty or has the one row of the last
`SaveRestoringHistory`, an upsert that never fails (`RestoreIsNoted`). From there:

* ORDER BY is defined by places: the place of a row is the number of rows that do not come
  after it (`Place`, with `Before`). The order is strict and total because rows that tie are in
  the order of their keys, so that the places of n rows are 1 to n (`PlacesGrow`,
  `OrderEnumerates`); on blocks, which do not tie, the place is the `Rank` of the height
  (`BlocksFromTheTop`). OFFSET and LIMIT keep a stretch of the places (`PageKeeps`), and with
  nothing to skip and no limit everything (`WholePage`).
* `Only` and `First` answer with the one row, or say that there is none or more than one
  (`OnlyTells`, `FirstTells`). A hash that two transactions share is answered with an error,
  whatever their blocks.
* A group of one account sums to `Float(0 + amount)` (`SumOfOneRow`), which is the amount again
  because rounding is idempotent (`FloatIsStable`): the quotient by the unit has exactly
  `Mantissa` bits (`QuotientHasBits`), and when it rounds up to one more the float is a power
  of two that a larger unit fits. What several accounts sum to is the order of summation's
  affair and not stated.

Only model-checked: liveness under fairness, in all programs.

## Not modelled

* `Close` and `cleanup` of the broker, which only tests call. `GetMissingBlocks` and
  `GetBlocksMissingTxCount`: they panic, and nobody calls them.
* Of the generated client: deletes, update-one, the upserts of accounts, blocks,
  transactions and transfers, edges and eager loading, hooks, interceptors, transactions
  (`tx.go`), ids and counts, and the predicates and orders no query uses. No code of the
  repository calls them. The exhausted serial sequence, and the numbers a refused INSERT
  skips.
* Contents that no decision reads: hashes, times, gas, memo, messages of a transaction are
  carried through but take one value. Floats are exact integers or rounded ones; gas and
  fractions do not occur.
* The order of rows in a query without one, or of those that tie in it, and JSON as text. A query string has one
  address, at its beginning; two spellings of one address only cost an entry. Whether a text is percent-encoded shows only
  in what it decodes to.
* The consistency of two routes: they are cached at different times and may contradict each
  other. That the client sees an empty answer with status 200 when a query of two of the
  routes fails, and that the history route ignores its address
  (`cmd/indexer-rest/controller/controller.go:231`), are in the model as they are in the code.
* Malformed announcements that decode to height 0. Of the websocket library, only what the
  loop meets: an end of the connection, and the panic after a timeout (`ReadTimesOut`).
* `lib/log`, `main.go` files, deployment: no state that a decision depends on.

## Plan

1. Done: `Repository`, `EventProcessor`, `BlockSynchronizer`, their runs and proofs.
2. Done: `BlockIndexing` and `BlockPublishing` with their refinements, checked and proved.
3. Done: `MsgBroker`, `Indexer`, its run and proofs.
4. Done: the generated client, `RepositoryEnt`, `IndexerRest`, the run `rest` and the
   theorems about the cache and the tables.
5. Done: the ledger of the event processor proved.
6. Done: the types of the tables and the exactness of balances proved.
7. Done: proofs that the calls of `RepositoryEnt` report and do what `Repository` says.
8. Done: what the reading calls return (`ReadsAgree`) proved: every invariant and every action
   property of a passing run is now the property of a theorem.
9. Left to TLC: liveness, which the prover does not do. `Indexer` with two workers
   holds its safety properties (984,362 states), but its liveness takes TLC longer than the other
   runs together, so the run has one; the proofs are for any number.
