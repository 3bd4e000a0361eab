----------------------- MODULE EventProcessorLedger -----------------------
(***************************************************************************)
(* What the tables must say about the messages that were indexed: balances *)
(* against the updates the messages' events prescribe, transfers against   *)
(* balances.                                                               *)
(***************************************************************************)
EXTENDS EventProcessor, FiniteSetsExt, SequencesExt

\* The balance updates an event prescribes, in the handlers' order.
UpdateOf(a, e, d) == [address |-> a, token |-> e.token, delta |-> d]
Updates(e) ==
    IF Skipped(e) \/ e.value = BadValue THEN << >>
    ELSE CASE Func(e) = "mint" -> <<UpdateOf(e.to, e, e.value)>>
           [] Func(e) = "burn" -> <<UpdateOf(e.from, e, -e.value)>>
           [] OTHER -> <<UpdateOf(e.from, e, -e.value), UpdateOf(e.to, e, e.value)>>

\* The first n sequences of s, joined; unlike FlattenSeq, for a prefix of s.
Joined(s, n) == LET f[k \in Nat] == IF k = 0 THEN << >> ELSE f[k - 1] \o s[k] IN f[n]

\* The updates of a transaction's first n events, of a message's first n transactions.
TxUpdatesTo(tx, n) == Joined([j \in DOMAIN tx.events |-> Updates(tx.events[j])], n)
TxUpdates(tx) == TxUpdatesTo(tx, Len(tx.events))
UpdatesTo(m, n) == Joined([i \in DOMAIN m.txs |-> TxUpdates(m.txs[i])], n)
AllUpdates(m) == UpdatesTo(m, Len(m.txs))

\* The updates executed so far, each by its block and its place in the block,
\* and what those of an account add up to.
Executed == UNION {{h} \X (1 .. executed[h]) : h \in blocks}
UpdateAt(x) == AllUpdates(claim[x[1]])[x[2]]
ExecutedOn(a, t) == {x \in Executed : UpdateAt(x).address = a /\ UpdateAt(x).token = t}
Explained(a, t) == SumFunction([x \in ExecutedOn(a, t) |-> UpdateAt(x).delta])

\* No balance update of a named account is lost, doubled or misdirected,
\* whatever interleaves, fails or crashes: every balance is the sum of the
\* updates executed so far, those are a prefix of what the block's events
\* prescribe, and the ones that name an address and a token have their row.
\* An update with an empty address or token matches no row: no balance holds it.
BalancesExplained ==
    /\ \A h \in blocks : executed[h] <= Len(AllUpdates(claim[h]))
    /\ \A x \in Executed : HasAccount(UpdateAt(x).address, UpdateAt(x).token)
    /\ \A r \in accounts : r.amount = Explained(r.address, r.token)

\* A block that was processed without an error left nothing out: its
\* transactions are there, every update was executed, every account an event
\* names by address and token has the row that holds them, and the transfers of
\* each transaction are recorded.
IndexedIsWhole ==
    \A h \in indexed :
        LET m == claim[h] IN
        /\ transactions[h] = m.txs
        /\ executed[h] = Len(AllUpdates(m))
        /\ \A u \in ToSet(AllUpdates(m)) : HasAccount(u.address, u.token)
        /\ \A i \in DOMAIN m.txs :
             TransferRows(m.txs[i]) \in ToSet(transfers[m.txs[i].hash]) \cup {{}}

\* IncrementAccountBalance expects an update without a row to be reported,
\* "account %s with token %s not found" (repository_ent.go:385): every update
\* it executes finds the row of its address and token.
ExecutedUpdatesFindTheirAccount ==
    \A x \in Executed : \E r \in accounts :
        r.address = UpdateAt(x).address /\ r.token = UpdateAt(x).token

\* The places of the claimed messages that carry a transaction of hash x.
Carried(x) == UNION {{h} \X {i \in DOMAIN claim[h].txs : claim[h].txs[i].hash = x} : h \in blocks}

\* Table transfers has no key of its own, so only AddBlock's conflict keeps a
\* redelivered or raced message from recording its transfers again: a
\* transaction has at most one bulk of transfers for each place it was claimed at.
TransfersOnce == \A x \in Hash : Len(transfers[x]) <= Cardinality(Carried(x))

\* A recorded transfer never runs ahead of the balances: some claimed block
\* carried its transaction, and all updates up to that transaction's end were
\* executed for it.
TransfersFollowBalances ==
    \A x \in Hash : transfers[x] # << >> =>
        \E h \in blocks : \E i \in DOMAIN claim[h].txs :
            /\ claim[h].txs[i].hash = x
            /\ executed[h] >= Len(UpdatesTo(claim[h], i))

\* "Check if account exists, create if not" (service.go:216): with no failing
\* call, a worker that needs an account finds it or creates it, so well-formed
\* events never make it give its block up.
EveryClaimedBlockIsIndexed == Abandoned = {}

\* "Composite unique index" on address and token (ent/schema/account.go:38): an
\* address has an account for each of its tokens, so once a block has been
\* processed or given up, every account its events name exists.
NamedAccountsExist ==
    \A h \in Abandoned \cup indexed : \A u \in ToSet(AllUpdates(claim[h])) :
        HasAccount(u.address, u.token)

\* Whatever was taken from the queue is left again: no worker hangs in a block.
JobsEnd == \A w \in Worker :
    (pc[w] \notin {"idle", "stopped"}) ~> (pc[w] \in {"idle", "stopped"})

\* Every accepted message is taken up by a worker, unless the context is
\* cancelled or the process dies first.
QueueDrains == (workCh # << >>) ~> (workCh = << >> \/ ctxDone)

\* After cancellation the workers end and workCh is closed, until a restart.
ShutdownEnds ==
    ctxDone ~> \/ ~ctxDone
               \/ closed /\ \A w \in Worker : pc[w] = "stopped"
===========================================================================
