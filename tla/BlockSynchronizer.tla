------------------------- MODULE BlockSynchronizer -------------------------
(***************************************************************************)
(* src/cmd/block-synchronizer: the restore goroutine, which walks from the *)
(* saved cursor to a target height in windows, and the live pipeline of    *)
(* subscription, dispatcher and blockWorkers, both publishing blocks with  *)
(* their transactions.  The chain's GraphQL service is external: it has    *)
(* the blocks 1 .. tip, answers a query with what it has, and announces    *)
(* each block it adds to the subscriptions open at that time.  A block's   *)
(* transactions are represented by the block's height.                     *)
(***************************************************************************)
EXTENDS Integers, Sequences

CONSTANTS MaxHeight,    \* bound: the chain's last block
          FirstTip,     \* the chain's height when the process first starts
          TxHeights,    \* the blocks that have transactions
          Window,       \* heights per restore window (100 in the code)
          ChCap,        \* capacity of ch
          WorkChCap,    \* capacity of workCh
          BlockWorker,  \* the blockWorker goroutines
          MaxFaults,    \* bound: failing calls and unusable announcements
          MaxCrashes,   \* bound: process crashes
          MayCancel     \* whether the context can be cancelled

Height == 1 .. MaxHeight

ASSUME ChainAssumption ==
    /\ MaxHeight \in Nat \ {0} /\ FirstTip \in Height
    /\ TxHeights \subseteq Height
ASSUME SizesAssumption ==
    /\ Window \in Nat \ {0} /\ ChCap \in Nat \ {0} /\ WorkChCap \in Nat \ {0}
    /\ MaxFaults \in Nat /\ MaxCrashes \in Nat /\ MayCancel \in BOOLEAN

VARIABLES tip,                \* the chain's last block
          cursor,             \* restore_range_start of row 1, 0 without the row
          topic,              \* the messages published so far
          rpc, rAt,           \* restore: next step, last block announced to it
          target, from,       \* restore: block.Height and the loop variable
          batch, polled,      \* restore: blocks left to publish, transactions
          lpc, lAt, lFrom,    \* live: subscription, last block announced to it,
                              \* the chain's last block when it was opened
          ch,                 \* live: the announced blocks
          closed, workCh,     \* whether both channels are closed; workCh
          wpc, held, wTxs,    \* each blockWorker's step, block, transactions
          ctxDone, faults, crashes,
          unpublished,        \* history: blocks the restore failed to publish,
          lost,               \* announced blocks the live pipeline gave up with
                              \* a log line, and those it dropped at a full ch,
          dropped             \* which is logged at every hundredth message only

cloud == <<tip, topic>>
restoreVars == <<rpc, rAt, target, from, batch, polled>>
workerVars == <<wpc, held, wTxs>>
subscriptionVars == <<lpc, lAt, lFrom>>
liveVars == <<subscriptionVars, ch, closed, workCh, workerVars>>
envVars == <<ctxDone, crashes>>
history == <<unpublished, lost, dropped>>
vars == <<cloud, cursor, restoreVars, liveVars, envVars, faults, history>>

\* A published BlockWithTransactions, and which of the two paths published it.
Message == [block : Height, txs : SUBSET Height, by : {"restore", "live"}]

---------------------------------------------------------------------------
(* The chain's GraphQL service and the two polls                           *)

NewBlock ==
    /\ tip < MaxHeight
    /\ tip' = tip + 1
    /\ UNCHANGED <<topic, cursor, restoreVars, liveVars, envVars, faults, history>>

\* The heights a query 'gt: offset, lt: offset + limit + 1' selects.
Selected(offset, limit) == {h \in 1 .. tip : offset < h /\ h < offset + limit + 1}

\* Variants for mutation runs: 'lt: offset + limit'.
PollTransactionsShort(offset, limit) ==
    {h \in TxHeights \cap Selected(offset, limit) : h < offset + limit}

PollBlocksShort(offset, limit) ==
    {h \in Selected(offset, limit) : h < offset + limit}

PollBlocks(offset, limit) == Selected(offset, limit)
PollTransactions(offset, limit) == TxHeights \cap Selected(offset, limit)

Fault == faults < MaxFaults /\ faults' = faults + 1
NoFault == UNCHANGED faults

\* Publish returns nil and the message is with the broker.
Published(m) == topic' = topic \cup {m}
\* Publish returns an error, whether or not the broker took the message.
PublishFails(m) == Fault /\ (UNCHANGED topic \/ Published(m))

---------------------------------------------------------------------------
Init == /\ tip = FirstTip /\ cursor = 0 /\ topic = {}
        /\ rpc = "connect" /\ rAt = 0 /\ target = 0 /\ from = 0
        /\ batch = {} /\ polled = {}
        /\ lpc = "connect" /\ lAt = 0 /\ lFrom = 0
        /\ ch = << >> /\ closed = FALSE /\ workCh = << >>
        /\ wpc = [w \in BlockWorker |-> "idle"]
        /\ held = [w \in BlockWorker |-> 0]
        /\ wTxs = [w \in BlockWorker |-> {}]
        /\ ctxDone = FALSE /\ faults = 0 /\ crashes = 0
        /\ unpublished = {} /\ lost = {} /\ dropped = {}

\* The process dies and is started again; row 1 and the topic outlive it.
Restart ==
    /\ rpc' = "connect" /\ rAt' = 0 /\ target' = 0 /\ from' = 0
    /\ batch' = {} /\ polled' = {}
    /\ lpc' = "connect" /\ lAt' = 0 /\ lFrom' = 0
    /\ ch' = << >> /\ closed' = FALSE /\ workCh' = << >>
    /\ wpc' = [w \in BlockWorker |-> "idle"]
    /\ held' = [w \in BlockWorker |-> 0]
    /\ wTxs' = [w \in BlockWorker |-> {}]
    /\ ctxDone' = FALSE
    /\ UNCHANGED <<cloud, cursor, history>>

Crash == crashes < MaxCrashes /\ crashes' = crashes + 1 /\ Restart /\ NoFault

\* The chain is silent for 120 s.  The loop goes on reading the connection, but
\* a connection that timed out fails every read at once, and the websocket
\* library panics on the thousandth: the process dies and is started again.
ReadTimesOut ==
    /\ "listen" \in {rpc, lpc} /\ ~ctxDone
    /\ Fault /\ Restart /\ UNCHANGED crashes

Cancel ==
    /\ MayCancel /\ ~ctxDone
    /\ ctxDone' = TRUE
    /\ UNCHANGED <<cloud, cursor, restoreVars, liveVars, crashes, faults, history>>

(***************************************************************************)
(* RestoreMissingBlockAndTransactions                                      *)
(***************************************************************************)
\* What every step of the restore goroutine leaves alone.
RestoreFrame == UNCHANGED <<tip, liveVars, envVars, lost, dropped>>
\* A step that only moves the goroutine on.
RestoreGoto(step) ==
    /\ rpc' = step
    /\ UNCHANGED <<cursor, topic, rAt, target, from, batch, polled, unpublished>>
    /\ RestoreFrame

\* SubscribeLastestBlock with once set: dial, init, ack, subscribe.
RestoreConnect ==
    /\ rpc = "connect"
    /\ \/ /\ NoFault
          /\ rpc' = "listen" /\ rAt' = tip
          /\ UNCHANGED <<cursor, topic, target, from, batch, polled, unpublished>>
          /\ RestoreFrame
       \/ Fault /\ RestoreGoto("failed")

\* The first usable announcement is the target; an unusable one is skipped.
RestoreAnnounced ==
    /\ rpc = "listen" /\ rAt < tip
    /\ rAt' = rAt + 1
    /\ \/ NoFault /\ target' = rAt + 1 /\ rpc' = "start"
       \/ Fault /\ UNCHANGED <<target, rpc>>
    /\ UNCHANGED <<cursor, topic, from, batch, polled, unpublished>>
    /\ RestoreFrame

\* A normal close returns nil without a block, and nobody else sends to or
\* closes chBlock; any other end of the connection is an error.
RestoreDisconnected ==
    /\ rpc = "listen" /\ Fault
    /\ RestoreGoto("waiting") \/ RestoreGoto("failed")

\* A cancelled context ends the subscription with an error, and the wait for a
\* block with a query that the same context makes fail.
RestoreCancelled ==
    /\ rpc \in {"listen", "waiting"} /\ ctxDone /\ NoFault
    /\ RestoreGoto("failed")

\* A query of the repository fails by itself or for the cancelled context.
QueryFails == Fault \/ (ctxDone /\ NoFault)

\* Variant for a mutation run: the restore ignores the saved row.
StartFromScratch == 1

\* GetNotSequentialBlockNum: the cursor, or 1 when no row was ever saved.
StartingBlock == IF cursor = 0 THEN 1 ELSE cursor

RestoreStart ==
    /\ rpc = "start"
    /\ \/ /\ NoFault /\ ~ctxDone
          /\ from' = StartingBlock
          /\ rpc' = IF from' < target THEN "pollBlocks" ELSE "done"
          /\ UNCHANGED <<cursor, topic, rAt, target, batch, polled, unpublished>>
          /\ RestoreFrame
       \/ QueryFails /\ RestoreGoto("failed")

RestorePollBlocks ==
    /\ rpc = "pollBlocks"
    /\ \/ /\ NoFault
          /\ batch' = PollBlocks(from, Window)
          /\ rpc' = IF batch' = {} THEN "done" ELSE "save"
          /\ UNCHANGED <<cursor, topic, rAt, target, from, polled, unpublished>>
          /\ RestoreFrame
       \/ Fault /\ RestoreGoto("failed")

\* Variant for a mutation run: the cursor is the end of the window.
SavedCursorAtEnd(i) == i + Window

\* SaveRestoringHistory's restore_range_start.
SavedCursor(i) == i

RestoreSave ==
    /\ rpc = "save"
    /\ \/ /\ cursor' = SavedCursor(from)
          /\ \/ NoFault /\ ~ctxDone /\ rpc' = "pollTxs"
             \/ QueryFails /\ rpc' = "failed"
          /\ UNCHANGED <<topic, rAt, target, from, batch, polled, unpublished>>
          /\ RestoreFrame
       \/ QueryFails /\ RestoreGoto("failed")

RestorePollTransactions ==
    /\ rpc = "pollTxs"
    /\ \/ /\ NoFault
          /\ polled' = PollTransactions(from, Window)
          /\ rpc' = "publish"
          /\ UNCHANGED <<cursor, topic, rAt, target, from, batch, unpublished>>
          /\ RestoreFrame
       \/ Fault /\ RestoreGoto("failed")

\* Variant for a mutation run: the whole window's transactions.
TransactionsOfWindow(h) == polled

\* The transactions of a window's block, by their block_height.
TransactionsOf(h) == {t \in polled : t = h}
Assembled(h) == [block |-> h, txs |-> TransactionsOf(h), by |-> "restore"]

\* A block that fails to be published is logged and passed over.
RestorePublish(h) ==
    /\ rpc = "publish" /\ h \in batch
    /\ batch' = batch \ {h}
    /\ \/ NoFault /\ Published(Assembled(h)) /\ UNCHANGED unpublished
       \/ PublishFails(Assembled(h)) /\ unpublished' = unpublished \cup {h}
    /\ UNCHANGED <<cursor, rpc, rAt, target, from, polled>>
    /\ RestoreFrame

\* Variant for a mutation run: the loop's condition is on the next window's end.
RestoreNextWindowShort ==
    /\ rpc = "publish" /\ batch = {} /\ NoFault
    /\ from' = from + Window
    /\ rpc' = IF from' + Window < target THEN "pollBlocks" ELSE "done"
    /\ UNCHANGED <<cursor, topic, rAt, target, batch, polled, unpublished>>
    /\ RestoreFrame

\* Variant for a mutation run: the loop variable is not advanced.
RestoreSameWindow ==
    /\ rpc = "publish" /\ batch = {} /\ NoFault
    /\ rpc' = IF from < target THEN "pollBlocks" ELSE "done"
    /\ UNCHANGED <<cursor, topic, rAt, target, from, batch, polled, unpublished>>
    /\ RestoreFrame

RestoreNextWindow ==
    /\ rpc = "publish" /\ batch = {} /\ NoFault
    /\ from' = from + Window
    /\ rpc' = IF from' < target THEN "pollBlocks" ELSE "done"
    /\ UNCHANGED <<cursor, topic, rAt, target, batch, polled, unpublished>>
    /\ RestoreFrame

RestoreLoop == \/ RestorePollBlocks \/ RestoreSave \/ RestorePollTransactions
               \/ \E h \in Height : RestorePublish(h)
               \/ RestoreNextWindow
RestoreStep == \/ RestoreConnect \/ RestoreAnnounced \/ RestoreDisconnected
               \/ RestoreCancelled \/ RestoreStart \/ RestoreLoop

(***************************************************************************)
(* SubscribeAndPush: subscription, dispatcher and blockWorkers             *)
(***************************************************************************)
\* What every step of the live pipeline leaves alone.
LiveFrame == UNCHANGED <<tip, cursor, restoreVars, envVars, unpublished>>
SubscriptionFrame == UNCHANGED <<topic, closed, workCh, workerVars>> /\ LiveFrame

\* A subscription that cannot be opened, or ends, is not opened again, and the
\* dispatcher keeps waiting on ch.
LiveConnect ==
    /\ lpc = "connect"
    /\ \/ NoFault /\ lpc' = "listen" /\ lAt' = tip /\ lFrom' = tip
       \/ Fault /\ lpc' = "ended" /\ UNCHANGED <<lAt, lFrom>>
    /\ UNCHANGED <<ch, lost, dropped>> /\ SubscriptionFrame

\* A block that finds ch full is dropped, as a rule silently; an unusable
\* announcement is logged and skipped.
LiveAnnounced ==
    /\ lpc = "listen" /\ lAt < tip
    /\ lAt' = lAt + 1
    /\ \/ /\ NoFault /\ ~closed /\ Len(ch) < ChCap
          /\ ch' = Append(ch, lAt + 1)
          /\ UNCHANGED <<lost, dropped>>
       \/ /\ NoFault /\ ~closed /\ Len(ch) = ChCap
          /\ dropped' = dropped \cup {lAt + 1}
          /\ UNCHANGED <<ch, lost>>
       \/ /\ Fault
          /\ lost' = lost \cup {lAt + 1}
          /\ UNCHANGED <<ch, dropped>>
    /\ UNCHANGED <<lpc, lFrom>> /\ SubscriptionFrame

LiveDisconnected ==
    /\ lpc = "listen"
    /\ Fault \/ (ctxDone /\ NoFault)
    /\ lpc' = "ended"
    /\ UNCHANGED <<lAt, lFrom, ch, lost, dropped>> /\ SubscriptionFrame

\* The dispatcher closes ch while the subscription, its sender, may be at its
\* send: that panics, which ends the process.
LiveSendOnClosed ==
    /\ lpc = "listen" /\ lAt < tip /\ closed
    /\ Restart
    /\ UNCHANGED <<faults, crashes>>

\* Variant for a mutation run: workCh is taken to have room.
DispatchUnbounded ==
    /\ ~closed /\ ch # << >>
    /\ ch' = Tail(ch)
    /\ workCh' = Append(workCh, Head(ch))
    /\ NoFault
    /\ UNCHANGED <<topic, subscriptionVars, closed, workerVars, lost, dropped>>
    /\ LiveFrame

\* A block that finds workCh full is dropped.
Dispatch ==
    /\ ~closed /\ ch # << >>
    /\ ch' = Tail(ch)
    /\ \/ /\ Len(workCh) < WorkChCap
          /\ workCh' = Append(workCh, Head(ch))
          /\ UNCHANGED lost
       \/ /\ Len(workCh) = WorkChCap
          /\ lost' = lost \cup {Head(ch)}
          /\ UNCHANGED workCh
    /\ NoFault
    /\ UNCHANGED <<topic, subscriptionVars, closed, workerVars, dropped>> /\ LiveFrame

CloseChannels ==
    /\ ctxDone /\ ~closed
    /\ closed' = TRUE
    /\ NoFault
    /\ UNCHANGED <<topic, subscriptionVars, ch, workCh, workerVars, lost, dropped>>
    /\ LiveFrame

\* What every step of a blockWorker leaves alone.
BlockWorkerFrame == UNCHANGED <<subscriptionVars, ch, closed, dropped>> /\ LiveFrame

TakeBlock(w) ==
    /\ wpc[w] = "idle" /\ workCh # << >>
    /\ workCh' = Tail(workCh)
    /\ wpc' = [wpc EXCEPT ![w] = "pollTxs"]
    /\ held' = [held EXCEPT ![w] = Head(workCh)]
    /\ NoFault
    /\ UNCHANGED <<topic, wTxs, lost>> /\ BlockWorkerFrame

\* Variant for a mutation run: the context is looked at when a block arrives.
StopAtNextBlock(w) ==
    /\ wpc[w] = "idle" /\ ctxDone /\ workCh # << >>
    /\ wpc' = [wpc EXCEPT ![w] = "stopped"]
    /\ NoFault
    /\ UNCHANGED <<topic, workCh, held, wTxs, lost>> /\ BlockWorkerFrame

StopBlockWorker(w) ==
    /\ wpc[w] = "idle" /\ ctxDone
    /\ wpc' = [wpc EXCEPT ![w] = "stopped"]
    /\ NoFault
    /\ UNCHANGED <<topic, workCh, held, wTxs, lost>> /\ BlockWorkerFrame

BackToIdle(w) ==
    /\ wpc' = [wpc EXCEPT ![w] = "idle"]
    /\ held' = [held EXCEPT ![w] = 0]
    /\ wTxs' = [wTxs EXCEPT ![w] = {}]

\* Variant for a mutation run: an error ends the goroutine.
GivesUpAndReturns(w) ==
    /\ wpc' = [wpc EXCEPT ![w] = "stopped"]
    /\ held' = [held EXCEPT ![w] = 0]
    /\ wTxs' = [wTxs EXCEPT ![w] = {}]
    /\ lost' = lost \cup {held[w]}

\* processBlockWithTransactions returns an error: the block is logged and gone.
GivesUp(w) == BackToIdle(w) /\ lost' = lost \cup {held[w]}

PollBlockTransactions(w) ==
    /\ wpc[w] = "pollTxs"
    /\ \/ /\ NoFault
          /\ wTxs' = [wTxs EXCEPT ![w] = PollTransactions(held[w], 1)]
          /\ wpc' = [wpc EXCEPT ![w] = "publish"]
          /\ UNCHANGED <<held, lost>>
       \/ Fault /\ GivesUp(w)
    /\ UNCHANGED <<topic, workCh>> /\ BlockWorkerFrame

LiveMessage(w) == [block |-> held[w], txs |-> wTxs[w], by |-> "live"]

PublishBlock(w) ==
    /\ wpc[w] = "publish"
    /\ \/ NoFault /\ Published(LiveMessage(w)) /\ BackToIdle(w) /\ UNCHANGED lost
       \/ PublishFails(LiveMessage(w)) /\ GivesUp(w)
    /\ UNCHANGED workCh /\ BlockWorkerFrame

BlockWorkerStep(w) == \/ TakeBlock(w) \/ StopBlockWorker(w)
                      \/ PollBlockTransactions(w) \/ PublishBlock(w)
SubscriptionStep == \/ LiveConnect \/ LiveAnnounced \/ LiveDisconnected
                    \/ LiveSendOnClosed

---------------------------------------------------------------------------
Next == \/ NewBlock \/ Crash \/ ReadTimesOut \/ Cancel
        \/ RestoreStep \/ SubscriptionStep \/ Dispatch \/ CloseChannels
        \/ \E w \in BlockWorker : BlockWorkerStep(w)

Spec == Init /\ [][Next]_vars

\* Goroutines that can run are scheduled, and queries return.  Nothing is
\* assumed of the chain: no new block, and no announcement, need come.
Fairness == /\ WF_vars(RestoreStart) /\ WF_vars(RestoreLoop)
            /\ WF_vars(Dispatch) /\ WF_vars(CloseChannels)
            /\ \A w \in BlockWorker : WF_vars(BlockWorkerStep(w))
FairSpec == Spec /\ Fairness

---------------------------------------------------------------------------
(* Properties                                                              *)

RestoreLoopSteps == {"pollBlocks", "save", "pollTxs", "publish"}
RestoreSteps == RestoreLoopSteps \cup {"connect", "listen", "waiting", "start", "done", "failed"}

\* Every variable keeps its type; the channels keep their capacities, and no
\* height beyond the chain's is announced, polled, held or published.
TypeOK ==
    /\ tip \in Height /\ cursor \in Nat /\ topic \subseteq Message
    /\ rpc \in RestoreSteps /\ rAt \in 0 .. tip /\ target \in 0 .. tip
    /\ from \in Nat /\ batch \subseteq 1 .. tip /\ polled \subseteq 1 .. tip
    /\ lpc \in {"connect", "listen", "ended"} /\ lAt \in 0 .. tip /\ lFrom \in 0 .. tip
    /\ ch \in Seq(1 .. tip) /\ Len(ch) <= ChCap
    /\ workCh \in Seq(1 .. tip) /\ Len(workCh) <= WorkChCap
    /\ wpc \in [BlockWorker -> {"idle", "pollTxs", "publish", "stopped"}]
    /\ held \in [BlockWorker -> 0 .. tip]
    /\ wTxs \in [BlockWorker -> SUBSET (1 .. tip)]
    /\ closed \in BOOLEAN /\ ctxDone \in BOOLEAN
    /\ faults \in Nat /\ crashes \in Nat
    /\ unpublished \subseteq 1 .. tip /\ lost \subseteq 1 .. tip /\ dropped \subseteq 1 .. tip

\* The blocks the restore published, or reported as failed to publish.
Restored == {m.block : m \in {n \in topic : n.by = "restore"}} \cup unpublished

\* The cursor never claims a block that the restore has neither published nor
\* reported as failed, whatever crashes or fails between SaveRestoringHistory
\* and the last Publish of a window.  A block reported as failed is behind the
\* next window's cursor: no restart publishes it.
CursorCoverage == 2 .. cursor \subseteq Restored

\* A restore that ran to its end has dealt with every block from 2 to the
\* announced target, in this run of the process or before.
RestoreCoversTarget == rpc = "done" => 2 .. target \subseteq Restored

\* The cursor is never set back, so no restart repeats more than one window.
CursorNeverBack == [][cursor' >= cursor]_cursor

\* Blocks and transactions of a window come from two queries, between which
\* the chain may grow: a restored message has all its block's transactions
\* and no others.
RestoredHasItsTransactions ==
    \A m \in topic : m.by = "restore" => m.txs = TxHeights \cap {m.block}

Elements(q) == {q[i] : i \in DOMAIN q}

\* The blocks a message, a log line or the pipeline itself accounts for.
Handled == Restored \cup lost \cup {m.block : m \in {n \in topic : n.by = "live"}}
           \cup Elements(ch) \cup Elements(workCh) \cup {held[w] : w \in BlockWorker}

\* Of all blocks up to the last one announced to the live subscription, those
\* that disappear without a message or a log line are the ones dropped at a full
\* ch, and the ones between the restore's target and the opening of the
\* subscription, which are opened independently.  No others: neither the
\* windows, the dispatcher, the workers nor a restart loses one.
NoOtherGap ==
    rpc = "done" /\ lpc = "listen"
        => 2 .. lAt \subseteq Handled \cup dropped \cup (target + 1 .. lFrom)

\* "Don't return on timeout, just continue waiting" (service.go:697): a
\* subscription that hears nothing for 120 s goes on waiting; it does not end up
\* where it has to be opened anew.
WaitsThroughSilence == [][lpc = "listen" => lpc' # "connect"]_vars

\* "failed to poll transactions for block" (service.go:263): what the live
\* path publishes with a block is that block's transactions.
LiveHasItsTransactions ==
    \A m \in topic : m.by = "live" => m.txs = TxHeights \cap {m.block}

\* "No restoring history found, returning default block number 1"
\* (repository_ent.go:48): a restore from scratch begins with block 1.
RestoreBeginsWithBlockOne == rpc = "done" => 1 .. target \subseteq Restored

\* Once the target is known the restore ends, in success or with an error,
\* unless the process is restarted.
RestoreEnds == (rpc = "start") ~> (rpc \in {"done", "failed", "connect"})

\* A block ch accepted is published, or given up with a log line, unless the
\* context is cancelled or the process restarted first: no failing call of one
\* block keeps the workers from the next.
AcceptedBlocksArePublished ==
    \A h \in Height :
        (\E i \in DOMAIN ch : ch[i] = h)
            ~> \/ h \in lost
               \/ \E m \in topic : m.by = "live" /\ m.block = h
               \/ ctxDone \/ lpc = "connect"

\* After cancellation the dispatcher and the workers end, until a restart; the
\* restore ends too, unless it is still waiting for the chain.
ShutdownEnds ==
    ctxDone ~> \/ ~ctxDone
               \/ /\ closed
                  /\ \A w \in BlockWorker : wpc[w] = "stopped"
                  /\ rpc \notin RestoreLoopSteps

\* "channel closed, no blocks received" and "channel closed, stopping
\* subscription" (service.go:119, 220): when a subscription ends, the goroutine
\* that reads from its channel notices and returns.
EndedSubscriptionIsNoticed ==
    /\ (rpc = "waiting") ~> (rpc # "waiting")
    /\ (lpc = "ended") ~> closed

---------------------------------------------------------------------------
(* The abstract synchronizer                                               *)

Publishing == INSTANCE BlockPublishing

\* The synchronizer implements the abstract one: whatever fails, crashes or is
\* announced in between, a message is a restored block with its transactions,
\* or a live block, newer than the first start, with at most its successor's.
PublishesBlocks == Publishing!Spec
===========================================================================
