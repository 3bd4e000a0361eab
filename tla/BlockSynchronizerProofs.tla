---------------------- MODULE BlockSynchronizerProofs ----------------------
(***************************************************************************)
(* Theorems about BlockSynchronizer: what the restore's cursor, its end    *)
(* and its messages say is true for every chain, window, number of         *)
(* workers and placement of crashes, failing calls and cancellations.      *)
(*                                                                         *)
(* RestoreInv relates the loop variable, the polled batch and what has     *)
(* been published.  None of the theorems is inductive without it: the      *)
(* cursor is saved from the loop variable, and a window is known to be     *)
(* complete only because its batch was polled up to the target.            *)
(***************************************************************************)
EXTENDS BlockSynchronizer, SequenceTheorems, TLAPS

\* The steps of the loop at which a window's blocks have been polled.
WindowSteps == {"save", "pollTxs", "publish"}

Counters ==
    /\ tip \in Nat /\ cursor \in Nat /\ rAt \in Nat /\ target \in Nat /\ from \in Nat
    /\ target <= tip

\* Inside the loop everything up to the loop variable is dealt with, and the
\* saved cursor is behind it.
LoopInv == rpc \in RestoreLoopSteps =>
    /\ from < target
    /\ cursor <= from
    /\ 2 .. from \subseteq Restored

\* Every block of the window, up to the target, is dealt with or in the batch.
BatchInv == rpc \in WindowSteps =>
    /\ \A h \in batch : from < h /\ h < from + Window + 1 /\ h \in 1 .. tip
    /\ \A h \in from + 1 .. from + Window : h <= target => h \in batch \cup Restored

\* The polled transactions decide the transactions of every block left.
PolledInv == rpc = "publish" => \A h \in batch : h \in polled <=> h \in TxHeights

RestoreInv ==
    /\ Counters /\ LoopInv /\ BatchInv /\ PolledInv
    /\ CursorCoverage /\ RestoreCoversTarget /\ RestoredHasItsTransactions

---------------------------------------------------------------------------
\* Blocks stay dealt with as long as messages and failures are only added.
LEMMA RestoredGrows ==
    ASSUME topic \subseteq topic', unpublished \subseteq unpublished'
    PROVE  Restored \subseteq Restored'
  BY DEF Restored

\* Publishing a restored block, or failing to, deals with it.
LEMMA RestoredBlock ==
    ASSUME NEW h,
           \/ [block |-> h, txs |-> TransactionsOf(h), by |-> "restore"] \in topic'
           \/ h \in unpublished'
    PROVE  h \in Restored'
<1>1. CASE h \in unpublished'
  BY <1>1 DEF Restored
<1>2. CASE [block |-> h, txs |-> TransactionsOf(h), by |-> "restore"] \in topic'
  <2> DEFINE m == [block |-> h, txs |-> TransactionsOf(h), by |-> "restore"]
  <2>1. m \in {n \in topic' : n.by = "restore"} /\ m.block = h
    BY <1>2
  <2> QED BY <2>1 DEF Restored
<1> QED BY <1>1, <1>2

LEMMA RestoreInvInit == Init => RestoreInv
<1> SUFFICES ASSUME Init PROVE RestoreInv
  OBVIOUS
<1>1. Counters
  BY ChainAssumption DEF Init, Counters, Height
<1>2. LoopInv /\ BatchInv /\ PolledInv /\ RestoreCoversTarget
  BY DEF Init, LoopInv, BatchInv, PolledInv, RestoreCoversTarget, RestoreLoopSteps, WindowSteps
<1>3. CursorCoverage
  <2>1. 2 .. 0 = {}
    OBVIOUS
  <2> QED BY <2>1 DEF Init, CursorCoverage
<1>4. RestoredHasItsTransactions
  BY DEF Init, RestoredHasItsTransactions
<1> QED BY <1>1, <1>2, <1>3, <1>4 DEF RestoreInv

---------------------------------------------------------------------------
\* A step that leaves the restore, its cursor and its messages alone, while
\* the chain may grow and the live path may publish, keeps RestoreInv.
LEMMA OtherStep ==
    ASSUME RestoreInv,
           UNCHANGED <<cursor, restoreVars, unpublished>>,
           tip' \in Nat, tip <= tip', topic \subseteq topic',
           \A m \in topic' : m \in topic \/ m.by = "live"
    PROVE  RestoreInv'
<1> USE DEF RestoreInv, restoreVars
<1>1. Restored \subseteq Restored'
  BY RestoredGrows
<1>2. Counters'
  BY DEF Counters
<1>3. LoopInv'
  BY <1>1 DEF LoopInv
<1>4. BatchInv'
  BY <1>1 DEF BatchInv, Counters
<1>5. PolledInv'
  BY DEF PolledInv
<1>6. CursorCoverage' /\ RestoreCoversTarget'
  BY <1>1 DEF CursorCoverage, RestoreCoversTarget
<1>7. RestoredHasItsTransactions'
  BY DEF RestoredHasItsTransactions
<1> QED BY <1>2, <1>3, <1>4, <1>5, <1>6, <1>7

\* The restart keeps the chain, the cursor and the topic.
LEMMA RestartStep == RestoreInv /\ Restart => RestoreInv'
<1> SUFFICES ASSUME RestoreInv, Restart PROVE RestoreInv'
  OBVIOUS
<1> USE DEF RestoreInv, Restart, cloud, history
<1>1. Restored' = Restored
  BY DEF Restored
<1>2. Counters'
  BY DEF Counters
<1>3. LoopInv' /\ BatchInv' /\ PolledInv' /\ RestoreCoversTarget'
  BY DEF LoopInv, BatchInv, PolledInv, RestoreCoversTarget, RestoreLoopSteps, WindowSteps
<1>4. CursorCoverage' /\ RestoredHasItsTransactions'
  BY <1>1 DEF CursorCoverage, RestoredHasItsTransactions
<1> QED BY <1>2, <1>3, <1>4
---------------------------------------------------------------------------
(* The steps of the restore goroutine                                      *)

\* A step to the ends of the goroutine, or before the loop, with nothing
\* else changed but the announcements it saw.
LEMMA OutsideLoopStep ==
    ASSUME RestoreInv,
           UNCHANGED <<tip, cursor, topic, from, unpublished>>,
           rAt' \in Nat, target' \in Nat, target' <= tip,
           rpc' \in RestoreSteps \ (RestoreLoopSteps \cup {"done"})
    PROVE  RestoreInv'
<1> USE DEF RestoreInv
<1>1. Restored' = Restored
  BY DEF Restored
<1>2. Counters'
  BY DEF Counters
<1>3. LoopInv' /\ BatchInv' /\ PolledInv' /\ RestoreCoversTarget'
  BY DEF LoopInv, BatchInv, PolledInv, RestoreCoversTarget, RestoreLoopSteps, WindowSteps
<1>4. CursorCoverage' /\ RestoredHasItsTransactions'
  BY <1>1 DEF CursorCoverage, RestoredHasItsTransactions
<1> QED BY <1>2, <1>3, <1>4

\* An error return.
LEMMA GotoStep ==
    ASSUME RestoreInv, NEW step \in {"failed", "waiting"}, RestoreGoto(step)
    PROVE  RestoreInv'
<1>1. /\ UNCHANGED <<tip, cursor, topic, from, unpublished, rAt, target>>
      /\ rpc' = step
  BY DEF RestoreGoto, RestoreFrame
<1>2. rAt' \in Nat /\ target' \in Nat /\ target' <= tip
  BY <1>1 DEF RestoreInv, Counters
<1>3. rpc' \in RestoreSteps \ (RestoreLoopSteps \cup {"done"})
  BY <1>1 DEF RestoreSteps, RestoreLoopSteps
<1> QED BY <1>1, <1>2, <1>3, OutsideLoopStep

LEMMA BeforeLoopSteps ==
    ASSUME RestoreInv,
           RestoreConnect \/ RestoreAnnounced \/ RestoreDisconnected \/ RestoreCancelled
    PROVE  RestoreInv'
<1>0. Counters
  BY DEF RestoreInv
<1>1. CASE RestoreConnect
  <2>1. CASE RestoreGoto("failed")
    BY <2>1, GotoStep
  <2>2. CASE ~RestoreGoto("failed")
    <3>1. /\ UNCHANGED <<tip, cursor, topic, from, unpublished, target>>
          /\ rpc' = "listen" /\ rAt' = tip
      BY <1>1, <2>2 DEF RestoreConnect, RestoreFrame
    <3>2. /\ rAt' \in Nat /\ target' \in Nat /\ target' <= tip
          /\ rpc' \in RestoreSteps \ (RestoreLoopSteps \cup {"done"})
      BY <1>0, <3>1 DEF Counters, RestoreSteps, RestoreLoopSteps
    <3> QED BY <3>1, <3>2, OutsideLoopStep
  <2> QED BY <2>1, <2>2
<1>2. CASE RestoreAnnounced
  <2>1. /\ UNCHANGED <<tip, cursor, topic, from, unpublished>>
        /\ rAt' = rAt + 1 /\ rAt < tip
        /\ target' \in {target, rAt + 1} /\ rpc' \in {"listen", "start"}
    BY <1>2 DEF RestoreAnnounced, RestoreFrame
  <2>2. /\ rAt' \in Nat /\ target' \in Nat /\ target' <= tip
        /\ rpc' \in RestoreSteps \ (RestoreLoopSteps \cup {"done"})
    BY <1>0, <2>1 DEF Counters, RestoreSteps, RestoreLoopSteps
  <2> QED BY <2>1, <2>2, OutsideLoopStep
<1>3. CASE RestoreDisconnected
  BY <1>3, GotoStep DEF RestoreDisconnected
<1>4. CASE RestoreCancelled
  BY <1>4, GotoStep DEF RestoreCancelled
<1> QED BY <1>1, <1>2, <1>3, <1>4

\* The start is the cursor, or 1 before any row: everything up to it is done.
LEMMA StartStep == RestoreInv /\ RestoreStart => RestoreInv'
<1> SUFFICES ASSUME RestoreInv, RestoreStart PROVE RestoreInv'
  OBVIOUS
<1> USE DEF RestoreInv
<1>1. CASE RestoreGoto("failed")
  BY <1>1, GotoStep
<1>2. CASE ~RestoreGoto("failed")
  <2>1. /\ UNCHANGED <<tip, cursor, topic, rAt, target, unpublished>>
        /\ from' = StartingBlock
        /\ rpc' = IF from' < target THEN "pollBlocks" ELSE "done"
    BY <1>2 DEF RestoreStart, RestoreFrame
  <2>2. Restored' = Restored
    BY <2>1 DEF Restored
  <2>3. from' \in Nat /\ cursor <= from' /\ 2 .. from' \subseteq Restored
    <3>1. CASE cursor = 0
      BY <2>1, <3>1 DEF StartingBlock
    <3>2. CASE cursor # 0
      BY <2>1, <3>2 DEF StartingBlock, CursorCoverage, Counters
    <3> QED BY <3>1, <3>2
  <2>4. Counters'
    BY <2>1, <2>3 DEF Counters
  <2>5. LoopInv' /\ BatchInv' /\ PolledInv'
    <3>1. rpc' \notin WindowSteps
      BY <2>1 DEF WindowSteps
    <3>2. BatchInv' /\ PolledInv'
      BY <3>1 DEF BatchInv, PolledInv, WindowSteps
    <3>3. LoopInv'
      BY <2>1, <2>2, <2>3 DEF LoopInv, RestoreLoopSteps
    <3> QED BY <3>2, <3>3
  <2>6. RestoreCoversTarget'
    BY <2>1, <2>2, <2>3 DEF RestoreCoversTarget, Counters
  <2>7. CursorCoverage' /\ RestoredHasItsTransactions'
    BY <2>1, <2>2 DEF CursorCoverage, RestoredHasItsTransactions
  <2> QED BY <2>4, <2>5, <2>6, <2>7
<1> QED BY <1>1, <1>2

\* The poll puts every block of the window that the chain has into the batch;
\* as the target is on the chain, the batch is never empty.
LEMMA PollBlocksStep == RestoreInv /\ RestorePollBlocks => RestoreInv'
<1> SUFFICES ASSUME RestoreInv, RestorePollBlocks PROVE RestoreInv'
  OBVIOUS
<1> USE DEF RestoreInv
<1>1. CASE RestoreGoto("failed")
  BY <1>1, GotoStep
<1>2. CASE ~RestoreGoto("failed")
  <2>1. /\ UNCHANGED <<tip, cursor, topic, rAt, target, from, unpublished>>
        /\ rpc = "pollBlocks"
        /\ batch' = {h \in 1 .. tip : from < h /\ h < from + Window + 1}
        /\ rpc' = IF batch' = {} THEN "done" ELSE "save"
    BY <1>2 DEF RestorePollBlocks, RestoreFrame, PollBlocks, Selected
  <2>2. Restored' = Restored
    BY <2>1 DEF Restored
  <2>3. from < target /\ cursor <= from /\ 2 .. from \subseteq Restored
    BY <2>1 DEF LoopInv, RestoreLoopSteps
  <2>4. from + 1 \in batch'
    BY <2>1, <2>3, SizesAssumption DEF Counters
  <2>5. rpc' = "save"
    BY <2>1, <2>4
  <2>6. Counters' /\ LoopInv' /\ PolledInv' /\ RestoreCoversTarget'
    BY <2>1, <2>2, <2>3, <2>5 DEF Counters, LoopInv, PolledInv, RestoreCoversTarget
  <2>7. BatchInv'
    BY <2>1, SizesAssumption DEF BatchInv, Counters
  <2>8. CursorCoverage' /\ RestoredHasItsTransactions'
    BY <2>1, <2>2 DEF CursorCoverage, RestoredHasItsTransactions
  <2> QED BY <2>6, <2>7, <2>8
<1> QED BY <1>1, <1>2

\* The cursor is set to the loop variable, behind which everything is done.
LEMMA SaveStep == RestoreInv /\ RestoreSave => RestoreInv'
<1> SUFFICES ASSUME RestoreInv, RestoreSave PROVE RestoreInv'
  OBVIOUS
<1> USE DEF RestoreInv
<1>1. CASE RestoreGoto("failed")
  BY <1>1, GotoStep
<1>2. CASE ~RestoreGoto("failed")
  <2>1. /\ UNCHANGED <<tip, topic, rAt, target, from, batch, unpublished>>
        /\ rpc = "save" /\ rpc' \in {"pollTxs", "failed"}
        /\ cursor' = from
    BY <1>2 DEF RestoreSave, RestoreFrame, SavedCursor
  <2>2. Restored' = Restored
    BY <2>1 DEF Restored
  <2>3. from < target /\ 2 .. from \subseteq Restored
    BY <2>1 DEF LoopInv, RestoreLoopSteps
  <2>4. Counters' /\ LoopInv' /\ PolledInv' /\ RestoreCoversTarget'
    BY <2>1, <2>2, <2>3 DEF Counters, LoopInv, PolledInv, RestoreCoversTarget
  <2>5. BatchInv'
    BY <2>1, <2>2 DEF BatchInv, WindowSteps
  <2>6. CursorCoverage' /\ RestoredHasItsTransactions'
    BY <2>1, <2>2, <2>3 DEF CursorCoverage, RestoredHasItsTransactions
  <2> QED BY <2>4, <2>5, <2>6
<1> QED BY <1>1, <1>2

\* The second query has the same bounds as the first, and the chain has not
\* lost a block since.
LEMMA PollTransactionsStep == RestoreInv /\ RestorePollTransactions => RestoreInv'
<1> SUFFICES ASSUME RestoreInv, RestorePollTransactions PROVE RestoreInv'
  OBVIOUS
<1> USE DEF RestoreInv
<1>1. CASE RestoreGoto("failed")
  BY <1>1, GotoStep
<1>2. CASE ~RestoreGoto("failed")
  <2>1. /\ UNCHANGED <<tip, cursor, topic, rAt, target, from, batch, unpublished>>
        /\ rpc = "pollTxs" /\ rpc' = "publish"
        /\ polled' = TxHeights \cap {h \in 1 .. tip : from < h /\ h < from + Window + 1}
    BY <1>2 DEF RestorePollTransactions, RestoreFrame, PollTransactions, Selected
  <2>2. Restored' = Restored
    BY <2>1 DEF Restored
  <2>3. Counters' /\ LoopInv' /\ RestoreCoversTarget'
    BY <2>1, <2>2 DEF Counters, LoopInv, RestoreCoversTarget, RestoreLoopSteps
  <2>4. BatchInv'
    BY <2>1, <2>2 DEF BatchInv, WindowSteps
  <2>5. PolledInv'
    BY <2>1 DEF PolledInv, BatchInv, WindowSteps
  <2>6. CursorCoverage' /\ RestoredHasItsTransactions'
    BY <2>1, <2>2 DEF CursorCoverage, RestoredHasItsTransactions
  <2> QED BY <2>3, <2>4, <2>5, <2>6
<1> QED BY <1>1, <1>2

\* A block leaves the batch published or reported, with its transactions.
LEMMA PublishStep ==
    ASSUME RestoreInv, NEW h \in Height, RestorePublish(h) PROVE RestoreInv'
<1> USE DEF RestoreInv
<1> DEFINE m == [block |-> h, txs |-> TransactionsOf(h), by |-> "restore"]
<1>1. /\ UNCHANGED <<tip, cursor, rpc, rAt, target, from, polled>>
      /\ rpc = "publish" /\ h \in batch /\ batch' = batch \ {h}
      /\ topic' \in {topic, topic \cup {m}}
      /\ unpublished \subseteq unpublished'
      /\ m \in topic' \/ h \in unpublished'
  BY DEF RestorePublish, RestoreFrame, Assembled, Published, PublishFails
<1>2. Restored \subseteq Restored'
  BY <1>1, RestoredGrows
<1>3. h \in Restored'
  BY <1>1, RestoredBlock
<1>4. Counters' /\ LoopInv' /\ PolledInv' /\ RestoreCoversTarget'
  BY <1>1, <1>2 DEF Counters, LoopInv, PolledInv, RestoreCoversTarget
<1>5. BatchInv'
  BY <1>1, <1>2, <1>3 DEF BatchInv
<1>6. CursorCoverage'
  BY <1>1, <1>2 DEF CursorCoverage
<1>7. m.block = h /\ m.txs = TxHeights \cap {h}
  BY <1>1 DEF PolledInv, TransactionsOf
<1>8. RestoredHasItsTransactions'
  BY <1>1, <1>7 DEF RestoredHasItsTransactions
<1> QED BY <1>4, <1>5, <1>6, <1>8

\* With the batch empty the window is done up to the target.
LEMMA NextWindowStep == RestoreInv /\ RestoreNextWindow => RestoreInv'
<1> SUFFICES ASSUME RestoreInv, RestoreNextWindow PROVE RestoreInv'
  OBVIOUS
<1> USE DEF RestoreInv
<1>1. /\ UNCHANGED <<tip, cursor, topic, rAt, target, unpublished>>
      /\ rpc = "publish" /\ batch = {} /\ from' = from + Window
      /\ rpc' = IF from' < target THEN "pollBlocks" ELSE "done"
  BY DEF RestoreNextWindow, RestoreFrame
<1>2. Restored' = Restored
  BY <1>1 DEF Restored
<1>3. from < target /\ cursor <= from /\ 2 .. from \subseteq Restored
  BY <1>1 DEF LoopInv, RestoreLoopSteps
<1>4. \A h \in from + 1 .. from + Window : h <= target => h \in Restored
  BY <1>1 DEF BatchInv, WindowSteps
<1>5. \A h \in 2 .. from + Window : h <= target => h \in Restored
  BY <1>3, <1>4, SizesAssumption DEF Counters
<1>6. Counters'
  BY <1>1, SizesAssumption DEF Counters
<1>7. LoopInv' /\ BatchInv' /\ PolledInv'
  <2>1. rpc' \notin WindowSteps
    BY <1>1 DEF WindowSteps
  <2>2. BatchInv' /\ PolledInv'
    BY <2>1 DEF BatchInv, PolledInv, WindowSteps
  <2>3. CASE from' < target
    <3>1. 2 .. from' \subseteq Restored
      BY <1>1, <1>5, <2>3, SizesAssumption DEF Counters
    <3>2. cursor <= from'
      BY <1>1, <1>3, SizesAssumption DEF Counters
    <3> QED BY <1>1, <1>2, <2>2, <2>3, <3>1, <3>2 DEF LoopInv
  <2>4. CASE ~(from' < target)
    <3>1. rpc' = "done"
      BY <1>1, <2>4
    <3>2. LoopInv'
      BY <3>1 DEF LoopInv, RestoreLoopSteps
    <3> QED BY <2>2, <3>2
  <2> QED BY <2>3, <2>4
<1>8. RestoreCoversTarget'
  BY <1>1, <1>2, <1>5, SizesAssumption DEF Counters, RestoreCoversTarget
<1>9. CursorCoverage' /\ RestoredHasItsTransactions'
  BY <1>1, <1>2 DEF CursorCoverage, RestoredHasItsTransactions
<1> QED BY <1>6, <1>7, <1>8, <1>9
---------------------------------------------------------------------------
(* All steps together                                                      *)

\* What a step of the live pipeline changes is none of the restore's business.
LEMMA LivePipelineStep ==
    ASSUME RestoreInv,
           \/ LiveConnect \/ LiveAnnounced \/ LiveDisconnected
           \/ Dispatch \/ CloseChannels
           \/ \E w \in BlockWorker : BlockWorkerStep(w)
    PROVE  RestoreInv'
<1>1. /\ UNCHANGED <<tip, cursor, restoreVars, unpublished>>
      /\ topic \subseteq topic' /\ \A m \in topic' : m \in topic \/ m.by = "live"
  <2>1. CASE LiveConnect \/ LiveAnnounced \/ LiveDisconnected
    BY <2>1 DEF LiveConnect, LiveAnnounced, LiveDisconnected, SubscriptionFrame, LiveFrame
  <2>2. CASE Dispatch \/ CloseChannels
    BY <2>2 DEF Dispatch, CloseChannels, LiveFrame
  <2>3. ASSUME NEW w \in BlockWorker,
               TakeBlock(w) \/ StopBlockWorker(w) \/ PollBlockTransactions(w)
        PROVE  UNCHANGED <<tip, topic, cursor, restoreVars, unpublished>>
    BY <2>3 DEF TakeBlock, StopBlockWorker, PollBlockTransactions, BlockWorkerFrame, LiveFrame
  <2>4. ASSUME NEW w \in BlockWorker, PublishBlock(w)
        PROVE  /\ UNCHANGED <<tip, cursor, restoreVars, unpublished>>
               /\ topic' \in {topic, topic \cup {LiveMessage(w)}}
    BY <2>4 DEF PublishBlock, BlockWorkerFrame, LiveFrame, Published, PublishFails
  <2>5. ASSUME NEW w \in BlockWorker PROVE LiveMessage(w).by = "live"
    BY DEF LiveMessage
  <2> QED BY <2>1, <2>2, <2>3, <2>4, <2>5 DEF BlockWorkerStep
<1>2. tip' \in Nat /\ tip <= tip'
  BY <1>1 DEF RestoreInv, Counters
<1> QED BY <1>1, <1>2, OtherStep

\* The environment: the chain grows, the process crashes or is cancelled.
LEMMA EnvironmentStep ==
    ASSUME RestoreInv, NewBlock \/ Crash \/ ReadTimesOut \/ Cancel \/ LiveSendOnClosed
    PROVE  RestoreInv'
<1>1. CASE NewBlock
  <2>1. /\ UNCHANGED <<topic, cursor, restoreVars, unpublished>> /\ tip' = tip + 1
    BY <1>1 DEF NewBlock, history
  <2>2. tip' \in Nat /\ tip <= tip'
    BY <2>1 DEF RestoreInv, Counters
  <2> QED BY <2>1, <2>2, OtherStep
<1>2. CASE Crash \/ ReadTimesOut \/ LiveSendOnClosed
  BY <1>2, RestartStep DEF Crash, ReadTimesOut, LiveSendOnClosed
<1>3. CASE Cancel
  <2>1. UNCHANGED <<tip, topic, cursor, restoreVars, unpublished>>
    BY <1>3 DEF Cancel, cloud, history
  <2>2. tip' \in Nat /\ tip <= tip'
    BY <2>1 DEF RestoreInv, Counters
  <2> QED BY <2>1, <2>2, OtherStep
<1> QED BY <1>1, <1>2, <1>3

LEMMA RestoreInvStep == RestoreInv /\ [Next]_vars => RestoreInv'
<1> SUFFICES ASSUME RestoreInv, [Next]_vars PROVE RestoreInv'
  OBVIOUS
<1>1. CASE RestoreStep
  BY <1>1, BeforeLoopSteps, StartStep, PollBlocksStep, SaveStep,
     PollTransactionsStep, PublishStep, NextWindowStep
     DEF RestoreStep, RestoreLoop
<1>2. CASE NewBlock \/ Crash \/ ReadTimesOut \/ Cancel \/ LiveSendOnClosed
  BY <1>2, EnvironmentStep
<1>3. CASE \/ LiveConnect \/ LiveAnnounced \/ LiveDisconnected
           \/ Dispatch \/ CloseChannels
           \/ \E w \in BlockWorker : BlockWorkerStep(w)
  BY <1>3, LivePipelineStep
<1>4. CASE UNCHANGED vars
  <2>1. UNCHANGED <<tip, topic, cursor, restoreVars, unpublished>>
    BY <1>4 DEF vars, cloud, history
  <2>2. tip' \in Nat /\ tip <= tip'
    BY <2>1 DEF RestoreInv, Counters
  <2> QED BY <2>1, <2>2, OtherStep
<1> QED BY <1>1, <1>2, <1>3, <1>4 DEF Next, SubscriptionStep

LEMMA RestoreInvAlways == Spec => []RestoreInv
  BY RestoreInvInit, RestoreInvStep, PTL DEF Spec

---------------------------------------------------------------------------
(* The theorems                                                            *)

\* Whatever crashes, fails or is cancelled between SaveRestoringHistory and
\* the last Publish of a window, every block from 2 to the saved cursor was
\* published or reported as failed; one reported as failed stays behind.
THEOREM CursorIsCovered == Spec => []CursorCoverage
<1>1. RestoreInv => CursorCoverage
  BY DEF RestoreInv
<1> QED BY <1>1, RestoreInvAlways, PTL

\* RestoreMissingBlockAndTransactions returns from its loop only when every
\* block from 2 to the announced height was published or reported.
THEOREM FinishedRestoreCovers == Spec => []RestoreCoversTarget
<1>1. RestoreInv => RestoreCoversTarget
  BY DEF RestoreInv
<1> QED BY <1>1, RestoreInvAlways, PTL

\* The two polls of a window, with any growth of the chain between them, give
\* each published block all its transactions and no others.
THEOREM RestoredMessagesAreWhole == Spec => []RestoredHasItsTransactions
<1>1. RestoreInv => RestoredHasItsTransactions
  BY DEF RestoreInv
<1> QED BY <1>1, RestoreInvAlways, PTL

\* SaveRestoringHistory never sets restore_range_start back, in this run of
\* the process or after a restart.
THEOREM CursorOnlyAdvances == Spec => CursorNeverBack
<1>1. RestoreInv /\ [Next]_vars => [cursor' >= cursor]_cursor
  <2> SUFFICES ASSUME RestoreInv, [Next]_vars, cursor' # cursor
               PROVE  cursor' >= cursor
    OBVIOUS
  <2>1. RestoreSave /\ ~RestoreGoto("failed")
    <3>1. ~(NewBlock \/ Crash \/ ReadTimesOut \/ Cancel \/ LiveSendOnClosed \/ UNCHANGED vars)
      BY DEF NewBlock, Crash, ReadTimesOut, Cancel, LiveSendOnClosed, Restart, vars
    <3>2. ~(LiveConnect \/ LiveAnnounced \/ LiveDisconnected \/ Dispatch \/ CloseChannels)
      BY DEF LiveConnect, LiveAnnounced, LiveDisconnected, Dispatch, CloseChannels,
             SubscriptionFrame, LiveFrame
    <3>3. ASSUME NEW w \in BlockWorker PROVE ~BlockWorkerStep(w)
      BY DEF BlockWorkerStep, TakeBlock, StopBlockWorker, PollBlockTransactions,
             PublishBlock, BlockWorkerFrame, LiveFrame
    <3>4. ASSUME NEW step PROVE ~RestoreGoto(step)
      BY DEF RestoreGoto
    <3>5. ~(\/ RestoreConnect \/ RestoreAnnounced \/ RestoreDisconnected
            \/ RestoreCancelled \/ RestoreStart)
      BY <3>4 DEF RestoreConnect, RestoreAnnounced, RestoreDisconnected,
                  RestoreCancelled, RestoreStart
    <3>6. ~(RestorePollBlocks \/ RestorePollTransactions \/ RestoreNextWindow)
      BY <3>4 DEF RestorePollBlocks, RestorePollTransactions, RestoreNextWindow
    <3>7. ASSUME NEW h \in Height PROVE ~RestorePublish(h)
      BY DEF RestorePublish
    <3> QED BY <3>1, <3>2, <3>3, <3>4, <3>5, <3>6, <3>7
            DEF Next, RestoreStep, RestoreLoop, SubscriptionStep
  <2>2. rpc = "save" /\ cursor' = from
    BY <2>1 DEF RestoreSave, SavedCursor
  <2>3. cursor <= from
    BY <2>2 DEF RestoreInv, LoopInv, RestoreLoopSteps
  <2> QED BY <2>2, <2>3 DEF RestoreInv, Counters
<1> QED BY <1>1, RestoreInvAlways, PTL DEF Spec, CursorNeverBack
---------------------------------------------------------------------------
(* Types                                                                   *)

\* A blockWorker at work holds a block.
HoldsBlock == \A w \in BlockWorker : wpc[w] \in {"pollTxs", "publish"} => held[w] # 0

RestoreTypes ==
    /\ cursor \in Nat /\ from \in Nat
    /\ rpc \in RestoreSteps /\ rAt \in 0 .. tip /\ target \in 0 .. tip
    /\ batch \subseteq 1 .. tip /\ polled \subseteq 1 .. tip
LiveTypes ==
    /\ lpc \in {"connect", "listen", "ended"} /\ lAt \in 0 .. tip /\ lFrom \in 0 .. tip
    /\ ch \in Seq(1 .. tip) /\ Len(ch) <= ChCap
    /\ workCh \in Seq(1 .. tip) /\ Len(workCh) <= WorkChCap
    /\ closed \in BOOLEAN
WorkerTypes ==
    /\ wpc \in [BlockWorker -> {"idle", "pollTxs", "publish", "stopped"}]
    /\ held \in [BlockWorker -> 0 .. tip]
    /\ wTxs \in [BlockWorker -> SUBSET (1 .. tip)]
    /\ HoldsBlock
OtherTypes ==
    /\ tip \in Height /\ topic \subseteq Message
    /\ ctxDone \in BOOLEAN /\ faults \in Nat /\ crashes \in Nat
    /\ unpublished \subseteq 1 .. tip /\ lost \subseteq 1 .. tip /\ dropped \subseteq 1 .. tip

TypeInv == RestoreTypes /\ LiveTypes /\ WorkerTypes /\ OtherTypes

LEMMA FaultTypes == faults \in Nat /\ (Fault \/ NoFault) => faults' \in Nat
  BY DEF Fault, NoFault

LEMMA TypeInvInit == Init => TypeInv
<1> SUFFICES ASSUME Init PROVE TypeInv
  OBVIOUS
<1>1. RestoreTypes
  BY ChainAssumption DEF Init, RestoreTypes, RestoreSteps, RestoreLoopSteps, Height
<1>2. LiveTypes
  <2>1. << >> \in Seq(1 .. tip) /\ Len(<< >>) = 0
    OBVIOUS
  <2>2. ch \in Seq(1 .. tip) /\ workCh \in Seq(1 .. tip) /\ Len(ch) = 0 /\ Len(workCh) = 0
    BY <2>1 DEF Init
  <2>3. Len(ch) <= ChCap /\ Len(workCh) <= WorkChCap
    BY <2>2, SizesAssumption
  <2>4. lAt \in 0 .. tip /\ lFrom \in 0 .. tip
    BY ChainAssumption DEF Init, Height
  <2>5. lpc \in {"connect", "listen", "ended"} /\ closed \in BOOLEAN
    BY DEF Init
  <2> QED BY <2>2, <2>3, <2>4, <2>5 DEF LiveTypes
<1>3. WorkerTypes
  BY ChainAssumption DEF Init, WorkerTypes, HoldsBlock, Height
<1>4. OtherTypes
  BY ChainAssumption DEF Init, OtherTypes
<1> QED BY <1>1, <1>2, <1>3, <1>4 DEF TypeInv

LEMMA RestartTypes == TypeInv /\ Restart => RestoreTypes' /\ LiveTypes' /\ WorkerTypes'
<1> SUFFICES ASSUME TypeInv, Restart PROVE RestoreTypes' /\ LiveTypes' /\ WorkerTypes'
  OBVIOUS
<1>0. RestoreTypes /\ OtherTypes /\ tip \in Nat /\ 0 \in 0 .. tip
  BY ChainAssumption DEF TypeInv, OtherTypes, Height
<1>1. RestoreTypes'
  BY <1>0 DEF Restart, cloud, RestoreTypes, RestoreSteps
<1>2. LiveTypes'
  <2>1. << >> \in Seq(1 .. tip) /\ Len(<< >>) = 0
    OBVIOUS
  <2>2. ch' \in Seq(1 .. tip') /\ workCh' \in Seq(1 .. tip') /\ Len(ch') = 0 /\ Len(workCh') = 0
    BY <2>1 DEF Restart, cloud
  <2>3. Len(ch') <= ChCap /\ Len(workCh') <= WorkChCap
    BY <2>2, SizesAssumption
  <2>4. lAt' \in 0 .. tip' /\ lFrom' \in 0 .. tip' /\ lpc' \in {"connect", "listen", "ended"} /\ closed' \in BOOLEAN
    BY <1>0 DEF Restart, cloud
  <2> QED BY <2>2, <2>3, <2>4 DEF LiveTypes
<1>3. WorkerTypes'
  BY <1>0 DEF Restart, cloud, WorkerTypes, HoldsBlock
<1> QED BY <1>1, <1>2, <1>3

\* The environment's steps: only a new block changes what the heights are.
LEMMA EnvironmentTypes ==
    TypeInv /\ (NewBlock \/ Crash \/ ReadTimesOut \/ Cancel \/ LiveSendOnClosed) => TypeInv'
<1> SUFFICES ASSUME TypeInv,
                    NewBlock \/ Crash \/ ReadTimesOut \/ Cancel \/ LiveSendOnClosed
             PROVE  TypeInv'
  OBVIOUS
<1>0. RestoreTypes /\ LiveTypes /\ WorkerTypes /\ OtherTypes
  BY DEF TypeInv
<1>1. CASE NewBlock
  <2>1. tip' \in Height /\ 0 .. tip \subseteq 0 .. tip' /\ 1 .. tip \subseteq 1 .. tip'
    BY <1>0, <1>1, ChainAssumption DEF NewBlock, OtherTypes, Height
  <2>2. Seq(1 .. tip) \subseteq Seq(1 .. tip')
    BY <2>1, SeqMonotonic
  <2>3. RestoreTypes'
    BY <1>0, <1>1, <2>1 DEF NewBlock, RestoreTypes, restoreVars
  <2>4. LiveTypes'
    BY <1>0, <1>1, <2>1, <2>2 DEF NewBlock, LiveTypes, liveVars, subscriptionVars
  <2>5. WorkerTypes'
    BY <1>0, <1>1, <2>1 DEF NewBlock, WorkerTypes, HoldsBlock, liveVars, subscriptionVars, workerVars
  <2>6. OtherTypes'
    BY <1>0, <1>1, <2>1 DEF NewBlock, OtherTypes, envVars, history
  <2> QED BY <2>3, <2>4, <2>5, <2>6 DEF TypeInv
<1>2. CASE Crash \/ ReadTimesOut \/ LiveSendOnClosed
  <2>1. Restart /\ faults' \in Nat /\ crashes' \in Nat
    BY <1>0, <1>2, FaultTypes DEF Crash, ReadTimesOut, LiveSendOnClosed, OtherTypes, NoFault
  <2>2. OtherTypes'
    BY <1>0, <2>1 DEF OtherTypes, Restart, cloud, history
  <2> QED BY <2>1, <2>2, RestartTypes DEF TypeInv
<1>3. CASE Cancel
  BY <1>0, <1>3 DEF Cancel, TypeInv, RestoreTypes, LiveTypes, WorkerTypes, OtherTypes,
              HoldsBlock, cloud, restoreVars, liveVars, subscriptionVars, workerVars, history
<1> QED BY <1>1, <1>2, <1>3
\* The restore's steps leave the live path's variables alone.
LEMMA RestoreStepTypes == TypeInv /\ RestoreStep => TypeInv'
<1> SUFFICES ASSUME TypeInv, RestoreStep PROVE TypeInv'
  OBVIOUS
<1>0. RestoreTypes /\ LiveTypes /\ WorkerTypes /\ OtherTypes /\ tip \in Nat /\ tip > 0
  BY ChainAssumption DEF TypeInv, OtherTypes, Height
<1>1. RestoreFrame /\ faults' \in Nat
  <2>1. ASSUME NEW step, RestoreGoto(step) PROVE RestoreFrame
    BY <2>1 DEF RestoreGoto
  <2>2. (Fault \/ NoFault) => faults' \in Nat
    BY <1>0, FaultTypes DEF OtherTypes
  <2>3. CASE \/ RestoreConnect \/ RestoreAnnounced \/ RestoreDisconnected
             \/ RestoreCancelled \/ RestoreStart
    BY <2>1, <2>2, <2>3 DEF RestoreConnect, RestoreAnnounced, RestoreDisconnected,
                            RestoreCancelled, RestoreStart, QueryFails
  <2>4. CASE RestorePollBlocks \/ RestorePollTransactions \/ RestoreNextWindow \/ RestoreSave
    BY <2>1, <2>2, <2>4 DEF RestorePollBlocks, RestorePollTransactions, RestoreNextWindow,
                            RestoreSave, QueryFails
  <2>5. ASSUME NEW h \in Height, RestorePublish(h) PROVE RestoreFrame /\ (Fault \/ NoFault)
    BY <2>5 DEF RestorePublish, PublishFails
  <2> QED BY <2>2, <2>3, <2>4, <2>5 DEF RestoreStep, RestoreLoop
<1>2. LiveTypes' /\ WorkerTypes' /\ tip' = tip
  BY <1>0, <1>1 DEF RestoreFrame, liveVars, subscriptionVars, workerVars, LiveTypes, WorkerTypes, HoldsBlock
<1>3. ASSUME NEW step \in RestoreSteps, RestoreGoto(step)
      PROVE  RestoreTypes' /\ topic' = topic /\ unpublished' = unpublished
  BY <1>0, <1>2, <1>3 DEF RestoreGoto, RestoreTypes
<1>4. {"failed", "waiting", "listen", "start", "done", "pollBlocks", "save", "pollTxs", "publish"}
         \subseteq RestoreSteps
  BY DEF RestoreSteps, RestoreLoopSteps
<1>5. RestoreTypes' /\ topic' \subseteq Message /\ unpublished' \subseteq 1 .. tip
  <2>1. CASE \E step \in RestoreSteps : RestoreGoto(step)
    BY <1>0, <1>3, <2>1 DEF OtherTypes
  <2>2. CASE RestoreConnect /\ ~RestoreGoto("failed")
    <3>1. rAt' \in 0 .. tip /\ rpc' \in RestoreSteps
      BY <1>0, <1>4, <2>2 DEF RestoreConnect
    <3> QED BY <1>0, <1>2, <2>2, <3>1 DEF RestoreConnect, RestoreTypes, OtherTypes
  <2>3. CASE RestoreAnnounced
    <3>1. rAt' \in 0 .. tip /\ target' \in 0 .. tip /\ rpc' \in RestoreSteps
      BY <1>0, <1>4, <2>3 DEF RestoreAnnounced, RestoreTypes
    <3> QED BY <1>0, <1>2, <2>3, <3>1 DEF RestoreAnnounced, RestoreTypes, OtherTypes
  <2>4. CASE RestoreDisconnected \/ RestoreCancelled
    BY <1>4, <2>1, <2>4 DEF RestoreDisconnected, RestoreCancelled
  <2>5. CASE RestoreStart /\ ~RestoreGoto("failed")
    <3>1. from' \in Nat /\ rpc' \in RestoreSteps
      BY <1>0, <1>4, <2>5 DEF RestoreStart, StartingBlock, RestoreTypes
    <3> QED BY <1>0, <1>2, <2>5, <3>1 DEF RestoreStart, RestoreTypes, OtherTypes
  <2>6. CASE RestorePollBlocks /\ ~RestoreGoto("failed")
    <3>1. batch' \subseteq 1 .. tip /\ rpc' \in RestoreSteps
      BY <1>4, <2>6 DEF RestorePollBlocks, PollBlocks, Selected
    <3> QED BY <1>0, <1>2, <2>6, <3>1 DEF RestorePollBlocks, RestoreTypes, OtherTypes
  <2>7. CASE RestoreSave /\ ~RestoreGoto("failed")
    <3>1. cursor' \in Nat /\ rpc' \in RestoreSteps
      BY <1>0, <1>4, <2>7 DEF RestoreSave, SavedCursor, RestoreTypes
    <3> QED BY <1>0, <1>2, <2>7, <3>1 DEF RestoreSave, RestoreTypes, OtherTypes
  <2>8. CASE RestorePollTransactions /\ ~RestoreGoto("failed")
    <3>1. polled' \subseteq 1 .. tip /\ rpc' \in RestoreSteps
      BY <1>4, <2>8 DEF RestorePollTransactions, PollTransactions, Selected
    <3> QED BY <1>0, <1>2, <2>8, <3>1 DEF RestorePollTransactions, RestoreTypes, OtherTypes
  <2>9. ASSUME NEW h \in Height, RestorePublish(h)
        PROVE  RestoreTypes' /\ topic' \subseteq Message /\ unpublished' \subseteq 1 .. tip
    <3>1. Assembled(h) \in Message
      <4>1. TransactionsOf(h) \subseteq Height
        BY <1>0 DEF TransactionsOf, RestoreTypes, OtherTypes, Height
      <4> QED BY <4>1 DEF Assembled, Message
    <3>2. topic' \subseteq Message /\ unpublished' \subseteq unpublished \cup {h}
      BY <1>0, <2>9, <3>1 DEF RestorePublish, Published, PublishFails, OtherTypes
    <3>3. h \in 1 .. tip /\ batch' \subseteq 1 .. tip
      BY <1>0, <2>9 DEF RestorePublish, RestoreTypes
    <3> QED BY <1>0, <1>2, <2>9, <3>2, <3>3 DEF RestorePublish, RestoreTypes, OtherTypes
  <2>10. CASE RestoreNextWindow
    <3>1. from' \in Nat /\ rpc' \in RestoreSteps
      BY <1>0, <1>4, <2>10, SizesAssumption DEF RestoreNextWindow, RestoreTypes
    <3> QED BY <1>0, <1>2, <2>10, <3>1 DEF RestoreNextWindow, RestoreTypes, OtherTypes
  <2> QED BY <1>4, <2>1, <2>2, <2>3, <2>4, <2>5, <2>6, <2>7, <2>8, <2>9, <2>10
          DEF RestoreStep, RestoreLoop
<1>6. OtherTypes'
  BY <1>0, <1>1, <1>2, <1>5 DEF OtherTypes, RestoreFrame, envVars
<1> QED BY <1>2, <1>5, <1>6 DEF TypeInv
\* The subscription, the dispatcher and the closing of the channels.
LEMMA ChannelStepTypes ==
    TypeInv /\ (\/ LiveConnect \/ LiveAnnounced \/ LiveDisconnected
                \/ Dispatch \/ CloseChannels) => TypeInv'
<1> SUFFICES ASSUME TypeInv,
                    \/ LiveConnect \/ LiveAnnounced \/ LiveDisconnected
                    \/ Dispatch \/ CloseChannels
             PROVE  TypeInv'
  OBVIOUS
<1>0. RestoreTypes /\ LiveTypes /\ WorkerTypes /\ OtherTypes /\ tip \in Nat /\ tip > 0
  BY ChainAssumption DEF TypeInv, OtherTypes, Height
<1>1. /\ LiveFrame /\ UNCHANGED <<topic, workerVars>> /\ (Fault \/ NoFault)
      /\ \/ UNCHANGED lost \/ (ch # << >> /\ lost' = lost \cup {Head(ch)})
         \/ lAt + 1 \in 1 .. tip /\ lost' = lost \cup {lAt + 1}
      /\ \/ UNCHANGED dropped
         \/ lAt + 1 \in 1 .. tip /\ dropped' = dropped \cup {lAt + 1}
  BY <1>0 DEF LiveConnect, LiveAnnounced, LiveDisconnected, Dispatch, CloseChannels,
         SubscriptionFrame, LiveTypes
<1>2. ch # << >> => /\ Head(ch) \in 1 .. tip /\ Tail(ch) \in Seq(1 .. tip)
                    /\ Len(Tail(ch)) <= ChCap
  BY <1>0, SizesAssumption DEF LiveTypes
<1>3. RestoreTypes' /\ WorkerTypes' /\ tip' = tip
  BY <1>0, <1>1 DEF LiveFrame, restoreVars, workerVars, RestoreTypes, WorkerTypes, HoldsBlock
<1>4. OtherTypes'
  <2>1. lost' \subseteq 1 .. tip /\ dropped' \subseteq 1 .. tip
    BY <1>0, <1>1, <1>2 DEF OtherTypes
  <2>2. faults' \in Nat
    BY <1>0, <1>1, FaultTypes DEF OtherTypes
  <2> QED BY <1>0, <1>1, <2>1, <2>2 DEF LiveFrame, envVars, OtherTypes
<1>5. LiveTypes'
  <2>1. CASE LiveConnect \/ LiveDisconnected
    BY <1>0, <1>3, <2>1 DEF LiveConnect, LiveDisconnected, SubscriptionFrame, LiveTypes
  <2>2. CASE LiveAnnounced
    <3>1. lAt' \in 1 .. tip /\ lAt + 1 \in 1 .. tip
      BY <1>0, <2>2 DEF LiveAnnounced, LiveTypes
    <3>2. Append(ch, lAt + 1) \in Seq(1 .. tip) /\ Len(Append(ch, lAt + 1)) = Len(ch) + 1
      BY <1>0, <3>1 DEF LiveTypes
    <3>3. ch' \in Seq(1 .. tip) /\ Len(ch') <= ChCap
      <4>1. ch' = ch \/ (Len(ch) < ChCap /\ ch' = Append(ch, lAt + 1))
        BY <2>2 DEF LiveAnnounced
      <4>2. CASE ch' = ch
        BY <1>0, <4>2 DEF LiveTypes
      <4>3. CASE Len(ch) < ChCap /\ ch' = Append(ch, lAt + 1)
        <5>1. Len(ch) \in Nat
          BY <1>0 DEF LiveTypes
        <5> QED BY <3>2, <4>3, <5>1, SizesAssumption
      <4> QED BY <4>1, <4>2, <4>3
    <3> QED BY <1>0, <1>3, <2>2, <3>1, <3>3 DEF LiveAnnounced, SubscriptionFrame, LiveTypes
  <2>3. CASE Dispatch
    <3>1. /\ Append(workCh, Head(ch)) \in Seq(1 .. tip)
          /\ Len(Append(workCh, Head(ch))) = Len(workCh) + 1
      BY <1>0, <1>2, <2>3 DEF Dispatch, LiveTypes
    <3>2. workCh' \in Seq(1 .. tip) /\ Len(workCh') <= WorkChCap
      <4>1. workCh' = workCh \/ (Len(workCh) < WorkChCap /\ workCh' = Append(workCh, Head(ch)))
        BY <2>3 DEF Dispatch
      <4>2. CASE workCh' = workCh
        BY <1>0, <4>2 DEF LiveTypes
      <4>3. CASE Len(workCh) < WorkChCap /\ workCh' = Append(workCh, Head(ch))
        <5>1. Len(workCh) \in Nat
          BY <1>0 DEF LiveTypes
        <5> QED BY <3>1, <4>3, <5>1, SizesAssumption
      <4> QED BY <4>1, <4>2, <4>3
    <3>3. ch' \in Seq(1 .. tip) /\ Len(ch') <= ChCap
      BY <1>2, <2>3 DEF Dispatch
    <3> QED BY <1>0, <1>3, <2>3, <3>2, <3>3 DEF Dispatch, LiveTypes, subscriptionVars
  <2>4. CASE CloseChannels
    BY <1>0, <1>3, <2>4 DEF CloseChannels, LiveTypes, subscriptionVars
  <2> QED BY <2>1, <2>2, <2>3, <2>4
<1> QED BY <1>3, <1>4, <1>5 DEF TypeInv

\* The blockWorkers: a block is taken from workCh, and put into a message.
LEMMA BlockWorkerStepTypes ==
    ASSUME TypeInv, NEW w \in BlockWorker, BlockWorkerStep(w) PROVE TypeInv'
<1>0. RestoreTypes /\ LiveTypes /\ WorkerTypes /\ OtherTypes /\ tip \in Nat /\ tip > 0
  BY ChainAssumption DEF TypeInv, OtherTypes, Height
<1>1. BlockWorkerFrame /\ (Fault \/ NoFault) /\ wpc[w] # "stopped"
  BY DEF BlockWorkerStep, TakeBlock, StopBlockWorker, PollBlockTransactions, PublishBlock,
         PublishFails
<1>2. RestoreTypes' /\ tip' = tip /\ faults' \in Nat
  BY <1>0, <1>1, FaultTypes DEF BlockWorkerFrame, LiveFrame, restoreVars, RestoreTypes, OtherTypes
<1>3. wpc[w] \in {"pollTxs", "publish"} => held[w] \in 1 .. tip
  BY <1>0 DEF WorkerTypes, HoldsBlock
<1>4. BackToIdle(w) => WorkerTypes'
  <2> SUFFICES ASSUME BackToIdle(w) PROVE WorkerTypes'
    OBVIOUS
  <2>1. 0 \in 0 .. tip
    BY <1>0
  <2> QED BY <1>0, <1>2, <2>1 DEF BackToIdle, WorkerTypes, HoldsBlock
<1>5. CASE TakeBlock(w)
  <2>1. /\ Head(workCh) \in 1 .. tip /\ Tail(workCh) \in Seq(1 .. tip)
        /\ Len(Tail(workCh)) <= WorkChCap
    BY <1>0, <1>5, SizesAssumption DEF TakeBlock, LiveTypes
  <2>2. LiveTypes'
    BY <1>0, <1>1, <1>2, <1>5, <2>1 DEF TakeBlock, BlockWorkerFrame, LiveTypes, subscriptionVars
  <2>3. Head(workCh) \in 0 .. tip /\ Head(workCh) # 0
    BY <2>1
  <2>4. WorkerTypes'
    BY <1>0, <1>2, <1>5, <2>3 DEF TakeBlock, WorkerTypes, HoldsBlock
  <2>5. OtherTypes'
    BY <1>0, <1>1, <1>2, <1>5 DEF TakeBlock, BlockWorkerFrame, LiveFrame, envVars, OtherTypes
  <2> QED BY <1>2, <2>2, <2>4, <2>5 DEF TypeInv
<1>6. CASE ~TakeBlock(w)
  <2>1. LiveTypes'
    BY <1>0, <1>1, <1>2, <1>6 DEF BlockWorkerStep, StopBlockWorker, PollBlockTransactions,
                                  PublishBlock, BlockWorkerFrame, LiveTypes, subscriptionVars
  <2>2. WorkerTypes' /\ lost' \subseteq 1 .. tip
    <3>1. CASE StopBlockWorker(w)
      BY <1>0, <1>2, <3>1 DEF StopBlockWorker, WorkerTypes, HoldsBlock, OtherTypes
    <3>2. CASE PollBlockTransactions(w)
      <4>1. PollTransactions(held[w], 1) \subseteq 1 .. tip
        BY DEF PollTransactions, Selected
      <4>2. CASE GivesUp(w)
        BY <1>0, <1>3, <1>4, <3>2, <4>2 DEF GivesUp, PollBlockTransactions, OtherTypes
      <4>3. CASE ~GivesUp(w)
        BY <1>0, <1>2, <1>3, <3>2, <4>1, <4>3
           DEF PollBlockTransactions, WorkerTypes, HoldsBlock, OtherTypes
      <4> QED BY <4>2, <4>3
    <3>3. CASE PublishBlock(w)
      BY <1>0, <1>3, <1>4, <3>3 DEF PublishBlock, GivesUp, OtherTypes
    <3> QED BY <1>6, <3>1, <3>2, <3>3 DEF BlockWorkerStep
  <2>3. topic' \subseteq Message
    <3>1. CASE PublishBlock(w)
      <4>1. held[w] \in Height /\ wTxs[w] \in SUBSET Height
        <5>1. held[w] \in 1 .. tip
          BY <1>3, <3>1 DEF PublishBlock
        <5>2. wTxs[w] \in SUBSET (1 .. tip)
          BY <1>0 DEF WorkerTypes
        <5>3. 1 .. tip \subseteq Height
          BY <1>0, ChainAssumption DEF OtherTypes, Height
        <5> QED BY <5>1, <5>2, <5>3
      <4>2. LiveMessage(w) \in Message
        BY <4>1 DEF LiveMessage, Message
      <4> QED BY <1>0, <3>1, <4>2 DEF PublishBlock, Published, PublishFails, OtherTypes
    <3>2. CASE ~PublishBlock(w)
      BY <1>0, <1>6, <3>2 DEF BlockWorkerStep, StopBlockWorker, PollBlockTransactions, OtherTypes
    <3> QED BY <3>1, <3>2
  <2>4. OtherTypes'
    BY <1>0, <1>1, <1>2, <2>2, <2>3 DEF BlockWorkerFrame, LiveFrame, envVars, OtherTypes
  <2> QED BY <1>2, <2>1, <2>2, <2>4 DEF TypeInv
<1> QED BY <1>5, <1>6

LEMMA TypeInvStep == TypeInv /\ [Next]_vars => TypeInv'
<1> SUFFICES ASSUME TypeInv, [Next]_vars PROVE TypeInv'
  OBVIOUS
<1>1. CASE UNCHANGED vars
  BY <1>1 DEF vars, TypeInv, RestoreTypes, LiveTypes, WorkerTypes, OtherTypes, HoldsBlock,
              cloud, restoreVars, liveVars, subscriptionVars, workerVars, envVars, history
<1> QED BY <1>1, EnvironmentTypes, RestoreStepTypes, ChannelStepTypes, BlockWorkerStepTypes
        DEF Next, SubscriptionStep

\* Every variable keeps its type, ch and workCh their capacities, and no block
\* beyond the chain's tip is ever announced, polled, held or published.
THEOREM TypeCorrect == Spec => []TypeOK
<1>1. TypeInv => TypeOK
  BY DEF TypeInv, TypeOK, RestoreTypes, LiveTypes, WorkerTypes, OtherTypes
<1> QED BY <1>1, TypeInvInit, TypeInvStep, PTL DEF Spec
===========================================================================
