----------------------- MODULE PublishingRefinement -----------------------
(***************************************************************************)
(* Proofs that BlockSynchronizer implements BlockPublishing, and that the   *)
(* restore and the live pipeline lose no block but those dropped at a full  *)
(* ch and those between the restore's target and the subscription.          *)
(***************************************************************************)
EXTENDS BlockSynchronizerProofs

---------------------------------------------------------------------------
(* Elements of a channel                                                   *)

LEMMA AppendElements ==
    ASSUME NEW S, NEW q \in Seq(S), NEW e \in S
    PROVE  Elements(Append(q, e)) = Elements(q) \cup {e}
<1>1. /\ DOMAIN q = 1 .. Len(q) /\ Len(q) \in Nat
      /\ DOMAIN Append(q, e) = 1 .. Len(q) + 1
  OBVIOUS
<1>2. Append(q, e)[Len(q) + 1] = e /\ \A i \in 1 .. Len(q) : Append(q, e)[i] = q[i]
  OBVIOUS
<1>. QED BY <1>1, <1>2 DEF Elements

LEMMA TailElements ==
    ASSUME NEW S, NEW q \in Seq(S), q # << >>
    PROVE  Elements(q) = {Head(q)} \cup Elements(Tail(q))
<1>1. /\ Len(q) \in Nat \ {0} /\ DOMAIN q = 1 .. Len(q) /\ Head(q) = q[1]
      /\ Tail(q) \in Seq(S) /\ Len(Tail(q)) = Len(q) - 1
      /\ \A i \in 1 .. Len(q) - 1 : Tail(q)[i] = q[i + 1]
  BY HeadTailProperties, EmptySeq
<1>2. DOMAIN Tail(q) = 1 .. Len(q) - 1
  BY <1>1, LenProperties
<1>3. \A i \in 2 .. Len(q) : i - 1 \in 1 .. Len(q) - 1 /\ q[i] = Tail(q)[i - 1]
  BY <1>1
<1>4. \A i \in 1 .. Len(q) - 1 : i + 1 \in 1 .. Len(q)
  BY <1>1
<1>5. \A i \in 1 .. Len(q) : i = 1 \/ i \in 2 .. Len(q)
  BY <1>1
<1>6. ASSUME NEW x \in Elements(q) PROVE x = Head(q) \/ x \in Elements(Tail(q))
  <2>1. PICK i \in 1 .. Len(q) : x = q[i]
    BY <1>1 DEF Elements
  <2>2. CASE i = 1
    BY <1>1, <2>1, <2>2
  <2>3. CASE i \in 2 .. Len(q)
    <3>1. i - 1 \in DOMAIN Tail(q) /\ x = Tail(q)[i - 1]
      BY <1>2, <1>3, <2>1, <2>3
    <3>. QED BY <3>1 DEF Elements
  <2>. QED BY <1>5, <2>2, <2>3
<1>7. ASSUME NEW x \in Elements(Tail(q)) PROVE x \in Elements(q)
  <2>1. PICK i \in 1 .. Len(q) - 1 : x = Tail(q)[i]
    BY <1>2 DEF Elements
  <2>2. i + 1 \in DOMAIN q /\ x = q[i + 1]
    BY <1>1, <1>4, <2>1
  <2>. QED BY <2>2 DEF Elements
<1>8. Head(q) \in Elements(q)
  BY <1>1 DEF Elements
<1>. QED BY <1>6, <1>7, <1>8

LEMMA NoElements == Elements(<< >>) = {}
  BY DEF Elements

---------------------------------------------------------------------------
(* Where live messages come from                                           *)

NewBlocks == FirstTip + 1 .. tip

\* A worker's block was announced to a subscription, and its transactions were
\* polled for the height after it.
LiveWorker(w) ==
    /\ wpc[w] \in {"pollTxs", "publish"} => held[w] \in NewBlocks
    /\ wpc[w] = "publish" => wTxs[w] \subseteq TxHeights \cap {held[w] + 1}

SourceInv ==
    /\ FirstTip <= tip
    /\ lpc = "listen" => FirstTip <= lAt
    /\ Elements(ch) \subseteq NewBlocks /\ Elements(workCh) \subseteq NewBlocks
    /\ \A w \in BlockWorker : LiveWorker(w)
    /\ rpc \in RestoreLoopSteps => from > 0

LEMMA SourceInit == Init => SourceInv
<1> SUFFICES ASSUME Init PROVE SourceInv
  OBVIOUS
<1>. QED BY NoElements, ChainAssumption
         DEF Init, SourceInv, LiveWorker, RestoreLoopSteps, Height

LEMMA SourceRestore == TypeInv /\ SourceInv /\ RestoreStep => SourceInv'
<1> SUFFICES ASSUME TypeInv, SourceInv, RestoreStep PROVE SourceInv'
  OBVIOUS
<1>1. RestoreFrame
  <2>1. ASSUME NEW step, RestoreGoto(step) PROVE RestoreFrame
    BY <2>1 DEF RestoreGoto
  <2>. QED BY <2>1 DEF RestoreStep, RestoreLoop, RestoreConnect, RestoreAnnounced,
       RestoreDisconnected, RestoreCancelled, RestoreStart, RestorePollBlocks, RestoreSave,
       RestorePollTransactions, RestorePublish, RestoreNextWindow
<1>2. rpc' \in RestoreLoopSteps => from' > 0
  <2>1. from \in Nat /\ cursor \in Nat /\ Window \in Nat /\ (rpc \in RestoreLoopSteps => from > 0)
    BY SizesAssumption DEF TypeInv, RestoreTypes, SourceInv
  <2>2. CASE rpc' \in RestoreLoopSteps /\ rpc \notin RestoreLoopSteps
    <3>1. RestoreStart /\ from' = StartingBlock
      BY <2>2 DEF RestoreStep, RestoreLoop, RestoreConnect, RestoreAnnounced, RestoreGoto,
         RestoreDisconnected, RestoreCancelled, RestoreStart, RestorePollBlocks, RestoreSave,
         RestorePollTransactions, RestorePublish, RestoreNextWindow, RestoreLoopSteps
    <3>. QED BY <2>1, <3>1 DEF StartingBlock
  <2>3. CASE rpc \in RestoreLoopSteps
    <3>1. from' = from \/ from' = from + Window
      BY <2>3 DEF RestoreStep, RestoreLoop, RestoreConnect, RestoreAnnounced, RestoreGoto,
         RestoreDisconnected, RestoreCancelled, RestoreStart, RestorePollBlocks, RestoreSave,
         RestorePollTransactions, RestorePublish, RestoreNextWindow, RestoreLoopSteps
    <3>. QED BY <2>1, <2>3, <3>1
  <2>. QED BY <2>2, <2>3
<1>. QED BY <1>1, <1>2 DEF RestoreFrame, liveVars, subscriptionVars, workerVars, SourceInv,
                           LiveWorker, NewBlocks

LEMMA SourceEnvironment ==
    TypeInv /\ SourceInv /\ (NewBlock \/ Crash \/ ReadTimesOut \/ Cancel \/ LiveSendOnClosed)
        => SourceInv'
<1> SUFFICES ASSUME TypeInv, SourceInv,
                    NewBlock \/ Crash \/ ReadTimesOut \/ Cancel \/ LiveSendOnClosed
             PROVE  SourceInv'
  OBVIOUS
<1>1. CASE NewBlock
  <2>1. FirstTip \in Nat /\ tip \in Nat /\ tip' = tip + 1
    BY <1>1, ChainAssumption DEF NewBlock, TypeInv, OtherTypes, Height
  <2>2. NewBlocks \subseteq NewBlocks'
    BY <2>1 DEF NewBlocks
  <2>. QED BY <1>1, <2>1, <2>2 DEF NewBlock, liveVars, subscriptionVars, workerVars, restoreVars,
           SourceInv, LiveWorker
<1>2. CASE Cancel
  BY <1>2 DEF Cancel, cloud, liveVars, subscriptionVars, workerVars, restoreVars, SourceInv,
              LiveWorker, NewBlocks
<1>3. CASE Crash \/ ReadTimesOut \/ LiveSendOnClosed
  <2>1. Restart
    BY <1>3 DEF Crash, ReadTimesOut, LiveSendOnClosed
  <2>. QED BY <2>1, NoElements DEF Restart, cloud, SourceInv, LiveWorker, RestoreLoopSteps
<1>. QED BY <1>1, <1>2, <1>3

LEMMA SourceChannels ==
    ASSUME TypeInv, SourceInv,
           \/ LiveConnect \/ LiveAnnounced \/ LiveDisconnected \/ Dispatch \/ CloseChannels
    PROVE  SourceInv'
<1>0. /\ ch \in Seq(1 .. tip) /\ workCh \in Seq(1 .. tip) /\ lAt \in 0 .. tip
      /\ FirstTip \in Nat /\ tip \in Nat /\ tip > 0
  BY ChainAssumption DEF TypeInv, LiveTypes, OtherTypes, Height
<1>1. LiveFrame /\ UNCHANGED workerVars
  BY DEF LiveConnect, LiveAnnounced, LiveDisconnected, Dispatch, CloseChannels, SubscriptionFrame
<1>2. /\ NewBlocks' = NewBlocks /\ FirstTip <= tip'
      /\ \A w \in BlockWorker : LiveWorker(w)'
      /\ rpc' \in RestoreLoopSteps => from' > 0
  BY <1>1 DEF LiveFrame, restoreVars, workerVars, SourceInv, LiveWorker, NewBlocks
<1>3. CASE LiveConnect \/ LiveDisconnected \/ CloseChannels
  BY <1>0, <1>1, <1>2, <1>3 DEF LiveConnect, LiveDisconnected, CloseChannels, SubscriptionFrame,
     LiveFrame, subscriptionVars, SourceInv
<1>4. CASE LiveAnnounced
  <2>1. lAt' = lAt + 1 /\ lpc = "listen" /\ lpc' = lpc /\ lAt + 1 \in NewBlocks
    BY <1>0, <1>4 DEF LiveAnnounced, SourceInv, NewBlocks
  <2>2. Elements(Append(ch, lAt + 1)) = Elements(ch) \cup {lAt + 1}
    <3>1. lAt + 1 \in 1 .. tip
      BY <1>0, <1>4 DEF LiveAnnounced
    <3>. QED BY <1>0, <3>1, AppendElements
  <2>3. Elements(ch') \subseteq NewBlocks
    BY <1>4, <2>1, <2>2 DEF LiveAnnounced, SourceInv
  <2>4. UNCHANGED <<workCh, tip>> /\ FirstTip <= lAt'
    BY <1>0, <1>4, <2>1 DEF LiveAnnounced, SubscriptionFrame, LiveFrame, SourceInv
  <2>. QED BY <1>2, <2>1, <2>3, <2>4 DEF SourceInv
<1>5. CASE Dispatch
  <2>1. ch # << >> /\ ch' = Tail(ch) /\ UNCHANGED subscriptionVars
    BY <1>5 DEF Dispatch
  <2>2. Elements(ch) = {Head(ch)} \cup Elements(ch') /\ Head(ch) \in 1 .. tip
    BY <1>0, <2>1, TailElements, HeadTailProperties
  <2>3. Elements(Append(workCh, Head(ch))) = Elements(workCh) \cup {Head(ch)}
    BY <1>0, <2>2, AppendElements
  <2>4. Elements(workCh') \subseteq Elements(workCh) \cup {Head(ch)}
    BY <1>5, <2>3 DEF Dispatch
  <2>. QED BY <1>2, <2>1, <2>2, <2>4 DEF SourceInv, subscriptionVars
<1>. QED BY <1>3, <1>4, <1>5

LEMMA SourceWorkers ==
    ASSUME TypeInv, SourceInv, NEW w \in BlockWorker, BlockWorkerStep(w)
    PROVE  SourceInv'
<1>0. WorkerTypes /\ workCh \in Seq(1 .. tip)
  BY DEF TypeInv, LiveTypes
<1>1. BlockWorkerFrame
  BY DEF BlockWorkerStep, TakeBlock, StopBlockWorker, PollBlockTransactions, PublishBlock
<1>2. NewBlocks' = NewBlocks
  BY <1>1 DEF BlockWorkerFrame, LiveFrame, NewBlocks
<1>3. Elements(workCh') \subseteq NewBlocks
  <2>1. CASE TakeBlock(w)
    BY <1>0, <2>1, TailElements DEF TakeBlock, SourceInv
  <2>2. CASE ~TakeBlock(w)
    BY <2>2 DEF BlockWorkerStep, StopBlockWorker, PollBlockTransactions, PublishBlock, SourceInv
  <2>. QED BY <2>1, <2>2
<1>4. ASSUME NEW v \in BlockWorker PROVE LiveWorker(v)'
  <2>0. LiveWorker(v)
    BY DEF SourceInv
  <2>1. CASE v # w
    BY <1>0, <1>2, <2>0, <2>1 DEF BlockWorkerStep, TakeBlock, StopBlockWorker,
       PollBlockTransactions, PublishBlock, GivesUp, BackToIdle, LiveWorker, WorkerTypes
  <2>2. CASE v = w /\ TakeBlock(w)
    <3>1. Head(workCh) \in NewBlocks
      BY <1>0, <2>2, TailElements DEF TakeBlock, SourceInv
    <3>. QED BY <1>0, <1>2, <2>2, <3>1 DEF TakeBlock, LiveWorker, WorkerTypes
  <2>3. CASE v = w /\ PollBlockTransactions(w)
    <3>1. PollTransactions(held[w], 1) \subseteq TxHeights \cap {held[w] + 1}
      <4>1. held[w] \in 0 .. tip
        BY <1>0 DEF WorkerTypes
      <4>. QED BY <4>1 DEF PollTransactions, Selected
    <3>. QED BY <1>0, <1>2, <2>0, <2>3, <3>1 DEF PollBlockTransactions, GivesUp, BackToIdle,
                                          LiveWorker, WorkerTypes
  <2>4. CASE v = w /\ (StopBlockWorker(w) \/ PublishBlock(w))
    BY <1>0, <1>2, <2>4 DEF StopBlockWorker, PublishBlock, GivesUp, BackToIdle, LiveWorker,
                            WorkerTypes
  <2>. QED BY <2>1, <2>2, <2>3, <2>4 DEF BlockWorkerStep
<1>. QED BY <1>1, <1>2, <1>3, <1>4 DEF BlockWorkerFrame, LiveFrame, restoreVars,
                                       subscriptionVars, SourceInv

LEMMA SourceStep == TypeInv /\ SourceInv /\ [Next]_vars => SourceInv'
<1> SUFFICES ASSUME TypeInv, SourceInv, [Next]_vars PROVE SourceInv'
  OBVIOUS
<1>1. CASE UNCHANGED vars
  BY <1>1 DEF vars, cloud, liveVars, subscriptionVars, workerVars, restoreVars, SourceInv,
              LiveWorker, NewBlocks
<1>. QED BY <1>1, SourceRestore, SourceEnvironment, SourceChannels, SourceWorkers
         DEF Next, SubscriptionStep

---------------------------------------------------------------------------
(* The refinement                                                          *)

RefinementInv == TypeInv /\ RestoreInv /\ SourceInv

LEMMA RefinementInvAlways == Spec => []RefinementInv
<1>1. Init => RefinementInv
  BY TypeInvInit, RestoreInvInit, SourceInit DEF RefinementInv
<1>2. RefinementInv /\ [Next]_vars => RefinementInv'
  BY TypeInvStep, RestoreInvStep, SourceStep DEF RefinementInv
<1>. QED BY <1>1, <1>2, PTL DEF Spec

LEMMA RestoredIsPublishable ==
    ASSUME RefinementInv, NEW h \in Height, rpc = "publish", h \in batch
    PROVE  Assembled(h) \in Publishing!Publishable
<1>1. h \in 2 .. tip
  <2>1. from > 0 /\ from < h /\ h \in 1 .. tip /\ from \in Nat /\ tip \in Nat
    BY DEF RefinementInv, RestoreInv, BatchInv, WindowSteps, SourceInv, RestoreLoopSteps,
           Counters
  <2>. QED BY <2>1
<1>2. TransactionsOf(h) = TxHeights \cap {h}
  BY DEF RefinementInv, RestoreInv, PolledInv, TransactionsOf
<1>. QED BY <1>1, <1>2 DEF Assembled, Publishing!Publishable, Publishing!RestoredMessages

LEMMA LiveIsPublishable ==
    ASSUME RefinementInv, NEW w \in BlockWorker, wpc[w] = "publish"
    PROVE  LiveMessage(w) \in Publishing!Publishable
<1>1. held[w] \in FirstTip + 1 .. tip /\ wTxs[w] \subseteq TxHeights \cap {held[w] + 1}
  BY DEF RefinementInv, SourceInv, LiveWorker, NewBlocks
<1>2. LiveMessage(w) \in Publishing!LiveMessages
  BY <1>1 DEF LiveMessage, Publishing!LiveMessages
<1>. QED BY <1>1, <1>2 DEF LiveMessage, Publishing!Publishable

\* The restore and the live pipeline together promise no more than
\* BlockPublishing: every message is of a block of the chain, with that block's
\* transactions when it is restored and its successor's when it is live.
THEOREM ImplementsBlockPublishing == Spec => PublishesBlocks
<1>1. Init => Publishing!Init
  BY DEF Init, Publishing!Init
<1>2. RefinementInv /\ [Next]_vars => [Publishing!Next]_<<tip, topic>>
  <2> SUFFICES ASSUME RefinementInv, [Next]_vars
               PROVE  Publishing!Next \/ UNCHANGED <<tip, topic>>
    OBVIOUS
  <2>1. CASE NewBlock
    BY <2>1 DEF NewBlock, Publishing!Next, Publishing!Grow
  <2>2. ASSUME NEW h \in Height, RestorePublish(h)
        PROVE  Publishing!Next \/ UNCHANGED <<tip, topic>>
    <3>1. Assembled(h) \in Publishing!Publishable
      BY <2>2, RestoredIsPublishable DEF RestorePublish
    <3>. QED BY <2>2, <3>1 DEF RestorePublish, RestoreFrame, Published, PublishFails,
                               Publishing!Next, Publishing!Publish
  <2>3. ASSUME NEW w \in BlockWorker, PublishBlock(w)
        PROVE  Publishing!Next \/ UNCHANGED <<tip, topic>>
    <3>1. LiveMessage(w) \in Publishing!Publishable
      BY <2>3, LiveIsPublishable DEF PublishBlock
    <3>. QED BY <2>3, <3>1 DEF PublishBlock, BlockWorkerFrame, LiveFrame, Published,
                               PublishFails, Publishing!Next, Publishing!Publish
  <2>4. CASE Crash \/ ReadTimesOut \/ Cancel \/ LiveSendOnClosed \/ UNCHANGED vars
    BY <2>4 DEF Crash, ReadTimesOut, Cancel, LiveSendOnClosed, Restart, cloud, vars
  <2>5. CASE \/ LiveConnect \/ LiveAnnounced \/ LiveDisconnected \/ Dispatch \/ CloseChannels
    BY <2>5 DEF LiveConnect, LiveAnnounced, LiveDisconnected, Dispatch, CloseChannels,
                SubscriptionFrame, LiveFrame
  <2>6. ASSUME NEW w \in BlockWorker,
               TakeBlock(w) \/ StopBlockWorker(w) \/ PollBlockTransactions(w)
        PROVE  UNCHANGED <<tip, topic>>
    BY <2>6 DEF TakeBlock, StopBlockWorker, PollBlockTransactions, BlockWorkerFrame, LiveFrame
  <2>7. CASE RestoreStep /\ \A h \in Height : ~RestorePublish(h)
    <3>1. ASSUME NEW step, RestoreGoto(step) PROVE UNCHANGED <<tip, topic>>
      BY <3>1 DEF RestoreGoto, RestoreFrame
    <3>. QED BY <2>7, <3>1 DEF RestoreStep, RestoreLoop, RestoreConnect, RestoreAnnounced,
         RestoreDisconnected, RestoreCancelled, RestoreStart, RestorePollBlocks, RestoreSave,
         RestorePollTransactions, RestoreNextWindow, RestoreFrame
  <2>. QED BY <2>1, <2>2, <2>3, <2>4, <2>5, <2>6, <2>7
           DEF Next, SubscriptionStep, BlockWorkerStep, RestoreStep, RestoreLoop
<1>. QED BY <1>1, <1>2, RefinementInvAlways, PTL DEF Spec, PublishesBlocks, Publishing!Spec

---------------------------------------------------------------------------
(* The blocks that neither the restore nor the live pipeline accounts for  *)

LiveBlocks == {m.block : m \in {n \in topic : n.by = "live"}}
Held == {held[w] : w \in BlockWorker}

IdleHoldsNothing == \A w \in BlockWorker : wpc[w] \in {"idle", "stopped"} => held[w] = 0
LiveCoverage == lpc = "listen" => lFrom + 1 .. lAt \subseteq Handled \cup dropped
GapInv == RefinementInv /\ IdleHoldsNothing /\ LiveCoverage

LEMMA HandledParts ==
    Handled = Restored \cup lost \cup LiveBlocks \cup Elements(ch) \cup Elements(workCh) \cup Held
  BY DEF Handled, LiveBlocks, Held

\* A step that leaves the subscription alone keeps the invariant when no block
\* but 0, which stands for none, stops being handled.
LEMMA CoverageKept ==
    ASSUME GapInv, UNCHANGED subscriptionVars,
           Handled \subseteq Handled' \cup {0}, dropped \subseteq dropped'
    PROVE  LiveCoverage'
<1>1. lFrom \in Nat /\ lAt \in Int
  BY DEF GapInv, RefinementInv, TypeInv, LiveTypes, OtherTypes, Height
<1>. QED BY <1>1 DEF GapInv, LiveCoverage, subscriptionVars

\* Messages are never taken back, so neither is what they handle.
LEMMA TopicGrows == RefinementInv /\ [Next]_vars => topic \subseteq topic'
<1> SUFFICES ASSUME RefinementInv, [Next]_vars PROVE topic \subseteq topic'
  OBVIOUS
<1>1. ASSUME NEW step, RestoreGoto(step) PROVE topic \subseteq topic'
  BY <1>1 DEF RestoreGoto
<1>2. CASE RestoreStep
  BY <1>1, <1>2 DEF RestoreStep, RestoreLoop, RestoreConnect, RestoreAnnounced,
     RestoreDisconnected, RestoreCancelled, RestoreStart, RestorePollBlocks, RestoreSave,
     RestorePollTransactions, RestorePublish, RestoreNextWindow, Published, PublishFails
<1>3. CASE \/ NewBlock \/ Crash \/ ReadTimesOut \/ Cancel \/ LiveSendOnClosed \/ UNCHANGED vars
  BY <1>3 DEF NewBlock, Crash, ReadTimesOut, Cancel, LiveSendOnClosed, Restart, cloud, vars
<1>4. CASE \/ LiveConnect \/ LiveAnnounced \/ LiveDisconnected \/ Dispatch \/ CloseChannels
  BY <1>4 DEF LiveConnect, LiveAnnounced, LiveDisconnected, Dispatch, CloseChannels,
              SubscriptionFrame
<1>5. ASSUME NEW w \in BlockWorker, BlockWorkerStep(w) PROVE topic \subseteq topic'
  BY <1>5 DEF BlockWorkerStep, TakeBlock, StopBlockWorker, PollBlockTransactions,
              PublishBlock, Published, PublishFails
<1>. QED BY <1>2, <1>3, <1>4, <1>5 DEF Next, SubscriptionStep

LEMMA GapRestore == GapInv /\ RestoreStep => IdleHoldsNothing' /\ LiveCoverage'
<1> SUFFICES ASSUME GapInv, RestoreStep PROVE IdleHoldsNothing' /\ LiveCoverage'
  OBVIOUS
<1>1. ASSUME NEW step, RestoreGoto(step) PROVE RestoreFrame /\ UNCHANGED unpublished
  BY <1>1 DEF RestoreGoto
<1>2. RestoreFrame /\ unpublished \subseteq unpublished'
  BY <1>1 DEF RestoreStep, RestoreLoop, RestoreConnect, RestoreAnnounced,
     RestoreDisconnected, RestoreCancelled, RestoreStart, RestorePollBlocks, RestoreSave,
     RestorePollTransactions, RestorePublish, RestoreNextWindow
<1>3. topic \subseteq topic'
  BY TopicGrows DEF GapInv, Next
<1>4. Restored \subseteq Restored' /\ LiveBlocks \subseteq LiveBlocks'
  BY <1>2, <1>3, RestoredGrows DEF LiveBlocks
<1>5. UNCHANGED <<lost, dropped, ch, workCh, held, wpc, subscriptionVars>>
  BY <1>2 DEF RestoreFrame, liveVars, workerVars, subscriptionVars
<1>6. Handled \subseteq Handled'
  BY <1>4, <1>5 DEF Handled, LiveBlocks, Elements
<1>. QED BY <1>5, <1>6, CoverageKept DEF GapInv, IdleHoldsNothing

LEMMA GapEnvironment ==
    ASSUME GapInv, NewBlock \/ Crash \/ ReadTimesOut \/ Cancel \/ LiveSendOnClosed
    PROVE  IdleHoldsNothing' /\ LiveCoverage'
<1>1. CASE NewBlock \/ Cancel
  <2>1. UNCHANGED <<topic, unpublished, lost, dropped, ch, workCh, held, wpc, subscriptionVars>>
    BY <1>1 DEF NewBlock, Cancel, cloud, history, liveVars, workerVars
  <2>2. Handled' = Handled
    BY <2>1 DEF Handled, Restored, Elements
  <2>. QED BY <2>1, <2>2, CoverageKept DEF GapInv, IdleHoldsNothing
<1>2. CASE Crash \/ ReadTimesOut \/ LiveSendOnClosed
  <2>1. lpc' = "connect" /\ \A w \in BlockWorker : held'[w] = 0
    BY <1>2 DEF Crash, ReadTimesOut, LiveSendOnClosed, Restart
  <2>. QED BY <2>1 DEF IdleHoldsNothing, LiveCoverage
<1>. QED BY <1>1, <1>2

LEMMA GapChannels ==
    ASSUME GapInv,
           \/ LiveConnect \/ LiveAnnounced \/ LiveDisconnected \/ Dispatch \/ CloseChannels
    PROVE  IdleHoldsNothing' /\ LiveCoverage'
<1>0. /\ ch \in Seq(1 .. tip) /\ workCh \in Seq(1 .. tip) /\ tip \in Nat
      /\ lFrom \in Nat /\ lAt \in Nat
  BY DEF GapInv, RefinementInv, TypeInv, LiveTypes, OtherTypes, Height
<1>1. UNCHANGED <<topic, unpublished, workerVars>> /\ lost \subseteq lost' /\ dropped \subseteq dropped'
  BY DEF LiveConnect, LiveAnnounced, LiveDisconnected, Dispatch, CloseChannels,
         SubscriptionFrame, LiveFrame
<1>2. IdleHoldsNothing' /\ Restored' = Restored /\ LiveBlocks' = LiveBlocks /\ Held' = Held
  BY <1>1 DEF GapInv, IdleHoldsNothing, workerVars, Restored, LiveBlocks, Held
<1>3. CASE LiveConnect \/ LiveDisconnected
  <2>1. lpc' = "ended" \/ (lFrom' = tip /\ lAt' = tip)
    BY <1>3 DEF LiveConnect, LiveDisconnected
  <2>2. tip + 1 .. tip = {}
    BY <1>0
  <2>. QED BY <1>2, <2>1, <2>2 DEF LiveCoverage
<1>4. CASE LiveAnnounced
  <2>1. /\ lpc = "listen" /\ lpc' = "listen" /\ lFrom' = lFrom /\ lAt' = lAt + 1
        /\ workCh' = workCh /\ lAt + 1 \in 1 .. tip
    BY <1>0, <1>4 DEF LiveAnnounced, SubscriptionFrame
  <2>2. \/ Elements(ch') = Elements(ch) \cup {lAt + 1}
        \/ ch' = ch /\ lAt + 1 \in lost' \cup dropped'
    <3>1. CASE ch' = Append(ch, lAt + 1)
      BY <1>0, <2>1, <3>1, AppendElements
    <3>2. CASE ch' = ch /\ lAt + 1 \in lost' \cup dropped'
      BY <3>2
    <3>. QED BY <1>4, <3>1, <3>2 DEF LiveAnnounced
  <2>3. Handled \cup dropped \cup {lAt + 1} \subseteq Handled' \cup dropped'
    BY <1>1, <1>2, <2>1, <2>2, HandledParts DEF Handled, LiveBlocks, Held
  <2>4. lFrom + 1 .. lAt + 1 \subseteq (lFrom + 1 .. lAt) \cup {lAt + 1}
    BY <1>0
  <2>. QED BY <1>2, <2>1, <2>3, <2>4 DEF GapInv, LiveCoverage
<1>5. CASE Dispatch
  <2>1. ch # << >> /\ ch' = Tail(ch) /\ UNCHANGED subscriptionVars
    BY <1>5 DEF Dispatch
  <2>2. Elements(ch) = {Head(ch)} \cup Elements(ch') /\ Head(ch) \in 1 .. tip
    BY <1>0, <2>1, TailElements, HeadTailProperties
  <2>3. Elements(Append(workCh, Head(ch))) = Elements(workCh) \cup {Head(ch)}
    BY <1>0, <2>2, AppendElements
  <2>4. \/ Elements(workCh') = Elements(workCh) \cup {Head(ch)}
        \/ Head(ch) \in lost' /\ workCh' = workCh
    BY <1>5, <2>3 DEF Dispatch
  <2>5. Handled \subseteq Handled'
    BY <1>1, <1>2, <2>2, <2>4 DEF Handled, LiveBlocks, Held
  <2>. QED BY <1>1, <1>2, <2>1, <2>5, CoverageKept
<1>6. CASE CloseChannels
  <2>1. UNCHANGED <<ch, workCh, lost, subscriptionVars>>
    BY <1>6 DEF CloseChannels
  <2>2. Handled' = Handled
    BY <1>2, <2>1 DEF Handled, LiveBlocks, Held, Elements
  <2>. QED BY <1>1, <1>2, <2>1, <2>2, CoverageKept
<1>. QED BY <1>3, <1>4, <1>5, <1>6

LEMMA GapWorkers ==
    ASSUME GapInv, NEW w \in BlockWorker, BlockWorkerStep(w)
    PROVE  IdleHoldsNothing' /\ LiveCoverage'
<1>0. WorkerTypes /\ workCh \in Seq(1 .. tip) /\ IdleHoldsNothing
  BY DEF GapInv, RefinementInv, TypeInv, LiveTypes
<1>1. BlockWorkerFrame /\ lost \subseteq lost'
  BY DEF BlockWorkerStep, TakeBlock, StopBlockWorker, PollBlockTransactions, PublishBlock, GivesUp
<1>2. topic \subseteq topic'
  <2>1. Next
    BY DEF Next
  <2>. QED BY <2>1, TopicGrows DEF GapInv
<1>3. UNCHANGED <<unpublished, dropped, ch, subscriptionVars>>
  BY <1>1 DEF BlockWorkerFrame, LiveFrame
<1>4. Restored \subseteq Restored' /\ LiveBlocks \subseteq LiveBlocks' /\ Elements(ch') = Elements(ch)
  BY <1>2, <1>3, RestoredGrows DEF LiveBlocks, Elements
<1>5. IdleHoldsNothing'
  BY <1>0 DEF BlockWorkerStep, TakeBlock, StopBlockWorker, PollBlockTransactions, PublishBlock,
              GivesUp, BackToIdle, IdleHoldsNothing, WorkerTypes
<1>6. ASSUME NEW v \in BlockWorker, v # w PROVE held'[v] = held[v]
  BY <1>0, <1>6 DEF BlockWorkerStep, TakeBlock, StopBlockWorker, PollBlockTransactions,
     PublishBlock, GivesUp, BackToIdle, WorkerTypes
<1>7. held[w] \in Held' \cup lost' \cup LiveBlocks' \cup {0}
  <2>1. CASE TakeBlock(w)
    BY <1>0, <2>1 DEF TakeBlock, IdleHoldsNothing
  <2>2. CASE StopBlockWorker(w)
    BY <1>0, <2>2 DEF StopBlockWorker, IdleHoldsNothing
  <2>3. CASE PollBlockTransactions(w)
    BY <2>3 DEF PollBlockTransactions, GivesUp, Held
  <2>4. CASE PublishBlock(w) /\ LiveMessage(w) \in topic'
    <3>1. LiveMessage(w).block = held[w] /\ LiveMessage(w).by = "live"
      BY DEF LiveMessage
    <3>. QED BY <2>4, <3>1 DEF LiveBlocks
  <2>5. CASE PublishBlock(w) /\ LiveMessage(w) \notin topic'
    BY <2>5 DEF PublishBlock, Published, PublishFails, GivesUp
  <2>. QED BY <2>1, <2>2, <2>3, <2>4, <2>5 DEF BlockWorkerStep
<1>8. Elements(workCh) \subseteq Elements(workCh') \cup Held'
  <2>1. CASE TakeBlock(w)
    <3>1. Elements(workCh) = {Head(workCh)} \cup Elements(workCh')
      BY <1>0, <2>1, TailElements DEF TakeBlock
    <3>2. held'[w] = Head(workCh)
      BY <1>0, <2>1 DEF TakeBlock, WorkerTypes
    <3>. QED BY <3>1, <3>2 DEF Held
  <2>2. CASE ~TakeBlock(w)
    BY <2>2 DEF BlockWorkerStep, StopBlockWorker, PollBlockTransactions, PublishBlock, Elements
  <2>. QED BY <2>1, <2>2
<1>9. Held \subseteq Held' \cup lost' \cup LiveBlocks' \cup {0}
  BY <1>6, <1>7 DEF Held
<1>10. Handled \subseteq Handled' \cup {0}
  BY <1>1, <1>4, <1>8, <1>9 DEF Handled, LiveBlocks, Held
<1>. QED BY <1>3, <1>5, <1>10, CoverageKept

\* With the restore at its end and the subscription open, a block that has left
\* neither a message nor a log line, and that no channel or worker holds, was
\* dropped at a full ch or lies between the restore's target and the height at
\* which the subscription was opened.
THEOREM OnlyKnownBlocksAreMissed == Spec => []NoOtherGap
<1>1. Init => GapInv
  BY TypeInvInit, RestoreInvInit, SourceInit
     DEF Init, GapInv, RefinementInv, IdleHoldsNothing, LiveCoverage
<1>2. GapInv /\ [Next]_vars => GapInv'
  <2> SUFFICES ASSUME GapInv, [Next]_vars PROVE GapInv'
    OBVIOUS
  <2>1. RefinementInv'
    BY TypeInvStep, RestoreInvStep, SourceStep DEF GapInv, RefinementInv
  <2>2. CASE UNCHANGED vars
    <3>1. UNCHANGED <<topic, unpublished, lost, dropped, ch, workCh, held, wpc, subscriptionVars>>
      BY <2>2 DEF vars, cloud, history, liveVars, workerVars
    <3>2. Handled' = Handled
      BY <3>1 DEF Handled, Restored, Elements
    <3>. QED BY <2>1, <3>1, <3>2, CoverageKept DEF GapInv, IdleHoldsNothing
  <2>. QED BY <2>1, <2>2, GapRestore, GapEnvironment, GapChannels, GapWorkers
           DEF GapInv, Next, SubscriptionStep
<1>3. GapInv => NoOtherGap
  <2> SUFFICES ASSUME GapInv, rpc = "done", lpc = "listen"
               PROVE  2 .. lAt \subseteq Handled \cup dropped \cup (target + 1 .. lFrom)
    BY DEF NoOtherGap
  <2>1. lFrom + 1 .. lAt \subseteq Handled \cup dropped /\ 2 .. target \subseteq Handled
    BY DEF GapInv, LiveCoverage, RefinementInv, RestoreInv, RestoreCoversTarget, Handled
  <2>2. lFrom \in Nat /\ lAt \in Nat /\ target \in Nat
    BY DEF GapInv, RefinementInv, TypeInv, RestoreTypes, LiveTypes, OtherTypes, Height
  <2>3. \A h \in 2 .. lAt : \/ h \in lFrom + 1 .. lAt \/ h \in 2 .. target
                            \/ h \in target + 1 .. lFrom
    BY <2>2
  <2>. QED BY <2>1, <2>3
<1>. QED BY <1>1, <1>2, <1>3, PTL DEF Spec
===========================================================================
