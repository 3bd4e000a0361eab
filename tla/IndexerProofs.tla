--------------------------- MODULE IndexerProofs ---------------------------
(***************************************************************************)
(* Theorems about Indexer, for any number of workers, publications, failing *)
(* calls, deaths and redeliveries: no message leaves a queue unhandled, none *)
(* that was handled disappears unaccounted for, and what a block is indexed   *)
(* with is decided once, by a message of that block.                         *)
(***************************************************************************)
EXTENDS Indexer, SequenceTheorems, TLAPS

Bodies == BlockMessages \cup {Foreign}

---------------------------------------------------------------------------
(* The broker                                                              *)

SentTypes ==
    /\ sent \in Seq(Bodies) /\ Len(sent) <= MaxSent
    /\ opened \in 0 .. Len(sent) /\ failures \in Nat
    /\ queue \in {"starting", "open", "deaf"}
QueueTypes ==
    /\ visible \subseteq Broker!Publication /\ inFlight \subseteq Broker!Publication
    /\ batch \subseteq Broker!Publication /\ handling \in Broker!Publication \cup {0}
    /\ handled \subseteq Broker!Publication /\ missed \subseteq Broker!Publication

\* Only a process that polls has messages.
ClosedIsEmpty ==
    queue # "open" => visible = {} /\ inFlight = {} /\ batch = {} /\ handling = 0

HandlingIsHandled == handling # 0 => handling \in handled

BrokerInv == /\ SentTypes /\ QueueTypes /\ ClosedIsEmpty
             /\ HandlingIsHandled /\ NoneForgotten /\ StartsAfresh

LEMMA SentGrows ==
    ASSUME NEW S, NEW s \in Seq(S), NEW b \in S
    PROVE  /\ Append(s, b) \in Seq(S) /\ Len(Append(s, b)) = Len(s) + 1 /\ Len(s) \in Nat
           /\ \A i \in 1 .. Len(s) : Append(s, b)[i] = s[i]
           /\ Append(s, b)[Len(s) + 1] = b
  OBVIOUS

LEMMA BrokerInit == Init => BrokerInv
<1> SUFFICES ASSUME Init PROVE BrokerInv
  OBVIOUS
<1>1. Broker!Init /\ Len(<< >>) = 0 /\ << >> \in Seq(Bodies)
  BY DEF Init
<1>2. SentTypes
  BY <1>1, SizesAssumption DEF Broker!Init, SentTypes
<1>3. Broker!Publication = {}
  BY <1>1 DEF Broker!Init, Broker!Publication
<1>. QED BY <1>1, <1>2, <1>3 DEF Broker!Init, BrokerInv, QueueTypes, ClosedIsEmpty, HandlingIsHandled,
            NoneForgotten, StartsAfresh, Broker!NoneForgotten, Broker!StartsAfresh

LEMMA FailureTypes == failures \in Nat /\ (Broker!Failure \/ Broker!NoFailure) => failures' \in Nat
  BY DEF Broker!Failure, Broker!NoFailure

LEMMA BrokerPublish ==
    ASSUME BrokerInv, NEW b \in Bodies, Broker!Publish(b) PROVE BrokerInv'
<1>0. sent \in Seq(Bodies) /\ Len(sent) \in Nat /\ MaxSent \in Nat /\ opened \in 0 .. Len(sent)
  BY SizesAssumption DEF BrokerInv, SentTypes
<1>1. sent' \in Seq(Bodies) /\ Len(sent') = Len(sent) + 1
  BY <1>0, SentGrows DEF Broker!Publish
<1>2. SentTypes'
  BY <1>0, <1>1, FailureTypes DEF BrokerInv, SentTypes, Broker!Publish, processVars,
     Broker!processVars
<1>3. /\ Broker!Publication' = Broker!Publication \cup {Len(sent) + 1}
      /\ Len(sent) + 1 \notin Broker!Publication
  BY <1>0, <1>1 DEF Broker!Publication
<1>4. UNCHANGED <<queue, opened, inFlight, batch, handling, handled>>
  BY DEF Broker!Publish, Broker!processVars, Broker!pollerVars
<1>5. CASE queue = "open"
  <2>1. visible' = visible \cup {Len(sent) + 1} /\ missed' = missed
    BY <1>5 DEF Broker!Publish
  <2>2. QueueTypes' /\ ClosedIsEmpty' /\ HandlingIsHandled'
    BY <1>3, <1>4, <1>5, <2>1 DEF BrokerInv, QueueTypes, ClosedIsEmpty,
       HandlingIsHandled
  <2>3. NoneForgotten'
    BY <1>3, <1>4, <2>1 DEF BrokerInv, NoneForgotten, Broker!NoneForgotten
  <2>4. StartsAfresh'
    BY <1>0, <1>1, <1>4, <2>1 DEF BrokerInv, StartsAfresh, Broker!StartsAfresh
  <2>. QED BY <1>2, <1>4, <2>2, <2>3, <2>4 DEF BrokerInv
<1>6. CASE queue # "open"
  <2>1. missed' = missed \cup {Len(sent) + 1} /\ visible' = visible
    BY <1>6 DEF Broker!Publish
  <2>2. QueueTypes' /\ ClosedIsEmpty' /\ HandlingIsHandled'
    BY <1>3, <1>4, <1>6, <2>1 DEF BrokerInv, QueueTypes, ClosedIsEmpty,
       HandlingIsHandled
  <2>3. NoneForgotten'
    BY <1>3, <1>4, <2>1 DEF BrokerInv, NoneForgotten, Broker!NoneForgotten
  <2>4. StartsAfresh'
    BY <1>0, <1>1, <1>4, <2>1 DEF BrokerInv, StartsAfresh, Broker!StartsAfresh
  <2>. QED BY <1>2, <1>4, <2>2, <2>3, <2>4 DEF BrokerInv
<1>. QED BY <1>5, <1>6

\* Every other step leaves sent alone.
BrokerStep ==
    \/ Broker!Subscribe \/ Broker!Delete \/ Broker!Restart
    \/ \E S \in SUBSET visible : Broker!Receive(S) \/ Broker!ReceiveFails(S)
    \/ \E i \in batch : Broker!Handle(i) \/ Broker!Reject(i)
    \/ \E i \in Broker!Publication : Broker!Reappear(i) \/ Broker!Expire(i)

LEMMA BrokerOther ==
    ASSUME BrokerInv, BrokerStep PROVE BrokerInv' /\ sent' = sent
<1> USE DEF Broker!processVars, Broker!queueVars, Broker!pollerVars
<1>0. Len(sent) \in Nat /\ opened \in 0 .. Len(sent)
  BY DEF BrokerInv, SentTypes
<1>1. sent' = sent /\ failures' \in Nat
  <2>1. sent' = sent
    BY DEF BrokerStep, Broker!Subscribe, Broker!Delete, Broker!Restart, Broker!Receive,
       Broker!ReceiveFails, Broker!Handle, Broker!Reject, Broker!Reappear, Broker!Expire
  <2>2. Broker!Failure \/ Broker!NoFailure
    BY DEF BrokerStep, Broker!Subscribe, Broker!Delete, Broker!Restart, Broker!Receive,
       Broker!ReceiveFails, Broker!Handle, Broker!Reject, Broker!Reappear, Broker!Expire
  <2>. QED BY <2>1, <2>2, FailureTypes DEF BrokerInv, SentTypes
<1>2. Broker!Publication' = Broker!Publication
  BY <1>1 DEF Broker!Publication
<1>3. CASE Broker!Subscribe
  <2>1. /\ UNCHANGED <<visible, inFlight, batch, handling, handled, missed>>
        /\ visible = {} /\ inFlight = {} /\ batch = {} /\ handling = 0
        /\ opened' \in {opened, Len(sent)} /\ queue' \in {"open", "deaf"}
    BY <1>3 DEF Broker!Subscribe, BrokerInv, ClosedIsEmpty
  <2>2. opened' \in 0 .. Len(sent)
    BY <1>0, <2>1
  <2>3. SentTypes' /\ QueueTypes' /\ ClosedIsEmpty' /\ HandlingIsHandled'
    BY <1>1, <1>2, <2>1, <2>2 DEF BrokerInv, SentTypes, QueueTypes, ClosedIsEmpty,
       HandlingIsHandled
  <2>. QED BY <1>1, <1>2, <2>1, <2>3 DEF BrokerInv, NoneForgotten, StartsAfresh,
              Broker!NoneForgotten, Broker!StartsAfresh
<1>4. CASE ~Broker!Subscribe
  <2>1. opened' = opened /\ queue' \in {queue, "starting"}
    BY <1>4 DEF BrokerStep, Broker!Delete, Broker!Restart, Broker!Receive,
       Broker!ReceiveFails, Broker!Handle, Broker!Reject, Broker!Reappear, Broker!Expire
  <2>2. SentTypes'
    BY <1>1, <2>1 DEF BrokerInv, SentTypes
  <2>3. QueueTypes'
    BY <1>2, <1>4 DEF BrokerInv, QueueTypes, BrokerStep, Broker!Delete, Broker!Restart,
       Broker!Receive, Broker!ReceiveFails, Broker!Handle, Broker!Reject, Broker!Reappear,
       Broker!Expire
  <2>4. ClosedIsEmpty' /\ HandlingIsHandled'
    BY <1>4 DEF BrokerInv, ClosedIsEmpty, HandlingIsHandled, BrokerStep, Broker!Delete, Broker!Restart,
       Broker!Receive, Broker!ReceiveFails, Broker!Handle, Broker!Reject, Broker!Reappear,
       Broker!Expire, Broker!Polling
  <2>5. NoneForgotten'
    BY <1>2, <1>4 DEF BrokerInv, HandlingIsHandled, NoneForgotten, Broker!NoneForgotten, BrokerStep,
       Broker!Delete, Broker!Restart, Broker!Receive, Broker!ReceiveFails, Broker!Handle,
       Broker!Reject, Broker!Reappear, Broker!Expire
  <2>6. visible' \cup inFlight' \cup batch' \subseteq visible \cup inFlight \cup batch
    BY <1>4 DEF BrokerStep, Broker!Delete, Broker!Restart, Broker!Receive,
       Broker!ReceiveFails, Broker!Handle, Broker!Reject, Broker!Reappear, Broker!Expire
  <2>7. StartsAfresh'
    BY <1>1, <2>1, <2>6 DEF BrokerInv, StartsAfresh, Broker!StartsAfresh
  <2>. QED BY <1>1, <2>2, <2>3, <2>4, <2>5, <2>7 DEF BrokerInv
<1>. QED BY <1>1, <1>3, <1>4

---------------------------------------------------------------------------
(* Messages on their way through the event processor                       *)

\* The message is what its publication said, which is of a block.
Faithful(m) ==
    /\ m \in Messages /\ m.id \in Broker!Publication /\ sent[m.id] # Foreign
    /\ m.height = sent[m.id].block /\ m.txs = sent[m.id].txs

InboxInv == /\ waiting \in Seq(Messages) /\ Len(waiting) <= Capacity
            /\ \A k \in DOMAIN waiting : Faithful(waiting[k])
JobInv == /\ job \in [Worker -> Messages \cup {NoMessage}]
          /\ stage \in [Worker -> {"idle", "asking", "indexing"}]
          /\ \A w \in Worker : /\ stage[w] # "idle" => Faithful(job[w])
                               /\ stage[w] = "indexing" => Claimed(job[w].height)
BlockInv == /\ life \in [Height -> {"absent", "owned", "indexed", "abandoned"}]
            /\ content \in [Height -> Messages \cup {NoMessage}]
            /\ \A h \in Height : Claimed(h) => Faithful(content[h]) /\ content[h].height = h
MessageInv == InboxInv /\ JobInv /\ BlockInv

\* A publication of a block is one of the synchronizer's.
SentInv == \A i \in Broker!Publication :
              sent[i] # Foreign => sent[i] \in Synchronizer!Publishable
OtherTypes == /\ tip \in FirstTip .. MaxHeight /\ topic \subseteq BlockMessages
              /\ deaths \in Nat /\ lost \subseteq Broker!Publication

IndexerInv ==
    BrokerInv /\ MessageInv /\ SentInv /\ OtherTypes /\ TakenIsAccountedFor

LEMMA PublishableIsMessage ==
    ASSUME tip \in FirstTip .. MaxHeight, NEW m \in Synchronizer!Publishable
    PROVE  m \in BlockMessages
<1>1. FirstTip \in Nat /\ FirstTip > 0 /\ MaxHeight \in Nat /\ tip \in Nat
  BY ChainAssumption DEF Height
<1>2. 2 .. tip \subseteq Height /\ FirstTip + 1 .. tip \subseteq Height
  BY <1>1 DEF Height
<1>. QED BY <1>2 DEF Synchronizer!Publishable, Synchronizer!RestoredMessages,
                     Synchronizer!LiveMessages, BlockMessages

LEMMA IndexerInit == Init => IndexerInv
<1> SUFFICES ASSUME Init PROVE IndexerInv
  OBVIOUS
<1>1. Broker!Init /\ Processor!Init /\ Synchronizer!Init
  BY DEF Init
<1>2. sent = << >> /\ waiting = << >> /\ Broker!Publication = {}
  BY <1>1 DEF Broker!Init, Processor!Init, Broker!Publication
<1>3. waiting \in Seq(Messages) /\ Len(waiting) = 0 /\ DOMAIN waiting = {}
  BY <1>2
<1>4. InboxInv
  BY <1>3, SizesAssumption DEF InboxInv
<1>5. JobInv /\ BlockInv
  BY <1>1 DEF Processor!Init, JobInv, BlockInv, Claimed
<1>6. OtherTypes
  <2>1. FirstTip \in Nat /\ MaxHeight \in Nat /\ FirstTip <= MaxHeight
    BY ChainAssumption DEF Height
  <2>. QED BY <1>1, <2>1 DEF Init, Synchronizer!Init, OtherTypes
<1>7. SentInv /\ TakenIsAccountedFor
  BY <1>1, <1>2 DEF Broker!Init, SentInv, TakenIsAccountedFor
<1>. QED BY <1>4, <1>5, <1>6, <1>7, BrokerInit DEF IndexerInv, MessageInv

\* What is sent is never changed, and what is publishable stays so.
SentKept == \A i \in Broker!Publication : i \in Broker!Publication' /\ sent'[i] = sent[i]

LEMMA FaithfulKept == ASSUME SentKept, NEW m, Faithful(m) PROVE Faithful(m)'
  BY DEF SentKept, Faithful

LEMMA PublishableGrows ==
    ASSUME tip \in Nat, tip' \in {tip, tip + 1}
    PROVE  Synchronizer!Publishable \subseteq Synchronizer!Publishable'
<1>1. FirstTip \in Nat
  BY ChainAssumption DEF Height
<1>2. 2 .. tip \subseteq 2 .. tip' /\ FirstTip + 1 .. tip \subseteq FirstTip + 1 .. tip'
  BY <1>1
<1>. QED BY <1>2 DEF Synchronizer!Publishable, Synchronizer!RestoredMessages,
                     Synchronizer!LiveMessages

\* A step of the broker or the synchronizer alone changes no message's fate.
LEMMA FateKept ==
    ASSUME IndexerInv, SentKept, UNCHANGED <<indexingVars, handled, lost>>
    PROVE  MessageInv' /\ TakenIsAccountedFor'
<1>1. ASSUME NEW m, Faithful(m) PROVE Faithful(m)'
  BY <1>1, FaithfulKept
<1>2. UNCHANGED <<waiting, job, stage, life, content>>
  BY DEF indexingVars
<1>3. InboxInv' /\ JobInv' /\ BlockInv'
  BY <1>1, <1>2 DEF IndexerInv, MessageInv, InboxInv, JobInv, BlockInv, Claimed
<1>4. WaitingIds' = WaitingIds /\ JobIds' = JobIds
  BY <1>2 DEF WaitingIds, JobIds
<1>5. ASSUME NEW i, BlockClaimed(i) PROVE BlockClaimed(i)'
  BY <1>2, <1>5 DEF SentKept, BlockClaimed, Wellformed, Claimed
<1>. QED BY <1>3, <1>4, <1>5 DEF IndexerInv, MessageInv, TakenIsAccountedFor

LEMMA PublishStep ==
    ASSUME IndexerInv, Grow \/ PublishBlock \/ PublishForeign PROVE IndexerInv'
<1>0. /\ tip \in Nat /\ FirstTip \in Nat /\ MaxHeight \in Nat /\ tip \in FirstTip .. MaxHeight
      /\ sent \in Seq(Bodies) /\ Len(sent) \in Nat
  BY ChainAssumption DEF IndexerInv, OtherTypes, Height, BrokerInv, SentTypes
<1>1. CASE Grow
  <2>1. UNCHANGED <<brokerVars, indexingVars, deaths, lost, topic>> /\ tip' = tip + 1 /\ tip < MaxHeight
    BY <1>1 DEF Grow, Synchronizer!Grow
  <2>2. UNCHANGED <<sent, handled, lost>> /\ Broker!Publication' = Broker!Publication /\ SentKept
    BY <2>1 DEF brokerVars, Broker!Publication, SentKept
  <2>3. BrokerInv'
    BY <2>1, <2>2 DEF brokerVars, queueVars, pollerVars, processVars, IndexerInv, BrokerInv,
       SentTypes, QueueTypes, ClosedIsEmpty, HandlingIsHandled, NoneForgotten, StartsAfresh,
       Broker!NoneForgotten, Broker!StartsAfresh
  <2>4. SentInv'
    BY <1>0, <2>1, <2>2, PublishableGrows DEF IndexerInv, SentInv
  <2>5. OtherTypes'
    BY <1>0, <2>1, <2>2 DEF IndexerInv, OtherTypes
  <2>. QED BY <2>1, <2>2, <2>3, <2>4, <2>5, FateKept DEF IndexerInv
<1>2. ASSUME NEW b \in Bodies, Broker!Publish(b), UNCHANGED <<tip, indexingVars, deaths, lost>>,
             topic' \subseteq BlockMessages, b = Foreign \/ b \in Synchronizer!Publishable
      PROVE  IndexerInv'
  <2>1. /\ sent' = Append(sent, b) /\ Len(sent') = Len(sent) + 1 /\ sent'[Len(sent) + 1] = b
        /\ \A i \in 1 .. Len(sent) : sent'[i] = sent[i]
    BY <1>0, <1>2, SentGrows DEF Broker!Publish
  <2>2. Broker!Publication' = Broker!Publication \cup {Len(sent) + 1} /\ SentKept
    BY <1>0, <2>1 DEF Broker!Publication, SentKept
  <2>3. UNCHANGED handled
    BY <1>2 DEF Broker!Publish
  <2>4. Synchronizer!Publishable' = Synchronizer!Publishable
    BY <1>2 DEF Synchronizer!Publishable, Synchronizer!RestoredMessages,
                Synchronizer!LiveMessages
  <2>5. SentInv'
    BY <1>2, <2>1, <2>2, <2>4 DEF IndexerInv, SentInv, Broker!Publication
  <2>6. OtherTypes'
    BY <1>2, <2>2 DEF IndexerInv, OtherTypes
  <2>. QED BY <1>2, <2>2, <2>3, <2>5, <2>6, FateKept, BrokerPublish DEF IndexerInv
<1>3. CASE PublishForeign
  BY <1>2, <1>3 DEF PublishForeign, publishingVars, IndexerInv, OtherTypes, Bodies
<1>4. CASE PublishBlock
  <2>1. PICK m \in Synchronizer!Publishable : Synchronizer!Publish(m) /\ Broker!Publish(m)
    BY <1>4 DEF PublishBlock
  <2>2. m \in BlockMessages
    BY <1>0, PublishableIsMessage
  <2>3. topic' \subseteq BlockMessages /\ tip' = tip
    BY <2>1, <2>2 DEF Synchronizer!Publish, IndexerInv, OtherTypes
  <2>. QED BY <1>2, <1>4, <2>1, <2>2, <2>3 DEF PublishBlock, Bodies
<1>. QED BY <1>1, <1>3, <1>4

\* Steps of the broker that leave sent, and the event processor, alone.
LEMMA QueueStep ==
    ASSUME IndexerInv, BrokerStep, BrokerFrame, UNCHANGED handled PROVE IndexerInv'
<1>1. BrokerInv' /\ sent' = sent
  BY BrokerOther DEF IndexerInv
<1>2. Broker!Publication' = Broker!Publication /\ SentKept
  BY <1>1 DEF Broker!Publication, SentKept
<1>3. UNCHANGED <<tip, topic, indexingVars, deaths, lost>>
  BY DEF BrokerFrame, publishingVars
<1>4. MessageInv' /\ TakenIsAccountedFor'
  BY <1>2, <1>3, FateKept
<1>5. Synchronizer!Publishable' = Synchronizer!Publishable
  BY <1>3 DEF Synchronizer!Publishable, Synchronizer!RestoredMessages, Synchronizer!LiveMessages
<1>6. SentInv' /\ OtherTypes'
  BY <1>1, <1>2, <1>3, <1>5 DEF IndexerInv, SentInv, OtherTypes
<1>. QED BY <1>1, <1>4, <1>6 DEF IndexerInv

LEMMA BrokerOnlyStep ==
    ASSUME IndexerInv,
           \/ Subscribe \/ Delete
           \/ \E S \in SUBSET visible : Receive(S) \/ ReceiveFails(S)
           \/ \E i \in batch : HandlerRejects(i)
           \/ \E i \in Broker!Publication : Reappear(i) \/ Expire(i)
    PROVE  IndexerInv'
<1>1. BrokerStep /\ BrokerFrame
  BY DEF BrokerStep, Subscribe, Delete, Receive, ReceiveFails, HandlerRejects, Reappear, Expire
<1>2. UNCHANGED handled
  BY DEF Subscribe, Delete, Receive, ReceiveFails, HandlerRejects, Reappear, Expire,
     Broker!Subscribe, Broker!Delete, Broker!Receive, Broker!ReceiveFails, Broker!Reject,
     Broker!Reappear, Broker!Expire
<1>. QED BY <1>1, <1>2, QueueStep

---------------------------------------------------------------------------
(* The handler                                                             *)

LEMMA HandlerStep ==
    ASSUME IndexerInv, NEW i \in batch, Handler(i) PROVE IndexerInv'
<1>1. Broker!Handle(i) /\ BrokerStep
  BY DEF Handler, BrokerStep
<1>2. BrokerInv' /\ sent' = sent
  BY <1>1, BrokerOther DEF IndexerInv
<1>3. Broker!Publication' = Broker!Publication /\ SentKept
  BY <1>2 DEF Broker!Publication, SentKept
<1>4. /\ UNCHANGED <<tip, topic, deaths, job, stage, life, content>>
      /\ handled' = handled \cup {i} /\ i \in Broker!Publication /\ sent[i] # Foreign
  BY <1>1 DEF Handler, publishingVars, Processor!Accept, Processor!Drop, Processor!vars,
     Broker!Handle, Wellformed
<1>5. Synchronizer!Publishable' = Synchronizer!Publishable
  BY <1>4 DEF Synchronizer!Publishable, Synchronizer!RestoredMessages, Synchronizer!LiveMessages
<1>6. Received(i) \in Messages /\ Faithful(Received(i)) /\ Received(i).id = i
  <2>1. sent[i] \in BlockMessages
    BY <1>4, PublishableIsMessage DEF IndexerInv, SentInv, OtherTypes
  <2>2. i \in 1 .. MaxSent
    BY <1>4, SizesAssumption DEF IndexerInv, BrokerInv, SentTypes, Broker!Publication
  <2>3. Received(i) \in Messages
    BY <2>1, <2>2 DEF Received, Messages, BlockMessages
  <2>. QED BY <1>4, <2>3 DEF Faithful, Received
<1>7. ASSUME NEW m, Faithful(m) PROVE Faithful(m)'
  BY <1>3, <1>7, FaithfulKept
<1>8. JobInv' /\ BlockInv'
  BY <1>4, <1>7 DEF IndexerInv, MessageInv, JobInv, BlockInv, Claimed
<1>9. JobIds' = JobIds /\ \A j : BlockClaimed(j)' <=> BlockClaimed(j)
  BY <1>2, <1>3, <1>4 DEF JobIds, BlockClaimed, Wellformed, Claimed
<1>10. lost \subseteq lost' /\ SentInv' /\ OtherTypes'
  BY <1>2, <1>3, <1>4, <1>5 DEF Handler, IndexerInv, SentInv, OtherTypes
<1>11. CASE Processor!Accept(Received(i)) /\ UNCHANGED lost
  <2>1. /\ waiting \in Seq(Messages) /\ waiting' = Append(waiting, Received(i))
        /\ ~(Len(waiting) >= Capacity)
    BY <1>11 DEF Processor!Accept, Processor!Full, IndexerInv, MessageInv, InboxInv
  <2>2. /\ waiting' \in Seq(Messages) /\ Len(waiting') = Len(waiting) + 1 /\ Len(waiting) \in Nat
        /\ \A k \in 1 .. Len(waiting) : waiting'[k] = waiting[k]
        /\ waiting'[Len(waiting) + 1] = Received(i)
    BY <1>6, <2>1, SentGrows
  <2>3. DOMAIN waiting = 1 .. Len(waiting) /\ DOMAIN waiting' = 1 .. Len(waiting) + 1
    BY <2>1, <2>2
  <2>4. \A k \in DOMAIN waiting' : k = Len(waiting) + 1 \/ (k \in DOMAIN waiting /\ waiting'[k] = waiting[k])
    BY <2>2, <2>3
  <2>5. \A k \in DOMAIN waiting' : Faithful(waiting[k])'
    BY <1>6, <1>7, <2>2, <2>4 DEF IndexerInv, MessageInv, InboxInv
  <2>6. Len(waiting') <= Capacity
    BY <2>1, <2>2, SizesAssumption
  <2>7. InboxInv'
    BY <2>2, <2>5, <2>6 DEF InboxInv
  <2>8. WaitingIds \cup {i} \subseteq WaitingIds'
    <3>1. Len(waiting) + 1 \in DOMAIN waiting' /\ \A k \in DOMAIN waiting : k \in DOMAIN waiting'
      BY <2>2, <2>3
    <3>. QED BY <1>6, <2>2, <2>3, <3>1 DEF WaitingIds
  <2>9. TakenIsAccountedFor'
    BY <1>4, <1>9, <1>10, <2>8 DEF IndexerInv, TakenIsAccountedFor
  <2>. QED BY <1>2, <1>8, <1>10, <2>7, <2>9 DEF IndexerInv, MessageInv
<1>12. CASE Processor!Drop(Received(i)) /\ lost' = lost \cup {i}
  <2>1. waiting' = waiting
    BY <1>12 DEF Processor!Drop, Processor!vars
  <2>2. InboxInv' /\ WaitingIds' = WaitingIds
    BY <1>7, <2>1 DEF IndexerInv, MessageInv, InboxInv, WaitingIds
  <2>3. TakenIsAccountedFor'
    BY <1>4, <1>9, <1>12, <2>2 DEF IndexerInv, TakenIsAccountedFor
  <2>. QED BY <1>2, <1>8, <1>10, <2>2, <2>3 DEF IndexerInv, MessageInv
<1>. QED BY <1>11, <1>12 DEF Handler

---------------------------------------------------------------------------
(* The workers                                                             *)

\* What the workers' steps have in common: the broker stays as it is.
LEMMA WorkersFrame ==
    ASSUME IndexerInv, UNCHANGED <<publishingVars, brokerVars, deaths>>,
           lost' \subseteq Broker!Publication,
           MessageInv', TakenIsAccountedFor'
    PROVE  IndexerInv'
<1>1. UNCHANGED <<tip, topic, brokerVars, deaths>>
  BY DEF publishingVars
<1>2. BrokerInv'
  BY <1>1 DEF brokerVars, queueVars, pollerVars, processVars, IndexerInv, BrokerInv,
     SentTypes, QueueTypes, ClosedIsEmpty, HandlingIsHandled, NoneForgotten, StartsAfresh,
     Broker!NoneForgotten, Broker!StartsAfresh, Broker!Publication
<1>3. sent' = sent /\ Broker!Publication' = Broker!Publication
  BY <1>1 DEF brokerVars, Broker!Publication
<1>4. Synchronizer!Publishable' = Synchronizer!Publishable
  BY <1>1 DEF Synchronizer!Publishable, Synchronizer!RestoredMessages, Synchronizer!LiveMessages
<1>5. SentInv' /\ OtherTypes'
  BY <1>1, <1>3, <1>4 DEF IndexerInv, SentInv, OtherTypes
<1>. QED BY <1>2, <1>5 DEF IndexerInv

LEMMA TakeStep ==
    ASSUME IndexerInv, NEW w \in Worker, Take(w) PROVE IndexerInv'
<1>1. /\ stage[w] = "idle" /\ waiting # << >> /\ waiting' = Tail(waiting)
      /\ job' = [job EXCEPT ![w] = Head(waiting)]
      /\ stage' = [stage EXCEPT ![w] = "asking"]
      /\ UNCHANGED <<life, content, publishingVars, brokerVars, deaths, lost>>
  BY DEF Take, Processor!Take, WorkerFrame
<1>2. /\ waiting \in Seq(Messages) /\ Len(waiting) <= Capacity
      /\ \A k \in DOMAIN waiting : Faithful(waiting[k])
      /\ job \in [Worker -> Messages \cup {NoMessage}]
      /\ stage \in [Worker -> {"idle", "asking", "indexing"}]
  BY DEF IndexerInv, MessageInv, InboxInv, JobInv
<1>3. /\ Len(waiting) \in Nat \ {0} /\ DOMAIN waiting = 1 .. Len(waiting) /\ Head(waiting) = waiting[1]
      /\ Tail(waiting) \in Seq(Messages) /\ Len(Tail(waiting)) = Len(waiting) - 1
      /\ \A k \in 1 .. Len(waiting) - 1 : Tail(waiting)[k] = waiting[k + 1]
  BY <1>1, <1>2, HeadTailProperties, EmptySeq
<1>4. DOMAIN Tail(waiting) = 1 .. Len(waiting) - 1
  BY <1>3, LenProperties
<1>5. UNCHANGED <<sent, handled>> /\ Broker!Publication' = Broker!Publication /\ SentKept
  BY <1>1 DEF brokerVars, Broker!Publication, SentKept
<1>6. ASSUME NEW m, Faithful(m) PROVE Faithful(m)'
  BY <1>5, <1>6, FaithfulKept
<1>7. InboxInv'
  <2>1. \A k \in DOMAIN waiting' : k + 1 \in DOMAIN waiting /\ waiting'[k] = waiting[k + 1]
    BY <1>1, <1>3, <1>4
  <2>2. Len(waiting') <= Capacity
    BY <1>1, <1>2, <1>3, SizesAssumption
  <2>. QED BY <1>1, <1>2, <1>3, <1>6, <2>1, <2>2 DEF InboxInv
<1>8. Faithful(Head(waiting)) /\ Head(waiting) \in Messages
  BY <1>2, <1>3 DEF Faithful
<1>9. JobInv'
  <2>1. job' \in [Worker -> Messages \cup {NoMessage}] /\ stage' \in [Worker -> {"idle", "asking", "indexing"}]
    BY <1>1, <1>2, <1>8
  <2>2. ASSUME NEW v \in Worker
        PROVE  /\ stage'[v] # "idle" => Faithful(job[v])'
               /\ stage'[v] = "indexing" => Claimed(job[v].height)'
    <3>1. CASE v = w
      BY <1>1, <1>2, <1>6, <1>8, <3>1
    <3>2. CASE v # w
      <4>1. stage'[v] = stage[v] /\ job'[v] = job[v]
        BY <1>1, <1>2, <3>2
      <4>2. /\ stage[v] # "idle" => Faithful(job[v])
            /\ stage[v] = "indexing" => Claimed(job[v].height)
        BY DEF IndexerInv, MessageInv, JobInv
      <4>. QED BY <1>1, <1>6, <4>1, <4>2 DEF Claimed
    <3>. QED BY <3>1, <3>2
  <2>. QED BY <2>1, <2>2 DEF JobInv
<1>10. BlockInv'
  BY <1>1, <1>6 DEF IndexerInv, MessageInv, BlockInv, Claimed
<1>11. WaitingIds \cup JobIds \subseteq WaitingIds' \cup JobIds'
  <2>1. ASSUME NEW k \in DOMAIN waiting PROVE waiting[k].id \in WaitingIds' \cup JobIds'
    <3>1. CASE k = 1
      <4>1. stage'[w] # "idle" /\ job'[w] = waiting[1]
        BY <1>1, <1>2, <1>3
      <4>. QED BY <3>1, <4>1 DEF JobIds
    <3>2. CASE k # 1
      <4>1. k - 1 \in DOMAIN waiting' /\ waiting'[k - 1] = waiting[k]
        BY <1>1, <1>3, <1>4, <3>2
      <4>. QED BY <4>1 DEF WaitingIds
    <3>. QED BY <3>1, <3>2
  <2>2. ASSUME NEW v \in Worker, stage[v] # "idle" PROVE job[v].id \in JobIds'
    <3>1. stage'[v] # "idle" /\ job'[v] = job[v]
      BY <1>1, <1>2, <2>2
    <3>. QED BY <3>1 DEF JobIds
  <2>. QED BY <2>1, <2>2 DEF WaitingIds, JobIds
<1>12. \A j : BlockClaimed(j)' <=> BlockClaimed(j)
  BY <1>1, <1>5 DEF BlockClaimed, Wellformed, Claimed
<1>13. TakenIsAccountedFor'
  BY <1>1, <1>5, <1>11, <1>12 DEF IndexerInv, TakenIsAccountedFor
<1>. QED BY <1>1, <1>7, <1>9, <1>10, <1>13, WorkersFrame DEF IndexerInv, MessageInv, OtherTypes

\* A worker goes on with its message, or leaves it when its block is claimed or
\* the message is recorded as lost.
LEMMA JobStep ==
    ASSUME IndexerInv, NEW w \in Worker, stage[w] # "idle",
           UNCHANGED <<publishingVars, brokerVars, deaths, waiting>>,
           \/ /\ job' = job /\ stage' = [stage EXCEPT ![w] = "indexing"]
              /\ life'[job[w].height] # "absent"
           \/ /\ job' = [job EXCEPT ![w] = NoMessage] /\ stage' = [stage EXCEPT ![w] = "idle"]
              /\ life'[job[w].height] # "absent" \/ job[w].id \in lost',
           \A h \in Height : Claimed(h) => Claimed(h)',
           BlockInv',
           lost \subseteq lost', lost' \subseteq Broker!Publication
    PROVE  IndexerInv'
<1>1. UNCHANGED <<sent, handled>> /\ Broker!Publication' = Broker!Publication /\ SentKept
  BY DEF brokerVars, Broker!Publication, SentKept
<1>2. ASSUME NEW m, Faithful(m) PROVE Faithful(m)'
  BY <1>1, <1>2, FaithfulKept
<1>3. /\ job \in [Worker -> Messages \cup {NoMessage}]
      /\ stage \in [Worker -> {"idle", "asking", "indexing"}]
      /\ \A v \in Worker : /\ stage[v] # "idle" => Faithful(job[v])
                           /\ stage[v] = "indexing" => Claimed(job[v].height)
  BY DEF IndexerInv, MessageInv, JobInv
<1>4. InboxInv' /\ WaitingIds' = WaitingIds
  BY <1>2 DEF IndexerInv, MessageInv, InboxInv, WaitingIds
<1>5. ASSUME NEW v \in Worker, v # w PROVE job'[v] = job[v] /\ stage'[v] = stage[v]
  BY <1>3, <1>5
<1>6. Faithful(job[w]) /\ job[w].height \in Height /\ sent[job[w].id].block = job[w].height
  BY <1>3 DEF Faithful, Messages
<1>7. JobInv'
  <2>1. job' \in [Worker -> Messages \cup {NoMessage}] /\ stage' \in [Worker -> {"idle", "asking", "indexing"}]
    BY <1>3
  <2>2. ASSUME NEW v \in Worker
        PROVE  /\ stage'[v] # "idle" => Faithful(job[v])'
               /\ stage'[v] = "indexing" => Claimed(job[v].height)'
    <3>1. CASE v = w
      BY <1>2, <1>3, <1>6, <3>1 DEF Claimed
    <3>2. CASE v # w
      <4>1. stage'[v] # "idle" => Faithful(job[v])'
        BY <1>2, <1>3, <1>5, <3>2
      <4>2. stage'[v] = "indexing" => Claimed(job[v].height)'
        <5> SUFFICES ASSUME stage[v] = "indexing" PROVE Claimed(job[v].height)'
          BY <1>5, <3>2
        <5>1. Faithful(job[v]) /\ life[job[v].height] # "absent"
          BY <1>3 DEF Claimed
        <5>2. job[v].height \in Height
          BY <5>1 DEF Faithful, Messages
        <5>3. life'[job[v].height] # "absent"
          BY <5>1, <5>2 DEF Claimed
        <5>. QED BY <1>5, <3>2, <5>3 DEF Claimed
      <4>. QED BY <4>1, <4>2
    <3>. QED BY <3>1, <3>2
  <2>. QED BY <2>1, <2>2 DEF JobInv
<1>8. ASSUME NEW j, BlockClaimed(j) PROVE BlockClaimed(j)'
  <2>1. sent[j] \in BlockMessages
    BY <1>8, PublishableIsMessage DEF IndexerInv, SentInv, OtherTypes, BlockClaimed, Wellformed
  <2>2. sent[j].block \in Height
    BY <2>1 DEF BlockMessages
  <2>. QED BY <1>1, <1>8, <2>2 DEF BlockClaimed, Wellformed, Claimed
<1>9. ASSUME NEW j \in JobIds PROVE j \in JobIds' \cup lost' \/ BlockClaimed(j)'
  <2>1. PICK v \in Worker : stage[v] # "idle" /\ j = job[v].id
    BY <1>9 DEF JobIds
  <2>2. CASE stage'[v] # "idle"
    <3>1. job'[v] = job[v]
      BY <1>3, <1>5, <2>2
    <3>. QED BY <2>1, <2>2, <3>1 DEF JobIds
  <2>3. CASE stage'[v] = "idle"
    <3>1. v = w
      BY <1>5, <2>1, <2>3
    <3>2. life'[job[w].height] # "absent" \/ j \in lost'
      BY <1>3, <2>1, <2>3, <3>1
    <3>3. j \in Broker!Publication /\ sent[j] # Foreign /\ sent[j].block = job[w].height
      BY <1>6, <2>1, <3>1 DEF Faithful
    <3>. QED BY <1>1, <3>2, <3>3 DEF BlockClaimed, Wellformed, Claimed
  <2>. QED BY <2>2, <2>3
<1>10. TakenIsAccountedFor'
  BY <1>1, <1>4, <1>8, <1>9 DEF IndexerInv, TakenIsAccountedFor
<1>. QED BY <1>4, <1>7, <1>10, WorkersFrame DEF MessageInv

LEMMA WorkerSteps ==
    ASSUME IndexerInv, NEW w \in Worker, WorkerStep(w) PROVE IndexerInv'
<1>0. /\ job \in [Worker -> Messages \cup {NoMessage}]
      /\ stage \in [Worker -> {"idle", "asking", "indexing"}]
      /\ life \in [Height -> {"absent", "owned", "indexed", "abandoned"}]
      /\ content \in [Height -> Messages \cup {NoMessage}]
      /\ lost \subseteq Broker!Publication
      /\ \A h \in Height : Claimed(h) => Faithful(content[h]) /\ content[h].height = h
  BY DEF IndexerInv, MessageInv, JobInv, BlockInv, OtherTypes
<1>1. stage[w] # "idle" => /\ Faithful(job[w]) /\ job[w] \in Messages /\ job[w].height \in Height
                           /\ job[w].id \in Broker!Publication
  BY DEF IndexerInv, MessageInv, JobInv, Faithful, Messages
<1>2. UNCHANGED <<publishingVars, brokerVars, deaths>>
  BY DEF WorkerStep, Take, Claim, Pass, Finish, GiveUp, WorkerFrame
<1>3. SentKept
  BY <1>2 DEF brokerVars, Broker!Publication, SentKept
<1>4. ASSUME NEW m, Faithful(m) PROVE Faithful(m)'
  BY <1>3, <1>4, FaithfulKept
<1>5. CASE Take(w)
  BY <1>5, TakeStep
<1>6. CASE Claim(w)
  <2>1. /\ stage[w] = "asking" /\ life[job[w].height] = "absent" /\ lost' = lost /\ waiting' = waiting
        /\ content' = [content EXCEPT ![job[w].height] = job[w]]
        /\ \/ /\ life' = [life EXCEPT ![job[w].height] = "owned"] /\ job' = job
              /\ stage' = [stage EXCEPT ![w] = "indexing"]
           \/ /\ life' = [life EXCEPT ![job[w].height] = "abandoned"]
              /\ job' = [job EXCEPT ![w] = NoMessage] /\ stage' = [stage EXCEPT ![w] = "idle"]
    BY <1>6 DEF Claim, Processor!Claim, Processor!Becomes, Processor!BecomesIdle
  <2>2. life'[job[w].height] # "absent" /\ \A h \in Height : h # job[w].height => life'[h] = life[h]
    BY <1>0, <1>1, <2>1
  <2>3. \A h \in Height : Claimed(h) => Claimed(h)'
    BY <2>2 DEF Claimed
  <2>4. BlockInv'
    <3>1. life' \in [Height -> {"absent", "owned", "indexed", "abandoned"}]
      BY <1>0, <2>1
    <3>2. content' \in [Height -> Messages \cup {NoMessage}]
      BY <1>0, <1>1, <2>1
    <3>3. ASSUME NEW h \in Height, life'[h] # "absent"
          PROVE  Faithful(content[h])' /\ content'[h].height = h
      <4>1. CASE h = job[w].height
        BY <1>0, <1>1, <1>4, <2>1, <4>1
      <4>2. CASE h # job[w].height
        <5>1. content'[h] = content[h] /\ Faithful(content[h]) /\ content[h].height = h
          BY <1>0, <2>1, <2>2, <3>3, <4>2 DEF Claimed
        <5>. QED BY <1>4, <5>1
      <4>. QED BY <4>1, <4>2
    <3>. QED BY <3>1, <3>2, <3>3 DEF BlockInv, Claimed
  <2>. QED BY <1>0, <1>2, <2>1, <2>2, <2>3, <2>4, JobStep
<1>7. CASE Pass(w)
  <2>1. /\ stage[w] = "asking" /\ UNCHANGED <<life, content, waiting>>
        /\ job' = [job EXCEPT ![w] = NoMessage] /\ stage' = [stage EXCEPT ![w] = "idle"]
        /\ life[job[w].height] = "absent" => lost' = lost \cup {job[w].id}
        /\ life[job[w].height] # "absent" => lost' = lost
    BY <1>7 DEF Pass, Processor!Pass, Processor!BecomesIdle
  <2>2. BlockInv' /\ \A h \in Height : Claimed(h) => Claimed(h)'
    BY <1>0, <1>4, <2>1 DEF BlockInv, Claimed
  <2>. QED BY <1>0, <1>1, <1>2, <2>1, <2>2, JobStep
<1>8. CASE Finish(w) \/ GiveUp(w)
  <2>1. /\ stage[w] = "indexing" /\ UNCHANGED <<content, waiting, lost>>
        /\ job' = [job EXCEPT ![w] = NoMessage] /\ stage' = [stage EXCEPT ![w] = "idle"]
        /\ life[job[w].height] = "owned"
        /\ \/ life' = [life EXCEPT ![job[w].height] = "indexed"]
           \/ life' = [life EXCEPT ![job[w].height] = "abandoned"]
    BY <1>8 DEF Finish, GiveUp, Processor!Finish, Processor!GiveUp, Processor!Becomes,
                Processor!BecomesIdle
  <2>2. /\ life' \in [Height -> {"absent", "owned", "indexed", "abandoned"}]
        /\ \A h \in Height : Claimed(h)' <=> Claimed(h)
        /\ life'[job[w].height] # "absent"
    BY <1>0, <1>1, <2>1 DEF Claimed
  <2>3. BlockInv'
    BY <1>0, <1>4, <2>1, <2>2 DEF BlockInv
  <2>. QED BY <1>0, <1>2, <2>1, <2>2, <2>3, JobStep
<1>. QED BY <1>5, <1>6, <1>7, <1>8 DEF WorkerStep

---------------------------------------------------------------------------
(* Death and restart                                                       *)

LEMMA DieStep == IndexerInv /\ Die => IndexerInv'
<1> SUFFICES ASSUME IndexerInv, Die PROVE IndexerInv'
  OBVIOUS
<1>1. BrokerInv' /\ sent' = sent
  BY BrokerOther DEF Die, IndexerInv, BrokerStep
<1>2. Broker!Publication' = Broker!Publication /\ SentKept /\ handled' = handled
  BY <1>1 DEF Broker!Publication, SentKept, Die, Broker!Restart
<1>3. /\ waiting' = << >> /\ job' = [w \in Worker |-> NoMessage]
      /\ stage' = [w \in Worker |-> "idle"] /\ content' = content
      /\ life' = [h \in Height |-> IF life[h] = "owned" THEN "abandoned" ELSE life[h]]
      /\ lost' = lost \cup WaitingIds \cup JobIds /\ deaths' = deaths + 1
      /\ UNCHANGED <<tip, topic>>
  BY DEF Die, Processor!Die, publishingVars
<1>4. ASSUME NEW m, Faithful(m) PROVE Faithful(m)'
  BY <1>2, <1>4, FaithfulKept
<1>5. BlockInv' /\ \A h \in Height : Claimed(h)' <=> Claimed(h)
  <2>1. /\ life \in [Height -> {"absent", "owned", "indexed", "abandoned"}]
        /\ content \in [Height -> Messages \cup {NoMessage}]
        /\ \A h \in Height : Claimed(h) => Faithful(content[h]) /\ content[h].height = h
    BY DEF IndexerInv, MessageInv, BlockInv
  <2>2. /\ life' \in [Height -> {"absent", "owned", "indexed", "abandoned"}]
        /\ \A h \in Height : Claimed(h)' <=> Claimed(h)
    BY <1>3, <2>1 DEF Claimed
  <2>. QED BY <1>3, <1>4, <2>1, <2>2 DEF BlockInv
<1>6. InboxInv' /\ JobInv'
  <2>1. << >> \in Seq(Messages) /\ Len(<< >>) = 0 /\ DOMAIN << >> = {}
    OBVIOUS
  <2>2. InboxInv'
    BY <1>3, <2>1, SizesAssumption DEF InboxInv
  <2>3. JobInv'
    BY <1>3 DEF JobInv
  <2>. QED BY <2>2, <2>3
<1>7. lost' \subseteq Broker!Publication
  <2>1. WaitingIds \subseteq Broker!Publication /\ JobIds \subseteq Broker!Publication
    BY DEF WaitingIds, JobIds, IndexerInv, MessageInv, InboxInv, JobInv, Faithful
  <2>. QED BY <1>3, <2>1 DEF IndexerInv, OtherTypes
<1>8. Synchronizer!Publishable' = Synchronizer!Publishable
  BY <1>3 DEF Synchronizer!Publishable, Synchronizer!RestoredMessages, Synchronizer!LiveMessages
<1>9. SentInv' /\ OtherTypes'
  BY <1>1, <1>2, <1>3, <1>7, <1>8 DEF IndexerInv, SentInv, OtherTypes
<1>10. ASSUME NEW j, BlockClaimed(j) PROVE BlockClaimed(j)'
  <2>1. sent[j] \in BlockMessages
    BY <1>10, PublishableIsMessage DEF IndexerInv, SentInv, OtherTypes, BlockClaimed, Wellformed
  <2>2. sent[j].block \in Height
    BY <2>1 DEF BlockMessages
  <2>. QED BY <1>1, <1>2, <1>5, <1>10, <2>2 DEF BlockClaimed, Wellformed, Claimed
<1>11. TakenIsAccountedFor'
  BY <1>2, <1>3, <1>10 DEF IndexerInv, TakenIsAccountedFor
<1>. QED BY <1>1, <1>5, <1>6, <1>9, <1>11 DEF IndexerInv, MessageInv

---------------------------------------------------------------------------
(* All steps together, and the theorems                                    *)

LEMMA IndexerStep == IndexerInv /\ [Next]_vars => IndexerInv'
<1> SUFFICES ASSUME IndexerInv, [Next]_vars PROVE IndexerInv'
  OBVIOUS
<1>1. CASE UNCHANGED vars
  <2>1. UNCHANGED <<publishingVars, brokerVars, deaths, indexingVars, lost, handled, sent>>
    BY <1>1 DEF vars, brokerVars
  <2>2. Broker!Publication' = Broker!Publication /\ SentKept
    BY <2>1 DEF Broker!Publication, SentKept
  <2>3. lost' \subseteq Broker!Publication
    BY <2>1 DEF IndexerInv, OtherTypes
  <2>. QED BY <2>1, <2>2, <2>3, FateKept, WorkersFrame
<1>. QED BY <1>1, PublishStep, BrokerOnlyStep, HandlerStep, WorkerSteps, DieStep
         DEF Next, PollerStep

LEMMA IndexerInvAlways == Spec => []IndexerInv
  BY IndexerInit, IndexerStep, PTL DEF Spec

\* Every variable keeps its type; waiting messages never exceed the capacity.
THEOREM TypeCorrect == Spec => []TypeOK
<1>1. IndexerInv => TypeOK
  <2> SUFFICES ASSUME IndexerInv PROVE TypeOK
    OBVIOUS
  <2>1. Broker!TypeOK
    BY DEF IndexerInv, BrokerInv, SentTypes, QueueTypes, Broker!TypeOK, Bodies
  <2>. QED BY <2>1 DEF IndexerInv, MessageInv, InboxInv, JobInv, BlockInv, OtherTypes, TypeOK
<1>. QED BY <1>1, IndexerInvAlways, PTL

\* Whatever receive or delete call fails and however messages time out and come
\* again, none leaves the queue unless a handler returned nil for it, it
\* expired, or the process died.
THEOREM NoMessageIsForgotten == Spec => []NoneForgotten
<1>1. IndexerInv => NoneForgotten
  BY DEF IndexerInv, BrokerInv
<1>. QED BY <1>1, IndexerInvAlways, PTL

\* A restarted event processor is never given what was published before.
THEOREM ProcessStartsAfresh == Spec => []StartsAfresh
<1>1. IndexerInv => StartsAfresh
  BY DEF IndexerInv, BrokerInv
<1>. QED BY <1>1, IndexerInvAlways, PTL

\* A message the handler took waits, is at work, has its block claimed, or is
\* one of those the event processor is known to lose.
THEOREM TakenMessagesAreAccountedFor == Spec => []TakenIsAccountedFor
<1>1. IndexerInv => TakenIsAccountedFor
  BY DEF IndexerInv
<1>. QED BY <1>1, IndexerInvAlways, PTL

\* A block is claimed with what one of the synchronizer's messages said of it.
THEOREM ContentIsOfTheBlock == Spec => []ContentIsRestoredOrLive
<1>1. IndexerInv => ContentIsRestoredOrLive
  <2> SUFFICES ASSUME IndexerInv, NEW h \in Height, Claimed(h)
               PROVE  /\ content[h].height = h
                      /\ \/ content[h].txs = TxHeights \cap {h}
                         \/ h > FirstTip /\ content[h].txs \subseteq TxHeights \cap {h + 1}
    BY DEF ContentIsRestoredOrLive
  <2>1. Faithful(content[h]) /\ content[h].height = h
    BY DEF IndexerInv, MessageInv, BlockInv
  <2>2. PICK m \in Synchronizer!Publishable : m.block = h /\ m.txs = content[h].txs
    BY <2>1 DEF IndexerInv, SentInv, Faithful
  <2>3. FirstTip \in Nat /\ tip \in Nat
    BY ChainAssumption DEF IndexerInv, OtherTypes, Height
  <2>4. CASE m \in Synchronizer!RestoredMessages
    BY <2>1, <2>2, <2>4 DEF Synchronizer!RestoredMessages
  <2>5. CASE m \in Synchronizer!LiveMessages /\ m.txs \subseteq {m.block + 1}
    <3>1. m.block \in FirstTip + 1 .. tip /\ m.txs \in SUBSET TxHeights
      BY <2>5 DEF Synchronizer!LiveMessages
    <3>2. h > FirstTip
      BY <2>2, <2>3, <3>1
    <3>. QED BY <2>1, <2>2, <2>5, <3>1, <3>2
  <2>. QED BY <2>4, <2>5 DEF Synchronizer!Publishable
<1>. QED BY <1>1, IndexerInvAlways, PTL

\* The first message of a block decides: no redelivery, restore or restart
\* changes what a claimed block was claimed with.
THEOREM FirstMessageDecides == Spec => ContentStays
<1>1. IndexerInv /\ [Next]_vars => [\A h \in Height : Claimed(h) => content'[h] = content[h]]_vars
  <2> SUFFICES ASSUME IndexerInv, [Next]_vars, NEW h \in Height, Claimed(h)
               PROVE  content'[h] = content[h]
    OBVIOUS
  <2>1. CASE content' = content
    BY <2>1
  <2>2. ASSUME NEW w \in Worker, Claim(w) PROVE content'[h] = content[h]
    <3>1. life[job[w].height] = "absent" /\ content' = [content EXCEPT ![job[w].height] = job[w]]
      BY <2>2 DEF Claim, Processor!Claim
    <3>2. content \in [Height -> Messages \cup {NoMessage}] /\ h # job[w].height
      BY <3>1 DEF Claimed, IndexerInv, MessageInv, BlockInv
    <3>. QED BY <3>1, <3>2
  <2>3. CASE Next /\ \A w \in Worker : ~Claim(w)
    <3>1. content' = content
      BY <2>3 DEF Next, PollerStep, WorkerStep, Grow, PublishBlock, PublishForeign, Subscribe,
         Receive, ReceiveFails, Delete, Reappear, Expire, BrokerFrame, indexingVars, Handler,
         HandlerRejects, Take, Pass, Finish, GiveUp, Die, Processor!Accept, Processor!Drop,
         Processor!vars, Processor!Take, Processor!Pass, Processor!Finish, Processor!GiveUp,
         Processor!Die
    <3>. QED BY <3>1
  <2>4. CASE UNCHANGED vars
    BY <2>4 DEF vars, indexingVars
  <2>. QED BY <2>2, <2>3, <2>4
<1>. QED BY <1>1, IndexerInvAlways, PTL DEF Spec, ContentStays
===========================================================================
