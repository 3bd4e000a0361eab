------------------------------ MODULE Indexer ------------------------------
(***************************************************************************)
(* The whole indexer: a block synchronizer (BlockPublishing) publishes to    *)
(* the broker (MsgBroker), whose poller hands messages to the handler of an  *)
(* event processor (BlockIndexing).  The first and the last are abstract:    *)
(* BlockSynchronizer and EventProcessor implement them.                      *)
(***************************************************************************)
EXTENDS Integers, Sequences, FiniteSets

CONSTANTS MaxHeight, FirstTip, TxHeights,      \* as in BlockPublishing
          Worker, Capacity, NoMessage,         \* as in BlockIndexing
          Foreign,                             \* a message that is not a block's
          MaxSent, MaxReceive, MaxFailures,    \* as in MsgBroker
          MaxDeaths                            \* bound: deaths of the event processor

VARIABLES tip, topic,
          sent, queue, opened, visible, inFlight, batch, handling, failures,
          handled, missed,
          waiting, job, stage, life, content,
          deaths,
          lost       \* history: publications the event processor gave up: they found
                     \* workCh full, or waited or were at work when it died, or their
                     \* claim failed without effect

Height == 1 .. MaxHeight

ASSUME ChainAssumption ==
    /\ MaxHeight \in Nat \ {0} /\ FirstTip \in Height
    /\ TxHeights \subseteq Height
ASSUME SizesAssumption ==
    /\ Capacity \in Nat \ {0} /\ MaxReceive \in Nat \ {0} /\ MaxSent \in Nat
    /\ MaxFailures \in Nat /\ MaxDeaths \in Nat

\* A BlockWithTransactions, from either path of the synchronizer.
BlockMessages == [block : Height, txs : SUBSET TxHeights, by : {"restore", "live"}]
ASSUME ForeignAssumption == Foreign \notin BlockMessages

\* What the handler sends to workCh, and the publication it came with.
Messages == [height : Height, txs : SUBSET TxHeights, id : 1 .. MaxSent]
ASSUME NoMessageAssumption == NoMessage \notin Messages

publishingVars == <<tip, topic>>
queueVars == <<visible, inFlight>>
pollerVars == <<batch, handling>>
processVars == <<queue, opened>>
brokerVars == <<sent, processVars, queueVars, pollerVars, failures, handled, missed>>
indexingVars == <<waiting, job, stage, life, content>>
vars == <<publishingVars, brokerVars, indexingVars, deaths, lost>>

Synchronizer == INSTANCE BlockPublishing
Broker == INSTANCE MsgBroker WITH Body <- BlockMessages \cup {Foreign}
Processor == INSTANCE BlockIndexing

Init == /\ Synchronizer!Init /\ Broker!Init /\ Processor!Init
        /\ deaths = 0 /\ lost = {}

Wellformed(i) == i \in Broker!Publication /\ sent[i] # Foreign
Received(i) == [height |-> sent[i].block, txs |-> sent[i].txs, id |-> i]

\* The publications that wait in workCh, and those at work.
WaitingIds == {waiting[k].id : k \in DOMAIN waiting}
JobIds == {job[w].id : w \in {v \in Worker : stage[v] # "idle"}}

---------------------------------------------------------------------------
Grow == Synchronizer!Grow /\ UNCHANGED <<brokerVars, indexingVars, deaths, lost>>

PublishBlock ==
    /\ \E m \in Synchronizer!Publishable : Synchronizer!Publish(m) /\ Broker!Publish(m)
    /\ UNCHANGED <<indexingVars, deaths, lost>>

\* Somebody else publishes to the topic what json.Unmarshal rejects.
PublishForeign ==
    /\ Broker!Publish(Foreign)
    /\ UNCHANGED <<publishingVars, indexingVars, deaths, lost>>

\* What only the broker does.
BrokerFrame == UNCHANGED <<publishingVars, indexingVars, deaths, lost>>
Subscribe == Broker!Subscribe /\ BrokerFrame
Receive(S) == Broker!Receive(S) /\ BrokerFrame
ReceiveFails(S) == Broker!ReceiveFails(S) /\ BrokerFrame
Delete == Broker!Delete /\ BrokerFrame
Reappear(i) == Broker!Reappear(i) /\ BrokerFrame
Expire(i) == Broker!Expire(i) /\ BrokerFrame

\* Variant for a mutation run: a full inbox gives up its oldest message.
HandlerOverwrites(i) ==
    /\ i \in batch /\ Wellformed(i)
    /\ Broker!Handle(i)
    /\ waiting' = Append(IF Processor!Full THEN Tail(waiting) ELSE waiting, Received(i))
    /\ UNCHANGED <<publishingVars, job, stage, life, content, deaths, lost>>

\* The handler: a message it cannot parse is an error; any other is accepted or,
\* when workCh is full, dropped, and either way the handler returns nil.
Handler(i) ==
    /\ i \in batch /\ Wellformed(i)
    /\ Broker!Handle(i)
    /\ \/ Processor!Accept(Received(i)) /\ UNCHANGED lost
       \/ Processor!Drop(Received(i)) /\ lost' = lost \cup {i}
    /\ UNCHANGED <<publishingVars, deaths>>

HandlerRejects(i) ==
    /\ i \in batch /\ ~Wellformed(i)
    /\ Broker!Reject(i)
    /\ BrokerFrame

\* What only the workers do.
WorkerFrame == UNCHANGED <<publishingVars, brokerVars, deaths>>

Take(w) == Processor!Take(w) /\ WorkerFrame /\ UNCHANGED lost
Claim(w) == Processor!Claim(w) /\ WorkerFrame /\ UNCHANGED lost

Pass(w) ==
    /\ Processor!Pass(w) /\ WorkerFrame
    /\ IF life[job[w].height] = "absent"
       THEN lost' = lost \cup {job[w].id} ELSE UNCHANGED lost

Finish(w) == Processor!Finish(w) /\ WorkerFrame /\ UNCHANGED lost
GiveUp(w) == Processor!GiveUp(w) /\ WorkerFrame /\ UNCHANGED lost
WorkerStep(w) == Take(w) \/ Claim(w) \/ Pass(w) \/ Finish(w) \/ GiveUp(w)

\* The event processor dies and is started again: the messages it has taken out
\* of its queue are gone, and the queue is not polled any more.
Die ==
    /\ deaths < MaxDeaths /\ deaths' = deaths + 1
    /\ Processor!Die /\ Broker!Restart
    /\ lost' = lost \cup WaitingIds \cup JobIds
    /\ UNCHANGED publishingVars

PollerStep == Delete \/ \E i \in batch : Handler(i) \/ HandlerRejects(i)
Next == \/ Grow \/ PublishBlock \/ PublishForeign
        \/ Subscribe \/ \E S \in SUBSET visible : Receive(S) \/ ReceiveFails(S)
        \/ PollerStep
        \/ \E i \in Broker!Publication : Reappear(i) \/ Expire(i)
        \/ \E w \in Worker : WorkerStep(w)
        \/ Die

Spec == Init /\ [][Next]_vars

\* The poller and the workers are scheduled and their calls return.  SQS hides
\* a rejected message for 30 s, while the poller is back in an instant: a
\* visible message is not passed over for ever in favour of others.
ReceiveThat(i) == \E S \in SUBSET visible : i \in S /\ Receive(S)
Fairness == /\ WF_vars(PollerStep)
            /\ \A i \in 1 .. MaxSent : SF_vars(ReceiveThat(i)) /\ WF_vars(Reappear(i))
            /\ \A w \in Worker : WF_vars(WorkerStep(w))
FairSpec == Spec /\ Fairness

---------------------------------------------------------------------------
(* Properties                                                              *)

TypeOK ==
    /\ Broker!TypeOK
    /\ tip \in FirstTip .. MaxHeight /\ topic \subseteq BlockMessages
    /\ waiting \in Seq(Messages) /\ Len(waiting) <= Capacity
    /\ job \in [Worker -> Messages \cup {NoMessage}]
    /\ stage \in [Worker -> {"idle", "asking", "indexing"}]
    /\ life \in [Height -> {"absent", "owned", "indexed", "abandoned"}]
    /\ content \in [Height -> Messages \cup {NoMessage}]
    /\ deaths \in Nat
    /\ lost \subseteq Broker!Publication

NoneForgotten == Broker!NoneForgotten
StartsAfresh == Broker!StartsAfresh

\* The handler returns nil before the block is processed, and the broker deletes
\* the message: from then on only the process's memory has it.  Every publication
\* the handler took is still there, or its block was claimed, or it was lost in
\* one of three ways: a full inbox, a death, a claim that failed.
Claimed(h) == life[h] # "absent"
BlockClaimed(i) == Wellformed(i) /\ Claimed(sent[i].block)
TakenIsAccountedFor ==
    \A i \in handled : \/ i \in WaitingIds \cup JobIds
                       \/ i \in lost
                       \/ BlockClaimed(i)

\* Whichever message of a block comes first decides what is indexed, for good: a
\* claimed block has all its transactions, when a restored message won, or none
\* of its own and at most its successor's, when a live one did.  Redelivery and
\* the restore do not mend it.
ContentIsRestoredOrLive ==
    \A h \in Height : Claimed(h) =>
        /\ content[h].height = h
        /\ \/ content[h].txs = TxHeights \cap {h}
           \/ h > FirstTip /\ content[h].txs \subseteq TxHeights \cap {h + 1}
ContentStays == [][\A h \in Height : Claimed(h) => content'[h] = content[h]]_vars

\* A message in the process's queue is worked off, however often polling or
\* deleting fails and whatever foreign messages stay in the queue: its block is
\* claimed, or the message meets one of the named losses.
QueuedIsSettled ==
    \A i \in 1 .. MaxSent :
        (i \in visible /\ Wellformed(i))
            ~> \/ i \in missed \cup lost
               \/ BlockClaimed(i)
===========================================================================
