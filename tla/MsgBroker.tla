----------------------------- MODULE MsgBroker -----------------------------
(***************************************************************************)
(* src/externals/msgbroker: one topic of SNS, and the SQS queue to which a  *)
(* started process subscribes itself.  The client's calls and its poller    *)
(* are translated from msgbroker_localstack.go; what SNS and SQS do is       *)
(* external: a message goes to the queues subscribed when it is published,   *)
(* a received message is hidden for the visibility timeout, and a message    *)
(* that is not deleted stays for the retention period.  A standard queue     *)
(* keeps no order.  Publications are named by their positions in sent.       *)
(***************************************************************************)
EXTENDS Naturals, Sequences, FiniteSets

CONSTANTS Body,        \* what a message can carry
          MaxSent,     \* bound: publications
          MaxReceive,  \* messages of one ReceiveMessage (10 in the code)
          MaxFailures  \* bound: failing calls of the subscriber

VARIABLES sent,        \* what the topic accepted
          queue,       \* the process: "starting", polls its "open" queue, "deaf"
          opened,      \* how much was sent before its queue was subscribed
          visible,     \* publications in its queue
          inFlight,    \* publications in its queue, received and hidden
          batch,       \* received ones its poller has still to process
          handling,    \* the one whose handler returned nil, 0 for none
          failures,
          handled,     \* history: publications some handler returned nil for
          missed       \* history: publications that expired, or are in queues
                       \* that nobody polls

queueVars == <<visible, inFlight>>
pollerVars == <<batch, handling>>
processVars == <<queue, opened>>
vars == <<sent, processVars, queueVars, pollerVars, failures, handled, missed>>

Init == /\ sent = << >>
        /\ queue = "starting" /\ opened = 0
        /\ visible = {} /\ inFlight = {}
        /\ batch = {} /\ handling = 0
        /\ failures = 0
        /\ handled = {} /\ missed = {}

Publication == 1 .. Len(sent)
Failure == failures < MaxFailures /\ failures' = failures + 1
NoFailure == UNCHANGED failures

---------------------------------------------------------------------------
(* The publisher                                                           *)

\* Every subscribed queue gets a copy, those of earlier runs too.
Publish(b) ==
    /\ Len(sent) < MaxSent
    /\ sent' = Append(sent, b)
    /\ IF queue = "open"
       THEN visible' = visible \cup {Len(sent) + 1} /\ UNCHANGED missed
       ELSE missed' = missed \cup {Len(sent) + 1} /\ UNCHANGED visible
    /\ UNCHANGED <<processVars, inFlight, pollerVars, handled>> /\ NoFailure

---------------------------------------------------------------------------
(* The subscriber: Subscribe, pollMessages, processMessage                 *)

\* createQueue with a name of its own, then subscribeQueueToTopic.  An error of
\* either ends Subscribe, with or without a queue that is left behind; nobody
\* looks at the error, and the process runs on without a poller.
Subscribe ==
    /\ queue = "starting"
    /\ \/ NoFailure /\ queue' = "open" /\ opened' = Len(sent)
       \/ Failure /\ queue' = "deaf" /\ UNCHANGED opened
    /\ UNCHANGED <<sent, queueVars, pollerVars, handled, missed>>

Polling == queue = "open" /\ batch = {} /\ handling = 0

Receive(S) ==
    /\ Polling /\ S \subseteq visible /\ S # {} /\ Cardinality(S) <= MaxReceive
    /\ visible' = visible \ S /\ inFlight' = inFlight \cup S
    /\ batch' = S
    /\ UNCHANGED <<sent, processVars, handling, handled, missed>> /\ NoFailure

\* ReceiveMessage returns an error although the queue handed messages out: they
\* are hidden, and the poller sleeps and polls again.
ReceiveFails(S) ==
    /\ Polling /\ S \subseteq visible /\ S # {} /\ Cardinality(S) <= MaxReceive
    /\ Failure
    /\ visible' = visible \ S /\ inFlight' = inFlight \cup S
    /\ UNCHANGED <<sent, processVars, pollerVars, handled, missed>>

\* The handler returns nil.
Handle(i) ==
    /\ i \in batch /\ handling = 0
    /\ handling' = i /\ handled' = handled \cup {i}
    /\ UNCHANGED <<sent, processVars, queueVars, batch, missed>> /\ NoFailure

\* Variants for mutation runs: the message is deleted anyway; the poller's
\* goroutine returns.
RejectAndDelete(i) ==
    /\ i \in batch /\ handling = 0
    /\ batch' = batch \ {i} /\ inFlight' = inFlight \ {i}
    /\ UNCHANGED <<sent, processVars, visible, handling, handled, missed>> /\ NoFailure

RejectAndStop(i) ==
    /\ i \in batch /\ handling = 0
    /\ batch' = {} /\ queue' = "deaf"
    /\ UNCHANGED <<sent, opened, queueVars, handling, handled, missed>> /\ NoFailure

\* The handler returns an error: the message is not deleted.
Reject(i) ==
    /\ i \in batch /\ handling = 0
    /\ batch' = batch \ {i}
    /\ UNCHANGED <<sent, processVars, queueVars, handling, handled, missed>> /\ NoFailure

\* DeleteMessage.  A message that is visible again may outlive a receipt handle
\* of its earlier delivery; an error is only logged.
Delete ==
    /\ handling # 0
    /\ \/ NoFailure /\ visible' = visible \ {handling} /\ inFlight' = inFlight \ {handling}
       \/ NoFailure /\ handling \notin inFlight /\ UNCHANGED queueVars
       \/ Failure /\ UNCHANGED queueVars
    /\ batch' = batch \ {handling} /\ handling' = 0
    /\ UNCHANGED <<sent, processVars, handled, missed>>

\* Variant for a mutation run: the queue's name does not have the time in it,
\* so a restarted process subscribes the queue of the earlier run again.
KeepsQueue ==
    /\ queue' = "starting"
    /\ batch' = {} /\ handling' = 0
    /\ UNCHANGED <<sent, opened, queueVars, handled, missed>> /\ NoFailure

\* The process dies and is started again.  Its queue stays subscribed, unread.
Restart ==
    /\ queue' = "starting"
    /\ batch' = {} /\ handling' = 0
    /\ missed' = missed \cup visible \cup inFlight
    /\ visible' = {} /\ inFlight' = {}
    /\ UNCHANGED <<sent, opened, handled>> /\ NoFailure

---------------------------------------------------------------------------
(* The queue                                                               *)

\* The visibility timeout: the message was not deleted within 30 s.
Reappear(i) ==
    /\ i \in inFlight
    /\ inFlight' = inFlight \ {i} /\ visible' = visible \cup {i}
    /\ UNCHANGED <<sent, processVars, pollerVars, handled, missed>> /\ NoFailure

\* The retention period: the message was not deleted within the hour.
Expire(i) ==
    /\ i \in visible \cup inFlight
    /\ visible' = visible \ {i} /\ inFlight' = inFlight \ {i}
    /\ missed' = missed \cup {i}
    /\ UNCHANGED <<sent, processVars, pollerVars, handled>> /\ NoFailure

---------------------------------------------------------------------------
(* Properties                                                              *)

TypeOK ==
    /\ sent \in Seq(Body) /\ opened \in 0 .. Len(sent) /\ failures \in Nat
    /\ queue \in {"starting", "open", "deaf"}
    /\ handling \in Publication \cup {0}
    /\ \A S \in {visible, inFlight, batch, handled, missed} : S \subseteq Publication

\* At least once: whatever call fails, whatever times out, and however messages
\* are redelivered, a publication leaves the process's queue only after a
\* handler returned nil for it, or because it expired or the process died.
NoneForgotten == Publication \subseteq visible \cup inFlight \cup handled \cup missed

\* Every start subscribes a queue of its own: a process is given nothing that
\* was published before it subscribed, however much of that was never handled.
StartsAfresh == visible \cup inFlight \cup batch \subseteq opened + 1 .. Len(sent)
===========================================================================
