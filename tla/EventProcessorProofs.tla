----------------------- MODULE EventProcessorProofs -----------------------
(***************************************************************************)
(* Proofs about EventProcessor, for every set of messages and workers and  *)
(* every value of the bounds.                                              *)
(***************************************************************************)
EXTENDS EventProcessor, TLAPS

---------------------------------------------------------------------------
(* The loop invariant: what a worker knows of its position                 *)

Handling == {"getFrom", "addFrom", "getTo", "addTo", "incFrom", "incTo"}

Parsed(e) == IsTransfer(e) => e.value \in Int

WorkerOK(w) ==
    /\ pc[w] \notin {"idle", "stopped"} => /\ msg[w] \in Messages
                                           /\ ti[w] > 0 /\ ei[w] > 0
    /\ pc[w] \in {"addBlock", "addTransactions"} => ei[w] = 1
    /\ pc[w] \in Handling =>
         /\ MoreEvents(w)
         /\ ~Skipped(CurrentEvent(w)) /\ CurrentEvent(w).value # BadValue
    /\ pc[w] = "addTransfers" => MoreTxs(w) /\ ~MoreEvents(w)
    /\ MoreTxs(w) /\ pc[w] \in Owning =>
         \A j \in 1 .. Len(CurrentTx(w).events) :
             j < ei[w] => Parsed(CurrentTx(w).events[j])

LoopOK == \A w \in Worker : WorkerOK(w)

\* A transaction and its events, picked out of a message, are well-typed.
LEMMA MessageShape ==
    ASSUME NEW m \in Messages
    PROVE  /\ m.height \in Height
           /\ m.txs \in Seq(Tx)
           /\ \A i \in 1 .. Len(m.txs) :
                /\ m.txs[i] \in Tx
                /\ m.txs[i].hash \in Hash
                /\ m.txs[i].events \in Seq(Event)
                /\ \A j \in 1 .. Len(m.txs[i].events) : m.txs[i].events[j] \in Event
<1>1. m \in Message
  BY MessagesAssumption
<1>2. m.height \in Height /\ m.txs \in Seq(Tx)
  BY <1>1 DEF Message
<1>3. ASSUME NEW i \in 1 .. Len(m.txs)
      PROVE  m.txs[i] \in Tx /\ m.txs[i].hash \in Hash /\ m.txs[i].events \in Seq(Event)
  <2>1. m.txs[i] \in Tx
    BY <1>2
  <2>. QED BY <2>1 DEF Tx
<1>4. ASSUME NEW i \in 1 .. Len(m.txs), NEW j \in 1 .. Len(m.txs[i].events)
      PROVE  m.txs[i].events[j] \in Event
  BY <1>3
<1>. QED BY <1>2, <1>3, <1>4

\* A step that changes the loop variables of w alone keeps the other workers'
\* part of the loop invariant.
LEMMA OneWorkerMoves ==
    ASSUME LoopOK, NEW w \in Worker, WorkerOK(w)',
           \A v \in Worker \ {w} : /\ pc'[v] = pc[v] /\ msg'[v] = msg[v]
                                   /\ ti'[v] = ti[v] /\ ei'[v] = ei[v]
    PROVE  LoopOK'
<1>1. ASSUME NEW v \in Worker, v # w
      PROVE  WorkerOK(v)'
  <2>1. pc'[v] = pc[v] /\ msg'[v] = msg[v] /\ ti'[v] = ti[v] /\ ei'[v] = ei[v]
    BY <1>1
  <2>2. WorkerOK(v)
    BY DEF LoopOK
  <2>. QED
    BY <2>1, <2>2 DEF WorkerOK, MoreTxs, MoreEvents, CurrentTx, CurrentEvent
<1>. QED BY <1>1 DEF LoopOK

LEMMA LeaveLoop ==
    ASSUME LoopTypes, LoopOK, NEW w \in Worker, Leave(w)
    PROVE  LoopTypes' /\ LoopOK'
<1>1. LoopTypes'
  BY DEF LoopTypes, Leave, WorkerSteps, Owning, RepositoryCalls
<1>2. pc'[w] = "idle"
  BY DEF LoopTypes, Leave
<1>3. WorkerOK(w)'
  BY <1>2 DEF WorkerOK, Handling, Owning, RepositoryCalls
<1>. QED BY <1>1, <1>3, OneWorkerMoves DEF Leave, LoopTypes

\* The steps on which a worker goes on within the same event or transaction.
LEMMA GotoLoop ==
    ASSUME LoopTypes, LoopOK, NEW w \in Worker, NEW s, Goto(w, s),
           s \in Handling \cup {"addTransactions", "parse", "addTransfers"},
           pc[w] \in Owning \/ (ei[w] = 1 /\ pc[w] = "addBlock"),
           s = "addTransactions" => ei[w] = 1,
           s \in Handling => /\ MoreEvents(w) /\ ~Skipped(CurrentEvent(w))
                            /\ CurrentEvent(w).value # BadValue,
           s = "addTransfers" => MoreTxs(w) /\ ~MoreEvents(w)
    PROVE  LoopTypes' /\ LoopOK'
<1>1. LoopTypes'
  BY DEF LoopTypes, Goto, WorkerSteps, Owning, RepositoryCalls, Handling
<1>2. /\ pc'[w] = s /\ msg'[w] = msg[w] /\ ti'[w] = ti[w] /\ ei'[w] = ei[w]
      /\ msg[w] \in Messages /\ ti[w] \in Nat /\ ei[w] \in Nat /\ ti[w] > 0 /\ ei[w] > 0
  BY DEF LoopTypes, Goto, LoopOK, WorkerOK, Owning, RepositoryCalls
<1>3. MoreTxs(w) => \A j \in 1 .. Len(CurrentTx(w).events) :
                        j < ei[w] => Parsed(CurrentTx(w).events[j])
  BY <1>2 DEF LoopOK, WorkerOK
<1>4. WorkerOK(w)'
  BY <1>2, <1>3 DEF WorkerOK, MoreTxs, MoreEvents, CurrentTx, CurrentEvent, Handling
<1>. QED BY <1>1, <1>4, OneWorkerMoves DEF Goto, LoopTypes

\* An event that was handled, or skipped, has a value that parsed.
LEMMA NextEventLoop ==
    ASSUME LoopTypes, LoopOK, NEW w \in Worker, NextEvent(w), pc[w] \in Owning,
           MoreEvents(w), Parsed(CurrentEvent(w))
    PROVE  LoopTypes' /\ LoopOK'
<1>1. LoopTypes'
  BY DEF LoopTypes, NextEvent, WorkerSteps, Owning
<1>2. /\ pc'[w] = "parse" /\ msg'[w] = msg[w] /\ ti'[w] = ti[w] /\ ei'[w] = ei[w] + 1
      /\ msg[w] \in Messages /\ ti[w] \in Nat /\ ei[w] \in Nat /\ ti[w] > 0 /\ ei[w] > 0
  BY DEF LoopTypes, NextEvent, LoopOK, WorkerOK, Owning, RepositoryCalls
<1>3. ASSUME NEW j \in 1 .. Len(CurrentTx(w).events), j < ei[w] + 1
      PROVE  Parsed(CurrentTx(w).events[j])
  <2>1. CASE j = ei[w]
    BY <2>1 DEF CurrentEvent
  <2>2. CASE j # ei[w]
    <3>1. j < ei[w]
      BY <1>2, <1>3, <2>2
    <3>. QED BY <3>1 DEF LoopOK, WorkerOK, MoreEvents
  <2>. QED BY <2>1, <2>2
<1>4. WorkerOK(w)'
  BY <1>2, <1>3 DEF WorkerOK, CurrentTx, MoreTxs, Handling
<1>. QED BY <1>1, <1>4, OneWorkerMoves DEF NextEvent, LoopTypes

LEMMA NextTxLoop ==
    ASSUME LoopTypes, LoopOK, NEW w \in Worker, NextTx(w), pc[w] \in Owning
    PROVE  LoopTypes' /\ LoopOK'
<1>1. LoopTypes'
  BY DEF LoopTypes, NextTx, WorkerSteps, Owning
<1>2. /\ pc'[w] = "parse" /\ msg'[w] = msg[w] /\ ti'[w] = ti[w] + 1 /\ ei'[w] = 1
      /\ msg[w] \in Messages /\ ti[w] \in Nat
  BY DEF LoopTypes, NextTx, LoopOK, WorkerOK, Owning, RepositoryCalls
<1>4. WorkerOK(w)'
  BY <1>2 DEF WorkerOK, Handling
<1>. QED BY <1>1, <1>4, OneWorkerMoves DEF NextTx, LoopTypes

---------------------------------------------------------------------------
(* The tables keep their types                                             *)

LEMMA IncrementTypes ==
    ASSUME accounts \subseteq AccountRow, NEW a, NEW t, NEW d \in Int,
           IncrementAccountBalance(a, t, d)
    PROVE  accounts' \subseteq AccountRow
BY DEF IncrementAccountBalance, AccountRow

LEMMA InsertTypes ==
    ASSUME accounts \subseteq AccountRow, NEW a \in Address \cup {NoAddress},
           NEW t \in Token \cup {NoToken}, AddAccountAllowed(a, t), InsertAccount(a, t)
    PROVE  accounts' \subseteq AccountRow
BY DEF InsertAccount, AddAccountAllowed, AccountRow

LEMMA ToLowerName == ASSUME NEW s \in Name PROVE ToLower(s) \in Name
BY NameAssumption DEF ToLower

\* The rows of a transaction whose transfer events all parsed, once allowed.
LEMMA RowTypes ==
    ASSUME NEW tx \in Tx, AddTransfersAllowed(TransferRows(tx)),
           \A j \in 1 .. Len(tx.events) : Parsed(tx.events[j])
    PROVE  TransferRows(tx) \in SUBSET TransferRow
<1>. SUFFICES ASSUME NEW r \in TransferRows(tx) PROVE r \in TransferRow
  OBVIOUS
<1>1. tx.events \in Seq(Event)
  BY DEF Tx
<1>2. PICK i \in 1 .. Len(tx.events) :
        /\ IsTransfer(tx.events[i])
        /\ r = [event |-> i, func |-> Func(tx.events[i]), from |-> tx.events[i].from,
                to |-> tx.events[i].to, token |-> tx.events[i].token,
                amount |-> tx.events[i].value]
  BY <1>1 DEF TransferRows
<1>3. tx.events[i] \in Event /\ tx.events[i].value \in Int
  BY <1>1, <1>2 DEF Parsed
<1>4. r.amount > 0 /\ r.token # NoToken
  BY DEF AddTransfersAllowed
<1>5. Func(tx.events[i]) \in Name
  BY <1>3, ToLowerName DEF Func, Event
<1>. QED BY <1>2, <1>3, <1>4, <1>5 DEF TransferRow, Event

---------------------------------------------------------------------------
(* Type correctness                                                        *)

TypeInv == TypeOK /\ LoopOK

LEMMA SkippedIsParsed ==
    ASSUME NEW e \in Event, Skipped(e) \/ e.value # BadValue
    PROVE  Parsed(e)
BY DEF Parsed, Skipped, Event

\* What a worker that handles an event holds.
LEMMA HandlingFacts ==
    ASSUME TypeInv, NEW w \in Worker, pc[w] \in Handling
    PROVE  /\ MoreTxs(w) /\ MoreEvents(w) /\ msg[w] \in Messages
           /\ ~Skipped(CurrentEvent(w)) /\ CurrentEvent(w).value # BadValue
           /\ CurrentEvent(w) \in Event /\ CurrentEvent(w).value \in Int
           /\ Parsed(CurrentEvent(w)) /\ HeightOf(w) \in Height
<1>1. /\ MoreEvents(w) /\ msg[w] \in Messages /\ ti[w] \in Nat /\ ei[w] \in Nat
      /\ ti[w] > 0 /\ ei[w] > 0
      /\ ~Skipped(CurrentEvent(w)) /\ CurrentEvent(w).value # BadValue
  BY DEF TypeInv, TypeOK, LoopTypes, LoopOK, WorkerOK, Handling
<1>2. MoreTxs(w) /\ ti[w] \in 1 .. Len(msg[w].txs)
  BY <1>1, MessageShape DEF MoreEvents, MoreTxs
<1>3. CurrentEvent(w) \in Event
  <2>1. ei[w] \in 1 .. Len(msg[w].txs[ti[w]].events)
    BY <1>1, <1>2, MessageShape DEF MoreEvents, CurrentTx
  <2>. QED BY <1>1, <1>2, <2>1, MessageShape DEF CurrentEvent, CurrentTx
<1>4. CurrentEvent(w).value \in Int
  BY <1>1, <1>3 DEF Event
<1>. QED BY <1>1, <1>2, <1>3, <1>4, MessageShape DEF Parsed, HeightOf

LEMMA EmptyQueue == << >> \in Seq(Messages) /\ Len(<< >>) <= WorkChCap
<1>1. << >> \in Seq(Messages)
  OBVIOUS
<1>2. Len(<< >>) = 0
  OBVIOUS
<1>. QED BY <1>1, <1>2, BoundsAssumption

LEMMA TypeInvInit == Init => TypeInv
<1>. SUFFICES ASSUME Init PROVE TypeInv
  OBVIOUS
<1>1. TableTypes
  BY DEF Init, DBInit, TableTypes
<1>2. ChannelTypes
  BY EmptyQueue DEF Init, ChannelTypes
<1>3. LoopTypes
  BY DEF Init, LoopTypes, WorkerSteps
<1>4. HistoryTypes
  BY DEF Init, HistoryTypes
<1>5. LoopOK
  BY DEF Init, LoopOK, WorkerOK, Handling, Owning, RepositoryCalls
<1>. QED BY <1>1, <1>2, <1>3, <1>4, <1>5 DEF TypeInv, TypeOK

\* The steps of the subscription, of the context and of the process.
LEMMA EnvironmentTypes ==
    ASSUME TypeInv, Environment \/ CloseWorkCh
    PROVE  TypeInv'
<1>. USE DEF TypeInv, TypeOK
<1>1. ASSUME UNCHANGED loopVars
      PROVE  LoopTypes' /\ LoopOK'
  <2>1. ASSUME NEW w \in Worker PROVE WorkerOK(w)'
    BY <1>1 DEF LoopOK, WorkerOK, loopVars, MoreTxs, MoreEvents, CurrentTx, CurrentEvent
  <2>. QED BY <1>1, <2>1 DEF LoopTypes, LoopOK, loopVars
<1>2. ASSUME NEW m \in Messages, Deliver(m) PROVE TypeInv'
  <2>1. ChannelTypes'
    BY <1>2, BoundsAssumption DEF Deliver, ChannelTypes
  <2>2. TableTypes' /\ HistoryTypes'
    BY <1>2 DEF Deliver, TableTypes, HistoryTypes, dbVars, history
  <2>. QED BY <1>1, <1>2, <2>1, <2>2 DEF Deliver
<1>3. CASE Cancel \/ CloseWorkCh
  <2>1. ChannelTypes' /\ TableTypes' /\ HistoryTypes'
    BY <1>3 DEF Cancel, CloseWorkCh, ChannelTypes, TableTypes, HistoryTypes, dbVars,
                boundVars, history
  <2>. QED BY <1>1, <1>3, <2>1 DEF Cancel, CloseWorkCh
<1>4. CASE Crash \/ SendOnClosed
  <2>1. TableTypes' /\ HistoryTypes'
    BY <1>4 DEF Crash, SendOnClosed, Restart, TableTypes, HistoryTypes, dbVars, history
  <2>2. ChannelTypes'
    BY <1>4, EmptyQueue DEF Crash, SendOnClosed, Restart, ChannelTypes
  <2>3. LoopTypes' /\ LoopOK'
    BY <1>4 DEF Crash, SendOnClosed, Restart, LoopTypes, WorkerSteps, LoopOK, WorkerOK,
                Handling, Owning, RepositoryCalls
  <2>. QED BY <2>1, <2>2, <2>3
<1>. QED BY <1>2, <1>3, <1>4 DEF Environment

\* The repository steps change one table each, and keep the loop variables of
\* the others; a failing call leaves the loops at rest.
LEMMA FailsTypes ==
    ASSUME TypeInv, NEW w \in Worker, Fails(w)
    PROVE  LoopTypes' /\ LoopOK' /\ faults' \in Nat
<1>1. Leave(w) /\ faults' \in Nat
  BY DEF Fails, TypeInv, TypeOK, HistoryTypes
<1>. QED BY <1>1, LeaveLoop DEF TypeInv, TypeOK

\* A worker that holds a message, and the height and transactions it holds.
LEMMA HeldFacts ==
    ASSUME TypeInv, NEW w \in Worker, pc[w] \notin {"idle", "stopped"}
    PROVE  /\ msg[w] \in Messages /\ HeightOf(w) \in Height
           /\ msg[w].txs \in Seq(Tx)
           /\ MoreTxs(w) => /\ CurrentTx(w) \in Tx /\ CurrentTx(w).hash \in Hash
                            /\ CurrentTx(w).events \in Seq(Event)
           /\ MoreEvents(w) => CurrentEvent(w) \in Event
<1>1. msg[w] \in Messages /\ ti[w] \in Nat /\ ti[w] > 0 /\ ei[w] \in Nat /\ ei[w] > 0
  BY DEF TypeInv, TypeOK, LoopTypes, LoopOK, WorkerOK
<1>2. MoreTxs(w) => ti[w] \in 1 .. Len(msg[w].txs)
  BY <1>1, MessageShape DEF MoreTxs
<1>3. MoreTxs(w) => CurrentTx(w) \in Tx /\ CurrentTx(w).hash \in Hash
                    /\ CurrentTx(w).events \in Seq(Event)
  BY <1>1, <1>2, MessageShape DEF CurrentTx
<1>4. ASSUME MoreEvents(w) PROVE CurrentEvent(w) \in Event
  <2>1. MoreTxs(w) /\ ei[w] \in 1 .. Len(CurrentTx(w).events)
    BY <1>1, <1>3, <1>4 DEF MoreEvents
  <2>. QED BY <1>3, <2>1 DEF CurrentEvent
<1>. QED BY <1>1, <1>3, <1>4, MessageShape DEF HeightOf

\* messageWorker and ProcessBlockWithTransactions.
LEMMA WorkerLoopTypes ==
    ASSUME TypeInv, NEW w \in Worker,
           \/ TakeJob(w) \/ StopWorker(w) \/ CallFails(w)
           \/ AddBlock(w) \/ SkipBlock(w) \/ AddTransactions(w)
    PROVE  TypeInv'
<1>. USE DEF TypeInv, TypeOK
<1>1. CASE TakeJob(w)
  <2>1. Head(workCh) \in Messages /\ Tail(workCh) \in Seq(Messages)
        /\ Len(Tail(workCh)) <= WorkChCap
    BY <1>1, BoundsAssumption DEF TakeJob, ChannelTypes
  <2>2. LoopTypes'
    BY <1>1, <2>1 DEF TakeJob, LoopTypes, WorkerSteps
  <2>3. pc'[w] = "addBlock" /\ msg'[w] \in Messages /\ ti'[w] = 1 /\ ei'[w] = 1
    BY <1>1, <2>1 DEF TakeJob, LoopTypes
  <2>4. WorkerOK(w)'
    BY <2>3 DEF WorkerOK, Handling, Owning, RepositoryCalls
  <2>5. LoopOK'
    BY <1>1, <2>4, OneWorkerMoves DEF TakeJob, LoopTypes
  <2>6. ChannelTypes'
    BY <1>1, <2>1 DEF TakeJob, ChannelTypes
  <2>7. TableTypes' /\ HistoryTypes'
    BY <1>1 DEF TakeJob, TableTypes, HistoryTypes, dbVars, boundVars, history
  <2>. QED BY <2>2, <2>5, <2>6, <2>7
<1>2. ASSUME ~TakeJob(w) PROVE ChannelTypes'
  BY <1>2 DEF StopWorker, CallFails, AddBlock, SkipBlock, AddTransactions, WorkerFrame,
              chanVars, ChannelTypes
<1>3. CASE StopWorker(w)
  <2>1. LoopTypes' /\ pc'[w] = "stopped"
    BY <1>3 DEF StopWorker, Goto, LoopTypes, WorkerSteps
  <2>2. WorkerOK(w)'
    BY <2>1 DEF WorkerOK, Handling, Owning, RepositoryCalls
  <2>3. LoopOK'
    BY <1>3, <2>2, OneWorkerMoves DEF StopWorker, Goto, LoopTypes
  <2>4. TableTypes' /\ HistoryTypes' /\ ~TakeJob(w)
    BY <1>3 DEF StopWorker, TakeJob, WorkerFrame, TableTypes, HistoryTypes, dbVars, history,
                Goto, LoopTypes
  <2>. QED BY <1>2, <2>1, <2>3, <2>4
<1>4. CASE CallFails(w)
  <2>1. TableTypes' /\ HistoryTypes' /\ ~TakeJob(w)
    BY <1>4, FailsTypes DEF CallFails, TakeJob, RepositoryCalls, WorkerFrame, TableTypes,
                            HistoryTypes, dbVars, history
  <2>. QED BY <1>2, <1>4, <2>1, FailsTypes DEF CallFails
<1>5. CASE AddBlock(w)
  <2>1. /\ pc[w] = "addBlock" /\ msg[w] \in Messages /\ HeightOf(w) \in Height
        /\ ei[w] = 1 /\ ~TakeJob(w)
    BY <1>5, HeldFacts DEF AddBlock, TakeJob, LoopOK, WorkerOK
  <2>2. LoopTypes' /\ LoopOK' /\ faults' \in Nat
    <3>1. CASE Succeeds /\ Goto(w, IF msg[w].txs = << >> THEN "parse" ELSE "addTransactions")
      BY <2>1, <3>1, GotoLoop DEF Succeeds, HistoryTypes, Handling
    <3>. QED BY <1>5, <3>1, FailsTypes DEF AddBlock
  <2>3. TableTypes' /\ HistoryTypes'
    BY <1>5, <2>1, <2>2 DEF AddBlock, InsertBlock, WorkerFrame, TableTypes, HistoryTypes
  <2>. QED BY <1>2, <2>1, <2>2, <2>3
<1>6. CASE SkipBlock(w)
  <2>1. TableTypes' /\ HistoryTypes' /\ ~TakeJob(w)
    BY <1>6 DEF SkipBlock, TakeJob, Succeeds, WorkerFrame, TableTypes, HistoryTypes,
                dbVars, history
  <2>. QED BY <1>2, <1>6, <2>1, LeaveLoop DEF SkipBlock
<1>7. CASE AddTransactions(w)
  <2>1. /\ pc[w] = "addTransactions" /\ HeightOf(w) \in Height /\ msg[w].txs \in Seq(Tx)
        /\ ~TakeJob(w) /\ pc[w] \in Owning
    BY <1>7, HeldFacts DEF AddTransactions, TakeJob, Owning, RepositoryCalls
  <2>2. LoopTypes' /\ LoopOK' /\ faults' \in Nat
    <3>1. CASE Succeeds /\ Goto(w, "parse")
      BY <2>1, <3>1, GotoLoop DEF Succeeds, HistoryTypes, Handling
    <3>. QED BY <1>7, <3>1, FailsTypes DEF AddTransactions
  <2>3. TableTypes' /\ HistoryTypes'
    BY <1>7, <2>1, <2>2 DEF AddTransactions, InsertTransactions, WorkerFrame, TableTypes,
                            HistoryTypes, history
  <2>. QED BY <1>2, <2>1, <2>2, <2>3
<1>. QED BY <1>1, <1>3, <1>4, <1>5, <1>6, <1>7

\* parseAndProcessTransactions.
LEMMA ParseTypes ==
    ASSUME TypeInv, NEW w \in Worker,
           \/ FinishBlock(w) \/ EndOfEvents(w) \/ SkipEvent(w)
           \/ RejectValue(w) \/ BeginEvent(w)
    PROVE  TypeInv'
<1>. USE DEF TypeInv, TypeOK
<1>0. /\ pc[w] = "parse" /\ HeightOf(w) \in Height /\ Parsing(w) /\ pc[w] \in Owning
      /\ MoreEvents(w) => CurrentEvent(w) \in Event
  BY HeldFacts DEF FinishBlock, EndOfEvents, SkipEvent, RejectValue, BeginEvent, Parsing, Owning
<1>1. TableTypes' /\ ChannelTypes'
  BY <1>0 DEF Parsing, WorkerFrame, TableTypes, ChannelTypes, dbVars, chanVars
<1>2. HistoryTypes'
  BY <1>0 DEF Parsing, WorkerFrame, HistoryTypes, FinishBlock, EndOfEvents, SkipEvent,
              RejectValue, BeginEvent
<1>3. LoopTypes' /\ LoopOK'
  <2>1. CASE FinishBlock(w) \/ RejectValue(w)
    BY <2>1, LeaveLoop DEF FinishBlock, RejectValue
  <2>2. CASE EndOfEvents(w)
    BY <1>0, <2>2, NextTxLoop, GotoLoop DEF EndOfEvents, Handling
  <2>3. CASE SkipEvent(w)
    BY <1>0, <2>3, NextEventLoop, SkippedIsParsed DEF SkipEvent
  <2>4. CASE BeginEvent(w)
    BY <1>0, <2>4, GotoLoop DEF BeginEvent, Handling
  <2>. QED BY <2>1, <2>2, <2>3, <2>4
<1>. QED BY <1>1, <1>2, <1>3

\* The handlers' calls and AddTransfers.
LEMMA HandlerTypes ==
    ASSUME TypeInv, NEW w \in Worker,
           \/ GetFrom(w) \/ AddFrom(w) \/ GetTo(w) \/ AddTo(w)
           \/ IncFrom(w) \/ IncTo(w) \/ AddTransfers(w)
    PROVE  TypeInv'
<1>. USE DEF TypeInv, TypeOK
<1>1. pc[w] \in Owning /\ pc[w] \notin {"idle", "stopped"} /\ HeightOf(w) \in Height
  BY HeldFacts DEF GetFrom, AddFrom, GetTo, AddTo, IncFrom, IncTo, AddTransfers, Owning,
                   RepositoryCalls
<1>2. ChannelTypes'
  BY DEF GetFrom, AddFrom, GetTo, AddTo, IncFrom, IncTo, AddTransfers, GetAccount, AddAccount,
         Increment, WorkerFrame, chanVars, ChannelTypes
<1>3. ASSUME NEW s \in Handling, pc[w] \in Handling, Succeeds, Goto(w, s)
      PROVE  LoopTypes' /\ LoopOK' /\ faults' \in Nat
  BY <1>1, <1>3, HandlingFacts, GotoLoop DEF Handling, Succeeds, HistoryTypes
<1>4. ASSUME Leave(w), UNCHANGED faults
      PROVE  LoopTypes' /\ LoopOK' /\ faults' \in Nat
  BY <1>4, LeaveLoop DEF HistoryTypes
<1>5. /\ AfterFrom(w) \in Handling /\ AfterTo(w) \in Handling
      /\ "addFrom" \in Handling /\ "addTo" \in Handling
  BY DEF AfterFrom, AfterTo, Handling
<1>6. CASE GetFrom(w) \/ GetTo(w)
  <2>1. TableTypes' /\ HistoryTypes' /\ pc[w] \in Handling
    BY <1>6 DEF GetFrom, GetTo, GetAccount, Succeeds, WorkerFrame, TableTypes, HistoryTypes,
                dbVars, history, Handling
  <2>2. LoopTypes' /\ LoopOK'
    BY <1>3, <1>4, <1>5, <1>6, <2>1 DEF GetFrom, GetTo, GetAccount, Succeeds
  <2>. QED BY <1>2, <2>1, <2>2
<1>7. ASSUME NEW a \in Address \cup {NoAddress}, NEW s \in Handling, pc[w] \in Handling,
             AddAccount(w, a, s)
      PROVE  TypeInv'
  <2>1. LoopTypes' /\ LoopOK' /\ faults' \in Nat
    BY <1>3, <1>4, <1>7, FailsTypes DEF AddAccount
  <2>2. TokenOf(w) \in Token \cup {NoToken}
    BY <1>7, HandlingFacts DEF TokenOf, Event
  <2>3. accounts' \subseteq AccountRow
    BY <1>7, <2>2, InsertTypes DEF AddAccount, TableTypes
  <2>4. TableTypes' /\ HistoryTypes'
    BY <1>7, <2>1, <2>3 DEF AddAccount, WorkerFrame, TableTypes, HistoryTypes, history
  <2>. QED BY <1>2, <2>1, <2>4
<1>8. CASE AddFrom(w) \/ AddTo(w)
  <2>1. pc[w] \in Handling
    BY <1>8 DEF AddFrom, AddTo, Handling
  <2>2. From(w) \in Address \cup {NoAddress} /\ To(w) \in Address \cup {NoAddress}
    BY <2>1, HandlingFacts DEF From, To, Event
  <2>. QED BY <1>5, <1>7, <1>8, <2>1, <2>2 DEF AddFrom, AddTo
<1>9. ASSUME NEW a, NEW d \in Int, NEW last \in BOOLEAN, pc[w] \in Handling,
             Increment(w, a, d, last)
      PROVE  TypeInv'
  <2>1. MoreEvents(w) /\ Parsed(CurrentEvent(w)) /\ "incTo" \in Handling
    BY <1>9, HandlingFacts DEF Handling
  <2>2. LoopTypes' /\ LoopOK' /\ faults' \in Nat
    <3>1. CASE Succeeds /\ last /\ NextEvent(w)
      BY <1>1, <2>1, <3>1, NextEventLoop DEF Succeeds, HistoryTypes
    <3>2. CASE Succeeds /\ ~last /\ Goto(w, "incTo")
      BY <1>3, <1>9, <2>1, <3>2
    <3>. QED BY <1>9, <3>1, <3>2, FailsTypes DEF Increment
  <2>3. accounts' \subseteq AccountRow
    BY <1>9, IncrementTypes DEF Increment, TableTypes
  <2>4. TableTypes' /\ HistoryTypes'
    BY <1>1, <1>9, <2>2, <2>3 DEF Increment, WorkerFrame, TableTypes, HistoryTypes
  <2>. QED BY <1>2, <2>2, <2>4
<1>10. CASE IncFrom(w) \/ IncTo(w)
  <2>1. pc[w] \in Handling /\ CurrentEvent(w).value \in Int
    BY <1>10, HandlingFacts DEF IncFrom, IncTo, Handling
  <2>2. -CurrentEvent(w).value \in Int /\ TRUE \in BOOLEAN
        /\ (Func(CurrentEvent(w)) = "burn") \in BOOLEAN
    BY <2>1
  <2>. QED BY <1>9, <1>10, <2>1, <2>2 DEF IncFrom, IncTo
<1>11. CASE AddTransfers(w)
  <2>1. MoreTxs(w) /\ ~MoreEvents(w) /\ ei[w] \in Nat
    BY <1>11 DEF AddTransfers, LoopOK, WorkerOK, LoopTypes
  <2>2. CurrentTx(w) \in Tx /\ CurrentTx(w).hash \in Hash
    BY <1>1, <2>1, HeldFacts
  <2>3. \A j \in 1 .. Len(CurrentTx(w).events) : Parsed(CurrentTx(w).events[j])
    <3>1. ~(ei[w] <= Len(CurrentTx(w).events)) /\ Len(CurrentTx(w).events) \in Nat
      BY <1>1, <2>1, HeldFacts DEF MoreEvents
    <3>2. \A j \in 1 .. Len(CurrentTx(w).events) : j < ei[w]
      BY <2>1, <3>1
    <3>. QED BY <1>1, <2>1, <3>2 DEF LoopOK, WorkerOK
  <2>4. LoopTypes' /\ LoopOK' /\ faults' \in Nat
    <3>1. CASE Succeeds /\ NextTx(w)
      BY <1>1, <3>1, NextTxLoop DEF Succeeds, HistoryTypes
    <3>. QED BY <1>4, <1>11, <3>1, FailsTypes DEF AddTransfers
  <2>5. transfers' \in [Hash -> Seq(SUBSET TransferRow)]
    <3>1. CASE AddTransfersAllowed(TransferRows(CurrentTx(w)))
               /\ InsertTransfers(CurrentTx(w).hash, TransferRows(CurrentTx(w)))
      <4>1. TransferRows(CurrentTx(w)) \in SUBSET TransferRow
        BY <2>2, <2>3, <3>1, RowTypes
      <4>. QED BY <2>2, <3>1, <4>1 DEF InsertTransfers, TableTypes
    <3>. QED BY <1>11, <3>1 DEF AddTransfers, TableTypes
  <2>6. TableTypes' /\ HistoryTypes'
    BY <1>11, <2>4, <2>5 DEF AddTransfers, WorkerFrame, TableTypes, HistoryTypes, history
  <2>. QED BY <1>2, <2>4, <2>6
<1>. QED BY <1>6, <1>8, <1>10, <1>11

LEMMA TypeInvStep == TypeInv /\ [Next]_vars => TypeInv'
<1>. SUFFICES ASSUME TypeInv, [Next]_vars PROVE TypeInv'
  OBVIOUS
<1>1. CASE Environment \/ CloseWorkCh
  BY <1>1, EnvironmentTypes
<1>2. ASSUME NEW w \in Worker, WorkerStep(w) PROVE TypeInv'
  BY <1>2, WorkerLoopTypes, ParseTypes, HandlerTypes DEF WorkerStep
<1>3. CASE UNCHANGED vars
  <2>1. TableTypes' /\ ChannelTypes' /\ LoopTypes' /\ HistoryTypes'
    BY <1>3 DEF TypeInv, TypeOK, vars, dbVars, loopVars, chanVars, boundVars, history,
                TableTypes, ChannelTypes, LoopTypes, HistoryTypes
  <2>2. LoopOK'
    BY <1>3 DEF TypeInv, vars, loopVars, LoopOK, WorkerOK, MoreTxs, MoreEvents, CurrentTx,
                CurrentEvent
  <2>. QED BY <2>1, <2>2 DEF TypeInv, TypeOK
<1>. QED BY <1>1, <1>2, <1>3 DEF Next

\* Every reachable state is well-typed, whatever is delivered, fails or crashes:
\* in particular workCh stays within its capacity and the tables hold only
\* integers that parsed and rows with positive amounts.
THEOREM TypeCorrect == Spec => []TypeOK
<1>1. TypeInv => TypeOK
  BY DEF TypeInv
<1>. QED BY <1>1, TypeInvInit, TypeInvStep, PTL DEF Spec

---------------------------------------------------------------------------
(* Ownership of blocks                                                     *)

OwnerInv == OneOwnerPerBlock /\ indexed \subseteq blocks

\* A step after which a worker past AddBlock was so before, with its message.
KeepsOwners ==
    \A v \in Worker : pc'[v] \in Owning => pc[v] \in Owning /\ msg'[v] = msg[v]
Quiet == UNCHANGED <<blocks, claim, indexed>> /\ KeepsOwners

LEMMA LeaveKeeps ==
    ASSUME LoopTypes, NEW w \in Worker, Leave(w) PROVE KeepsOwners /\ pc'[w] = "idle"
BY DEF LoopTypes, Leave, KeepsOwners, Owning, RepositoryCalls

\* Only the two steps that insert and complete a block are not quiet.
LEMMA OwnerSteps ==
    ASSUME TypeInv, [Next]_vars
    PROVE  Quiet \/ \E w \in Worker : AddBlock(w) \/ FinishBlock(w)
<1>0. LoopTypes
  BY DEF TypeInv, TypeOK
<1>1. CASE UNCHANGED vars
  BY <1>1 DEF vars, dbVars, loopVars, history, Quiet, KeepsOwners
<1>2. CASE Environment \/ CloseWorkCh
  BY <1>0, <1>2 DEF Environment, Deliver, Cancel, Crash, SendOnClosed, Restart, CloseWorkCh,
                    LoopTypes, dbVars, loopVars, history, Quiet, KeepsOwners, Owning,
                    RepositoryCalls
<1>3. ASSUME NEW w \in Worker, WorkerStep(w), ~AddBlock(w), ~FinishBlock(w)
      PROVE  Quiet
  <2>1. UNCHANGED <<blocks, claim, indexed>>
    BY <1>3 DEF WorkerStep, TakeJob, StopWorker, CallFails, SkipBlock, AddTransactions,
                EndOfEvents, SkipEvent, RejectValue, BeginEvent, Parsing, GetFrom, AddFrom,
                GetTo, AddTo, IncFrom, IncTo, AddTransfers, GetAccount, AddAccount, Increment,
                dbVars, history
  <2>2. ASSUME pc[w] \in Owning,
               \/ Leave(w) \/ NextEvent(w) \/ NextTx(w)
               \/ \E s \in Owning : Goto(w, s)
        PROVE  KeepsOwners
    BY <1>0, <2>2, LeaveKeeps DEF LoopTypes, NextEvent, NextTx, Goto, KeepsOwners
  <2>3. CASE TakeJob(w) \/ StopWorker(w)
    BY <1>0, <2>1, <2>3 DEF TakeJob, StopWorker, Goto, LoopTypes, Quiet, KeepsOwners, Owning,
                            RepositoryCalls
  <2>4. CASE CallFails(w) \/ SkipBlock(w)
    BY <1>0, <2>1, <2>4, LeaveKeeps DEF CallFails, SkipBlock, Fails, Quiet
  <2>5. CASE AddTransactions(w) \/ EndOfEvents(w) \/ SkipEvent(w) \/ RejectValue(w)
             \/ BeginEvent(w)
    BY <2>1, <2>2, <2>5 DEF AddTransactions, EndOfEvents, SkipEvent, RejectValue, BeginEvent,
                            Parsing, Fails, Owning, RepositoryCalls, Quiet
  <2>6. CASE GetFrom(w) \/ AddFrom(w) \/ GetTo(w) \/ AddTo(w)
    BY <2>1, <2>2, <2>6 DEF GetFrom, AddFrom, GetTo, AddTo, GetAccount, AddAccount, AfterFrom,
                            AfterTo, Fails, Owning, RepositoryCalls, Quiet
  <2>7. CASE IncFrom(w) \/ IncTo(w) \/ AddTransfers(w)
    BY <2>1, <2>2, <2>7 DEF IncFrom, IncTo, AddTransfers, Increment, Fails, Owning,
                            RepositoryCalls, Quiet
  <2>. QED BY <1>3, <2>3, <2>4, <2>5, <2>6, <2>7 DEF WorkerStep
<1>. QED BY <1>1, <1>2, <1>3 DEF Next

\* What AddBlock and FinishBlock do to the owners.
LEMMA AddBlockOwners ==
    ASSUME TypeInv, NEW w \in Worker, AddBlock(w)
    PROVE  /\ HeightOf(w) \in Height \ blocks
           /\ blocks' = blocks \cup {HeightOf(w)} /\ indexed' = indexed
           /\ claim' = [claim EXCEPT ![HeightOf(w)] = msg[w]]
           /\ pc'[w] \in Owning => msg'[w] = msg[w]
           /\ \A v \in Worker \ {w} : pc'[v] = pc[v] /\ msg'[v] = msg[v]
<1>1. LoopTypes /\ HeightOf(w) \in Height
  BY HeldFacts DEF TypeInv, TypeOK, AddBlock
<1>. QED BY <1>1, LeaveKeeps DEF AddBlock, InsertBlock, BlockExists, Fails, Goto, Leave,
                                 LoopTypes, KeepsOwners

LEMMA FinishBlockOwners ==
    ASSUME TypeInv, NEW w \in Worker, FinishBlock(w)
    PROVE  /\ Owns(w, HeightOf(w)) /\ HeightOf(w) \in Height
           /\ UNCHANGED <<blocks, claim>> /\ indexed' = indexed \cup {HeightOf(w)}
           /\ KeepsOwners /\ pc'[w] \notin Owning
<1>1. LoopTypes /\ HeightOf(w) \in Height
  BY HeldFacts DEF TypeInv, TypeOK, FinishBlock, Parsing
<1>. QED BY <1>1, LeaveKeeps DEF FinishBlock, Parsing, dbVars, Owns, Owning, RepositoryCalls

LEMMA OwnerInvStep == TypeInv /\ OwnerInv /\ [Next]_vars => OwnerInv'
<1>. SUFFICES ASSUME TypeInv, OwnerInv, [Next]_vars PROVE OwnerInv'
  OBVIOUS
<1>1. CASE Quiet
  BY <1>1 DEF Quiet, KeepsOwners, OwnerInv, OneOwnerPerBlock, Owns, HeightOf
<1>2. ASSUME NEW w \in Worker, AddBlock(w) PROVE OwnerInv'
  <2>1. ASSUME NEW v \in Worker, NEW h \in Height, Owns(v, h)'
        PROVE  /\ h \in blocks' \ indexed' /\ claim'[h] = msg'[v]
               /\ \A u \in Worker : Owns(u, h)' => u = v
    <3>. USE <1>2, AddBlockOwners DEF OwnerInv, OneOwnerPerBlock, Owns, HeightOf
    <3>1. CASE v = w
      BY <2>1, <3>1 DEF TypeInv, TypeOK, HistoryTypes
    <3>2. CASE v # w
      BY <2>1, <3>2 DEF TypeInv, TypeOK, HistoryTypes
    <3>. QED BY <3>1, <3>2
  <2>. QED BY <1>2, <2>1, AddBlockOwners DEF OwnerInv, OneOwnerPerBlock
<1>3. ASSUME NEW w \in Worker, FinishBlock(w) PROVE OwnerInv'
  BY <1>3, FinishBlockOwners DEF KeepsOwners, OwnerInv, OneOwnerPerBlock, Owns, HeightOf
<1>. QED BY <1>1, <1>2, <1>3, OwnerSteps

\* At most one worker is past AddBlock for a height, the height has its row, the
\* worker holds the message that inserted it, and it was not indexed before:
\* the primary key of table blocks is all that makes redelivery harmless.
THEOREM BlocksHaveOneOwner == Spec => []OneOwnerPerBlock
<1>1. Init => OwnerInv
  BY DEF Init, DBInit, OwnerInv, OneOwnerPerBlock, Owns, Owning, RepositoryCalls
<1>2. OwnerInv => OneOwnerPerBlock
  BY DEF OwnerInv
<1>. QED BY <1>1, <1>2, OwnerInvStep, TypeInvInit, TypeInvStep, PTL DEF Spec

\* Balance updates and transaction rows are written for a block by its owner.
LEMMA WritesByOwner ==
    ASSUME TypeInv, [Next]_vars, NEW h \in Height,
           executed'[h] # executed[h] \/ transactions'[h] # transactions[h]
    PROVE  \E w \in Worker : Owns(w, h)
<1>0. executed \in [Height -> Nat] /\ transactions \in [Height -> Seq(Tx)]
  BY DEF TypeInv, TypeOK, HistoryTypes, TableTypes
<1>1. ASSUME executed' = executed, transactions' = transactions PROVE FALSE
  BY <1>1
<1>2. PICK w \in Worker : WorkerStep(w)
  <2>1. CASE UNCHANGED vars
    BY <1>1, <2>1 DEF vars, dbVars, history
  <2>2. CASE Environment \/ CloseWorkCh
    BY <1>1, <2>2 DEF Environment, Deliver, Cancel, Crash, SendOnClosed, Restart, CloseWorkCh,
                      dbVars, history
  <2>. QED BY <2>1, <2>2 DEF Next
<1>3. AddTransactions(w) \/ IncFrom(w) \/ IncTo(w)
  BY <1>1, <1>2 DEF WorkerStep, TakeJob, StopWorker, CallFails, AddBlock, SkipBlock, FinishBlock,
                    EndOfEvents, SkipEvent, RejectValue, BeginEvent, Parsing, GetFrom, AddFrom,
                    GetTo, AddTo, AddTransfers, GetAccount, AddAccount, dbVars, history
<1>4. CASE AddTransactions(w)
  <2>1. h = HeightOf(w)
    BY <1>0, <1>4 DEF AddTransactions, InsertTransactions, history
  <2>. QED BY <1>4, <2>1 DEF AddTransactions, Owns, Owning, RepositoryCalls
<1>5. CASE IncFrom(w) \/ IncTo(w)
  <2>1. h = HeightOf(w)
    BY <1>0, <1>5 DEF IncFrom, IncTo, Increment
  <2>. QED BY <1>5, <2>1 DEF IncFrom, IncTo, Owns, Owning, RepositoryCalls
<1>. QED BY <1>3, <1>4, <1>5

LEMMA AbandonedStep ==
    ASSUME TypeInv, OwnerInv, [Next]_vars, NEW h \in Abandoned
    PROVE  /\ h \in Abandoned'
           /\ executed'[h] = executed[h]
           /\ transactions'[h] = transactions[h]
<1>0. h \in Height /\ h \in blocks \ indexed /\ \A w \in Worker : ~Owns(w, h)
  BY DEF Abandoned, TypeInv, TypeOK, TableTypes
<1>1. executed'[h] = executed[h] /\ transactions'[h] = transactions[h]
  BY <1>0, WritesByOwner
<1>2. h \in Abandoned'
  <2>1. CASE Quiet
    BY <1>0, <2>1 DEF Quiet, KeepsOwners, Abandoned, Owns, HeightOf
  <2>2. ASSUME NEW w \in Worker, AddBlock(w) PROVE h \in Abandoned'
    BY <1>0, <2>2, AddBlockOwners DEF Abandoned, Owns, HeightOf
  <2>3. ASSUME NEW w \in Worker, FinishBlock(w) PROVE h \in Abandoned'
    BY <1>0, <2>3, FinishBlockOwners DEF Abandoned, KeepsOwners, Owns, HeightOf
  <2>. QED BY <2>1, <2>2, <2>3, OwnerSteps
<1>. QED BY <1>1, <1>2

\* A block whose worker gave it up is never touched again: no redelivery of its
\* message updates a balance, adds a transaction or completes it.
THEOREM AbandonedForever == Spec => AbandonedStaysAbandoned
<1>1. TypeInv /\ OwnerInv /\ [Next]_vars
        => [\A h \in Abandoned : /\ h \in Abandoned'
                                 /\ executed'[h] = executed[h]
                                 /\ transactions'[h] = transactions[h]]_vars
  BY AbandonedStep
<1>2. Init => OwnerInv
  BY DEF Init, DBInit, OwnerInv, OneOwnerPerBlock, Owns, Owning, RepositoryCalls
<1>. QED BY <1>1, <1>2, OwnerInvStep, TypeInvInit, TypeInvStep, PTL
         DEF Spec, AbandonedStaysAbandoned

---------------------------------------------------------------------------
(* The accounts table                                                      *)

\* Every account keeps its row, with its address and its token.
RowsPersist ==
    \A r \in accounts : \E s \in accounts' : s.address = r.address /\ s.token = r.token

\* A step leaves the accounts alone, inserts an allowed row or updates amounts.
LEMMA AccountSteps ==
    ASSUME TypeInv, [Next]_vars
    PROVE  \/ accounts' = accounts
           \/ \E a \in Address \cup {NoAddress}, t \in Token \cup {NoToken} :
                 AddAccountAllowed(a, t) /\ InsertAccount(a, t)
           \/ \E a \in Address \cup {NoAddress}, t \in Token \cup {NoToken}, d \in Int :
                 IncrementAccountBalance(a, t, d)
<1>. SUFFICES ASSUME accounts' # accounts
              PROVE  \/ \E a \in Address \cup {NoAddress}, t \in Token \cup {NoToken} :
                           AddAccountAllowed(a, t) /\ InsertAccount(a, t)
                     \/ \E a \in Address \cup {NoAddress}, t \in Token \cup {NoToken},
                           d \in Int : IncrementAccountBalance(a, t, d)
  OBVIOUS
<1>1. PICK w \in Worker : WorkerStep(w)
  <2>1. CASE UNCHANGED vars
    BY <2>1 DEF vars, dbVars
  <2>2. CASE Environment \/ CloseWorkCh
    BY <2>2 DEF Environment, Deliver, Cancel, Crash, SendOnClosed, Restart, CloseWorkCh, dbVars
  <2>. QED BY <2>1, <2>2 DEF Next
<1>2. AddFrom(w) \/ AddTo(w) \/ IncFrom(w) \/ IncTo(w)
  BY <1>1 DEF WorkerStep, TakeJob, StopWorker, CallFails, AddBlock, SkipBlock, AddTransactions,
              FinishBlock, EndOfEvents, SkipEvent, RejectValue, BeginEvent, Parsing, GetFrom,
              GetTo, AddTransfers, GetAccount, dbVars
<1>3. CurrentEvent(w) \in Event /\ CurrentEvent(w).value \in Int
  BY <1>2, HandlingFacts DEF AddFrom, AddTo, IncFrom, IncTo, Handling
<1>4. /\ From(w) \in Address \cup {NoAddress} /\ To(w) \in Address \cup {NoAddress}
      /\ TokenOf(w) \in Token \cup {NoToken} /\ -CurrentEvent(w).value \in Int
  BY <1>3 DEF From, To, TokenOf, Event
<1>5. CASE AddFrom(w) \/ AddTo(w)
  BY <1>4, <1>5 DEF AddFrom, AddTo, AddAccount
<1>6. CASE IncFrom(w) \/ IncTo(w)
  BY <1>3, <1>4, <1>6 DEF IncFrom, IncTo, Increment
<1>. QED BY <1>2, <1>5, <1>6

LEMMA RowsPersistStep == TypeInv /\ [Next]_vars => RowsPersist
<1>. SUFFICES ASSUME TypeInv, [Next]_vars, NEW r \in accounts
              PROVE  \E s \in accounts' : s.address = r.address /\ s.token = r.token
  BY DEF RowsPersist
<1>1. r \in AccountRow
  BY DEF TypeInv, TypeOK, TableTypes
<1>2. ASSUME NEW a, NEW t, NEW d, IncrementAccountBalance(a, t, d)
      PROVE  \E s \in accounts' : s.address = r.address /\ s.token = r.token
  <2>1. CASE r.address = a /\ r.token = t
    <3>1. [r EXCEPT !.amount = @ + d] \in accounts'
      BY <1>2, <2>1 DEF IncrementAccountBalance
    <3>. QED BY <1>1, <3>1 DEF AccountRow
  <2>2. CASE ~(r.address = a /\ r.token = t)
    BY <1>2, <2>2 DEF IncrementAccountBalance
  <2>. QED BY <2>1, <2>2
<1>. QED BY <1>2, AccountSteps DEF InsertAccount

\* What a worker may rely on, between its look-ups and its updates.
KnownRows(w) ==
    /\ pc[w] \in {"getFrom", "addFrom", "incFrom"} => Func(CurrentEvent(w)) # "mint"
    /\ pc[w] \in {"getTo", "addTo", "incTo"} => Func(CurrentEvent(w)) # "burn"
    /\ pc[w] \in {"getTo", "addTo", "incFrom"} /\ Func(CurrentEvent(w)) # "mint"
         => HasAccount(From(w), TokenOf(w))
    /\ pc[w] = "incFrom" /\ Func(CurrentEvent(w)) # "burn"
         => HasAccount(To(w), TokenOf(w))
    /\ pc[w] = "incTo" => HasAccount(To(w), TokenOf(w))

KnownRowsInv == \A w \in Worker : KnownRows(w)

LEMMA FoundHasAccount ==
    ASSUME NEW a, NEW t, AccountFound(a, t) PROVE HasAccount(a, t)
<1>1. PICK r \in accounts : MatchingAccounts(a, t) = {r}
  BY DEF AccountFound
<1>2. r \in MatchingAccounts(a, t)
  BY <1>1
<1>. QED BY <1>2 DEF MatchingAccounts, HasAccount

\* A worker outside the handlers relies on no row; one whose loop variables do
\* not change relies on what it relied on before.
LEMMA AtRestKnown ==
    ASSUME NEW w \in Worker, pc'[w] \notin Handling PROVE KnownRows(w)'
BY DEF KnownRows, Handling

LEMMA UnmovedKnown ==
    ASSUME RowsPersist, NEW w \in Worker, KnownRows(w),
           pc'[w] = pc[w], msg'[w] = msg[w], ti'[w] = ti[w], ei'[w] = ei[w]
    PROVE  KnownRows(w)'
<1>1. CurrentEvent(w)' = CurrentEvent(w)
  BY DEF CurrentEvent, CurrentTx
<1>2. From(w)' = From(w) /\ To(w)' = To(w) /\ TokenOf(w)' = TokenOf(w)
  BY <1>1 DEF From, To, TokenOf
<1>3. /\ HasAccount(From(w), TokenOf(w)) => HasAccount(From(w), TokenOf(w))'
      /\ HasAccount(To(w), TokenOf(w)) => HasAccount(To(w), TokenOf(w))'
  BY <1>2 DEF RowsPersist, HasAccount
<1>. QED BY <1>1, <1>2, <1>3 DEF KnownRows

\* A step of w inside the handlers, whose goal s brings its own row along.
LEMMA GotoKnown ==
    ASSUME LoopTypes, RowsPersist, NEW w \in Worker, NEW s, Goto(w, s),
           s \in {"getFrom", "addFrom", "incFrom"} => Func(CurrentEvent(w)) # "mint",
           s \in {"getTo", "addTo", "incTo"} => Func(CurrentEvent(w)) # "burn",
           s \in {"getTo", "addTo", "incFrom"} /\ Func(CurrentEvent(w)) # "mint"
             => HasAccount(From(w), TokenOf(w)) \/ HasAccount(From(w), TokenOf(w))',
           s = "incFrom" /\ Func(CurrentEvent(w)) # "burn"
             => HasAccount(To(w), TokenOf(w)) \/ HasAccount(To(w), TokenOf(w))',
           s = "incTo" => HasAccount(To(w), TokenOf(w)) \/ HasAccount(To(w), TokenOf(w))'
    PROVE  KnownRows(w)'
<1>0. pc'[w] = s /\ msg'[w] = msg[w] /\ ti'[w] = ti[w] /\ ei'[w] = ei[w]
  BY DEF LoopTypes, Goto
<1>1. CurrentEvent(w)' = CurrentEvent(w)
  BY <1>0 DEF CurrentEvent, CurrentTx
<1>2. From(w)' = From(w) /\ To(w)' = To(w) /\ TokenOf(w)' = TokenOf(w)
  BY <1>1 DEF From, To, TokenOf
<1>3. /\ HasAccount(From(w), TokenOf(w)) => HasAccount(From(w), TokenOf(w))'
      /\ HasAccount(To(w), TokenOf(w)) => HasAccount(To(w), TokenOf(w))'
  BY <1>2 DEF RowsPersist, HasAccount
<1>. QED BY <1>0, <1>1, <1>2, <1>3 DEF KnownRows

LEMMA HandlerKnown ==
    ASSUME TypeInv, KnownRowsInv, RowsPersist, NEW w \in Worker,
           \/ BeginEvent(w) \/ GetFrom(w) \/ AddFrom(w) \/ GetTo(w) \/ AddTo(w)
           \/ IncFrom(w) \/ IncTo(w)
    PROVE  KnownRows(w)'
<1>0. LoopTypes /\ KnownRows(w)
  BY DEF TypeInv, TypeOK, KnownRowsInv
<1>1. ASSUME Leave(w) \/ Fails(w) \/ NextEvent(w) PROVE KnownRows(w)'
  BY <1>0, <1>1, AtRestKnown DEF Leave, Fails, NextEvent, LoopTypes, Handling
<1>2. CASE BeginEvent(w)
  BY <1>0, <1>2, GotoKnown DEF BeginEvent
<1>3. CASE GetFrom(w)
  <2>1. Func(CurrentEvent(w)) # "mint"
    BY <1>0, <1>3 DEF GetFrom, KnownRows
  <2>2. CASE AccountFound(From(w), TokenOf(w)) /\ Goto(w, AfterFrom(w))
    BY <1>0, <2>1, <2>2, FoundHasAccount, GotoKnown DEF AfterFrom
  <2>3. CASE Goto(w, "addFrom")
    BY <1>0, <2>1, <2>3, GotoKnown
  <2>. QED BY <1>1, <1>3, <2>2, <2>3 DEF GetFrom, GetAccount
<1>4. CASE AddFrom(w)
  <2>1. Func(CurrentEvent(w)) # "mint"
    BY <1>0, <1>4 DEF AddFrom, KnownRows
  <2>2. CASE InsertAccount(From(w), TokenOf(w)) /\ Goto(w, AfterFrom(w))
    <3>1. \E r \in accounts' : r.address = From(w) /\ r.token = TokenOf(w)
      <4>1. [address |-> From(w), token |-> TokenOf(w), amount |-> 0] \in accounts'
        BY <2>2 DEF InsertAccount
      <4>. QED BY <4>1
    <3>2. From(w)' = From(w) /\ TokenOf(w)' = TokenOf(w)
      BY <1>0, <2>2 DEF Goto, From, TokenOf, CurrentEvent, CurrentTx
    <3>3. HasAccount(From(w), TokenOf(w))'
      BY <3>1, <3>2 DEF HasAccount
    <3>. QED BY <1>0, <2>1, <2>2, <3>3, GotoKnown DEF AfterFrom
  <2>. QED BY <1>1, <1>4, <2>2 DEF AddFrom, AddAccount
<1>5. CASE GetTo(w)
  <2>1. Func(CurrentEvent(w)) # "burn"
        /\ (Func(CurrentEvent(w)) # "mint" => HasAccount(From(w), TokenOf(w)))
    BY <1>0, <1>5 DEF GetTo, KnownRows
  <2>2. CASE AccountFound(To(w), TokenOf(w)) /\ Goto(w, AfterTo(w))
    BY <1>0, <2>1, <2>2, FoundHasAccount, GotoKnown DEF AfterTo
  <2>3. CASE Goto(w, "addTo")
    BY <1>0, <2>1, <2>3, GotoKnown
  <2>. QED BY <1>1, <1>5, <2>2, <2>3 DEF GetTo, GetAccount
<1>6. CASE AddTo(w)
  <2>1. Func(CurrentEvent(w)) # "burn"
        /\ (Func(CurrentEvent(w)) # "mint" => HasAccount(From(w), TokenOf(w)))
    BY <1>0, <1>6 DEF AddTo, KnownRows
  <2>2. CASE InsertAccount(To(w), TokenOf(w)) /\ Goto(w, AfterTo(w))
    <3>1. \E r \in accounts' : r.address = To(w) /\ r.token = TokenOf(w)
      <4>1. [address |-> To(w), token |-> TokenOf(w), amount |-> 0] \in accounts'
        BY <2>2 DEF InsertAccount
      <4>. QED BY <4>1
    <3>2. To(w)' = To(w) /\ TokenOf(w)' = TokenOf(w)
      BY <1>0, <2>2 DEF Goto, To, TokenOf, CurrentEvent, CurrentTx
    <3>3. HasAccount(To(w), TokenOf(w))'
      BY <3>1, <3>2 DEF HasAccount
    <3>. QED BY <1>0, <2>1, <2>2, <3>3, GotoKnown DEF AfterTo
  <2>. QED BY <1>1, <1>6, <2>2 DEF AddTo, AddAccount
<1>7. CASE IncFrom(w)
  <2>1. CASE Func(CurrentEvent(w)) # "burn" /\ Goto(w, "incTo")
    BY <1>0, <1>7, <2>1, GotoKnown DEF IncFrom, KnownRows
  <2>. QED BY <1>1, <1>7, <2>1 DEF IncFrom, Increment
<1>8. CASE IncTo(w)
  BY <1>1, <1>8 DEF IncTo, Increment
<1>. QED BY <1>2, <1>3, <1>4, <1>5, <1>6, <1>7, <1>8

\* A worker's step leaves the other workers where they are.
LEMMA OthersStay ==
    ASSUME TypeInv, NEW w \in Worker, WorkerStep(w), NEW v \in Worker \ {w}
    PROVE  pc'[v] = pc[v] /\ msg'[v] = msg[v] /\ ti'[v] = ti[v] /\ ei'[v] = ei[v]
<1>1. TakeJob(w) \/ Leave(w) \/ NextEvent(w) \/ NextTx(w) \/ \E s : Goto(w, s)
  BY DEF WorkerStep, StopWorker, CallFails, AddBlock, SkipBlock, AddTransactions, FinishBlock,
         EndOfEvents, SkipEvent, RejectValue, BeginEvent, GetFrom, AddFrom, GetTo, AddTo,
         IncFrom, IncTo, AddTransfers, GetAccount, AddAccount, Increment, Fails
<1>. QED BY <1>1 DEF TypeInv, TypeOK, LoopTypes, TakeJob, Leave, NextEvent, NextTx, Goto

LEMMA KnownRowsStep ==
    ASSUME TypeInv, KnownRowsInv, [Next]_vars PROVE KnownRowsInv'
<1>0. RowsPersist
  BY RowsPersistStep
<1>1. CASE UNCHANGED loopVars
  BY <1>0, <1>1, UnmovedKnown DEF loopVars, KnownRowsInv
<1>2. CASE Crash \/ SendOnClosed
  BY <1>2, AtRestKnown DEF Crash, SendOnClosed, Restart, Handling, KnownRowsInv
<1>3. ASSUME NEW w \in Worker, WorkerStep(w) PROVE KnownRowsInv'
  <2>1. ASSUME NEW v \in Worker \ {w} PROVE KnownRows(v)'
    BY <1>0, <1>3, <2>1, OthersStay, UnmovedKnown DEF KnownRowsInv
  <2>2. KnownRows(w)'
    <3>1. CASE \/ BeginEvent(w) \/ GetFrom(w) \/ AddFrom(w) \/ GetTo(w) \/ AddTo(w)
               \/ IncFrom(w) \/ IncTo(w)
      BY <1>0, <3>1, HandlerKnown
    <3>2. CASE \/ TakeJob(w) \/ StopWorker(w) \/ CallFails(w)
               \/ AddBlock(w) \/ SkipBlock(w) \/ AddTransactions(w)
               \/ FinishBlock(w) \/ EndOfEvents(w) \/ SkipEvent(w)
               \/ RejectValue(w) \/ AddTransfers(w)
      <4>1. pc'[w] \notin Handling
        BY <3>2 DEF TypeInv, TypeOK, LoopTypes, Handling, TakeJob, StopWorker, CallFails,
                    AddBlock, SkipBlock, AddTransactions, FinishBlock, EndOfEvents, SkipEvent,
                    RejectValue, AddTransfers, Fails, Leave, Goto, NextEvent, NextTx
      <4>. QED BY <4>1, AtRestKnown
    <3>. QED BY <1>3, <3>1, <3>2 DEF WorkerStep
  <2>. QED BY <2>1, <2>2 DEF KnownRowsInv
<1>. QED BY <1>1, <1>2, <1>3 DEF Next, Environment, Deliver, Cancel, CloseWorkCh, vars

\* A balance update with a named address and token always finds its row, however
\* many calls of other workers and crashes lie between look-up and update: the
\* silent no-op of an UPDATE that matches nothing does not lose an update.
THEOREM UpdatesFindTheirRow == Spec => []UpdateHasItsRow
<1>1. Init => KnownRowsInv
  BY DEF Init, KnownRowsInv, KnownRows
<1>2. KnownRowsInv => UpdateHasItsRow
  BY DEF KnownRowsInv, KnownRows, UpdateHasItsRow
<1>. QED BY <1>1, <1>2, KnownRowsStep, TypeInvInit, TypeInvStep, PTL DEF Spec

\* The transfers table is written by AddTransfers alone.
LEMMA TransferSteps ==
    ASSUME TypeInv, [Next]_vars
    PROVE  \/ transfers' = transfers
           \/ \E x \in Hash, rows \in SUBSET TransferRow :
                 /\ AddTransfersAllowed(rows) /\ InsertTransfers(x, rows)
                 /\ accounts' = accounts
<1>. SUFFICES ASSUME transfers' # transfers
              PROVE  \E x \in Hash, rows \in SUBSET TransferRow :
                        /\ AddTransfersAllowed(rows) /\ InsertTransfers(x, rows)
                        /\ accounts' = accounts
  OBVIOUS
<1>1. PICK w \in Worker : WorkerStep(w)
  <2>1. CASE UNCHANGED vars
    BY <2>1 DEF vars, dbVars
  <2>2. CASE Environment \/ CloseWorkCh
    BY <2>2 DEF Environment, Deliver, Cancel, Crash, SendOnClosed, Restart, CloseWorkCh, dbVars
  <2>. QED BY <2>1, <2>2 DEF Next
<1>2. AddTransfers(w)
  BY <1>1 DEF WorkerStep, TakeJob, StopWorker, CallFails, AddBlock, SkipBlock, AddTransactions,
              FinishBlock, EndOfEvents, SkipEvent, RejectValue, BeginEvent, Parsing, GetFrom,
              AddFrom, GetTo, AddTo, IncFrom, IncTo, GetAccount, AddAccount, Increment, dbVars
<1>3. MoreTxs(w) /\ ~MoreEvents(w) /\ ei[w] \in Nat /\ pc[w] \in Owning
  BY <1>2 DEF AddTransfers, TypeInv, TypeOK, LoopOK, WorkerOK, LoopTypes, Owning,
              RepositoryCalls
<1>4. CurrentTx(w) \in Tx /\ CurrentTx(w).hash \in Hash
      /\ CurrentTx(w).events \in Seq(Event)
  BY <1>3, HeldFacts DEF Owning, RepositoryCalls
<1>5. \A j \in 1 .. Len(CurrentTx(w).events) : Parsed(CurrentTx(w).events[j])
  <2>1. \A j \in 1 .. Len(CurrentTx(w).events) : j < ei[w]
    BY <1>3, <1>4 DEF MoreEvents
  <2>. QED BY <1>3, <2>1 DEF TypeInv, LoopOK, WorkerOK
<1>6. /\ AddTransfersAllowed(TransferRows(CurrentTx(w)))
      /\ InsertTransfers(CurrentTx(w).hash, TransferRows(CurrentTx(w)))
      /\ accounts' = accounts
  BY <1>2 DEF AddTransfers
<1>7. TransferRows(CurrentTx(w)) \in SUBSET TransferRow
  BY <1>4, <1>5, <1>6, RowTypes
<1>. QED BY <1>4, <1>6, <1>7
===========================================================================
