-------------------------- MODULE EventProcessor --------------------------
(***************************************************************************)
(* src/cmd/event-processor/service/service.go: the subscription handler,   *)
(* the bounded channel workCh and the pool of messageWorkers that index    *)
(* block messages into the repository.  A worker's repository call is one  *)
(* step, so the calls of different workers interleave; a crash may come    *)
(* between any two of them.  The broker is external here: it may hand any  *)
(* message to the handler any number of times, in any order.               *)
(***************************************************************************)
EXTENDS Repository

CONSTANTS Worker,        \* the messageWorker goroutines
          Messages,      \* the block messages the broker can deliver
          WorkChCap,     \* capacity of workCh
          BadValue,      \* a 'value' attribute ParseInt rejects
          NoMessage,     \* what an idle worker holds
          MaxDeliveries, \* bound: handler calls
          MaxFaults,     \* bound: repository calls that fail by themselves
          MaxCrashes,    \* bound: process crashes
          MayCancel      \* whether the context can be cancelled

\* An event after the attribute loop: 'from', 'to' and 'value' hold the last
\* attribute of that key, the empty string or 0 when there is none.
Event == [type : Name, func : Name,
          from : Address \cup {NoAddress}, to : Address \cup {NoAddress},
          token : Token \cup {NoToken}, value : Int \cup {BadValue}]
Tx == [hash : Hash, events : Seq(Event)]
Message == [height : Height, txs : Seq(Tx)]

ASSUME MessagesAssumption == Messages \subseteq Message
ASSUME NameAssumption == {"transfer", "mint", "burn"} \subseteq Name
ASSUME NoMessageAssumption == NoMessage \notin Messages
ASSUME BadValueAssumption == BadValue \notin Int
ASSUME BoundsAssumption ==
    /\ WorkChCap \in Nat \ {0}
    /\ MaxDeliveries \in Nat /\ MaxFaults \in Nat /\ MaxCrashes \in Nat
    /\ MayCancel \in BOOLEAN

VARIABLES workCh,        \* the buffered messages
          closed,        \* whether workCh is closed
          ctxDone,       \* whether the context is cancelled
          pc, msg,       \* each worker's next step and the message it holds
          ti, ei,        \* indices of its transaction and event loops
          deliveries, faults, crashes, \* what the bounds count
          claim,         \* history: the message whose AddBlock inserted h
          executed,      \* history: UPDATEs of accounts executed for block h,
                         \* whether or not they matched a row
          indexed        \* history: blocks processed without an error

loopVars == <<pc, msg, ti, ei>>
chanVars == <<workCh, closed, ctxDone>>
boundVars == <<deliveries, faults, crashes>>
history == <<claim, executed, indexed>>
vars == <<dbVars, loopVars, chanVars, boundVars, history>>

---------------------------------------------------------------------------
(* What a worker holds                                                     *)

\* strings.ToLower, on the spellings the events use.
ToLower(s) == IF s = "Transfer" THEN "transfer"
              ELSE IF s = "Mint" THEN "mint"
              ELSE IF s = "Burn" THEN "burn" ELSE s

Func(e) == ToLower(e.func)
IsTransfer(e) == ToLower(e.type) = "transfer"

HeightOf(w) == msg[w].height
CurrentTx(w) == msg[w].txs[ti[w]]
CurrentEvent(w) == CurrentTx(w).events[ei[w]]

\* An event the loop passes over without touching an account: of another
\* type, a mint without receiver, a burn without sender, an unknown function.
Skipped(e) ==
    \/ ~IsTransfer(e)
    \/ /\ e.value # BadValue
       /\ \/ Func(e) = "mint" /\ e.to = NoAddress
          \/ Func(e) = "burn" /\ e.from = NoAddress
          \/ Func(e) \notin {"mint", "burn", "transfer"}

\* The rows AddTransfers is given for a transaction: one per Transfer event,
\* the skipped mints, burns and unknown functions included.
TransferRows(tx) ==
    LET Row(i, e) == [event |-> i, func |-> Func(e), from |-> e.from, to |-> e.to,
                      token |-> e.token, amount |-> e.value]
    IN  {Row(i, tx.events[i]) : i \in {j \in DOMAIN tx.events : IsTransfer(tx.events[j])}}

\* Whether an update of a at t finds a row; the empty strings, which no row
\* has, are left out.
HasAccount(a, t) ==
    a # NoAddress /\ t # NoToken => \E r \in accounts : r.address = a /\ r.token = t

RepositoryCalls == {"addBlock", "addTransactions", "getFrom", "addFrom", "getTo",
                    "addTo", "incFrom", "incTo", "addTransfers"}
\* The steps a worker takes only after its AddBlock inserted the block.
Owning == (RepositoryCalls \ {"addBlock"}) \cup {"parse"}
Owns(w, h) == pc[w] \in Owning /\ HeightOf(w) = h
Abandoned == {h \in blocks \ indexed : \A w \in Worker : ~Owns(w, h)}

---------------------------------------------------------------------------
Init == /\ DBInit
        /\ workCh = << >> /\ closed = FALSE /\ ctxDone = FALSE
        /\ pc = [w \in Worker |-> "idle"]
        /\ msg = [w \in Worker |-> NoMessage]
        /\ ti = [w \in Worker |-> 0] /\ ei = [w \in Worker |-> 0]
        /\ deliveries = 0 /\ faults = 0 /\ crashes = 0
        /\ claim = [h \in Height |-> NoMessage]
        /\ executed = [h \in Height |-> 0]
        /\ indexed = {}

(***************************************************************************)
(* The subscription: SubscribeAndHandle and its handler                    *)
(***************************************************************************)
\* Variant for a mutation run: the send blocks until there is room.
DeliverBlocking(m) ==
    /\ ~closed
    /\ deliveries < MaxDeliveries
    /\ deliveries' = deliveries + 1
    /\ workCh' = Append(workCh, m)
    /\ UNCHANGED <<dbVars, loopVars, closed, ctxDone, faults, crashes, history>>

\* The handler never blocks: a message that finds workCh full is dropped.
Deliver(m) ==
    /\ ~closed
    /\ deliveries < MaxDeliveries
    /\ deliveries' = deliveries + 1
    /\ workCh' = IF Len(workCh) < WorkChCap THEN Append(workCh, m) ELSE workCh
    /\ UNCHANGED <<dbVars, loopVars, closed, ctxDone, faults, crashes, history>>

Cancel ==
    /\ MayCancel /\ ~ctxDone
    /\ ctxDone' = TRUE
    /\ UNCHANGED <<dbVars, loopVars, workCh, closed, boundVars, history>>

\* Variant for a mutation run: workCh is closed only after it was drained.
CloseDrainedWorkCh ==
    /\ ctxDone /\ ~closed /\ workCh = << >>
    /\ closed' = TRUE
    /\ UNCHANGED <<dbVars, loopVars, workCh, ctxDone, boundVars, history>>

CloseWorkCh ==
    /\ ctxDone /\ ~closed
    /\ closed' = TRUE
    /\ UNCHANGED <<dbVars, loopVars, workCh, ctxDone, boundVars, history>>

\* The process dies and is started again: everything but the database is new.
Restart ==
    /\ workCh' = << >> /\ closed' = FALSE /\ ctxDone' = FALSE
    /\ pc' = [w \in Worker |-> "idle"]
    /\ msg' = [w \in Worker |-> NoMessage]
    /\ ti' = [w \in Worker |-> 0] /\ ei' = [w \in Worker |-> 0]
    /\ UNCHANGED <<dbVars, history>>

Crash ==
    /\ crashes < MaxCrashes
    /\ crashes' = crashes + 1
    /\ Restart
    /\ UNCHANGED <<deliveries, faults>>

\* The broker's poller has a context of its own and still calls the handler
\* after workCh is closed: the send panics, which ends the process.
SendOnClosed ==
    /\ closed
    /\ deliveries < MaxDeliveries
    /\ deliveries' = deliveries + 1
    /\ Restart
    /\ UNCHANGED <<faults, crashes>>

(***************************************************************************)
(* Worker steps: how a step ends                                           *)
(***************************************************************************)
\* Variant for a mutation run: the worker's goroutine returns after one message.
LeaveForGood(w) ==
    /\ pc' = [pc EXCEPT ![w] = "stopped"]
    /\ msg' = [msg EXCEPT ![w] = NoMessage]
    /\ ti' = [ti EXCEPT ![w] = 0] /\ ei' = [ei EXCEPT ![w] = 0]

\* ProcessBlockWithTransactions returns, with or without an error: the worker
\* goes back to its select and nothing retries the block.
Leave(w) ==
    /\ pc' = [pc EXCEPT ![w] = "idle"]
    /\ msg' = [msg EXCEPT ![w] = NoMessage]
    /\ ti' = [ti EXCEPT ![w] = 0] /\ ei' = [ei EXCEPT ![w] = 0]

Goto(w, step) == pc' = [pc EXCEPT ![w] = step] /\ UNCHANGED <<msg, ti, ei>>
NextEvent(w) == /\ pc' = [pc EXCEPT ![w] = "parse"]
                /\ ei' = [ei EXCEPT ![w] = @ + 1]
                /\ UNCHANGED <<msg, ti>>
NextTx(w) == /\ pc' = [pc EXCEPT ![w] = "parse"]
             /\ ti' = [ti EXCEPT ![w] = @ + 1]
             /\ ei' = [ei EXCEPT ![w] = 1]
             /\ UNCHANGED msg

\* A call returns nil; with the context cancelled it cannot.
Succeeds == ~ctxDone /\ UNCHANGED faults

\* Variant for a mutation run: a failed call is tried again until it succeeds.
FailsAndRetries(w) ==
    /\ \/ ctxDone /\ UNCHANGED faults
       \/ ~ctxDone /\ faults < MaxFaults /\ faults' = faults + 1
    /\ UNCHANGED loopVars

\* A call returns an error, which every caller returns up to messageWorker.
Fails(w) ==
    /\ \/ ctxDone /\ UNCHANGED faults
       \/ ~ctxDone /\ faults < MaxFaults /\ faults' = faults + 1
    /\ Leave(w)

\* What every worker step leaves alone.
WorkerFrame == UNCHANGED <<chanVars, deliveries, crashes>>

(***************************************************************************)
(* messageWorker and ProcessBlockWithTransactions                          *)
(***************************************************************************)
TakeJob(w) ==
    /\ pc[w] = "idle" /\ workCh # << >>
    /\ workCh' = Tail(workCh)
    /\ pc' = [pc EXCEPT ![w] = "addBlock"]
    /\ msg' = [msg EXCEPT ![w] = Head(workCh)]
    /\ ti' = [ti EXCEPT ![w] = 1] /\ ei' = [ei EXCEPT ![w] = 1]
    /\ UNCHANGED <<dbVars, closed, ctxDone, boundVars, history>>

StopWorker(w) ==
    /\ pc[w] = "idle" /\ ctxDone
    /\ Goto(w, "stopped")
    /\ UNCHANGED <<dbVars, faults, history>> /\ WorkerFrame

\* The call has no effect and returns an error.
CallFails(w) ==
    /\ pc[w] \in RepositoryCalls
    /\ Fails(w)
    /\ UNCHANGED <<dbVars, history>> /\ WorkerFrame

\* For a block without transactions AddTransactions returns at once.
AddBlock(w) ==
    /\ pc[w] = "addBlock" /\ ~BlockExists(HeightOf(w))
    /\ InsertBlock(HeightOf(w))
    /\ claim' = [claim EXCEPT ![HeightOf(w)] = msg[w]]
    /\ \/ Succeeds /\ Goto(w, IF msg[w].txs = << >> THEN "parse" ELSE "addTransactions")
       \/ Fails(w)
    /\ UNCHANGED <<transactions, accounts, transfers, executed, indexed>> /\ WorkerFrame

\* Variant for a mutation run: an existing block is taken for unfinished work.
ResumeBlock(w) ==
    /\ pc[w] = "addBlock" /\ BlockExists(HeightOf(w))
    /\ Succeeds /\ Goto(w, "parse")
    /\ UNCHANGED <<dbVars, history>> /\ WorkerFrame

SkipBlock(w) ==
    /\ pc[w] = "addBlock" /\ BlockExists(HeightOf(w))
    /\ Succeeds /\ Leave(w)
    /\ UNCHANGED <<dbVars, history>> /\ WorkerFrame

AddTransactions(w) ==
    /\ pc[w] = "addTransactions"
    /\ InsertTransactions(HeightOf(w), msg[w].txs)
    /\ \/ Succeeds /\ Goto(w, "parse")
       \/ Fails(w)
    /\ UNCHANGED <<blocks, accounts, transfers, history>> /\ WorkerFrame

(***************************************************************************)
(* parseAndProcessTransactions: the loops over transactions and events     *)
(***************************************************************************)
\* Variant for a mutation run: the loop ends one transaction early.
MoreTxsButLast(w) == ti[w] < Len(msg[w].txs)

MoreTxs(w) == ti[w] <= Len(msg[w].txs)

MoreEvents(w) == MoreTxs(w) /\ ei[w] <= Len(CurrentTx(w).events)
Parsing(w) == /\ pc[w] = "parse"
              /\ UNCHANGED <<dbVars, faults, claim, executed>> /\ WorkerFrame

FinishBlock(w) ==
    /\ Parsing(w) /\ ~MoreTxs(w)
    /\ indexed' = indexed \cup {HeightOf(w)}
    /\ Leave(w)

\* Variant for a mutation run: the transfers are written inside the event loop.
EndOfEventsEarly(w) ==
    /\ Parsing(w) /\ MoreTxs(w)
    /\ IF TransferRows(CurrentTx(w)) = {} THEN NextTx(w) ELSE Goto(w, "addTransfers")
    /\ UNCHANGED indexed

\* AddTransfers with no row executes no statement.
EndOfEvents(w) ==
    /\ Parsing(w) /\ MoreTxs(w) /\ ~MoreEvents(w)
    /\ IF TransferRows(CurrentTx(w)) = {} THEN NextTx(w) ELSE Goto(w, "addTransfers")
    /\ UNCHANGED indexed

SkipEvent(w) ==
    /\ Parsing(w) /\ MoreEvents(w) /\ Skipped(CurrentEvent(w))
    /\ NextEvent(w)
    /\ UNCHANGED indexed

RejectValue(w) ==
    /\ Parsing(w) /\ MoreEvents(w)
    /\ IsTransfer(CurrentEvent(w)) /\ CurrentEvent(w).value = BadValue
    /\ Leave(w)
    /\ UNCHANGED indexed

BeginEvent(w) ==
    /\ Parsing(w) /\ MoreEvents(w)
    /\ ~Skipped(CurrentEvent(w)) /\ CurrentEvent(w).value # BadValue
    /\ Goto(w, IF Func(CurrentEvent(w)) = "mint" THEN "getTo" ELSE "getFrom")
    /\ UNCHANGED indexed

(***************************************************************************)
(* handleMintEvent, handleBurnEvent and handleTransferEvent                *)
(***************************************************************************)
From(w) == CurrentEvent(w).from
To(w) == CurrentEvent(w).to
TokenOf(w) == CurrentEvent(w).token
AfterFrom(w) == IF Func(CurrentEvent(w)) = "burn" THEN "incFrom" ELSE "getTo"

\* Variant for a mutation run: a transfer credits without debiting.
CreditAfterTo(w) == "incTo"

AfterTo(w) == IF Func(CurrentEvent(w)) = "mint" THEN "incTo" ELSE "incFrom"

\* GetAccount(a, t), then on to AddAccount or past it; more than one matching
\* row is an error.
GetAccount(w, a, absent, present) ==
    /\ Succeeds
    /\ \/ AccountMissing(a, TokenOf(w)) /\ Goto(w, absent)
       \/ AccountFound(a, TokenOf(w)) /\ Goto(w, present)
       \/ AccountAmbiguous(a, TokenOf(w)) /\ Leave(w)
    /\ UNCHANGED <<dbVars, history>> /\ WorkerFrame

GetFrom(w) ==
    pc[w] = "getFrom" /\ GetAccount(w, From(w), "addFrom", AfterFrom(w))
GetTo(w) ==
    pc[w] = "getTo" /\ GetAccount(w, To(w), "addTo", AfterTo(w))

AddAccount(w, a, next) ==
    /\ \/ /\ AddAccountAllowed(a, TokenOf(w))
          /\ InsertAccount(a, TokenOf(w))
          /\ \/ Succeeds /\ Goto(w, next)
             \/ Fails(w)
       \/ /\ ~AddAccountAllowed(a, TokenOf(w))
          /\ Leave(w)
          /\ UNCHANGED <<accounts, faults>>
    /\ UNCHANGED <<blocks, transactions, transfers, history>> /\ WorkerFrame

AddFrom(w) == pc[w] = "addFrom" /\ AddAccount(w, From(w), AfterFrom(w))
AddTo(w) == pc[w] = "addTo" /\ AddAccount(w, To(w), AfterTo(w))

\* One IncrementAccountBalance call; 'last' when the handler is done with it.
\* An empty address or token matches no row: the call returns nil all the same.
Increment(w, a, d, last) ==
    /\ IncrementAccountBalance(a, TokenOf(w), d)
    /\ executed' = [executed EXCEPT ![HeightOf(w)] = @ + 1]
    /\ \/ Succeeds /\ IF last THEN NextEvent(w) ELSE Goto(w, "incTo")
       \/ Fails(w)
    /\ UNCHANGED <<blocks, transactions, transfers, claim, indexed>> /\ WorkerFrame

IncFrom(w) ==
    /\ pc[w] = "incFrom"
    /\ Increment(w, From(w), -CurrentEvent(w).value, Func(CurrentEvent(w)) = "burn")
IncTo(w) ==
    /\ pc[w] = "incTo"
    /\ Increment(w, To(w), CurrentEvent(w).value, TRUE)

\* One AddTransfers call per transaction, after all of its events.
AddTransfers(w) ==
    /\ pc[w] = "addTransfers"
    /\ LET rows == TransferRows(CurrentTx(w)) IN
         \/ /\ AddTransfersAllowed(rows)
            /\ InsertTransfers(CurrentTx(w).hash, rows)
            /\ \/ Succeeds /\ NextTx(w)
               \/ Fails(w)
         \/ /\ ~AddTransfersAllowed(rows)
            /\ Leave(w)
            /\ UNCHANGED <<transfers, faults>>
    /\ UNCHANGED <<blocks, transactions, accounts, history>> /\ WorkerFrame

---------------------------------------------------------------------------
WorkerStep(w) ==
    \/ TakeJob(w) \/ StopWorker(w) \/ CallFails(w)
    \/ AddBlock(w) \/ SkipBlock(w) \/ AddTransactions(w)
    \/ FinishBlock(w) \/ EndOfEvents(w) \/ SkipEvent(w)
    \/ RejectValue(w) \/ BeginEvent(w)
    \/ GetFrom(w) \/ AddFrom(w) \/ GetTo(w) \/ AddTo(w)
    \/ IncFrom(w) \/ IncTo(w) \/ AddTransfers(w)

Environment == \/ \E m \in Messages : Deliver(m)
               \/ Cancel \/ Crash \/ SendOnClosed

Next == Environment \/ CloseWorkCh \/ \E w \in Worker : WorkerStep(w)

Spec == Init /\ [][Next]_vars

\* Goroutines that can run are scheduled, and a repository call returns.
Fairness == WF_vars(CloseWorkCh) /\ \A w \in Worker : WF_vars(WorkerStep(w))
FairSpec == Spec /\ Fairness

---------------------------------------------------------------------------
(* Properties                                                              *)

WorkerSteps == Owning \cup {"idle", "addBlock", "stopped"}

TableTypes ==
    /\ blocks \subseteq Height
    /\ transactions \in [Height -> Seq(Tx)]
    /\ accounts \subseteq AccountRow
    /\ transfers \in [Hash -> Seq(SUBSET TransferRow)]
ChannelTypes ==
    /\ workCh \in Seq(Messages) /\ Len(workCh) <= WorkChCap
    /\ closed \in BOOLEAN /\ ctxDone \in BOOLEAN
LoopTypes ==
    /\ pc \in [Worker -> WorkerSteps]
    /\ msg \in [Worker -> Messages \cup {NoMessage}]
    /\ ti \in [Worker -> Nat] /\ ei \in [Worker -> Nat]
HistoryTypes ==
    /\ deliveries \in Nat /\ faults \in Nat /\ crashes \in Nat
    /\ claim \in [Height -> Messages \cup {NoMessage}]
    /\ executed \in [Height -> Nat]
    /\ indexed \subseteq Height

\* Every variable keeps the type the Go code and the tables give it; amounts
\* stay integers because no value that failed to parse reaches a table, and
\* workCh never exceeds its capacity.
TypeOK == TableTypes /\ ChannelTypes /\ LoopTypes /\ HistoryTypes

\* AddBlock's "exists, skipping" is the only guard against indexing a block
\* twice: whatever is redelivered, and whichever workers race, at most one of
\* them is past AddBlock for a height, that height has its row, and it was not
\* indexed before.
OneOwnerPerBlock ==
    \A w \in Worker, h \in Height :
        Owns(w, h) => /\ h \in blocks \ indexed
                      /\ claim[h] = msg[w]
                      /\ \A v \in Worker : Owns(v, h) => v = w

\* The handlers look the account up in one call and update it in a later one,
\* and an update that matches no row is silent: for every named address the
\* row must still be there when the update executes.
UpdateHasItsRow ==
    \A w \in Worker :
        /\ pc[w] = "incFrom" => HasAccount(From(w), TokenOf(w))
        /\ pc[w] = "incTo" => HasAccount(To(w), TokenOf(w))

\* Once its worker has left it, a block gets no further balance update and no
\* further transaction row, and is never completed: redelivery does not repair it.
AbandonedStaysAbandoned ==
    [][\A h \in Abandoned :
          /\ h \in Abandoned'
          /\ executed'[h] = executed[h]
          /\ transactions'[h] = transactions[h]]_vars

---------------------------------------------------------------------------
(* The abstract event processor                                            *)

Stage(w) == IF pc[w] \in Owning THEN "indexing"
            ELSE IF pc[w] = "addBlock" THEN "asking" ELSE "idle"
Life(h) == IF h \notin blocks THEN "absent"
           ELSE IF h \in indexed THEN "indexed"
           ELSE IF h \in Abandoned THEN "abandoned" ELSE "owned"

Indexing == INSTANCE BlockIndexing WITH
    Capacity <- WorkChCap,
    waiting <- workCh,
    job <- msg,
    stage <- [w \in Worker |-> Stage(w)],
    life <- [h \in Height |-> Life(h)],
    content <- claim

\* The event processor implements the abstract one: whatever its repository
\* calls, errors, crashes and redeliveries do, a block is claimed once, by one
\* worker, for one message, and then ends as indexed or abandoned for good.
IndexesBlocks == Indexing!Spec
===========================================================================
