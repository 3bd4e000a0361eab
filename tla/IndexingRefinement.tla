------------------------ MODULE IndexingRefinement ------------------------
(***************************************************************************)
(* Proof that EventProcessor implements BlockIndexing: every initial state  *)
(* maps to an initial state, every step to a step or a stutter.             *)
(***************************************************************************)
EXTENDS EventProcessorProofs

Stages == [w \in Worker |-> Stage(w)]
Lives == [h \in Height |-> Life(h)]

\* A block is owned exactly when some worker owns it.
LEMMA LifeOwned ==
    ASSUME OwnerInv, NEW w \in Worker, NEW h \in Height, Owns(w, h)
    PROVE  Life(h) = "owned"
BY DEF OwnerInv, OneOwnerPerBlock, Life, Abandoned

\* The life of a block depends on its row, on its completion and on its owner.
LEMMA SameLife ==
    ASSUME NEW h \in Height,
           h \in blocks' <=> h \in blocks, h \in indexed' <=> h \in indexed,
           \A v \in Worker : Owns(v, h)' <=> Owns(v, h)
    PROVE  Life(h)' = Life(h)
<1>1. h \in Abandoned' <=> h \in Abandoned
  BY DEF Abandoned
<1>. QED BY <1>1 DEF Life

\* What a step of w alone leaves of the others' stages and ownership.
LEMMA OneWorkerStage ==
    ASSUME NEW w \in Worker, NEW s, Stage(w)' = s,
           \A v \in Worker \ {w} : pc'[v] = pc[v]
    PROVE  Stages' = [Stages EXCEPT ![w] = s]
<1>1. \A v \in Worker \ {w} : Stage(v)' = Stage(v)
  BY DEF Stage
<1>. QED BY <1>1 DEF Stages

LEMMA LeaveEffect ==
    ASSUME LoopTypes, NEW w \in Worker, Leave(w)
    PROVE  /\ msg' = [msg EXCEPT ![w] = NoMessage]
           /\ pc'[w] = "idle"
           /\ \A v \in Worker \ {w} : pc'[v] = pc[v] /\ msg'[v] = msg[v]
           /\ Stages' = [Stages EXCEPT ![w] = "idle"]
<1>1. /\ msg' = [msg EXCEPT ![w] = NoMessage] /\ pc'[w] = "idle"
      /\ \A v \in Worker \ {w} : pc'[v] = pc[v] /\ msg'[v] = msg[v]
  BY DEF Leave, LoopTypes
<1>2. Stage(w)' = "idle"
  BY <1>1 DEF Stage, Owning, RepositoryCalls
<1>. QED BY <1>1, <1>2, OneWorkerStage

\* An owner that leaves gives its block up.
LEMMA LeaveGivesUp ==
    ASSUME TypeInv, OwnerInv, NEW w \in Worker, pc[w] \in Owning, Leave(w),
           UNCHANGED <<blocks, claim, indexed, workCh>>
    PROVE  Indexing!GiveUp(w)
<1>0. PICK h \in Height : h = HeightOf(w)
  BY HeldFacts DEF Owning, RepositoryCalls
<1>1. LoopTypes /\ Owns(w, h)
  BY <1>0 DEF TypeInv, TypeOK, Owns, Owning, RepositoryCalls
<1>2. Lives[h] = "owned" /\ Stages[w] = "indexing"
  BY <1>1, LifeOwned DEF Lives, Stages, Stage
<1>3. Life(h)' = "abandoned"
  <2>1. h \in blocks /\ h \notin indexed /\ \A v \in Worker : Owns(v, h) => v = w
    BY <1>1 DEF OwnerInv, OneOwnerPerBlock
  <2>2. \A v \in Worker : ~Owns(v, h)'
    BY <1>1, <2>1, LeaveEffect DEF Owns, HeightOf, Owning, RepositoryCalls
  <2>. QED BY <2>1, <2>2 DEF Life, Abandoned
<1>4. ASSUME NEW g \in Height, g # h PROVE Life(g)' = Life(g)
  <2>1. \A v \in Worker : Owns(v, g)' <=> Owns(v, g)
    BY <1>1, <1>4, LeaveEffect DEF Owns, HeightOf, Owning, RepositoryCalls
  <2>. QED BY <2>1, SameLife
<1>5. Lives' = [Lives EXCEPT ![h] = "abandoned"]
  BY <1>1, <1>3, <1>4 DEF Lives
<1>. QED BY <1>0, <1>1, <1>2, <1>5, LeaveEffect
         DEF Indexing!GiveUp, Indexing!Becomes, Indexing!BecomesIdle, Lives, Stages, HeightOf

\* An owner that goes on is invisible.
LEMMA StayStutters ==
    ASSUME TypeInv, NEW w \in Worker, pc[w] \in Owning, pc'[w] \in Owning, msg' = msg,
           \A v \in Worker \ {w} : pc'[v] = pc[v],
           UNCHANGED <<blocks, claim, indexed, workCh>>
    PROVE  UNCHANGED Indexing!vars
<1>1. Stages' = Stages
  BY DEF Stages, Stage
<1>2. ASSUME NEW h \in Height PROVE Life(h)' = Life(h)
  <2>1. \A v \in Worker : Owns(v, h)' <=> Owns(v, h)
    BY DEF Owns, HeightOf
  <2>. QED BY <2>1, SameLife
<1>3. Lives' = Lives
  BY <1>2 DEF Lives
<1>. QED BY <1>1, <1>3 DEF Indexing!vars, Stages, Lives

---------------------------------------------------------------------------
(* The steps of a worker                                                   *)

\* Between taking a message and AddBlock's answer a worker owns nothing.
LEMMA NotOwningKeepsLives ==
    ASSUME NEW w \in Worker, pc[w] \notin Owning, pc'[w] \notin Owning,
           \A v \in Worker \ {w} : pc'[v] = pc[v] /\ msg'[v] = msg[v],
           UNCHANGED <<blocks, indexed>>
    PROVE  Lives' = Lives
<1>1. ASSUME NEW h \in Height PROVE Life(h)' = Life(h)
  <2>1. \A v \in Worker : Owns(v, h)' <=> Owns(v, h)
    BY DEF Owns, HeightOf
  <2>. QED BY <2>1, SameLife
<1>. QED BY <1>1 DEF Lives

LEMMA TakeJobTakes ==
    ASSUME TypeInv, NEW w \in Worker, TakeJob(w) PROVE Indexing!Take(w)
<1>1. /\ LoopTypes
      /\ pc[w] = "idle" /\ pc'[w] = "addBlock"
      /\ \A v \in Worker \ {w} : pc'[v] = pc[v] /\ msg'[v] = msg[v]
      /\ UNCHANGED <<blocks, indexed, claim>>
  BY DEF TypeInv, TypeOK, TakeJob, LoopTypes, dbVars, history
<1>2. Lives' = Lives
  BY <1>1, NotOwningKeepsLives DEF Owning, RepositoryCalls
<1>3. Stages[w] = "idle" /\ Stage(w)' = "asking"
  BY <1>1 DEF Stages, Stage, Owning, RepositoryCalls
<1>4. Stages' = [Stages EXCEPT ![w] = "asking"]
  BY <1>1, <1>3, OneWorkerStage
<1>. QED BY <1>1, <1>2, <1>3, <1>4 DEF TakeJob, Indexing!Take, Lives, Stages

LEMMA StopStutters ==
    ASSUME TypeInv, NEW w \in Worker, StopWorker(w) PROVE UNCHANGED Indexing!vars
<1>1. /\ pc[w] = "idle" /\ pc'[w] = "stopped" /\ msg' = msg
      /\ \A v \in Worker \ {w} : pc'[v] = pc[v]
      /\ UNCHANGED <<blocks, indexed, claim, workCh>>
  BY DEF TypeInv, TypeOK, StopWorker, Goto, LoopTypes, dbVars, history, WorkerFrame, chanVars
<1>2. Lives' = Lives
  BY <1>1, NotOwningKeepsLives DEF Owning, RepositoryCalls
<1>3. Stages' = Stages
  BY <1>1 DEF Stages, Stage, Owning, RepositoryCalls
<1>. QED BY <1>1, <1>2, <1>3 DEF Indexing!vars, Lives, Stages

\* AddBlock failed without effect, or the block exists.
LEMMA LeaveBeforeClaim ==
    ASSUME TypeInv, NEW w \in Worker, pc[w] = "addBlock", Leave(w),
           UNCHANGED <<blocks, claim, indexed, workCh>>
    PROVE  Indexing!Pass(w)
<1>1. LoopTypes
  BY DEF TypeInv, TypeOK
<1>2. Lives' = Lives
  BY <1>1, LeaveEffect, NotOwningKeepsLives DEF Owning, RepositoryCalls
<1>3. Stages[w] = "asking"
  BY DEF Stages, Stage, Owning, RepositoryCalls
<1>. QED BY <1>1, <1>2, <1>3, LeaveEffect
         DEF Indexing!Pass, Indexing!BecomesIdle, Lives, Stages

LEMMA AddBlockClaims ==
    ASSUME TypeInv, OwnerInv, NEW w \in Worker, AddBlock(w) PROVE Indexing!Claim(w)
<1>0. PICK h \in Height : h = HeightOf(w)
  BY HeldFacts DEF AddBlock
<1>1. /\ LoopTypes /\ pc[w] = "addBlock" /\ workCh' = workCh
      /\ h \notin blocks /\ blocks' = blocks \cup {h} /\ indexed' = indexed
      /\ claim' = [claim EXCEPT ![h] = msg[w]]
      /\ \A v \in Worker \ {w} : pc'[v] = pc[v] /\ msg'[v] = msg[v]
  BY <1>0, AddBlockOwners DEF TypeInv, TypeOK, AddBlock, WorkerFrame, chanVars
<1>2. Lives[h] = "absent" /\ Stages[w] = "asking" /\ h \notin indexed
  BY <1>1 DEF Lives, Life, Stages, Stage, Owning, RepositoryCalls, OwnerInv
<1>3. ASSUME NEW g \in Height, g # h PROVE Life(g)' = Life(g)
  <2>1. \A v \in Worker \ {w} : Owns(v, g)' <=> Owns(v, g)
    BY <1>1 DEF Owns, HeightOf
  <2>2. ~Owns(w, g) /\ ~Owns(w, g)'
    BY <1>0, <1>1, <1>3, AddBlockOwners DEF Owns, HeightOf, Owning, RepositoryCalls
  <2>. QED BY <1>1, <1>3, <2>1, <2>2, SameLife
<1>4. \A v \in Worker \ {w} : ~Owns(v, h)'
  BY <1>1 DEF Owns, HeightOf, OwnerInv, OneOwnerPerBlock
<1>5. CASE Leave(w)
  <2>1. ~Owns(w, h)'
    BY <1>1, <1>5, LeaveEffect DEF Owns, Owning, RepositoryCalls
  <2>2. Life(h)' = "abandoned"
    BY <1>1, <1>2, <1>4, <2>1 DEF Life, Abandoned
  <2>3. Lives' = [Lives EXCEPT ![h] = "abandoned"]
    BY <1>3, <2>2 DEF Lives
  <2>. QED BY <1>0, <1>1, <1>2, <1>5, <2>3, LeaveEffect
           DEF Indexing!Claim, Indexing!Becomes, Indexing!BecomesIdle, Lives, Stages, HeightOf
<1>6. ASSUME NEW s \in Owning, Goto(w, s) PROVE Indexing!Claim(w)
  <2>1. pc'[w] = s /\ msg' = msg /\ Owns(w, h)'
    BY <1>0, <1>1, <1>6 DEF Goto, LoopTypes, Owns, HeightOf
  <2>2. Life(h)' = "owned"
    BY <1>1, <1>2, <2>1 DEF Life, Abandoned
  <2>3. Lives' = [Lives EXCEPT ![h] = "owned"]
    BY <1>3, <2>2 DEF Lives
  <2>4. Stage(w)' = "indexing"
    BY <2>1 DEF Stage
  <2>5. Stages' = [Stages EXCEPT ![w] = "indexing"]
    BY <1>1, <2>4, OneWorkerStage
  <2>. QED BY <1>0, <1>1, <1>2, <2>1, <2>3, <2>5
           DEF Indexing!Claim, Indexing!Becomes, Lives, Stages, HeightOf
<1>. QED BY <1>5, <1>6 DEF AddBlock, Fails, Owning, RepositoryCalls

LEMMA FinishBlockFinishes ==
    ASSUME TypeInv, OwnerInv, NEW w \in Worker, FinishBlock(w) PROVE Indexing!Finish(w)
<1>0. PICK h \in Height : h = HeightOf(w)
  BY HeldFacts DEF FinishBlock, Parsing
<1>1. /\ LoopTypes /\ Owns(w, h) /\ Leave(w)
      /\ UNCHANGED <<blocks, claim, workCh>> /\ indexed' = indexed \cup {h}
  BY <1>0, FinishBlockOwners
     DEF TypeInv, TypeOK, FinishBlock, Parsing, WorkerFrame, chanVars
<1>2. Lives[h] = "owned" /\ Stages[w] = "indexing" /\ h \in blocks
  BY <1>1, LifeOwned DEF Lives, Stages, Stage, Owns, OwnerInv, OneOwnerPerBlock
<1>3. Life(h)' = "indexed"
  BY <1>1, <1>2 DEF Life
<1>4. ASSUME NEW g \in Height, g # h PROVE Life(g)' = Life(g)
  <2>1. \A v \in Worker : Owns(v, g)' <=> Owns(v, g)
    BY <1>0, <1>1, <1>4, LeaveEffect DEF Owns, HeightOf, Owning, RepositoryCalls
  <2>. QED BY <1>1, <1>4, <2>1, SameLife
<1>5. Lives' = [Lives EXCEPT ![h] = "indexed"]
  BY <1>3, <1>4 DEF Lives
<1>. QED BY <1>0, <1>1, <1>2, <1>5, LeaveEffect
         DEF Indexing!Finish, Indexing!Becomes, Indexing!BecomesIdle, Lives, Stages, HeightOf

\* Every other step of an owner keeps it an owner, or is an error.
LEMMA OwnerStepMaps ==
    ASSUME TypeInv, OwnerInv, NEW w \in Worker, WorkerStep(w), pc[w] \in Owning,
           ~FinishBlock(w)
    PROVE  Indexing!GiveUp(w) \/ UNCHANGED Indexing!vars
<1>0. LoopTypes
  BY DEF TypeInv, TypeOK
<1>1. UNCHANGED <<blocks, claim, indexed, workCh>>
  BY DEF WorkerStep, TakeJob, StopWorker, CallFails, AddBlock, SkipBlock, AddTransactions,
         EndOfEvents, SkipEvent, RejectValue, BeginEvent, Parsing, GetFrom, AddFrom, GetTo,
         AddTo, IncFrom, IncTo, AddTransfers, GetAccount, AddAccount, Increment, dbVars,
         history, Owning, RepositoryCalls, WorkerFrame, chanVars
<1>2. \/ Leave(w) \/ NextEvent(w) \/ NextTx(w)
      \/ \E s \in Owning : Goto(w, s)
  <2>1. ~TakeJob(w) /\ ~StopWorker(w) /\ ~AddBlock(w) /\ ~SkipBlock(w)
    BY DEF TakeJob, StopWorker, AddBlock, SkipBlock, Owning, RepositoryCalls
  <2>2. CASE CallFails(w)
    BY <2>2 DEF CallFails, Fails
  <2>3. CASE AddTransactions(w) \/ EndOfEvents(w) \/ SkipEvent(w) \/ RejectValue(w)
             \/ BeginEvent(w)
    BY <2>3 DEF AddTransactions, EndOfEvents, SkipEvent, RejectValue, BeginEvent,
                Parsing, Fails, Owning, RepositoryCalls
  <2>4. CASE GetFrom(w) \/ AddFrom(w) \/ GetTo(w) \/ AddTo(w)
    BY <2>4 DEF GetFrom, AddFrom, GetTo, AddTo, GetAccount, AddAccount, AfterFrom,
                AfterTo, Fails, Owning, RepositoryCalls
  <2>5. CASE IncFrom(w) \/ IncTo(w) \/ AddTransfers(w)
    BY <2>5 DEF IncFrom, IncTo, AddTransfers, Increment, Fails, Owning, RepositoryCalls
  <2>. QED BY <2>1, <2>2, <2>3, <2>4, <2>5 DEF WorkerStep
<1>3. CASE Leave(w)
  BY <1>1, <1>3, LeaveGivesUp
<1>4. CASE NextEvent(w) \/ NextTx(w) \/ \E s \in Owning : Goto(w, s)
  <2>1. /\ pc'[w] \in Owning /\ msg' = msg
        /\ \A v \in Worker \ {w} : pc'[v] = pc[v]
    BY <1>0, <1>4 DEF LoopTypes, NextEvent, NextTx, Goto, Owning, RepositoryCalls
  <2>. QED BY <1>1, <2>1, StayStutters
<1>. QED BY <1>2, <1>3, <1>4

LEMMA WorkerStepMaps ==
    ASSUME TypeInv, OwnerInv, NEW w \in Worker, WorkerStep(w)
    PROVE  Indexing!WorkerStep(w) \/ UNCHANGED Indexing!vars
<1>1. CASE FinishBlock(w)
  BY <1>1, FinishBlockFinishes DEF Indexing!WorkerStep
<1>2. CASE pc[w] \in Owning /\ ~FinishBlock(w)
  BY <1>2, OwnerStepMaps DEF Indexing!WorkerStep
<1>3. CASE pc[w] = "addBlock"
  <2>1. CASE AddBlock(w)
    BY <2>1, AddBlockClaims DEF Indexing!WorkerStep
  <2>2. CASE CallFails(w) \/ SkipBlock(w)
    BY <1>3, <2>2, LeaveBeforeClaim DEF CallFails, SkipBlock, Fails, dbVars, history,
       WorkerFrame, chanVars, Indexing!WorkerStep
  <2>. QED BY <1>3, <2>1, <2>2 DEF WorkerStep, TakeJob, StopWorker, AddTransactions,
       FinishBlock, EndOfEvents, SkipEvent, RejectValue, BeginEvent, Parsing, GetFrom,
       AddFrom, GetTo, AddTo, IncFrom, IncTo, AddTransfers
<1>4. CASE pc[w] \in {"idle", "stopped"}
  <2>1. TakeJob(w) \/ StopWorker(w)
    BY <1>4 DEF WorkerStep, CallFails, RepositoryCalls, AddBlock, SkipBlock, AddTransactions,
       FinishBlock, EndOfEvents, SkipEvent, RejectValue, BeginEvent, Parsing, GetFrom,
       AddFrom, GetTo, AddTo, IncFrom, IncTo, AddTransfers
  <2>. QED BY <2>1, TakeJobTakes, StopStutters DEF Indexing!WorkerStep
<1>. QED BY <1>1, <1>2, <1>3, <1>4 DEF TypeInv, TypeOK, LoopTypes, WorkerSteps

---------------------------------------------------------------------------
(* The environment                                                         *)

LEMMA RestartDies ==
    ASSUME TypeInv, OwnerInv, Restart PROVE Indexing!Die
<1>1. /\ UNCHANGED <<blocks, indexed, claim>> /\ workCh' = << >>
      /\ msg' = [w \in Worker |-> NoMessage] /\ pc' = [w \in Worker |-> "idle"]
  BY DEF Restart, dbVars, history
<1>2. Stages' = [w \in Worker |-> "idle"]
  BY <1>1 DEF Stages, Stage, Owning, RepositoryCalls
<1>3. ASSUME NEW h \in Height
      PROVE  Life(h)' = IF Life(h) = "owned" THEN "abandoned" ELSE Life(h)
  <2>1. \A w \in Worker : ~Owns(w, h)'
    BY <1>1 DEF Owns, Owning, RepositoryCalls
  <2>2. h \in Abandoned' <=> h \in blocks \ indexed
    BY <1>1, <2>1 DEF Abandoned
  <2>3. h \in Abandoned => h \in blocks \ indexed
    BY DEF Abandoned
  <2>. QED BY <1>1, <2>2, <2>3 DEF Life
<1>4. Lives' = [h \in Height |-> IF Lives[h] = "owned" THEN "abandoned" ELSE Lives[h]]
  BY <1>3 DEF Lives
<1>. QED BY <1>1, <1>2, <1>4 DEF Indexing!Die, Lives, Stages

LEMMA UnmovedStutters ==
    ASSUME UNCHANGED <<blocks, indexed, claim, workCh, pc, msg>>
    PROVE  UNCHANGED Indexing!vars
<1>1. Stages' = Stages
  BY DEF Stages, Stage
<1>2. ASSUME NEW h \in Height PROVE Life(h)' = Life(h)
  <2>1. \A v \in Worker : Owns(v, h)' <=> Owns(v, h)
    BY DEF Owns, HeightOf
  <2>. QED BY <2>1, SameLife
<1>3. Lives' = Lives
  BY <1>2 DEF Lives
<1>. QED BY <1>1, <1>3 DEF Indexing!vars, Stages, Lives

LEMMA DeliverMaps ==
    ASSUME TypeInv, NEW m \in Messages, Deliver(m)
    PROVE  Indexing!Accept(m) \/ Indexing!Drop(m)
<1>1. UNCHANGED <<blocks, indexed, claim, pc, msg>>
  BY DEF Deliver, dbVars, loopVars, history
<1>2. Stages' = Stages
  BY <1>1 DEF Stages, Stage
<1>3. ASSUME NEW h \in Height PROVE Life(h)' = Life(h)
  <2>1. \A v \in Worker : Owns(v, h)' <=> Owns(v, h)
    BY <1>1 DEF Owns, HeightOf
  <2>. QED BY <1>1, <2>1, SameLife
<1>4. Lives' = Lives
  BY <1>3 DEF Lives
<1>5. Len(workCh) \in Nat /\ WorkChCap \in Nat
  BY BoundsAssumption DEF TypeInv, TypeOK, ChannelTypes
<1>6. CASE Len(workCh) < WorkChCap
  BY <1>1, <1>2, <1>4, <1>5, <1>6 DEF Deliver, Indexing!Accept, Indexing!Full, Stages, Lives
<1>7. CASE ~(Len(workCh) < WorkChCap)
  BY <1>1, <1>2, <1>4, <1>5, <1>7
     DEF Deliver, Indexing!Drop, Indexing!Full, Indexing!vars, Stages, Lives
<1>. QED BY <1>6, <1>7

LEMMA StepMaps ==
    ASSUME TypeInv, OwnerInv, [Next]_vars
    PROVE  [Indexing!Next]_(Indexing!vars)
<1>1. CASE UNCHANGED vars
  BY <1>1, UnmovedStutters DEF vars, dbVars, loopVars, chanVars, history
<1>2. ASSUME NEW m \in Messages, Deliver(m) PROVE Indexing!Next
  BY <1>2, DeliverMaps DEF Indexing!Next
<1>3. CASE Cancel \/ CloseWorkCh
  BY <1>3, UnmovedStutters DEF Cancel, CloseWorkCh, dbVars, loopVars, history
<1>4. CASE Crash \/ SendOnClosed
  BY <1>4, RestartDies DEF Crash, SendOnClosed, Indexing!Next
<1>5. ASSUME NEW w \in Worker, WorkerStep(w) PROVE [Indexing!Next]_(Indexing!vars)
  BY <1>5, WorkerStepMaps DEF Indexing!Next
<1>. QED BY <1>1, <1>2, <1>3, <1>4, <1>5 DEF Next, Environment

\* The event processor implements the abstract one: a block is claimed at most
\* once, by one worker for one message, and ends as indexed or abandoned for good,
\* whatever the repository calls, the redeliveries and the crashes do.
THEOREM ImplementsBlockIndexing == Spec => IndexesBlocks
<1>1. Init => Indexing!Init
  <2>1. ASSUME Init, NEW w \in Worker PROVE Stage(w) = "idle"
    BY <2>1 DEF Init, Stage, Owning, RepositoryCalls
  <2>2. ASSUME Init, NEW h \in Height PROVE Life(h) = "absent"
    BY <2>2 DEF Init, DBInit, Life
  <2>. QED BY <2>1, <2>2 DEF Init, Indexing!Init
<1>2. Init => OwnerInv
  BY DEF Init, DBInit, OwnerInv, OneOwnerPerBlock, Owns, Owning, RepositoryCalls
<1>3. TypeInv /\ OwnerInv /\ [Next]_vars => [Indexing!Next]_(Indexing!vars)
  BY StepMaps
<1>. QED BY <1>1, <1>2, <1>3, OwnerInvStep, TypeInvInit, TypeInvStep, PTL
         DEF Spec, IndexesBlocks, Indexing!Spec
===========================================================================
