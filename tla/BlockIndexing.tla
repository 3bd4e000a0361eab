--------------------------- MODULE BlockIndexing ---------------------------
(***************************************************************************)
(* What an event processor promises, without its repository calls: messages *)
(* wait in a bounded inbox, each worker handles one at a time, and a block  *)
(* goes from absent to owned by one worker and on to indexed or abandoned,  *)
(* both for good.  EventProcessor implements this; Indexer composes it with *)
(* the broker.                                                              *)
(***************************************************************************)
EXTENDS Naturals, Sequences

CONSTANTS Height,     \* block heights
          Worker,     \* the workers
          Messages,   \* records with a field height
          Capacity,   \* how many messages may wait
          NoMessage   \* what an idle worker has

VARIABLES waiting,    \* accepted messages no worker has taken
          job,        \* the message each worker handles
          stage,      \* "idle", "asking" for its block, or "indexing" it
          life,       \* each block: "absent", "owned", "indexed", "abandoned"
          content     \* the message a block was claimed with

vars == <<waiting, job, stage, life, content>>

Init == /\ waiting = << >>
        /\ job = [w \in Worker |-> NoMessage]
        /\ stage = [w \in Worker |-> "idle"]
        /\ life = [h \in Height |-> "absent"]
        /\ content = [h \in Height |-> NoMessage]

\* Variant for a mutation run: one message too many.
FullTooLate == Len(waiting) > Capacity

Full == Len(waiting) >= Capacity

\* A message is accepted, or dropped when the inbox is full.
Accept(m) == /\ ~Full
             /\ waiting' = Append(waiting, m)
             /\ UNCHANGED <<job, stage, life, content>>
Drop(m) == Full /\ UNCHANGED vars

Take(w) == /\ stage[w] = "idle" /\ waiting # << >>
           /\ waiting' = Tail(waiting)
           /\ job' = [job EXCEPT ![w] = Head(waiting)]
           /\ stage' = [stage EXCEPT ![w] = "asking"]
           /\ UNCHANGED <<life, content>>

BecomesIdle(w) == /\ job' = [job EXCEPT ![w] = NoMessage]
                  /\ stage' = [stage EXCEPT ![w] = "idle"]
                  /\ UNCHANGED waiting
Becomes(w, phase) == life' = [life EXCEPT ![job[w].height] = phase]

\* Variant for a mutation run: a block that exists is replaced.
ClaimAgain(w) == /\ stage[w] = "asking" /\ life[job[w].height] # "owned"
                 /\ content' = [content EXCEPT ![job[w].height] = job[w]]
                 /\ Becomes(w, "owned")
                 /\ stage' = [stage EXCEPT ![w] = "indexing"]
                 /\ UNCHANGED <<job, waiting>>

\* The worker gets its block, for the message it holds; the claim may take
\* effect and still be reported as failed.
Claim(w) == /\ stage[w] = "asking" /\ life[job[w].height] = "absent"
            /\ content' = [content EXCEPT ![job[w].height] = job[w]]
            /\ \/ /\ Becomes(w, "owned")
                  /\ stage' = [stage EXCEPT ![w] = "indexing"]
                  /\ UNCHANGED <<job, waiting>>
               \/ Becomes(w, "abandoned") /\ BecomesIdle(w)

\* The block was claimed before, or the claim failed without effect.
Pass(w) == stage[w] = "asking" /\ BecomesIdle(w) /\ UNCHANGED <<life, content>>

Finish(w) == /\ stage[w] = "indexing" /\ life[job[w].height] = "owned"
             /\ Becomes(w, "indexed") /\ BecomesIdle(w) /\ UNCHANGED content
GiveUp(w) == /\ stage[w] = "indexing" /\ life[job[w].height] = "owned"
             /\ Becomes(w, "abandoned") /\ BecomesIdle(w) /\ UNCHANGED content

\* The process dies: what waits and what is at work is gone.
Die == /\ waiting' = << >>
       /\ job' = [w \in Worker |-> NoMessage]
       /\ stage' = [w \in Worker |-> "idle"]
       /\ life' = [h \in Height |-> IF life[h] = "owned" THEN "abandoned" ELSE life[h]]
       /\ UNCHANGED content

WorkerStep(w) == Take(w) \/ Claim(w) \/ Pass(w) \/ Finish(w) \/ GiveUp(w)
Next == \/ \E m \in Messages : Accept(m) \/ Drop(m)
        \/ \E w \in Worker : WorkerStep(w)
        \/ Die

Spec == Init /\ [][Next]_vars
=============================================================================
