-------------------------- MODULE BlockPublishing --------------------------
(***************************************************************************)
(* What a block synchronizer promises, without its windows, channels and    *)
(* cursor: every message it publishes is of a block of the chain, either a   *)
(* restored block with its transactions, or a live block with nothing but    *)
(* transactions of the next block.  BlockSynchronizer implements this;       *)
(* Indexer composes it with the broker.                                      *)
(***************************************************************************)
EXTENDS Integers

CONSTANTS MaxHeight,  \* bound: the chain's last block
          FirstTip,   \* the chain's height when the synchronizer first starts
          TxHeights   \* the blocks that have transactions

VARIABLES tip,        \* the chain's last block
          topic       \* the messages published so far

Init == tip = FirstTip /\ topic = {}

Grow == tip < MaxHeight /\ tip' = tip + 1 /\ UNCHANGED topic

\* Variant for a mutation run: transactions grouped under the next height.
RestoredShifted ==
    {[block |-> h, txs |-> TxHeights \cap {h - 1}, by |-> "restore"] : h \in 2 .. tip}

\* The first block of a chain is never restored.
RestoredMessages ==
    {[block |-> h, txs |-> TxHeights \cap {h}, by |-> "restore"] : h \in 2 .. tip}
LiveMessages ==
    {[block |-> h, txs |-> t, by |-> "live"] :
        h \in FirstTip + 1 .. tip, t \in SUBSET TxHeights}
Publishable ==
    RestoredMessages \cup {m \in LiveMessages : m.txs \subseteq {m.block + 1}}

Publish(m) == topic' = topic \cup {m} /\ UNCHANGED tip

Next == Grow \/ \E m \in Publishable : Publish(m)
Spec == Init /\ [][Next]_<<tip, topic>>
===========================================================================
