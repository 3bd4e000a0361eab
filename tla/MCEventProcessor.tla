------------------------- MODULE MCEventProcessor -------------------------
(* Small instances of EventProcessor: the messages its runs deliver.       *)
EXTENDS EventProcessorLedger

CONSTANTS a1, a2,   \* addresses
          k1, k2,   \* tokens
          x1, x2, x3 \* transaction hashes

Ev(type, func, from, to, token, value) ==
    [type |-> type, func |-> func, from |-> from, to |-> to,
     token |-> token, value |-> value]
Minted(to, token, v) == Ev("Transfer", "Mint", NoAddress, to, token, v)
Burnt(from, token, v) == Ev("Transfer", "Burn", from, NoAddress, token, v)
Sent(from, to, token, v) == Ev("Transfer", "Transfer", from, to, token, v)
Approved(owner, spender, token, v) == Ev("Approval", "Approve", owner, spender, token, v)

Block(h, txs) == [height |-> h, txs |-> txs]
OneTx(h, hash, events) == Block(h, <<[hash |-> hash, events |-> events]>>)

\* Blocks that race on the accounts a1 and a2 of token k1, and a second message
\* for height 2 that carries a transaction of height 1.
RacingMessages ==
    {OneTx(1, x1, <<Minted(a1, k1, 3), Sent(a1, a2, k1, 2)>>),
     OneTx(2, x2, <<Sent(a2, a1, k1, 1), Burnt(a2, k1, 1)>>),
     OneTx(2, x1, <<Minted(a1, k1, 3), Sent(a1, a2, k1, 2)>>)}

\* Events at the edges of the handlers: skipped ones, empty addresses and
\* tokens, values that do not parse or that the transfers table rejects, a
\* second token for an address, a transfer row whose accounts do not exist.
OddMessages ==
    {Block(1, <<>>),
     OneTx(1, x1, <<Approved(a1, a2, k1, 1)>>),
     Block(1, <<[hash |-> x1, events |-> <<Minted(a1, k1, 2)>>],
                [hash |-> x2, events |-> <<Burnt(a1, k1, 1), Minted(NoAddress, k1, 1)>>]>>),
     OneTx(2, x2, <<Minted(a2, k1, 1), Minted(a1, k1, BadValue)>>),
     OneTx(3, x3, <<Sent(NoAddress, a1, k1, 1)>>),
     OneTx(2, x2, <<Sent(a2, NoAddress, k1, 1), Burnt(NoAddress, k1, 1)>>),
     OneTx(2, x2, <<Minted(a2, k2, 1), Minted(a2, NoToken, 1)>>),
     OneTx(3, x3, <<Minted(a1, k2, 1)>>),
     OneTx(3, x3, <<Sent(a2, a1, k1, 0)>>),
     OneTx(3, x3, <<Ev("transfer", "Stake", a1, a2, k1, 1)>>)}

\* Well-formed blocks of one token that touch the same new account.
NewAccountMessages ==
    {OneTx(1, x1, <<Minted(a1, k1, 1)>>), OneTx(2, x2, <<Minted(a1, k1, 1)>>)}

\* Well-formed blocks that give one address two tokens.
TwoTokenMessages ==
    {OneTx(1, x1, <<Minted(a1, k1, 1)>>), OneTx(2, x2, <<Minted(a1, k2, 1)>>)}

\* A block whose second event has no 'from', after one that gives the account
\* the look-up by token alone then finds.
EmptySenderMessages ==
    {OneTx(1, x1, <<Minted(a1, k1, 2), Sent(NoAddress, a1, k1, 1)>>)}

\* The workers are interchangeable: no step compares them.
WorkerSymmetry == Permutations(Worker)
===========================================================================
