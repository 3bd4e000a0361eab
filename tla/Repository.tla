---------------------------- MODULE Repository ----------------------------
(***************************************************************************)
(* The PostgreSQL tables behind src/repository/repository_ent.go, as the   *)
(* event processor uses them, with one operator per repository call.       *)
(* Every call is one SQL statement (or one implicit transaction), so it is *)
(* one step; the operators are meant to be conjoined into the actions of   *)
(* the module that calls them.  An operator named ...Allowed is the check  *)
(* that ent's builder or the database makes before the statement takes     *)
(* effect.  Column data that no decision and no property reads (hash and   *)
(* time of a block, gas, memo, denomination, creation times) is left out.  *)
(***************************************************************************)
EXTENDS Integers, Sequences

CONSTANTS Height,      \* block heights: the primary key of table blocks
          Address,     \* account addresses
          Token,       \* token paths (the pkg_path of an event)
          Hash,        \* transaction hashes
          Name,        \* names of event types and functions
          NoAddress,   \* the empty address string
          NoToken      \* the empty token string

ASSUME EmptyStrings == NoAddress \notin Address /\ NoToken \notin Token

VARIABLES blocks,        \* heights that have a row in table blocks
          transactions,  \* transactions[h]: rows whose block edge is h
          accounts,      \* rows of table accounts
          transfers      \* transfers[x]: the bulk inserts made for transaction hash x

dbVars == <<blocks, transactions, accounts, transfers>>

AccountRow == [address : Address, token : Token, amount : Int]
\* A row of one bulk insert into transfers; 'event' is its place in the bulk.
TransferRow == [event : Nat, func : Name,
                from : Address \cup {NoAddress}, to : Address \cup {NoAddress},
                token : Token, amount : Nat \ {0}]

DBInit == /\ blocks = {}
          /\ transactions = [h \in Height |-> << >>]
          /\ accounts = {}
          /\ transfers = [x \in Hash |-> << >>]

---------------------------------------------------------------------------
(* Blocks and transactions                                                 *)

\* Variants for mutation runs: an upsert never reports a conflict; a row without
\* transactions is taken for unfinished work.
BlockNeverExists(h) == FALSE
BlockHasTransactions(h) == h \in blocks /\ transactions[h] # << >>

\* AddBlock's "exists" result: the primary key is the height.
BlockExists(h) == h \in blocks

InsertBlock(h) == blocks' = blocks \cup {h}

\* One bulk INSERT; rows are tied to the block by their block edge, whatever
\* height the transaction itself carries.
InsertTransactions(h, txs) ==
    transactions' = [transactions EXCEPT ![h] = @ \o txs]

---------------------------------------------------------------------------
(* Accounts                                                                *)

\* Variant for a mutation run: the lookup is by address alone.
MatchingAddress(a, t) == {r \in accounts : a # NoAddress => r.address = a}

\* The rows GetAccount's WHERE selects: an empty argument drops its filter.
MatchingAccounts(a, t) ==
    {r \in accounts : /\ a # NoAddress => r.address = a
                      /\ t # NoToken => r.token = t}

\* The three outcomes of ent's Only: not found, the one row, not singular.
AccountMissing(a, t) == MatchingAccounts(a, t) = {}
AccountFound(a, t) == \E r \in accounts : MatchingAccounts(a, t) = {r}
AccountAmbiguous(a, t) == ~AccountMissing(a, t) /\ ~AccountFound(a, t)

\* Both columns are NotEmpty, and the primary key is the address alone.
AddAccountAllowed(a, t) ==
    /\ a # NoAddress
    /\ t # NoToken
    /\ \A r \in accounts : r.address # a

InsertAccount(a, t) ==
    accounts' = accounts \cup {[address |-> a, token |-> t, amount |-> 0]}

\* Variants for mutation runs: SetAmount for AddAmount, no filter on the token.
SetAccountBalance(a, t, d) ==
    accounts' = {IF r.address = a /\ r.token = t
                   THEN [r EXCEPT !.amount = d] ELSE r : r \in accounts}
IncrementAddressBalance(a, t, d) ==
    accounts' = {IF r.address = a
                   THEN [r EXCEPT !.amount = @ + d] ELSE r : r \in accounts}

\* UPDATE accounts SET amount = amount + d WHERE address = a AND token = t.
\* No matching row is not an error.
IncrementAccountBalance(a, t, d) ==
    accounts' = {IF r.address = a /\ r.token = t
                   THEN [r EXCEPT !.amount = @ + d] ELSE r : r \in accounts}

---------------------------------------------------------------------------
(* Transfers                                                               *)

\* A foreign key to accounts.address; the empty string is stored as NULL.
Referenced(a) == a = NoAddress \/ \E r \in accounts : r.address = a

\* The column checks and foreign keys of one bulk INSERT into transfers: the
\* statement takes every row or none.
AddTransfersAllowed(rows) ==
    \A r \in rows : /\ r.amount > 0
                    /\ r.func # ""
                    /\ r.token # NoToken
                    /\ Referenced(r.from)
                    /\ Referenced(r.to)

InsertTransfers(x, rows) ==
    transfers' = [transfers EXCEPT ![x] = Append(@, rows)]
===========================================================================
