--------------------------- MODULE EntTransaction ---------------------------
(***************************************************************************)
(* The Transaction entity of the generated client.  Its block edge is the  *)
(* column block_transactions, next to the field block_height.              *)
(***************************************************************************)
EXTENDS Ent

TransactionColumns ==
    {"id", "index", "hash", "success", "block_height", "gas_wanted", "gas_used", "memo",
     "gas_fee", "messages", "response", "created_at", "block_transactions"}
TransactionFields ==
    [required |-> {"index", "hash", "success", "block_height", "gas_wanted", "gas_used",
                   "created_at"},
     notEmpty |-> {"hash"}, positive |-> {}]

\* The hash is not unique.
TransactionsTable ==
    [name |-> "transactions", id |-> "id", serial |-> TRUE,
     columns |-> TransactionColumns, unique |-> {{"id"}},
     foreign |-> {[column |-> "block_transactions", table |-> "blocks", refers |-> "height"]}]

---------------------------------------------------------------------------
(* Mutations and builders                                                  *)

TransactionMutation == NewMutation

\* SetIndex, SetHash, SetSuccess
SetTransactionIdentity(m, index, hash, success) ==
    SetFields(m, [index |-> index, hash |-> hash, success |-> success])
\* SetBlockHeight
SetTransactionHeight(m, height) == SetFields(m, [block_height |-> height])
\* SetGasWanted, SetGasUsed
SetTransactionGas(m, wanted, used) ==
    SetFields(m, [gas_wanted |-> wanted, gas_used |-> used])
\* SetMemo, SetGasFee, SetMessages
SetTransactionBody(m, memo, fee, messages) ==
    SetFields(m, [memo |-> memo, gas_fee |-> fee, messages |-> messages])
\* SetResponse, SetCreatedAt, SetBlockID
SetTransactionEdges(m, response, created, block) ==
    SetFields(m, [response |-> response, created_at |-> created, block |-> block])

\* Transaction.Create() with its setters
TransactionCreate(tx, blockNum, now) ==
    SetTransactionEdges(
        SetTransactionBody(
            SetTransactionGas(
                SetTransactionHeight(
                    SetTransactionIdentity(TransactionMutation, tx.index, tx.hash, tx.success),
                    tx.block_height),
                tx.gas_wanted, tx.gas_used),
            tx.memo, tx.gas_fee, tx.messages),
        tx.response, now, blockNum)
TransactionDefaults(m, start) ==
    WithDefaults(m, [success |-> FALSE, created_at |-> start])

\* The edge becomes the foreign key column.
TransactionSpec(m) ==
    RowOf(TransactionsTable, SetFields(m, [block_transactions |-> m.set.block]))
SaveTransaction(db, m, start) ==
    LET d == TransactionDefaults(m, start)
    IN  Create(db, TransactionsTable, TransactionFields, d, TransactionSpec(d))
SaveTransactions(db, ms, start) ==
    LET ds == [i \in DOMAIN ms |-> TransactionDefaults(ms[i], start)]
    IN  CreateBulk(db, TransactionsTable, TransactionFields, ds,
                   [i \in DOMAIN ds |-> TransactionSpec(ds[i])])

---------------------------------------------------------------------------
(* Predicates and queries                                                  *)

TransactionHashEQ(hash) == EQ("hash", hash)
BlockHeightEQ(height) == EQ("block_height", height)

TransactionQuery == NewQuery

\* scanValues and assignValues
TransactionNode(r) ==
    [index |-> r.index, hash |-> r.hash, success |-> r.success,
     block_height |-> r.block_height, gas_wanted |-> r.gas_wanted, gas_used |-> r.gas_used,
     memo |-> Scanned(r, "memo", ""), gas_fee |-> Scanned(r, "gas_fee", ""),
     messages |-> Scanned(r, "messages", << >>), response |-> Scanned(r, "response", "")]

TransactionQuerySpec(db, q) == Select(db, TransactionsTable, q)
SelectTransactions(db, q) ==
    LET s == TransactionQuerySpec(db, q) IN [i \in DOMAIN s |-> TransactionNode(s[i])]
AllTransactions(db, q) == All(db, TransactionsTable, q, SelectTransactions(db, q))
OnlyTransaction(db, q) == OnlyOf(AllTransactions(db, Limit(q, 2)))
=============================================================================
