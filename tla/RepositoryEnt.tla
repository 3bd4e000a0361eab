--------------------------- MODULE RepositoryEnt ---------------------------
(***************************************************************************)
(* src/repository/repository_ent.go and the block synchronizer's own       *)
(* repository, written with the builders of the generated client: a call   *)
(* that writes is an operator from a database to a result with the new     *)
(* database, a call that reads one to a result with a value.  An error of  *)
(* the client reaches the caller as "error".  A model value (a block, a    *)
(* transaction, a transfer) is a record with the names of model.go's JSON  *)
(* tags; a list is a sequence.                                             *)
(***************************************************************************)
EXTENDS EntAccount, EntBlock, EntTransaction, EntTransfer, EntRestoreHistory

\* time.Now(), which no statement compares.
Now == "now"

\* strings.ToLower, on the spellings the events use.
ToLower(s) == IF s = "Transfer" THEN "transfer" ELSE s

\* The database after schema creation.
NewRepositoryEnt ==
    [accounts |-> {}, blocks |-> {}, restore_histories |-> {}, transactions |-> {},
     transfers |-> {}]

\* What a call that writes reports.
Written(result) == [db |-> result.db, err |-> IF result.err = "none" THEN "none" ELSE "error"]

\* What a call that reads returns: NotFound is an answer of its own for some calls.
Value(v) == [value |-> v, err |-> "none"]
ReadError == [value |-> Null, err |-> "error"]

---------------------------------------------------------------------------
(* Conversions between model and schema types                              *)

convertMessagesToSchema(messages) ==
    [i \in DOMAIN messages |->
        [route |-> messages[i].route, typeUrl |-> messages[i].typeUrl,
         value |-> messages[i].value]]
convertSchemaMessagesToModel(messages) ==
    [i \in DOMAIN messages |->
        [route |-> messages[i].route, typeUrl |-> messages[i].typeUrl,
         value |-> messages[i].value]]

convertResponseToSchema(r) ==
    [log |-> r.log, info |-> r.info, error |-> r.error, data |-> r.data,
     events |-> [i \in DOMAIN r.events |->
                    [type |-> r.events[i].type, func |-> r.events[i].func,
                     pkg_path |-> r.events[i].pkg_path, attrs |-> r.events[i].attrs]]]
convertSchemaResponseToModel(r) ==
    [log |-> r.log, info |-> r.info, error |-> r.error, data |-> r.data,
     events |-> [i \in DOMAIN r.events |->
                    [type |-> r.events[i].type, func |-> r.events[i].func,
                     pkg_path |-> r.events[i].pkg_path, attrs |-> r.events[i].attrs]]]

ModelBlock(n) == [hash |-> n.hash, height |-> n.id, time |-> n.time,
                  total_txs |-> n.total_txs, num_txs |-> n.num_txs]
ModelTransaction(n) ==
    [index |-> n.index, hash |-> n.hash, success |-> n.success,
     block_height |-> n.block_height, gas_wanted |-> n.gas_wanted, gas_used |-> n.gas_used,
     memo |-> n.memo, gas_fee |-> n.gas_fee,
     messages |-> convertSchemaMessagesToModel(n.messages),
     response |-> convertSchemaResponseToModel(n.response)]

---------------------------------------------------------------------------
(* Blocks                                                                  *)

GetHighestBlock(db) ==
    LET r == FirstBlock(db, Desc(BlockQuery, "height"))
    IN  IF r.err # "none" THEN ReadError ELSE Value(ModelBlock(r.nodes[1]))

\* A constraint error means that the block exists.
AddBlock(db, block) ==
    LET r == SaveBlock(db, BlockCreate(block, Now), Now)
    IN  [db |-> r.db, exists |-> IsConstraintError(r),
         err |-> IF r.err \in {"none", "constraint"} THEN "none" ELSE "error"]

AddBlocks(db, blocks) ==
    IF blocks = << >> THEN [db |-> db, err |-> "none"]
    ELSE Written(SaveBlocks(db, [i \in DOMAIN blocks |-> BlockCreate(blocks[i], Now)], Now))

GetBlock(db, blockNum) ==
    LET r == OnlyBlock(db, Where(BlockQuery, {BlockIDEQ(blockNum)}))
    IN  IF r.err # "none" THEN ReadError ELSE Value(ModelBlock(r.nodes[1]))

GetBlocks(db, offset, limit) ==
    LET r == AllBlocks(db, Desc(Limit(Offset(BlockQuery, offset), limit), "height"))
    IN  IF r.err # "none" THEN ReadError
        ELSE Value([i \in DOMAIN r.nodes |-> ModelBlock(r.nodes[i])])

---------------------------------------------------------------------------
(* Transactions                                                            *)

\* The builder of one row; the conversions to the schema's types come first.
NewTransaction(blockNum, tx) ==
    TransactionCreate([tx EXCEPT !.messages = convertMessagesToSchema(@),
                                 !.response = convertResponseToSchema(@)], blockNum, Now)

AddTransaction(db, blockNum, tx) ==
    Written(SaveTransaction(db, NewTransaction(blockNum, tx), Now))

\* A constraint error is taken for transactions that exist already, and no error.
AddTransactions(db, blockNum, txs) ==
    IF txs = << >> THEN [db |-> db, err |-> "none"]
    ELSE LET r == SaveTransactions(db, [i \in DOMAIN txs |-> NewTransaction(blockNum, txs[i])],
                                   Now)
         IN  [db |-> r.db,
              err |-> IF IsConstraintError(r) \/ r.err = "none" THEN "none" ELSE "error"]

GetTransaction(db, txHash) ==
    LET r == OnlyTransaction(db, Where(TransactionQuery, {TransactionHashEQ(txHash)}))
    IN  IF r.err # "none" THEN ReadError ELSE Value(ModelTransaction(r.nodes[1]))

\* The field block_height selects, not the edge to the block.
GetTransactions(db, blockNum, offset, limit) ==
    LET q == Where(TransactionQuery, {BlockHeightEQ(blockNum)})
        r == AllTransactions(db, Asc(Limit(Offset(q, offset), limit), "index"))
    IN  IF r.err # "none" THEN ReadError
        ELSE Value([i \in DOMAIN r.nodes |-> ModelTransaction(r.nodes[i])])

---------------------------------------------------------------------------
(* Accounts                                                                *)

AddAccount(db, account) ==
    Written(SaveAccount(db, AccountCreate(account.address, account.token, account.amount)))

\* An empty argument drops its filter.
AccountFilter(address, token) ==
    Where(AccountQuery, {AccountIDEQ(a) : a \in {address} \ {NoAddress}}
                        \cup {AccountTokenEQ(t) : t \in {token} \ {NoToken}})

\* Not found is no account and no error; the arguments are returned, not the row's.
GetAccount(db, address, token) ==
    LET r == OnlyAccount(db, AccountFilter(address, token))
    IN  IF IsNotFound(r) THEN Value(Null)
        ELSE IF r.err # "none" THEN ReadError
        ELSE Value([address |-> address, token |-> token, amount |-> r.nodes[1].amount])

GetAccounts(db, address, token) ==
    LET r == AllAccounts(db, AccountFilter(address, token))
    IN  IF r.err # "none" THEN ReadError
        ELSE Value([i \in DOMAIN r.nodes |->
                       [address |-> r.nodes[i].id, token |-> r.nodes[i].token,
                        amount |-> r.nodes[i].amount]])

GetBalances(db, address) ==
    Value(SetToSeq(GroupAccountsByToken(db, AccountFilter(address, NoToken))))

\* An account that is missing is not an error: the UPDATE matches no row.
IncrementAccountBalance(db, address, token, amount) ==
    Written(SaveAccountUpdate(db,
        AccountUpdate({AccountIDEQ(address), AccountTokenEQ(token)}, Float(amount))))

---------------------------------------------------------------------------
(* Transfers                                                               *)

\* The builder of one row; an empty address is left unset.
NewTransfer(hash, t) ==
    LET all == TransferCreate(hash, ToLower(t.func), t, Now)
        from == IF t.from_address = NoAddress THEN all ELSE SetFromAddress(all, t.from_address)
    IN  IF t.to_address = NoAddress THEN from ELSE SetToAddress(from, t.to_address)

AddTransfer(db, tx, transfer) ==
    Written(SaveTransfer(db, NewTransfer(tx.hash, transfer), Now))

AddTransfers(db, tx, transfers) ==
    Written(SaveTransfers(db, [i \in DOMAIN transfers |-> NewTransfer(tx.hash, transfers[i])],
                          Now))

\* Both addresses filter, each if it is given, and only calls of transfer are kept.
GetTransfers(db, fromAccountOr, toAccountOr, token) ==
    LET q == Where(TransferQuery,
                   {TransferOr(FromAddressEQ(a)) : a \in {fromAccountOr} \ {NoAddress}}
                   \cup {TransferOr(ToAddressEQ(a)) : a \in {toAccountOr} \ {NoAddress}}
                   \cup {TransferTokenEQ(t) : t \in {token} \ {NoToken}}
                   \cup {Func("transfer")})
        r == AllTransfers(db, q)
    IN  IF r.err # "none" THEN ReadError
        ELSE Value([i \in DOMAIN r.nodes |->
                [from_address |-> r.nodes[i].from_address, to_address |-> r.nodes[i].to_address,
                 token |-> r.nodes[i].token, amount |-> r.nodes[i].amount,
                 denom |-> r.nodes[i].denom, created_at |-> r.nodes[i].created_at]])

---------------------------------------------------------------------------
(* The block synchronizer's restore history                                *)

\* Row 1 only; without it the restore starts at block 1.
GetNotSequentialBlockNum(db) ==
    LET r == FirstRestoreHistory(db, Where(RestoreHistoryQuery, {RestoreHistoryIDEQ(1)}))
    IN  IF IsNotFound(r) THEN Value(1)
        ELSE IF r.err # "none" THEN ReadError
        ELSE Value(r.nodes[1].restore_range_start)

SaveRestoringHistory(db, startBlock, endBlock) ==
    Written(ExecRestoreHistoryUpsert(db,
        UpdateRestoreColumns(OnConflictColumns(
            RestoreHistoryCreate(1, startBlock, endBlock, 0), {"id"}))))
=============================================================================
