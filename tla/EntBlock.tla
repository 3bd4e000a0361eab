------------------------------ MODULE EntBlock ------------------------------
(***************************************************************************)
(* The Block entity of the generated client; its id is the height.         *)
(***************************************************************************)
EXTENDS Ent

BlockColumns == {"height", "hash", "time", "total_txs", "num_txs", "created_at"}
BlockFields == [required |-> {"hash", "time", "total_txs", "num_txs", "created_at"},
                notEmpty |-> {"hash"}, positive |-> {}]

BlocksTable == [name |-> "blocks", id |-> "height", serial |-> TRUE,
                columns |-> BlockColumns, unique |-> {{"height"}}, foreign |-> {}]

---------------------------------------------------------------------------
(* Mutations and builders                                                  *)

BlockMutation == NewMutation

\* SetID, SetHash, SetTime
SetBlockIdentity(m, id, hash, time) ==
    SetFields(m, [height |-> id, hash |-> hash, time |-> time])
\* SetTotalTxs, SetNumTxs, SetCreatedAt
SetBlockCounts(m, total, num, created) ==
    SetFields(m, [total_txs |-> total, num_txs |-> num, created_at |-> created])

\* Block.Create() with its setters
BlockCreate(b, now) ==
    SetBlockCounts(SetBlockIdentity(BlockMutation, b.height, b.hash, b.time),
                   b.total_txs, b.num_txs, now)
BlockDefaults(m, now) == WithDefaults(m, [created_at |-> now])
BlockSpec(m) == RowOf(BlocksTable, m)
SaveBlock(db, m, now) ==
    LET d == BlockDefaults(m, now)
    IN  Create(db, BlocksTable, BlockFields, d, BlockSpec(d))
SaveBlocks(db, ms, now) ==
    LET ds == [i \in DOMAIN ms |-> BlockDefaults(ms[i], now)]
    IN  CreateBulk(db, BlocksTable, BlockFields, ds, [i \in DOMAIN ds |-> BlockSpec(ds[i])])

---------------------------------------------------------------------------
(* Predicates and queries                                                  *)

BlockIDEQ(id) == EQ("height", id)

BlockQuery == NewQuery

\* scanValues and assignValues
BlockNode(r) ==
    [id |-> r.height, hash |-> Scanned(r, "hash", ""), time |-> r.time,
     total_txs |-> Scanned(r, "total_txs", 0), num_txs |-> Scanned(r, "num_txs", 0),
     created_at |-> r.created_at]

BlockQuerySpec(db, q) == Select(db, BlocksTable, q)
SelectBlocks(db, q) ==
    LET s == BlockQuerySpec(db, q) IN [i \in DOMAIN s |-> BlockNode(s[i])]
AllBlocks(db, q) == All(db, BlocksTable, q, SelectBlocks(db, q))
FirstBlock(db, q) == FirstOf(AllBlocks(db, Limit(q, 1)))
OnlyBlock(db, q) == OnlyOf(AllBlocks(db, Limit(q, 2)))
=============================================================================
