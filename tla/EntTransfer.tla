---------------------------- MODULE EntTransfer ----------------------------
(***************************************************************************)
(* The Transfer entity of the generated client.  Its address fields are    *)
(* also the foreign keys of the account's edges.                           *)
(***************************************************************************)
EXTENDS Ent

TransferColumns ==
    {"id", "hash", "func", "from_address", "to_address", "token", "amount", "denom",
     "created_at"}
TransferFields ==
    [required |-> {"hash", "func", "token", "amount", "denom", "created_at"},
     notEmpty |-> {"hash", "func", "token", "denom"}, positive |-> {"amount"}]

TransfersTable ==
    [name |-> "transfers", id |-> "id", serial |-> TRUE,
     columns |-> TransferColumns, unique |-> {{"id"}},
     foreign |-> {[column |-> "to_address", table |-> "accounts", refers |-> "address"],
                  [column |-> "from_address", table |-> "accounts", refers |-> "address"]}]

---------------------------------------------------------------------------
(* Mutations and builders                                                  *)

TransferMutation == NewMutation

\* SetHash, SetFunc
SetTransferOrigin(m, hash, func) == SetFields(m, [hash |-> hash, func |-> func])
\* SetFromAddress, SetToAddress
SetFromAddress(m, from) == SetFields(m, [from_address |-> from])
SetToAddress(m, to) == SetFields(m, [to_address |-> to])
\* SetToken, SetAmount, SetDenom, SetCreatedAt
SetTransferValue(m, token, amount, denom, created) ==
    SetFields(m, [token |-> token, amount |-> Float(amount), denom |-> denom,
                  created_at |-> created])

\* Transfer.Create() with the setters every transfer gets
TransferCreate(hash, func, t, now) ==
    SetTransferValue(SetTransferOrigin(TransferMutation, hash, func),
                     t.token, t.amount, t.denom, now)
TransferDefaults(m, now) == WithDefaults(m, [created_at |-> now])
TransferSpec(m) == RowOf(TransfersTable, m)
SaveTransfer(db, m, now) ==
    LET d == TransferDefaults(m, now)
    IN  Create(db, TransfersTable, TransferFields, d, TransferSpec(d))
SaveTransfers(db, ms, now) ==
    LET ds == [i \in DOMAIN ms |-> TransferDefaults(ms[i], now)]
    IN  CreateBulk(db, TransfersTable, TransferFields, ds,
                   [i \in DOMAIN ds |-> TransferSpec(ds[i])])

---------------------------------------------------------------------------
(* Predicates and queries                                                  *)

FromAddressEQ(address) == EQ("from_address", address)
ToAddressEQ(address) == EQ("to_address", address)
TransferTokenEQ(token) == EQ("token", token)
Func(name) == EQ("func", name)
\* Or of a single predicate is that predicate.
TransferOr(predicate) == predicate

TransferQuery == NewQuery

\* scanValues and assignValues: an address that is NULL reads as the empty string.
TransferNode(r) ==
    [hash |-> r.hash, func |-> r.func,
     from_address |-> Scanned(r, "from_address", NoAddress),
     to_address |-> Scanned(r, "to_address", NoAddress),
     token |-> r.token, amount |-> r.amount, denom |-> r.denom, created_at |-> r.created_at]

TransferQuerySpec(db, q) == Select(db, TransfersTable, q)
SelectTransfers(db, q) ==
    LET s == TransferQuerySpec(db, q) IN [i \in DOMAIN s |-> TransferNode(s[i])]
AllTransfers(db, q) == All(db, TransfersTable, q, SelectTransfers(db, q))
=============================================================================
