----------------------------- MODULE EntAccount -----------------------------
(***************************************************************************)
(* The Account entity of the generated client: balances of one token per   *)
(* address.  Its edges to transfers are columns of table transfers.        *)
(***************************************************************************)
EXTENDS Ent

\* ent/account and ent/schema: columns, required fields and validators.
AccountColumns == {"address", "token", "amount"}
AccountFields == [required |-> {"token", "amount"}, notEmpty |-> {"address", "token"},
                  positive |-> {}]

\* Variant for a mutation run: the primary key the schema's index suggests.
AccountsTablePerToken ==
    [name |-> "accounts", id |-> "address", serial |-> FALSE, columns |-> AccountColumns,
     unique |-> {{"address", "token"}}, foreign |-> {}]

\* The primary key is the address; the unique index on (address, token) adds nothing.
AccountsTable ==
    [name |-> "accounts", id |-> "address", serial |-> FALSE, columns |-> AccountColumns,
     unique |-> {{"address"}, {"address", "token"}}, foreign |-> {}]

---------------------------------------------------------------------------
(* Mutations and builders                                                  *)

AccountMutation == NewMutation

\* SetID, SetToken, SetAmount
SetAccountFields(m, id, token, amount) ==
    SetFields(m, [address |-> id, token |-> token, amount |-> Float(amount)])
AddAccountAmount(m, d) == AddToField(m, "amount", d)

\* Account.Create() with its setters
AccountCreate(id, token, amount) == SetAccountFields(AccountMutation, id, token, amount)
AccountSpec(m) == RowOf(AccountsTable, m)
SaveAccount(db, m) == Create(db, AccountsTable, AccountFields, m, AccountSpec(m))

\* Account.Update() with Where and AddAmount
AccountUpdate(predicates, d) ==
    [where |-> predicates, mutation |-> AddAccountAmount(AccountMutation, Float(d))]

\* The SET clauses of one UPDATE, for one row.
UpdatedAccount(r, m) ==
    [c \in DOMAIN r |-> IF c \in DOMAIN m.set THEN m.set[c]
                        ELSE IF c \in DOMAIN m.add THEN Float(r[c] + m.add[c]) ELSE r[c]]

\* Only a token that is set is validated; that no row matches is not an error.
SaveAccountUpdate(db, u) ==
    LET m == u.mutation
        rows == Matching(db, AccountsTable, Where(NewQuery, u.where))
    IN  IF ~Valid(m, [AccountFields EXCEPT !.required = {}]) THEN Failed(db, "validation")
        ELSE Done([db EXCEPT !.accounts = (@ \ rows) \cup {UpdatedAccount(r, m) : r \in rows}],
                  << >>)

---------------------------------------------------------------------------
(* Predicates and queries                                                  *)

AccountIDEQ(id) == EQ("address", id)
AccountTokenEQ(token) == EQ("token", token)

AccountQuery == NewQuery

\* scanValues and assignValues
AccountNode(r) == [id |-> r.address, token |-> r.token, amount |-> Scanned(r, "amount", 0)]

AccountQuerySpec(db, q) == Select(db, AccountsTable, q)
SelectAccounts(db, q) ==
    LET s == AccountQuerySpec(db, q) IN [i \in DOMAIN s |-> AccountNode(s[i])]
AllAccounts(db, q) == All(db, AccountsTable, q, SelectAccounts(db, q))
OnlyAccount(db, q) == OnlyOf(AllAccounts(db, Limit(q, 2)))

\* GroupBy(token).Aggregate(As(Sum(amount), "amount"))
GroupAccountsByToken(db, q) ==
    GroupSum(Matching(db, AccountsTable, q), "token", "amount")
=============================================================================
