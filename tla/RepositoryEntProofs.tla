------------------------ MODULE RepositoryEntProofs ------------------------
(***************************************************************************)
(* What the calls of repository_ent.go report, change and return, through  *)
(* the generated client and whatever has been written before: each reports *)
(* what module Repository says, changes the tables by a whole step of that *)
(* module or not at all, and returns the rows it is asked for, in order.   *)
(***************************************************************************)
EXTENDS IndexerRestProofs

---------------------------------------------------------------------------
(* What the calls report                                                   *)

\* The rows of a query, in the order the database returns them in.
LEMMA SetToSeqEnumerates ==
    ASSUME NEW S, IsFiniteSet(S)
    PROVE  /\ SetToSeq(S) \in Seq(S) /\ Len(SetToSeq(S)) = Cardinality(S)
           /\ IsInjective(SetToSeq(S))
           /\ \A x \in S : \E i \in 1 .. Cardinality(S) : SetToSeq(S)[i] = x
<1> DEFINE n == Cardinality(S)
           s == SetToSeq(S)
<1>1. n \in Nat /\ ExistsBijection(1 .. n, S)
  BY FS_CardinalityType
<1>2. \E f \in [1 .. n -> S] : IsInjective(f)
  BY <1>1 DEF ExistsBijection, Bijection, Injection
<1>3. s = CHOOSE f \in [1 .. n -> S] : IsInjective(f)
  BY DEF SetToSeq
<1>. HIDE DEF s, n
<1>4. s \in [1 .. n -> S] /\ IsInjective(s)
  BY <1>2, <1>3
<1>5. s \in Seq(S) /\ Len(s) = n
  BY <1>1, <1>4
<1>6. s \in Injection(1 .. n, S)
  BY <1>4 DEF Injection
<1>7. IsFiniteSet(1 .. n) /\ Cardinality(1 .. n) = n
  <2>1. 1 \in Int /\ n \in Int
    BY <1>1
  <2>2. Cardinality(1 .. n) = IF 1 > n THEN 0 ELSE n - 1 + 1
    BY <2>1, FS_Interval
  <2>. QED BY <1>1, <2>1, <2>2, FS_Interval
<1>8. s \in Surjection(1 .. n, S)
  BY <1>6, <1>7, FS_Injection DEF n
<1>9. \A x \in S : \E i \in 1 .. n : s[i] = x
  BY <1>8 DEF Surjection
<1>. QED BY <1>4, <1>5, <1>9 DEF s, n

LEMMA LesserOfTwo ==
    ASSUME NEW n \in Nat, NEW m \in Nat PROVE Min({n, m}) = IF n <= m THEN n ELSE m
<1> DEFINE k == IF n <= m THEN n ELSE m
<1>1. k \in {n, m} /\ \A y \in {n, m} : k <= y
  OBVIOUS
<1>2. ASSUME NEW x \in {n, m}, \A y \in {n, m} : x <= y PROVE x = k
  BY <1>2
<1>. HIDE DEF k
<1>3. Min({n, m}) = k
  BY <1>1, <1>2 DEF Min
<1>. QED BY <1>3 DEF k

\* Only asks for two rows, which tell none, one and several apart.
LEMMA TwoRowsTell ==
    ASSUME NEW S, IsFiniteSet(S), NEW p, p = Page(SetToSeq(S), 0, 2)
    PROVE  /\ p \in Seq(S)
           /\ S = {} <=> Len(p) = 0
           /\ \A r : S = {r} => Len(p) = 1 /\ p[1] = r
           /\ (S # {} /\ ~\E r : S = {r}) => Len(p) = 2
<1> DEFINE s == SetToSeq(S)
           n == Cardinality(S)
           k == Min({n, 2})
<1>1. s \in Seq(S) /\ Len(s) = n /\ n \in Nat
  BY SetToSeqEnumerates, FS_CardinalityType
<1>2. p = SubSeq(s, 1, k)
  <2>1. p = SubSeq(s, 0 + 1, IF 2 = 0 THEN Len(s) ELSE Min({Len(s), 0 + 2}))
    BY DEF Page
  <2>. HIDE DEF s, n
  <2>2. 0 + 1 = 1 /\ 0 + 2 = 2 /\ ~(2 = 0)
    OBVIOUS
  <2>. QED BY <1>1, <2>1, <2>2
<1>. HIDE DEF s, n
<1>3. k = IF n <= 2 THEN n ELSE 2
  BY <1>1, LesserOfTwo
<1>. HIDE DEF k
<1>3a. k \in Nat /\ k <= n /\ k <= 2
  BY <1>1, <1>3
<1>4. p \in Seq(S) /\ Len(p) = k /\ \A i \in 1 .. k : p[i] = s[i]
  <2>1. p = [i \in 1 .. k |-> s[i]]
    BY <1>1, <1>2, <1>3a
  <2>2. \A i \in 1 .. k : s[i] \in S
    BY <1>1, <1>3a
  <2>3. p \in [1 .. k -> S]
    BY <2>1, <2>2
  <2>. QED BY <1>3a, <2>1, <2>3
<1>5. n = 0 <=> S = {}
  BY FS_EmptySet DEF n
<1>6. n = 1 <=> \E r : S = {r}
  BY FS_Singleton DEF n
<1>7. ASSUME NEW r, S = {r} PROVE Len(p) = 1 /\ p[1] = r
  <2>1. n = 1
    BY <1>6, <1>7
  <2>2. k = 1
    BY <1>3, <2>1
  <2>3. p[1] \in S
    BY <1>4, <2>2
  <2>. QED BY <1>4, <1>7, <2>2, <2>3
<1>8. S = {} <=> Len(p) = 0
  <2>1. k = 0 <=> n = 0
    BY <1>1, <1>3
  <2>. QED BY <1>4, <1>5, <2>1
<1>9. ASSUME S # {}, ~\E r : S = {r} PROVE Len(p) = 2
  <2>1. n # 0 /\ n # 1
    BY <1>5, <1>6, <1>9
  <2>2. k = 2
    BY <1>1, <1>3, <2>1
  <2>. QED BY <1>4, <2>2
<1>. QED BY <1>4, <1>7, <1>8, <1>9

\* The rows GetAccount's query selects.
AccountRows(d, address, token) ==
    {r \in d.accounts : /\ address # NoAddress => r.address = address
                        /\ token # NoToken => r.token = token}

LEMMA AccountFilterSelects ==
    ASSUME NEW d, NEW address, NEW token
    PROVE  LET q == Limit(AccountFilter(address, token), 2)
           IN  /\ Matching(d, AccountsTable, q) = AccountRows(d, address, token)
               /\ q.order = Null /\ q.offset = 0 /\ q.limit = 2
<1> DEFINE A == {AccountIDEQ(a) : a \in {address} \ {NoAddress}}
           T == {AccountTokenEQ(t) : t \in {token} \ {NoToken}}
           q == Limit(AccountFilter(address, token), 2)
<1>1. q.where = A \cup T /\ q.order = Null /\ q.offset = 0 /\ q.limit = 2
  BY DEF Limit, AccountFilter, Where, AccountQuery, NewQuery
<1>. HIDE DEF q
<1>2. \A r : (\A p \in A : r[p.column] = p.value) <=> (address # NoAddress => r.address = address)
  <2>1. CASE address = NoAddress
    BY <2>1
  <2>2. CASE address # NoAddress
    <3>1. A = {[column |-> "address", value |-> address]}
      BY <2>2 DEF AccountIDEQ, EQ
    <3>. QED BY <2>2, <3>1
  <2>. QED BY <2>1, <2>2
<1>3. \A r : (\A p \in T : r[p.column] = p.value) <=> (token # NoToken => r.token = token)
  <2>1. CASE token = NoToken
    BY <2>1
  <2>2. CASE token # NoToken
    <3>1. T = {[column |-> "token", value |-> token]}
      BY <2>2 DEF AccountTokenEQ, EQ
    <3>. QED BY <2>2, <3>1
  <2>. QED BY <2>1, <2>2
<1>. HIDE DEF A, T
<1>4. AccountsTable.name = "accounts"
  BY DEF AccountsTable
<1>5. Matching(d, AccountsTable, q) = AccountRows(d, address, token)
  BY <1>1, <1>2, <1>3, <1>4 DEF Matching, AccountRows
<1>. QED BY <1>1, <1>5 DEF q

\* GetAccount finds no row, the only one, or more than it can answer with.
LEMMA GetAccountDoes ==
    ASSUME NEW d, Typed(d), NEW address, NEW token
    PROVE  LET S == AccountRows(d, address, token)
               r == GetAccount(d, address, token)
           IN  /\ S = {} => r = Value(Null)
               /\ \A a : S = {a} => r = Value([address |-> address, token |-> token,
                                               amount |-> Scanned(a, "amount", 0)])
               /\ (S # {} /\ ~\E a : S = {a}) => r = ReadError
<1> DEFINE S == AccountRows(d, address, token)
           q == Limit(AccountFilter(address, token), 2)
           s == Select(d, AccountsTable, q)
           nodes == SelectAccounts(d, q)
           all == AllAccounts(d, q)
           only == OnlyAccount(d, AccountFilter(address, token))
<1>1. IsFiniteSet(S)
  <2>1. IsFiniteSet(d.accounts)
    BY DEF Typed, Tables, AccountsTable
  <2>2. S \subseteq d.accounts
    BY DEF AccountRows
  <2>. QED BY <2>1, <2>2, FS_Subset
<1>2. Matching(d, AccountsTable, q) = S /\ q.order = Null /\ q.offset = 0 /\ q.limit = 2
  BY AccountFilterSelects
<1>3. only = OnlyOf(all)
  BY DEF OnlyAccount
<1>4. nodes = [i \in DOMAIN s |-> AccountNode(s[i])]
  BY DEF SelectAccounts, AccountQuerySpec
<1>. HIDE DEF S, q
<1>5. s = Page(SetToSeq(S), 0, 2)
  BY <1>2 DEF Select
<1>6. all = Done(d, nodes)
  BY <1>2 DEF AllAccounts, All
<1>. HIDE DEF s, all, only, nodes
<1>7. /\ s \in Seq(S)
      /\ S = {} <=> Len(s) = 0
      /\ \A a : S = {a} => Len(s) = 1 /\ s[1] = a
      /\ (S # {} /\ ~\E a : S = {a}) => Len(s) = 2
  <2>1. s \in Seq(S)
    BY <1>1, <1>5, TwoRowsTell
  <2>2. S = {} <=> Len(s) = 0
    BY <1>1, <1>5, TwoRowsTell
  <2>3. \A a : S = {a} => Len(s) = 1 /\ s[1] = a
    BY <1>1, <1>5, TwoRowsTell
  <2>4. (S # {} /\ ~\E a : S = {a}) => Len(s) = 2
    BY <1>1, <1>5, TwoRowsTell
  <2>. QED BY <2>1, <2>2, <2>3, <2>4
<1>8. DOMAIN nodes = 1 .. Len(s) /\ Len(nodes) = Len(s) /\ (Len(s) = 0 => nodes = << >>)
      /\ (nodes = << >> => Len(s) = 0)
  <2>1. DOMAIN s = 1 .. Len(s) /\ Len(s) \in Nat
    BY <1>7
  <2> DEFINE n == Len(s)
  <2>. HIDE DEF n
  <2>2. n \in Nat /\ DOMAIN nodes = 1 .. n
    BY <1>4, <2>1 DEF n
  <2>3. nodes = [i \in 1 .. n |-> nodes[i]]
    BY <1>4, <2>1 DEF n
  <2>4. Len(nodes) = n
    BY <2>2
  <2>5. n = 0 => nodes = << >>
    BY <2>2, <2>3
  <2>6. nodes = << >> => n = 0
    BY <2>4
  <2>. QED BY <2>2, <2>4, <2>5, <2>6 DEF n
<1>9. all = [db |-> d, nodes |-> nodes, err |-> "none"]
  BY <1>6 DEF Done
<1>10. GetAccount(d, address, token) =
         IF IsNotFound(only) THEN Value(Null)
         ELSE IF only.err # "none" THEN ReadError
         ELSE Value([address |-> address, token |-> token, amount |-> only.nodes[1].amount])
  BY DEF GetAccount, only
<1>11. ASSUME S = {} PROVE only.err = "not found"
  <2>1. Len(nodes) # 1 /\ nodes = << >>
    BY <1>7, <1>8, <1>11
  <2>. QED BY <1>3, <1>9, <2>1 DEF OnlyOf
<1>12. ASSUME NEW a, S = {a}
       PROVE  only.err = "none" /\ only.nodes[1].amount = Scanned(a, "amount", 0)
  <2>1. Len(s) = 1 /\ s[1] = a
    BY <1>7, <1>12
  <2>4. 1 \in 1 .. Len(s)
    BY <2>1
  <2>5. DOMAIN s = 1 .. Len(s)
    BY <1>7
  <2>6. Len(nodes) = 1 /\ 1 \in DOMAIN s
    BY <1>8, <2>1, <2>4, <2>5
  <2>2. only = all
    BY <1>3, <1>9, <2>6 DEF OnlyOf
  <2>3. nodes[1] = AccountNode(a)
    BY <1>4, <2>1, <2>6
  <2>. QED BY <1>9, <2>2, <2>3 DEF AccountNode
<1>13. ASSUME S # {}, ~\E a : S = {a} PROVE only.err = "not singular"
  <2>1. Len(nodes) = 2 /\ nodes # << >>
    BY <1>7, <1>8, <1>13
  <2>. QED BY <1>3, <1>9, <2>1 DEF OnlyOf
<1>. QED BY <1>10, <1>11, <1>12, <1>13 DEF IsNotFound, S

LEMMA MatchingAccountsAre ==
    ASSUME NEW address, NEW token
    PROVE  Calls!MatchingAccounts(address, token) = AccountRows(db, address, token)
  BY DEF Calls!MatchingAccounts, AccountRows

\* GetAccount answers as module Repository says: nothing, the account, or an error.
LEMMA LookupsAgree ==
    ASSUME Typed(db), NEW a \in Address \cup {NoAddress}, NEW t \in Token \cup {NoToken}
    PROVE  LET r == GetAccount(db, a, t)
           IN  /\ (r.err = "none" /\ r.value = Null) <=> Calls!AccountMissing(a, t)
               /\ (r.err = "none" /\ r.value # Null) <=> Calls!AccountFound(a, t)
               /\ r.err = "error" <=> Calls!AccountAmbiguous(a, t)
<1> DEFINE S == AccountRows(db, a, t)
           r == GetAccount(db, a, t)
           Answer(row) == [address |-> a, token |-> t, amount |-> Scanned(row, "amount", 0)]
<1>1. /\ S = {} => r = Value(Null)
      /\ \A row : S = {row} => r = Value(Answer(row))
      /\ (S # {} /\ ~\E row : S = {row}) => r = ReadError
  BY GetAccountDoes
<1>2. S \subseteq db.accounts
  BY DEF AccountRows
<1>3. /\ Calls!AccountMissing(a, t) <=> S = {}
      /\ Calls!AccountFound(a, t) <=> \E row \in db.accounts : S = {row}
      /\ Calls!AccountAmbiguous(a, t)
           <=> ~Calls!AccountMissing(a, t) /\ ~Calls!AccountFound(a, t)
  BY MatchingAccountsAre
     DEF Calls!AccountMissing, Calls!AccountFound, Calls!AccountAmbiguous
<1>. HIDE DEF S, r
<1>4. Calls!AccountFound(a, t) <=> \E row : S = {row}
  BY <1>2, <1>3
<1>5. \A row \in db.accounts : Answer(row) # Null
  <2>1. \A row \in db.accounts : row.amount \in Int
    BY DEF Typed, RowTyped, Tables, AccountsTable
  <2>2. \A row \in db.accounts : Scanned(row, "amount", 0) \in Int
    BY <2>1, NullIsNoInteger DEF Scanned
  <2>. QED BY <2>2, NullAssumption
<1>. HIDE DEF Answer
<1>6. CASE S = {}
  <2>1. r.err = "none" /\ r.value = Null
    BY <1>1, <1>6 DEF Value
  <2>2. Calls!AccountMissing(a, t) /\ ~Calls!AccountFound(a, t) /\ ~Calls!AccountAmbiguous(a, t)
    BY <1>3, <1>6
  <2>. QED BY <2>1, <2>2 DEF r
<1>7. CASE \E row : S = {row}
  <2>1. PICK row : S = {row}
    BY <1>7
  <2>2. r.err = "none" /\ r.value # Null
    BY <1>1, <1>2, <1>5, <2>1 DEF Value
  <2>3. S # {}
    BY <2>1
  <2>4. ~Calls!AccountMissing(a, t) /\ Calls!AccountFound(a, t) /\ ~Calls!AccountAmbiguous(a, t)
    BY <1>3, <1>4, <1>7, <2>3
  <2>. QED BY <2>2, <2>4 DEF r
<1>8. CASE S # {} /\ ~\E row : S = {row}
  <2>1. r.err = "error"
    BY <1>1, <1>8 DEF ReadError
  <2>2. ~Calls!AccountMissing(a, t) /\ ~Calls!AccountFound(a, t) /\ Calls!AccountAmbiguous(a, t)
    BY <1>3, <1>4, <1>8
  <2>. QED BY <2>1, <2>2 DEF r
<1>. QED BY <1>6, <1>7, <1>8

\* AddAccount is refused exactly where module Repository refuses it.
LEMMA RefusedAccountsAgree ==
    ASSUME Typed(db), NEW a \in Address \cup {NoAddress}, NEW t \in Token \cup {NoToken}
    PROVE  AddAccount(db, [address |-> a, token |-> t, amount |-> 0]).err = "none"
             <=> Calls!AddAccountAllowed(a, t)
<1> DEFINE acc == [address |-> a, token |-> t, amount |-> 0]
<1>1. AddAccount(db, acc).err = "none" <=> MayAdd(db, acc)
  BY AddAccountDoes
<1>2. a \notin Blank <=> a # NoAddress
  BY TextsAssumption DEF Blank
<1>3. t \notin Blank <=> t # NoToken
  BY TextsAssumption DEF Blank
<1>. QED BY <1>1, <1>2, <1>3 DEF MayAdd, Calls!AddAccountAllowed

\* AddBlock reports a conflict exactly when the height has a row.
LEMMA ExistingBlocksAgree ==
    ASSUME NEW b, b.height \in Height, b.hash \notin Blank
    PROVE  AddBlock(db, b).exists = Calls!BlockExists(b.height)
<1> DEFINE t == BlocksTable
           m == BlockDefaults(BlockCreate(b, Now), Now)
           row == BlockSpec(m)
           rows == <<row>>
<1>1. Valid(m, BlockFields)
  <2> DEFINE v1 == [height |-> b.height, hash |-> b.hash, time |-> b.time]
             v2 == [total_txs |-> b.total_txs, num_txs |-> b.num_txs, created_at |-> Now]
             v3 == [created_at |-> Now]
             m1 == SetFields(BlockMutation, v1)
             m2 == SetFields(m1, v2)
             m3 == WithDefaults(m2, v3)
  <2>1. m = m3
    BY DEF BlockDefaults, BlockCreate, SetBlockIdentity, SetBlockCounts
  <2>2. /\ DOMAIN v1 = {"height", "hash", "time"} /\ v1["hash"] = b.hash
        /\ DOMAIN v2 = {"total_txs", "num_txs", "created_at"}
    OBVIOUS
  <2>. HIDE DEF v1, v2, v3
  <2>3. {"hash", "time"} \subseteq DOMAIN m1.set /\ m1.set["hash"] = b.hash
    BY <2>2, FieldsThatAreSet
  <2>. HIDE DEF m1
  <2>4. /\ BlockFields.required \subseteq DOMAIN m2.set /\ m2.set["hash"] = b.hash
        /\ "hash" \in DOMAIN m2.set
    BY <2>2, <2>3, FieldsThatAreSet DEF BlockFields
  <2>5. "set" \in DOMAIN m2
    BY SettersReturnMutations
  <2>. HIDE DEF m2
  <2>6. BlockFields.required \subseteq DOMAIN m3.set /\ m3.set["hash"] = b.hash
    BY <2>4, <2>5, DefaultsThatAreSet
  <2>. HIDE DEF m3
  <2>7. BlockFields.notEmpty = {"hash"} /\ BlockFields.positive = {}
    BY DEF BlockFields
  <2>8. Valid(m3, BlockFields)
    BY <2>6, <2>7 DEF Valid
  <2>. QED BY <2>1, <2>8
<1>2. row.height = b.height
  BY BlockRowKey
<1>3. AddBlock(db, b).exists = (Create(db, t, BlockFields, m, row).err = "constraint")
  BY DEF AddBlock, SaveBlock, IsConstraintError
<1>4. t.name = "blocks" /\ t.id = "height" /\ t.unique = {{"height"}} /\ t.foreign = {}
  BY DEF BlocksTable
<1>5. DOMAIN rows = {1} /\ rows[1] = row
  OBVIOUS
<1>. HIDE DEF t, m, row, rows
<1>6. Numbered(db, t, rows) = rows
  <2>1. \A i \in DOMAIN rows : rows[i][t.id] # Null
    BY <1>2, <1>4, <1>5, HeightsAreIntegers, NullIsNoInteger
  <2>2. rows = [i \in DOMAIN rows |-> rows[i]]
    BY DEF rows
  <2>. QED BY <2>1, <2>2 DEF Numbered
<1>7. Unique(db, t, rows) <=> \A r \in db.blocks : r.height # b.height
  <2>1. \A r : KeyOf(r, {"height"}) = KeyOf(row, {"height"}) <=> r.height = b.height
    <3> SUFFICES ASSUME NEW r
                 PROVE  KeyOf(r, {"height"}) = KeyOf(row, {"height"}) <=> r.height = b.height
      OBVIOUS
    <3>1. /\ KeyOf(r, {"height"}) = [c \in {"height"} |-> r[c]]
          /\ KeyOf(row, {"height"}) = [c \in {"height"} |-> row[c]]
      BY DEF KeyOf
    <3>2. KeyOf(r, {"height"})["height"] = r.height
          /\ KeyOf(row, {"height"})["height"] = b.height
      BY <1>2, <3>1
    <3>3. (r.height = row.height) => KeyOf(r, {"height"}) = KeyOf(row, {"height"})
      BY <3>1
    <3>. QED BY <1>2, <3>2, <3>3
  <2>2. Unique(db, t, rows) <=>
          \A r \in db.blocks : KeyOf(r, {"height"}) # KeyOf(row, {"height"})
    BY <1>4, <1>5 DEF Unique
  <2>. QED BY <2>1, <2>2
<1>8. \A i \in DOMAIN rows : References(db, t, rows[i])
  BY <1>4 DEF References
<1>9. Insert(db, t, rows).err = IF Unique(db, t, rows) THEN "none" ELSE "constraint"
  BY <1>6, <1>8 DEF Insert, Done, Failed
<1>10. Create(db, t, BlockFields, m, row) = Insert(db, t, rows)
  BY <1>1 DEF Create, rows
<1>11. AddBlock(db, b).exists = ~Unique(db, t, rows)
  BY <1>3, <1>9, <1>10
<1>12. Calls!BlockExists(b.height) = (b.height \in Heights)
  BY DEF Calls!BlockExists
<1>. QED BY <1>7, <1>11, <1>12 DEF Heights

\* The checks of a transfer's builder.
LEMMA TransferChecks ==
    ASSUME NEW hash \in Hash, NEW t, IsTransfer(t)
    PROVE  Valid(TransferDefaults(NewTransfer(hash, t), Now), TransferFields)
             <=> t.amount > 0 /\ ToLower(t.func) # "" /\ t.token # NoToken
<1> DEFINE m == TransferDefaults(NewTransfer(hash, t), Now)
           func == ToLower(t.func)
<1>1. /\ DOMAIN m.set = TransferFieldsSet(t)
      /\ m.set.hash = hash /\ m.set.func = func /\ m.set.token = t.token
      /\ m.set.amount = Float(t.amount) /\ m.set.denom = t.denom
  BY TransferBuilderSets
<1>2. /\ hash \notin Blank /\ t.denom \notin Blank
      /\ func \in Name \cup {""} /\ t.token \in Token \cup {NoToken} /\ t.amount \in Int
  BY TextsAssumption DEF IsTransfer
<1>. HIDE DEF m, func
<1>3. (func \notin Blank <=> func # "") /\ (t.token \notin Blank <=> t.token # NoToken)
  BY <1>2, TextsAssumption DEF Blank
<1>4. Float(t.amount) > 0 <=> t.amount > 0
  BY <1>2, FloatIsInteger
<1>5. /\ TransferFields.required = {"hash", "func", "token", "amount", "denom", "created_at"}
      /\ TransferFields.notEmpty = {"hash", "func", "token", "denom"}
      /\ TransferFields.positive = {"amount"}
  BY DEF TransferFields
<1>6. TransferFields.required \subseteq DOMAIN m.set
  BY <1>1, <1>5 DEF TransferFieldsSet
<1>7. /\ TransferFields.notEmpty \cap DOMAIN m.set = {"hash", "func", "token", "denom"}
      /\ TransferFields.positive \cap DOMAIN m.set = {"amount"}
  BY <1>5, <1>6
<1>8. Valid(m, TransferFields) <=>
        /\ \A f \in {"hash", "func", "token", "denom"} : m.set[f] \notin Blank
        /\ \A f \in {"amount"} : m.set[f] > 0
  BY <1>6, <1>7 DEF Valid
<1>9. (\A f \in {"hash", "func", "token", "denom"} : m.set[f] \notin Blank)
        <=> func # "" /\ t.token # NoToken
  BY <1>1, <1>2, <1>3
<1>10. (\A f \in {"amount"} : m.set[f] > 0) <=> t.amount > 0
  BY <1>1, <1>4
<1>. QED BY <1>8, <1>9, <1>10 DEF m, func

\* Rows that the database numbers never collide, and are otherwise left as they are.
LEMMA NumberingIsFresh ==
    ASSUME NEW d, Typed(d), NEW t \in {TransactionsTable, TransfersTable},
           NEW rows, IsList(rows), \A i \in DOMAIN rows : IsRow(t, rows[i]) /\ rows[i].id = Null
    PROVE  LET new == Numbered(d, t, rows)
           IN  /\ DOMAIN new = DOMAIN rows /\ Unique(d, t, new)
               /\ \A i \in DOMAIN rows, c \in t.columns \ {"id"} : new[i][c] = rows[i][c]
               /\ \E top \in Nat : /\ \A r \in d[t.name] : r.id \in Nat /\ r.id <= top
                                   /\ \A i \in DOMAIN rows : new[i].id = i + top
<1> DEFINE new == Numbered(d, t, rows)
           ids == {r.id : r \in d[t.name]}
           top == Max({0} \cup ids)
<1>1. /\ t.id = "id" /\ t.serial = TRUE /\ t.unique = {{"id"}}
      /\ "id" \in t.columns /\ t \in Tables
  BY DEF TransactionsTable, TransactionColumns, TransfersTable, TransferColumns, Tables
<1>2. ids \in SUBSET Nat /\ IsFiniteSet(ids)
  <2>1. IsFiniteSet(d[t.name]) /\ \A r \in d[t.name] : r.id \in Nat
    BY <1>1 DEF Typed, RowTyped
  <2> DEFINE g == [r \in d[t.name] |-> r.id]
  <2>2. DOMAIN g = d[t.name] /\ ids = {g[r] : r \in d[t.name]}
    OBVIOUS
  <2>. HIDE DEF g
  <2>3. IsFiniteSet({g[r] : r \in d[t.name]})
    BY <2>1, <2>2, ImageIsFinite
  <2>. QED BY <2>1, <2>2, <2>3
<1>3. new = [i \in DOMAIN rows |-> [rows[i] EXCEPT !["id"] = i + top]]
  BY <1>1 DEF Numbered
<1>. HIDE DEF new, ids, top
<1>4. top \in Nat /\ \A n \in ids : n <= top
  <2> DEFINE S == {0} \cup ids
  <2>1. IsFiniteSet(S)
    BY <1>2, FS_Singleton, FS_Union
  <2>2. S \in SUBSET Nat /\ S # {}
    BY <1>2
  <2>. HIDE DEF S
  <2>3. Max(S) \in S /\ \A y \in S : y <= Max(S)
    BY <2>1, <2>2, MaxOfNaturals
  <2>4. Max(S) \in Nat
    BY <2>2, <2>3
  <2>. QED BY <2>3, <2>4 DEF S, top
<1>5. \A i \in DOMAIN rows : rows[i] = [c \in t.columns |-> rows[i][c]]
  BY <1>1 DEF IsRow
<1>6. ASSUME NEW i \in DOMAIN rows
      PROVE  new[i].id = i + top /\ \A c \in t.columns \ {"id"} : new[i][c] = rows[i][c]
  <2>1. new[i] = [rows[i] EXCEPT !["id"] = i + top]
    BY <1>3
  <2>2. DOMAIN rows[i] = t.columns
    BY <1>5
  <2>. QED BY <1>1, <2>1, <2>2
<1>7. DOMAIN new = DOMAIN rows /\ \A i \in DOMAIN rows : i \in Nat \ {0}
  <2>1. DOMAIN rows = 1 .. Len(rows) /\ Len(rows) \in Nat
    BY ListIsFinite
  <2>. QED BY <1>3, <2>1
<1>8. \A r, s : KeyOf(r, {"id"}) = KeyOf(s, {"id"}) => r.id = s.id
  <2> SUFFICES ASSUME NEW r, NEW s, KeyOf(r, {"id"}) = KeyOf(s, {"id"}) PROVE r.id = s.id
    OBVIOUS
  <2>1. KeyOf(r, {"id"})["id"] = r.id /\ KeyOf(s, {"id"})["id"] = s.id
    BY DEF KeyOf
  <2>. QED BY <2>1
<1>9. ASSUME NEW i \in DOMAIN new, NEW r \in d[t.name] PROVE r.id # new[i].id
  <2>1. r.id \in ids
    BY DEF ids
  <2>2. r.id \in Nat /\ r.id <= top
    BY <1>2, <1>4, <2>1
  <2>3. new[i].id = i + top /\ i \in Nat \ {0}
    BY <1>6, <1>7
  <2>. QED BY <1>4, <2>2, <2>3
<1>10. ASSUME NEW i \in DOMAIN new, NEW j \in DOMAIN new, i # j PROVE new[j].id # new[i].id
  <2>1. new[i].id = i + top /\ new[j].id = j + top /\ i \in Nat /\ j \in Nat
    BY <1>6, <1>7
  <2>. QED BY <1>4, <1>10, <2>1
<1>11. \A i \in DOMAIN new : \A r \in d[t.name] : KeyOf(r, {"id"}) # KeyOf(new[i], {"id"})
  BY <1>8, <1>9
<1>12. \A i \in DOMAIN new : \A j \in DOMAIN new :
          i # j => KeyOf(new[j], {"id"}) # KeyOf(new[i], {"id"})
  BY <1>8, <1>10
<1>13. Unique(d, t, new)
  BY <1>1, <1>11, <1>12 DEF Unique
<1>14. \A r \in d[t.name] : r.id \in Nat /\ r.id <= top
  BY <1>2, <1>4 DEF ids
<1>15. Unique(d, t, new) /\ \E n \in Nat : /\ \A r \in d[t.name] : r.id \in Nat /\ r.id <= n
                                           /\ \A i \in DOMAIN rows : new[i].id = i + n
  BY <1>4, <1>6, <1>13, <1>14
<1>. QED BY <1>6, <1>7, <1>15 DEF new

\* A row refers to the accounts its transfer names.
LEMMA TransferReferences ==
    ASSUME NEW t, IsTransfer(t), NEW r,
           r.from_address = (IF t.from_address = NoAddress THEN Null ELSE t.from_address),
           r.to_address = (IF t.to_address = NoAddress THEN Null ELSE t.to_address)
    PROVE  References(db, TransfersTable, r)
             <=> Calls!Referenced(t.from_address) /\ Calls!Referenced(t.to_address)
<1>1. References(db, TransfersTable, r) <=>
        /\ r.to_address = Null \/ \E s \in db.accounts : s.address = r.to_address
        /\ r.from_address = Null \/ \E s \in db.accounts : s.address = r.from_address
  <2> DEFINE to == [column |-> "to_address", table |-> "accounts", refers |-> "address"]
             from == [column |-> "from_address", table |-> "accounts", refers |-> "address"]
  <2>1. TransfersTable.foreign = {to, from}
    BY DEF TransfersTable
  <2>2. /\ to.column = "to_address" /\ to.table = "accounts" /\ to.refers = "address"
        /\ from.column = "from_address" /\ from.table = "accounts" /\ from.refers = "address"
    OBVIOUS
  <2>. HIDE DEF to, from
  <2>. QED BY <2>1, <2>2 DEF References
<1>2. ASSUME NEW a \in Address \cup {NoAddress}, NEW v, v = IF a = NoAddress THEN Null ELSE a
      PROVE  (v = Null \/ \E s \in db.accounts : s.address = v) <=> Calls!Referenced(a)
  <2>1. CASE a = NoAddress
    BY <1>2, <2>1 DEF Calls!Referenced
  <2>2. CASE a # NoAddress
    <3>1. v = a /\ v # Null
      BY <1>2, <2>2, NullAssumption
    <3>. QED BY <2>2, <3>1 DEF Calls!Referenced
  <2>. QED BY <2>1, <2>2
<1>3. t.from_address \in Address \cup {NoAddress} /\ t.to_address \in Address \cup {NoAddress}
  BY DEF IsTransfer
<1>4. (r.to_address = Null \/ \E s \in db.accounts : s.address = r.to_address)
        <=> Calls!Referenced(t.to_address)
  BY <1>2, <1>3
<1>5. (r.from_address = Null \/ \E s \in db.accounts : s.address = r.from_address)
        <=> Calls!Referenced(t.from_address)
  BY <1>2, <1>3
<1>. QED BY <1>1, <1>4, <1>5

\* What module Repository asks of a transfer.
MayTransfer(t) ==
    /\ t.amount > 0 /\ ToLower(t.func) # "" /\ t.token # NoToken
    /\ Calls!Referenced(t.from_address) /\ Calls!Referenced(t.to_address)

IsBulk(b) ==
    b.hash \in Hash /\ IsList(b.transfers) /\ \A i \in DOMAIN b.transfers : IsTransfer(b.transfers[i])

LEMMA AllowedBulk ==
    ASSUME NEW b
    PROVE  Calls!AddTransfersAllowed(AbstractBulk(b))
             <=> \A i \in DOMAIN b.transfers : MayTransfer(b.transfers[i])
<1> DEFINE ts == b.transfers
           Row(i) == [event |-> i, func |-> ToLower(ts[i].func), from |-> ts[i].from_address,
                      to |-> ts[i].to_address, token |-> ts[i].token, amount |-> ts[i].amount]
           Allowed(r) == /\ r.amount > 0 /\ r.func # "" /\ r.token # NoToken
                         /\ Calls!Referenced(r.from) /\ Calls!Referenced(r.to)
<1>1. AbstractBulk(b) = {Row(i) : i \in DOMAIN ts}
  BY DEF AbstractBulk
<1>2. Calls!AddTransfersAllowed(AbstractBulk(b)) <=> \A r \in AbstractBulk(b) : Allowed(r)
  BY DEF Calls!AddTransfersAllowed
<1>3. \A i \in DOMAIN ts : Allowed(Row(i)) <=> MayTransfer(ts[i])
  BY DEF MayTransfer
<1>. HIDE DEF ts, Row, Allowed
<1>. QED BY <1>1, <1>2, <1>3 DEF ts

\* AddTransfers is refused exactly where module Repository refuses it.
LEMMA RefusedTransfersAgree ==
    ASSUME Typed(db), NEW b, IsBulk(b)
    PROVE  AddTransfers(db, [hash |-> b.hash], b.transfers).err = "none"
             <=> Calls!AddTransfersAllowed(AbstractBulk(b))
<1> DEFINE ts == b.transfers
           t == TransfersTable
           ms == [i \in DOMAIN ts |-> TransferDefaults(NewTransfer(b.hash, ts[i]), Now)]
           rows == [i \in DOMAIN ms |-> TransferSpec(ms[i])]
           new == Numbered(db, t, rows)
           bulk == CreateBulk(db, t, TransferFields, ms, rows)
<1>1. AddTransfers(db, [hash |-> b.hash], b.transfers).err = "none" <=> bulk.err = "none"
  <2> DEFINE saved == SaveTransfers(db, [i \in DOMAIN ts |-> NewTransfer(b.hash, ts[i])], Now)
             res == AddTransfers(db, [hash |-> b.hash], b.transfers)
  <2>1. saved = bulk
    BY DEF SaveTransfers
  <2>2. res = Written(saved)
    BY DEF AddTransfers
  <2>. HIDE DEF saved, bulk, res
  <2>3. res.err = "none" <=> bulk.err = "none"
    BY <2>1, <2>2 DEF Written
  <2>. QED BY <2>3 DEF res
<1>2. Calls!AddTransfersAllowed(AbstractBulk(b)) <=> \A i \in DOMAIN ts : MayTransfer(ts[i])
  BY AllowedBulk
<1>3. b.hash \in Hash /\ IsList(ts) /\ \A i \in DOMAIN ts : IsTransfer(ts[i])
  BY DEF IsBulk
<1>4. DOMAIN rows = DOMAIN ts /\ DOMAIN ms = DOMAIN ts /\ rows = [i \in DOMAIN ts |-> rows[i]]
  OBVIOUS
<1>5. \A i \in DOMAIN ts : Valid(ms[i], TransferFields)
        <=> ts[i].amount > 0 /\ ToLower(ts[i].func) # "" /\ ts[i].token # NoToken
  BY <1>3, TransferChecks
<1>6. \A i \in DOMAIN ts :
        /\ IsRow(t, rows[i]) /\ rows[i].id = Null
        /\ rows[i].from_address = (IF ts[i].from_address = NoAddress THEN Null
                                   ELSE ts[i].from_address)
        /\ rows[i].to_address = (IF ts[i].to_address = NoAddress THEN Null ELSE ts[i].to_address)
  BY RowOfIsRow, TransferRowOf DEF TransferSpec
<1>. HIDE DEF ts, ms, rows, bulk
<1>7. IsList(rows)
  BY <1>3, <1>4, ListOf
<1>8. /\ DOMAIN new = DOMAIN ts /\ Unique(db, t, new)
      /\ \A i \in DOMAIN ts : /\ new[i].from_address = rows[i].from_address
                              /\ new[i].to_address = rows[i].to_address
  <2>1. {"from_address", "to_address"} \subseteq t.columns \ {"id"}
    BY DEF TransfersTable, TransferColumns
  <2>2. DOMAIN new = DOMAIN rows /\ Unique(db, t, new)
        /\ \A i \in DOMAIN rows, c \in t.columns \ {"id"} : new[i][c] = rows[i][c]
    BY <1>4, <1>6, <1>7, NumberingIsFresh
  <2>. HIDE DEF new
  <2>. QED BY <1>4, <2>1, <2>2
<1>. HIDE DEF new
<1>9. ASSUME NEW i \in DOMAIN ts
      PROVE  References(db, t, new[i])
               <=> Calls!Referenced(ts[i].from_address) /\ Calls!Referenced(ts[i].to_address)
  BY <1>3, <1>6, <1>8, TransferReferences
<1>10. Insert(db, t, rows).err
         = IF \A i \in DOMAIN ts : References(db, t, new[i]) THEN "none" ELSE "constraint"
  BY <1>8 DEF Insert, Done, Failed, new
<1>11. CASE ms = << >>
  <2>1. DOMAIN ts = {}
    BY <1>4, <1>11
  <2>2. bulk.err = "none"
    BY <1>11 DEF bulk, CreateBulk, Done
  <2>. QED BY <1>1, <1>2, <2>1, <2>2
<1>12. CASE ms # << >> /\ ~\A i \in DOMAIN ms : Valid(ms[i], TransferFields)
  <2>1. bulk.err = "validation"
    BY <1>12 DEF bulk, CreateBulk, Failed
  <2>2. ~\A i \in DOMAIN ts : MayTransfer(ts[i])
    BY <1>4, <1>5, <1>12 DEF MayTransfer
  <2>. QED BY <1>1, <1>2, <2>1, <2>2
<1>13. CASE ms # << >> /\ \A i \in DOMAIN ms : Valid(ms[i], TransferFields)
  <2>1. bulk.err = Insert(db, t, rows).err
    BY <1>13 DEF bulk, CreateBulk
  <2>2. (\A i \in DOMAIN ts : References(db, t, new[i])) <=> \A i \in DOMAIN ts : MayTransfer(ts[i])
    BY <1>4, <1>5, <1>9, <1>13 DEF MayTransfer
  <2>. QED BY <1>1, <1>2, <1>10, <2>1, <2>2
<1>. QED BY <1>11, <1>12, <1>13

\* The writers are given transfers that the schema can hold.
LEMMA BulksAreTyped == ASSUME AreCalls(load.calls), NEW b \in Bulks PROVE IsBulk(b)
<1>1. \A c \in load.calls.transferBatches : IsBulk(c)
  BY DEF AreCalls, IsBulk
<1>2. ASSUME NEW t \in load.calls.transfers
      PROVE  IsBulk([hash |-> t.hash, transfers |-> <<t.transfer>>])
  <2> DEFINE ts == <<t.transfer>>
  <2>1. t.hash \in Hash /\ IsTransfer(t.transfer)
    BY DEF AreCalls
  <2>2. IsList(ts) /\ DOMAIN ts = {1} /\ ts[1] = t.transfer
    BY OneRowIsList
  <2>. HIDE DEF ts
  <2>3. IsBulk([hash |-> t.hash, transfers |-> ts])
    BY <2>1, <2>2 DEF IsBulk
  <2>. QED BY <2>3 DEF ts
<1>. QED BY <1>1, <1>2 DEF Bulks

LEMMA CallsAgree == ASSUME TypedInv PROVE OutcomesAgree
<1>1. Typed(db) /\ AreCalls(load.calls)
  BY DEF TypedInv
<1>2. ASSUME NEW b \in load.calls.blocks
      PROVE  AddBlock(db, b).exists = Calls!BlockExists(b.height)
  BY <1>1, ExistingBlocksAgree DEF AreCalls
<1>3. \A b \in Bulks : IsBulk(b)
  BY <1>1, BulksAreTyped
<1>4. ASSUME NEW b \in Bulks
      PROVE  AddTransfers(db, [hash |-> b.hash], b.transfers).err = "none"
               <=> Calls!AddTransfersAllowed(AbstractBulk(b))
  BY <1>1, <1>3, RefusedTransfersAgree
<1>. QED BY <1>1, <1>2, <1>4, LookupsAgree, RefusedAccountsAgree DEF OutcomesAgree

\* Each call reports what module Repository says it reports (repository_ent.go, through the
\* builders and queries of src/ent).
THEOREM CallsReportTheirOutcomes == Spec => []OutcomesAgree
<1>1. Init => TypedInv
  BY TypedInit
<1>2. TypedInv /\ [Next]_vars => TypedInv'
  BY TypedStep
<1>3. TypedInv => OutcomesAgree
  BY CallsAgree
<1>. QED BY <1>1, <1>2, <1>3, PTL DEF Spec

---------------------------------------------------------------------------
(* The calls as steps of module Repository                                 *)

\* The image of a one-to-one list has as many members as the list.
LEMMA ListCounts ==
    ASSUME NEW n \in Nat, NEW f, DOMAIN f = 1 .. n,
           \A i \in 1 .. n : \A j \in 1 .. n : f[i] = f[j] => i = j
    PROVE  IsFiniteSet({f[i] : i \in 1 .. n}) /\ Cardinality({f[i] : i \in 1 .. n}) = n
<1> DEFINE T == {f[i] : i \in 1 .. n}
           g == [i \in 1 .. n |-> f[i]]
<1>1. g \in [1 .. n -> T] /\ (\A y \in T : \E i \in 1 .. n : g[i] = y)
      /\ \A i, j \in 1 .. n : g[i] = g[j] => i = j
  OBVIOUS
<1>. HIDE DEF g, T
<1>2. g \in Bijection(1 .. n, T)
  BY <1>1 DEF Bijection, Injection, Surjection, IsInjective
<1>3. IsFiniteSet(1 .. n) /\ Cardinality(1 .. n) = n
  <2>1. 1 \in Int /\ n \in Int
    OBVIOUS
  <2>2. Cardinality(1 .. n) = IF 1 > n THEN 0 ELSE n - 1 + 1
    BY <2>1, FS_Interval
  <2>. QED BY <2>1, <2>2, FS_Interval
<1>4. IsFiniteSet(T) /\ Cardinality(T) = n
  BY <1>2, <1>3, FS_Bijection DEF ExistsBijection
<1>. QED BY <1>4 DEF T

\* The n rows new are numbered from above top, and no other row is.
Above(rows, n, new) ==
    /\ IsFiniteSet(rows) /\ n \in Nat /\ DOMAIN new = 1 .. n
    /\ \E top \in Nat : /\ \A r \in rows : r.id \in Nat /\ r.id <= top
                        /\ \A i \in 1 .. n : new[i].id = i + top

\* The rows of all are those of rows and, after them, the n rows new.
Follow(rows, n, new, all) ==
    LET c == Cardinality(rows)
    IN  /\ c \in Nat /\ Cardinality(all) = c + n
        /\ \A i \in 1 .. c : AtPlace(all, i) = AtPlace(rows, i)
        /\ \A i \in 1 .. n : AtPlace(all, c + i) = {new[i]}

\* Rows that are numbered above all others follow them in the order of the keys.
LEMMA PlacesAppend ==
    ASSUME NEW rows, NEW n, NEW new, Above(rows, n, new)
    PROVE  Follow(rows, n, new, rows \cup {new[i] : i \in 1 .. n})
<1>0. PICK top \in Nat : /\ \A r \in rows : r.id \in Nat /\ r.id <= top
                        /\ \A i \in 1 .. n : new[i].id = i + top
  BY DEF Above
<1>. IsFiniteSet(rows) /\ n \in Nat /\ DOMAIN new = 1 .. n
  BY DEF Above
<1>. (\A r \in rows : r.id \in Nat /\ r.id <= top) /\ (\A i \in 1 .. n : new[i].id = i + top)
  BY <1>0
<1> DEFINE all == rows \cup {new[i] : i \in 1 .. n}
<1> DEFINE c == Cardinality(rows)
           Below(S, r) == {s \in S : s.id <= r.id}
           First(k) == {new[i] : i \in 1 .. k}
<1>1. c \in Nat
  BY FS_CardinalityType
<1>2. ASSUME NEW k \in 0 .. n
      PROVE  IsFiniteSet(First(k)) /\ Cardinality(First(k)) = k /\ First(k) \cap rows = {}
  <2> DEFINE f == [i \in 1 .. k |-> new[i]]
  <2>1. k \in Nat /\ \A i \in 1 .. k : i \in 1 .. n /\ i \in Nat
    OBVIOUS
  <2>2. \A i \in 1 .. k : \A j \in 1 .. k : f[i] = f[j] => i = j
    BY <2>1
  <2>3. DOMAIN f = 1 .. k /\ First(k) = {f[i] : i \in 1 .. k}
    OBVIOUS
  <2>4. \A s \in First(k) : s \notin rows
    BY <2>1
  <2>. HIDE DEF f, First
  <2>6. DOMAIN f = 1 .. k
    BY <2>3
  <2>7. IsFiniteSet({f[i] : i \in 1 .. k}) /\ Cardinality({f[i] : i \in 1 .. k}) = k
    BY ONLY <2>1, <2>2, <2>6, ListCounts
  <2>5. IsFiniteSet(First(k)) /\ Cardinality(First(k)) = k
    BY <2>3, <2>7
  <2>. QED BY <2>4, <2>5
<1>3. ASSUME NEW k \in 0 .. n PROVE Cardinality(rows \cup First(k)) = c + k
  <2>. HIDE DEF First
  <2>1. rows \cap First(k) = {}
    BY <1>2
  <2>2. Cardinality(rows \cup First(k)) = c + k - Cardinality({})
    BY <1>2, <2>1, FS_Union
  <2>3. Cardinality({}) = 0 /\ k \in Nat
    BY FS_EmptySet
  <2>. HIDE DEF c
  <2>. QED BY <1>1, <2>2, <2>3
<1>4. n \in 0 .. n /\ Cardinality(all) = c + n
  <2>1. n \in 0 .. n
    OBVIOUS
  <2>2. all = rows \cup First(n)
    OBVIOUS
  <2>. HIDE DEF First
  <2>. QED BY <1>3, <2>1, <2>2
<1>5. ASSUME NEW r \in rows PROVE Below(all, r) = Below(rows, r)
  <2>1. \A i \in 1 .. n : ~(new[i].id <= r.id)
    OBVIOUS
  <2>. QED BY <2>1
<1>6. ASSUME NEW r \in rows PROVE Cardinality(Below(rows, r)) \in Nat
                                  /\ Cardinality(Below(rows, r)) <= c
  <2>1. Below(rows, r) \subseteq rows
    OBVIOUS
  <2>. HIDE DEF Below
  <2>. QED BY <2>1, FS_Subset, FS_CardinalityType
<1>7. ASSUME NEW i \in 1 .. n PROVE Below(all, new[i]) = rows \cup First(i)
  <2>1. \A r \in rows : r.id <= new[i].id
    OBVIOUS
  <2>2. \A j \in 1 .. n : new[j].id <= new[i].id <=> j <= i
    OBVIOUS
  <2>3. \A j \in 1 .. i : j \in 1 .. n /\ j <= i
    OBVIOUS
  <2>4. \A j \in 1 .. n : j <= i => j \in 1 .. i
    OBVIOUS
  <2>5. Below(all, new[i]) \subseteq rows \cup First(i)
    BY <2>2, <2>4
  <2>6. rows \cup First(i) \subseteq Below(all, new[i])
    BY <2>1, <2>2, <2>3
  <2>. QED BY <2>5, <2>6
<1>8. ASSUME NEW i \in 1 .. n PROVE Cardinality(Below(all, new[i])) = c + i
  <2>1. i \in 0 .. n
    OBVIOUS
  <2>. HIDE DEF Below, First
  <2>. QED BY <1>3, <1>7, <2>1
<1>9. \A S, k : AtPlace(S, k) = {r \in S : Cardinality(Below(S, r)) = k}
  BY DEF AtPlace
<1>. HIDE DEF Below
<1>10. ASSUME NEW k \in 1 .. c PROVE AtPlace(all, k) = AtPlace(rows, k)
  <2>1. \A i \in 1 .. n : Cardinality(Below(all, new[i])) # k
    <3> SUFFICES ASSUME NEW i \in 1 .. n PROVE Cardinality(Below(all, new[i])) # k
      OBVIOUS
    <3>1. Cardinality(Below(all, new[i])) = c + i
      BY <1>8
    <3>. HIDE DEF c, all
    <3>2. c + i # k
      BY <1>1
    <3>. QED BY <3>1, <3>2
  <2>. QED BY <1>5, <1>9, <2>1
<1>11. ASSUME NEW i \in 1 .. n PROVE AtPlace(all, c + i) = {new[i]}
  <2>1. Cardinality(Below(all, new[i])) = c + i /\ new[i] \in all
    BY <1>8
  <2>2. ASSUME NEW r \in rows PROVE Cardinality(Below(all, r)) # c + i
    <3>1. Cardinality(Below(all, r)) \in Nat /\ Cardinality(Below(all, r)) <= c
      BY <1>5, <1>6
    <3>. HIDE DEF c
    <3>. QED BY <1>1, <3>1
  <2>3. ASSUME NEW j \in 1 .. n, Cardinality(Below(all, new[j])) = c + i PROVE j = i
    <3>1. c + j = c + i
      BY <1>8, <2>3
    <3>. HIDE DEF c
    <3>. QED BY <1>1, <3>1
  <2>. HIDE DEF c
  <2>4. \A r \in AtPlace(all, c + i) : r = new[i]
    BY <1>9, <2>2, <2>3
  <2>5. new[i] \in AtPlace(all, c + i)
    BY <1>9, <2>1
  <2>. QED BY <2>4, <2>5
<1>. QED BY <1>1, <1>4, <1>10, <1>11 DEF Follow

\* The list u has the c members of s and, after them, the n members of t.
Joins(u, s, t, c, n, X) ==
    /\ c \in Nat /\ n \in Nat
    /\ s \in [1 .. c -> X] /\ t \in [1 .. n -> X] /\ u \in [1 .. c + n -> X]
    /\ \A i \in 1 .. c : u[i] = s[i]
    /\ \A i \in 1 .. n : u[c + i] = t[i]

\* Such a list is their concatenation.
LEMMA Joined ==
    ASSUME NEW u, NEW s, NEW t, NEW c, NEW n, NEW X, Joins(u, s, t, c, n, X)
    PROVE  u = s \o t
<1>. /\ c \in Nat /\ n \in Nat
     /\ s \in [1 .. c -> X] /\ t \in [1 .. n -> X] /\ u \in [1 .. c + n -> X]
  BY DEF Joins
<1>. (\A i \in 1 .. c : u[i] = s[i]) /\ (\A i \in 1 .. n : u[c + i] = t[i])
  BY DEF Joins
<1> DEFINE w == s \o t
<1>1. s \in Seq(X) /\ Len(s) = c
  OBVIOUS
<1>2. t \in Seq(X) /\ Len(t) = n
  OBVIOUS
<1>3. w \in Seq(X) /\ Len(w) = c + n
      /\ \A i \in 1 .. c + n : w[i] = IF i <= c THEN s[i] ELSE t[i - c]
  BY <1>1, <1>2
<1>. HIDE DEF w
<1>4. w \in [1 .. c + n -> X]
  BY <1>3
<1>5. ASSUME NEW i \in 1 .. c + n PROVE u[i] = w[i]
  <2>1. CASE i <= c
    <3>1. i \in 1 .. c
      BY <2>1
    <3>. QED BY <1>3, <2>1, <3>1
  <2>2. CASE ~(i <= c)
    <3>1. i - c \in 1 .. n /\ c + (i - c) = i
      BY <2>2
    <3>2. u[c + (i - c)] = t[i - c]
      BY <3>1
    <3>. QED BY <1>3, <2>2, <3>1, <3>2
  <2>. QED BY <2>1, <2>2
<1>6. u = w
  BY <1>4, <1>5
<1>. QED BY <1>6 DEF w

\* The database e has the rows of d and, if it differs from d, all the rows of one INSERT,
\* whose references resolve.
Adds(d, t, rows, e) ==
    LET new == Numbered(d, t, rows)
    IN  /\ d[t.name] \subseteq e[t.name]
        /\ e # d => /\ \A i \in DOMAIN rows : References(d, t, new[i])
                    /\ e[t.name] = d[t.name] \cup {new[i] : i \in DOMAIN rows}
                    /\ DOMAIN rows # {}

\* An INSERT takes all its rows or none.
LEMMA InsertAdds ==
    ASSUME NEW d, IsDb(d), NEW t \in Tables, NEW rows
    PROVE  Adds(d, t, rows, Insert(d, t, rows).db)
<1> DEFINE e == Insert(d, t, rows).db
           new == Numbered(d, t, rows)
           N == {new[i] : i \in DOMAIN new}
           all == d[t.name] \cup N
           f == [d EXCEPT ![t.name] = all]
           ok == Unique(d, t, new) /\ \A i \in DOMAIN new : References(d, t, new[i])
<1>1. DOMAIN new = DOMAIN rows
  BY DEF Numbered
<1>2. e = IF ok THEN f ELSE d
  BY DEF Insert, Done, Failed
<1>3. f[t.name] = all /\ (all = d[t.name] => f = d)
  <2>. HIDE DEF all
  <2>. QED BY DEF IsDb, Names
<1>. HIDE DEF new, f, e
<1>4. ASSUME e # d PROVE ok /\ e = f /\ DOMAIN rows # {}
  <2>1. ok /\ e = f
    BY <1>2, <1>4
  <2>2. N # {}
    BY <1>2, <1>3, <1>4
  <2>. QED BY <1>1, <2>1, <2>2
<1>5. e # d => /\ \A i \in DOMAIN rows : References(d, t, new[i])
               /\ e[t.name] = d[t.name] \cup {new[i] : i \in DOMAIN rows}
               /\ DOMAIN rows # {}
  BY <1>1, <1>3, <1>4
<1>6. d[t.name] \subseteq e[t.name]
  BY <1>2, <1>3
<1>. QED BY <1>5, <1>6 DEF new, e, Adds

\* The columns of a transaction's row.
LEMMA TransactionRowOf ==
    ASSUME NEW tx, NEW h
    PROVE  LET row == TransactionSpec(TransactionDefaults(TransactionCreate(tx, h, Now), Now))
           IN  /\ row.index = tx.index /\ row.hash = tx.hash /\ row.success = tx.success
               /\ row.block_height = tx.block_height /\ row.gas_wanted = tx.gas_wanted
               /\ row.gas_used = tx.gas_used /\ row.memo = tx.memo /\ row.gas_fee = tx.gas_fee
               /\ row.messages = tx.messages /\ row.response = tx.response
               /\ row.block_transactions = h
<1> DEFINE v1 == [index |-> tx.index, hash |-> tx.hash, success |-> tx.success]
           v2 == [block_height |-> tx.block_height]
           v3 == [gas_wanted |-> tx.gas_wanted, gas_used |-> tx.gas_used]
           v4 == [memo |-> tx.memo, gas_fee |-> tx.gas_fee, messages |-> tx.messages]
           v5 == [response |-> tx.response, created_at |-> Now, block |-> h]
           v6 == [success |-> FALSE, created_at |-> Now]
           m0 == TransactionMutation
           m1 == SetFields(m0, v1)
           m2 == SetFields(m1, v2)
           m3 == SetFields(m2, v3)
           m4 == SetFields(m3, v4)
           m5 == SetFields(m4, v5)
           m6 == WithDefaults(m5, v6)
           v7 == [block_transactions |-> m6.set.block]
           m7 == SetFields(m6, v7)
           F1 == {"index", "hash", "success"}
           F2 == {"block_height"}
           F3 == {"gas_wanted", "gas_used"}
           F4 == {"memo", "gas_fee", "messages"}
           F5 == {"response", "created_at", "block"}
           F == F1 \cup F2 \cup F3 \cup F4 \cup {"response"}
           Has(s, G) == G \subseteq DOMAIN s /\ \A f \in G : s[f] = tx[f]
<1>1. /\ DOMAIN v1 = F1 /\ DOMAIN v2 = F2 /\ DOMAIN v3 = F3 /\ DOMAIN v4 = F4
      /\ DOMAIN v5 = F5 /\ DOMAIN v6 = {"success", "created_at"}
      /\ DOMAIN v7 = {"block_transactions"}
  OBVIOUS
<1>2. /\ \A f \in F1 : v1[f] = tx[f]
      /\ \A f \in F2 : v2[f] = tx[f]
      /\ \A f \in F3 : v3[f] = tx[f]
      /\ \A f \in F4 : v4[f] = tx[f]
      /\ v5["response"] = tx["response"] /\ v5["block"] = h
      /\ v7["block_transactions"] = m6.set["block"]
  OBVIOUS
<1>3. m6 = TransactionDefaults(TransactionCreate(tx, h, Now), Now)
  BY DEF TransactionDefaults, TransactionCreate, SetTransactionIdentity, SetTransactionHeight,
         SetTransactionGas, SetTransactionBody, SetTransactionEdges
<1>4. TransactionSpec(m6) = RowOf(TransactionsTable, m7)
  BY DEF TransactionSpec
<1>. HIDE DEF v1, v2, v3, v4, v5, v6, v7, m0
<1>5. Has(m1.set, F1)
  BY <1>1, <1>2, FieldsThatAreSet
<1>. HIDE DEF m1
<1>6. Has(m2.set, F1 \cup F2)
  BY <1>1, <1>2, <1>5, FieldsThatAreSet
<1>. HIDE DEF m2
<1>7. Has(m3.set, F1 \cup F2 \cup F3)
  BY <1>1, <1>2, <1>6, FieldsThatAreSet
<1>. HIDE DEF m3
<1>8. Has(m4.set, F1 \cup F2 \cup F3 \cup F4)
  BY <1>1, <1>2, <1>7, FieldsThatAreSet
<1>. HIDE DEF m4
<1>9. Has(m5.set, F) /\ "block" \in DOMAIN m5.set /\ m5.set["block"] = h /\ "set" \in DOMAIN m5
  BY <1>1, <1>2, <1>8, FieldsThatAreSet, SettersReturnMutations
<1>. HIDE DEF m5
<1>10. Has(m6.set, F) /\ m6.set["block"] = h
  BY <1>1, <1>9, DefaultsThatAreSet
<1>. HIDE DEF m6
<1>11. Has(m7.set, F) /\ "block_transactions" \in DOMAIN m7.set
       /\ m7.set["block_transactions"] = h
  BY <1>1, <1>2, <1>10, FieldsThatAreSet
<1>. HIDE DEF m7
<1> DEFINE row == RowOf(TransactionsTable, m7)
<1>12. F \cup {"block_transactions"} \subseteq TransactionsTable.columns
  BY DEF TransactionsTable, TransactionColumns
<1>13. (\A f \in F : row[f] = tx[f]) /\ row["block_transactions"] = h
  BY <1>11, <1>12 DEF RowOf
<1>. HIDE DEF row
<1>14. /\ row.index = tx.index /\ row.hash = tx.hash /\ row.success = tx.success
       /\ row.block_height = tx.block_height /\ row.gas_wanted = tx.gas_wanted
       /\ row.gas_used = tx.gas_used /\ row.memo = tx.memo /\ row.gas_fee = tx.gas_fee
       /\ row.messages = tx.messages /\ row.response = tx.response
       /\ row.block_transactions = h
  BY <1>13
<1>. QED BY <1>3, <1>4, <1>14 DEF row

\* The conversions to the schema's types change nothing in a transaction of model.go.
LEMMA ConversionsAreInverse ==
    ASSUME NEW tx, IsTransaction(tx)
    PROVE  [tx EXCEPT !.messages = convertMessagesToSchema(@),
                      !.response = convertResponseToSchema(@)] = tx
<1>1. tx = ModelTransaction(tx)
  BY DEF IsTransaction
<1>2. ModelTransaction(tx).messages = convertSchemaMessagesToModel(tx.messages)
      /\ ModelTransaction(tx).response = convertSchemaResponseToModel(tx.response)
  BY DEF ModelTransaction
<1>3. convertSchemaMessagesToModel(tx.messages) = convertMessagesToSchema(tx.messages)
      /\ convertSchemaResponseToModel(tx.response) = convertResponseToSchema(tx.response)
  BY DEF convertSchemaMessagesToModel, convertMessagesToSchema, convertSchemaResponseToModel,
         convertResponseToSchema
<1>4. tx.messages = convertMessagesToSchema(tx.messages)
      /\ tx.response = convertResponseToSchema(tx.response)
  BY <1>1, <1>2, <1>3
<1>5. \E D : tx = [c \in D |-> tx[c]]
  <2> DEFINE m == ModelTransaction(tx)
  <2>1. m = [c \in DOMAIN m |-> m[c]]
    BY DEF ModelTransaction
  <2>. HIDE DEF m
  <2>. QED BY <1>1, <2>1 DEF m
<1>6. PICK D : tx = [c \in D |-> tx[c]]
  BY <1>5
<1> DEFINE m == convertMessagesToSchema(tx.messages)
           r == convertResponseToSchema(tx.response)
<1>7. tx.messages = m /\ tx.response = r
  BY <1>4
<1>8. [tx EXCEPT !.messages = convertMessagesToSchema(@), !.response = convertResponseToSchema(@)]
        = [tx EXCEPT !.messages = m, !.response = r]
  <2>1. [tx EXCEPT !.messages = m].response = tx.response
    BY <1>1 DEF ModelTransaction
  <2>. QED BY <2>1
<1>. HIDE DEF m, r
<1>9. [tx EXCEPT !.messages = m, !.response = r] = tx
  BY <1>6, <1>7
<1>. QED BY <1>8, <1>9

\* A transaction reads back as it was written.
LEMMA TransactionReadsBack ==
    ASSUME NEW tx, IsTransaction(tx), NEW h, NEW row,
           row = TransactionSpec(TransactionDefaults(NewTransaction(h, tx), Now)),
           NEW r, \A c \in TransactionColumns \ {"id"} : r[c] = row[c]
    PROVE  ModelTransaction(TransactionNode(r)) = tx /\ r.block_transactions = h
<1>1. NewTransaction(h, tx) = TransactionCreate(tx, h, Now)
  BY ConversionsAreInverse DEF NewTransaction
<1>2. /\ row.index = tx.index /\ row.hash = tx.hash /\ row.success = tx.success
      /\ row.block_height = tx.block_height /\ row.gas_wanted = tx.gas_wanted
      /\ row.gas_used = tx.gas_used /\ row.memo = tx.memo /\ row.gas_fee = tx.gas_fee
      /\ row.messages = tx.messages /\ row.response = tx.response
      /\ row.block_transactions = h
  BY <1>1, TransactionRowOf
<1>3. /\ r.index = tx.index /\ r.hash = tx.hash /\ r.success = tx.success
      /\ r.block_height = tx.block_height /\ r.gas_wanted = tx.gas_wanted
      /\ r.gas_used = tx.gas_used /\ r.memo = tx.memo /\ r.gas_fee = tx.gas_fee
      /\ r.messages = tx.messages /\ r.response = tx.response
      /\ r.block_transactions = h
  BY <1>2 DEF TransactionColumns
<1>4. tx.memo # Null /\ tx.gas_fee # Null /\ tx.messages # Null /\ tx.response # Null
  BY DEF IsTransaction
<1> DEFINE n == TransactionNode(r)
<1>5. /\ n.index = tx.index /\ n.hash = tx.hash /\ n.success = tx.success
      /\ n.block_height = tx.block_height /\ n.gas_wanted = tx.gas_wanted
      /\ n.gas_used = tx.gas_used /\ n.memo = tx.memo /\ n.gas_fee = tx.gas_fee
      /\ n.messages = tx.messages /\ n.response = tx.response
  BY <1>3, <1>4 DEF TransactionNode, Scanned
<1>. HIDE DEF n
<1>6. ModelTransaction(n) = ModelTransaction(tx)
  BY <1>5 DEF ModelTransaction
<1>. QED BY <1>3, <1>6 DEF n, IsTransaction

\* The rows new, to be inserted, have fresh keys and are the given rows otherwise.
Fresh(d, t, rows, new) ==
    /\ DOMAIN new = DOMAIN rows
    /\ Unique(d, t, new)
    /\ \A i \in DOMAIN rows, c \in t.columns \ {"id"} : new[i][c] = rows[i][c]
    /\ \E top \in Nat : /\ \A r \in d[t.name] : r.id \in Nat /\ r.id <= top
                        /\ \A i \in DOMAIN rows : new[i].id = i + top

\* Rows as the builders leave them: the database is to number them.
WithoutKeys(t, rows) ==
    IsList(rows) /\ \A i \in DOMAIN rows : IsRow(t, rows[i]) /\ rows[i].id = Null

\* NumberingIsFresh, by name.
LEMMA RowsAreFresh ==
    ASSUME NEW d, Typed(d), NEW t \in {TransactionsTable, TransfersTable},
           NEW rows, WithoutKeys(t, rows)
    PROVE  Fresh(d, t, rows, Numbered(d, t, rows))
<1>1. IsList(rows) /\ \A i \in DOMAIN rows : IsRow(t, rows[i]) /\ rows[i].id = Null
  BY DEF WithoutKeys
<1>2. LET new == Numbered(d, t, rows)
      IN  /\ DOMAIN new = DOMAIN rows /\ Unique(d, t, new)
          /\ \A i \in DOMAIN rows, c \in t.columns \ {"id"} : new[i][c] = rows[i][c]
          /\ \E top \in Nat : /\ \A r \in d[t.name] : r.id \in Nat /\ r.id <= top
                              /\ \A i \in DOMAIN rows : new[i].id = i + top
  BY <1>1, NumberingIsFresh
<1>. QED BY <1>2 DEF Fresh

\* The rows the builders make of the transactions txs of block h.
TransactionRows(h, txs, rows) ==
    /\ IsList(txs) /\ \A i \in DOMAIN txs : IsTransaction(txs[i])
    /\ IsList(rows) /\ DOMAIN rows = DOMAIN txs
    /\ \A i \in DOMAIN txs :
         rows[i] = TransactionSpec(TransactionDefaults(NewTransaction(h, txs[i]), Now))

\* An INSERT into transactions appends to its block's, and to no other's.
LEMMA TransactionsAppend ==
    ASSUME NEW d, IsDb(d), Typed(d), NEW h \in Int, NEW txs, NEW rows,
           TransactionRows(h, txs, rows),
           NEW e, e = Insert(d, TransactionsTable, rows).db, e # d
    PROVE  /\ \E b \in d.blocks : b.height = h
           /\ TransactionsOf(e, h) = TransactionsOf(d, h) \o txs
           /\ \A k : k # h => TransactionsOf(e, k) = TransactionsOf(d, k)
<1> DEFINE t == TransactionsTable
           new == Numbered(d, t, rows)
           n == Len(txs)
           S == BlockRows(d, h)
           T == BlockRows(e, h)
           c == Cardinality(S)
           F(R, i) == ModelTransaction(TransactionNode(The(AtPlace(R, i))))
<1>0. /\ IsList(txs) /\ \A i \in DOMAIN txs : IsTransaction(txs[i])
      /\ IsList(rows) /\ DOMAIN rows = DOMAIN txs
      /\ \A i \in DOMAIN txs :
           rows[i] = TransactionSpec(TransactionDefaults(NewTransaction(h, txs[i]), Now))
  BY DEF TransactionRows
<1>1. DOMAIN txs = 1 .. n /\ n \in Nat /\ DOMAIN rows = 1 .. n
  BY <1>0, ListIsFinite
<1>2. /\ t \in Tables /\ t.name = "transactions" /\ t.columns = TransactionColumns
      /\ t.foreign = {[column |-> "block_transactions", table |-> "blocks", refers |-> "height"]}
  BY DEF Tables, TransactionsTable
<1>3. \A i \in 1 .. n : rows[i] = TransactionSpec(TransactionDefaults(NewTransaction(h, txs[i]), Now))
  BY <1>0, <1>1
<1>4. IsList(rows)
  BY <1>0
<1>5. \A i \in 1 .. n : IsRow(t, rows[i]) /\ rows[i].id = Null
  <2> SUFFICES ASSUME NEW i \in 1 .. n PROVE IsRow(t, rows[i]) /\ rows[i].id = Null
    OBVIOUS
  <2> DEFINE m == TransactionDefaults(NewTransaction(h, txs[i]), Now)
  <2>1. rows[i] = TransactionSpec(m)
    BY <1>3
  <2>. HIDE DEF m
  <2>2. IsRow(t, TransactionSpec(m))
    BY RowOfIsRow, <1>2 DEF TransactionSpec
  <2>3. TransactionSpec(TransactionDefaults(NewTransaction(h, txs[i]), Now)).id = Null
    BY TransactionRowHasNoKey DEF NewTransaction
  <2>4. TransactionSpec(m).id = Null
    BY <2>3 DEF m
  <2>. QED BY <2>1, <2>2, <2>4
<1>. HIDE DEF t, n
<1>6. /\ DOMAIN new = 1 .. n
      /\ \A i \in 1 .. n, col \in TransactionColumns \ {"id"} : new[i][col] = rows[i][col]
      /\ \E top \in Nat : /\ \A r \in d.transactions : r.id \in Nat /\ r.id <= top
                          /\ \A i \in 1 .. n : new[i].id = i + top
  <2>1. t \in {TransactionsTable, TransfersTable} /\ WithoutKeys(t, rows)
    BY <1>1, <1>4, <1>5 DEF t, WithoutKeys
  <2>2. Fresh(d, t, rows, new)
    BY <2>1, RowsAreFresh
  <2>. QED BY <1>1, <1>2, <2>2 DEF Fresh
<1>7. /\ \A i \in 1 .. n : References(d, t, new[i])
      /\ e.transactions = d.transactions \cup {new[i] : i \in 1 .. n} /\ 1 .. n # {}
  <2>1. e = Insert(d, t, rows).db
    BY DEF t
  <2>2. Adds(d, t, rows, e)
    BY <1>2, <2>1, InsertAdds
  <2>. QED BY <1>1, <1>2, <2>2 DEF Adds
<1>. HIDE DEF new
<1>8. \A i \in 1 .. n : /\ ModelTransaction(TransactionNode(new[i])) = txs[i]
                        /\ new[i].block_transactions = h
  <2> SUFFICES ASSUME NEW i \in 1 .. n
               PROVE  /\ ModelTransaction(TransactionNode(new[i])) = txs[i]
                      /\ new[i].block_transactions = h
    OBVIOUS
  <2>1. IsTransaction(txs[i]) /\ \A col \in TransactionColumns \ {"id"} : new[i][col] = rows[i][col]
    BY <1>0, <1>1, <1>6
  <2> DEFINE x == txs[i]
             r == new[i]
             w == rows[i]
  <2>2. w = TransactionSpec(TransactionDefaults(NewTransaction(h, x), Now))
    BY <1>3
  <2>3. IsTransaction(x) /\ \A col \in TransactionColumns \ {"id"} : r[col] = w[col]
    BY <2>1
  <2>. HIDE DEF x, r, w
  <2>4. ModelTransaction(TransactionNode(r)) = x /\ r.block_transactions = h
    BY ONLY <2>2, <2>3, TransactionReadsBack
  <2>. QED BY <2>4 DEF x, r
<1>9. \E b \in d.blocks : b.height = h
  <2>1. PICK i \in 1 .. n : References(d, t, new[i]) /\ new[i].block_transactions = h
    BY <1>7, <1>8
  <2>2. new[i]["block_transactions"] # Null
    BY <2>1, NullIsNoInteger
  <2>. QED BY <1>2, <2>1, <2>2 DEF References
<1>10. T = S \cup {new[i] : i \in 1 .. n} /\ \A k : k # h => BlockRows(e, k) = BlockRows(d, k)
  BY <1>7, <1>8 DEF BlockRows
<1>11. \A k : k # h => TransactionsOf(e, k) = TransactionsOf(d, k)
  BY <1>10 DEF TransactionsOf
<1>12. IsFiniteSet(S)
  <2>1. IsFiniteSet(d.transactions) /\ S \subseteq d.transactions
    BY <1>2 DEF Typed, BlockRows
  <2>. QED BY <2>1, FS_Subset
<1>13. \A r \in S : r \in d.transactions
  BY DEF BlockRows
<1>. HIDE DEF S, T
<1>14. /\ c \in Nat /\ Cardinality(T) = c + n
       /\ \A i \in 1 .. c : AtPlace(T, i) = AtPlace(S, i)
       /\ \A i \in 1 .. n : AtPlace(T, c + i) = {new[i]}
  <2>1. PICK top \in Nat : /\ \A r \in S : r.id \in Nat /\ r.id <= top
                           /\ \A i \in 1 .. n : new[i].id = i + top
    BY <1>6, <1>13
  <2>2. n \in Nat /\ DOMAIN new = 1 .. n /\ T = S \cup {new[i] : i \in 1 .. n}
    BY <1>1, <1>6, <1>10
  <2>3. Above(S, n, new)
    BY <1>12, <2>1, <2>2 DEF Above
  <2>4. Follow(S, n, new, T)
    BY <2>2, <2>3, PlacesAppend
  <2>. HIDE DEF F
  <2>. QED BY <2>4 DEF Follow
<1>15. \A x : The({x}) = x
  BY DEF The
<1> DEFINE s == TransactionsOf(d, h)
           u == TransactionsOf(e, h)
<1>16. s = [i \in 1 .. c |-> F(S, i)] /\ u = [i \in 1 .. c + n |-> F(T, i)]
  BY <1>14 DEF TransactionsOf, S, T
<1>17. \A i \in 1 .. c : F(T, i) = F(S, i)
  BY <1>14
<1>18. \A i \in 1 .. n : F(T, c + i) = txs[i]
  BY <1>8, <1>14, <1>15
<1>. HIDE DEF F, s, u, c
<1>19. \A i \in 1 .. c : i \in 1 .. c + n
  BY <1>1, <1>14
<1>20. \A i \in 1 .. n : c + i \in 1 .. c + n
  BY <1>1, <1>14
<1>21. (\A i \in 1 .. c : u[i] = s[i]) /\ \A i \in 1 .. n : u[c + i] = txs[i]
  BY <1>16, <1>17, <1>18, <1>19, <1>20
<1> DEFINE X == {F(S, i) : i \in 1 .. c} \cup {F(T, i) : i \in 1 .. c + n} \cup {txs[i] : i \in 1 .. n}
<1>22. s \in [1 .. c -> X] /\ u \in [1 .. c + n -> X]
  BY <1>16
<1>23. txs \in [1 .. n -> X]
  <2> DEFINE Y == {txs[i] : i \in DOMAIN txs}
  <2>1. txs \in Seq(Y)
    BY <1>0 DEF IsList
  <2>2. Y \subseteq X
    BY <1>1
  <2>. HIDE DEF X, Y
  <2>3. txs \in [1 .. n -> Y]
    BY <2>1 DEF n
  <2>. QED BY <2>2, <2>3
<1>. HIDE DEF X
<1>24. u = s \o txs
  <2>1. c \in Nat /\ n \in Nat
    BY <1>1, <1>14
  <2>2. Joins(u, s, txs, c, n, X)
    BY <2>1, <1>21, <1>22, <1>23 DEF Joins
  <2>. QED BY <2>2, Joined
<1>. QED BY <1>9, <1>11, <1>24 DEF s, u

\* A call of one table leaves the others alone.
LEMMA OthersStay ==
    ASSUME IsDb(db), NEW t, OnlyIn(t, db, db') PROVE Others({t.name})
<1>1. DOMAIN db = Names
  BY DEF IsDb
<1>. QED BY <1>1 DEF Others, OnlyIn

\* A builder that changed the database has passed its checks and sent its INSERT.
LEMMA CreateInserts ==
    ASSUME NEW d, NEW t, NEW fields, NEW m, NEW row, Create(d, t, fields, m, row).db # d
    PROVE  Valid(m, fields) /\ Create(d, t, fields, m, row).db = Insert(d, t, <<row>>).db
  BY DEF Create, Failed

LEMMA CreateBulkInserts ==
    ASSUME NEW d, NEW t, NEW fields, NEW ms, NEW rows, CreateBulk(d, t, fields, ms, rows).db # d
    PROVE  /\ \A i \in DOMAIN ms : Valid(ms[i], fields)
           /\ CreateBulk(d, t, fields, ms, rows).db = Insert(d, t, rows).db
  BY DEF CreateBulk, Failed, Done

\* Inserts into blocks add heights.
LEMMA BlocksStep ==
    ASSUME TypedInv, TypedInv', OnlyIn(BlocksTable, db, db'), NEW rows,
           db' = Insert(db, BlocksTable, rows).db
    PROVE  RepositoryStep
<1>1. IsDb(db) /\ Typed(db)'
  BY DEF TypedInv, TablesInv, Sound, Consistent
<1>2. BlocksTable \in Tables /\ BlocksTable.name = "blocks"
  BY DEF Tables, BlocksTable
<1>3. db.blocks \subseteq db'.blocks
  BY <1>1, <1>2, InsertAdds DEF Adds
<1>4. \A r \in db'.blocks : r.height \in Height
  BY <1>1, <1>2 DEF Typed, RowTyped
<1>5. Heights \subseteq Heights' /\ Heights' \subseteq Height
  BY <1>3, <1>4 DEF Heights
<1> DEFINE hs == Heights' \ Heights
<1>6. hs \in SUBSET (Height \ Heights) /\ Heights' = Heights \cup hs
  BY <1>5
<1>7. Others({"blocks"})
  BY <1>1, <1>2, OthersStay
<1>. HIDE DEF hs
<1>. QED BY <1>6, <1>7 DEF RepositoryStep

\* AddBlock and AddBlocks.
LEMMA BlockWritesStep ==
    ASSUME TypedInv, TypedInv', WriteBlock \/ WriteBlocks PROVE RepositoryStep \/ db' = db
<1>1. IsDb(db)
  BY DEF TypedInv, TablesInv, Sound, Consistent
<1>2. CASE WriteBlock
  <2>1. PICK b : db' = AddBlock(db, b).db
    BY <1>2 DEF WriteBlock, Write
  <2>2. OnlyIn(BlocksTable, db, db')
    BY <1>1, <2>1, BlocksChangeBlocks
  <2>3. PICK m, row : db' = Create(db, BlocksTable, BlockFields, m, row).db
    BY <2>1 DEF AddBlock, SaveBlock
  <2>4. CASE db' # db
    <3>1. db' = Insert(db, BlocksTable, <<row>>).db
      BY <2>3, <2>4, CreateInserts
    <3>. QED BY <2>2, <3>1, BlocksStep
  <2>. QED BY <2>4
<1>3. CASE WriteBlocks
  <2>1. PICK bs : db' = AddBlocks(db, bs).db
    BY <1>3 DEF WriteBlocks, Write
  <2>2. OnlyIn(BlocksTable, db, db')
    BY <1>1, <2>1, BlocksChangeBlocks
  <2>3. CASE db' # db
    <3>1. PICK ms, rows : db' = CreateBulk(db, BlocksTable, BlockFields, ms, rows).db
      BY <2>1, <2>3 DEF AddBlocks, Written, SaveBlocks
    <3>2. db' = Insert(db, BlocksTable, rows).db
      BY <2>3, <3>1, CreateBulkInserts
    <3>. QED BY <2>2, <3>2, BlocksStep
  <2>. QED BY <2>3
<1>. QED BY <1>2, <1>3

\* SaveRestoringHistory.
LEMMA RestoreWritesStep ==
    ASSUME TypedInv, WriteRestore PROVE RepositoryStep
<1>1. IsDb(db)
  BY DEF TypedInv, TablesInv, Sound, Consistent
<1>2. PICK s : db' = SaveRestoringHistory(db, s, s + 1).db
  BY DEF WriteRestore, Write
<1>3. OnlyIn(RestoreHistoriesTable, db, db')
  BY <1>1, <1>2, RestoresChangeRestores
<1>4. RestoreHistoriesTable.name = "restore_histories"
  BY DEF RestoreHistoriesTable
<1>5. Others({"restore_histories"})
  BY <1>1, <1>3, <1>4, OthersStay
<1>. QED BY <1>5 DEF RepositoryStep

\* AddAccount: a new account is empty.
LEMMA AccountWritesStep ==
    ASSUME TypedInv, WriteAccount PROVE RepositoryStep \/ db' = db
<1>1. IsDb(db) /\ AreCalls(load.calls)
  BY DEF TypedInv, TablesInv, Sound, Consistent
<1>2. PICK a \in load.calls.accounts : db' = AddAccount(db, a).db
  BY DEF WriteAccount, Write
<1>3. a \in CreatedAccount
  BY <1>1 DEF AreCalls
<1>4. CASE ~MayAdd(db, a)
  BY <1>2, <1>4, AddAccountDoes
<1>5. CASE MayAdd(db, a)
  <2>1. db' = [db EXCEPT !.accounts = @ \cup {NewRow(a)}]
    BY <1>2, <1>5, AddAccountDoes
  <2>2. a.address \in Address /\ a.token \in Token /\ a.amount = 0
        /\ \A r \in db.accounts : r.address # a.address
    BY <1>3, <1>5 DEF MayAdd, CreatedAccount, Blank
  <2>3. Float(0) = 0
    <3> DEFINE top == 2^Mantissa
    <3>1. top \in Nat
      BY MantissaIsPositive, PowerCounts
    <3>2. 0 \in Int /\ 0 <= top /\ -0 <= top
      <4>. HIDE DEF top
      <4>. QED BY <3>1
    <3>. QED BY <3>2, FloatIsExact
  <2>4. NewRow(a) = [address |-> a.address, token |-> a.token, amount |-> 0]
    BY <2>2, <2>3 DEF NewRow
  <2>5. AccountsTable.name = "accounts" /\ "accounts" \in DOMAIN db
    BY <1>1 DEF IsDb, Names, Tables, AccountsTable
  <2>6. db'.accounts = db.accounts \cup {NewRow(a)}
    BY <2>1, <2>5
  <2>7. Others({"accounts"})
    BY <2>1 DEF Others
  <2>8. Calls!InsertAccount(a.address, a.token)
    BY <2>4, <2>6 DEF Calls!InsertAccount
  <2>9. Calls!AddAccountAllowed(a.address, a.token)
    BY <2>2, TextsAssumption DEF Calls!AddAccountAllowed, Blank
  <2>10. \E x \in Address, t \in Token : Calls!AddAccountAllowed(x, t) /\ Calls!InsertAccount(x, t)
    BY <2>2, <2>8, <2>9
  <2>. QED BY <2>7, <2>10 DEF RepositoryStep
<1>. QED BY <1>4, <1>5

\* IncrementAccountBalance is an addition, as long as nothing has been rounded.
LEMMA BalanceWritesStep ==
    ASSUME LedgerInv, LedgerInv', WriteBalance PROVE RepositoryStep \/ db' = db
<1>1. Sound(db) /\ Typed(db) /\ AreCalls(load.calls) /\ Explained(db, ledger) /\ IsDb(db)
  BY DEF LedgerInv, TypedInv, TablesInv, Sound, Consistent
<1>2. PICK a \in load.calls.accounts, n \in load.calls.amounts :
          Write(IncrementAccountBalance(db, a.address, a.token, n).db, Noted(db, ledger, a, n))
  BY DEF WriteBalance, Noted, Added, Size
<1>3. n \in Int
  BY <1>1 DEF AreCalls
<1> DEFINE Inc(r) == Incremented(r, a.address, a.token, n)
           rows == IncrementedRows(db, a.address, a.token, n)
           key == <<a.address, a.token>>
<1>4. db' = [db EXCEPT !.accounts = rows] /\ ledger' = Noted(db, ledger, a, n)
  BY <1>1, <1>2, IncrementDoes DEF Write
<1>5. rows = {Inc(r) : r \in db.accounts}
  BY DEF IncrementedRows
<1>6. "accounts" \in DOMAIN db
  BY <1>1 DEF IsDb, Names, Tables, AccountsTable
<1>. HIDE DEF rows
<1>7. db'.accounts = rows /\ Others({"accounts"})
  BY <1>4, <1>6 DEF Others
<1>8. CASE ~\E r \in db.accounts : r.address = a.address /\ r.token = a.token
  <2>1. \A r \in db.accounts : Inc(r) = r
    BY <1>8 DEF Incremented
  <2>. HIDE DEF Inc
  <2>2. rows = db.accounts
    BY <1>5, <2>1
  <2>3. db' = [db EXCEPT !.accounts = db.accounts]
    BY <1>4, <2>2
  <2>4. db' = db
    BY <1>1, <2>3 DEF IsDb
  <2>. QED BY <2>4
<1>9. CASE Rounded
  BY <1>7, <1>9 DEF RepositoryStep
<1>10. CASE ~Rounded /\ \E r \in db.accounts : r.address = a.address /\ r.token = a.token
  <2>1. a.address \in Address /\ a.token \in Token /\ key \in Keys
    BY <1>1, <1>10, TypedAccount DEF Keys
  <2>2. ledger' = Added(ledger, key, n)
    BY <1>4, <1>10 DEF Noted
  <2>3. LedgerTyped(ledger)
    BY <1>1 DEF Explained
  <2> DEFINE l == ledger
             m == ledger'
  <2>. HIDE DEF key
  <2>4. /\ LedgerTyped(m)
        /\ m.exact[key] = l.exact[key] + n /\ m.volume[key] = l.volume[key] + Size(n)
        /\ \A k \in Keys \ {key} : m.exact[k] = l.exact[k] /\ m.volume[k] = l.volume[k]
    BY <1>3, <2>1, <2>2, <2>3, AddedDoes
  <2>5. \A k \in Keys : ~(m.volume[k] > 2^Mantissa)
    BY <1>10 DEF Rounded, Keys
  <2>6. \A r \in db'.accounts : m.volume[RowKey(r)] <= 2^Mantissa => r.amount = m.exact[RowKey(r)]
    BY DEF LedgerInv, Explained, Balanced, RowKey
  <2>7. ASSUME NEW r \in db.accounts
        PROVE  Inc(r) = IF r.address = a.address /\ r.token = a.token
                          THEN [r EXCEPT !.amount = @ + n] ELSE r
    <3>1. /\ r = [c \in AccountColumns |-> r[c]]
          /\ r.address \in Address /\ r.token \in Token /\ r.amount \in Int /\ RowKey(r) \in Keys
      BY <1>1, TypedAccount
    <3>2. l.volume[RowKey(r)] <= 2^Mantissa => r.amount = l.exact[RowKey(r)]
      BY <1>1 DEF Explained, Balanced
    <3>3. CASE ~(r.address = a.address /\ r.token = a.token)
      BY <3>3 DEF Incremented
    <3>4. CASE r.address = a.address /\ r.token = a.token
      <4> DEFINE new == Float(r.amount + Float(Float(n)))
                 top == 2^Mantissa
      <4>1. Inc(r) = [r EXCEPT !.amount = new]
        BY <3>4 DEF Incremented
      <4>2. RowKey(r) = key
        BY <3>4 DEF RowKey, key
      <4>3. DOMAIN r = {"address", "token", "amount"}
        BY <3>1 DEF AccountColumns
      <4>. HIDE DEF new
      <4>4. Inc(r).address = r.address /\ Inc(r).token = r.token /\ Inc(r).amount = new
        BY <4>1, <4>3
      <4>5. RowKey(Inc(r)) = key
        BY <4>2, <4>4 DEF RowKey
      <4>6. Inc(r) \in db'.accounts
        BY <1>5, <1>7
      <4>. HIDE DEF Inc, m, l
      <4>7. top \in Nat
        BY MantissaIsPositive, PowerCounts
      <4>8. m.volume[key] \in Nat /\ l.volume[key] \in Nat /\ Size(n) \in Nat /\ l.exact[key] \in Int
        BY <1>3, <2>1, <2>3, <2>4 DEF LedgerTyped, Size, m, l
      <4>9. ~(m.volume[key] > top)
        BY <2>1, <2>5
      <4>. HIDE DEF top
      <4>10. m.volume[key] <= top /\ l.volume[key] <= top
        BY <2>4, <4>7, <4>8, <4>9
      <4>11. new = m.exact[key]
        BY <2>6, <4>4, <4>5, <4>6, <4>10 DEF top
      <4>12. r.amount = l.exact[key]
        BY <3>2, <4>2, <4>10 DEF top
      <4>13. new = r.amount + n
        BY <2>4, <4>11, <4>12
      <4>. QED BY <3>4, <4>1, <4>13
    <3>. QED BY <3>3, <3>4
  <2>8. Calls!IncrementAccountBalance(a.address, a.token, n)
    <3>. HIDE DEF Inc
    <3>1. rows = {IF r.address = a.address /\ r.token = a.token
                    THEN [r EXCEPT !.amount = @ + n] ELSE r : r \in db.accounts}
      BY <1>5, <2>7
    <3>. QED BY <1>7, <3>1 DEF Calls!IncrementAccountBalance
  <2>. QED BY <1>7, <2>1, <2>8 DEF RepositoryStep
<1>. QED BY <1>8, <1>9, <1>10

\* The rows the builders make of a bulk of transfers that passes their checks.
TransferRows(b, rows) ==
    LET ts == b.transfers
    IN  /\ IsList(rows) /\ DOMAIN rows = DOMAIN ts
        /\ \A i \in DOMAIN ts :
             LET m == TransferDefaults(NewTransfer(b.hash, ts[i]), Now)
             IN  rows[i] = TransferSpec(m) /\ Valid(m, TransferFields)

\* What an INSERT into transfers does to the table: all the rows of the bulk, or nothing.
TransfersStep(b) ==
    /\ Calls!AddTransfersAllowed(AbstractBulk(b))
    /\ Cardinality(db'.transfers) = Cardinality(db.transfers) + Len(b.transfers)
    /\ StoredRows(db'.transfers \ db.transfers) = RowsOfBulk(b)
    /\ db.transfers \subseteq db'.transfers

\* The columns StoredRows keeps, of a row that was numbered.
LEMMA StoredRow ==
    ASSUME NEW hash, NEW t, IsTransfer(t), NEW row,
           row = TransferSpec(TransferDefaults(NewTransfer(hash, t), Now)),
           NEW r, \A c \in TransferColumns \ {"id"} : r[c] = row[c]
    PROVE  /\ r.func = ToLower(t.func) /\ r.token = t.token /\ r.amount = Float(t.amount)
           /\ r.hash = hash
           /\ Scanned(r, "from_address", NoAddress) = t.from_address
           /\ Scanned(r, "to_address", NoAddress) = t.to_address
           /\ r.from_address = (IF t.from_address = NoAddress THEN Null ELSE t.from_address)
           /\ r.to_address = (IF t.to_address = NoAddress THEN Null ELSE t.to_address)
<1>1. /\ row.hash = hash /\ row.func = ToLower(t.func)
      /\ row.token = t.token /\ row.amount = Float(t.amount)
      /\ row.from_address = (IF t.from_address = NoAddress THEN Null ELSE t.from_address)
      /\ row.to_address = (IF t.to_address = NoAddress THEN Null ELSE t.to_address)
  BY TransferRowOf
<1>2. {"hash", "func", "token", "amount", "from_address", "to_address"}
        \subseteq TransferColumns \ {"id"}
  BY DEF TransferColumns
<1>3. /\ r.hash = hash /\ r.func = ToLower(t.func)
      /\ r.token = t.token /\ r.amount = Float(t.amount)
      /\ r.from_address = (IF t.from_address = NoAddress THEN Null ELSE t.from_address)
      /\ r.to_address = (IF t.to_address = NoAddress THEN Null ELSE t.to_address)
  BY <1>1, <1>2
<1>4. t.from_address \in Address \cup {NoAddress} /\ t.to_address \in Address \cup {NoAddress}
  BY DEF IsTransfer
<1>5. Scanned(r, "from_address", NoAddress) = t.from_address
  <2>1. CASE t.from_address = NoAddress
    BY <1>3, <2>1 DEF Scanned
  <2>2. CASE t.from_address # NoAddress
    BY <1>3, <1>4, <2>2, NullAssumption DEF Scanned
  <2>. QED BY <2>1, <2>2
<1>6. Scanned(r, "to_address", NoAddress) = t.to_address
  <2>1. CASE t.to_address = NoAddress
    BY <1>3, <2>1 DEF Scanned
  <2>2. CASE t.to_address # NoAddress
    BY <1>3, <1>4, <2>2, NullAssumption DEF Scanned
  <2>. QED BY <2>1, <2>2
<1>. QED BY <1>3, <1>5, <1>6

\* An INSERT into transfers takes the whole bulk, under the conditions of module Repository.
LEMMA TransfersAppend ==
    ASSUME IsDb(db), Typed(db), NEW b, IsBulk(b), NEW rows, TransferRows(b, rows),
           db' = Insert(db, TransfersTable, rows).db, db' # db
    PROVE  TransfersStep(b)
<1> DEFINE t == TransfersTable
           ts == b.transfers
           new == Numbered(db, t, rows)
           n == Len(ts)
           old == db.transfers
           all == db'.transfers
<1>1. IsList(ts) /\ b.hash \in Hash /\ \A i \in DOMAIN ts : IsTransfer(ts[i])
  BY DEF IsBulk
<1>2. DOMAIN ts = 1 .. n /\ n \in Nat
  BY <1>1, ListIsFinite
<1>3. /\ IsList(rows) /\ DOMAIN rows = 1 .. n
      /\ \A i \in 1 .. n : rows[i] = TransferSpec(TransferDefaults(NewTransfer(b.hash, ts[i]), Now))
      /\ \A i \in 1 .. n : Valid(TransferDefaults(NewTransfer(b.hash, ts[i]), Now), TransferFields)
  BY <1>2 DEF TransferRows
<1>4. t \in Tables /\ t.name = "transfers" /\ t.columns = TransferColumns
  BY DEF Tables, TransfersTable
<1>5. WithoutKeys(t, rows)
  <2>1. ASSUME NEW i \in DOMAIN rows PROVE IsRow(t, rows[i]) /\ rows[i].id = Null
    BY <1>3, RowOfIsRow, TransferRowOf DEF TransferSpec
  <2>. QED BY <1>3, <2>1 DEF WithoutKeys
<1>. HIDE DEF ts, n
<1>6. Fresh(db, t, rows, new)
  <2>1. t \in {TransactionsTable, TransfersTable}
    OBVIOUS
  <2>. HIDE DEF t
  <2>. QED BY <1>5, <2>1, RowsAreFresh
<1>7. Adds(db, t, rows, db')
  <2>1. db' = Insert(db, t, rows).db
    OBVIOUS
  <2>. HIDE DEF t
  <2>. QED BY <1>4, <2>1, InsertAdds
<1>. HIDE DEF t
<1>8. /\ DOMAIN new = 1 .. n
      /\ \A i \in 1 .. n : \A c \in TransferColumns \ {"id"} : new[i][c] = rows[i][c]
      /\ \E top \in Nat : /\ \A r \in old : r.id \in Nat /\ r.id <= top
                          /\ \A i \in 1 .. n : new[i].id = i + top
  BY <1>3, <1>4, <1>6 DEF Fresh
<1>9. /\ \A i \in 1 .. n : References(db, t, new[i])
      /\ all = old \cup {new[i] : i \in 1 .. n}
  BY <1>3, <1>4, <1>7 DEF Adds
<1>. HIDE DEF new
<1>10. IsFiniteSet(old)
  BY <1>4 DEF Typed
<1>11. Cardinality(all) = Cardinality(old) + n
  <2>1. Above(old, n, new)
    BY <1>2, <1>8, <1>10 DEF Above
  <2>2. Follow(old, n, new, all)
    <3>. HIDE DEF old, all
    <3>. QED BY <1>9, <2>1, PlacesAppend
  <2>. QED BY <2>2 DEF Follow
<1>12. all \ old = {new[i] : i \in 1 .. n}
  <2>1. ASSUME NEW i \in 1 .. n PROVE new[i] \notin old
    <3>1. PICK top \in Nat : /\ \A r \in old : r.id \in Nat /\ r.id <= top
                             /\ \A j \in 1 .. n : new[j].id = j + top
      BY <1>8
    <3>2. ~(new[i].id <= top)
      BY <1>2, <3>1
    <3>. QED BY <3>1, <3>2
  <2>. QED BY <1>9, <2>1
<1>. HIDE DEF all, old
<1>13. \A i \in 1 .. n :
         /\ new[i].func = ToLower(ts[i].func) /\ new[i].token = ts[i].token
         /\ new[i].amount = Float(ts[i].amount) /\ new[i].hash = b.hash
         /\ Scanned(new[i], "from_address", NoAddress) = ts[i].from_address
         /\ Scanned(new[i], "to_address", NoAddress) = ts[i].to_address
         /\ new[i].from_address = (IF ts[i].from_address = NoAddress THEN Null
                                  ELSE ts[i].from_address)
         /\ new[i].to_address = (IF ts[i].to_address = NoAddress THEN Null
                                  ELSE ts[i].to_address)
  <2> SUFFICES ASSUME NEW i \in 1 .. n PROVE
         /\ new[i].func = ToLower(ts[i].func) /\ new[i].token = ts[i].token
         /\ new[i].amount = Float(ts[i].amount) /\ new[i].hash = b.hash
         /\ Scanned(new[i], "from_address", NoAddress) = ts[i].from_address
         /\ Scanned(new[i], "to_address", NoAddress) = ts[i].to_address
         /\ new[i].from_address = (IF ts[i].from_address = NoAddress THEN Null
                                  ELSE ts[i].from_address)
         /\ new[i].to_address = (IF ts[i].to_address = NoAddress THEN Null
                                  ELSE ts[i].to_address)
    OBVIOUS
  <2> DEFINE x == ts[i]
             r == new[i]
             w == rows[i]
             hash == b.hash
  <2>1. IsTransfer(x) /\ w = TransferSpec(TransferDefaults(NewTransfer(hash, x), Now))
        /\ \A c \in TransferColumns \ {"id"} : r[c] = w[c]
    BY <1>1, <1>2, <1>3, <1>8
  <2>. HIDE DEF x, r, w, hash
  <2>2. /\ r.func = ToLower(x.func) /\ r.token = x.token /\ r.amount = Float(x.amount)
        /\ r.hash = hash
        /\ Scanned(r, "from_address", NoAddress) = x.from_address
        /\ Scanned(r, "to_address", NoAddress) = x.to_address
        /\ r.from_address = (IF x.from_address = NoAddress THEN Null ELSE x.from_address)
        /\ r.to_address = (IF x.to_address = NoAddress THEN Null ELSE x.to_address)
    BY <2>1, StoredRow
  <2>. QED BY <2>2 DEF x, r, hash
<1>14. StoredRows(all \ old) = RowsOfBulk(b)
  <2> DEFINE Row(i) == [event |-> i, func |-> ToLower(ts[i].func), from |-> ts[i].from_address,
                        to |-> ts[i].to_address, token |-> ts[i].token, amount |-> ts[i].amount]
             Stored1(r) == [func |-> r.func, from |-> Scanned(r, "from_address", NoAddress),
                            to |-> Scanned(r, "to_address", NoAddress), token |-> r.token,
                            amount |-> r.amount, hash |-> r.hash]
             Bulk1(r) == [func |-> r.func, from |-> r.from, to |-> r.to, token |-> r.token,
                          amount |-> Float(r.amount), hash |-> b.hash]
  <2>1. AbstractBulk(b) = {Row(i) : i \in 1 .. n}
    BY <1>2 DEF AbstractBulk, ts
  <2>2. RowsOfBulk(b) = {Bulk1(r) : r \in AbstractBulk(b)}
    BY DEF RowsOfBulk
  <2>3. StoredRows(all \ old) = {Stored1(r) : r \in all \ old}
    BY DEF StoredRows
  <2>4. \A i \in 1 .. n : Stored1(new[i]) = Bulk1(Row(i))
    BY <1>13
  <2>. HIDE DEF Row, Stored1, Bulk1
  <2>5. StoredRows(all \ old) = {Stored1(new[i]) : i \in 1 .. n}
    BY <1>12, <2>3
  <2>6. RowsOfBulk(b) = {Bulk1(Row(i)) : i \in 1 .. n}
    BY <2>1, <2>2
  <2>. QED BY <2>4, <2>5, <2>6
<1>15. Calls!AddTransfersAllowed(AbstractBulk(b))
  <2>1. ASSUME NEW i \in DOMAIN ts PROVE MayTransfer(ts[i])
    <3>1. ts[i].amount > 0 /\ ToLower(ts[i].func) # "" /\ ts[i].token # NoToken
      BY <1>1, <1>2, <1>3, TransferChecks
    <3>2. References(db, TransfersTable, new[i])
      BY <1>2, <1>9 DEF t
    <3>3. Calls!Referenced(ts[i].from_address) /\ Calls!Referenced(ts[i].to_address)
      BY <1>1, <1>2, <1>13, <3>2, TransferReferences
    <3>. QED BY <3>1, <3>3 DEF MayTransfer
  <2>. QED BY <2>1, AllowedBulk DEF ts
<1>. QED BY <1>9, <1>11, <1>14, <1>15 DEF TransfersStep, all, old, n, ts

\* AddTransfer and AddTransfers.
LEMMA TransferWritesStep ==
    ASSUME TypedInv, WriteTransfer \/ WriteTransfers PROVE RepositoryStep \/ db' = db
<1>1. IsDb(db) /\ Typed(db) /\ AreCalls(load.calls)
  BY DEF TypedInv, TablesInv, Sound, Consistent
<1>2. ASSUME NEW b \in Bulks, TransfersStep(b), OnlyIn(TransfersTable, db, db') PROVE RepositoryStep
  <2>1. TransfersTable.name = "transfers"
    BY DEF TransfersTable
  <2>2. Others({"transfers"})
    BY <1>1, <1>2, <2>1, OthersStay
  <2>. QED BY <1>2, <2>2 DEF RepositoryStep, TransfersStep
<1>3. CASE WriteTransfer
  <2>1. PICK c \in load.calls.transfers :
            db' = AddTransfer(db, [hash |-> c.hash], c.transfer).db
    BY <1>3 DEF WriteTransfer, Write
  <2> DEFINE ts == <<c.transfer>>
             b == [hash |-> c.hash, transfers |-> ts]
             m == TransferDefaults(NewTransfer(c.hash, c.transfer), Now)
             row == TransferSpec(m)
             rows == <<row>>
  <2>2. b \in Bulks /\ b.hash = c.hash /\ b.transfers = ts
    BY DEF Bulks
  <2>3. db' = Create(db, TransfersTable, TransferFields, m, row).db
    BY <2>1 DEF AddTransfer, Written, SaveTransfer
  <2>4. OnlyIn(TransfersTable, db, db')
    BY <1>1, <2>1, TransfersChangeTransfers
  <2>5. CASE db' # db
    <3>1. Valid(m, TransferFields) /\ db' = Insert(db, TransfersTable, rows).db
      <4>. HIDE DEF m, row
      <4>. QED BY <2>3, <2>5, CreateInserts
    <3>2. IsList(rows) /\ DOMAIN rows = {1} /\ rows[1] = row
      BY OneRowIsList
    <3>3. DOMAIN ts = {1} /\ ts[1] = c.transfer
      BY OneRowIsList
    <3>4. TransferRows(b, rows)
      <4>. HIDE DEF ts, b, rows
      <4>. QED BY <2>2, <3>1, <3>2, <3>3 DEF TransferRows
    <3>5. IsBulk(b)
      <4>. HIDE DEF b
      <4>. QED BY <1>1, <2>2, BulksAreTyped
    <3>. HIDE DEF b, rows
    <3>6. TransfersStep(b)
      BY <1>1, <2>5, <3>1, <3>4, <3>5, TransfersAppend
    <3>. QED BY <1>2, <2>2, <2>4, <3>6
  <2>. QED BY <2>5
<1>4. CASE WriteTransfers
  <2>1. PICK b \in load.calls.transferBatches :
            db' = AddTransfers(db, [hash |-> b.hash], b.transfers).db
    BY <1>4 DEF WriteTransfers, Write
  <2> DEFINE ts == b.transfers
             ms == [i \in DOMAIN ts |-> TransferDefaults(NewTransfer(b.hash, ts[i]), Now)]
             rows == [i \in DOMAIN ms |-> TransferSpec(ms[i])]
  <2>2. b \in Bulks
    BY DEF Bulks
  <2>3. db' = CreateBulk(db, TransfersTable, TransferFields, ms, rows).db
    <3>1. SaveTransfers(db, [i \in DOMAIN ts |-> NewTransfer(b.hash, ts[i])], Now)
            = CreateBulk(db, TransfersTable, TransferFields, ms, rows)
      BY DEF SaveTransfers
    <3>. QED BY <2>1, <3>1 DEF AddTransfers, Written
  <2>4. OnlyIn(TransfersTable, db, db')
    BY <1>1, <2>1, TransfersChangeTransfers
  <2>5. IsBulk(b) /\ IsList(ts)
    BY <1>1, <2>2, BulksAreTyped DEF IsBulk
  <2>6. CASE db' # db
    <3>1. /\ \A i \in DOMAIN ms : Valid(ms[i], TransferFields)
          /\ db' = Insert(db, TransfersTable, rows).db
      <4>. HIDE DEF ms, rows
      <4>. QED BY <2>3, <2>6, CreateBulkInserts
    <3>2. DOMAIN rows = DOMAIN ts /\ DOMAIN ms = DOMAIN ts /\ rows = [i \in DOMAIN ts |-> rows[i]]
      OBVIOUS
    <3>3. IsList(rows)
      <4>. HIDE DEF ts, ms, rows
      <4>. QED BY <2>5, <3>2, ListOf
    <3>4. TransferRows(b, rows)
      BY <3>1, <3>2, <3>3 DEF TransferRows
    <3>. HIDE DEF rows
    <3>5. TransfersStep(b)
      BY <1>1, <2>5, <2>6, <3>1, <3>4, TransfersAppend
    <3>. QED BY <1>2, <2>2, <2>4, <3>5
  <2>. QED BY <2>6
<1>. QED BY <1>3, <1>4

\* AddTransaction and AddTransactions.
LEMMA TransactionWritesStep ==
    ASSUME TypedInv, TypedInv', WriteTransaction \/ WriteTransactions
    PROVE  RepositoryStep \/ db' = db
<1>1. IsDb(db) /\ Typed(db) /\ AreCalls(load.calls)
  BY DEF TypedInv, TablesInv, Sound, Consistent
<1>2. ASSUME NEW h \in Int, NEW txs, NEW rows, TransactionRows(h, txs, rows),
             db' = Insert(db, TransactionsTable, rows).db, db' # db,
             OnlyIn(TransactionsTable, db, db')
      PROVE  h \in Heights /\ Calls!InsertTransactions(h, txs) /\ Others({"transactions"})
  <2>1. /\ \E b \in db.blocks : b.height = h
        /\ TransactionsOf(db', h) = TransactionsOf(db, h) \o txs
        /\ \A k : k # h => TransactionsOf(db', k) = TransactionsOf(db, k)
    <3>1. IsDb(db) /\ Typed(db) /\ TransactionRows(h, txs, rows)
      BY <1>1, <1>2
    <3>2. db' = Insert(db, TransactionsTable, rows).db /\ db' # db
      BY <1>2
    <3>. QED BY <3>1, <3>2, TransactionsAppend
  <2>2. BlocksTable \in Tables /\ BlocksTable.name = "blocks"
        /\ TransactionsTable.name = "transactions"
    BY DEF Tables, BlocksTable, TransactionsTable
  <2>3. h \in Heights
    BY <2>1 DEF Heights
  <2>4. h \in Height
    BY <1>1, <2>1, <2>2 DEF Typed, RowTyped
  <2>5. Others({"transactions"})
    BY <1>1, <1>2, <2>2, OthersStay
  <2> DEFINE s == [k \in Height |-> TransactionsOf(db, k)]
             u == [k \in Height |-> TransactionsOf(db', k)]
  <2>6. u = [s EXCEPT ![h] = @ \o txs]
    <3> DEFINE w == [s EXCEPT ![h] = @ \o txs]
    <3>1. DOMAIN s = Height /\ DOMAIN u = Height /\ DOMAIN w = Height
      OBVIOUS
    <3>2. \A k \in Height : w[k] = u[k]
      BY <2>1, <2>4
    <3>3. w = [k \in Height |-> w[k]] /\ u = [k \in Height |-> u[k]]
      OBVIOUS
    <3>. HIDE DEF w, u
    <3>. QED BY <3>2, <3>3 DEF w
  <2>7. Calls!InsertTransactions(h, txs)
    BY <2>6 DEF Calls!InsertTransactions, TransactionsOf, BlockRows, AtPlace, The
  <2>. QED BY <2>3, <2>5, <2>7
<1>3. CASE WriteTransaction
  <2>1. PICK h \in load.calls.heights, tx \in load.calls.transactions :
            db' = AddTransaction(db, h, tx).db
    BY <1>3 DEF WriteTransaction, Write
  <2> DEFINE m == TransactionDefaults(NewTransaction(h, tx), Now)
             row == TransactionSpec(m)
             rows == <<row>>
             txs == <<tx>>
  <2>2. h \in Int /\ IsTransaction(tx)
    BY <1>1 DEF AreCalls
  <2>3. db' = Create(db, TransactionsTable, TransactionFields, m, row).db
    BY <2>1 DEF AddTransaction, Written, SaveTransaction
  <2>4. OnlyIn(TransactionsTable, db, db')
    BY <1>1, <2>1, TransactionsChangeTransactions
  <2>5. CASE db' # db
    <3>1. db' = Insert(db, TransactionsTable, rows).db
      <4>. HIDE DEF m, row
      <4>. QED BY <2>3, <2>5, CreateInserts
    <3>2. IsList(rows) /\ DOMAIN rows = {1} /\ rows[1] = row
      BY OneRowIsList
    <3>3. IsList(txs) /\ DOMAIN txs = {1} /\ txs[1] = tx
      BY OneRowIsList
    <3>4. TransactionRows(h, txs, rows)
      <4>. HIDE DEF txs, rows
      <4>. QED BY <2>2, <3>2, <3>3 DEF TransactionRows
    <3>5. h \in Heights /\ Calls!InsertTransactions(h, txs) /\ Others({"transactions"})
      <4>. HIDE DEF txs, rows
      <4>. QED BY <1>2, <2>2, <2>4, <2>5, <3>1, <3>4
    <3>. QED BY <3>5 DEF RepositoryStep
  <2>. QED BY <2>5
<1>4. CASE WriteTransactions
  <2>1. PICK h \in load.calls.heights, txs \in load.calls.transactionBatches :
            db' = AddTransactions(db, h, txs).db
    BY <1>4 DEF WriteTransactions, Write
  <2> DEFINE ms == [i \in DOMAIN txs |-> TransactionDefaults(NewTransaction(h, txs[i]), Now)]
             rows == [i \in DOMAIN ms |-> TransactionSpec(ms[i])]
  <2>2. h \in Int /\ IsList(txs) /\ \A i \in DOMAIN txs : IsTransaction(txs[i])
    BY <1>1 DEF AreCalls
  <2>3. OnlyIn(TransactionsTable, db, db')
    BY <1>1, <2>1, TransactionsChangeTransactions
  <2>4. CASE db' # db
    <3>1. db' = CreateBulk(db, TransactionsTable, TransactionFields, ms, rows).db
      BY <2>1, <2>4 DEF AddTransactions, SaveTransactions
    <3>2. db' = Insert(db, TransactionsTable, rows).db
      <4>. HIDE DEF ms, rows
      <4>. QED BY <2>4, <3>1, CreateBulkInserts
    <3>3. DOMAIN rows = DOMAIN txs /\ DOMAIN ms = DOMAIN txs /\ rows = [i \in DOMAIN txs |-> rows[i]]
      OBVIOUS
    <3>4. IsList(rows)
      <4>. HIDE DEF ms, rows
      <4>. QED BY <2>2, <3>3, ListOf
    <3>5. TransactionRows(h, txs, rows)
      BY <2>2, <3>3, <3>4 DEF TransactionRows
    <3>. HIDE DEF rows
    <3>6. h \in Heights /\ Calls!InsertTransactions(h, txs) /\ Others({"transactions"})
      BY <1>2, <2>2, <2>3, <2>4, <3>2, <3>5
    <3>. QED BY <3>6 DEF RepositoryStep
  <2>. QED BY <2>4
<1>. QED BY <1>3, <1>4

\* Every change of the tables is one of the repository's calls, complete.
LEMMA EveryChangeIsACall == LedgerInv /\ LedgerInv' /\ [Next]_vars => [RepositoryStep]_db
<1> SUFFICES ASSUME LedgerInv, LedgerInv', [Next]_vars PROVE RepositoryStep \/ db' = db
  OBVIOUS
<1>1. TypedInv /\ TypedInv'
  BY DEF LedgerInv
<1>2. CASE \/ WriteBlock \/ WriteBlocks \/ WriteTransaction \/ WriteTransactions
           \/ WriteAccount \/ WriteBalance \/ WriteTransfer \/ WriteTransfers \/ WriteRestore
  BY <1>1, <1>2, BlockWritesStep, TransactionWritesStep, AccountWritesStep, BalanceWritesStep,
     TransferWritesStep, RestoreWritesStep
<1>3. CASE \E c \in Clients : Hit(c) \/ Miss(c) \/ Handle(c) \/ Respond(c) \/ Leave(c)
  BY <1>3 DEF Hit, Miss, Handle, Respond, Leave
<1>4. CASE Evict \/ Tick \/ UNCHANGED vars
  BY <1>4 DEF Evict, Tick, vars
<1>. QED BY <1>2, <1>3, <1>4 DEF Next

\* RepositorySteps: through the generated client's builders, hooks and statements, each call of
\* repository_ent.go takes a whole step of module Repository or leaves the tables alone.
THEOREM CallsTakeRepositorySteps == Spec => RepositorySteps
<1>1. LedgerInv /\ [Next]_vars => LedgerInv'
  BY LedgerStep
<1>2. LedgerInv /\ LedgerInv' /\ [Next]_vars => [RepositoryStep]_db
  BY EveryChangeIsACall
<1>. QED BY <1>1, <1>2, LedgerInit, PTL DEF Spec, RepositorySteps

---------------------------------------------------------------------------
(* Orders, pages and sums                                                *)

\* What an order by a column needs: whole numbers in it, and keys to tell rows apart by.
Orderable(rows, order, key) ==
    /\ IsFiniteSet(rows)
    /\ \A r \in rows : r[order.column] \in Int /\ r[key] \in Int
    /\ \A r, s \in rows : r[key] = s[key] => r = s

\* The order is strict and total.
LEMMA BeforeIsStrict ==
    ASSUME NEW rows, NEW order, NEW key, Orderable(rows, order, key)
    PROVE  /\ \A r, s \in rows : r = s \/ Before(r, s, order, key) \/ Before(s, r, order, key)
           /\ \A r, s \in rows : ~(Before(r, s, order, key) /\ Before(s, r, order, key))
           /\ \A r \in rows : ~Before(r, r, order, key)
           /\ \A r, s, u \in rows :
                Before(r, s, order, key) /\ Before(s, u, order, key) => Before(r, u, order, key)
<1> DEFINE c == order.column
           down == order.descending
<1>1. \A r \in rows : r[c] \in Int /\ r[key] \in Int
  BY DEF Orderable
<1>2. \A r, s \in rows : r[key] = s[key] => r = s
  BY DEF Orderable
<1>3. \A r, s \in rows : Before(r, s, order, key)
                      <=> IF r[c] = s[c] THEN r[key] < s[key]
                          ELSE IF down THEN r[c] > s[c] ELSE r[c] < s[c]
  BY DEF Before
<1>. HIDE DEF c, down
<1>4. CASE down
  BY <1>1, <1>2, <1>3, <1>4
<1>5. CASE ~down
  BY <1>1, <1>2, <1>3, <1>5
<1>. QED BY <1>4, <1>5

\* Places count from 1, and grow along the order.
LEMMA PlacesGrow ==
    ASSUME NEW rows, NEW order, NEW key, Orderable(rows, order, key)
    PROVE  /\ Cardinality(rows) \in Nat
           /\ \A r \in rows : Place(rows, r, order, key) \in 1 .. Cardinality(rows)
           /\ \A r, s \in rows : Before(r, s, order, key)
                => Place(rows, r, order, key) < Place(rows, s, order, key)
<1> DEFINE P(r) == Place(rows, r, order, key)
           B(r, s) == Before(r, s, order, key)
           Upto(r) == {s \in rows : s = r \/ B(s, r)}
           n == Cardinality(rows)
<1>0. IsFiniteSet(rows) /\ n \in Nat
  BY FS_CardinalityType DEF Orderable
<1>1. \A r : P(r) = Cardinality(Upto(r))
  BY DEF Place
<1>2. /\ \A r, s \in rows : r = s \/ B(r, s) \/ B(s, r)
      /\ \A r, s \in rows : ~(B(r, s) /\ B(s, r))
      /\ \A r \in rows : ~B(r, r)
      /\ \A r, s, u \in rows : B(r, s) /\ B(s, u) => B(r, u)
  BY BeforeIsStrict
<1>. HIDE DEF B, P, n
<1>3. \A r \in rows : IsFiniteSet(Upto(r)) /\ Cardinality(Upto(r)) \in Nat
                      /\ Cardinality(Upto(r)) <= n /\ Cardinality(Upto(r)) # 0
  <2> SUFFICES ASSUME NEW r \in rows
               PROVE  IsFiniteSet(Upto(r)) /\ Cardinality(Upto(r)) \in Nat
                      /\ Cardinality(Upto(r)) <= n /\ Cardinality(Upto(r)) # 0
    OBVIOUS
  <2>1. Upto(r) \in SUBSET rows /\ r \in Upto(r)
    OBVIOUS
  <2>. HIDE DEF Upto
  <2>2. IsFiniteSet(Upto(r)) /\ Cardinality(Upto(r)) <= n
    BY <1>0, <2>1, FS_Subset DEF n
  <2>3. Cardinality(Upto(r)) \in Nat /\ Cardinality(Upto(r)) # 0
    BY <2>1, <2>2, FS_CardinalityType, FS_EmptySet
  <2>. QED BY <2>2, <2>3
<1>4. ASSUME NEW r \in rows, NEW s \in rows, B(r, s) PROVE P(r) < P(s)
  <2>1. Upto(r) \in SUBSET Upto(s)
    BY <1>2, <1>4
  <2>2. s \in Upto(s) /\ s \notin Upto(r)
    BY <1>2, <1>4
  <2>3. IsFiniteSet(Upto(s)) /\ Cardinality(Upto(s)) \in Nat /\ Cardinality(Upto(r)) \in Nat
    BY <1>3
  <2>. HIDE DEF Upto
  <2>4. Cardinality(Upto(r)) < Cardinality(Upto(s))
    <3>1. Upto(r) # Upto(s)
      BY <2>2
    <3>. QED BY <2>1, <2>3, <3>1, FS_Subset
  <2>. QED BY <1>1, <2>4
<1>5. ASSUME NEW r \in rows PROVE P(r) \in 1 .. n
  <2>. HIDE DEF Upto
  <2>. QED BY <1>0, <1>1, <1>3, <1>5
<1>. QED BY <1>0, <1>4, <1>5 DEF P, B, n

\* The rows in order: each once, at its place.
LEMMA OrderEnumerates ==
    ASSUME NEW rows, NEW order, NEW key, Orderable(rows, order, key),
           NEW s, s = InOrder(rows, order, key)
    PROVE  /\ s \in Seq(rows) /\ Len(s) = Cardinality(rows) /\ Cardinality(rows) \in Nat
           /\ \A r \in rows : Place(rows, r, order, key) \in 1 .. Cardinality(rows)
           /\ \A r \in rows : s[Place(rows, r, order, key)] = r
           /\ \A i \in 1 .. Cardinality(rows) : Place(rows, s[i], order, key) = i
           /\ \A i, j \in 1 .. Cardinality(rows) : i < j => Before(s[i], s[j], order, key)
<1> DEFINE P(r) == Place(rows, r, order, key)
           B(r, u) == Before(r, u, order, key)
           n == Cardinality(rows)
           p == [r \in rows |-> P(r)]
<1>0. IsFiniteSet(rows) /\ n \in Nat
  BY FS_CardinalityType DEF Orderable
<1>1. /\ \A r \in rows : P(r) \in 1 .. n
      /\ \A r, u \in rows : B(r, u) => P(r) < P(u)
  BY PlacesGrow
<1>2. /\ \A r, u \in rows : r = u \/ B(r, u) \/ B(u, r)
  BY BeforeIsStrict
<1>3. s = [i \in 1 .. n |-> CHOOSE r \in rows : P(r) = i]
  BY DEF InOrder
<1>. HIDE DEF P, B, n
<1>4. \A r, u \in rows : P(r) = P(u) => r = u
  <2>1. \A r \in rows : P(r) \in Int
    BY <1>0, <1>1
  <2>. QED BY <1>1, <1>2, <2>1
<1>5. IsFiniteSet(1 .. n) /\ Cardinality(1 .. n) = n
  <2>1. 1 \in Int /\ n \in Int
    BY <1>0
  <2>2. Cardinality(1 .. n) = IF 1 > n THEN 0 ELSE n - 1 + 1
    BY <2>1, FS_Interval
  <2>. QED BY <1>0, <2>1, <2>2, FS_Interval
<1>6. \A i \in 1 .. n : \E r \in rows : P(r) = i
  <2>1. p \in Injection(rows, 1 .. n)
    BY <1>1, <1>4 DEF Injection, IsInjective
  <2>. HIDE DEF p
  <2>2. p \in Surjection(rows, 1 .. n)
    BY <1>0, <1>5, <2>1, FS_Injection DEF n
  <2>3. \A i \in 1 .. n : \E r \in rows : p[r] = i
    BY <2>2 DEF Surjection
  <2>. QED BY <2>3 DEF p
<1>7. \A i \in 1 .. n : s[i] \in rows /\ P(s[i]) = i
  BY <1>3, <1>6
<1>8. s \in Seq(rows) /\ Len(s) = n
  <2>1. s \in [1 .. n -> rows]
    BY <1>3, <1>7
  <2>. QED BY <1>0, <2>1
<1>9. \A r \in rows : s[P(r)] = r
  BY <1>1, <1>4, <1>7
<1>10. ASSUME NEW i \in 1 .. n, NEW j \in 1 .. n, i < j PROVE B(s[i], s[j])
  <2>1. s[i] \in rows /\ s[j] \in rows /\ P(s[i]) = i /\ P(s[j]) = j
    BY <1>7
  <2>2. s[i] # s[j] /\ ~B(s[j], s[i])
    BY <1>1, <1>10, <2>1
  <2>. QED BY <1>2, <2>1, <2>2
<1>. QED BY <1>0, <1>1, <1>7, <1>8, <1>9, <1>10 DEF P, B, n

\* The place in the order at which a page ends.
PageEnd(n, offset, limit) == IF limit = 0 \/ n <= offset + limit THEN n ELSE offset + limit

\* p is the rows of s from behind place offset up to place last.
IsPage(X, s, offset, last, p) ==
    /\ p \in Seq(X) /\ DOMAIN p = 1 .. (last - offset) /\ last \in 0 .. Len(s)
    /\ \A i \in 1 .. (last - offset) : offset + i \in 1 .. Len(s) /\ p[i] = s[offset + i]

\* What OFFSET and LIMIT keep of a list of rows.
LEMMA PageKeeps ==
    ASSUME NEW X, NEW s \in Seq(X), NEW offset \in Nat, NEW limit \in Nat,
           NEW p, p = Page(s, offset, limit), NEW last, last = PageEnd(Len(s), offset, limit)
    PROVE  IsPage(X, s, offset, last, p)
<1> DEFINE n == Len(s)
<1>0. n \in Nat /\ DOMAIN s = 1 .. n /\ \A i \in 1 .. n : s[i] \in X
  OBVIOUS
<1>1. p = SubSeq(s, offset + 1, last)
  <2>1. p = SubSeq(s, offset + 1, IF limit = 0 THEN n ELSE Min({n, offset + limit}))
    BY DEF Page
  <2>2. Min({n, offset + limit}) = IF n <= offset + limit THEN n ELSE offset + limit
    <3>1. offset + limit \in Nat
      OBVIOUS
    <3>. HIDE DEF n
    <3>. QED BY <1>0, <3>1, LesserOfTwo
  <2>. HIDE DEF n
  <2>3. last = IF limit = 0 THEN n ELSE Min({n, offset + limit})
    BY <2>2 DEF PageEnd, n
  <2>. QED BY <2>1, <2>3
<1>2. last \in 0 .. n
  <2>1. last = IF limit = 0 \/ n <= offset + limit THEN n ELSE offset + limit
    BY DEF PageEnd
  <2>. HIDE DEF n
  <2>. QED BY <1>0, <2>1
<1>3. p = [i \in 1 .. (last - offset) |-> s[offset + i]]
  <2>1. p = [i \in 1 .. (1 + last - (offset + 1)) |-> s[i + (offset + 1) - 1]]
    BY <1>0, <1>1, <1>2
  <2>2. 1 + last - (offset + 1) = last - offset
    BY <1>2
  <2>3. \A i \in 1 .. (last - offset) : i + (offset + 1) - 1 = offset + i
    BY <1>2
  <2>. QED BY <2>1, <2>2, <2>3
<1>4. \A i \in 1 .. (last - offset) : offset + i \in 1 .. n
  <2>. HIDE DEF n
  <2>. QED BY <1>0, <1>2
<1>5. p \in Seq(X)
  <2> DEFINE k == IF last >= offset THEN last - offset ELSE 0
  <2>1. k \in Nat /\ 1 .. (last - offset) = 1 .. k
    <3>. HIDE DEF n
    <3>1. last \in Int
      BY <1>0, <1>2
    <3>. QED BY <3>1
  <2>. HIDE DEF k
  <2>2. p \in [1 .. k -> X]
    BY <1>0, <1>3, <1>4, <2>1
  <2>. QED BY <2>1, <2>2
<1>. QED BY <1>2, <1>3, <1>4, <1>5 DEF IsPage

\* Without OFFSET and LIMIT every row is kept.
LEMMA WholePage == ASSUME NEW X, NEW s \in Seq(X) PROVE Page(s, 0, 0) = s
<1> DEFINE n == Len(s)
<1>1. n \in Nat /\ s = [i \in 1 .. n |-> s[i]]
  OBVIOUS
<1>2. Page(s, 0, 0) = SubSeq(s, 0 + 1, n)
  BY DEF Page
<1>3. 0 + 1 = 1
  OBVIOUS
<1>4. SubSeq(s, 1, n) = [i \in 1 .. n |-> s[i]]
  BY <1>1
<1>. QED BY <1>1, <1>2, <1>3, <1>4

\* A list that is made element by element from another.
LEMMA MappedList ==
    ASSUME NEW X, NEW s \in Seq(X), NEW v, DOMAIN v = DOMAIN s, v = [i \in DOMAIN v |-> v[i]]
    PROVE  /\ Len(v) = Len(s) /\ Len(v) \in Nat /\ DOMAIN v = 1 .. Len(s)
           /\ (Len(s) = 0 <=> v = << >>)
<1> DEFINE n == Len(s)
<1>1. n \in Nat /\ DOMAIN s = 1 .. n
  OBVIOUS
<1>. HIDE DEF n
<1>2. v = [i \in 1 .. n |-> v[i]] /\ DOMAIN v = 1 .. n
  BY <1>1
<1>3. Len(v) = n
  BY <1>1, <1>2
<1>4. n = 0 => v = << >>
  BY <1>2
<1>5. v = << >> => n = 0
  BY <1>3
<1>. QED BY <1>1, <1>2, <1>3, <1>4, <1>5 DEF n

\* The sum over one row is what the row holds, as a float.
LEMMA SumOfOneRow ==
    ASSUME NEW r, NEW column PROVE FloatSum({r}, column) = Float(0 + r[column])
<1> DEFINE S == {r}
           iter == CHOOSE it : it = [s \in SUBSET S |->
                       IF s = {} THEN 0
                       ELSE LET x == CHOOSE x \in s : TRUE
                            IN  Float(it[s \ {x}] + x[column])]
           g == [s \in SUBSET S |-> IF s = {} THEN 0 ELSE Float(0 + r[column])]
<1>1. FloatSum(S, column) = iter[S]
  BY DEF FloatSum, FoldSet, MapThenFoldSet
<1>2. g = [s \in SUBSET S |->
               IF s = {} THEN 0
               ELSE LET x == CHOOSE x \in s : TRUE
                    IN  Float(g[s \ {x}] + x[column])]
  <2>1. SUBSET S = {{}, S}
    OBVIOUS
  <2>2. (CHOOSE x \in S : TRUE) = r /\ S \ {r} = {} /\ S # {}
    OBVIOUS
  <2>3. g[{}] = 0
    OBVIOUS
  <2>4. ASSUME NEW s \in SUBSET S
        PROVE  (IF s = {} THEN 0 ELSE Float(0 + r[column]))
                 = IF s = {} THEN 0
                   ELSE LET x == CHOOSE x \in s : TRUE
                        IN  Float(g[s \ {x}] + x[column])
    <3>. HIDE DEF g
    <3>1. CASE s = {}
      BY <3>1
    <3>2. CASE s = S
      BY <2>2, <2>3, <3>2
    <3>. QED BY <2>1, <3>1, <3>2
  <2>. QED BY <2>4
<1>3. iter = [s \in SUBSET S |->
                  IF s = {} THEN 0
                  ELSE LET x == CHOOSE x \in s : TRUE
                       IN  Float(iter[s \ {x}] + x[column])]
  <2>. HIDE DEF g
  <2>. QED BY <1>2
<1>. HIDE DEF iter
<1>4. iter[{}] = 0
  BY <1>3
<1>5. iter[S] = Float(iter[{}] + r[column])
  <2>1. (CHOOSE x \in S : TRUE) = r /\ S \ {r} = {} /\ S # {} /\ S \in SUBSET S
    OBVIOUS
  <2>. HIDE DEF S
  <2>2. iter[S] = LET x == CHOOSE x \in S : TRUE IN Float(iter[S \ {x}] + x[column])
    BY <1>3, <2>1
  <2>. QED BY <2>1, <2>2
<1>. QED BY <1>1, <1>4, <1>5

---------------------------------------------------------------------------
(* Reading blocks                                                        *)

\* A one-to-one image has as many members.
LEMMA ImageCounts ==
    ASSUME NEW S, IsFiniteSet(S), NEW g, DOMAIN g = S, \A x, y \in S : g[x] = g[y] => x = y
    PROVE  Cardinality({g[x] : x \in S}) = Cardinality(S)
<1> DEFINE T == {g[x] : x \in S}
           f == [x \in S |-> g[x]]
<1>1. f \in [S -> T] /\ (\A y \in T : \E x \in S : f[x] = y)
      /\ \A x, y \in S : f[x] = f[y] => x = y
  OBVIOUS
<1>. HIDE DEF f, T
<1>2. f \in Bijection(S, T)
  BY <1>1 DEF Bijection, Injection, Surjection, IsInjective
<1>3. Cardinality(T) = Cardinality(S)
  BY <1>2, FS_Bijection DEF ExistsBijection
<1>. QED BY <1>3 DEF T

ByHeight == [column |-> "height", descending |-> TRUE]

LEMMA BlocksAreOrderable ==
    ASSUME NEW d, Sound(d), Typed(d)
    PROVE  /\ Orderable(d.blocks, ByHeight, "height") /\ IsFiniteSet(d.blocks)
           /\ \A r \in d.blocks : r.height \in Height /\ r.height \in Int
           /\ \A r, s \in d.blocks : r.height = s.height => r = s
<1>1. BlocksTable \in Tables /\ BlocksTable.name = "blocks" /\ BlocksTable.id = "height"
  BY DEF BlocksTable, Tables
<1>2. IsFiniteSet(d.blocks) /\ \A r \in d.blocks : r.height \in Height
  BY <1>1 DEF Typed, RowTyped
<1>3. \A r, s \in d.blocks : r.height = s.height => r = s
  BY <1>1 DEF Sound, Consistent, KeysUnique
<1>4. \A r \in d.blocks : r.height \in Int
  BY <1>2, HeightsAreIntegers
<1>. QED BY <1>2, <1>3, <1>4 DEF Orderable, ByHeight

\* Blocks come from the top: each at the place that its height has among the heights.
LEMMA BlocksFromTheTop ==
    ASSUME Sound(db), Typed(db), NEW s, s = InOrder(db.blocks, ByHeight, "height"),
           NEW n, n = Cardinality(db.blocks)
    PROVE  /\ s \in Seq(db.blocks) /\ Len(s) = n /\ n \in Nat
           /\ \A i \in 1 .. n : s[i] \in db.blocks /\ s[i].height \in Int /\ Rank(s[i].height) = i
           /\ \A h \in Heights : Rank(h) \in 1 .. n /\ s[Rank(h)].height = h
           /\ \A i, j \in 1 .. n : i < j => s[i].height > s[j].height
<1> DEFINE rows == db.blocks
           P(r) == Place(rows, r, ByHeight, "height")
           B(r, u) == Before(r, u, ByHeight, "height")
<1>0. /\ Orderable(rows, ByHeight, "height") /\ IsFiniteSet(rows)
      /\ \A r \in rows : r.height \in Int
      /\ \A r, u \in rows : r.height = u.height => r = u
  BY BlocksAreOrderable
<1>1. \A r, u \in rows : B(r, u) <=> r.height > u.height
  <2>1. ByHeight.column = "height" /\ ByHeight.descending
    BY DEF ByHeight
  <2>2. \A r, u : B(r, u) <=> IF r.height = u.height THEN r.height < u.height
                              ELSE r.height > u.height
    BY <2>1 DEF Before
  <2>. HIDE DEF B, rows
  <2>. QED BY <1>0, <2>2
<1>2. \A r \in rows : P(r) = Rank(r.height)
  <2> SUFFICES ASSUME NEW r \in rows PROVE P(r) = Rank(r.height)
    OBVIOUS
  <2> DEFINE S == {u \in rows : u = r \/ B(u, r)}
             K == {k \in Heights : k >= r.height}
             g == [u \in S |-> u.height]
  <2>1. P(r) = Cardinality(S) /\ Rank(r.height) = Cardinality(K)
    BY DEF Place, Rank
  <2>2. \A u \in rows : u \in S <=> u.height >= r.height
    <3>. HIDE DEF B
    <3>. QED BY <1>0, <1>1
  <2>3. K = {g[u] : u \in S}
    <3>1. \A k : k \in K <=> \E u \in rows : k = u.height /\ u.height >= r.height
      BY DEF Heights
    <3>2. \A u \in S : u \in rows /\ g[u] = u.height
      OBVIOUS
    <3>. HIDE DEF S, K, g
    <3>3. \A k : k \in K <=> \E u \in S : k = g[u]
      BY <2>2, <3>1, <3>2
    <3>. QED BY <3>3
  <2>4. IsFiniteSet(S)
    <3>1. S \subseteq rows
      OBVIOUS
    <3>. HIDE DEF S, rows
    <3>. QED BY <1>0, <3>1, FS_Subset
  <2>5. DOMAIN g = S /\ \A u, v \in S : g[u] = g[v] => u = v
    <3>1. \A u \in S : u \in rows /\ g[u] = u.height
      OBVIOUS
    <3>. HIDE DEF B, rows
    <3>. QED BY <1>0, <3>1
  <2>. HIDE DEF S, K, g, P
  <2>6. Cardinality({g[u] : u \in S}) = Cardinality(S)
    BY <2>4, <2>5, ImageCounts
  <2>. QED BY <2>1, <2>3, <2>6
<1>3. /\ s \in Seq(rows) /\ Len(s) = n /\ n \in Nat
      /\ \A r \in rows : P(r) \in 1 .. n
      /\ \A r \in rows : s[P(r)] = r
      /\ \A i \in 1 .. n : P(s[i]) = i
      /\ \A i, j \in 1 .. n : i < j => B(s[i], s[j])
  BY <1>0, OrderEnumerates
<1>. HIDE DEF P, B
<1>4. \A i \in 1 .. n : s[i] \in rows
  BY <1>3
<1>5. \A h \in Heights : Rank(h) \in 1 .. n /\ s[Rank(h)].height = h
  <2> SUFFICES ASSUME NEW h \in Heights PROVE Rank(h) \in 1 .. n /\ s[Rank(h)].height = h
    OBVIOUS
  <2>1. PICK r \in rows : r.height = h
    BY DEF Heights
  <2>. QED BY <1>2, <1>3, <2>1
<1>6. \A i \in 1 .. n : s[i].height \in Int /\ Rank(s[i].height) = i
  BY <1>0, <1>2, <1>3, <1>4
<1>7. \A i, j \in 1 .. n : i < j => s[i].height > s[j].height
  BY <1>1, <1>3, <1>4
<1>. QED BY <1>3, <1>4, <1>5, <1>6, <1>7

\* The parts of ReadsAgree on blocks.
HighestIsRead ==
    LET r == GetHighestBlock(db) IN
    IF Heights = {} THEN r = ReadError
    ELSE r.value.height \in Heights /\ \A h \in Heights : h <= r.value.height
BlockIsRead(h) ==
    LET r == GetBlock(db, h) IN
    IF h \in Heights THEN r.value.height = h ELSE r = ReadError
BlocksAreRead(offset, limit) ==
    LET v == GetBlocks(db, offset, limit).value IN
    /\ {v[i].height : i \in DOMAIN v} =
         {h \in Heights : Rank(h) > offset /\ (limit > 0 => Rank(h) <= offset + limit)}
    /\ \A i, j \in DOMAIN v : i < j => v[i].height > v[j].height

\* A query of blocks from the top selects one page of them.
LEMMA SelectBlocksDoes ==
    ASSUME NEW d, NEW o, NEW l, NEW q,
           q.where = {} /\ q.order = ByHeight /\ q.offset = o /\ q.limit = l,
           NEW p, p = Page(InOrder(d.blocks, ByHeight, "height"), o, l)
    PROVE  AllBlocks(d, q) = Done(d, [i \in DOMAIN p |-> BlockNode(p[i])])
<1>2. q.where = {} /\ q.order = ByHeight /\ q.offset = o /\ q.limit = l
  OBVIOUS
<1>3. q.order # Null /\ q.order.column \in BlocksTable.columns
  <2>1. ByHeight \in [column : {"height", "index"}, descending : BOOLEAN]
    BY DEF ByHeight
  <2>2. ByHeight.column \in BlocksTable.columns
    BY DEF ByHeight, BlocksTable, BlockColumns
  <2>. QED BY <1>2, <2>1, <2>2, NullIsNoOrder
<1>4. Matching(d, BlocksTable, q) = d.blocks
  BY <1>2 DEF Matching, BlocksTable
<1>5. BlocksTable.id = "height"
  BY DEF BlocksTable
<1>6. Select(d, BlocksTable, q) = p
  BY <1>2, <1>3, <1>4, <1>5 DEF Select
<1>7. SelectBlocks(d, q) = [i \in DOMAIN p |-> BlockNode(p[i])]
  BY <1>6 DEF SelectBlocks, BlockQuerySpec
<1>. QED BY <1>3, <1>7 DEF AllBlocks, All

\* Pages of blocks from the top.
LEMMA PagesOfBlocks ==
    ASSUME Sound(db), Typed(db), NEW o \in Nat, NEW l \in Nat PROVE BlocksAreRead(o, l)
<1> DEFINE q == Desc(Limit(Offset(BlockQuery, o), l), "height")
           s == InOrder(db.blocks, ByHeight, "height")
           p == Page(s, o, l)
           nodes == [i \in DOMAIN p |-> BlockNode(p[i])]
           v == GetBlocks(db, o, l).value
           n == Cardinality(db.blocks)
           last == PageEnd(Len(s), o, l)
<1>0. q.where = {} /\ q.order = ByHeight /\ q.offset = o /\ q.limit = l
  BY DEF Desc, Limit, Offset, BlockQuery, NewQuery, ByHeight
<1>1. AllBlocks(db, q) = Done(db, nodes)
  <2>. HIDE DEF q
  <2>. QED BY <1>0, SelectBlocksDoes
<1>2. v = [i \in DOMAIN nodes |-> ModelBlock(nodes[i])]
  BY <1>1 DEF GetBlocks, Done, Value
<1>. HIDE DEF v
<1>3. DOMAIN v = DOMAIN p /\ \A i \in DOMAIN p : v[i].height = p[i].height
  <2>1. DOMAIN nodes = DOMAIN p /\ \A i \in DOMAIN p : nodes[i].id = p[i].height
    BY DEF BlockNode
  <2>. HIDE DEF nodes, p
  <2>. QED BY <1>2, <2>1 DEF ModelBlock
<1>4. /\ s \in Seq(db.blocks) /\ Len(s) = n /\ n \in Nat
      /\ \A i \in 1 .. n : s[i] \in db.blocks /\ s[i].height \in Int /\ Rank(s[i].height) = i
      /\ \A h \in Heights : Rank(h) \in 1 .. n /\ s[Rank(h)].height = h
      /\ \A i, j \in 1 .. n : i < j => s[i].height > s[j].height
  BY BlocksFromTheTop
<1>. HIDE DEF s, n, nodes
<1>6. last = IF l = 0 \/ n <= o + l THEN n ELSE o + l
  BY <1>4 DEF PageEnd
<1>11. p = Page(s, o, l) /\ last = PageEnd(Len(s), o, l)
  OBVIOUS
<1>. HIDE DEF p, last
<1>5. /\ DOMAIN p = 1 .. (last - o) /\ last \in 0 .. Len(s)
      /\ \A i \in 1 .. (last - o) : o + i \in 1 .. Len(s) /\ p[i] = s[o + i]
  <2>1. IsPage(db.blocks, s, o, last, p)
    BY <1>4, <1>11, PageKeeps
  <2>. QED BY <2>1 DEF IsPage
<1>7. \A i \in 1 .. (last - o) : o + i \in 1 .. n /\ v[i].height = s[o + i].height
  BY <1>3, <1>4, <1>5
<1>8. \A k \in 1 .. n : (k > o /\ (l > 0 => k <= o + l)) <=> (k - o \in 1 .. (last - o))
  BY <1>4, <1>6
<1>9. ASSUME NEW h PROVE h \in {v[i].height : i \in DOMAIN v}
        <=> (h \in Heights /\ Rank(h) > o /\ (l > 0 => Rank(h) <= o + l))
  <2>1. ASSUME NEW i \in DOMAIN v, h = v[i].height
        PROVE  h \in Heights /\ Rank(h) > o /\ (l > 0 => Rank(h) <= o + l)
    <3>1. i \in 1 .. (last - o) /\ i \in Int
      BY <1>3, <1>4, <1>5, <2>1
    <3>2. o + i \in 1 .. n /\ h = s[o + i].height /\ (o + i) - o = i
      BY <1>7, <2>1, <3>1
    <3>3. s[o + i] \in db.blocks /\ Rank(h) = o + i
      BY <1>4, <3>2
    <3>4. o + i > o /\ (l > 0 => o + i <= o + l)
      BY <1>8, <3>1, <3>2
    <3>5. h \in Heights
      BY <3>2, <3>3 DEF Heights
    <3>. QED BY <3>3, <3>4, <3>5
  <2>2. ASSUME h \in Heights, Rank(h) > o, l > 0 => Rank(h) <= o + l
        PROVE  \E i \in DOMAIN v : h = v[i].height
    <3>1. PICK k \in 1 .. n : k = Rank(h) /\ s[k].height = h
      BY <1>4, <2>2
    <3>2. k - o \in 1 .. (last - o)
      BY <1>8, <2>2, <3>1
    <3>3. o + (k - o) = k
      BY <1>4, <3>1
    <3>4. v[k - o].height = h /\ k - o \in DOMAIN v
      BY <1>3, <1>5, <1>7, <3>1, <3>2, <3>3
    <3>. QED BY <3>4
  <2>. QED BY <2>1, <2>2
<1>10. ASSUME NEW i \in DOMAIN v, NEW j \in DOMAIN v, i < j PROVE v[i].height > v[j].height
  <2>1. i \in 1 .. (last - o) /\ j \in 1 .. (last - o) /\ last \in Int
    BY <1>3, <1>4, <1>5
  <2>2. o + i < o + j /\ o + i \in 1 .. n /\ o + j \in 1 .. n
    BY <1>7, <1>10, <2>1
  <2>3. s[o + i].height > s[o + j].height
    BY <1>4, <2>2
  <2>. QED BY <1>7, <2>1, <2>3
<1>12. {v[i].height : i \in DOMAIN v} =
         {h \in Heights : Rank(h) > o /\ (l > 0 => Rank(h) <= o + l)}
  BY <1>9
<1>. QED BY <1>10, <1>12 DEF BlocksAreRead, v

\* What Only makes of the nodes of the page p, which holds two of the rows S or fewer.
IsOnly(S, p, nodes, r) ==
    /\ S = {} => r.err = "not found"
    /\ \A x : S = {x} => r.err = "none" /\ r.nodes[1] = nodes[1] /\ p[1] = x /\ 1 \in DOMAIN p
    /\ (S # {} /\ ~\E x : S = {x}) => r.err = "not singular"

\* Only answers with the one row, or says that there is none or more than one.
LEMMA OnlyTells ==
    ASSUME NEW S, IsFiniteSet(S), NEW p, p = Page(SetToSeq(S), 0, 2),
           NEW nodes, DOMAIN nodes = DOMAIN p, nodes = [i \in DOMAIN nodes |-> nodes[i]],
           NEW d, NEW r, r = OnlyOf(Done(d, nodes))
    PROVE  IsOnly(S, p, nodes, r)
<1>1. p \in Seq(S)
  BY TwoRowsTell
<1>2. S = {} <=> Len(p) = 0
  BY TwoRowsTell
<1>3. \A x : S = {x} => Len(p) = 1 /\ p[1] = x
  BY TwoRowsTell
<1>4. (S # {} /\ ~\E x : S = {x}) => Len(p) = 2
  BY TwoRowsTell
<1>5. Len(nodes) = Len(p) /\ (Len(p) = 0 <=> nodes = << >>)
  BY <1>1, MappedList
<1>6. /\ Len(nodes) = 1 => r.err = "none" /\ r.nodes = nodes
      /\ Len(nodes) # 1 => r.err = IF nodes = << >> THEN "not found" ELSE "not singular"
  <2> DEFINE a == Done(d, nodes)
  <2>1. a.err = "none" /\ a.nodes = nodes
    BY DEF Done
  <2>2. r = OnlyOf(a)
    OBVIOUS
  <2>. HIDE DEF a
  <2>3. ASSUME Len(nodes) = 1 PROVE r = a
    BY <2>1, <2>2, <2>3 DEF OnlyOf
  <2>4. ASSUME Len(nodes) # 1
        PROVE  r = [a EXCEPT !.err = IF nodes = << >> THEN "not found" ELSE "not singular",
                             !.nodes = << >>]
    BY <2>1, <2>2, <2>4 DEF OnlyOf
  <2>5. "err" \in DOMAIN a
    BY DEF Done, a
  <2>. QED BY <2>1, <2>3, <2>4, <2>5
<1>7. S = {} => r.err = "not found"
  <2>1. S = {} => nodes = << >> /\ Len(nodes) # 1
    BY <1>2, <1>5
  <2>. QED BY <1>6, <2>1
<1>8. ASSUME NEW x, S = {x}
      PROVE  r.err = "none" /\ r.nodes[1] = nodes[1] /\ p[1] = x /\ 1 \in DOMAIN p
  <2>1. Len(p) = 1 /\ p[1] = x
    BY <1>3, <1>8
  <2>2. 1 \in DOMAIN p
    BY <1>1, <2>1
  <2>. QED BY <1>5, <1>6, <2>1, <2>2
<1>9. ASSUME S # {}, ~\E x : S = {x} PROVE r.err = "not singular"
  <2>1. Len(p) = 2
    BY <1>4, <1>9
  <2>2. nodes # << >> /\ Len(nodes) # 1
    BY <1>5, <2>1
  <2>. QED BY <1>6, <2>2
<1>. QED BY <1>7, <1>8, <1>9 DEF IsOnly

\* The query q by the value x of a column asks for two of the rows S.
IsTwoBy(d, t, column, x, S, q) ==
    /\ S = {r \in d[t.name] : r[column] = x}
    /\ q = Limit(Where(NewQuery, {EQ(column, x)}), 2)

\* A query by the value of one column asks for two of the rows that have it.
LEMMA SelectTwoBy ==
    ASSUME NEW d, NEW t, NEW column, NEW x, NEW S, NEW q, IsTwoBy(d, t, column, x, S, q)
    PROVE  /\ Select(d, t, q) = Page(SetToSeq(S), 0, 2)
           /\ \A nodes : All(d, t, q, nodes) = Done(d, nodes)
<1>1. q.where = {EQ(column, x)} /\ q.order = Null /\ q.offset = 0 /\ q.limit = 2
  BY DEF IsTwoBy, Limit, Where, NewQuery
<1>2. Matching(d, t, q) = S
  <2>0. EQ(column, x).column = column
    BY DEF EQ
  <2>2. EQ(column, x).value = x
    BY DEF EQ
  <2>1. \A r : (\A p \in q.where : r[p.column] = p.value) <=> r[column] = x
    BY <1>1, <2>0, <2>2
  <2>. QED BY <2>1 DEF Matching, IsTwoBy
<1>. QED BY <1>1, <1>2 DEF Select, All

\* One block by its height.
LEMMA OneBlock ==
    ASSUME Sound(db), Typed(db), NEW h PROVE BlockIsRead(h)
<1> DEFINE S == {r \in db.blocks : r.height = h}
           q == Limit(Where(BlockQuery, {BlockIDEQ(h)}), 2)
           p == Page(SetToSeq(S), 0, 2)
           nodes == [i \in DOMAIN p |-> BlockNode(p[i])]
           only == OnlyOf(Done(db, nodes))
<1>1. Select(db, BlocksTable, q) = p /\ AllBlocks(db, q) = Done(db, nodes)
  <2>1. BlocksTable.name = "blocks" /\ q = Limit(Where(NewQuery, {EQ("height", h)}), 2)
    BY DEF BlocksTable, BlockQuery, BlockIDEQ
  <2>2. IsTwoBy(db, BlocksTable, "height", h, S, q)
    BY <2>1 DEF IsTwoBy
  <2>. HIDE DEF S, q
  <2>3. Select(db, BlocksTable, q) = p
    BY <2>2, SelectTwoBy
  <2>4. All(db, BlocksTable, q, nodes) = Done(db, nodes)
    BY <2>2, SelectTwoBy
  <2>5. SelectBlocks(db, q) = nodes
    BY <2>3 DEF SelectBlocks, BlockQuerySpec
  <2>. QED BY <2>3, <2>4, <2>5 DEF AllBlocks
<1>2. OnlyBlock(db, Where(BlockQuery, {BlockIDEQ(h)})) = only
  BY <1>1 DEF OnlyBlock
<1>3. GetBlock(db, h) = IF only.err # "none" THEN ReadError ELSE Value(ModelBlock(only.nodes[1]))
  BY <1>2 DEF GetBlock
<1>4. IsFiniteSet(S)
  <2>1. IsFiniteSet(db.blocks) /\ S \subseteq db.blocks
    BY BlocksAreOrderable
  <2>. QED BY <2>1, FS_Subset
<1>5. \A i \in DOMAIN p : nodes[i].id = p[i].height
  BY DEF BlockNode
<1>6. DOMAIN nodes = DOMAIN p /\ nodes = [i \in DOMAIN nodes |-> nodes[i]]
  OBVIOUS
<1>10. p = Page(SetToSeq(S), 0, 2) /\ only = OnlyOf(Done(db, nodes))
  OBVIOUS
<1>. HIDE DEF nodes, p, S, only
<1>7. /\ S = {} => only.err = "not found"
      /\ \A x : S = {x} => only.err = "none" /\ only.nodes[1] = nodes[1] /\ p[1] = x
                           /\ 1 \in DOMAIN p
  <2>1. IsOnly(S, p, nodes, only)
    BY <1>4, <1>6, <1>10, OnlyTells
  <2>. QED BY <2>1 DEF IsOnly
<1>8. CASE h \in Heights
  <2>1. PICK x \in db.blocks : x.height = h
    BY <1>8 DEF Heights
  <2>2. S = {x}
    BY <2>1, BlocksAreOrderable DEF S
  <2>3. only.err = "none" /\ only.nodes[1].id = h
    BY <1>5, <1>7, <2>1, <2>2
  <2>. QED BY <1>3, <1>8, <2>3 DEF BlockIsRead, Value, ModelBlock
<1>9. CASE h \notin Heights
  <2>1. S = {}
    BY <1>9 DEF S, Heights
  <2>. QED BY <1>3, <1>7, <1>9, <2>1 DEF BlockIsRead
<1>. QED BY <1>8, <1>9

\* The highest block.
LEMMA HighestBlock == ASSUME Sound(db), Typed(db) PROVE HighestIsRead
<1> DEFINE q == Limit(Desc(BlockQuery, "height"), 1)
           s == InOrder(db.blocks, ByHeight, "height")
           p == Page(s, 0, 1)
           nodes == [i \in DOMAIN p |-> BlockNode(p[i])]
           first == FirstOf(Done(db, nodes))
           n == Cardinality(db.blocks)
           last == PageEnd(Len(s), 0, 1)
<1>1. FirstBlock(db, Desc(BlockQuery, "height")) = first
  <2>1. q.where = {} /\ q.order = ByHeight /\ q.offset = 0 /\ q.limit = 1
    BY DEF Desc, Limit, BlockQuery, NewQuery, ByHeight
  <2>2. FirstBlock(db, Desc(BlockQuery, "height")) = FirstOf(AllBlocks(db, q))
    BY DEF FirstBlock
  <2>. HIDE DEF q
  <2>3. AllBlocks(db, q) = Done(db, nodes)
    BY <2>1, SelectBlocksDoes
  <2>. QED BY <2>2, <2>3
<1>2. GetHighestBlock(db) =
        IF first.err # "none" THEN ReadError ELSE Value(ModelBlock(first.nodes[1]))
  BY <1>1 DEF GetHighestBlock
<1>3. /\ s \in Seq(db.blocks) /\ Len(s) = n /\ n \in Nat
      /\ \A i \in 1 .. n : s[i] \in db.blocks /\ s[i].height \in Int /\ Rank(s[i].height) = i
      /\ \A h \in Heights : Rank(h) \in 1 .. n /\ s[Rank(h)].height = h
      /\ \A i, j \in 1 .. n : i < j => s[i].height > s[j].height
  BY BlocksFromTheTop
<1>4. n = 0 <=> db.blocks = {}
  BY BlocksAreOrderable, FS_EmptySet
<1>5. Heights = {} <=> n = 0
  BY <1>4 DEF Heights
<1>. HIDE DEF s, n
<1>6. last = IF n = 0 THEN 0 ELSE 1
  BY <1>3 DEF PageEnd
<1>7. p = Page(s, 0, 1) /\ last = PageEnd(Len(s), 0, 1) /\ 0 \in Nat /\ 1 \in Nat
  OBVIOUS
<1>8. first = IF nodes = << >> THEN [Done(db, nodes) EXCEPT !.err = "not found"]
              ELSE Done(db, nodes)
  BY DEF FirstOf, Done
<1>9. DOMAIN nodes = DOMAIN p /\ \A i \in DOMAIN p : nodes[i].id = p[i].height
  BY DEF BlockNode
<1>10. nodes = [i \in DOMAIN nodes |-> nodes[i]]
  OBVIOUS
<1>. HIDE DEF p, last, nodes, first
<1>11. IsPage(db.blocks, s, 0, last, p)
  BY <1>3, <1>7, PageKeeps
<1>12. DOMAIN p = 1 .. last
  <2>1. last - 0 = last
    BY <1>6
  <2>. QED BY <1>11, <2>1 DEF IsPage
<1>13. CASE n = 0
  <2>1. DOMAIN p = {}
    BY <1>6, <1>12, <1>13
  <2>2. nodes = << >>
    BY <1>9, <1>10, <2>1
  <2>3. first.err # "none"
    BY <1>8, <2>2 DEF Done
  <2>. QED BY <1>2, <1>5, <1>13, <2>3 DEF HighestIsRead
<1>14. CASE n # 0
  <2>1. DOMAIN p = {1} /\ last - 0 = 1 /\ 1 \in 1 .. n
    BY <1>3, <1>6, <1>12, <1>14
  <2>2. p[1] = s[1]
    <3>1. 1 \in 1 .. (last - 0) /\ 0 + 1 = 1
      BY <2>1
    <3>. QED BY <1>11, <3>1 DEF IsPage
  <2>3. nodes # << >> /\ nodes[1].id = s[1].height
    BY <1>9, <2>1, <2>2
  <2>4. first.err = "none" /\ first.nodes[1].id = s[1].height
    BY <1>8, <2>3 DEF Done
  <2>5. GetHighestBlock(db).value.height = s[1].height
    BY <1>2, <2>4 DEF Value, ModelBlock
  <2>6. s[1].height \in Heights
    BY <1>3, <2>1 DEF Heights
  <2>7. ASSUME NEW h \in Heights PROVE h <= s[1].height
    <3>1. PICK k \in 1 .. n : k = Rank(h) /\ s[k].height = h
      BY <1>3, <2>7
    <3>2. k = 1 \/ 1 < k
      BY <1>3, <3>1
    <3>3. h \in Int /\ s[1].height \in Int
      BY <1>3, <2>1, <3>1
    <3>. QED BY <1>3, <2>1, <3>1, <3>2, <3>3
  <2>. QED BY <1>5, <1>14, <2>5, <2>6, <2>7 DEF HighestIsRead
<1>. QED BY <1>13, <1>14

---------------------------------------------------------------------------
(* Reading transactions                                                  *)

\* The parts of ReadsAgree on transactions.
TransactionIsRead(x) ==
    LET rows == {r \in db.transactions : r.hash = x}
        r == GetTransaction(db, x) IN
    (r.err = "none" /\ r.value.hash = x) <=> Cardinality(rows) = 1
TransactionsAreRead(h) ==
    LET rows == {r \in db.transactions : r.block_height = h}
        v == GetTransactions(db, h, 0, 0).value IN
    /\ Len(v) = Cardinality(rows)
    /\ \A i \in DOMAIN v : v[i].block_height = h /\ (i > 1 => v[i - 1].index <= v[i].index)
    /\ \A i \in 0 .. 1 : GetTransactions(db, h, i, 1).value = SubSeq(v, i + 1, Min({i + 1, Len(v)}))

ByIndex == [column |-> "index", descending |-> FALSE]

\* The index of a stored transaction is a number.
Indexed(d) == \A r \in d.transactions : r.index \in Int

LEMMA TransactionsAreOrderable ==
    ASSUME NEW d, Sound(d), Typed(d), Indexed(d), NEW S \in SUBSET d.transactions
    PROVE  IsFiniteSet(S) /\ Orderable(S, ByIndex, "id")
<1>1. TransactionsTable \in Tables /\ TransactionsTable.name = "transactions"
      /\ TransactionsTable.id = "id"
  BY DEF TransactionsTable, Tables
<1>2. IsFiniteSet(d.transactions) /\ \A r \in d.transactions : r.id \in Int
  BY <1>1 DEF Typed, RowTyped
<1>3. \A r, s \in d.transactions : r.id = s.id => r = s
  BY <1>1 DEF Sound, Consistent, KeysUnique
<1>4. IsFiniteSet(S)
  BY <1>2, FS_Subset
<1>5. ByIndex.column = "index"
  BY DEF ByIndex
<1>. QED BY <1>2, <1>3, <1>4, <1>5 DEF Orderable, Indexed

\* One transaction by its hash, if no other has it.
LEMMA OneTransaction ==
    ASSUME Typed(db), NEW x PROVE TransactionIsRead(x)
<1> DEFINE S == {r \in db.transactions : r.hash = x}
           q == Limit(Where(TransactionQuery, {TransactionHashEQ(x)}), 2)
           p == Page(SetToSeq(S), 0, 2)
           nodes == [i \in DOMAIN p |-> TransactionNode(p[i])]
           only == OnlyOf(Done(db, nodes))
<1>1. Select(db, TransactionsTable, q) = p /\ AllTransactions(db, q) = Done(db, nodes)
  <2>1. TransactionsTable.name = "transactions"
    BY DEF TransactionsTable
  <2>6. q = Limit(Where(NewQuery, {EQ("hash", x)}), 2)
    BY DEF TransactionQuery, TransactionHashEQ
  <2>7. IsTwoBy(db, TransactionsTable, "hash", x, S, q)
    BY <2>1, <2>6 DEF IsTwoBy
  <2>8. p = Page(SetToSeq(S), 0, 2) /\ nodes = [i \in DOMAIN p |-> TransactionNode(p[i])]
    OBVIOUS
  <2>. HIDE DEF S, q, p, nodes
  <2>3. Select(db, TransactionsTable, q) = p
    BY <2>7, <2>8, SelectTwoBy
  <2>4. All(db, TransactionsTable, q, nodes) = Done(db, nodes)
    BY <2>7, SelectTwoBy
  <2>5. SelectTransactions(db, q) = nodes
    BY <2>3, <2>8 DEF SelectTransactions, TransactionQuerySpec
  <2>. QED BY <2>3, <2>4, <2>5 DEF AllTransactions
<1>2. OnlyTransaction(db, Where(TransactionQuery, {TransactionHashEQ(x)})) = only
  BY <1>1 DEF OnlyTransaction
<1>3. GetTransaction(db, x) =
        IF only.err # "none" THEN ReadError ELSE Value(ModelTransaction(only.nodes[1]))
  BY <1>2 DEF GetTransaction
<1>4. IsFiniteSet(S)
  <2>1. TransactionsTable \in Tables /\ TransactionsTable.name = "transactions"
    BY DEF TransactionsTable, Tables
  <2>2. IsFiniteSet(db.transactions) /\ S \subseteq db.transactions
    BY <2>1 DEF Typed
  <2>. QED BY <2>2, FS_Subset
<1>5. \A i \in DOMAIN p : nodes[i].hash = p[i].hash
  BY DEF TransactionNode
<1>6. DOMAIN nodes = DOMAIN p /\ nodes = [i \in DOMAIN nodes |-> nodes[i]]
  OBVIOUS
<1>7. p = Page(SetToSeq(S), 0, 2) /\ only = OnlyOf(Done(db, nodes))
  OBVIOUS
<1>8. \A y \in S : y.hash = x
  OBVIOUS
<1>9. ReadError.err = "error" /\ \A y : Value(y).err = "none" /\ Value(y).value = y
  BY DEF ReadError, Value
<1>. HIDE DEF nodes, p, S, only
<1>10. IsOnly(S, p, nodes, only)
  BY <1>4, <1>6, <1>7, OnlyTells
<1>11. Cardinality(S) = 1 <=> \E y : S = {y}
  BY <1>4, FS_Singleton
<1>12. CASE \E y : S = {y}
  <2>1. PICK y : S = {y}
    BY <1>12
  <2>2. only.err = "none" /\ only.nodes[1] = nodes[1] /\ p[1] = y /\ 1 \in DOMAIN p
    BY <1>10, <2>1 DEF IsOnly
  <2>3. only.nodes[1].hash = x
    BY <1>5, <1>8, <2>1, <2>2
  <2>4. GetTransaction(db, x) = Value(ModelTransaction(only.nodes[1]))
    BY <1>3, <2>2
  <2>5. ModelTransaction(only.nodes[1]).hash = x
    BY <2>3 DEF ModelTransaction
  <2>6. GetTransaction(db, x).err = "none" /\ GetTransaction(db, x).value.hash = x
    BY <1>9, <2>4, <2>5
  <2>. QED BY <1>11, <1>12, <2>6 DEF TransactionIsRead, S
<1>13. CASE ~\E y : S = {y}
  <2>1. only.err # "none"
    BY <1>10, <1>13 DEF IsOnly
  <2>2. GetTransaction(db, x).err # "none"
    BY <1>3, <1>9, <2>1
  <2>. QED BY <1>11, <1>13, <2>2 DEF TransactionIsRead, S
<1>. QED BY <1>12, <1>13

\* A query of a block's transactions selects one page of them, in the order of their indexes.
LEMMA SelectTransactionsDoes ==
    ASSUME NEW d, NEW h, NEW o, NEW l,
           NEW S, S = {r \in d.transactions : r.block_height = h},
           NEW p, p = Page(InOrder(S, ByIndex, "id"), o, l)
    PROVE  GetTransactions(d, h, o, l).value
             = [i \in DOMAIN p |-> ModelTransaction(TransactionNode(p[i]))]
<1> DEFINE q == Asc(Limit(Offset(Where(TransactionQuery, {BlockHeightEQ(h)}), o), l), "index")
           nodes == [i \in DOMAIN p |-> TransactionNode(p[i])]
<1>1. q.where = {BlockHeightEQ(h)} /\ q.order = ByIndex /\ q.offset = o /\ q.limit = l
  BY DEF Asc, Limit, Offset, Where, TransactionQuery, NewQuery, ByIndex
<1>2. GetTransactions(d, h, o, l) =
        IF AllTransactions(d, q).err # "none" THEN ReadError
        ELSE Value([i \in DOMAIN AllTransactions(d, q).nodes |->
                        ModelTransaction(AllTransactions(d, q).nodes[i])])
  BY DEF GetTransactions
<1>. HIDE DEF q
<1>3. q.order # Null /\ q.order.column \in TransactionsTable.columns
  <2>1. ByIndex \in [column : {"height", "index"}, descending : BOOLEAN]
    BY DEF ByIndex
  <2>2. ByIndex.column \in TransactionsTable.columns
    BY DEF ByIndex, TransactionsTable, TransactionColumns
  <2>. QED BY <1>1, <2>1, <2>2, NullIsNoOrder
<1>4. Matching(d, TransactionsTable, q) = S
  <2>1. BlockHeightEQ(h).column = "block_height"
    BY DEF BlockHeightEQ, EQ
  <2>2. BlockHeightEQ(h).value = h
    BY DEF BlockHeightEQ, EQ
  <2>3. \A r : (\A f \in q.where : r[f.column] = f.value) <=> r.block_height = h
    BY <1>1, <2>1, <2>2
  <2>4. TransactionsTable.name = "transactions"
    BY DEF TransactionsTable
  <2>. QED BY <2>3, <2>4 DEF Matching
<1>5. TransactionsTable.id = "id"
  BY DEF TransactionsTable
<1>6. Select(d, TransactionsTable, q) = p
  BY <1>1, <1>3, <1>4, <1>5 DEF Select
<1>7. SelectTransactions(d, q) = nodes
  BY <1>6 DEF SelectTransactions, TransactionQuerySpec
<1>8. AllTransactions(d, q) = Done(d, nodes)
  BY <1>3, <1>7 DEF AllTransactions, All
<1>9. AllTransactions(d, q).err = "none" /\ AllTransactions(d, q).nodes = nodes
  BY <1>8 DEF Done
<1>10. GetTransactions(d, h, o, l).value = [i \in DOMAIN nodes |-> ModelTransaction(nodes[i])]
  BY <1>2, <1>9 DEF Value
<1>. QED BY <1>10

\* A part of a list, element by element.
IsPart(v, a, b, w) == w = [k \in 1 .. (1 + b - a) |-> v[k + a - 1]]

LEMMA PartOfList ==
    ASSUME NEW Y, NEW v \in Seq(Y), NEW a \in Int, NEW b \in Int, NEW w, w = SubSeq(v, a, b)
    PROVE  IsPart(v, a, b, w)
BY DEF IsPart

\* A page of one row is a part of the whole list.
AreMapped(s, v, p, w) ==
    /\ DOMAIN v = DOMAIN s /\ DOMAIN w = DOMAIN p /\ w = [k \in DOMAIN w |-> w[k]]
    /\ \A k \in DOMAIN p : \A j \in DOMAIN s : p[k] = s[j] => w[k] = v[j]
IsOneOf(v, i, w) == w = SubSeq(v, i + 1, Min({i + 1, Len(v)}))

LEMMA OneRowPage ==
    ASSUME NEW X, NEW s \in Seq(X), NEW i \in Nat, NEW p, p = Page(s, i, 1),
           NEW Y, NEW v \in Seq(Y), NEW w, AreMapped(s, v, p, w)
    PROVE  IsOneOf(v, i, w)
<1> DEFINE last == PageEnd(Len(s), i, 1)
           m == Min({i + 1, Len(v)})
<1>0. /\ DOMAIN v = DOMAIN s /\ DOMAIN w = DOMAIN p /\ w = [k \in DOMAIN w |-> w[k]]
      /\ \A k \in DOMAIN p : \A j \in DOMAIN s : p[k] = s[j] => w[k] = v[j]
  BY DEF AreMapped
<1>1. Len(s) \in Nat /\ Len(v) = Len(s) /\ DOMAIN s = 1 .. Len(s)
  BY <1>0
<1>2. m = IF i + 1 <= Len(s) THEN i + 1 ELSE Len(s)
  <2> DEFINE n == Len(v)
             j == i + 1
  <2>1. n \in Nat /\ j \in Nat
    BY <1>1
  <2>. HIDE DEF n, j
  <2>2. Min({j, n}) = IF j <= n THEN j ELSE n
    BY <2>1, LesserOfTwo
  <2>. QED BY <1>1, <2>2 DEF n, j
<1>3. last = m
  BY <1>1, <1>2 DEF PageEnd
<1>4. last = PageEnd(Len(s), i, 1)
  OBVIOUS
<1>. HIDE DEF last
<1>5. IsPage(X, s, i, last, p)
  BY <1>4, PageKeeps
<1>6. /\ DOMAIN p = 1 .. (last - i) /\ last \in 0 .. Len(s)
      /\ \A k \in 1 .. (last - i) : i + k \in 1 .. Len(s) /\ p[k] = s[i + k]
  BY <1>5 DEF IsPage
<1>7. \A k \in 1 .. (last - i) : w[k] = v[i + k]
  BY <1>0, <1>1, <1>6
<1>. HIDE DEF m
<1>8. SubSeq(v, i + 1, m) = [k \in 1 .. (m - i) |-> v[i + k]]
  <2>1. m \in Nat /\ 1 + m - (i + 1) = m - i
    BY <1>1, <1>2
  <2> DEFINE j == i + 1
             u == SubSeq(v, j, m)
  <2>4. j \in Int /\ m \in Int
    BY <2>1
  <2>6. u = SubSeq(v, j, m)
    OBVIOUS
  <2>. HIDE DEF j, u
  <2>5. IsPart(v, j, m, u)
    BY <2>4, <2>6, PartOfList
  <2>2. SubSeq(v, i + 1, m) = [k \in 1 .. (1 + m - (i + 1)) |-> v[k + (i + 1) - 1]]
    BY <2>5 DEF j, u, IsPart
  <2>3. \A k \in 1 .. (m - i) : k + (i + 1) - 1 = i + k
    BY <2>1
  <2>. QED BY <2>1, <2>2, <2>3
<1>9. w = [k \in 1 .. (m - i) |-> v[i + k]]
  BY <1>0, <1>3, <1>6, <1>7
<1>. QED BY <1>8, <1>9 DEF m, IsOneOf

\* The transactions of a height, whole and by pages of one.
LEMMA TransactionsByIndex ==
    ASSUME Sound(db), Typed(db), Indexed(db), NEW h PROVE TransactionsAreRead(h)
<1> DEFINE S == {r \in db.transactions : r.block_height = h}
           s == InOrder(S, ByIndex, "id")
           Read(r) == ModelTransaction(TransactionNode(r))
           n == Cardinality(S)
           v == GetTransactions(db, h, 0, 0).value
           w(i) == GetTransactions(db, h, i, 1).value
<1>1. IsFiniteSet(S) /\ Orderable(S, ByIndex, "id")
  BY TransactionsAreOrderable
<1>2. /\ s \in Seq(S) /\ Len(s) = n /\ n \in Nat
      /\ \A i, j \in 1 .. n : i < j => Before(s[i], s[j], ByIndex, "id")
  <2>1. s = InOrder(S, ByIndex, "id")
    OBVIOUS
  <2>. HIDE DEF s, S
  <2>. QED BY <1>1, <2>1, OrderEnumerates
<1>3. v = [i \in DOMAIN s |-> Read(s[i])]
  <2> DEFINE p == Page(s, 0, 0)
  <2>1. p = Page(InOrder(S, ByIndex, "id"), 0, 0) /\ S = {r \in db.transactions : r.block_height = h}
    OBVIOUS
  <2>. HIDE DEF p, S
  <2>2. GetTransactions(db, h, 0, 0).value
          = [i \in DOMAIN p |-> ModelTransaction(TransactionNode(p[i]))]
    BY <2>1, SelectTransactionsDoes
  <2>3. p = s
    BY <1>2, WholePage DEF p
  <2>. QED BY <2>2, <2>3
<1>4. \A r : /\ Read(r).block_height = r.block_height /\ Read(r).index = r.index
  BY DEF ModelTransaction, TransactionNode
<1>5. ASSUME NEW i \in 0 .. 1 PROVE IsOneOf(v, i, w(i))
  <2> DEFINE p == Page(s, i, 1)
             Y == {Read(r) : r \in S}
             u == w(i)
  <2>1. p = Page(InOrder(S, ByIndex, "id"), i, 1) /\ S = {r \in db.transactions : r.block_height = h}
        /\ p = Page(s, i, 1)
    OBVIOUS
  <2>6. \A r \in S : Read(r) \in Y
    OBVIOUS
  <2>. HIDE DEF p, S
  <2>2. GetTransactions(db, h, i, 1).value
          = [k \in DOMAIN p |-> ModelTransaction(TransactionNode(p[k]))]
    BY <2>1, SelectTransactionsDoes
  <2>3. u = [k \in DOMAIN p |-> Read(p[k])]
    BY <2>2
  <2>. HIDE DEF s, u, v, Read, Y
  <2>4. v \in Seq(Y) /\ i \in Nat
    <3>1. DOMAIN s = 1 .. n /\ \A k \in 1 .. n : s[k] \in S
      BY <1>2
    <3>2. v \in [1 .. n -> Y]
      BY <1>3, <2>6, <3>1
    <3>. QED BY <1>2, <1>3, <3>2
  <2>5. AreMapped(s, v, p, u)
    BY <1>3, <2>3 DEF AreMapped
  <2>7. IsOneOf(v, i, u)
    BY <1>2, <2>1, <2>4, <2>5, OneRowPage
  <2>. QED BY <2>7 DEF u
<1>6. \A r \in S : r.block_height = h /\ r.index \in Int
  BY DEF Indexed
<1>7. DOMAIN s = 1 .. n /\ \A k \in 1 .. n : s[k] \in S
  <2>. HIDE DEF s, S, n
  <2>. QED BY <1>2
<1>. HIDE DEF s, S, v, w, n, Read
<1>8. DOMAIN v = 1 .. n /\ \A k \in 1 .. n : v[k] = Read(s[k])
  BY <1>3, <1>7
<1>9. Len(v) = n
  BY <1>2, <1>3, <1>7
<1>10. ASSUME NEW i \in DOMAIN v
       PROVE  v[i].block_height = h /\ (i > 1 => v[i - 1].index <= v[i].index)
  <2>1. i \in 1 .. n /\ s[i] \in S
    BY <1>7, <1>8
  <2>2. v[i].block_height = h /\ v[i].index = s[i].index
    BY <1>4, <1>6, <1>8, <2>1
  <2>3. ASSUME i > 1 PROVE v[i - 1].index <= v[i].index
    <3>1. i - 1 \in 1 .. n /\ i - 1 < i
      BY <1>2, <2>1, <2>3
    <3>2. Before(s[i - 1], s[i], ByIndex, "id")
      BY <1>2, <2>1, <3>1
    <3>3. s[i - 1] \in S /\ v[i - 1].index = s[i - 1].index
      BY <1>4, <1>7, <1>8, <3>1
    <3>4. ByIndex.column = "index" /\ ByIndex.descending = FALSE
      BY DEF ByIndex
    <3>5. s[i - 1].index <= s[i].index
      BY <1>6, <2>1, <3>2, <3>3, <3>4 DEF Before
    <3>. QED BY <2>2, <3>3, <3>5
  <2>. QED BY <2>2, <2>3
<1>11. \A i \in 0 .. 1 : GetTransactions(db, h, i, 1).value = SubSeq(v, i + 1, Min({i + 1, Len(v)}))
  BY <1>5 DEF IsOneOf, w
<1>. QED BY <1>9, <1>10, <1>11 DEF TransactionsAreRead, v, n, S

---------------------------------------------------------------------------
(* Reading accounts, transfers and restores                              *)

\* The parts of ReadsAgree on accounts.
BalancesAreRead(a) ==
    LET v == GetBalances(db, a).value
        rows == {r \in db.accounts : a # NoAddress => r.address = a} IN
    /\ {v[i].token : i \in DOMAIN v} = {r.token : r \in rows}
    /\ \A i, j \in DOMAIN v : v[i].token = v[j].token => i = j
    /\ \A r \in rows : (\A s \in rows : s.token = r.token => s = r)
                       => \E i \in DOMAIN v : v[i] = [token |-> r.token, amount |-> r.amount]
AccountsAreRead(a, t) ==
    Len(GetAccounts(db, a, t).value) = Cardinality(Calls!MatchingAccounts(a, t))

\* Every stored amount is one a float holds.
AmountsAreFloats(d) == \A r \in d.accounts : Float(r.amount) = r.amount

\* The accounts that the reading calls select.
LEMMA AccountFilterIs ==
    ASSUME NEW d, NEW address, NEW token, NEW q, q = AccountFilter(address, token)
    PROVE  /\ Matching(d, AccountsTable, q) = AccountRows(d, address, token)
           /\ q.order = Null /\ q.offset = 0 /\ q.limit = 0
<1> DEFINE u == Limit(AccountFilter(address, token), 2)
<1>1. u.where = q.where /\ q.order = Null /\ q.offset = 0 /\ q.limit = 0
  BY DEF Limit, AccountFilter, Where, AccountQuery, NewQuery
<1>2. Matching(d, AccountsTable, u) = AccountRows(d, address, token)
  BY AccountFilterSelects
<1>. HIDE DEF u
<1>3. Matching(d, AccountsTable, q) = Matching(d, AccountsTable, u)
  BY <1>1 DEF Matching
<1>. QED BY <1>1, <1>2, <1>3

LEMMA AccountRowsAreFinite ==
    ASSUME NEW d, Typed(d), NEW address, NEW token
    PROVE  IsFiniteSet(AccountRows(d, address, token))
<1>1. IsFiniteSet(d.accounts)
  BY DEF Typed, Tables, AccountsTable
<1>2. AccountRows(d, address, token) \subseteq d.accounts
  BY DEF AccountRows
<1>. QED BY <1>1, <1>2, FS_Subset

\* One balance for every token that an account of the address has.
LEMMA OneGroup ==
    ASSUME NEW x, NEW y
    PROVE  [c \in {"token", "amount"} |-> IF c = "token" THEN x ELSE y]
             = [token |-> x, amount |-> y]
OBVIOUS

LEMMA BalancesByToken ==
    ASSUME Sound(db), Typed(db), AmountsAreFloats(db), NEW a PROVE BalancesAreRead(a)
<1> DEFINE S == {r \in db.accounts : a # NoAddress => r.address = a}
           Alike(r) == {s \in S : s.token = r.token}
           Group(r) == [token |-> r.token, amount |-> FloatSum(Alike(r), "amount")]
           G == {Group(r) : r \in S}
           v == GetBalances(db, a).value
<1>1. S = AccountRows(db, a, NoToken)
  BY DEF AccountRows
<1>2. IsFiniteSet(S)
  BY <1>1, AccountRowsAreFinite
<1>3. IsFiniteSet(G)
  <2> DEFINE g == [r \in S |-> Group(r)]
  <2>1. DOMAIN g = S /\ G = {g[r] : r \in S}
    OBVIOUS
  <2>. HIDE DEF S, g, G
  <2>. QED BY <1>2, <2>1, ImageIsFinite
<1>4. v = SetToSeq(G)
  <2> DEFINE q == AccountFilter(a, NoToken)
  <2>1. q = AccountFilter(a, NoToken)
    OBVIOUS
  <2>. HIDE DEF q, S
  <2>2. Matching(db, AccountsTable, q) = S
    BY <1>1, <2>1, AccountFilterIs
  <2>3. GroupSum(S, "token", "amount") = G
    BY OneGroup DEF GroupSum
  <2>. QED BY <2>1, <2>2, <2>3 DEF GetBalances, GroupAccountsByToken, Value
<1> DEFINE n == Cardinality(G)
<1>5. /\ DOMAIN v = 1 .. n /\ \A i \in DOMAIN v : v[i] \in G
      /\ \A i, j \in DOMAIN v : v[i] = v[j] => i = j
      /\ \A g \in G : \E i \in DOMAIN v : v[i] = g
  <2>. HIDE DEF G, v
  <2>1. v \in Seq(G) /\ Len(v) = n /\ IsInjective(v) /\ \A g \in G : \E i \in 1 .. n : v[i] = g
    BY <1>3, <1>4, SetToSeqEnumerates
  <2>. QED BY <2>1 DEF IsInjective
<1>. HIDE DEF v
<1>6. {v[i].token : i \in DOMAIN v} = {r.token : r \in S}
  <2>1. \A r \in S : Group(r).token = r.token /\ Group(r) \in G
    OBVIOUS
  <2>2. \A g \in G : \E r \in S : g = Group(r)
    OBVIOUS
  <2>. HIDE DEF G, Group, S
  <2>. QED BY <1>5, <2>1, <2>2
<1>7. ASSUME NEW i \in DOMAIN v, NEW j \in DOMAIN v, v[i].token = v[j].token PROVE i = j
  <2>1. PICK r \in S : v[i] = Group(r)
    BY <1>5
  <2>2. PICK s \in S : v[j] = Group(s)
    BY <1>5
  <2>3. r.token = s.token
    BY <1>7, <2>1, <2>2
  <2>4. Group(r) = Group(s)
    BY <2>3
  <2>. QED BY <1>5, <2>1, <2>2, <2>4
<1>8. ASSUME NEW r \in S, \A s \in S : s.token = r.token => s = r
      PROVE  \E i \in DOMAIN v : v[i] = [token |-> r.token, amount |-> r.amount]
  <2>1. Alike(r) = {r}
    BY <1>8
  <2>2. r.amount \in Int /\ Float(r.amount) = r.amount
    BY TypedAccount DEF AmountsAreFloats
  <2>3. 0 + r.amount = r.amount
    BY <2>2
  <2>4. FloatSum({r}, "amount") = Float(0 + r.amount)
    BY SumOfOneRow
  <2>5. Group(r) = [token |-> r.token, amount |-> r.amount] /\ Group(r) \in G
    BY <2>1, <2>2, <2>3, <2>4
  <2>. QED BY <1>5, <2>5
<1>. QED BY <1>6, <1>7, <1>8 DEF BalancesAreRead, v

\* As many accounts as match.
LEMMA AccountsThatMatch ==
    ASSUME Typed(db), NEW a, NEW t PROVE AccountsAreRead(a, t)
<1> DEFINE q == AccountFilter(a, t)
           S == AccountRows(db, a, t)
           s == SetToSeq(S)
           nodes == [i \in DOMAIN s |-> AccountNode(s[i])]
           v == GetAccounts(db, a, t).value
<1>1. IsFiniteSet(S)
  BY AccountRowsAreFinite
<1>2. s \in Seq(S) /\ Len(s) = Cardinality(S)
  BY <1>1, SetToSeqEnumerates
<1>3. AllAccounts(db, q) = Done(db, nodes)
  <2>1. q = AccountFilter(a, t)
    OBVIOUS
  <2>. HIDE DEF q, S
  <2>2. Matching(db, AccountsTable, q) = S /\ q.order = Null /\ q.offset = 0 /\ q.limit = 0
    BY <2>1, AccountFilterIs DEF S
  <2>3. Select(db, AccountsTable, q) = Page(s, 0, 0)
    BY <2>2 DEF Select
  <2>4. Select(db, AccountsTable, q) = s
    BY <1>2, <2>3, WholePage
  <2>. QED BY <2>2, <2>4 DEF AllAccounts, All, SelectAccounts, AccountQuerySpec
<1>. HIDE DEF s
<1>4. v = [i \in DOMAIN nodes |-> [address |-> nodes[i].id, token |-> nodes[i].token,
                                    amount |-> nodes[i].amount]]
  BY <1>3 DEF GetAccounts, Done, Value
<1>5. DOMAIN v = DOMAIN s /\ v = [i \in DOMAIN v |-> v[i]]
  BY <1>4
<1>. HIDE DEF v, S
<1>6. Len(v) = Len(s)
  BY <1>2, <1>5, MappedList
<1>. QED BY <1>2, <1>6, MatchingAccountsAre DEF AccountsAreRead, v, S

\* The part of ReadsAgree on transfers.
TransfersAreRead(a, b) ==
    Len(GetTransfers(db, a, b, NoToken).value) =
    Cardinality({r \in db.transfers : /\ r.func = "transfer"
                                      /\ a # NoAddress => r.from_address = a
                                      /\ b # NoAddress => r.to_address = b})

\* As many transfers as there are between the given addresses.
LEMMA TransfersBetween ==
    ASSUME Typed(db), NEW a, NEW b PROVE TransfersAreRead(a, b)
<1> DEFINE A == {TransferOr(FromAddressEQ(x)) : x \in {a} \ {NoAddress}}
           B == {TransferOr(ToAddressEQ(x)) : x \in {b} \ {NoAddress}}
           T == {TransferTokenEQ(t) : t \in {NoToken} \ {NoToken}}
           F == {Func("transfer")}
           q == Where(TransferQuery, A \cup B \cup T \cup F)
           S == {r \in db.transfers : /\ r.func = "transfer"
                                      /\ a # NoAddress => r.from_address = a
                                      /\ b # NoAddress => r.to_address = b}
           s == SetToSeq(S)
           nodes == [i \in DOMAIN s |-> TransferNode(s[i])]
           v == GetTransfers(db, a, b, NoToken).value
<1>1. q.where = A \cup B \cup T \cup F /\ q.order = Null /\ q.offset = 0 /\ q.limit = 0
  BY DEF Where, TransferQuery, NewQuery
<1>2. \A r : (\A p \in A : r[p.column] = p.value) <=> (a # NoAddress => r.from_address = a)
  <2>1. CASE a = NoAddress
    BY <2>1
  <2>2. CASE a # NoAddress
    <3>1. A = {[column |-> "from_address", value |-> a]}
      BY <2>2 DEF TransferOr, FromAddressEQ, EQ
    <3>. QED BY <2>2, <3>1
  <2>. QED BY <2>1, <2>2
<1>3. \A r : (\A p \in B : r[p.column] = p.value) <=> (b # NoAddress => r.to_address = b)
  <2>1. CASE b = NoAddress
    BY <2>1
  <2>2. CASE b # NoAddress
    <3>1. B = {[column |-> "to_address", value |-> b]}
      BY <2>2 DEF TransferOr, ToAddressEQ, EQ
    <3>. QED BY <2>2, <3>1
  <2>. QED BY <2>1, <2>2
<1>4. \A r : (\A p \in F : r[p.column] = p.value) <=> r.func = "transfer"
  <2>1. F = {[column |-> "func", value |-> "transfer"]}
    BY DEF Func, EQ
  <2>. QED BY <2>1
<1>5. T = {}
  OBVIOUS
<1>6. GetTransfers(db, a, b, NoToken) =
        LET r == AllTransfers(db, q) IN
        IF r.err # "none" THEN ReadError
        ELSE Value([i \in DOMAIN r.nodes |->
                [from_address |-> r.nodes[i].from_address, to_address |-> r.nodes[i].to_address,
                 token |-> r.nodes[i].token, amount |-> r.nodes[i].amount,
                 denom |-> r.nodes[i].denom, created_at |-> r.nodes[i].created_at]])
  BY DEF GetTransfers
<1>. HIDE DEF A, B, T, F, q
<1>7. Matching(db, TransfersTable, q) = S
  <2>1. TransfersTable.name = "transfers"
    BY DEF TransfersTable
  <2>2. \A r : (\A p \in q.where : r[p.column] = p.value)
               <=> /\ r.func = "transfer"
                   /\ a # NoAddress => r.from_address = a
                   /\ b # NoAddress => r.to_address = b
    BY <1>1, <1>2, <1>3, <1>4, <1>5
  <2>. QED BY <2>1, <2>2 DEF Matching
<1>8. IsFiniteSet(S)
  <2>1. IsFiniteSet(db.transfers) /\ S \subseteq db.transfers
    BY DEF Typed, Tables, TransfersTable
  <2>. QED BY <2>1, FS_Subset
<1>9. s \in Seq(S) /\ Len(s) = Cardinality(S)
  BY <1>8, SetToSeqEnumerates
<1>10. AllTransfers(db, q) = Done(db, nodes)
  <2>. HIDE DEF S
  <2>1. Select(db, TransfersTable, q) = Page(s, 0, 0)
    BY <1>1, <1>7 DEF Select
  <2>2. Select(db, TransfersTable, q) = s
    BY <1>9, <2>1, WholePage
  <2>. QED BY <1>1, <2>2 DEF AllTransfers, All, SelectTransfers, TransferQuerySpec
<1>. HIDE DEF s, S
<1>11. v = [i \in DOMAIN nodes |->
              [from_address |-> nodes[i].from_address, to_address |-> nodes[i].to_address,
               token |-> nodes[i].token, amount |-> nodes[i].amount,
               denom |-> nodes[i].denom, created_at |-> nodes[i].created_at]]
  BY <1>6, <1>10 DEF Done, Value
<1>12. DOMAIN v = DOMAIN s /\ v = [i \in DOMAIN v |-> v[i]]
  BY <1>11
<1>. HIDE DEF v
<1>13. Len(v) = Len(s)
  BY <1>9, <1>12, MappedList
<1>. QED BY <1>9, <1>13 DEF TransfersAreRead, v, S

\* The table of restores has at most the row of the last restore that was saved.
RestoreNoted(d, l) ==
    \/ d.restore_histories = {} /\ l.restored = 1
    \/ \E r : d.restore_histories = {r} /\ r.id = 1 /\ r.restore_range_start = l.restored

\* The upsert's row starts where the call says, and passes the builder's checks.
LEMMA RestoreRowSets ==
    ASSUME NEW start, NEW end
    PROVE  /\ RestoreRow(start, end).restore_range_start = start
           /\ Valid(RestoreHistoryCreate(1, start, end, 0), RestoreHistoryFields)
<1> DEFINE v1 == [id |-> 1, restore_range_start |-> start]
           v2 == [restore_range_end |-> end, being_block |-> 0]
           m1 == SetFields(RestoreHistoryMutation, v1)
           m2 == SetFields(m1, v2)
           c == "restore_range_start"
<1>1. m2 = RestoreHistoryCreate(1, start, end, 0)
  BY DEF RestoreHistoryCreate, SetRestoreEnd, SetRestoreStart
<1>2. c \in DOMAIN v1 /\ v1[c] = start /\ c \notin DOMAIN v2
      /\ "restore_range_end" \in DOMAIN v2 /\ "being_block" \in DOMAIN v2
  OBVIOUS
<1>. HIDE DEF v1, v2
<1>3. c \in DOMAIN m1.set /\ m1.set[c] = start
  BY <1>2, FieldsThatAreSet
<1>. HIDE DEF m1
<1>4. c \in DOMAIN m2.set /\ m2.set[c] = start
  BY <1>2, <1>3, FieldsThatAreSet
<1>5. DOMAIN v2 \subseteq DOMAIN m2.set
  BY FieldsThatAreSet
<1>. HIDE DEF m2
<1>6. c \in RestoreHistoriesTable.columns
  BY DEF RestoreHistoriesTable, RestoreHistoryColumns
<1>7. RowOf(RestoreHistoriesTable, m2)[c] = start
  BY <1>4, <1>6 DEF RowOf
<1>8. Valid(m2, RestoreHistoryFields)
  BY <1>2, <1>4, <1>5 DEF Valid, RestoreHistoryFields
<1>. QED BY <1>1, <1>7, <1>8 DEF RestoreRow, RestoreHistorySpec

\* SaveRestoringHistory always succeeds, and leaves its row alone in the table.
LEMMA RestoreIsNoted ==
    ASSUME NEW d, Sound(d), NEW l, RestoreNoted(d, l), NEW start, NEW end,
           NEW k, k.restored = start
    PROVE  RestoreNoted(SaveRestoringHistory(d, start, end).db, k)
<1> DEFINE t == RestoreHistoriesTable
           m == RestoreHistoryCreate(1, start, end, 0)
           row == RestoreRow(start, end)
           e == SaveRestoringHistory(d, start, end).db
           old == {r \in d[t.name] : KeyOf(r, {"id"}) = KeyOf(row, {"id"})}
           Updated(r) == [c \in DOMAIN r |-> IF c \in RestoreColumns THEN row[c] ELSE r[c]]
<1>1. t \in Tables /\ t.name = "restore_histories" /\ t.id = "id" /\ t.unique = {{"id"}}
      /\ t.foreign = {} /\ "restore_range_start" \in t.columns
  BY DEF Tables, RestoreHistoriesTable, RestoreHistoryColumns
<1>2. row.id = 1 /\ row.restore_range_start = start /\ Valid(m, RestoreHistoryFields)
  BY RestoreRowKey, RestoreRowSets
<1>3. e = Upsert(d, t, RestoreHistoryFields, m, row, {"id"}, RestoreColumns).db
  BY RestoreUpserts
<1>4. "restore_histories" \in DOMAIN d
  BY <1>1 DEF Sound, Consistent, IsDb, Names
<1>. HIDE DEF m, row, t, e
<1>5. CASE d.restore_histories = {}
  <2> DEFINE new == Numbered(d, t, <<row>>)
  <2>1. old = {}
    BY <1>1, <1>5
  <2>2. e = Insert(d, t, <<row>>).db
    BY <1>2, <1>3, <2>1 DEF Upsert
  <2>3. <<row>>[1] = row /\ DOMAIN <<row>> = {1}
    OBVIOUS
  <2>4. DOMAIN new = {1} /\ new[1] = row
    <3>1. row[t.id] # Null
      BY <1>1, <1>2, NullIsNoInteger
    <3>. QED BY <2>3, <3>1 DEF Numbered
  <2>5. Unique(d, t, new) /\ \A i \in DOMAIN new : References(d, t, new[i])
    BY <1>1, <1>5, <2>4 DEF Unique, References
  <2>6. e = [d EXCEPT ![t.name] = @ \cup {new[i] : i \in DOMAIN new}]
    BY <2>2, <2>5 DEF Insert, Done
  <2>7. {new[i] : i \in DOMAIN new} = {row}
    BY <2>4
  <2>. HIDE DEF new
  <2>8. e.restore_histories = {row}
    BY <1>1, <1>4, <1>5, <2>6, <2>7
  <2>. QED BY <1>2, <2>8 DEF RestoreNoted, e
<1>6. CASE d.restore_histories # {}
  <2>1. PICK r : d.restore_histories = {r} /\ r.id = 1
    BY <1>6 DEF RestoreNoted
  <2>2. old = {r}
    BY <1>1, <1>2, <2>1 DEF KeyOf
  <2>3. e = [d EXCEPT ![t.name] = (@ \ old) \cup {Updated(s) : s \in old}]
    BY <1>2, <1>3, <2>2 DEF Upsert, Done
  <2>4. (d[t.name] \ old) \cup {Updated(s) : s \in old} = {Updated(r)}
    BY <1>1, <2>1, <2>2
  <2>5. Updated(r).id = 1 /\ Updated(r).restore_range_start = start
    <3>1. IsRow(t, r)
      BY <1>1, <2>1 DEF Sound, Consistent, Shaped
    <3>2. DOMAIN r = RestoreHistoryColumns
      BY <3>1 DEF IsRow, t, RestoreHistoriesTable
    <3>3. "id" \in DOMAIN r /\ "restore_range_start" \in DOMAIN r
      BY <3>2 DEF RestoreHistoryColumns
    <3>. QED BY <1>2, <2>1, <3>3 DEF RestoreColumns
  <2>. HIDE DEF Updated, old
  <2>6. e.restore_histories = {Updated(r)}
    BY <1>1, <1>4, <2>3, <2>4
  <2>. QED BY <2>5, <2>6 DEF RestoreNoted, e
<1>. QED BY <1>5, <1>6

\* First answers with the first node, or says that there is none.
IsFirst(nodes, r) ==
    /\ nodes = << >> => r.err = "not found"
    /\ nodes # << >> => r.err = "none" /\ r.nodes = nodes

LEMMA FirstTells ==
    ASSUME NEW d, NEW nodes, NEW r, r = FirstOf(Done(d, nodes)) PROVE IsFirst(nodes, r)
<1> DEFINE a == Done(d, nodes)
<1>1. a.err = "none" /\ a.nodes = nodes /\ "err" \in DOMAIN a /\ r = FirstOf(a)
  BY DEF Done
<1>. HIDE DEF a
<1>2. ASSUME nodes = << >> PROVE r = [a EXCEPT !.err = "not found"]
  BY <1>1, <1>2 DEF FirstOf
<1>3. ASSUME nodes # << >> PROVE r = a
  BY <1>1, <1>3 DEF FirstOf
<1>. QED BY <1>1, <1>2, <1>3 DEF IsFirst

\* Where the last restore that was saved starts.
LEMMA RestoreIsRead ==
    ASSUME RestoreNoted(db, ledger) PROVE GetNotSequentialBlockNum(db) = Value(ledger.restored)
<1> DEFINE q == Limit(Where(RestoreHistoryQuery, {RestoreHistoryIDEQ(1)}), 1)
           S == db.restore_histories
           s == SetToSeq(S)
           p == Page(s, 0, 1)
           nodes == [i \in DOMAIN p |-> RestoreHistoryNode(p[i])]
           first == FirstRestoreHistory(db, Where(RestoreHistoryQuery, {RestoreHistoryIDEQ(1)}))
           n == Cardinality(S)
           last == PageEnd(Len(s), 0, 1)
<1>1. q.where = {RestoreHistoryIDEQ(1)} /\ q.order = Null /\ q.offset = 0 /\ q.limit = 1
  BY DEF Limit, Where, RestoreHistoryQuery, NewQuery
<1>2. first = FirstOf(AllRestoreHistories(db, q))
  BY DEF FirstRestoreHistory
<1>3. GetNotSequentialBlockNum(db) =
        IF first.err = "not found" THEN Value(1)
        ELSE IF first.err # "none" THEN ReadError
        ELSE Value(first.nodes[1].restore_range_start)
  BY DEF GetNotSequentialBlockNum, IsNotFound
<1>. HIDE DEF q, first
<1>4. \A r \in S : r.id = 1
  BY DEF RestoreNoted
<1>5. Matching(db, RestoreHistoriesTable, q) = S
  <2>1. RestoreHistoriesTable.name = "restore_histories"
    BY DEF RestoreHistoriesTable
  <2>2. RestoreHistoryIDEQ(1).column = "id"
    BY DEF RestoreHistoryIDEQ, EQ
  <2>3. RestoreHistoryIDEQ(1).value = 1
    BY DEF RestoreHistoryIDEQ, EQ
  <2>4. \A r : (\A f \in q.where : r[f.column] = f.value) <=> r.id = 1
    BY <1>1, <2>2, <2>3
  <2>. QED BY <1>4, <2>1, <2>4 DEF Matching
<1>6. AllRestoreHistories(db, q) = Done(db, nodes)
  <2>. HIDE DEF S
  <2>1. Select(db, RestoreHistoriesTable, q) = p
    BY <1>1, <1>5 DEF Select
  <2>. QED BY <1>1, <2>1
       DEF AllRestoreHistories, All, SelectRestoreHistories, RestoreHistoryQuerySpec
<1>7. /\ nodes = << >> => first.err = "not found"
      /\ nodes # << >> => first.err = "none" /\ first.nodes = nodes
  <2>1. first = FirstOf(Done(db, nodes))
    BY <1>2, <1>6
  <2>. HIDE DEF nodes
  <2>2. IsFirst(nodes, first)
    BY <2>1, FirstTells
  <2>. QED BY <2>2 DEF IsFirst
<1>8. IsFiniteSet(S) /\ (S = {} => n = 0) /\ \A r : S = {r} => n = 1
  <2>1. S = {} \/ \E r : S = {r}
    BY DEF RestoreNoted
  <2>. HIDE DEF S
  <2>2. \A r : IsFiniteSet({r}) /\ Cardinality({r}) = 1
    BY FS_Singleton
  <2>3. IsFiniteSet({}) /\ Cardinality({}) = 0
    BY FS_EmptySet
  <2>. QED BY <2>1, <2>2, <2>3
<1>9. s \in Seq(S) /\ Len(s) = n /\ n \in Nat
  <2>. HIDE DEF S
  <2>. QED BY <1>8, SetToSeqEnumerates, FS_CardinalityType
<1>10. p = Page(s, 0, 1) /\ last = PageEnd(Len(s), 0, 1) /\ 0 \in Nat /\ 1 \in Nat
  OBVIOUS
<1>11. DOMAIN nodes = DOMAIN p /\ nodes = [i \in DOMAIN nodes |-> nodes[i]]
       /\ \A i \in DOMAIN p : nodes[i].restore_range_start = p[i].restore_range_start
  BY DEF RestoreHistoryNode
<1>. HIDE DEF s, p, n, nodes
<1>12. n \in {0, 1} => last = n
  BY <1>9 DEF PageEnd
<1>. HIDE DEF last
<1>13. IsPage(S, s, 0, last, p)
  BY <1>9, <1>10, PageKeeps
<1>14. CASE S = {}
  <2>1. last - 0 = 0
    BY <1>8, <1>12, <1>14
  <2>2. DOMAIN p = {}
    BY <1>13, <2>1 DEF IsPage
  <2>3. nodes = << >>
    BY <1>11, <2>2
  <2>4. ledger.restored = 1
    BY <1>14 DEF RestoreNoted
  <2>. QED BY <1>3, <1>7, <2>3, <2>4
<1>15. CASE S # {}
  <2>1. PICK r : S = {r} /\ r.restore_range_start = ledger.restored
    BY <1>15 DEF RestoreNoted
  <2>2. last - 0 = 1 /\ 1 \in 1 .. 1
    BY <1>8, <1>12, <2>1
  <2>3. 1 \in DOMAIN p /\ p[1] \in S
    <3>1. 1 \in 1 .. (last - 0)
      BY <2>2
    <3>2. 1 \in DOMAIN p /\ p \in Seq(S)
      BY <1>13, <3>1 DEF IsPage
    <3>. HIDE DEF S
    <3>. QED BY <3>2
  <2>4. nodes # << >> /\ nodes[1].restore_range_start = ledger.restored
    BY <1>11, <2>1, <2>3
  <2>. QED BY <1>3, <1>7, <2>4
<1>. QED BY <1>14, <1>15

---------------------------------------------------------------------------
(* The reading calls                                                     *)

\* What the reading calls rely on, beyond the types: transactions have indexes, amounts are
\* floats, and the table of restores has the last one that was saved.
Readable(d, l) == Indexed(d) /\ AmountsAreFloats(d) /\ RestoreNoted(d, l)
ReadInv == LedgerInv /\ Readable(db, ledger)

\* What the reading calls return, from what they rely on.
LEMMA ReadingCallsAgree == ASSUME ReadInv PROVE ReadsAgree
<1>1. Sound(db) /\ Typed(db) /\ Indexed(db) /\ AmountsAreFloats(db) /\ RestoreNoted(db, ledger)
  BY DEF ReadInv, Readable, LedgerInv, TypedInv, TablesInv
<1>2. HighestIsRead
  BY <1>1, HighestBlock
<1>3. \A h \in Height : BlockIsRead(h)
  BY <1>1, OneBlock
<1>4. \A offset, limit \in 0 .. 2 : BlocksAreRead(offset, limit)
  BY <1>1, PagesOfBlocks
<1>5. \A x \in Hash : TransactionIsRead(x)
  BY <1>1, OneTransaction
<1>6. \A h \in Height : TransactionsAreRead(h)
  BY <1>1, TransactionsByIndex
<1>7. \A a \in Address \cup {NoAddress} :
        BalancesAreRead(a) /\ \A t \in Token \cup {NoToken} : AccountsAreRead(a, t)
  BY <1>1, BalancesByToken, AccountsThatMatch
<1>8. \A a, b \in Address \cup {NoAddress} : TransfersAreRead(a, b)
  BY <1>1, TransfersBetween
<1>9. GetNotSequentialBlockNum(db) = Value(ledger.restored)
  BY <1>1, RestoreIsRead
<1>. QED BY <1>2, <1>3, <1>4, <1>5, <1>6, <1>7, <1>8, <1>9
         DEF ReadsAgree, HighestIsRead, BlockIsRead, BlocksAreRead, TransactionIsRead,
             TransactionsAreRead, BalancesAreRead, AccountsAreRead, TransfersAreRead

\* Calls that leave the three tables alone.
LEMMA ReadableElsewhere ==
    ASSUME NEW d, NEW l, Readable(d, l), NEW t \in {BlocksTable, TransfersTable},
           NEW e, OnlyIn(t, d, e)
    PROVE  Readable(e, l)
<1>1. e.transactions = d.transactions /\ e.accounts = d.accounts
      /\ e.restore_histories = d.restore_histories
  BY DEF OnlyIn, Names, Tables, AccountsTable, BlocksTable, TransactionsTable, TransfersTable,
         RestoreHistoriesTable
<1>. QED BY <1>1 DEF Readable, Indexed, AmountsAreFloats, RestoreNoted

\* An INSERT of transactions with indexes.
LEMMA IndexedAfterInsert ==
    ASSUME NEW d, IsDb(d), Indexed(d), NEW rows,
           \A i \in DOMAIN rows : IsRow(TransactionsTable, rows[i]) /\ rows[i].index \in Int,
           NEW e, e = Insert(d, TransactionsTable, rows).db
    PROVE  Indexed(e)
<1> DEFINE t == TransactionsTable
           new == Numbered(d, t, rows)
<1>1. t \in Tables /\ t.name = "transactions" /\ t.id = "id" /\ "index" \in t.columns
  BY DEF TransactionsTable, Tables, TransactionColumns
<1>2. ASSUME NEW i \in DOMAIN rows PROVE new[i].index \in Int
  <2>1. "index" \in DOMAIN rows[i]
    BY <1>1 DEF IsRow
  <2>2. new[i].index = rows[i].index
    BY <1>1, <2>1 DEF Numbered
  <2>. QED BY <2>2
<1>3. Adds(d, t, rows, e)
  BY <1>1, InsertAdds
<1>. HIDE DEF t, new
<1>4. e # d => e.transactions = d.transactions \cup {new[i] : i \in DOMAIN rows}
  BY <1>1, <1>3 DEF Adds, new
<1>. QED BY <1>2, <1>4 DEF Indexed

\* The row of a transaction has its index.
LEMMA RowHasIndex ==
    ASSUME NEW h \in Int, NEW tx, IsTransaction(tx),
           NEW row, row = TransactionSpec(TransactionDefaults(NewTransaction(h, tx), Now))
    PROVE  IsRow(TransactionsTable, row) /\ row.index \in Int
<1>1. NewTransaction(h, tx) = TransactionCreate(tx, h, Now)
  BY ConversionsAreInverse DEF NewTransaction
<1>2. row.index = tx.index
  BY <1>1, TransactionRowOf
<1>3. IsRow(TransactionsTable, row)
  BY RowOfIsRow DEF TransactionSpec
<1>. QED BY <1>2, <1>3 DEF IsTransaction

LEMMA ReadableAfterTransactions ==
    ASSUME NEW d, IsDb(d), NEW l, Readable(d, l), NEW h \in Int
    PROVE  /\ \A tx : IsTransaction(tx) => Readable(AddTransaction(d, h, tx).db, l)
           /\ \A txs : (IsList(txs) /\ \A i \in DOMAIN txs : IsTransaction(txs[i]))
                         => Readable(AddTransactions(d, h, txs).db, l)
<1>1. ASSUME NEW e, OnlyIn(TransactionsTable, d, e), Indexed(e) PROVE Readable(e, l)
  <2>1. e.accounts = d.accounts /\ e.restore_histories = d.restore_histories
    BY <1>1 DEF OnlyIn, Names, Tables, AccountsTable, BlocksTable, TransactionsTable,
                TransfersTable, RestoreHistoriesTable
  <2>. QED BY <1>1, <2>1 DEF Readable, AmountsAreFloats, RestoreNoted
<1>2. ASSUME NEW tx, IsTransaction(tx) PROVE Readable(AddTransaction(d, h, tx).db, l)
  <2> DEFINE m == TransactionDefaults(NewTransaction(h, tx), Now)
             row == TransactionSpec(m)
             e == AddTransaction(d, h, tx).db
  <2>1. e = Create(d, TransactionsTable, TransactionFields, m, row).db
    BY DEF AddTransaction, Written, SaveTransaction
  <2>2. OnlyIn(TransactionsTable, d, e)
    BY TransactionsChangeTransactions
  <2>3. IsRow(TransactionsTable, row) /\ row.index \in Int
    BY <1>2, RowHasIndex
  <2>. HIDE DEF e, m, row
  <2>4. e = d \/ e = Insert(d, TransactionsTable, <<row>>).db
    BY <2>1, CreateInserts
  <2>5. Indexed(e)
    <3> DEFINE rows == <<row>>
    <3>1. DOMAIN rows = {1} /\ rows[1] = row
      BY OneRowIsList
    <3>2. e = d \/ e = Insert(d, TransactionsTable, rows).db
      BY <2>4
    <3>. HIDE DEF rows
    <3>3. \A i \in DOMAIN rows : IsRow(TransactionsTable, rows[i]) /\ rows[i].index \in Int
      BY <2>3, <3>1
    <3>. QED BY <3>2, <3>3, IndexedAfterInsert DEF Readable
  <2>. QED BY <1>1, <2>2, <2>5 DEF e
<1>3. ASSUME NEW txs, IsList(txs), \A i \in DOMAIN txs : IsTransaction(txs[i])
      PROVE  Readable(AddTransactions(d, h, txs).db, l)
  <2> DEFINE ms == [i \in DOMAIN txs |-> TransactionDefaults(NewTransaction(h, txs[i]), Now)]
             rows == [i \in DOMAIN ms |-> TransactionSpec(ms[i])]
             e == AddTransactions(d, h, txs).db
  <2>1. e = d \/ e = CreateBulk(d, TransactionsTable, TransactionFields, ms, rows).db
    BY DEF AddTransactions, SaveTransactions
  <2>2. OnlyIn(TransactionsTable, d, e)
    BY TransactionsChangeTransactions
  <2>3. DOMAIN rows = DOMAIN txs /\ \A i \in DOMAIN txs :
            rows[i] = TransactionSpec(TransactionDefaults(NewTransaction(h, txs[i]), Now))
    OBVIOUS
  <2>. HIDE DEF e, ms, rows
  <2>4. \A i \in DOMAIN rows : IsRow(TransactionsTable, rows[i]) /\ rows[i].index \in Int
    BY <1>3, <2>3, RowHasIndex
  <2>5. e = d \/ e = Insert(d, TransactionsTable, rows).db
    BY <2>1, CreateBulkInserts
  <2>6. Indexed(e)
    BY <2>4, <2>5, IndexedAfterInsert DEF Readable
  <2>. QED BY <1>1, <2>2, <2>6 DEF e
<1>. QED BY <1>2, <1>3

\* Amounts stay floats: a new account's is converted, and an addition is rounded.
LEMMA ReadableAfterAccounts ==
    ASSUME NEW d, Sound(d), Typed(d), NEW l, Readable(d, l)
    PROVE  /\ \A a \in CreatedAccount : Readable(AddAccount(d, a).db, l)
           /\ \A a, n : n \in Int => Readable(IncrementAccountBalance(d, a.address, a.token, n).db, l)
<1>1. ASSUME NEW S, \A r \in S : Float(r.amount) = r.amount
      PROVE  Readable([d EXCEPT !.accounts = S], l)
  <2> DEFINE e == [d EXCEPT !.accounts = S]
  <2>1. "accounts" \in DOMAIN d
    BY DEF Sound, Consistent, IsDb, Names, Tables, AccountsTable
  <2>2. e.accounts = S /\ e.transactions = d.transactions
        /\ e.restore_histories = d.restore_histories
    BY <2>1
  <2>. HIDE DEF e
  <2>3. Readable(e, l)
    BY <1>1, <2>2 DEF Readable, Indexed, AmountsAreFloats, RestoreNoted
  <2>. QED BY <2>3 DEF e
<1>2. \A r \in d.accounts : r.amount \in Int /\ Float(r.amount) = r.amount
                             /\ r = [c \in AccountColumns |-> r[c]]
  BY TypedAccount DEF Readable, AmountsAreFloats
<1>3. ASSUME NEW a \in CreatedAccount PROVE Readable(AddAccount(d, a).db, l)
  <2>1. NewRow(a).amount = Float(0)
    BY DEF NewRow, CreatedAccount
  <2>2. Float(Float(0)) = Float(0)
    BY FloatIsStable
  <2> DEFINE S == d.accounts \cup {NewRow(a)}
  <2>3. AddAccount(d, a).db \in {d, [d EXCEPT !.accounts = S]}
    BY AddAccountDoes
  <2>4. \A r \in S : Float(r.amount) = r.amount
    BY <1>2, <2>1, <2>2
  <2>. HIDE DEF S
  <2>. QED BY <1>1, <2>3, <2>4
<1>4. ASSUME NEW a, NEW n \in Int
      PROVE  Readable(IncrementAccountBalance(d, a.address, a.token, n).db, l)
  <2> DEFINE S == IncrementedRows(d, a.address, a.token, n)
             x == Float(Float(n))
  <2>1. IncrementAccountBalance(d, a.address, a.token, n).db = [d EXCEPT !.accounts = S]
    BY IncrementDoes
  <2>2. x \in Int
    BY FloatIsInteger
  <2>3. ASSUME NEW r \in d.accounts
        PROVE  Float(Incremented(r, a.address, a.token, n).amount)
                 = Incremented(r, a.address, a.token, n).amount
    <3>1. r.amount + x \in Int
      BY <1>2, <2>2
    <3>2. Float(Float(r.amount + x)) = Float(r.amount + x)
      BY <3>1, FloatIsStable
    <3>3. "amount" \in DOMAIN r
      BY <1>2 DEF AccountColumns
    <3>4. Incremented(r, a.address, a.token, n).amount \in {r.amount, Float(r.amount + x)}
      BY <3>3 DEF Incremented
    <3>. HIDE DEF x
    <3>. QED BY <1>2, <3>2, <3>4
  <2>4. \A r \in S : Float(r.amount) = r.amount
    BY <2>3 DEF IncrementedRows
  <2>. HIDE DEF S
  <2>. QED BY <1>1, <2>1, <2>4
<1>. QED BY <1>3, <1>4

\* What is noted of an addition is no restore.
LEMMA NotesKeepRestores ==
    ASSUME NEW d, NEW l, LedgerTyped(l), NEW a, NEW n PROVE Noted(d, l, a, n).restored = l.restored
<1>1. l = [exact |-> l.exact, volume |-> l.volume, restored |-> l.restored]
  BY DEF LedgerTyped
<1>. QED BY <1>1 DEF Noted, Added

\* A saved restore.
LEMMA ReadableAfterRestore ==
    ASSUME NEW d, Sound(d), NEW l, LedgerTyped(l), Readable(d, l), NEW start, NEW end
    PROVE  Readable(SaveRestoringHistory(d, start, end).db, [l EXCEPT !.restored = start])
<1> DEFINE e == SaveRestoringHistory(d, start, end).db
           k == [l EXCEPT !.restored = start]
<1>1. OnlyIn(RestoreHistoriesTable, d, e)
  BY RestoresChangeRestores DEF Sound, Consistent
<1>2. k.restored = start
  BY DEF LedgerTyped
<1>3. RestoreNoted(e, k)
  BY <1>2, RestoreIsNoted DEF Readable
<1>. HIDE DEF e, k
<1>4. e.accounts = d.accounts /\ e.transactions = d.transactions
  BY <1>1 DEF OnlyIn, Names, Tables, AccountsTable, BlocksTable, TransactionsTable,
              TransfersTable, RestoreHistoriesTable
<1>5. Readable(e, k)
  BY <1>3, <1>4 DEF Readable, Indexed, AmountsAreFloats
<1>. QED BY <1>5 DEF e, k

\* Every call leaves tables that can be read.
LEMMA WritesAreReadable ==
    ASSUME ReadInv,
           \/ WriteBlock \/ WriteBlocks \/ WriteTransaction \/ WriteTransactions
           \/ WriteAccount \/ WriteBalance \/ WriteTransfer \/ WriteTransfers \/ WriteRestore
    PROVE  \E d, l : Write(d, l) /\ Readable(d, l)
<1>0. /\ Sound(db) /\ Typed(db) /\ IsDb(db) /\ AreCalls(load.calls) /\ LedgerTyped(ledger)
      /\ Readable(db, ledger)
  BY DEF ReadInv, LedgerInv, TypedInv, TablesInv, Sound, Consistent, Explained
<1>1. CASE WriteBlock \/ WriteBlocks
  <2>1. PICK d : Write(d, ledger) /\ OnlyIn(BlocksTable, db, d)
    BY <1>0, <1>1, BlocksChangeBlocks DEF WriteBlock, WriteBlocks
  <2>. QED BY <1>0, <2>1, ReadableElsewhere
<1>2. CASE WriteTransfer \/ WriteTransfers
  <2>1. PICK d : Write(d, ledger) /\ OnlyIn(TransfersTable, db, d)
    BY <1>0, <1>2, TransfersChangeTransfers DEF WriteTransfer, WriteTransfers
  <2>. QED BY <1>0, <2>1, ReadableElsewhere
<1>3. CASE WriteTransaction
  <2>1. PICK h \in load.calls.heights, tx \in load.calls.transactions :
            Write(AddTransaction(db, h, tx).db, ledger)
    BY <1>3 DEF WriteTransaction
  <2>2. h \in Int /\ IsTransaction(tx)
    BY <1>0 DEF AreCalls
  <2>. QED BY <1>0, <2>1, <2>2, ReadableAfterTransactions
<1>4. CASE WriteTransactions
  <2>1. PICK h \in load.calls.heights, txs \in load.calls.transactionBatches :
            Write(AddTransactions(db, h, txs).db, ledger)
    BY <1>4 DEF WriteTransactions
  <2>2. h \in Int /\ IsList(txs) /\ \A i \in DOMAIN txs : IsTransaction(txs[i])
    BY <1>0 DEF AreCalls
  <2>. QED BY <1>0, <2>1, <2>2, ReadableAfterTransactions
<1>5. CASE WriteAccount
  <2>1. PICK a \in load.calls.accounts : Write(AddAccount(db, a).db, ledger)
    BY <1>5 DEF WriteAccount
  <2>2. a \in CreatedAccount
    BY <1>0 DEF AreCalls
  <2>. QED BY <1>0, <2>1, <2>2, ReadableAfterAccounts
<1>6. CASE WriteBalance
  <2>1. PICK a \in load.calls.accounts, n \in load.calls.amounts :
            Write(IncrementAccountBalance(db, a.address, a.token, n).db, Noted(db, ledger, a, n))
    BY <1>6 DEF WriteBalance, Noted, Added, Size
  <2> DEFINE d == IncrementAccountBalance(db, a.address, a.token, n).db
             l == Noted(db, ledger, a, n)
  <2>2. n \in Int
    BY <1>0 DEF AreCalls
  <2>3. Readable(d, ledger)
    BY <1>0, <2>2, ReadableAfterAccounts
  <2>4. l.restored = ledger.restored
    BY <1>0, NotesKeepRestores
  <2>. HIDE DEF d, l
  <2>5. Readable(d, l)
    BY <2>3, <2>4 DEF Readable, RestoreNoted
  <2>. QED BY <2>1, <2>5 DEF d, l
<1>7. CASE WriteRestore
  <2>1. PICK s : Write(SaveRestoringHistory(db, s, s + 1).db, [ledger EXCEPT !.restored = s])
    BY <1>7 DEF WriteRestore
  <2>. QED BY <1>0, <2>1, ReadableAfterRestore
<1>. QED BY <1>1, <1>2, <1>3, <1>4, <1>5, <1>6, <1>7

LEMMA ReadInit == Init => ReadInv
<1> SUFFICES ASSUME Init PROVE ReadInv
  OBVIOUS
<1>1. db.transactions = {} /\ db.accounts = {} /\ db.restore_histories = {}
      /\ ledger.restored = 1
  BY DEF Init, NewRepositoryEnt
<1>. QED BY <1>1, LedgerInit
         DEF ReadInv, Readable, Indexed, AmountsAreFloats, RestoreNoted

LEMMA ReadStep == ReadInv /\ [Next]_vars => ReadInv'
<1> SUFFICES ASSUME ReadInv, [Next]_vars PROVE ReadInv'
  OBVIOUS
<1>0. LedgerInv' /\ Readable(db, ledger)
  BY LedgerStep DEF ReadInv
<1>1. CASE UNCHANGED <<db, ledger>>
  BY <1>0, <1>1 DEF ReadInv, Readable, Indexed, AmountsAreFloats, RestoreNoted
<1>2. CASE \/ WriteBlock \/ WriteBlocks \/ WriteTransaction \/ WriteTransactions
           \/ WriteAccount \/ WriteBalance \/ WriteTransfer \/ WriteTransfers \/ WriteRestore
  <2>1. PICK d, l : Write(d, l) /\ Readable(d, l)
    BY <1>2, WritesAreReadable
  <2>2. db' = d /\ ledger' = l
    BY <2>1 DEF Write
  <2>. QED BY <1>0, <2>1, <2>2
           DEF ReadInv, Readable, Indexed, AmountsAreFloats, RestoreNoted
<1>3. CASE \E c \in Clients : Hit(c) \/ Miss(c) \/ Handle(c) \/ Respond(c) \/ Leave(c)
  BY <1>1, <1>3 DEF Hit, Miss, Handle, Respond, Leave
<1>4. CASE Evict \/ Tick \/ UNCHANGED vars
  BY <1>1, <1>4 DEF Evict, Tick, vars
<1>. QED BY <1>2, <1>3, <1>4 DEF Next

\* ReadsAgree: the queries of repository_ent.go's reading calls, through the generated client's
\* predicates, orders, pages and groups, select exactly the rows they are asked for, in order,
\* whatever the writers have stored.
THEOREM CallsReadTheTables == Spec => []ReadsAgree
<1>. QED BY ReadInit, ReadStep, ReadingCallsAgree, PTL DEF Spec
=============================================================================
