-------------------------------- MODULE Ent --------------------------------
(***************************************************************************)
(* What the generated client under src/ent shares between its entities:    *)
(* mutations, the checks of the create builders, errors, queries, and the  *)
(* SQL statements that sqlgraph sends to PostgreSQL for them.  A builder   *)
(* is a value that the Set, Add and Where operators transform, as in the   *)
(* Go code; a statement is an operator from a database to a result.  The   *)
(* entities' own parts are in EntAccount, EntBlock, EntTransaction,        *)
(* EntTransfer and EntRestoreHistory.                                      *)
(*                                                                         *)
(* A database is a record with one set of rows per table; a row is a       *)
(* function from column names to values.  A table is described by its      *)
(* name, primary key, columns, unique indexes and foreign keys, and by     *)
(* whether the database numbers rows that come without a key.              *)
(***************************************************************************)
EXTENDS Integers, FiniteSetsExt, SequencesExt

CONSTANTS Null,       \* SQL's NULL
          NoAddress,  \* the empty address string
          NoToken,    \* the empty token string
          Mantissa    \* bits of a float's mantissa: 53 in the program

ASSUME MantissaIsPositive == Mantissa \in Nat \ {0}
ASSUME NullIsNoInteger == Null \notin Int
ASSUME NullIsNoOrder == Null \notin [column : {"height", "index"}, descending : BOOLEAN]

\* The empty string, in each kind of text.
Blank == {NoAddress, NoToken, ""}

---------------------------------------------------------------------------
(* Numbers                                                                 *)

\* The least number of low bits a float has to drop from the magnitude a.
Excess(a, bits) ==
    CHOOSE k \in 0 .. a : a < 2^(bits + k) /\ (k > 0 => a >= 2^(bits + k - 1))

\* The float nearest to the integer n, ties to an even mantissa.
ToFloat(n, bits) ==
    LET a == IF n < 0 THEN -n ELSE n
        unit == 2^Excess(a, bits)
        q == a \div unit
        r == 2 * (a % unit)
        m == IF r > unit \/ (r = unit /\ q % 2 = 1) THEN q + 1 ELSE q
    IN  IF n < 0 THEN -(m * unit) ELSE m * unit

\* Variant for a mutation run: a column one bit narrower.
NarrowFloat(n) == ToFloat(n, Mantissa - 1)

Float(n) == ToFloat(n, Mantissa)

\* SUM over a float column, rounding at every row.
FloatSum(rows, column) == FoldSet(LAMBDA r, sum : Float(sum + r[column]), 0, rows)

---------------------------------------------------------------------------
(* Mutations: the fields a builder has set, and what it adds to numbers    *)

NewMutation == [set |-> << >>, add |-> << >>]

\* The fields of f, and those of g that f does not have.
Over(f, g) == [x \in DOMAIN f \cup DOMAIN g |-> IF x \in DOMAIN f THEN f[x] ELSE g[x]]

\* Setting a numeric field drops what was to be added to it.
SetFields(m, values) ==
    [set |-> Over(values, m.set),
     add |-> [f \in DOMAIN m.add \ DOMAIN values |-> m.add[f]]]

\* Repeated additions to one field accumulate in the mutation.
AddToField(m, f, d) ==
    [m EXCEPT !.add =
        Over([x \in {f} |-> IF x \in DOMAIN @ THEN Float(@[x] + d) ELSE d], @)]

\* A builder's defaults fill in what the caller left unset.
WithDefaults(m, values) == [m EXCEPT !.set = Over(@, values)]

\* The checks of a builder: required fields are set, and the validators that
\* runtime.go takes from the schema accept those that are.
Valid(m, fields) ==
    /\ fields.required \subseteq DOMAIN m.set
    /\ \A f \in fields.notEmpty \cap DOMAIN m.set : m.set[f] \notin Blank
    /\ \A f \in fields.positive \cap DOMAIN m.set : m.set[f] > 0

\* The columns of an INSERT; one that was not given is NULL.
RowOf(table, m) ==
    [c \in table.columns |-> IF c \in DOMAIN m.set THEN m.set[c] ELSE Null]

---------------------------------------------------------------------------
(* Statements and their results                                            *)

Done(db, nodes) == [db |-> db, nodes |-> nodes, err |-> "none"]
Failed(db, e) == [db |-> db, nodes |-> << >>, err |-> e]

IsConstraintError(result) == result.err = "constraint"
IsNotFound(result) == result.err = "not found"

\* Variant for a mutation run: the key is left to the caller.
Unnumbered(db, table, rows) == rows

\* A serial primary key, for the rows of an INSERT that carry none.
Numbered(db, table, rows) ==
    [i \in DOMAIN rows |->
        IF table.serial /\ rows[i][table.id] = Null
          THEN [rows[i] EXCEPT ![table.id] =
                  i + Max({0} \cup {r[table.id] : r \in db[table.name]})]
          ELSE rows[i]]

KeyOf(r, key) == [c \in key |-> r[c]]

\* No unique index sees a key twice, in the table or within the statement.
Unique(db, table, rows) ==
    \A key \in table.unique : \A i \in DOMAIN rows :
        /\ \A r \in db[table.name] : KeyOf(r, key) # KeyOf(rows[i], key)
        /\ \A j \in DOMAIN rows : i # j => KeyOf(rows[j], key) # KeyOf(rows[i], key)

\* Every foreign key is NULL or the primary key of a row.
References(db, table, r) ==
    \A fk \in table.foreign :
        r[fk.column] = Null \/ \E s \in db[fk.table] : s[fk.refers] = r[fk.column]

\* Variant for a mutation run: ON CONFLICT DO NOTHING, row by row.
LenientInsert(db, table, rows) ==
    LET kept == SelectSeq(Numbered(db, table, rows),
                          LAMBDA r : Unique(db, table, <<r>>) /\ References(db, table, r))
    IN  Done([db EXCEPT ![table.name] = @ \cup ToSet(kept)], kept)

\* One INSERT of several rows takes all of them or none.
Insert(db, table, rows) ==
    LET new == Numbered(db, table, rows)
    IN  IF Unique(db, table, new) /\ \A i \in DOMAIN new : References(db, table, new[i])
          THEN Done([db EXCEPT ![table.name] = @ \cup {new[i] : i \in DOMAIN new}], new)
          ELSE Failed(db, "constraint")

\* A create builder: checks first, then one INSERT.
Create(db, table, fields, m, row) ==
    IF Valid(m, fields) THEN Insert(db, table, <<row>>) ELSE Failed(db, "validation")

\* Variant for a mutation run: only the first builder of a bulk is checked.
CreateBulkFirstChecked(db, table, fields, ms, rows) ==
    IF ms = << >> THEN Done(db, << >>)
    ELSE IF Valid(ms[1], fields) THEN Insert(db, table, rows) ELSE Failed(db, "validation")

\* A bulk builder checks every builder before its only statement; an empty one
\* sends none.
CreateBulk(db, table, fields, ms, rows) ==
    IF ms = << >> THEN Done(db, << >>)
    ELSE IF \A i \in DOMAIN ms : Valid(ms[i], fields) THEN Insert(db, table, rows)
    ELSE Failed(db, "validation")

\* INSERT ... ON CONFLICT (target) DO UPDATE SET c = excluded.c for c in columns.
Upsert(db, table, fields, m, row, target, columns) ==
    LET old == {r \in db[table.name] : KeyOf(r, target) = KeyOf(row, target)}
    IN  IF ~Valid(m, fields) THEN Failed(db, "validation")
        ELSE IF old = {} THEN Insert(db, table, <<row>>)
        ELSE Done([db EXCEPT ![table.name] =
                      (@ \ old) \cup {[c \in DOMAIN r |-> IF c \in columns THEN row[c] ELSE r[c]] :
                                       r \in old}], <<row>>)

---------------------------------------------------------------------------
(* Queries                                                                 *)

\* A predicate compares one column with a value; the predicates of a query are
\* conjoined.
EQ(column, value) == [column |-> column, value |-> value]

NewQuery == [where |-> {}, order |-> Null, offset |-> 0, limit |-> 0]
Where(q, predicates) == [q EXCEPT !.where = @ \cup predicates]
Asc(q, column) == [q EXCEPT !.order = [column |-> column, descending |-> FALSE]]
Desc(q, column) == [q EXCEPT !.order = [column |-> column, descending |-> TRUE]]
Offset(q, n) == [q EXCEPT !.offset = n]
Limit(q, n) == [q EXCEPT !.limit = n]

Matching(db, table, q) == {r \in db[table.name] : \A p \in q.where : r[p.column] = p.value}

\* Variant for a mutation run: OFFSET counts pages, not rows.
PagedWrongly(s, offset, limit) ==
    IF limit = 0 THEN SubSeq(s, offset + 1, Len(s))
    ELSE SubSeq(s, offset * limit + 1, Min({Len(s), offset * limit + limit}))

\* OFFSET and LIMIT; a limit of 0 is no limit to sqlgraph.
Page(s, offset, limit) ==
    SubSeq(s, offset + 1, IF limit = 0 THEN Len(s) ELSE Min({Len(s), offset + limit}))

\* An order by a column; rows that tie are in the order of their keys.
Before(r, s, order, key) ==
    LET c == order.column
    IN  IF r[c] = s[c] THEN r[key] < s[key]
        ELSE IF order.descending THEN r[c] > s[c] ELSE r[c] < s[c]

\* A row's place in the order: how many rows do not come after it.
Place(rows, r, order, key) == Cardinality({s \in rows : s = r \/ Before(s, r, order, key)})

InOrder(rows, order, key) ==
    [i \in 1 .. Cardinality(rows) |-> CHOOSE r \in rows : Place(rows, r, order, key) = i]

\* The rows a query selects, in its order; without one they come in an arbitrary order.
Select(db, table, q) ==
    LET rows == Matching(db, table, q)
    IN  Page(IF q.order = Null THEN SetToSeq(rows) ELSE InOrder(rows, q.order, table.id),
             q.offset, q.limit)

\* All fails when the order names a column the table does not have.
All(db, table, q, nodes) ==
    IF q.order # Null /\ q.order.column \notin table.columns
      THEN Failed(db, "other") ELSE Done(db, nodes)

\* First asks for one row and fails when there is none.
FirstOf(result) ==
    IF result.err = "none" /\ result.nodes = << >>
      THEN [result EXCEPT !.err = "not found"] ELSE result

\* Only fails unless exactly one row matches; it asks for two.
OnlyOf(result) ==
    IF result.err # "none" \/ Len(result.nodes) = 1 THEN result
    ELSE [result EXCEPT !.err = IF result.nodes = << >> THEN "not found" ELSE "not singular",
                        !.nodes = << >>]

\* SELECT by, SUM(column) ... GROUP BY by.
GroupSum(rows, by, column) ==
    {[c \in {by, column} |->
        IF c = by THEN r[by] ELSE FloatSum({s \in rows : s[by] = r[by]}, column)] : r \in rows}

\* A scanned column that is NULL leaves the node's field at its zero value.
Scanned(r, column, zero) == IF r[column] = Null THEN zero ELSE r[column]
=============================================================================
