------------------------- MODULE EntRestoreHistory -------------------------
(***************************************************************************)
(* The RestoreHistory entity of the generated client.                      *)
(***************************************************************************)
EXTENDS Ent

RestoreHistoryColumns == {"id", "restore_range_start", "restore_range_end", "being_block"}
RestoreHistoryFields ==
    [required |-> {"restore_range_start", "restore_range_end", "being_block"},
     notEmpty |-> {}, positive |-> {}]

RestoreHistoriesTable ==
    [name |-> "restore_histories", id |-> "id", serial |-> TRUE,
     columns |-> RestoreHistoryColumns, unique |-> {{"id"}}, foreign |-> {}]

---------------------------------------------------------------------------
(* Mutations and builders                                                  *)

RestoreHistoryMutation == NewMutation

\* SetID, SetRestoreRangeStart
SetRestoreStart(m, id, start) == SetFields(m, [id |-> id, restore_range_start |-> start])
\* SetRestoreRangeEnd, SetBeingBlock
SetRestoreEnd(m, end, being) ==
    SetFields(m, [restore_range_end |-> end, being_block |-> being])

\* RestoreHistory.Create() with its setters
RestoreHistoryCreate(id, start, end, being) ==
    SetRestoreEnd(SetRestoreStart(RestoreHistoryMutation, id, start), end, being)
RestoreHistorySpec(m) == RowOf(RestoreHistoriesTable, m)

\* OnConflictColumns starts an upsert without columns to update.
OnConflictColumns(m, target) == [mutation |-> m, target |-> target, update |-> {}]
\* UpdateRestoreRangeStart, UpdateRestoreRangeEnd, UpdateBeingBlock: SetExcluded.
UpdateColumn(u, column) == [u EXCEPT !.update = @ \cup {column}]
UpdateRestoreColumns(u) ==
    UpdateColumn(UpdateColumn(UpdateColumn(u, "restore_range_start"), "restore_range_end"),
                 "being_block")

\* Exec of the upsert; without conflict options it fails.
ExecRestoreHistoryUpsert(db, u) ==
    IF u.target = {} THEN Failed(db, "other")
    ELSE Upsert(db, RestoreHistoriesTable, RestoreHistoryFields, u.mutation,
                RestoreHistorySpec(u.mutation), u.target, u.update)

---------------------------------------------------------------------------
(* Predicates and queries                                                  *)

RestoreHistoryIDEQ(id) == EQ("id", id)

RestoreHistoryQuery == NewQuery

\* scanValues and assignValues
RestoreHistoryNode(r) ==
    [id |-> r.id, restore_range_start |-> r.restore_range_start,
     restore_range_end |-> r.restore_range_end, being_block |-> r.being_block]

RestoreHistoryQuerySpec(db, q) == Select(db, RestoreHistoriesTable, q)
SelectRestoreHistories(db, q) ==
    LET s == RestoreHistoryQuerySpec(db, q) IN [i \in DOMAIN s |-> RestoreHistoryNode(s[i])]
AllRestoreHistories(db, q) ==
    All(db, RestoreHistoriesTable, q, SelectRestoreHistories(db, q))
FirstRestoreHistory(db, q) == FirstOf(AllRestoreHistories(db, Limit(q, 1)))
=============================================================================
