------------------------------- MODULE Store -------------------------------
(***************************************************************************)
(* One table of versioned records: the gorm statements of                  *)
(* backend/internal/repository/base.go, each of them one atomic SQL        *)
(* statement.  The unique index on code covers deleted rows too, so a code *)
(* names at most one row for ever and stands for its primary key here.     *)
(* The business columns (name, facility, evidence, ...) are one value,     *)
(* fields: the code copies, trims and stores them together.                *)
(***************************************************************************)
EXTENDS Naturals

CONSTANTS
  Codes,      \* the record codes clients use
  NoRow,      \* marks a code no row was ever inserted for
  Fields,     \* the values the business columns can hold
  Statuses    \* the statuses of this kind of record

Row == [status: Statuses, version: Nat \ {0}, fields: Fields, deleted: BOOLEAN]

ASSUME NoRowAssumption == NoRow \notin Row

VARIABLE rows  \* the table: a row or NoRow for every code

Stored(c) == rows[c] # NoRow

\* gorm adds "deleted_at IS NULL" to every query, update and delete of a
\* model with a DeletedAt column: only live rows are seen.
Live(c) == Stored(c) /\ ~rows[c].deleted

NewRow(status, fields) ==
  [status |-> status, version |-> 1, fields |-> fields, deleted |-> FALSE]

\* INSERT; the unique index on code makes it fail when the code was ever used.
Insert(c, row) ==
  /\ ~Stored(c)
  /\ rows' = [rows EXCEPT ![c] = row]

\* Mutant: WHERE id = ? alone.
MatchesAnyVersion(c, expected) == Live(c)

\* Mutant: the scope that hides deleted rows is lifted.
MatchesDeleted(c, expected) == Stored(c) /\ rows[c].version = expected

\* Mutant: the version after the update is asked for.
MatchesNewVersion(c, expected) == Live(c) /\ rows[c].version = expected + 1

Matches(c, expected) == Live(c) /\ rows[c].version = expected

\* UPDATE ... WHERE id = ? AND version = ?, writing every column of item but
\* id, code, created_at and deleted_at.
Update(c, expected, item) ==
  /\ Matches(c, expected)
  /\ rows' = [rows EXCEPT ![c] =
                [status |-> item.status, version |-> item.version,
                 fields |-> item.fields, deleted |-> rows[c].deleted]]

\* Mutant: the scope that hides deleted rows is lifted.
DeleteAgain(c) ==
  /\ Stored(c)
  /\ rows' = [rows EXCEPT ![c] = [rows[c] EXCEPT !.deleted = TRUE]]

\* Soft delete: sets deleted_at whatever the version is.
Delete(c) ==
  /\ Live(c)
  /\ rows' = [rows EXCEPT ![c] = [rows[c] EXCEPT !.deleted = TRUE]]

=============================================================================
