------------------------------ MODULE Reports ------------------------------
(***************************************************************************)
(* Answers put together from several queries while other requests write:   *)
(* lists read page by page (Store.List of repository/base.go, ListAudits   *)
(* of repository/security.go) and the audit summary (SummarizeAudits).     *)
(*                                                                         *)
(* Each query sees the table as it is then; nothing holds the table still  *)
(* between two of them.  Rows are stamped by the program before they are   *)
(* committed, so a row may show up below rows that were there before it.   *)
(***************************************************************************)
EXTENDS Integers, FiniteSets

CONSTANTS
  LastId,    \* bounds the rows, deleted ones included
  LastTime,  \* bounds the clock
  Asked,     \* the page sizes clients ask for
  Entries,   \* what audit entries can say: action, actor and entityType
  Since      \* the start of the summary's window

ASSUME ReportsAssumptions ==
  /\ LastId \in Nat
  /\ LastTime \in Nat \ {0}
  /\ Asked \subseteq Int
  /\ Entries # {}
  /\ \A e \in Entries : {"action", "actor", "entityType"} \subseteq DOMAIN e
  /\ Since \in Nat

VARIABLES
  report,   \* which report this behaviour is about
  clock,
  table,    \* id -> stamp and entry, for the rows that are not deleted
  last,     \* the last id given out
  reader,   \* the client that reads page by page
  steady,   \* the rows left alone since its first page was read, and never
            \* stamped like another one where the order does not tell them
            \* apart
  raised,   \* whether rows were moved up since then, by the deletion of one
            \* or by one that was stamped with an earlier time than before
  summary   \* the audit summary, as far as it has been put together

vars == <<report, clock, table, last, reader, steady, raised, summary>>

Rows == DOMAIN table

-----------------------------------------------------------------------------
(* Parameters *)

\* Any page size out of range is replaced by the default.
bindPage(page, pageSize) ==
  [page |-> IF page < 1 THEN 1 ELSE page,
   pageSize |-> IF pageSize < 1 \/ pageSize > 100 THEN 20 ELSE pageSize]

\* One that is too large is cut to the largest.
normalizePage(q) ==
  [page |-> IF q.page < 1 THEN 1 ELSE q.page,
   pageSize |-> CASE q.pageSize < 1   -> 20
                  [] q.pageSize > 100 -> 100
                  [] OTHER            -> q.pageSize]

\* The hours of the summary's window, cut by the query and, as a duration,
\* by the service again.
Window(hours) ==
  CASE hours < 1       -> 24
    [] hours > 24 * 90 -> 24 * 90
    [] OTHER           -> hours

ServiceWindow(hours) ==
  CASE hours < 1       -> 24
    [] hours > 90 * 24 -> 90 * 24
    [] OTHER           -> hours

\* The entries of an entity's history, cut by the query and by the repository.
NormalizedLimit(limit) ==
  CASE limit < 1   -> 20
    [] limit > 100 -> 100
    [] OTHER       -> limit

HistoryLimit(limit) ==
  IF limit < 1 THEN 20 ELSE IF limit > 100 THEN 100 ELSE limit

-----------------------------------------------------------------------------
(* Pages *)

\* Audit entries are ordered by created_at alone, records by updated_at and
\* id, the newest first.
Ahead(t, x, y) ==
  \/ t[x].stamp > t[y].stamp
  \/ report = "records" /\ t[x].stamp = t[y].stamp /\ x > y

\* The rows that can come first when n are asked for: which of those with
\* one stamp, the database is free to choose, in each query anew.
First(n) ==
  {A \in SUBSET Rows :
     /\ Cardinality(A) = IF n < Cardinality(Rows) THEN n ELSE Cardinality(Rows)
     /\ \A x \in Rows \ A, y \in A : ~Ahead(table, x, y)}

\* Mutant: pages counted from 0.
SkipPages(q) == q.page * q.pageSize

Offset(q) == (q.page - 1) * q.pageSize

\* OFFSET and LIMIT.
Pages(q) ==
  UNION {{B \ A : B \in {C \in First(Offset(q) + q.pageSize) : A \subseteq C}} :
           A \in First(Offset(q))}

Query == normalizePage(bindPage(reader.page, reader.asked))

\* The pages a client that reads them all expects after a count of total.
pages(total) ==
  IF total = 0 THEN 1
  ELSE (total + Query.pageSize - 1) \div Query.pageSize

-----------------------------------------------------------------------------
(* The table *)

Row == [stamp: 0..LastTime, entry: Entries]

\* Paging looks at the stamps only.
EntriesOf(which) == IF which = "summary" THEN Entries
                    ELSE {CHOOSE e \in Entries : TRUE}

NoSummary == [step |-> "total"]

Init ==
  /\ report \in {"audits", "records", "summary"}
  /\ clock = 1
  /\ \E n \in 0..LastId :
       /\ table \in [1..n -> [stamp: 0..1, entry: EntriesOf(report)]]
       /\ last = n
  /\ \E size \in Asked :
       reader = [step |-> "count", asked |-> size, page |-> 1, total |-> 0,
                 shown |-> {}]
  /\ steady = {}
  /\ raised = FALSE
  /\ summary = NoSummary

Tick ==
  /\ clock < LastTime
  /\ clock' = clock + 1
  /\ UNCHANGED <<report, table, last, reader, steady, raised, summary>>

\* Rows the order of table t tells apart from every other one.
Apart(t, x) == \A y \in DOMAIN t \ {x} : Ahead(t, x, y) \/ Ahead(t, y, x)

KeepSteady(ids) == steady' = {x \in ids : Apart(table', x)}

\* Mutant: the stamp is a local time, read as if it were UTC.
InsertAhead ==
  /\ last < LastId
  /\ last' = last + 1
  /\ \E e \in EntriesOf(report) :
       table' = [x \in Rows \cup {last'} |->
                   IF x = last' THEN [stamp |-> clock + 1, entry |-> e]
                                ELSE table[x]]
  /\ KeepSteady(steady)
  /\ UNCHANGED <<report, clock, reader, raised, summary>>

\* Create and AppendAudit: the stamp was taken some time before the commit.
Insert ==
  /\ last < LastId
  /\ last' = last + 1
  /\ \E stamp \in 1..clock, e \in EntriesOf(report) :
       table' = [x \in Rows \cup {last'} |->
                   IF x = last' THEN [stamp |-> stamp, entry |-> e] ELSE table[x]]
  /\ KeepSteady(steady)
  /\ UNCHANGED <<report, clock, reader, raised, summary>>

\* Update of a record; nothing updates an audit entry.  The stamp is taken
\* before the UPDATE is sent, so one that is sent ahead of its version, and
\* matches once another is committed, takes the record back in time.
Touch(x) ==
  /\ report = "records"
  /\ \E stamp \in 1..clock :
       /\ table' = [table EXCEPT ![x].stamp = stamp]
       /\ raised' = (raised \/ (stamp < table[x].stamp /\ reader.page > 1))
  /\ KeepSteady(steady \ {x})
  /\ UNCHANGED <<report, clock, last, reader, summary>>

\* Delete of a record; nothing deletes an audit entry.
Remove(x) ==
  /\ report = "records"
  /\ table' = [y \in Rows \ {x} |-> table[y]]
  /\ KeepSteady(steady \ {x})
  /\ raised' = (raised \/ reader.page > 1)
  /\ UNCHANGED <<report, clock, last, reader, summary>>

-----------------------------------------------------------------------------
(* Reading page by page *)

Count ==
  /\ report # "summary"
  /\ reader.step = "count"
  /\ reader' = [reader EXCEPT !.step = "page", !.total = Cardinality(Rows)]
  /\ UNCHANGED <<report, clock, table, last, steady, raised, summary>>

\* The client asks for another page as long as the count promises one.
ReadPage ==
  /\ reader.step = "page"
  /\ \E P \in Pages(Query) :
       reader' = [reader EXCEPT
         !.step  = IF reader.page < pages(reader.total) THEN "count" ELSE "done",
         !.page  = reader.page + 1,
         !.shown = reader.shown \cup P]
  /\ steady' = IF reader.page = 1 THEN {x \in Rows : Apart(table, x)} ELSE steady
  /\ UNCHANGED <<report, clock, table, last, raised, summary>>

-----------------------------------------------------------------------------
(* The audit summary: five queries of one window *)

InWindow == {x \in Rows : table[x].stamp >= Since}

\* GROUP BY field: no group is empty.
GroupBy(field) ==
  [v \in {table[x].entry[field] : x \in InWindow} |->
     Cardinality({x \in InWindow : table[x].entry[field] = v})]

\* Mutant: the window is forgotten.
AllTransitions == {x \in Rows : table[x].entry.action = "transition"}

Transitions == {x \in InWindow : table[x].entry.action = "transition"}

\* One query after the other, each result a field of the answer.
SummaryQuery ==
  LET Adds(step, field, value, next) ==
        /\ summary.step = step
        /\ summary' = [f \in DOMAIN summary \cup {field} |->
                         CASE f = "step" -> next
                           [] f = field  -> value
                           [] OTHER      -> summary[f]]
  IN \/ Adds("total", "total", Cardinality(InWindow), "transitions")
     \/ Adds("transitions", "transitions", Cardinality(Transitions), "actors")
     \/ Adds("actors", "uniqueActors", Cardinality(DOMAIN GroupBy("actor")),
             "actions")
     \/ Adds("actions", "actions", GroupBy("action"), "entities")
     \/ Adds("entities", "entityTypes", GroupBy("entityType"), "done")

SummarizeAudits ==
  /\ report = "summary"
  /\ SummaryQuery
  /\ UNCHANGED <<report, clock, table, last, reader, steady, raised>>

-----------------------------------------------------------------------------

Next ==
  \/ Tick
  \/ Insert
  \/ \E x \in Rows : Touch(x) \/ Remove(x)
  \/ Count
  \/ ReadPage
  \/ SummarizeAudits

Spec == Init /\ [][Next]_vars

-----------------------------------------------------------------------------
(* Properties *)

\* Every variable has its type.
TypeOK ==
  /\ report \in {"audits", "records", "summary"}
  /\ clock \in 1..LastTime
  /\ last \in 0..LastId
  /\ Rows \subseteq 1..last
  /\ table \in [Rows -> Row]
  /\ reader \in [step: {"count", "page", "done"}, asked: Asked, page: Nat \ {0},
                 total: 0..last, shown: SUBSET (1..last)]
  /\ steady \subseteq Rows
  /\ raised \in BOOLEAN
  /\ summary.step \in {"total", "transitions", "actors", "actions",
                       "entities", "done"}

\* Reading page by page skips no row that was left alone meanwhile, although
\* each page is cut out of another state of the table: of the rows that are
\* among the first so many now, as many as the pages read so far hold, all
\* have been shown.  Rows that come in or are updated push the others down,
\* from a page not read yet to one not read yet or onto a page twice, never
\* onto one already read.  It takes a record that is deleted or stamped back,
\* or audit entries of one instant, to skip a row.
Rank(x) == Cardinality({y \in Rows : Ahead(table, y, x)}) + 1

NothingSkipped ==
  ~raised =>
    \A x \in steady :
      Rank(x) <= (reader.page - 1) * Query.pageSize => x \in reader.shown

\* The parts of a summary differ only by entries that came in between the
\* five queries: each part counts at least what the parts before it counted,
\* and when the last part adds up to the total of the first, nothing came in
\* and all the parts agree.
Points(counts) == UNION {{v} \X (1..counts[v]) : v \in DOMAIN counts}

Sum(counts) == Cardinality(Points(counts))

TransitionsIn(actions) ==
  IF "transition" \in DOMAIN actions THEN actions["transition"] ELSE 0

SummaryAddsUp ==
  summary.step = "done" =>
    LET byAction == Sum(summary.actions)
        byType   == Sum(summary.entityTypes)
    IN /\ summary.total <= byAction
       /\ byAction <= byType
       /\ summary.transitions <= TransitionsIn(summary.actions)
       /\ summary.total > 0 => summary.uniqueActors \in 1..byAction
       /\ summary.total = byType =>
            /\ summary.total = byAction
            /\ summary.transitions = TransitionsIn(summary.actions)

=============================================================================
