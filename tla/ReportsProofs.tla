--------------------------- MODULE ReportsProofs ---------------------------
(***************************************************************************)
(* Theorems about Reports: its parameters, for any integers, and reading   *)
(* page by page, for any number of rows, any clock and any page size.      *)
(***************************************************************************)
EXTENDS Reports, FunctionTheorems, FiniteSetTheorems, TLAPS

USE ReportsAssumptions

-----------------------------------------------------------------------------
(* Parameters *)

\* A page and its size are settled by the handler: what the repository does
\* to them again changes nothing, so that too large a size gets the default
\* and never the largest, and no query has a negative offset.
THEOREM PagesSettled ==
  ASSUME NEW page \in Int, NEW pageSize \in Int
  PROVE  LET q == bindPage(page, pageSize) IN
         /\ normalizePage(q) = q
         /\ q.pageSize \in 1..100
         /\ Offset(q) \in Nat
<1> DEFINE q == bindPage(page, pageSize)
<1>1. q.page \in Nat \ {0} /\ q.pageSize \in 1..100
  BY DEF bindPage
<1>2. q = [page |-> q.page, pageSize |-> q.pageSize]
  BY DEF bindPage
<1>3. normalizePage(q) = q
  <2> HIDE DEF q
  <2> QED
    BY <1>1, <1>2 DEF normalizePage
<1>4. Offset(q) \in Nat
  <2>1. Offset(q) = (q.page - 1) * q.pageSize
    BY DEF Offset
  <2>2. \A m, n \in Nat : m * n \in Nat
    OBVIOUS
  <2>3. q.page - 1 \in Nat /\ q.pageSize \in Nat
    <3> HIDE DEF q
    <3> QED
      BY <1>1
  <2> QED
    BY <2>1, <2>2, <2>3
<1> QED
  BY <1>1, <1>3, <1>4

\* The window of the summary and the limit of a history are settled by the
\* query: cutting them again further down changes nothing.
THEOREM LimitsSettled ==
  ASSUME NEW n \in Int
  PROVE  /\ ServiceWindow(Window(n)) = Window(n)
         /\ Window(n) \in 1..(24 * 90)
         /\ HistoryLimit(NormalizedLimit(n)) = NormalizedLimit(n)
         /\ NormalizedLimit(n) \in 1..100
  BY DEF ServiceWindow, Window, HistoryLimit, NormalizedLimit

LEMMA BoundQuery ==
  ASSUME NEW page \in Int, NEW size \in Int
  PROVE  normalizePage(bindPage(page, size)) = bindPage(page, size)
  BY PagesSettled, Zenon

\* What a query asks for is settled by the page and the size asked for.
LEMMA QuerySettled ==
  ASSUME TypeOK
  PROVE  /\ Query.page = reader.page
         /\ Query.pageSize = bindPage(1, reader.asked).pageSize
         /\ Query.pageSize \in 1..100
         /\ Offset(Query) = (reader.page - 1) * Query.pageSize
<1>1. reader.page \in Nat \ {0} /\ reader.asked \in Int
  BY DEF TypeOK
<1>2. PICK page, size : page = reader.page /\ size = reader.asked
  OBVIOUS
<1>3. /\ normalizePage(bindPage(page, size)) = bindPage(page, size)
      /\ bindPage(page, size).pageSize \in 1..100
  <2>1. page \in Int /\ size \in Int
    BY <1>1, <1>2
  <2> QED
    BY <2>1, PagesSettled, Zenon
<1>4. Query = bindPage(page, size)
  BY <1>2, <1>3 DEF Query
<1> QED
  BY <1>1, <1>2, <1>3, <1>4 DEF bindPage, Offset

-----------------------------------------------------------------------------
(* Types *)

\* Finitely many ids were given out.
LEMMA IdsFinite ==
  ASSUME NEW n \in Nat, NEW S \in SUBSET (1..n)
  PROVE  IsFiniteSet(S) /\ Cardinality(S) \in 0..n
<1>1. IsFiniteSet(1..n) /\ Cardinality(1..n) = n
  BY FS_Interval
<1>2. IsFiniteSet(S) /\ Cardinality(S) <= n
  BY <1>1, FS_Subset
<1>3. Cardinality(S) \in Nat
  BY <1>2, FS_CardinalityType
<1> QED
  BY <1>2, <1>3

LEMMA RowsFinite ==
  ASSUME TypeOK
  PROVE  /\ IsFiniteSet(Rows)
         /\ Cardinality(Rows) \in 0..last
         /\ \A S \in SUBSET Rows : IsFiniteSet(S) /\ Cardinality(S) \in Nat
<1>1. last \in Nat /\ Rows \in SUBSET (1..last)
  BY DEF TypeOK
<1>2. IsFiniteSet(Rows) /\ Cardinality(Rows) \in 0..last
  BY <1>1, IdsFinite
<1> QED
  BY <1>1, <1>2, FS_Subset, FS_CardinalityType

LEMMA EntriesType == EntriesOf(report) \subseteq Entries
  BY DEF EntriesOf

\* What Pages finds are rows.
LEMMA PagesType ==
  ASSUME NEW q, NEW P \in Pages(q)
  PROVE  P \subseteq Rows
  BY DEF Pages, First

\* The fields of an answer that is put together are never taken away.
SummaryOK == "step" \in DOMAIN summary

LEMMA TypeInit == Init => TypeOK /\ SummaryOK
<1> SUFFICES ASSUME Init PROVE TypeOK /\ SummaryOK
  OBVIOUS
<1>1. PICK n \in 0..LastId : /\ table \in [1..n -> [stamp: 0..1, entry: EntriesOf(report)]]
                             /\ last = n
  BY DEF Init
<1>2. table \in [Rows -> Row] /\ Rows = 1..last
  BY <1>1, EntriesType DEF Row, Rows
<1>3. reader \in [step: {"count", "page", "done"}, asked: Asked, page: Nat \ {0},
                  total: 0..last, shown: SUBSET (1..last)]
  BY <1>1 DEF Init
<1>4. SummaryOK /\ summary.step = "total"
  BY DEF Init, SummaryOK, NoSummary
<1>5. clock \in 1..LastTime /\ last \in 0..LastId
  BY <1>1 DEF Init
<1>6. report \in {"audits", "records", "summary"} /\ steady \subseteq Rows
      /\ raised \in BOOLEAN
  BY DEF Init
<1> QED
  BY <1>2, <1>3, <1>4, <1>5, <1>6 DEF TypeOK

\* A row that comes in gets the next id.
LEMMA InsertType ==
  ASSUME TypeOK, Insert
  PROVE  TypeOK' /\ Rows' = Rows \cup {last'} /\ last' \notin Rows
         /\ \A x \in Rows : table'[x] = table[x]
<1>1. last' = last + 1 /\ last' \in 0..LastId /\ last \in Nat /\ Rows \subseteq 1..last
  BY DEF Insert, TypeOK
<1>2. PICK stamp \in 1..clock, e \in EntriesOf(report) :
        table' = [x \in Rows \cup {last'} |->
                    IF x = last' THEN [stamp |-> stamp, entry |-> e] ELSE table[x]]
  BY DEF Insert
<1>3. Rows' = Rows \cup {last'} /\ last' \notin Rows
      /\ \A x \in Rows : table'[x] = table[x]
  BY <1>1, <1>2 DEF Rows
<1>4. [stamp |-> stamp, entry |-> e] \in Row
  BY EntriesType DEF Row, TypeOK
<1>5. table' \in [Rows' -> Row]
  BY <1>2, <1>3, <1>4 DEF TypeOK
<1>6. Rows' \subseteq 1..last'
  BY <1>1, <1>3
<1>7. steady' \subseteq Rows'
  BY <1>3 DEF Insert, KeepSteady, TypeOK
<1>8. /\ 0..last \subseteq 0..last' /\ 1..last \subseteq 1..last'
  BY <1>1
<1>9. reader' \in [step: {"count", "page", "done"}, asked: Asked, page: Nat \ {0},
                   total: 0..last', shown: SUBSET (1..last')]
  BY <1>8 DEF Insert, TypeOK
<1> QED
  BY <1>1, <1>3, <1>5, <1>6, <1>7, <1>9 DEF Insert, TypeOK

LEMMA TouchType ==
  ASSUME TypeOK, NEW x \in Rows, Touch(x)
  PROVE  /\ TypeOK' /\ Rows' = Rows
         /\ \A y \in Rows \ {x} : table'[y] = table[y]
         /\ table'[x].stamp \in 1..clock
         /\ raised' = (raised \/ (table'[x].stamp < table[x].stamp /\ reader.page > 1))
<1>1. PICK stamp \in 1..clock :
        /\ table' = [table EXCEPT ![x].stamp = stamp]
        /\ raised' = (raised \/ (stamp < table[x].stamp /\ reader.page > 1))
  BY DEF Touch
<1>2. table \in [Rows -> Row] /\ table[x] \in Row /\ clock \in 1..LastTime
  BY DEF TypeOK
<1>3. stamp \in 0..LastTime
  BY <1>2 DEF Row
<1>4. [table[x] EXCEPT !.stamp = stamp] \in Row
      /\ [table[x] EXCEPT !.stamp = stamp].stamp = stamp
  BY <1>2, <1>3 DEF Row
<1>5. /\ Rows' = Rows /\ table' \in [Rows -> Row]
      /\ \A y \in Rows \ {x} : table'[y] = table[y]
      /\ table'[x].stamp = stamp
  BY <1>1, <1>2, <1>4 DEF Rows
<1>6. steady' \subseteq Rows
  BY DEF Touch, KeepSteady, TypeOK
<1>7. raised' \in BOOLEAN
  BY <1>1, Zenon DEF TypeOK
<1>8. raised' = (raised \/ (table'[x].stamp < table[x].stamp /\ reader.page > 1))
  BY <1>1, <1>5, Zenon
<1> QED
  BY <1>5, <1>6, <1>7, <1>8 DEF Touch, TypeOK

LEMMA RemoveType ==
  ASSUME TypeOK, NEW x \in Rows, Remove(x)
  PROVE  TypeOK'
<1>1. Rows' = Rows \ {x} /\ table' \in [Rows' -> Row]
  BY DEF Remove, TypeOK, Rows
<1>2. steady' \subseteq Rows'
  BY <1>1 DEF Remove, KeepSteady, TypeOK
<1>3. raised' \in BOOLEAN
  BY DEF Remove, TypeOK
<1> QED
  BY <1>1, <1>2, <1>3 DEF Remove, TypeOK

LEMMA ReadingType ==
  ASSUME TypeOK, Count \/ ReadPage
  PROVE  TypeOK'
<1>1. CASE Count
  <2>1. reader' \in [step: {"count", "page", "done"}, asked: Asked,
                     page: Nat \ {0}, total: 0..last, shown: SUBSET (1..last)]
    BY <1>1, RowsFinite DEF Count, TypeOK
  <2> QED
    BY <1>1, <2>1 DEF Count, TypeOK, Rows
<1>2. CASE ReadPage
  <2>1. PICK P \in Pages(Query), step \in {"count", "done"} :
          reader' = [reader EXCEPT !.step = step, !.page = reader.page + 1,
                                   !.shown = reader.shown \cup P]
    BY <1>2 DEF ReadPage
  <2>2. P \subseteq 1..last
    BY PagesType DEF TypeOK
  <2>3. reader' \in [step: {"count", "page", "done"}, asked: Asked,
                     page: Nat \ {0}, total: 0..last, shown: SUBSET (1..last)]
    <3>1. reader \in [step: {"count", "page", "done"}, asked: Asked,
                      page: Nat \ {0}, total: 0..last, shown: SUBSET (1..last)]
      BY DEF TypeOK
    <3>2. reader.page + 1 \in Nat \ {0} /\ reader.shown \cup P \in SUBSET (1..last)
      <4>1. reader.page \in Nat \ {0} /\ reader.shown \in SUBSET (1..last)
        BY <3>1
      <4>2. reader.page + 1 \in Nat \ {0}
        BY <4>1
      <4>3. reader.shown \cup P \in SUBSET (1..last)
        BY <2>2, <4>1
      <4> QED
        BY <4>2, <4>3
    <3> QED
      BY <2>1, <3>1, <3>2
  <2>4. steady' \subseteq Rows
    BY <1>2 DEF ReadPage, TypeOK
  <2> QED
    BY <1>2, <2>3, <2>4 DEF ReadPage, TypeOK, Rows
<1> QED
  BY <1>1, <1>2

LEMMA SummaryType ==
  ASSUME TypeOK, SummaryOK, SummarizeAudits
  PROVE  TypeOK' /\ SummaryOK'
<1>1. /\ SummaryOK'
      /\ summary'.step \in {"transitions", "actors", "actions", "entities", "done"}
  BY DEF SummarizeAudits, SummaryQuery, SummaryOK
<1> QED
  BY <1>1 DEF SummarizeAudits, TypeOK, Rows

LEMMA TypeStep == TypeOK /\ SummaryOK /\ [Next]_vars => TypeOK' /\ SummaryOK'
<1> SUFFICES ASSUME TypeOK, SummaryOK, [Next]_vars PROVE TypeOK' /\ SummaryOK'
  OBVIOUS
<1>1. CASE Tick
  BY <1>1 DEF Tick, TypeOK, SummaryOK, Rows
<1>2. CASE Insert
  BY <1>2, InsertType DEF Insert, SummaryOK
<1>3. ASSUME NEW x \in Rows, Touch(x) \/ Remove(x)
      PROVE  TypeOK' /\ SummaryOK'
  BY <1>3, TouchType, RemoveType DEF Touch, Remove, SummaryOK
<1>4. CASE Count \/ ReadPage
  BY <1>4, ReadingType DEF Count, ReadPage, SummaryOK
<1>5. CASE UNCHANGED vars
  BY <1>5 DEF vars, TypeOK, SummaryOK, Rows
<1> QED
  BY <1>1, <1>2, <1>3, <1>4, <1>5, SummaryType DEF Next

\* Every variable keeps its type.
THEOREM TypeCorrect == Spec => []TypeOK
  BY TypeInit, TypeStep, PTL DEF Spec

-----------------------------------------------------------------------------
(* Reading page by page *)

\* The rows ahead of one.
RowsAhead(x) == {y \in Rows : Ahead(table, y, x)}

SteadyApart == \A x \in steady : Apart(table, x)

\* A row that others come in ahead of, or move ahead of, is pushed down.
LEMMA PushedDown ==
  ASSUME TypeOK, TypeOK', NEW x \in Rows, RowsAhead(x) \subseteq RowsAhead(x)'
  PROVE  /\ Rank(x) \in Nat \ {0} /\ Rank(x)' \in Nat \ {0}
         /\ Rank(x) <= Rank(x)'
<1>1. IsFiniteSet(RowsAhead(x)) /\ Cardinality(RowsAhead(x)) \in Nat
  BY RowsFinite DEF RowsAhead
<1>2. IsFiniteSet(Rows')
  <2>1. last' \in Nat /\ Rows' \in SUBSET (1..last')
    BY DEF TypeOK
  <2> QED
    BY <2>1, IdsFinite
<1>3. RowsAhead(x)' \in SUBSET (Rows')
  BY DEF RowsAhead
<1>4. IsFiniteSet(RowsAhead(x)')
  BY <1>2, <1>3, FS_Subset
<1>5. Cardinality(RowsAhead(x)') \in Nat
  BY <1>4, FS_CardinalityType
<1>6. Cardinality(RowsAhead(x)) <= Cardinality(RowsAhead(x)')
  BY <1>4, FS_Subset
<1>7. /\ Rank(x) = Cardinality(RowsAhead(x)) + 1
      /\ Rank(x)' = Cardinality(RowsAhead(x)') + 1
  BY DEF Rank, RowsAhead
<1> QED
  BY <1>1, <1>5, <1>6, <1>7

\* What the pages read so far hold.
Covered == (reader.page - 1) * Query.pageSize

\* A step that reads nothing, deletes nothing read before, and moves no row
\* up that it leaves steady.
LEMMA NothingMovesUp ==
  ASSUME TypeOK, TypeOK', NothingSkipped, ~raised' => ~raised,
         reader'.page = reader.page, reader'.asked = reader.asked,
         reader'.shown = reader.shown, steady' \subseteq steady,
         \A x \in steady' : RowsAhead(x) \subseteq RowsAhead(x)'
  PROVE  NothingSkipped'
<1> SUFFICES ASSUME ~raised', NEW x \in steady', Rank(x)' <= Covered'
             PROVE  x \in reader'.shown
  BY DEF NothingSkipped, Covered
<1>1. x \in steady /\ x \in Rows
  BY DEF TypeOK
<1>2. Rank(x) \in Nat /\ Rank(x)' \in Nat /\ Rank(x) <= Rank(x)'
  BY <1>1, PushedDown
<1>3. Query' = Query
  BY DEF Query
<1>4. Covered' = Covered
  BY <1>3 DEF Covered
<1>5. Covered \in Int
  <2>1. reader.page - 1 \in Int /\ Query.pageSize \in Int
    BY QuerySettled DEF TypeOK
  <2>2. \A m, n \in Int : m * n \in Int
    OBVIOUS
  <2> QED
    BY <2>1, <2>2 DEF Covered
<1>6. Rank(x) <= Covered
  BY <1>2, <1>4, <1>5
<1> QED
  BY <1>1, <1>6 DEF NothingSkipped, Covered

LEMMA InsertSkipsNothing ==
  ASSUME TypeOK, NothingSkipped, Insert
  PROVE  NothingSkipped'
<1>1. /\ TypeOK' /\ Rows' = Rows \cup {last'}
      /\ \A x \in Rows : table'[x] = table[x]
  BY InsertType
<1>2. /\ report' = report /\ reader' = reader /\ raised' = raised
      /\ steady' \subseteq steady
  BY DEF Insert, KeepSteady
<1>3. ASSUME NEW x \in steady' PROVE RowsAhead(x) \subseteq RowsAhead(x)'
  BY <1>1, <1>2, <1>3 DEF RowsAhead, Ahead, TypeOK
<1> QED
  BY <1>1, <1>2, <1>3, NothingMovesUp

\* Before the first page nothing is shown, and no row has the rank 0.
LEMMA NothingReadYet ==
  ASSUME TypeOK, TypeOK', reader' = reader, reader.page > 1 => raised'
  PROVE  NothingSkipped'
<1> SUFFICES ASSUME ~raised', NEW x \in steady', Rank(x)' <= Covered'
             PROVE  FALSE
  BY DEF NothingSkipped, Covered
<1>1. x \in Rows'
  BY DEF TypeOK
<1>2. reader.page = 1 /\ Query' = Query /\ Query.pageSize \in Int
  <2>1. reader.page \in Nat \ {0} /\ ~(reader.page > 1)
    BY DEF TypeOK
  <2>2. Query' = Query
    BY DEF Query
  <2> QED
    BY <2>1, <2>2, QuerySettled
<1>3. Covered' = 0
  BY <1>1, <1>2 DEF Covered
<1>4. Rank(x)' \in Nat \ {0}
  <2>1. last' \in Nat /\ RowsAhead(x)' \in SUBSET (1..last')
    <3>1. last' \in Nat /\ Rows' \in SUBSET (1..last')
      BY DEF TypeOK
    <3>2. RowsAhead(x)' \in SUBSET (Rows')
      BY DEF RowsAhead
    <3> QED
      BY <3>1, <3>2
  <2>2. Cardinality(RowsAhead(x)') \in Nat
    BY <2>1, IdsFinite
  <2> QED
    BY <2>2 DEF Rank, RowsAhead
<1> QED
  BY <1>3, <1>4

\* A row that is not stamped back was not ahead of more rows before.
LEMMA TouchSkipsNothing ==
  ASSUME TypeOK, NothingSkipped, NEW z \in Rows, Touch(z)
  PROVE  NothingSkipped'
<1>1. /\ TypeOK' /\ Rows' = Rows
      /\ \A y \in Rows \ {z} : table'[y] = table[y]
      /\ table'[z].stamp \in 1..clock
  BY TouchType
<1>2. /\ report' = report /\ reader' = reader
      /\ steady' \subseteq steady \ {z}
  BY DEF Touch, KeepSteady
<1>3. raised' = (raised \/ (table'[z].stamp < table[z].stamp /\ reader.page > 1))
  BY TouchType
<1>4. clock \in Nat /\ table[z].stamp \in Nat /\ table'[z].stamp \in Nat
  BY <1>1 DEF TypeOK, Row
<1>5. CASE table'[z].stamp < table[z].stamp
  BY <1>1, <1>2, <1>3, <1>5, NothingReadYet
<1>6. CASE table[z].stamp <= table'[z].stamp
  <2>1. ASSUME NEW x \in steady' PROVE RowsAhead(x) \subseteq RowsAhead(x)'
    <3>1. x \in Rows \ {z} /\ table'[x] = table[x]
      BY <1>1, <1>2, <2>1 DEF TypeOK
    <3>2. \A y \in Rows : table[y].stamp \in Nat
      BY DEF TypeOK, Row
    <3>3. ASSUME NEW y \in Rows, Ahead(table, y, x) PROVE Ahead(table, y, x)'
      <4>1. CASE y = z
        BY <1>2, <1>4, <1>6, <3>1, <3>2, <3>3, <4>1 DEF Ahead, TypeOK
      <4>2. CASE y # z
        BY <1>1, <1>2, <3>1, <3>3, <4>2 DEF Ahead
      <4> QED
        BY <4>1, <4>2
    <3> QED
      BY <1>1, <3>3 DEF RowsAhead
  <2>2. ~raised' => ~raised
    BY <1>3, Zenon
  <2> QED
    BY <1>1, <1>2, <2>1, <2>2, NothingMovesUp
<1> QED
  BY <1>4, <1>5, <1>6

LEMMA RemoveSkipsNothing ==
  ASSUME TypeOK, NEW z \in Rows, Remove(z)
  PROVE  NothingSkipped'
<1>1. TypeOK' /\ reader' = reader
  BY RemoveType DEF Remove
<1>2. reader.page > 1 => raised'
  BY Zenon DEF Remove
<1> QED
  BY <1>1, <1>2, NothingReadYet

\* A row of the first n is among whatever n rows come first, and only such
\* rows are.
LEMMA FirstByRank ==
  ASSUME TypeOK, NEW n \in Nat, NEW A \in First(n),
         NEW x \in Rows, Apart(table, x)
  PROVE  x \in A <=> Rank(x) <= n
<1>0. /\ IsFiniteSet(Rows) /\ Cardinality(Rows) \in Nat
      /\ \A S \in SUBSET Rows : IsFiniteSet(S) /\ Cardinality(S) \in Nat
  BY RowsFinite
<1>1. /\ A \in SUBSET Rows
      /\ Cardinality(A) = IF n < Cardinality(Rows) THEN n ELSE Cardinality(Rows)
      /\ \A y \in Rows \ A, z \in A : ~Ahead(table, y, z)
  BY DEF First
<1>2. RowsAhead(x) \in SUBSET Rows /\ x \notin RowsAhead(x)
  BY DEF RowsAhead, Ahead, TypeOK, Row
<1>3. /\ IsFiniteSet(RowsAhead(x)) /\ Cardinality(RowsAhead(x)) \in Nat
      /\ Rank(x) = Cardinality(RowsAhead(x)) + 1
  BY <1>0, <1>2 DEF Rank, RowsAhead
<1>4. ASSUME x \in A PROVE Rank(x) <= n
  <2>1. RowsAhead(x) \cup {x} \in SUBSET A
    BY <1>1, <1>4 DEF RowsAhead
  <2>2. Cardinality(RowsAhead(x) \cup {x}) = Cardinality(RowsAhead(x)) + 1
    BY <1>2, <1>3, FS_AddElement
  <2>3. Cardinality(RowsAhead(x) \cup {x}) <= Cardinality(A)
    BY <1>0, <1>1, <2>1, FS_Subset
  <2> QED
    BY <1>0, <1>1, <1>3, <2>2, <2>3
<1>5. ASSUME x \notin A PROVE Rank(x) > n
  <2>1. Cardinality(A) # Cardinality(Rows)
    BY <1>0, <1>1, <1>5, FS_Subset
  <2>2. Cardinality(A) = n
    BY <1>1, <2>1
  <2>3. A \in SUBSET RowsAhead(x)
    BY <1>1, <1>5 DEF Apart, RowsAhead, Rows
  <2>4. Cardinality(A) <= Cardinality(RowsAhead(x))
    BY <1>3, <2>3, FS_Subset
  <2> QED
    BY <1>3, <2>2, <2>4
<1> QED
  BY <1>3, <1>4, <1>5

\* Of the rows that no other one is equal to in the order, a page holds
\* exactly those that stand between the rows skipped and the rows asked for.
LEMMA PageByRank ==
  ASSUME TypeOK, NEW P \in Pages(Query), NEW x \in Rows, Apart(table, x)
  PROVE  x \in P <=> Covered < Rank(x) /\ Rank(x) <= Covered + Query.pageSize
<1>1. /\ Offset(Query) = Covered /\ Covered \in Nat /\ Query.pageSize \in Nat
  <2>1. reader.page - 1 \in Nat /\ Query.pageSize \in Nat
    BY QuerySettled DEF TypeOK
  <2>2. \A m, n \in Nat : m * n \in Nat
    OBVIOUS
  <2> QED
    BY <2>1, <2>2, QuerySettled DEF Covered
<1>2. PICK A \in First(Covered), B \in First(Covered + Query.pageSize) :
        A \subseteq B /\ P = B \ A
  BY <1>1 DEF Pages
<1>3. x \in A <=> Rank(x) <= Covered
  BY <1>1, FirstByRank
<1>4. x \in B <=> Rank(x) <= Covered + Query.pageSize
  BY <1>1, FirstByRank
<1>5. Rank(x) \in Nat
  BY RowsFinite DEF Rank
<1> QED
  BY <1>1, <1>2, <1>3, <1>4, <1>5

LEMMA PageSkipsNothing ==
  ASSUME TypeOK, SteadyApart, NothingSkipped, ReadPage
  PROVE  NothingSkipped'
<1> SUFFICES ASSUME ~raised', NEW x \in steady', Rank(x)' <= Covered'
             PROVE  x \in reader'.shown
  BY DEF NothingSkipped, Covered
<1>1. PICK P \in Pages(Query) :
        reader' = [reader EXCEPT
          !.step  = IF reader.page < pages(reader.total) THEN "count" ELSE "done",
          !.page  = reader.page + 1,
          !.shown = reader.shown \cup P]
  BY DEF ReadPage
<1>2. /\ reader'.page = reader.page + 1 /\ reader'.asked = reader.asked
      /\ reader'.shown = reader.shown \cup P
  BY <1>1 DEF TypeOK
<1>3. /\ report' = report /\ table' = table /\ ~raised
      /\ x \in Rows /\ Apart(table, x)
  BY DEF ReadPage, SteadyApart, TypeOK
<1>4. Rank(x)' = Rank(x) /\ Rank(x) \in Nat \ {0}
  <2>1. Rank(x)' = Rank(x)
    BY <1>3 DEF Rank, Rows, Ahead
  <2> QED
    BY <2>1, RowsFinite DEF Rank
<1>5. Query.pageSize' = Query.pageSize /\ Query.pageSize \in Nat
  <2>1. reader.page + 1 \in Int /\ reader.asked \in Int
    <3>1. reader.page \in Nat /\ reader.asked \in Asked
      BY DEF TypeOK
    <3>2. reader.page + 1 \in Int
      BY <3>1
    <3>3. reader.asked \in Int
      BY <3>1
    <3> QED
      BY <3>2, <3>3
  <2>2. Query' = bindPage(reader.page + 1, reader.asked)
    BY <1>2, <2>1, BoundQuery DEF Query
  <2>3. Query'.pageSize = bindPage(1, reader.asked).pageSize
    BY <2>2 DEF bindPage
  <2> QED
    BY <2>3, QuerySettled
<1>6. /\ Covered' = Covered + Query.pageSize /\ Covered \in Nat
  BY <1>2, <1>5 DEF Covered, TypeOK
<1>7. CASE Covered < Rank(x)
  BY <1>2, <1>3, <1>4, <1>6, <1>7, PageByRank
<1>8. CASE Rank(x) <= Covered
  <2>1. reader.page # 1
    BY <1>4, <1>5, <1>8 DEF Covered
  <2>2. x \in steady
    BY <2>1 DEF ReadPage
  <2> QED
    BY <1>2, <1>3, <1>8, <2>2 DEF NothingSkipped, Covered
<1> QED
  BY <1>4, <1>6, <1>7, <1>8

LEMMA SteadyStep ==
  ASSUME SteadyApart, [Next]_vars
  PROVE  SteadyApart'
<1> SUFFICES ASSUME NEW x \in steady' PROVE Apart(table, x)'
  BY DEF SteadyApart
<1>1. ASSUME report' = report, NEW ids, KeepSteady(ids)
      PROVE  Apart(table, x)'
  BY <1>1 DEF KeepSteady, Apart, Ahead
<1>2. ASSUME report' = report, table' = table, steady' = steady
      PROVE  Apart(table, x)'
  BY <1>2 DEF SteadyApart, Apart, Ahead
<1>3. CASE ReadPage
  BY <1>3 DEF ReadPage, SteadyApart, Apart, Ahead
<1> QED
  BY <1>1, <1>2, <1>3
  DEF Next, vars, Tick, Insert, Touch, Remove, Count, SummarizeAudits

LEMMA SkippedStep ==
  TypeOK /\ SummaryOK /\ SteadyApart /\ NothingSkipped /\ [Next]_vars
    => NothingSkipped'
<1> SUFFICES ASSUME TypeOK, SummaryOK, SteadyApart, NothingSkipped, [Next]_vars
             PROVE  NothingSkipped'
  OBVIOUS
<1>1. ASSUME report' = report, table' = table, steady' = steady,
             raised' = raised, reader'.page = reader.page,
             reader'.asked = reader.asked, reader'.shown = reader.shown
      PROVE  NothingSkipped'
  <2>1. Query' = Query
    BY <1>1 DEF Query
  <2>2. \A x \in steady : Rank(x)' = Rank(x)
    BY <1>1 DEF Rank, Rows, Ahead
  <2> QED
    BY <1>1, <2>1, <2>2 DEF NothingSkipped
<1>2. CASE Count
  <2>1. /\ reader'.page = reader.page /\ reader'.asked = reader.asked
        /\ reader'.shown = reader.shown
    BY <1>2 DEF Count, TypeOK
  <2> QED
    BY <1>1, <1>2, <2>1 DEF Count
<1>3. CASE Tick \/ SummarizeAudits \/ UNCHANGED vars
  BY <1>1, <1>3 DEF Tick, SummarizeAudits, vars
<1> QED
  BY <1>2, <1>3, InsertSkipsNothing, TouchSkipsNothing, RemoveSkipsNothing,
     PageSkipsNothing DEF Next

\* Reading page by page skips no row that was left alone meanwhile, whatever
\* comes in, is updated or is read by others between two pages, as long as
\* nothing is deleted or stamped back and the order tells the row from every
\* other one.
THEOREM NothingLeftAloneSkipped == Spec => []NothingSkipped
<1>1. Init => SteadyApart /\ NothingSkipped
  BY DEF Init, SteadyApart, NothingSkipped
<1> QED
  BY <1>1, TypeInit, TypeStep, SteadyStep, SkippedStep, PTL DEF Spec

-----------------------------------------------------------------------------
(* The audit summary *)

\* The parts put together in s, with so many entries and transitions in the
\* window by now: each counts at least what those before it counted and at
\* most what the window holds, and while that is no more than the total,
\* nothing has come in.
PartsOK(s, entries, transitions) ==
  /\ s.step # "total" => /\ "total" \in DOMAIN s
                         /\ s.total \in 0..entries
  /\ s.step \notin {"total", "transitions"} =>
       /\ "transitions" \in DOMAIN s
       /\ s.transitions \in 0..transitions
       /\ s.total = entries => s.transitions = transitions
  /\ s.step \in {"actions", "entities", "done"} =>
       /\ "uniqueActors" \in DOMAIN s
       /\ s.uniqueActors \in 0..entries
       /\ s.total > 0 => s.uniqueActors > 0
  /\ s.step \in {"entities", "done"} =>
       /\ "actions" \in DOMAIN s
       /\ Sum(s.actions) \in s.total..entries
       /\ s.uniqueActors <= Sum(s.actions)
       /\ TransitionsIn(s.actions) \in Nat
       /\ s.transitions <= TransitionsIn(s.actions)
       /\ s.total = Sum(s.actions) => s.transitions = TransitionsIn(s.actions)
  /\ s.step = "done" =>
       /\ "entityTypes" \in DOMAIN s
       /\ Sum(s.entityTypes) \in Nat
       /\ Sum(s.actions) <= Sum(s.entityTypes)

SummarySoFar ==
  /\ summary.step # "total" => report = "summary"
  /\ PartsOK(summary, Cardinality(InWindow), Cardinality(Transitions))

\* Every entry of the window is counted in exactly one group.
LEMMA GroupsAddUp ==
  ASSUME TypeOK, NEW field
  PROVE  Sum(GroupBy(field)) = Cardinality(InWindow)
<1> DEFINE Group(v) == {x \in InWindow : table[x].entry[field] = v}
           V == {table[x].entry[field] : x \in InWindow}
           counts == GroupBy(field)
<1>1. InWindow \in SUBSET Rows /\ IsFiniteSet(InWindow)
  BY RowsFinite DEF InWindow
<1>2. DOMAIN counts = V /\ \A v \in V : counts[v] = Cardinality(Group(v))
  BY DEF GroupBy
<1>3. ASSUME NEW v \in V
      PROVE  \E b : b \in Bijection(1..counts[v], Group(v))
  <2>1. IsFiniteSet(Group(v))
    BY <1>1, RowsFinite
  <2>2. ExistsBijection(1..Cardinality(Group(v)), Group(v))
    BY <2>1, FS_CardinalityType
  <2> QED
    BY <1>2, <2>2 DEF ExistsBijection
<1> DEFINE h == [v \in V |-> CHOOSE b : b \in Bijection(1..counts[v], Group(v))]
<1>4. ASSUME NEW v \in V
      PROVE  /\ h[v] \in [1..counts[v] -> Group(v)]
             /\ \A i, j \in 1..counts[v] : h[v][i] = h[v][j] => i = j
             /\ \A x \in Group(v) : \E i \in 1..counts[v] : h[v][i] = x
  <2>1. h[v] \in Bijection(1..counts[v], Group(v))
    BY <1>3
  <2> HIDE DEF h, counts, V, Group
  <2> QED
    BY <2>1 DEF Bijection, Injection, Surjection, IsInjective
<1>5. Points(counts) = UNION {{v} \X (1..counts[v]) : v \in V}
  BY <1>2 DEF Points
<1>6. \A x \in InWindow : table[x].entry[field] \in V /\ x \in Group(table[x].entry[field])
  OBVIOUS
<1>7. \A v \in V : \A x \in Group(v) : x \in InWindow /\ table[x].entry[field] = v
  OBVIOUS
<1> DEFINE f == [p \in Points(counts) |-> h[p[1]][p[2]]]
<1> HIDE DEF h, counts, V, Group
<1>8. ASSUME NEW p \in Points(counts)
      PROVE  /\ p = <<p[1], p[2]>> /\ p[1] \in V /\ p[2] \in 1..counts[p[1]]
             /\ f[p] = h[p[1]][p[2]] /\ f[p] \in Group(p[1])
  <2>1. PICK v \in V : p \in {v} \X (1..counts[v])
    BY <1>5
  <2>2. p = <<p[1], p[2]>> /\ p[1] = v /\ p[2] \in 1..counts[v]
    BY <2>1
  <2>3. f[p] = h[p[1]][p[2]]
    OBVIOUS
  <2> HIDE DEF f
  <2>4. f[p] \in Group(v)
    <3>1. \A i \in 1..counts[v] : h[v][i] \in Group(v)
      BY <1>4
    <3>2. p[2] \in 1..counts[v] /\ f[p] = h[v][p[2]]
      BY <2>2, <2>3
    <3> QED
      BY <3>1, <3>2
  <2> QED
    BY <2>2, <2>3, <2>4
<1>9. f \in [Points(counts) -> InWindow]
  BY <1>7, <1>8
<1>10. ASSUME NEW p \in Points(counts), NEW q \in Points(counts), f[p] = f[q]
       PROVE  p = q
  <2>1. p[1] = q[1]
    BY <1>7, <1>8, <1>10
  <2>2. p[2] = q[2]
    <3> HIDE DEF f
    <3> DEFINE v == p[1]
    <3>1. v \in V /\ p[2] \in 1..counts[v] /\ f[p] = h[v][p[2]]
      BY <1>8
    <3>2. q[2] \in 1..counts[v] /\ f[q] = h[v][q[2]]
      BY <1>8, <2>1
    <3>3. \A i, j \in 1..counts[v] : h[v][i] = h[v][j] => i = j
      BY <1>4, <3>1
    <3>4. h[v][p[2]] = h[v][q[2]]
      BY <1>10, <3>1, <3>2
    <3> HIDE DEF v
    <3> QED
      BY <3>1, <3>2, <3>3, <3>4
  <2> QED
    BY <1>8, <2>1, <2>2
<1>11. ASSUME NEW x \in InWindow PROVE \E p \in Points(counts) : f[p] = x
  <2>1. PICK v \in V : x \in Group(v)
    BY <1>6
  <2>2. PICK i \in 1..counts[v] : h[v][i] = x
    BY <1>4, <2>1
  <2>3. <<v, i>> \in Points(counts)
    BY <1>5
  <2> QED
    BY <2>2, <2>3
<1> HIDE DEF f
<1>12. f \in Bijection(Points(counts), InWindow)
  BY <1>9, <1>10, <1>11 DEF Bijection, Injection, Surjection, IsInjective
<1>13. ExistsBijection(InWindow, Points(counts))
  BY <1>12, Fun_ExistsBijSymmetric DEF ExistsBijection
<1>14. Cardinality(Points(counts)) = Cardinality(InWindow)
  BY <1>1, <1>13, FS_Bijection
<1> QED
  BY <1>14 DEF Sum, counts

\* There are no more groups than entries, and some if there is an entry.
LEMMA FewGroups ==
  ASSUME TypeOK, NEW field
  PROVE  /\ Cardinality(DOMAIN GroupBy(field)) \in 0..Cardinality(InWindow)
         /\ InWindow # {} => Cardinality(DOMAIN GroupBy(field)) > 0
<1> DEFINE V == DOMAIN GroupBy(field)
<1>1. IsFiniteSet(InWindow) /\ Cardinality(InWindow) \in Nat
  BY RowsFinite DEF InWindow
<1>2. V = {table[x].entry[field] : x \in InWindow}
  BY DEF GroupBy
<1> DEFINE f == [x \in InWindow |-> table[x].entry[field]]
<1>3. f \in Surjection(InWindow, V)
  BY <1>2 DEF Surjection
<1> HIDE DEF f
<1>4. IsFiniteSet(V) /\ Cardinality(V) <= Cardinality(InWindow)
  BY <1>1, <1>3, FS_Surjection
<1>5. Cardinality(V) \in Nat
  BY <1>4, FS_CardinalityType
<1>6. InWindow # {} => V # {}
  BY <1>2
<1>7. V # {} => Cardinality(V) # 0
  BY <1>4, FS_EmptySet
<1> QED
  BY <1>1, <1>4, <1>5, <1>6, <1>7

\* The transitions of the window are the group of that name.
LEMMA TransitionsGrouped ==
  ASSUME TypeOK
  PROVE  TransitionsIn(GroupBy("action")) = Cardinality(Transitions)
<1>1. CASE \E x \in InWindow : table[x].entry["action"] = "transition"
  BY <1>1 DEF TransitionsIn, GroupBy, Transitions
<1>2. CASE ~\E x \in InWindow : table[x].entry["action"] = "transition"
  <2>1. Transitions = {} /\ "transition" \notin DOMAIN GroupBy("action")
    BY <1>2 DEF Transitions, GroupBy
  <2> QED
    BY <2>1, FS_EmptySet DEF TransitionsIn
<1> QED
  BY <1>1, <1>2

\* Entries come into the window and never leave it, and one that comes in
\* makes it larger.
LEMMA WindowGrows ==
  ASSUME TypeOK, Insert
  PROVE  /\ Cardinality(InWindow) \in Nat /\ Cardinality(InWindow)' \in Nat
         /\ Cardinality(InWindow) <= Cardinality(InWindow)'
         /\ Cardinality(Transitions) \in Nat /\ Cardinality(Transitions)' \in Nat
         /\ Cardinality(Transitions) <= Cardinality(Transitions)'
         /\ Cardinality(InWindow) = Cardinality(InWindow)' =>
              Cardinality(Transitions) = Cardinality(Transitions)'
<1>1. /\ last' \in Nat /\ Rows' \in SUBSET (1..last')
      /\ Rows' = Rows \cup {last'} /\ last' \notin Rows
      /\ \A x \in Rows : table'[x] = table[x]
  BY InsertType DEF TypeOK
<1>2. /\ InWindow \in SUBSET (InWindow') /\ InWindow' \in SUBSET (Rows')
      /\ Transitions \in SUBSET (Transitions')
      /\ Transitions' \in SUBSET (Rows')
  BY <1>1 DEF InWindow, Transitions
<1>3. /\ IsFiniteSet(InWindow') /\ Cardinality(InWindow') \in Nat
      /\ IsFiniteSet(Transitions') /\ Cardinality(Transitions') \in Nat
  <2>1. InWindow' \in SUBSET (1..last') /\ Transitions' \in SUBSET (1..last')
    BY <1>1, <1>2
  <2> QED
    BY <1>1, <2>1, IdsFinite
<1>4. /\ IsFiniteSet(InWindow) /\ Cardinality(InWindow) <= Cardinality(InWindow')
      /\ Cardinality(InWindow') = Cardinality(InWindow) => InWindow' = InWindow
  BY <1>2, <1>3, FS_Subset
<1>5. /\ IsFiniteSet(Transitions)
      /\ Cardinality(Transitions) <= Cardinality(Transitions')
  BY <1>2, <1>3, FS_Subset
<1>6. Cardinality(InWindow) \in Nat /\ Cardinality(Transitions) \in Nat
  BY <1>4, <1>5, FS_CardinalityType
<1>7. ASSUME InWindow' = InWindow PROVE Transitions' = Transitions
  BY <1>1, <1>7 DEF Transitions, InWindow
<1> QED
  BY <1>3, <1>4, <1>5, <1>6, <1>7

\* What was counted stays right while entries come in.
LEMMA PartsKept ==
  ASSUME NEW s, NEW entries \in Nat, NEW later \in Nat, entries <= later,
         NEW moves \in Nat, NEW then \in Nat, moves <= then,
         entries = later => moves = then, PartsOK(s, entries, moves)
  PROVE  PartsOK(s, later, then)
<1>1. ASSUME s.step # "total"
      PROVE  /\ "total" \in DOMAIN s
             /\ s.total \in 0..entries /\ s.total \in 0..later
  BY <1>1 DEF PartsOK
<1>2. ASSUME s.step \notin {"total", "transitions"}
      PROVE  /\ "transitions" \in DOMAIN s /\ s.transitions \in 0..then
             /\ s.total = later => s.transitions = then
  <2>1. /\ "transitions" \in DOMAIN s /\ s.transitions \in 0..moves
        /\ s.total = entries => s.transitions = moves
    BY <1>2 DEF PartsOK
  <2> QED
    BY <1>1, <1>2, <2>1
<1>3. ASSUME s.step \in {"actions", "entities", "done"}
      PROVE  /\ "uniqueActors" \in DOMAIN s /\ s.uniqueActors \in 0..later
             /\ s.total > 0 => s.uniqueActors > 0
  BY <1>3 DEF PartsOK
<1>4. ASSUME s.step \in {"entities", "done"}
      PROVE  Sum(s.actions) \in s.total..later
  <2>1. Sum(s.actions) \in s.total..entries
    BY <1>4 DEF PartsOK
  <2> QED
    BY <1>1, <1>4, <2>1
<1> QED
  BY <1>1, <1>2, <1>3, <1>4 DEF PartsOK

LEMMA InsertKeepsSummary ==
  ASSUME TypeOK, SummarySoFar, Insert
  PROVE  SummarySoFar'
<1>1. PICK s, entries, later, moves, then :
        /\ s = summary
        /\ entries = Cardinality(InWindow) /\ later = Cardinality(InWindow)'
        /\ moves = Cardinality(Transitions) /\ then = Cardinality(Transitions)'
  OBVIOUS
<1>2. PartsOK(s, entries, moves)
  BY <1>1 DEF SummarySoFar
<1>3. PartsOK(s, later, then)
  BY <1>1, <1>2, WindowGrows, PartsKept
<1>4. report' = report /\ summary' = s
  BY <1>1 DEF Insert
<1> QED
  BY <1>1, <1>3, <1>4 DEF SummarySoFar

\* Records are read by another report.
LEMMA NoSummaryYet ==
  ASSUME SummarySoFar, report # "summary", summary' = summary
  PROVE  SummarySoFar'
  BY DEF SummarySoFar, PartsOK

\* A query adds its field, and leaves the others.
Adds(s, t, field, value, then) ==
  /\ DOMAIN t = DOMAIN s \cup {field}
  /\ t.step = then /\ t[field] = value
  /\ \A f \in DOMAIN s \ {"step", field} : t[f] = s[f]

LEMMA QueryAdds ==
  ASSUME SummaryOK, SummaryQuery
  PROVE  \/ /\ summary.step = "total"
            /\ Adds(summary, summary', "total", Cardinality(InWindow), "transitions")
         \/ /\ summary.step = "transitions"
            /\ Adds(summary, summary', "transitions", Cardinality(Transitions),
                    "actors")
         \/ /\ summary.step = "actors"
            /\ Adds(summary, summary', "uniqueActors",
                    Cardinality(DOMAIN GroupBy("actor")), "actions")
         \/ /\ summary.step = "actions"
            /\ Adds(summary, summary', "actions", GroupBy("action"), "entities")
         \/ /\ summary.step = "entities"
            /\ Adds(summary, summary', "entityTypes", GroupBy("entityType"), "done")
<1>1. ASSUME NEW field, field # "step", NEW value, NEW then,
             summary' = [f \in DOMAIN summary \cup {field} |->
                           CASE f = "step" -> then
                             [] f = field  -> value
                             [] OTHER      -> summary[f]]
      PROVE  Adds(summary, summary', field, value, then)
  BY <1>1 DEF SummaryOK, Adds
<1> QED
  BY <1>1 DEF SummaryQuery

LEMMA QueryKeepsSummary ==
  ASSUME TypeOK, SummaryOK, SummarySoFar, SummarizeAudits
  PROVE  SummarySoFar'
<1>1. PICK s, t, entries, moves :
        /\ s = summary /\ t = summary'
        /\ entries = Cardinality(InWindow) /\ moves = Cardinality(Transitions)
  OBVIOUS
<1>2. /\ InWindow' = InWindow /\ Transitions' = Transitions
      /\ report' = report /\ report = "summary"
  BY DEF SummarizeAudits, InWindow, Transitions, Rows
<1>3. /\ InWindow \in SUBSET Rows /\ Transitions \in SUBSET InWindow
      /\ IsFiniteSet(InWindow) /\ IsFiniteSet(Transitions)
      /\ entries \in Nat /\ moves \in Nat
  BY <1>1, RowsFinite DEF InWindow, Transitions
<1>4. PartsOK(s, entries, moves)
  BY <1>1 DEF SummarySoFar
<1>5. CASE s.step = "total" /\ Adds(s, t, "total", entries, "transitions")
  <2>1. PartsOK(t, entries, moves)
    BY <1>3, <1>5 DEF PartsOK, Adds
  <2> QED
    BY <1>1, <1>2, <2>1 DEF SummarySoFar
<1>6. CASE s.step = "transitions" /\ Adds(s, t, "transitions", moves, "actors")
  <2>1. PartsOK(t, entries, moves)
    BY <1>3, <1>4, <1>6 DEF PartsOK, Adds
  <2> QED
    BY <1>1, <1>2, <2>1 DEF SummarySoFar
<1>7. ASSUME NEW actors, actors = Cardinality(DOMAIN GroupBy("actor")),
             s.step = "actors", Adds(s, t, "uniqueActors", actors, "actions")
      PROVE  SummarySoFar'
  <2>1. actors \in 0..entries
    BY <1>1, <1>7, FewGroups
  <2>2. entries > 0 => actors > 0
    <3>1. entries > 0 => InWindow # {}
      BY <1>1, FS_EmptySet
    <3> QED
      BY <1>7, <3>1, FewGroups
  <2>3. PartsOK(t, entries, moves)
    BY <1>3, <1>4, <1>7, <2>1, <2>2 DEF PartsOK, Adds
  <2> QED
    BY <1>1, <1>2, <2>3 DEF SummarySoFar
<1>8. ASSUME NEW counts, counts = GroupBy("action"),
             s.step = "actions", Adds(s, t, "actions", counts, "entities")
      PROVE  SummarySoFar'
  <2>1. Sum(counts) = entries /\ TransitionsIn(counts) = moves
    BY <1>1, <1>8, GroupsAddUp, TransitionsGrouped
  <2>2. PartsOK(t, entries, moves)
    BY <1>3, <1>4, <1>8, <2>1 DEF PartsOK, Adds
  <2> QED
    BY <1>1, <1>2, <2>2 DEF SummarySoFar
<1>9. ASSUME NEW counts, counts = GroupBy("entityType"),
             s.step = "entities", Adds(s, t, "entityTypes", counts, "done")
      PROVE  SummarySoFar'
  <2>1. Sum(counts) = entries
    BY <1>1, <1>9, GroupsAddUp
  <2>2. PartsOK(t, entries, moves)
    BY <1>3, <1>4, <1>9, <2>1 DEF PartsOK, Adds
  <2> QED
    BY <1>1, <1>2, <2>2 DEF SummarySoFar
<1> QED
  BY <1>1, <1>5, <1>6, <1>7, <1>8, <1>9, QueryAdds DEF SummarizeAudits

LEMMA SummaryStep ==
  TypeOK /\ SummaryOK /\ SummarySoFar /\ [Next]_vars => SummarySoFar'
<1> SUFFICES ASSUME TypeOK, SummaryOK, SummarySoFar, [Next]_vars
             PROVE  SummarySoFar'
  OBVIOUS
<1>1. ASSUME report' = report, table' = table, summary' = summary
      PROVE  SummarySoFar'
  <2>1. InWindow' = InWindow /\ Transitions' = Transitions
    BY <1>1 DEF InWindow, Transitions, Rows
  <2> QED
    BY <1>1, <2>1 DEF SummarySoFar
<1>2. ASSUME NEW x \in Rows, Touch(x) \/ Remove(x) PROVE SummarySoFar'
  BY <1>2, NoSummaryYet DEF Touch, Remove
<1>3. CASE Tick \/ Count \/ ReadPage \/ UNCHANGED vars
  BY <1>1, <1>3 DEF Tick, Count, ReadPage, vars
<1> QED
  BY <1>2, <1>3, InsertKeepsSummary, QueryKeepsSummary DEF Next

\* The parts of an audit summary differ only by entries that came in between
\* its five queries: each counts at least what the parts before it counted,
\* and if the last part adds up to the total of the first, all of them agree.
THEOREM SummariesAddUp == Spec => []SummaryAddsUp
<1>1. Init => SummarySoFar
  BY DEF Init, NoSummary, SummarySoFar, PartsOK
<1>2. SummarySoFar /\ TypeOK => SummaryAddsUp
  <2> SUFFICES ASSUME SummarySoFar, TypeOK, summary.step = "done"
               PROVE  LET byAction == Sum(summary.actions)
                          byType   == Sum(summary.entityTypes)
                      IN /\ summary.total <= byAction
                         /\ byAction <= byType
                         /\ summary.transitions <= TransitionsIn(summary.actions)
                         /\ summary.total > 0 =>
                              summary.uniqueActors \in 1..byAction
                         /\ summary.total = byType =>
                              /\ summary.total = byAction
                              /\ summary.transitions =
                                   TransitionsIn(summary.actions)
    BY DEF SummaryAddsUp
  <2>1. PICK entries, moves :
          /\ entries = Cardinality(InWindow) /\ moves = Cardinality(Transitions)
    OBVIOUS
  <2>2. PartsOK(summary, entries, moves) /\ entries \in Nat
    BY <2>1, RowsFinite DEF SummarySoFar, InWindow
  <2> QED
    BY <2>2 DEF PartsOK
<1> QED
  BY <1>1, <1>2, TypeInit, TypeStep, SummaryStep, PTL DEF Spec

=============================================================================
