--------------------------- MODULE StartupProofs ---------------------------
(***************************************************************************)
(* Theorems about Startup, for any number of instances, tables, codes,     *)
(* crashes and outages.                                                    *)
(***************************************************************************)
EXTENDS Startup, TLAPS

USE StartupAssumptions

Seeded(t) == \E c \in Codes : Stored(t, c)

\* What an instance may count on where it is: the users from the first table
\* on, and records in the tables it has left behind, whoever inserted them.
SeedingOf(i) ==
  /\ pc[i] \in {"count", "insert"} =>
       users /\ \A t \in Tables : t < table[i] => Seeded(t)
  /\ pc[i] \in {"ping", "serving"} =>
       users /\ \A t \in Tables : Seeded(t)

SeedingOK == \A i \in Instances : SeedingOf(i)

\* An instance has seen the index of every table it has left behind, and those
\* of all of them before it counts or inserts anything.
IndexedOf(i) ==
  /\ pc[i] \in {"migrate", "create", "look for index", "index"} =>
       table[i] <= indexed
  /\ pc[i] \in {"count users", "insert users", "count", "insert", "ping",
                "serving"} => indexed = Decisions + 1

IndexedOK == \A i \in Instances : IndexedOf(i)

\* The part of the type that says where instances are.
ControlType ==
  /\ pc \in [Instances -> {"down", "connect", "migrate", "create",
                           "look for index", "index", "count users",
                           "insert users", "count", "insert", "ping", "serving"}]
  /\ table \in [Instances -> Tables \cup {0}]

Statement(i) ==
  \/ LookForTable(i) \/ CreateTable(i) \/ LookForIndex(i) \/ CreateIndex(i)
  \/ CountUsers(i) \/ InsertUsers(i) \/ CountTable(i) \/ InsertTable(i)

Other(i) ==
  Start(i) \/ Connect(i) \/ PingRedis(i) \/ StatementFails(i) \/ Crash(i)

-----------------------------------------------------------------------------
(* Steps *)

\* Every step is one of these.
LEMMA StepCases ==
  ASSUME [Next]_vars
  PROVE  \/ \E i \in Instances : Statement(i) \/ Other(i)
         \/ Outage \/ Recover
         \/ \E t \in Tables, c \in Codes : Add(t, c) \/ Delete(t, c)
         \/ UNCHANGED vars
  BY DEF Next, Step, Over, Statement, Other

\* Where an instance goes when it is done with a table.
LEMMA SeedTableType ==
  ASSUME TypeOK, NEW i \in Instances, NEW t \in Nat, SeedTable(i, t)
  PROVE  ControlType'
  BY DEF TypeOK, ControlType, SeedTable, Goto

LEMMA MigrateTableType ==
  ASSUME TypeOK, NEW i \in Instances, NEW t \in Nat, MigrateTable(i, t)
  PROVE  ControlType'
  BY DEF TypeOK, ControlType, MigrateTable, Goto

LEMMA TableIsNat ==
  ASSUME TypeOK, NEW i \in Instances
  PROVE  table[i] \in 0..Decisions
<1>1. table[i] \in Tables \cup {0}
  BY DEF TypeOK
<1> QED
  BY <1>1 DEF Tables

LEMMA NumbersType ==
  ASSUME TypeOK
  PROVE  /\ created \in 0..(Decisions + 1)
         /\ indexed \in 0..(Decisions + 1)
         /\ attempts \in [Instances -> 0..Attempts]
         /\ crashes \in 0..Crashes
  BY DEF TypeOK

\* A crash or outage more, within the bound.
LEMMA OneMoreCrash ==
  ASSUME TypeOK, crashes < Crashes, crashes' = crashes + 1
  PROVE  crashes' \in 0..Crashes
<1>1. crashes \in 0..Crashes
  BY NumbersType
<1> QED
  BY <1>1

\* Filling a table with the seeds.
LEMMA FilledType ==
  ASSUME TypeOK, NEW t
  PROVE  Filled(t) \in [Tables -> [Codes -> {"absent", "live", "deleted"}]]
  BY DEF TypeOK, Filled

LEMMA TypeInit == Init => TypeOK
<1> SUFFICES ASSUME Init PROVE TypeOK
  OBVIOUS
<1>1. created \in 0..(Decisions + 1) /\ indexed \in 0..(Decisions + 1)
  BY DEF Init
<1>2. attempts \in [Instances -> 0..Attempts] /\ crashes \in 0..Crashes
  BY DEF Init
<1>3. table \in [Instances -> Tables \cup {0}]
  BY DEF Init
<1>4. records \in [Tables -> [Codes -> {"absent", "live", "deleted"}]]
  BY DEF Init
<1> QED
  BY <1>1, <1>2, <1>3, <1>4 DEF Init, TypeOK

LEMMA TypeStatement ==
  ASSUME TypeOK, NEW i \in Instances, Statement(i)
  PROVE  TypeOK'
<1>1. table[i] \in 0..Decisions /\ table[i] + 1 \in Nat
  BY TableIsNat
<1>2. CASE LookForTable(i)
  BY <1>2 DEF LookForTable, Goto, TypeOK, data, schema
<1>3. CASE CreateTable(i)
  <2>1. created' \in 0..(Decisions + 1)
    <3>1. created \in 0..(Decisions + 1)
      BY NumbersType
    <3>2. created' = created \/ created' = table[i] + 1
      BY <1>3 DEF CreateTable
    <3> QED
      BY <1>1, <3>1, <3>2
  <2> QED
    BY <1>3, <2>1 DEF CreateTable, Goto, TypeOK, data
<1>8. CASE LookForIndex(i)
  BY <1>1, <1>8, MigrateTableType
  DEF LookForIndex, Goto, TypeOK, ControlType, data, schema
<1>9. CASE CreateIndex(i)
  <2>1. indexed' \in 0..(Decisions + 1)
    <3>1. indexed \in 0..(Decisions + 1)
      BY NumbersType
    <3>2. indexed' = indexed \/ indexed' = table[i] + 1
      BY <1>9 DEF CreateIndex
    <3> QED
      BY <1>1, <3>1, <3>2
  <2>2. ControlType'
    BY <1>1, <1>9, MigrateTableType DEF CreateIndex, Goto, TypeOK, ControlType
  <2> QED
    BY <1>9, <2>1, <2>2 DEF CreateIndex, TypeOK, ControlType, data
<1>4. CASE CountUsers(i)
  BY <1>4, SeedTableType DEF CountUsers, Goto, TypeOK, ControlType, data, schema
<1>5. CASE InsertUsers(i)
  BY <1>5, SeedTableType DEF InsertUsers, Goto, TypeOK, ControlType, schema
<1>6. CASE CountTable(i)
  BY <1>1, <1>6, SeedTableType DEF CountTable, Goto, TypeOK, ControlType, data,
                                schema
<1>7. CASE InsertTable(i)
  <2>1. /\ up' = up /\ schema' = schema /\ users' = users
        /\ attempts' = attempts /\ crashes' = crashes
    BY <1>7 DEF InsertTable
  <2>2. /\ records' \in [Tables -> [Codes -> {"absent", "live", "deleted"}]]
        /\ revised' \subseteq Codes
    BY <1>7, FilledType DEF InsertTable, TypeOK, Codes
  <2>3. ControlType'
    BY <1>1, <1>7, SeedTableType DEF InsertTable, Goto, TypeOK, ControlType
  <2> QED
    BY <2>1, <2>2, <2>3 DEF TypeOK, ControlType, schema
<1> QED
  BY <1>2, <1>3, <1>4, <1>5, <1>6, <1>7, <1>8, <1>9 DEF Statement

LEMMA TypeOther ==
  ASSUME TypeOK, NEW i \in Instances, Other(i)
  PROVE  TypeOK'
<1>1. CASE Start(i)
  BY <1>1 DEF Start, Goto, TypeOK, data, schema
<1>2. CASE Connect(i)
  <2>1. attempts' \in [Instances -> 0..Attempts]
    <3>1. attempts \in [Instances -> 0..Attempts]
      BY NumbersType
    <3>2. \/ attempts' = [attempts EXCEPT ![i] = 0]
          \/ /\ attempts[i] < Attempts
             /\ attempts' = [attempts EXCEPT ![i] = attempts[i] + 1]
      BY <1>2 DEF Connect
    <3> QED
      BY <3>1, <3>2
  <2>2. ControlType'
    BY <1>2, MigrateTableType DEF Connect, Goto, TypeOK, ControlType
  <2> QED
    BY <1>2, <2>1, <2>2 DEF Connect, TypeOK, ControlType, data, schema
<1>3. CASE PingRedis(i)
  BY <1>3 DEF PingRedis, Goto, TypeOK, data, schema
<1>4. CASE StatementFails(i)
  BY <1>4 DEF StatementFails, Goto, TypeOK, data, schema
<1>5. CASE Crash(i)
  <2>1. crashes' \in 0..Crashes
    BY <1>5, OneMoreCrash DEF Crash
  <2>2. attempts' \in [Instances -> 0..Attempts]
    BY <1>5, NumbersType DEF Crash
  <2> QED
    BY <1>5, <2>1, <2>2 DEF Crash, Goto, TypeOK, data, schema
<1> QED
  BY <1>1, <1>2, <1>3, <1>4, <1>5 DEF Other

LEMMA TypeNext == TypeOK /\ [Next]_vars => TypeOK'
<1> SUFFICES ASSUME TypeOK, [Next]_vars PROVE TypeOK'
  OBVIOUS
<1>1. CASE Outage
  <2>1. crashes' \in 0..Crashes
    BY <1>1, OneMoreCrash DEF Outage
  <2> QED
    BY <1>1, <2>1 DEF Outage, TypeOK, data, schema
<1>2. CASE Recover
  BY <1>2 DEF Recover, TypeOK, data, schema
<1>3. ASSUME NEW t \in Tables, NEW c \in Codes, Add(t, c) PROVE TypeOK'
  BY <1>3 DEF Add, TypeOK, schema
<1>4. ASSUME NEW t \in Tables, NEW c \in Codes, Delete(t, c) PROVE TypeOK'
  BY <1>4 DEF Delete, TypeOK, schema
<1>5. CASE UNCHANGED vars
  BY <1>5 DEF vars, data, schema, TypeOK
<1> QED
  BY <1>1, <1>2, <1>3, <1>4, <1>5, StepCases, TypeStatement, TypeOther

\* Every variable has its type.
THEOREM StartupTypeCorrect == Spec => []TypeOK
  BY TypeInit, TypeNext, PTL DEF Spec

-----------------------------------------------------------------------------
(* Indexes *)

\* A step of one instance does not move another one.
LEMMA OthersStay ==
  ASSUME TypeOK, NEW i \in Instances, Statement(i) \/ Other(i),
         NEW j \in Instances \ {i}
  PROVE  pc'[j] = pc[j] /\ table'[j] = table[j]
<1>1. CASE Statement(i)
  BY <1>1 DEF TypeOK, Statement, LookForTable, CreateTable, LookForIndex,
     CreateIndex, CountUsers, InsertUsers, CountTable, InsertTable, Goto,
     SeedTable, MigrateTable
<1>2. CASE Other(i)
  BY <1>2 DEF TypeOK, Other, Start, Connect, PingRedis, StatementFails, Crash,
     Goto, MigrateTable
<1> QED
  BY <1>1, <1>2

\* Where an instance goes when it is done with the indexes before table t.
LEMMA MigrateTableIndexed ==
  ASSUME TypeOK, TypeOK', NEW i \in Instances, NEW t \in Nat,
         MigrateTable(i, t), t <= indexed'
  PROVE  IndexedOf(i)'
<1>1. indexed' \in 0..(Decisions + 1)
  BY DEF TypeOK
<1>2. CASE t \in Tables \cup {0}
  BY <1>2 DEF TypeOK, MigrateTable, IndexedOf
<1>3. CASE t \notin Tables \cup {0}
  <2>1. t = Decisions + 1 /\ indexed' = Decisions + 1
    BY <1>1, <1>3 DEF Tables
  <2>2. pc'[i] = "count users"
    BY <1>3 DEF TypeOK, MigrateTable, Goto
  <2> QED
    BY <2>1, <2>2 DEF IndexedOf
<1> QED
  BY <1>2, <1>3

\* No step but the creation of an index changes their number.
LEMMA IndexesLast ==
  ASSUME TypeOK, TypeOK', [Next]_vars
  PROVE  /\ indexed \in 0..(Decisions + 1) /\ indexed' \in 0..(Decisions + 1)
         /\ indexed <= indexed'
<1>1. /\ indexed \in 0..(Decisions + 1)
      /\ \A i \in Instances : table[i] \in 0..Decisions
  BY NumbersType, TableIsNat
<1>2. ASSUME NEW i \in Instances, CreateIndex(i) PROVE indexed <= indexed'
  BY <1>1, <1>2 DEF CreateIndex
<1>3. \/ \E i \in Instances : CreateIndex(i)
      \/ indexed' = indexed
  BY StepCases DEF Statement, Other, LookForTable, CreateTable, LookForIndex,
     CountUsers, InsertUsers, CountTable, InsertTable, Start, Connect,
     PingRedis, StatementFails, Crash, Outage, Recover, Add, Delete, vars, schema
<1>4. indexed' \in 0..(Decisions + 1)
  BY DEF TypeOK
<1> QED
  BY <1>1, <1>2, <1>3, <1>4

\* An instance that stays where it is may count on the indexes it has seen.
LEMMA IndexedStays ==
  ASSUME TypeOK, TypeOK', [Next]_vars, NEW i \in Instances, IndexedOf(i),
         pc'[i] = pc[i], table'[i] = table[i]
  PROVE  IndexedOf(i)'
<1>1. /\ table[i] \in 0..Decisions /\ indexed <= indexed'
      /\ indexed \in 0..(Decisions + 1) /\ indexed' \in 0..(Decisions + 1)
  BY TableIsNat, IndexesLast
<1>2. /\ table[i] <= indexed => table'[i] <= indexed'
      /\ indexed = Decisions + 1 => indexed' = Decisions + 1
  BY <1>1
<1> QED
  BY <1>2, Zenon DEF IndexedOf

LEMMA IndexedStatement ==
  ASSUME TypeOK, TypeOK', IndexedOK, [Next]_vars, NEW i \in Instances,
         Statement(i) \/ Other(i)
  PROVE  IndexedOf(i)'
<1>1. /\ table[i] \in 0..Decisions /\ table[i] + 1 \in Nat
      /\ indexed \in 0..(Decisions + 1) /\ indexed' \in 0..(Decisions + 1)
      /\ indexed <= indexed'
  BY TableIsNat, IndexesLast
<1>0. IndexedOf(i)
  BY DEF IndexedOK
<1>a. ASSUME table[i] <= indexed PROVE table[i] <= indexed'
  BY <1>1, <1>a
<1>2. CASE LookForTable(i) \/ CreateTable(i)
  <2>0. pc[i] \in {"migrate", "create"}
    BY <1>2, Zenon DEF LookForTable, CreateTable
  <2>1. table[i] <= indexed'
    BY <1>0, <1>a, <2>0, Zenon DEF IndexedOf
  <2>2. /\ table'[i] = table[i]
        /\ pc'[i] \in {"create", "look for index", "index", "down"}
    BY <1>2 DEF TypeOK, LookForTable, CreateTable, Goto
  <2> QED
    BY <2>1, <2>2 DEF IndexedOf
<1>3. CASE LookForIndex(i)
  <2>1. CASE table[i] < indexed /\ MigrateTable(i, table[i] + 1)
    BY <1>1, <2>1, MigrateTableIndexed
  <2>2. CASE Goto(i, "index")
    <3>1. pc[i] = "look for index"
      BY <1>3 DEF LookForIndex
    <3>2. table[i] <= indexed'
      BY <1>0, <1>a, <3>1, Zenon DEF IndexedOf
    <3>3. table'[i] = table[i] /\ pc'[i] = "index"
      BY <2>2 DEF TypeOK, Goto
    <3> QED
      BY <3>2, <3>3 DEF IndexedOf
  <2> QED
    BY <1>3, <2>1, <2>2 DEF LookForIndex
<1>4. CASE CreateIndex(i)
  <2>1. table[i] + 1 <= indexed'
    BY <1>1, <1>4 DEF CreateIndex
  <2>2. CASE Goto(i, "down")
    BY <2>2 DEF TypeOK, Goto, IndexedOf
  <2> QED
    BY <1>1, <1>4, <2>1, <2>2, MigrateTableIndexed DEF CreateIndex
<1>5. CASE \/ CountUsers(i) \/ InsertUsers(i) \/ CountTable(i) \/ InsertTable(i)
           \/ PingRedis(i)
  <2>1. indexed = Decisions + 1
    BY <1>0, <1>5 DEF IndexedOf, CountUsers, InsertUsers, CountTable,
       InsertTable, PingRedis
  <2>2. indexed' = Decisions + 1
    BY <1>1, <2>1
  <2>3. pc'[i] \notin {"migrate", "create", "look for index", "index"}
    BY <1>5 DEF TypeOK, CountUsers, InsertUsers, CountTable, InsertTable,
       PingRedis, SeedTable, Goto
  <2> QED
    BY <2>2, <2>3 DEF IndexedOf
<1>6. CASE Connect(i)
  <2>1. CASE MigrateTable(i, 0)
    BY <1>1, <2>1, MigrateTableIndexed
  <2>2. CASE Goto(i, "down")
    BY <2>2 DEF TypeOK, Goto, IndexedOf
  <2>3. CASE UNCHANGED <<pc, table>>
    BY <1>0, <2>3, IndexedStays
  <2> QED
    BY <1>6, <2>1, <2>2, <2>3 DEF Connect
<1>7. CASE Start(i) \/ StatementFails(i) \/ Crash(i)
  BY <1>7 DEF TypeOK, Start, StatementFails, Crash, Goto, IndexedOf
<1> QED
  BY <1>2, <1>3, <1>4, <1>5, <1>6, <1>7 DEF Statement, Other

LEMMA IndexedNext ==
  TypeOK /\ TypeOK' /\ IndexedOK /\ [Next]_vars => IndexedOK'
<1> SUFFICES ASSUME TypeOK, TypeOK', IndexedOK, [Next]_vars, NEW j \in Instances
             PROVE  IndexedOf(j)'
  BY DEF IndexedOK
<1>1. IndexedOf(j)
  BY DEF IndexedOK
<1>2. ASSUME NEW i \in Instances, Statement(i) \/ Other(i) PROVE IndexedOf(j)'
  <2>1. CASE i = j
    BY <1>2, <2>1, IndexedStatement
  <2>2. CASE i # j
    BY <1>1, <1>2, <2>2, OthersStay, IndexedStays
  <2> QED
    BY <2>1, <2>2
<1>3. CASE pc' = pc /\ table' = table
  BY <1>1, <1>3, IndexedStays
<1> QED
  BY <1>2, <1>3, StepCases DEF Outage, Recover, Add, Delete, vars

\* An instance counts and inserts only after it has seen every unique index
\* in place, whoever created it and wherever instances stopped.
THEOREM IndexedBeforeSeeding == Spec => []IndexedOK
<1>1. Init => IndexedOK
  BY DEF Init, IndexedOK, IndexedOf
<1> QED
  BY <1>1, IndexedNext, StartupTypeCorrect, PTL DEF Spec

-----------------------------------------------------------------------------
(* Records *)

\* Only three kinds of steps touch records, each in one table; whatever they
\* do, a code that is stored stays stored, a deleted one stays deleted, and
\* decisions and their first revisions come together.
LEMMA RecordsEffect ==
  ASSUME TypeOK, IndexedOK, [Next]_vars
  PROVE  /\ \A t \in Tables, c \in Codes :
              /\ Stored(t, c) => Stored(t, c)'
              /\ records[t][c] = "deleted" => records'[t][c] = "deleted"
         /\ \/ revised' = revised /\ \A c \in Codes :
                 Stored(Decisions, c)' <=> Stored(Decisions, c)
            \/ \E C \in SUBSET Codes :
                 /\ revised' = revised \cup C
                 /\ \A c \in Codes :
                      Stored(Decisions, c)' <=> Stored(Decisions, c) \/ c \in C
<1> DEFINE Goal ==
         /\ \A t \in Tables, c \in Codes :
              /\ Stored(t, c) => Stored(t, c)'
              /\ records[t][c] = "deleted" => records'[t][c] = "deleted"
         /\ \/ revised' = revised /\ \A c \in Codes :
                 Stored(Decisions, c)' <=> Stored(Decisions, c)
            \/ \E C \in SUBSET Codes :
                 /\ revised' = revised \cup C
                 /\ \A c \in Codes :
                      Stored(Decisions, c)' <=> Stored(Decisions, c) \/ c \in C
<1>1. ASSUME records' = records, revised' = revised PROVE Goal
  BY <1>1 DEF Stored
<1>2. ASSUME NEW i \in Instances, InsertTable(i) PROVE Goal
  <2>0. table[i] < indexed
    <3>1. indexed = Decisions + 1
      BY <1>2 DEF InsertTable, IndexedOK, IndexedOf
    <3> QED
      BY <3>1, TableIsNat
  <2>1. CASE \E c \in SeedCodes : Stored(table[i], c)
    BY <1>1, <1>2, <2>0, <2>1 DEF InsertTable, Refused
  <2>2. CASE ~\E c \in SeedCodes : Stored(table[i], c)
    <3> DEFINE C == {c \in SeedCodes : table[i] = Decisions}
    <3>1. /\ \A c \in SeedCodes : records[table[i]][c] = "absent"
          /\ records' = Filled(table[i])
          /\ revised' = revised \cup C
      BY <1>2, <2>2 DEF InsertTable, Refused, Stored
    <3>2. \A t \in Tables, c \in Codes :
            records'[t][c] = IF t = table[i] /\ c \in SeedCodes
                             THEN "live" ELSE records[t][c]
      BY <3>1 DEF Filled, TypeOK
    <3>3. \A t \in Tables, c \in Codes :
            /\ Stored(t, c) => Stored(t, c)'
            /\ records[t][c] = "deleted" => records'[t][c] = "deleted"
      BY <3>1, <3>2 DEF Stored
    <3>4. \A c \in Codes :
            Stored(Decisions, c)' <=> Stored(Decisions, c) \/ c \in C
      BY <3>1, <3>2 DEF Stored, Tables
    <3>5. C \in SUBSET Codes
      BY DEF Codes
    <3> QED
      BY <3>1, <3>3, <3>4, <3>5
  <2> QED
    BY <2>1, <2>2
<1>3. ASSUME NEW t \in Tables, NEW c \in Codes, Add(t, c) PROVE Goal
  <2>1. /\ records[t][c] = "absent"
        /\ records' = [records EXCEPT ![t][c] = "live"]
        /\ revised' = revised \cup {d \in {c} : t = Decisions}
    BY <1>3 DEF Add, Stored
  <2>2. \A u \in Tables, d \in Codes :
          records'[u][d] = IF u = t /\ d = c THEN "live" ELSE records[u][d]
    BY <2>1 DEF TypeOK
  <2>3. \A u \in Tables, d \in Codes :
          /\ Stored(u, d) => Stored(u, d)'
          /\ records[u][d] = "deleted" => records'[u][d] = "deleted"
    BY <2>1, <2>2 DEF Stored
  <2> DEFINE C == {d \in {c} : t = Decisions}
  <2>4. \A d \in Codes :
          Stored(Decisions, d)' <=> Stored(Decisions, d) \/ d \in C
    BY <2>1, <2>2 DEF Stored, Tables
  <2> QED
    BY <2>1, <2>3, <2>4
<1>4. ASSUME NEW t \in Tables, NEW c \in Codes, Delete(t, c) PROVE Goal
  <2>1. /\ records[t][c] = "live"
        /\ records' = [records EXCEPT ![t][c] = "deleted"]
        /\ revised' = revised
    BY <1>4 DEF Delete
  <2>2. \A u \in Tables, d \in Codes :
          records'[u][d] = IF u = t /\ d = c THEN "deleted" ELSE records[u][d]
    BY <2>1 DEF TypeOK
  <2>3. \A u \in Tables, d \in Codes :
          /\ Stored(u, d)' <=> Stored(u, d)
          /\ records[u][d] = "deleted" => records'[u][d] = "deleted"
    BY <2>1, <2>2 DEF Stored
  <2>4. Decisions \in Tables
    BY DEF Tables
  <2> QED
    BY <2>1, <2>3, <2>4
<1>5. ASSUME NEW i \in Instances, Statement(i) \/ Other(i)
      PROVE  Goal
  <2>1. CASE InsertTable(i)
    BY <1>2, <2>1
  <2>2. CASE ~InsertTable(i)
    <3>1. records' = records /\ revised' = revised
      BY <1>5, <2>2 DEF Statement, Other, LookForTable, CreateTable,
         LookForIndex, CreateIndex, CountUsers, InsertUsers, CountTable, Start, Connect, PingRedis, StatementFails,
         Crash, data
    <3> QED
      BY <1>1, <3>1
  <2> QED
    BY <2>1, <2>2
<1>6. CASE Outage \/ Recover \/ UNCHANGED vars
  BY <1>1, <1>6 DEF Outage, Recover, vars, data
<1> QED
  BY <1>3, <1>4, <1>5, <1>6, StepCases

\* However often instances crash and race, a decision and its first revision
\* are stored together.
THEOREM DecisionsAlwaysHaveHistory == Spec => []DecisionsHaveHistory
<1>1. Init => DecisionsHaveHistory
  BY DEF Init, DecisionsHaveHistory, Stored, Tables
<1>2. TypeOK /\ IndexedOK /\ DecisionsHaveHistory /\ [Next]_vars
        => DecisionsHaveHistory'
  BY RecordsEffect DEF DecisionsHaveHistory
<1> QED
  BY <1>1, <1>2, StartupTypeCorrect, IndexedBeforeSeeding, PTL DEF Spec

\* No restart brings a deleted record back.
THEOREM DeletedForGood == Spec => DeletedStaysDeleted
<1>1. TypeOK /\ IndexedOK /\ [Next]_vars =>
        [\A t \in Tables, c \in Codes :
           records[t][c] = "deleted" => records'[t][c] = "deleted"]_vars
  BY RecordsEffect
<1> QED
  BY <1>1, StartupTypeCorrect, IndexedBeforeSeeding, PTL
  DEF Spec, DeletedStaysDeleted

-----------------------------------------------------------------------------
(* Seeding *)

\* What is seeded stays seeded.
LEMMA SeedingLasts ==
  ASSUME TypeOK, IndexedOK, [Next]_vars
  PROVE  /\ users => users'
         /\ \A t \in Tables : Seeded(t) => Seeded(t)'
<1>1. \A t \in Tables : Seeded(t) => Seeded(t)'
  BY RecordsEffect DEF Seeded
<1>2. users => users'
  BY StepCases DEF Statement, Other, LookForTable, CreateTable, LookForIndex,
     CreateIndex, CountUsers, InsertUsers, CountTable, InsertTable, Start, Connect, PingRedis,
     StatementFails, Crash, Outage, Recover, Add, Delete, vars, data
<1> QED
  BY <1>1, <1>2

\* An instance that stays where it is may count on what it counted on.
LEMMA SeedingStays ==
  ASSUME TypeOK, IndexedOK, [Next]_vars, NEW i \in Instances, SeedingOf(i),
         pc'[i] = pc[i], table'[i] = table[i]
  PROVE  SeedingOf(i)'
  BY SeedingLasts DEF SeedingOf

\* An instance that goes on to table t has the tables before it behind it.
LEMMA SeedTableSeeds ==
  ASSUME TypeOK, NEW i \in Instances, NEW t \in 1..(Decisions + 1),
         SeedTable(i, t), users', \A u \in Tables : u < t => Seeded(u)'
  PROVE  SeedingOf(i)'
<1>1. CASE t \in Tables
  BY <1>1 DEF TypeOK, SeedTable, SeedingOf
<1>2. CASE t \notin Tables
  <2>1. \A u \in Tables : u < t
    BY <1>2 DEF Tables
  <2>2. pc'[i] = "ping"
    BY <1>2 DEF TypeOK, SeedTable, Goto
  <2> QED
    BY <2>1, <2>2 DEF SeedingOf
<1> QED
  BY <1>1, <1>2

LEMMA SeedingStatement ==
  ASSUME TypeOK, IndexedOK, SeedingOK, [Next]_vars, NEW i \in Instances, Statement(i)
  PROVE  SeedingOf(i)'
<1>1. table[i] \in 0..Decisions /\ table[i] + 1 \in 1..(Decisions + 1)
  BY TableIsNat
<1>2. SeedingOf(i)
  BY DEF SeedingOK
<1>3. CASE LookForTable(i) \/ CreateTable(i) \/ LookForIndex(i) \/ CreateIndex(i)
  <2>1. pc'[i] \notin {"count", "insert", "ping", "serving"}
    BY <1>3 DEF TypeOK, LookForTable, CreateTable, LookForIndex, CreateIndex,
       MigrateTable, Goto
  <2> QED
    BY <2>1 DEF SeedingOf
<1>4. CASE CountUsers(i) \/ InsertUsers(i)
  <2>1. CASE SeedTable(i, 1) /\ users'
    <3>1. \A u \in Tables : ~(u < 1)
      BY DEF Tables
    <3> QED
      BY <2>1, <3>1, SeedTableSeeds
  <2>2. CASE Goto(i, "insert users") \/ Goto(i, "down")
    BY <2>2 DEF TypeOK, Goto, SeedingOf
  <2>3. CASE CountUsers(i)
    BY <2>1, <2>2, <2>3, Zenon DEF CountUsers, data
  <2>4. CASE InsertUsers(i)
    BY <2>1, <2>2, <2>4, Zenon DEF InsertUsers
  <2> QED
    BY <1>4, <2>3, <2>4
<1>5. CASE CountTable(i)
  <2>1. users /\ \A u \in Tables : u < table[i] => Seeded(u)
    BY <1>2, <1>5 DEF CountTable, SeedingOf
  <2>2. CASE Goto(i, "insert")
    <3>1. pc'[i] = "insert" /\ table'[i] = table[i]
      BY <2>2 DEF TypeOK, Goto
    <3> QED
      BY <2>1, <3>1, SeedingLasts DEF SeedingOf
  <2>3. CASE /\ \E c \in Codes : records[table[i]][c] = "live"
             /\ SeedTable(i, table[i] + 1)
    <3>1. Seeded(table[i])
      BY <2>3 DEF Seeded, Stored
    <3>2. \A u \in Tables : u < table[i] + 1 => Seeded(u)
      BY <1>1, <2>1, <3>1 DEF Tables
    <3>3. users' /\ \A u \in Tables : u < table[i] + 1 => Seeded(u)'
      BY <2>1, <3>2, SeedingLasts
    <3> QED
      BY <1>1, <2>3, <3>3, SeedTableSeeds
  <2> QED
    BY <1>5, <2>2, <2>3 DEF CountTable
<1>6. CASE InsertTable(i)
  <2>1. users /\ \A u \in Tables : u < table[i] => Seeded(u)
    BY <1>2, <1>6 DEF InsertTable, SeedingOf
  <2>2. CASE Goto(i, "down")
    BY <2>2 DEF TypeOK, Goto, SeedingOf
  <2>3. CASE records' = Filled(table[i]) /\ SeedTable(i, table[i] + 1)
    <3>1. ASSUME NEW t \in Tables, t = table[i] PROVE Seeded(t)'
      <4>1. PICK c \in SeedCodes : TRUE
        OBVIOUS
      <4>2. c \in Codes /\ records'[t][c] = "live"
        BY <2>3, <3>1, <4>1 DEF Filled, TypeOK, Codes
      <4> QED
        BY <4>2 DEF Seeded, Stored
    <3>2. users' /\ \A u \in Tables : u < table[i] => Seeded(u)'
      BY <2>1, SeedingLasts
    <3>3. \A u \in Tables : u < table[i] + 1 => Seeded(u)'
      <4> SUFFICES ASSUME NEW t \in Tables, t < table[i] + 1 PROVE Seeded(t)'
        OBVIOUS
      <4>1. t < table[i] \/ t = table[i]
        BY <1>1 DEF Tables
      <4> QED
        BY <3>1, <3>2, <4>1
    <3> QED
      BY <1>1, <2>3, <3>2, <3>3, SeedTableSeeds
  <2> QED
    BY <1>6, <2>2, <2>3 DEF InsertTable
<1> QED
  BY <1>3, <1>4, <1>5, <1>6 DEF Statement

LEMMA SeedingOther ==
  ASSUME TypeOK, IndexedOK, SeedingOK, [Next]_vars, NEW i \in Instances, Other(i)
  PROVE  SeedingOf(i)'
<1>1. CASE PingRedis(i)
  <2>1. users /\ \A t \in Tables : Seeded(t)
    BY <1>1 DEF PingRedis, SeedingOK, SeedingOf
  <2>2. users' /\ \A t \in Tables : Seeded(t)'
    BY <2>1, SeedingLasts
  <2> QED
    BY <2>2 DEF SeedingOf
<1>2. CASE Start(i) \/ StatementFails(i) \/ Crash(i)
  BY <1>2 DEF TypeOK, Start, StatementFails, Crash, Goto, SeedingOf
<1>3. CASE Connect(i)
  <2>1. pc'[i] \notin {"count", "insert", "ping", "serving"}
    BY <1>3 DEF TypeOK, Connect, MigrateTable, Goto
  <2> QED
    BY <2>1 DEF SeedingOf
<1> QED
  BY <1>1, <1>2, <1>3 DEF Other

LEMMA SeedingNext ==
  TypeOK /\ IndexedOK /\ SeedingOK /\ [Next]_vars => SeedingOK'
<1> SUFFICES ASSUME TypeOK, IndexedOK, SeedingOK, [Next]_vars, NEW j \in Instances
             PROVE  SeedingOf(j)'
  BY DEF SeedingOK
<1>1. SeedingOf(j)
  BY DEF SeedingOK
<1>2. ASSUME NEW i \in Instances, Statement(i) \/ Other(i) PROVE SeedingOf(j)'
  <2>1. CASE i = j
    BY <1>2, <2>1, SeedingStatement, SeedingOther
  <2>2. CASE i # j
    BY <1>1, <1>2, <2>2, OthersStay, SeedingStays
  <2> QED
    BY <2>1, <2>2
<1>3. CASE pc' = pc /\ table' = table
  BY <1>1, <1>3, SeedingStays
<1> QED
  BY <1>2, <1>3, StepCases DEF Outage, Recover, Add, Delete, vars

\* An instance that serves has users to log in and records in every table,
\* although each table is counted in one statement, filled in another, and
\* may have been filled by an instance that crashed since.
THEOREM ServingAlwaysSeeded == Spec => []ServingIsSeeded
<1>1. Init => SeedingOK
  BY DEF Init, SeedingOK, SeedingOf
<1>2. SeedingOK => ServingIsSeeded
  BY DEF SeedingOK, SeedingOf, ServingIsSeeded, Serving, Seeded
<1> QED
  BY <1>1, <1>2, SeedingNext, StartupTypeCorrect, IndexedBeforeSeeding, PTL
  DEF Spec

=============================================================================
