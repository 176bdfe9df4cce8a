------------------------------ MODULE Startup ------------------------------
(***************************************************************************)
(* Starting the server: connect, migrate and Seed                          *)
(* (backend/internal/database/database.go), by instances that crash and    *)
(* are restarted, on a database that goes away and comes back, while       *)
(* clients of a serving instance add and delete records.                   *)
(*                                                                         *)
(* Each table is looked for in one statement, created in a later one and   *)
(* given its unique index in another, then counted in one and filled in a  *)
(* later one; and the count does not see deleted rows while the unique     *)
(* index does.  Tables are numbered in the order they are created and      *)
(* filled in.                                                              *)
(***************************************************************************)
EXTENDS Naturals

CONSTANTS
  Instances,    \* server processes on one database; Docker Compose runs one
  Decisions,    \* the number of tables, the last being the decisions': 4
  SeedCodes,    \* the codes Seed inserts into a table
  ClientCodes,  \* other codes clients use
  Attempts,     \* how often an instance tries to connect: 20
  Crashes       \* bound on the crashes and outages of a behaviour

ASSUME StartupAssumptions ==
  /\ Decisions \in Nat \ {0}
  /\ Attempts \in Nat \ {0}
  /\ Crashes \in Nat
  /\ SeedCodes # {}

VARIABLES
  up,         \* whether the database answers
  created,    \* how many tables are created, that of the users first
  indexed,    \* and how many of them have their unique index
  users,      \* whether the demonstration users are inserted
  records,    \* per table and code: "absent", "live" or "deleted"
  revised,    \* the decision codes that have their first revision
  pc,         \* what each instance does next
  table,      \* and on which table
  attempts,   \* how often it tried to connect
  crashes     \* how many crashes and outages there were

schema == <<created, indexed>>

data == <<users, records, revised>>

vars == <<up, schema, data, pc, table, attempts, crashes>>

Tables == 1..Decisions

Codes == SeedCodes \cup ClientCodes

Stored(t, c) == records[t][c] # "absent"

Init ==
  /\ up \in BOOLEAN
  /\ created = 0
  /\ indexed = 0
  /\ users = FALSE
  /\ records = [t \in Tables |-> [c \in Codes |-> "absent"]]
  /\ revised = {}
  /\ pc = [i \in Instances |-> "down"]
  /\ table = [i \in Instances |-> 0]
  /\ attempts = [i \in Instances |-> 0]
  /\ crashes = 0

-----------------------------------------------------------------------------
(* One instance *)

Goto(i, step) ==
  /\ pc' = [pc EXCEPT ![i] = step]
  /\ UNCHANGED table

\* Mutant: one table too many.
SeedTableBeyond(i, t) ==
  IF t \in Tables \cup {Decisions + 1}
  THEN /\ pc' = [pc EXCEPT ![i] = "count"]
       /\ table' = [table EXCEPT ![i] = t]
  ELSE Goto(i, "ping")

\* The first table, the next one, or on to Redis after the last.
SeedTable(i, t) ==
  IF t \in Tables
  THEN /\ pc' = [pc EXCEPT ![i] = "count"]
       /\ table' = [table EXCEPT ![i] = t]
  ELSE Goto(i, "ping")

Start(i) ==
  /\ pc[i] = "down"
  /\ Goto(i, "connect")
  /\ UNCHANGED <<up, schema, data, attempts, crashes>>

\* The table after the last created one is the next to look for.
MigrateTable(i, t) ==
  IF t \in Tables \cup {0}
  THEN /\ pc' = [pc EXCEPT ![i] = "migrate"]
       /\ table' = [table EXCEPT ![i] = t]
  ELSE Goto(i, "count users")

\* A ping a second until one is answered, the attempts are used up or the
\* deadline of the start has passed.  Each attempt pings up to twice, and the
\* second ping clears the error of the first: the database coming back between
\* them ends the loop one attempt later, or, at the last attempt, at once.
Connect(i) ==
  /\ pc[i] = "connect"
  /\ \/ /\ up
        /\ MigrateTable(i, 0)
        /\ attempts' = [attempts EXCEPT ![i] = 0]
     \/ /\ ~up /\ attempts[i] < Attempts
        /\ attempts' = [attempts EXCEPT ![i] = attempts[i] + 1]
        /\ UNCHANGED <<pc, table>>
     \/ /\ ~up
        /\ Goto(i, "down")
        /\ attempts' = [attempts EXCEPT ![i] = 0]
  /\ UNCHANGED <<up, schema, data, crashes>>

\* AutoMigrate looks for each table and creates the ones that are missing,
\* which fails when another instance did so in between.
LookForTable(i) ==
  /\ pc[i] = "migrate"
  /\ Goto(i, IF table[i] < created THEN "look for index" ELSE "create")
  /\ UNCHANGED <<up, schema, data, attempts, crashes>>

CreateTable(i) ==
  /\ pc[i] = "create"
  /\ IF table[i] < created
     THEN Goto(i, "down") /\ UNCHANGED created
     ELSE Goto(i, "index") /\ created' = table[i] + 1
  /\ UNCHANGED <<up, indexed, data, attempts, crashes>>

\* On Postgres the unique index is a statement of its own, after that of the
\* table; a start that finds the table without it, left by a stop between the two or
\* by an instance that is not as far yet, creates it.
LookForIndex(i) ==
  /\ pc[i] = "look for index"
  /\ IF table[i] < indexed THEN MigrateTable(i, table[i] + 1)
                           ELSE Goto(i, "index")
  /\ UNCHANGED <<up, schema, data, attempts, crashes>>

\* IF NOT EXISTS, which two instances at once may still fail on.
CreateIndex(i) ==
  /\ pc[i] = "index"
  /\ \/ MigrateTable(i, table[i] + 1)
     \/ table[i] < indexed /\ Goto(i, "down")
  /\ indexed' = IF table[i] < indexed THEN indexed ELSE table[i] + 1
  /\ UNCHANGED <<up, created, data, attempts, crashes>>

\* Mutant: the users are not counted.
CountNoUsers(i) ==
  /\ pc[i] = "count users"
  /\ Goto(i, "insert users")
  /\ UNCHANGED <<up, schema, data, attempts, crashes>>

CountUsers(i) ==
  /\ pc[i] = "count users"
  /\ IF users THEN SeedTable(i, 1) ELSE Goto(i, "insert users")
  /\ UNCHANGED <<up, schema, data, attempts, crashes>>

\* One statement, which the unique index on username lets succeed once; a
\* statement that fails ends the process.
InsertUsers(i) ==
  /\ pc[i] = "insert users"
  /\ IF users /\ 0 < indexed THEN Goto(i, "down") ELSE SeedTable(i, 1)
  /\ users' = TRUE
  /\ UNCHANGED <<up, schema, records, revised, attempts, crashes>>

\* Mutant: a table that cannot be counted is left as it is.
CountOrSkip(i) ==
  /\ pc[i] = "count"
  /\ \/ SeedTable(i, table[i] + 1)
     \/ Goto(i, "insert")
  /\ UNCHANGED <<up, schema, data, attempts, crashes>>

\* gorm counts the rows that are not deleted.
CountTable(i) ==
  /\ pc[i] = "count"
  /\ IF \E c \in Codes : records[table[i]][c] = "live"
     THEN SeedTable(i, table[i] + 1)
     ELSE Goto(i, "insert")
  /\ UNCHANGED <<up, schema, data, attempts, crashes>>

\* The unique index of the table refuses a code that was ever used.
Refused(t) == t < indexed /\ \E c \in SeedCodes : Stored(t, c)

\* Without the index a code could be stored again beside its deleted record.
Filled(t) ==
  [records EXCEPT ![t] = [c \in Codes |-> IF c \in SeedCodes THEN "live"
                                          ELSE records[t][c]]]

\* Mutant: rows that exist are updated.
UpsertTable(i) ==
  /\ pc[i] = "insert"
  /\ records' = Filled(table[i])
  /\ revised' = revised \cup {c \in SeedCodes : table[i] = Decisions}
  /\ SeedTable(i, table[i] + 1)
  /\ UNCHANGED <<up, schema, users, attempts, crashes>>

\* Mutant: the revisions are inserted after the transaction.
InsertThenRevise(i) ==
  /\ pc[i] = "insert"
  /\ IF Refused(table[i])
     THEN /\ revised' = revised \cup {c \in SeedCodes : table[i] = Decisions}
          /\ SeedTable(i, table[i] + 1)
          /\ UNCHANGED records
     ELSE /\ records' = Filled(table[i])
          /\ Goto(i, "insert")
          /\ UNCHANGED revised
  /\ UNCHANGED <<up, schema, users, attempts, crashes>>

\* One transaction, the revisions of the decisions included.
InsertTable(i) ==
  /\ pc[i] = "insert"
  /\ IF Refused(table[i])
     THEN /\ Goto(i, "down")
          /\ UNCHANGED <<records, revised>>
     ELSE /\ records' = Filled(table[i])
          /\ revised' = revised \cup {c \in SeedCodes : table[i] = Decisions}
          /\ SeedTable(i, table[i] + 1)
  /\ UNCHANGED <<up, schema, users, attempts, crashes>>

\* Redis answers; when it does not the process ends, as in Crash.
PingRedis(i) ==
  /\ pc[i] = "ping"
  /\ Goto(i, "serving")
  /\ UNCHANGED <<up, schema, data, attempts, crashes>>

\* A statement without a database fails and ends the start.
StatementFails(i) ==
  /\ ~up
  /\ pc[i] \notin {"down", "connect", "ping", "serving"}
  /\ Goto(i, "down")
  /\ UNCHANGED <<up, schema, data, attempts, crashes>>

Step(i) ==
  \/ Start(i)
  \/ Connect(i)
  \/ /\ up
     /\ \/ LookForTable(i) \/ CreateTable(i) \/ LookForIndex(i) \/ CreateIndex(i)
        \/ CountUsers(i) \/ InsertUsers(i) \/ CountTable(i) \/ InsertTable(i)
  \/ PingRedis(i)
  \/ StatementFails(i)

\* A statement or Redis fails, or the process is stopped.
Crash(i) ==
  /\ pc[i] # "down"
  /\ crashes < Crashes
  /\ crashes' = crashes + 1
  /\ Goto(i, "down")
  /\ attempts' = [attempts EXCEPT ![i] = 0]
  /\ UNCHANGED <<up, schema, data>>

\* The database goes away and comes back; an instance that serves stays.
Outage ==
  /\ up
  /\ crashes < Crashes
  /\ crashes' = crashes + 1
  /\ up' = FALSE
  /\ UNCHANGED <<schema, data, pc, table, attempts>>

Recover ==
  /\ ~up
  /\ up' = TRUE
  /\ UNCHANGED <<schema, data, pc, table, attempts, crashes>>

-----------------------------------------------------------------------------
(* Clients *)

Serving == \E i \in Instances : pc[i] = "serving"

Served == up /\ Serving

Add(t, c) ==
  /\ Served
  /\ ~Stored(t, c)
  /\ records' = [records EXCEPT ![t][c] = "live"]
  /\ revised' = revised \cup {d \in {c} : t = Decisions}
  /\ UNCHANGED <<up, schema, users, pc, table, attempts, crashes>>

Delete(t, c) ==
  /\ Served
  /\ records[t][c] = "live"
  /\ records' = [records EXCEPT ![t][c] = "deleted"]
  /\ UNCHANGED <<up, schema, users, revised, pc, table, attempts, crashes>>

-----------------------------------------------------------------------------

\* The bounds are reached: no more crashes, and no more records.
Over ==
  /\ up
  /\ crashes = Crashes
  /\ \A i \in Instances : pc[i] = "serving"
  /\ \A t \in Tables, c \in Codes : records[t][c] = "deleted"
  /\ UNCHANGED vars

Next ==
  \/ \E i \in Instances : Step(i) \/ Crash(i)
  \/ Outage
  \/ Recover
  \/ \E t \in Tables, c \in Codes : Add(t, c) \/ Delete(t, c)
  \/ Over

Spec == Init /\ [][Next]_vars

\* A stopped instance is restarted, one that starts runs on, and the database
\* comes back.
FairSpec ==
  Spec /\ (\A i \in Instances : WF_vars(Step(i))) /\ WF_vars(Recover)

-----------------------------------------------------------------------------
(* Properties *)

\* Every variable has its type.
TypeOK ==
  /\ up \in BOOLEAN
  /\ created \in 0..(Decisions + 1)
  /\ indexed \in 0..(Decisions + 1)
  /\ users \in BOOLEAN
  /\ records \in [Tables -> [Codes -> {"absent", "live", "deleted"}]]
  /\ revised \subseteq Codes
  /\ pc \in [Instances -> {"down", "connect", "migrate", "create",
                           "look for index", "index", "count users",
                           "insert users", "count", "insert", "ping", "serving"}]
  /\ table \in [Instances -> Tables \cup {0}]
  /\ attempts \in [Instances -> 0..Attempts]
  /\ crashes \in 0..Crashes

\* However often instances crash and race, no decision is ever stored
\* without its first revision, nor a revision without its decision.
DecisionsHaveHistory ==
  revised = {c \in Codes : Stored(Decisions, c)}

\* An instance that serves has users to log in and has had records in every
\* table, although it may have left the seeding to another one.
ServingIsSeeded ==
  Serving => users /\ \A t \in Tables : \E c \in Codes : Stored(t, c)

\* No restart brings a deleted record back: the count of Seed overlooks the
\* record, the unique index does not, and an instance seeds only after it has
\* seen every index in place.
DeletedStaysDeleted ==
  [][\A t \in Tables, c \in Codes :
       records[t][c] = "deleted" => records'[t][c] = "deleted"]_vars

\* A table all records of which were deleted, some seeded ones among them:
\* it counts as empty but can not be filled.
Emptied(t) ==
  /\ \A c \in Codes : records[t][c] # "live"
  /\ \E c \in SeedCodes : records[t][c] = "deleted"

\* When the crashes and outages end, every instance comes to serve, unless a
\* table was emptied: two instances that create or fill the same table at
\* once, or a stop between two tables, stand in nobody's way for ever.
EventuallyServing ==
  \A i \in Instances :
    []<>(pc[i] = "serving" \/ \E t \in Tables : Emptied(t))

=============================================================================
