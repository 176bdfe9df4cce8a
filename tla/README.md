# A specification of the carbon-capture compliance platform

TLA+ modules, TLC model checks and TLAPS proofs for the platform in this
repository: a Go API (Gin, GORM, PostgreSQL, Redis) and an Angular workbench
for capture units, permit rules, emission samples and compliance decisions.
Paths below are relative to the repository's root; `service/`, `repository/`
and so on are under `backend/internal/`.

What makes this program hard to get right is not its size. A request reads a
row in one SQL statement, decides on that snapshot in Go, writes in a second
statement guarded by a version *the client sent*, writes an audit entry in a
third, and reads the row back in one or two more. Any number of requests do so
at once, on one or more server processes, and any statement may fail. The
model keeps exactly that: which statement comes after which, what each reads and
writes, what each decision looks at.

## 1. Inventory

| Component | State it keeps | Operations | Modelled |
|---|---|---|---|
| Status graphs (`constants/status.go`) | none | four transition maps, `CanTransition` | `Lifecycle` |
| Roles and route guards (`middleware/auth.go`, `handler/*.go` `Register`) | none: the role is in the token | `Authenticate`, `RequireMinimumRole`, `RequireRoles` | `Roles`; tokens themselves are not |
| Versioned store (`repository/base.go`, `model/base.go`) | a table per kind of record: id, unique code, status, version, business columns, `deleted_at` | `Get`, `Create`, `Update` (by version), `Delete` (soft, by id), `List`, `CountByStatus` | `Store`; the queries of `List` in `Reports` |
| Compliance decisions (`service/`, `repository/`, `handler/compliance_decision.go`) | the decision table and `decision_revisions`, written in one transaction | get, create, update, transition, delete, list | `ComplianceDecision` on `Handlers` and `Store` |
| Capture units, permit rules, emission samples | a table each | the same six | `VersionedRecords` on `Handlers` and `Store` |
| Audit log (`service/security.go`, `repository/security.go`) | `audit_logs`, appended to | `Audit`, lists, summary, history of an entity | appending: `Handlers`; lists and summary: `Reports`; the history of an entity only as its limit |
| Rate limiter (`middleware/ratelimit.go`) | counters in Redis, a map under a mutex | `increment`, `incrementLocal`, `cleanupLocal` | `RateLimiter` |
| Startup (`database/database.go`, `cmd/server/main.go`) | which tables and indexes exist, and what is in them | connect, migrate, `Seed`, serve, stop | `Startup` |
| Login and session (`service/security.go`, `handler/system.go`) | none after `Seed` | login, session | what the workbench sees of them |
| Overview, audit and session endpoints (`handler/system.go`) | none | queries | parameters and queries of the audit reports: `Reports`; the overview is not |
| Request identity, access log, recovery (`middleware/request.go`) | none | request IDs | a request is its own identity |
| Router, configuration, envelopes | none | wiring | no |
| Workbench: stores and session hook (`frontend/src/stores/factory.ts`, `hooks/use-auth.ts`, `types/status.ts`) | items, loading flag, session | load, create, transition, login, logout | `Workbench`, `EntityConfig` |
| Workbench: pages and components (`frontend/src/components`, `routes`) | the open dialog | open, cancel, confirm | the records page: `Workbench`; overview, audit page and layout are not |
| Deployment (`docker-compose.yml`) | none | containers | no; its restart policy is an assumption of `Startup` |

**How they interact.** Router → rate limiter → authentication → role guard →
handler → service → repository → database; a service also writes the audit log.
The components share no memory except the limiter's map. They meet in the
database, where each statement (or, for a decision and its revision,
each transaction) is atomic and nothing spans two of them. The frontend sends
back the `version` of the item on the screen as `expectedVersion`.

**What is hard, and what makes each component correct.**

- *Check then write* (decisions and records). The status graph, the draft lock,
  the reviewer rule and the draft-only delete are all checked on a snapshot that
  may be stale at the write. Correct when every two consecutive versions are one
  legal change apart, no verdict is anybody's but a reviewer's, and row and history
  never part.
- *Answers* (decisions and records). A client that is told "ok" must find its
  change for ever; one that is told "refused" must have left nothing; an internal
  error or a not-found says neither.
- *The audit log* is written after the commit from the request's own snapshot. It
  must tell what happened, and lacks an entry only when a statement failed.
- *Partial failure*. Statements fail before or after their effect; a transaction is
  all or nothing; several errors are dropped by the code.
- *Rate limiter*. Two counters for the same requests, a key named in one minute and
  incremented in another, a lost answer of an executed transaction, cleanup between
  requests. Correct when neither counter admits more than the limit and none is
  refused below it.
- *Startup*. Looking for a table, creating it and giving it its unique index are
  statements of their own, and so are counting and filling it; tables come one after the
  other, processes crash and race, the database goes away, and the count does not see
  deleted rows while the unique index does. Correct when an instance that serves finds everything seeded, deletions stay,
  and instances come up.
- *Answers of several queries*. A list is a count and a page, page after page; the audit
  summary is five queries. Rows come, change and go in between. Correct when a
  reader misses no row that was left alone and the parts of a summary differ only by
  what came in between.
- *The workbench*. Nothing in a tab waits for anything else: answers of two loads arrive in
  either order and each overwrites the list; a dialog keeps the item it was opened on;
  it can be confirmed twice; one loading flag serves overlapping calls. Correct when a
  confirmed dialog does what it showed or nothing, and the server only ever sees versions
  that were read.

`PROJECT.json` lists these hazards one by one, at their lines, with the
properties that would catch them.

## 2. Modules

A module extends the ones it is indented under, and those named beside it.

```
Roles, Store
  Handlers
    HandlersProofs
    ComplianceDecision         Lifecycle
      DecisionProperties
        DecisionRefinement     to DecisionLedger             MCDecision
        ComplianceDecisionProofs   HandlersProofs
          DecisionPromiseProofs    DecisionRefinement
        Workbench              EntityConfig (on Lifecycle)
          WorkbenchProperties                                MCWorkbench
            WorkbenchProofs    DecisionPromiseProofs
    VersionedRecords           Lifecycle                     MCRecords
      VersionedRecordsProofs   HandlersProofs
RateLimiter                                                  MCRateLimiter
  RateLimiterProofs
Startup                                                      MCStartup
  StartupProofs
Reports                                                      MCReports
  ReportsProofs
```

| Module | Code | State | Actions |
|---|---|---|---|
| `Lifecycle` | `constants/status.go` | | the four graphs, `CanTransition` |
| `Roles` | `middleware/auth.go` | | `Permitted`, per operation |
| `Store` | `repository/base.go` | `rows` | `Insert`, `Update`, `Delete`: one SQL statement each |
| `Handlers` | what the handlers and services of all resources share | `audits`, `pc`, `req`, `snap`, `reply` | `Receive`, `LoadUnless`, `Remove`, `Audit`, `AuditFails`, `Interrupt` |
| `ComplianceDecision` | `service/compliance_decision.go`, its repository | adds `revisions`, `listed` | `Create`, `Load`, `Write`, `Read`, `Preload` |
| `VersionedRecords` | the three other services | adds the history variable `written` | `Create`, `Load`, `Write`, `Read`, per resource |
| `DecisionProperties` | | | what must hold of decisions, and the inductive invariant |
| `DecisionLedger` | | `version`, `journal`, `struck` | the abstract promise: `Open`, `Amend`, `Move`, `Strike`, each one step |
| `DecisionRefinement` | | | the mapping of the one to the other |
| `RateLimiter` | `middleware/ratelimit.go` | `minute`, `counters`, `local`, a few per request | `Arrive`, `Increment`, `IncrementFails`, `IncrementLocal`, `Expire`, `Tick` |
| `Startup` | `database/database.go` | `up`, `created`, `indexed`, `users`, `records`, `revised`; `pc`, `table`, `attempts` of each instance | `Start`, `Connect`, `LookForTable`, `CreateTable`, `LookForIndex`, `CreateIndex`, `CountUsers`, `InsertUsers`, `CountTable`, `InsertTable`, `PingRedis`, `StatementFails`, `Crash`, `Outage`, `Recover`, `Add`, `Delete` |
| `Reports` | lists of `repository/base.go`, `repository/security.go`, their parameters in `handler` and `service` | `clock`, `table`; `reader`; `summary`; history variables `steady`, `raised` | `Insert`, `Touch`, `Remove`, `Count`, `ReadPage`, `SummarizeAudits` |
| `EntityConfig` | `frontend/src/types/status.ts` | | `nextStatus`, over the pages' status lists |
| `Workbench` | `stores/factory.ts`, `hooks/use-auth.ts`, `components/entity-page.component.ts`, `repository.List` of decisions | adds `session`, `authenticating`, `screen`, `loading`, `dialog`, `moves`, `attached`, `loads` | `Query`, `openCreate`, `openTransition`, `Cancel`, `Confirm`, `MoveFails`, `MoveDone`, `ListArrives`, `logout`, `authenticate`, `ReadPage`, `ReadRevisions`, `ListFails`, `Serve`, `OtherClient` |
| `WorkbenchProperties` | | | what must hold of a tab, and the mapping to `ComplianceDecision` with `Lookahead = 0` |
| `HandlersProofs` | | | lemmas on what the shared handlers receive and what types they keep |
| `ComplianceDecisionProofs`, `DecisionPromiseProofs`, `WorkbenchProofs`, `VersionedRecordsProofs`, `RateLimiterProofs`, `StartupProofs`, `ReportsProofs` | | | theorems, checked by TLAPS |

An operator whose comment begins with "Mutant:" belongs to no specification. It
is the definition below it with a plausible bug, and it shows that a property
depends on that definition: `PROJECT.json` pairs every checked property
with one that TLC finds it violated under.

### How state and actions correspond to the code

- **A step is a statement.** `pc[r]` names the next SQL statement of request `r`; what
  Go computes between two statements is done with the one before. A statement is
  atomic under PostgreSQL's default READ COMMITTED: an `UPDATE ... WHERE id AND
  version` that waits for another one's row lock looks at its condition again when it
  gets the lock, so it matches the committed row or nothing. The transaction of
  `UpdateWithRevision` is one step: its row is locked from the update to the commit,
  and the revision becomes visible with it.
- **A row** is found by its `code`. The unique index covers deleted rows, so a code
  never names two rows, and stands for the primary key. Codes are the normalised
  ones (`strings.ToUpper(strings.TrimSpace(...))`).
- **Business columns** are one value, `fields`: they are trimmed, checked for blanks
  and stored together. A revision copies the evidence among them. `ValidFields` are
  those without a blank the services refuse.
- **A user** is its role: `Seed` makes one user for each role and no route makes another.
- **`snap[r]`** is the row variable `item` of the service. `expected` is the client's
  `expectedVersion`. The code never compares the two, which is what half of the
  properties are about.
- **`Lookahead`** says what clients send. With 0 an `expectedVersion` is at most
  the version committed when the request is sent: a client sends what it has read,
  as the workbench does. With 1 it may guess one ahead, as a script that sends two
  requests back to back does. Smaller versions are always among the inputs.
- **Failures.** `Interrupt` is a statement that fails, a cancelled context or a dead
  process, before its effect. When the answer to a commit is lost, the change is there and
  the client is told of an internal error: that is `Interrupt` (or `AuditFails`) at the
  next statement. `AuditFails` leaves an entry or not, as the INSERT may be executed and its
  answer lost. A create or update goes on when it fails, the others report it; any of
  them may end in an internal error, of its commit or of a dead process.
- **The tab.** `Workbench` composes one tab with the handlers and any other clients. A
  `fetch` is a call in flight. A move (`Confirm`) is a request like any other, handled by
  `Serve`; its answer ends in `MoveFails` or, through a list of its own, in `MoveDone` and
  `ListArrives`, each whenever the event loop gets to it. A list is read by the server in
  two queries (`ReadPage`, `ReadRevisions`). With `Losses` a call may fail or get lost on
  its way, and an answer may get lost after its handler ran: that is also
  what a failing statement looks like from the tab, so the handlers' own `Faults` are left
  to the decision runs. A dialog covers the buttons that open another, so at most one
  is open. `attached` are the moves made by the page on the screen: only those close
  its dialog.
- **Reports.** A row carries the `stamp` it is ordered by (`updated_at` or `created_at`). The
  program takes it before it commits, so a row may come in below others (`Insert`). A page
  is a cut of the order; where stamps tie, the database may choose, and choose again in the
  next query (`First`). An update may stamp a row back: a writer that took its time early may
  commit late (`Touch`). `steady` and `raised` are history variables: which rows were left
  alone since the first page, and whether rows were moved up since by one that was deleted
  or stamped back. `pages` is how far a client reads: by the total of its last answer.
- **Init** is what `Seed` leaves: rows of version 1 in any of its statuses, each
  decision with its first revision by `system`.

## 3. Runs

| Run | Instance | Shows |
|---|---|---|
| `decision_pairs` | 2 requests, 1 decision in any status or absent; all operations and roles; blank fields and unknown targets; faults; versions guessed one ahead. 212,989 states | row, history, audit log and answers agree: `HistoryComplete`, `ReviewerBoundary`, `AcknowledgedWriteKept`, `OneDeleteSucceeds`, `RefusedLeavesNoTrace`, `AnswerCoversItsVersion`, `AcknowledgedIsAudited`, `HistoryIsFinal`, and the inductive `OutcomesInvariant`, from which most of them follow |
| `decision_chain` | 3 writers (operator, admin) that send versions they have read. 416,618 states | check and write act as one: `LegalSuccession`, `ConflictHasWinner`, `AuditTellsTheTruth`, the inductive `DecisionInvariant`, and the refinement `ImplementsLedger` |
| `decision_healthy` | 2 requests, no faults, `FairSpec`, deadlock checked. 16,472 states | every change is audited, every request answered |
| `decision_audit_lost` | 2 requests, faults | `EveryChangeAudited` is violated (finding 1) |
| `decision_pipelined` | 2 requests, `Lookahead = 1` | `ReviewNotSkipped` is violated (finding 2) |
| `decision_delete_race` | 2 requests, transitions and deletes | `OnlyDraftDeleted` is violated (finding 3) |
| `records_pairs` | 2 requests, a unit, a rule and a sample; all operations; faults. 752,924 states | `AnswersAreTrue`, `AuditTellsTheTruth`, `EditsKeepStatus`, `OneLegalChangeAtATime`, the inductive `RecordsInvariant` |
| `records_pipelined` | 2 requests, `Lookahead = 1` | `EditsKeepStatus` is violated (finding 4) |
| `rate_limiter` | 3 requests, 3 keys, 3 minutes, limit 1, cleanup from 2 keys on. 46,852 states | `RedisWithinLimit`, `LocalWithinLimit`, `RefusedOnlyOverLimit`, `StaleBucketsBounded`, the inductive `LimiterInvariant` |
| `startup` | 2 instances, 2 tables, 2 seeded codes and 1 of a client, 2 attempts to connect, 2 crashes or outages, `FairSpec`. 382,768 states | `DecisionsHaveHistory`, `ServingIsSeeded`, `DeletedStaysDeleted`, `EventuallyServing` |
| `workbench` | a tab with 2 moves and a list, another client; 2 requests in all, 2 calls of the tab in flight before the user makes another, 1 decision, lost calls, operator and admin. 639,721 states | `ShownIsHistory`, `ConfirmedIsDone`, `RefusalMeansMoved`, `LoadingMeansCall`, the inductive `WorkbenchInvariant`, and the refinement `ReadsBeforeItWrites` |
| `reports` | 4 rows, 2 instants, pages of 1 and 2, 3 kinds of audit entry. 882,548 states | `NothingSkipped`, `SummaryAddsUp` |

Each module has its type invariant in one of these runs, where it is a part of the inductive
invariant as long as there is one.

**Why the bounds are enough.**
- *Two requests* put any step of another request between any two of one, which is
  what a check-then-write race needs; with a seed in every status, each pair
  starts from any state of the graph. *Three* let a decision be taken back to draft and edited
  behind a request that loaded it in review, and let a loser of one race win
  another. Each request is sent once; a retry is another request.
- *One code* is enough for decisions: no step reads a row of another code. The
  records run has one code of each resource because the audit log is shared. The
  proofs are for any number of both.
- *Two valid fields* tell an edit from its predecessor; `blank` is the refused one.
- In the limiter, *limit 1* makes the second request of a minute the one over it,
  three minutes make one counter current, one past and one expired, and cleanup
  from two keys on stands for 512. Three keys are one more than that.
- In `Startup`, two tables have a first and a last; the two other resources are like the first.
  Two crashes or outages let either instance stop twice, or both once, and two attempts
  let it give up or come back in time.
- In the workbench run *two requests* are a move confirmed twice, or a move and what another
  client does meanwhile; *two calls in flight* let their answers arrive in the other order (the
  list a move asks for comes on top). `MaxRequests` and `MaxCalls` are guards of the user's and
  the other client's actions only. With `OnlyChanges` the run leaves out requests of the other
  client that need not be sent to see every change (`ChangesSomething`): those that cannot
  change a row, and those that do the same when sent later. The theorems hold with and
  without. The other client of the run sends versions it has read; for one that guesses ahead
  (`Lookahead > 0`), there are the theorems that hold *always*. A session change and lists asked for again are not
  bounded.
- In the reports run, *four rows* in pages of one are read in four pages, in pages of two
  in two, with rows that come, move up and go in between; two instants make stamps tie or not, and
  `Since` cuts one of them from the window.

Symmetry is used where requests (or valid fields, keys) are interchangeable and no
liveness is checked. Requests, tables and crashes are bounded by constants in
the guards; no run has a state constraint.

**Fairness.** `ComplianceDecision!FairSpec` assumes weak fairness of each handler that
has started: a goroutine is scheduled and no statement blocks for ever (locks are held
for a transaction of two statements on one row, so there is no cycle of waiting). It
says nothing of clients: `Receive` is unfair. `Startup!FairSpec` assumes weak fairness
of each instance and of `Recover`: `docker-compose.yml` restarts the server and the database
(`restart: unless-stopped`), and connecting gives up at a deadline. `Crash`, `Outage`, `Add` and
`Delete` are unfair. Nothing of the tab or of a reader of reports is fair: their properties are
safety.

### Findings

The four runs marked violated show the code doing something other than the repository
says. Each is an interleaving of two requests, found while modelling:

1. *A change without an audit entry.* The entry is written after the commit; `Create` and
   `Update` drop its error, so their client is even told of success. (`README.md:36`
   promises every state change is audited.) `decision_healthy` shows that a failing
   statement is what it takes, and `AcknowledgedIsAudited` that a transition or delete
   answered with success is audited anyway.
2. *Review skipped.* `Transition` checks the snapshot and writes by the client's version. A
   client that expects one version more than the row that is loaded gets a status
   checked against review written over a draft. (`README.md:48`: a review can not be
   skipped.) Clients that send what they
   have read can not do this: `LegalSuccession`, checked and proved.
3. *A decision under review deleted.* `Delete` checks and deletes in two statements with no
   version.
4. *An edit that undoes a transition.* `Update` writes back the status it loaded; as in 2,
   only a client ahead of the row can meet this.

## 4. Proofs

Every safety property of the passing runs, the refinements and action properties included, is a
theorem. The theorems hold for any number of requests, codes, field values, keys, minutes,
instances, tables, lists, moves and audit entries, with or without failing statements and lost
calls, but for the conditions in the third column. *Behind* says that clients expect versions they
have read (`Lookahead = 0`; in `WorkbenchProofs`, those beside the tab).

| Module | Theorem | Holds | States |
|---|---|---|---|
| `ComplianceDecisionProofs` | `TypeCorrect` | always | `[](TypeOK /\ ControlOK)` |
| | `HistoryAlwaysComplete` | always | `[]HistoryComplete` |
| | `OnlyReviewersDecide` | always | `[]ReviewerBoundary` |
| | `HistoryNeverRewritten` | always | `HistoryIsFinal`, an action property |
| | `ReviewLockHolds` | behind | `[]LegalSuccession` |
| `DecisionPromiseProofs` | `OutcomesInvariantHolds` | always | `[]OutcomesInvariant` |
| | `AcknowledgedWritesSurvive` | always | `[]AcknowledgedWriteKept` |
| | `RefusalsLeaveNothing` | always | `[]RefusedLeavesNoTrace` |
| | `AnswersCoverTheirVersion` | always | `[]AnswerCoversItsVersion` |
| | `AcknowledgedAlwaysAudited` | always | `[]AcknowledgedIsAudited` |
| | `DeletedOnce` | always | `[]OneDeleteSucceeds` |
| | `ChangesAudited` | `~Faults` | `[]EveryChangeAudited` |
| | `InvariantHolds` | behind | `[]DecisionInvariant` |
| | `AuditTruthful` | behind | `[]AuditTellsTheTruth` |
| | `ConflictsHaveWinners` | behind | `[]ConflictHasWinner` |
| | `LedgerImplemented` | behind | `ImplementsLedger`, a refinement |
| `VersionedRecordsProofs` | `TypeCorrect` | always | `[]TypeOK` |
| | `AnswersTrue` | always | `[]AnswersAreTrue` |
| | `InvariantHolds` | behind | `[]RecordsInvariant` |
| | `StatusKeptByEdits` | behind | `[]EditsKeepStatus` |
| | `AuditTruthful` | behind | `[]AuditTellsTheTruth` |
| | `ChangesLegal` | behind | `OneLegalChangeAtATime`, an action property |
| `WorkbenchProofs` | `TabTypeCorrect` | always | `[]WorkbenchTypeOK` |
| | `ShownAlwaysHistory` | always | `[]ShownIsHistory` |
| | `LoadingEnds` | always | `[]LoadingMeansCall` |
| | `WorkbenchInvariantHolds` | always | `[]WorkbenchInvariant` |
| | `ConfirmedAsShown` | always | `[]ConfirmedIsDone` |
| | `RefusalsExplained` | always | `[]RefusalMeansMoved` |
| | `TabIsClient` | always | `Spec`, the server's |
| | `TabKeepsReviewLock` | behind | `[]LegalSuccession` |
| | `TabHasRead` | behind | `ReadsBeforeItWrites`, a refinement |
| | `ButtonsFollowGraph` | always | the next status of each of the four pages is one the server's graph allows |
| `RateLimiterProofs` | `InvariantHolds`, `TypeCorrect` | always | `[]LimiterInvariant`, `[]TypeOK` |
| | `RedisBounded`, `LocalBounded` | always | `[]RedisWithinLimit`, `[]LocalWithinLimit` |
| | `RefusalsJustified` | always | `[]RefusedOnlyOverLimit` |
| | `StaleBounded` | always | `[]StaleBucketsBounded` |
| `StartupProofs` | `StartupTypeCorrect` | always | `[]TypeOK` |
| | `IndexedBeforeSeeding` | always | `[]IndexedOK`: an instance seeds only behind every index |
| | `DecisionsAlwaysHaveHistory` | always | `[]DecisionsHaveHistory` |
| | `DeletedForGood` | always | `DeletedStaysDeleted`, an action property |
| | `ServingAlwaysSeeded` | always | `[]ServingIsSeeded` |
| `ReportsProofs` | `TypeCorrect` | always | `[]TypeOK` |
| | `NothingLeftAloneSkipped` | always | `[]NothingSkipped` |
| | `SummariesAddUp` | always | `[]SummaryAddsUp` |
| | `PagesSettled`, `LimitsSettled` | always | cutting a page, a window or a limit twice is cutting it once |

**Assumptions.** Those named in the modules, which TLC evaluates in every run: the statuses are
those of the graphs, seeds are in them, the name under which seeded revisions are written is no
request's, the limit is positive, and the like. Both conditions are needed: `decision_pipelined`
and `records_pipelined` are counterexamples without the first, `decision_audit_lost` without
`~Faults`.

**The argument for decisions.** `TypeOK` is not inductive: what a step does depends on the kind of
request that reaches it. `ControlOK` adds that a request at `write` is an update or a
transition and that the service did not refuse it *on the snapshot it holds*. With
that, `CreateEffect`, `WriteEffect` and `DeleteEffect` say what the only three steps
that touch the tables do, `StepCases` that there are no others, and:

- `HistoryComplete` is inductive relative to the types. Its part "versions are exactly
  `1..version`" is also why the unique index on revisions never rolls a write back.
- `ReviewerBoundary` follows from `ControlOK`: the target that is written was not
  refused to this user, however stale the snapshot.
- `HistoryIsFinal` holds of each of the three effects.
- `LegalSuccession` needs to know that the snapshot *is* the row when the update
  matches. `ExpectationsOK` says why: a client that sends what it has read gives
  `expected <= snap.version <= row.version`, and what the snapshot shows is the
  revision of its version. The update matches when `expected = row.version`, so all
  three are equal and the check was made on the row that is written. Here versions
  that only grow (`VersionsMoveOn`) and a history that is never rewritten are needed.

The inductive invariant is `DecisionInvariant == TypeOK /\ ControlOK /\ HistoryComplete
/\ ExpectationsOK /\ LegalSuccession /\ SnapshotsOK`; `decision_chain` checks it too. Its last part is
what makes the audit log true: a request about to be audited still holds the version it wrote over.

**The argument for answers.** A property of a finished request is not inductive, as it says nothing
of one under way. `OutcomesOK` says of every request, at each of its statements, what it has done so
far: where its trace is (`TraceOf`), that it has left one (`OutcomeOf`), and what row it is about to
show (`AnswerOf`); with the types and histories it rests on it is `OutcomesInvariant`. `StatementOfOne` cuts every step into one of nine kinds, of which each changes
one request and leaves the others where they were (`OutcomeFrame`); only `Committed`, `Removed` and
`Audited` touch a table. Six of the promises read off from it. `OneDeleteSucceeds` and `EveryChangeAudited`
take an invariant of their own (`OneDelete`, `LoggedOf`), and so do conflicts (`ConflictOf`).

**The argument for the ledger.** A create, write or delete that commits is `Open`, `Amend` or `Move`,
and `Strike` of the ledger; every other step leaves its variables as they were. What the ledger asks of
`Amend` and `Move` is asked by the service of its snapshot, and the snapshot is the row (`MatchedSnapshot`,
from `ExpectationsOK`). Two invariants complete it: versions written are bound (`WritesBound`), and a
request past the guard of its route was permitted (`GuardPassed`).

**The argument for records.** It is the one for decisions over the history variable `written`.
`TracesOK` says who made which version, `ExpectationsOK` that an update that matches finds the row that was
checked, `SnapshotsOK` that a request about to be audited holds what its write did. Since an edit
writes back the status of its snapshot, `EditsKeepStatus` is again that the snapshot is the row.

**The argument for the workbench.** What the tab sends is a version it shows
(`ConfirmIsRequest`); what it shows was shown somewhere before or is a row of the table
(`ShownComesFrom`); a row is the newest version of its history (`HistoryComplete`), and a version
stays in the history as it is (`HistoryLasts`, from `VersionsMoveOn`). So every shown version is at
most the committed one, which is all `Receive` asks of a client with `Lookahead = 0`. The inductive
invariant `Inv` joins what is proved of the server, the types, `ShownOK`, that a move not made
is a request not sent (`TabOK`), and `ListedOK`: the revisions are read after the page, and versions
only grow. `Lookahead` appears nowhere but in `Receive` (`SameStart`, `SameHandle`).

For what a confirmed dialog does, `MovesOK` binds a move that was sent to the dialog it confirms:
the request says what the dialog said and is refused neither for its role nor on the item shown, and
that item is a version of the history. `OutcomesOK` of the server says that the move has appended the version
after it or nothing; the history keeps the version before as it was shown. All of it together is `WorkbenchInvariant`. A refusal is then not for
the role and not for the item that was shown, so the row that was loaded is another: newer or
deleted. No condition on other clients is needed.

**The argument for the limiter.** That a counter admits at most `Limit` is a statement on a set of requests;
what is inductive is on their counts. No two requests judged by one counter of one minute have the
same count (`VerdictsDiffer`), because a new count is above all those given, as the counter has
reached them as long as a request may still come to it (`ReachedBy`): a bucket or key whose minute is
over gives no more. The admitted requests are thus mapped one to one into `1..Limit` (`FS_Injection`), and the
counts of the refused are backed by that many requests counted (`CountsBacked`). That `ExpiryOK` and `OrderOf`
hold, no key expires while a request may come to it, is what `touched` and the two minutes are for.

**The argument for reports.** Along a run in which nothing is deleted or stamped back, the rank of a row left alone only
grows (`NothingMovesUp`), and a page holds every row apart from the others whose rank lies between what the pages
before it covered and what it covers itself (`PageByRank`). So a row whose rank was
covered was shown when it was, and a row pushed down later was shown already. For the summary, the window only grows (`WindowGrows`), each query counts the window it
sees, and the counts of the groups add up to the window: `Sum` is the number of points under the graph of
the counts, which needs no recursion, and `GroupsAddUp` maps them one to one onto the window.

**The argument for the start.** Only `InsertTable`, `Add` and `Delete` touch records
(`RecordsEffect`): none makes a stored code unstored or a deleted one live, `Add` because it asks
for a code that is not stored and `InsertTable` because the index refuses one that is. So the index must be
there: `IndexedOf` says which indexes an instance has seen, or created, where it is, and as indexes only
come, an instance that counts or inserts is behind all of them (`IndexedOK`). `ServingIsSeeded` is not inductive: an instance
that serves relies on what it saw, or did, table by table. `SeedingOf` says what that is where the
instance is: users from the first table on, and records in the tables behind it.

**Only model-checked:** liveness, that is `EveryRequestAnswered` and `EventuallyServing`. Liveness under
fairness is out of reach of TLAPS here, as is `ENABLED`; that the handlers do not deadlock is checked by
`decision_healthy`.

## 5. What is left out, and why

- *Tokens and passwords*: library code. A request carries the role its valid token
  claims; requests without one never reach a handler.
- *Overview* and *the history of an entity*: counts of four tables and one query of
  one entity's entries, with nothing to relate them to. `CountByStatus` likewise.
- *A total that is out of date.* `List` counts before it reads. A client that stops at the
  total of its last answer may stop early; `NothingSkipped` is about the pages that were read.
- *Page numbers near the width of an integer*, where the offset overflows: the database refuses
  it, and the request fails.
- *Request IDs sent twice*: a client may send any `X-Request-ID`; the model gives each
  request its own.
- *The limiter's headers* and `Status`. Also: the wall clock set back; a request that
  stays at Redis for longer than until the end of the next minute (`Tick` waits for it:
  the Redis client's timeouts are seconds); the map lost in a restart, and several
  instances, each with a map of its own. `LocalWithinLimit` is a statement about one process.
- *Migrations that change a table*: the model creates tables only. The pool settings and the
  one deadline that pings and Redis share are `Attempts` and `Crash`.
- *An emptied table*: when all records of a table were deleted, seeded ones among them, every
  later start fails at the unique index. The model has this; `EventuallyServing` excludes
  it (`Emptied`), as nothing in the repository says what should happen.
- *A decision taken back*: the graph leads from accepted to review and to draft, where a decision
  may be edited and deleted again. The model has this, and no property forbids it, as the
  repository does not.
- *Of the workbench*: search text and filters (a list is of all rows, on one page); the
  text of errors, which a later load erases; a session that runs out, which is a call
  that fails; the router guard, which logs in again and again while it fails
  (`authenticate` may leave no session, and the page then asks and is refused); new codes
  cut from the clock, which repeat after a million milliseconds (`Body` takes any
  code); what a page created again shows before its first list. Units, rules and
  samples have the same page with another configuration; `EntityConfig` has all four.
- *The router, configuration, envelopes, the overview and audit pages, deployment*: wiring and
  presentation without state of their own.
- *Other database drivers* (SQLite for development, MySQL): SQLite serialises
  more than the model does; MySQL's isolation was not looked at.

## 6. Plan

Done, in this order: status graphs, roles, store, shared handlers; decisions with their
properties; the ledger and the refinement; records; proofs of the decision core; rate
limiter; startup, with connecting, migrating and outages; workbench; reports; proofs of
startup and of the workbench's refinement; proofs of what requests are told, of the
refinement to the ledger, of records, limiter, workbench and reports.

Next:

1. What the promises add up to: that the tab implements the ledger beside clients that have read
   (`TabHasRead` with `LedgerImplemented`), and that both refinements hold for the three other resources.
2. Action properties of the limiter and of the audit log: a count never goes back within its
   minute, an entry is never changed.
3. Lemmas common to `ComplianceDecisionProofs` and `VersionedRecordsProofs` moved to `HandlersProofs`.
