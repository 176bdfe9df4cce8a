----------------------- MODULE DecisionPromiseProofs -----------------------
(***************************************************************************)
(* What a client is told, what the audit log says, and that the handlers   *)
(* implement the ledger of DecisionLedger: theorems about                  *)
(* ComplianceDecision for any number of requests, codes and field values.  *)
(***************************************************************************)
EXTENDS DecisionRefinement, ComplianceDecisionProofs

USE DecisionAssumptions, HandlersAssumptions, NoRowAssumption

-----------------------------------------------------------------------------
(* A step of the system is one statement of one request *)

\* What a statement of one request leaves to every other.
OthersLeft(s) ==
  \A r \in Requests \ {s} :
    /\ pc'[r] = pc[r] /\ req'[r] = req[r] /\ snap'[r] = snap[r]
    /\ reply'[r] = reply[r] /\ listed'[r] = listed[r]

TablesLeft == UNCHANGED <<rows, revisions, audits>>

Received(s) ==
  /\ TablesLeft /\ pc[s] = "idle"
  /\ pc'[s] # "done" => Permitted(req'[s].op, req'[s].user)
  /\ \/ pc'[s] \in {"load", "insert"}
     \/ pc'[s] = "read" /\ req'[s].op = "get"
     \/ pc'[s] = "done" /\ reply'[s] = "forbidden"

\* Answered with anything but success.
TurnedDown(s) ==
  /\ TablesLeft /\ req'[s] = req[s] /\ snap'[s] = snap[s]
  /\ pc[s] \notin {"idle", "audit", "done"} /\ pc'[s] = "done"
  /\ reply'[s] # "ok"
  /\ reply'[s] \in Refusals => pc[s] \in {"load", "insert", "write"}
  /\ reply'[s] = "version_conflict" =>
       pc[s] = "write" /\ ~Matches(Code(s), req[s].expected)

Loaded(s) ==
  /\ TablesLeft /\ req'[s] = req[s]
  /\ pc[s] = "load" /\ pc'[s] \in {"write", "remove"}

Commits(s) ==
  \/ /\ pc[s] = "insert" /\ req[s].fields \in ValidFields
     /\ CreateWithRevision(s, NewRow("draft", req[s].fields))
  \/ pc[s] = "write" /\ UpdateWithRevision(s, Changed(s))

Committed(s) ==
  /\ UNCHANGED audits /\ req'[s] = req[s] /\ snap'[s] = snap[s]
  /\ pc'[s] = "audit" /\ Commits(s)

Removed(s) ==
  /\ UNCHANGED <<revisions, audits>> /\ req'[s] = req[s] /\ snap'[s] = snap[s]
  /\ pc[s] = "remove" /\ pc'[s] = "audit" /\ Delete(Code(s))

Interrupted(s) == Faults /\ pc'[s] = "done" /\ reply'[s] = "internal_error"

\* The audit statement, executed or not.
Audited(s) ==
  /\ UNCHANGED <<rows, revisions>> /\ req'[s] = req[s] /\ snap'[s] = snap[s]
  /\ pc[s] = "audit"
  /\ \/ audits' = audits \cup {AuditEntry(s, "draft")}
     \/ UNCHANGED audits /\ Faults /\ req[s].op \in {"create", "update"}
     \/ UNCHANGED audits /\ Interrupted(s)
  /\ \/ req[s].op # "delete" /\ pc'[s] = "read"
     \/ req[s].op = "delete" /\ pc'[s] = "done" /\ reply'[s] = "ok"
     \/ Interrupted(s)

ReadBack(s) ==
  /\ TablesLeft /\ req'[s] = req[s]
  /\ pc[s] = "read" /\ pc'[s] = "preload"
  /\ Live(Code(s)) /\ snap'[s] = rows[Code(s)]

Listed(s) ==
  /\ TablesLeft /\ req'[s] = req[s] /\ snap'[s] = snap[s]
  /\ pc[s] = "preload" /\ pc'[s] = "done" /\ reply'[s] = "ok"
  /\ listed'[s] = Versions(Code(s))

Statement(s) ==
  \/ Received(s) \/ TurnedDown(s) \/ Loaded(s) \/ Committed(s)
  \/ Removed(s) \/ Audited(s) \/ ReadBack(s) \/ Listed(s)

LEMMA StartStatement ==
  ASSUME TypeOK, NEW s \in Requests, Start(s)
  PROVE  OthersLeft(s) /\ Received(s)
<1>1. PICK c \in Codes : \E q \in Inputs(Callers, {c}, 1..(Known(c) + Lookahead)) :
        /\ req' = [req EXCEPT ![s] = q]
        /\ IF Permitted(q.op, q.user) THEN Goto(s, FirstStep(q.op))
                                      ELSE Answer(s, "forbidden")
  BY DEF Start, Receive, Accept
<1>2. PICK q \in Inputs(Callers, {c}, 1..(Known(c) + Lookahead)) :
        /\ req' = [req EXCEPT ![s] = q]
        /\ IF Permitted(q.op, q.user) THEN Goto(s, FirstStep(q.op))
                                      ELSE Answer(s, "forbidden")
  BY <1>1
<1>3. pc[s] = "idle" /\ UNCHANGED <<rows, audits, snap, revisions, listed>>
  BY DEF Start, Receive, Accept
<1>4. OthersLeft(s)
  BY <1>2, <1>3 DEF OthersLeft, Goto, Answer, TypeOK
<1>5. req'[s] = q
  BY <1>2 DEF TypeOK
<1>6. CASE Permitted(q.op, q.user) /\ Goto(s, FirstStep(q.op))
  <2>1. pc'[s] = FirstStep(q.op)
    BY <1>6 DEF Goto, TypeOK
  <2> QED
    BY <1>3, <1>4, <1>5, <1>6, <2>1 DEF Received, TablesLeft, FirstStep
<1>7. CASE Answer(s, "forbidden")
  BY <1>3, <1>4, <1>7 DEF Received, TablesLeft, Answer, TypeOK
<1> QED
  BY <1>2, <1>6, <1>7

LEMMA HandleStatement ==
  ASSUME TypeOK, NEW s \in Requests, Handle(s)
  PROVE  OthersLeft(s) /\ Statement(s)
<1> USE DEF OthersLeft, TypeOK, Goto, Answer
<1>1. CASE Create(s)
  BY <1>1 DEF Create, Statement, TurnedDown, Committed, Commits, TablesLeft,
              Refusals
<1>2. CASE Load(s)
  BY <1>2 DEF Load, LoadUnless, Statement, TurnedDown, Loaded, TablesLeft,
              Refusals
<1>3. CASE Write(s)
  BY <1>3 DEF Write, Statement, TurnedDown, Committed, Commits, TablesLeft,
              Refusals
<1>4. CASE Read(s)
  BY <1>4 DEF Read, Statement, TurnedDown, ReadBack, TablesLeft, Refusals
<1>5. CASE Preload(s)
  BY <1>5 DEF Preload, Statement, Listed, TablesLeft
<1>6. CASE Remove(s) /\ UNCHANGED <<revisions, listed>>
  BY <1>6 DEF Remove, Statement, TurnedDown, Removed, TablesLeft, Refusals
<1>7. CASE Audit(s, "draft", {"delete"}) /\ UNCHANGED <<revisions, listed>>
  BY <1>7 DEF Audit, AfterAudit, Statement, Audited
<1>8. CASE AuditFails(s, "draft", {"delete"}) /\ UNCHANGED <<revisions, listed>>
  BY <1>8 DEF AuditFails, AfterAudit, Statement, Audited, Interrupted
<1>9. CASE Interrupt(s) /\ UNCHANGED <<revisions, listed>>
  BY <1>9 DEF Interrupt, Statement, TurnedDown, TablesLeft, Refusals
<1> QED
  BY <1>1, <1>2, <1>3, <1>4, <1>5, <1>6, <1>7, <1>8, <1>9
  DEF Handle, CommonStep

LEMMA StatementOfOne ==
  ASSUME TypeOK, [Next]_vars
  PROVE  \/ UNCHANGED vars
         \/ \E s \in Requests : OthersLeft(s) /\ Statement(s)
  BY StartStatement, HandleStatement DEF Next, AllAnswered, Statement

-----------------------------------------------------------------------------
(* What a request has done at each of its statements *)

\* A request a handler serves is a client's, on one of the codes.
LEMMA ServedInput ==
  ASSUME ControlOK, NEW r \in Requests, pc[r] # "idle"
  PROVE  /\ req[r] \in Inputs(Users, Codes, Nat \ {0})
         /\ Code(r) \in Codes
  BY InputType DEF ControlOK, ControlOf, Code

\* A commit writes the one version the request is for, with everything the
\* client was promised, and no other.
LEMMA CommitKeeps ==
  ASSUME TypeOK, ControlOK, HistoryComplete, [Next]_vars,
         NEW s \in Requests, Committed(s)
  PROVE  /\ Writing(s) /\ Kept(s)'
         /\ \A c \in Codes : \A v \in DOMAIN revisions'[c] :
              \/ v \in Versions(c) /\ revisions'[c][v] = revisions[c][v]
              \/ /\ c = Code(s) /\ v = NewVersion(s)
                 /\ revisions'[c][v].request = s
<1>0. pc[s] # "idle"
  BY DEF Committed, Commits
<1>1. /\ req[s] \in Inputs(Users, Codes, Nat \ {0}) /\ ControlOf(s)
      /\ req'[s] = req[s] /\ Code(s)' = Code(s)
  BY <1>0, ServedInput DEF ControlOK, Committed, Code
<1>2. \A c \in Codes : \A v \in Versions(c) : revisions'[c][v] = revisions[c][v]
  BY EveryStepFinal DEF FinalStep
<1>3. CASE pc[s] = "insert" /\ req[s].fields \in ValidFields
           /\ CreateWithRevision(s, NewRow("draft", req[s].fields))
  <2>1. req[s].op = "create" /\ NewVersion(s) = 1 /\ NewVersion(s)' = 1
    BY <1>1, <1>3 DEF ControlOf, NewVersion
  <2>2. PICK c : c = Code(s)
    OBVIOUS
  <2>3. /\ Versions(c)' = Versions(c) \cup {1}
        /\ revisions'[c][1].state = "draft"
        /\ revisions'[c][1].fields = req[s].fields
        /\ revisions'[c][1].actor = req[s].user
        /\ revisions'[c][1].request = s
        /\ \A d \in Codes \ {c} : revisions'[d] = revisions[d]
    BY <1>3, <2>2, CreateEffect
  <2>4. Kept(s)'
    BY <1>1, <2>1, <2>2, <2>3 DEF Kept
  <2> QED
    BY <1>2, <2>1, <2>2, <2>3, <2>4 DEF Writing, Versions
<1>4. CASE pc[s] = "write" /\ UpdateWithRevision(s, Changed(s))
  <2>1. PICK c, v : c = Code(s) /\ v = rows[c].version + 1
    OBVIOUS
  <2>2. /\ rows[c].version = req[s].expected
        /\ Versions(c)' = Versions(c) \cup {v}
        /\ revisions'[c][v].state = Changed(s).status
        /\ revisions'[c][v].fields = Changed(s).fields
        /\ revisions'[c][v].actor = req[s].user
        /\ revisions'[c][v].request = s
        /\ \A d \in Codes \ {c} : revisions'[d] = revisions[d]
    BY <1>4, <2>1, WriteEffect
  <2>3. req[s].op \in {"update", "transition"} /\ snap[s] \in Row
        /\ ~Refuses(snap[s], req[s])
    BY <1>1, <1>4 DEF ControlOf
  <2>4. v = NewVersion(s) /\ NewVersion(s)' = NewVersion(s)
    BY <1>1, <2>1, <2>2, <2>3 DEF NewVersion
  <2>5. CASE req[s].op = "update"
    <3>1. snap[s].status = "draft"
      BY <2>3, <2>5 DEF Refuses, RefusesUpdate
    <3>2. /\ req[s].expected + 1 \in Nat \ {0} /\ req[s].fields \in Fields
      BY <1>1, <2>5, InputType
    <3>3. Changed(s).status = "draft" /\ Changed(s).fields = req[s].fields
      BY <2>3, <2>5, <3>1, <3>2, EditedType DEF Changed
    <3>4. Kept(s)'
      BY <1>1, <2>1, <2>2, <2>4, <2>5, <3>3 DEF Kept
    <3> QED
      BY <1>2, <2>1, <2>2, <2>4, <2>5, <3>4 DEF Writing, Versions
  <2>6. CASE req[s].op = "transition"
    <3>1. req[s].target \in Statuses
      BY <2>3, <2>6, TransitionTarget DEF Refuses, RefusesTransition
    <3>2. req[s].expected + 1 \in Nat \ {0}
      BY <1>1, <2>6, InputType
    <3>3. Changed(s).status = req[s].target
      BY <2>3, <2>6, <3>1, <3>2, MovedType DEF Changed
    <3>4. Kept(s)'
      BY <1>1, <2>1, <2>2, <2>4, <2>6, <3>3 DEF Kept
    <3> QED
      BY <1>2, <2>1, <2>2, <2>4, <2>6, <3>4 DEF Writing, Versions
  <2> QED
    BY <2>3, <2>5, <2>6
<1> QED
  BY <1>3, <1>4 DEF Committed, Commits

\* Whatever a request kept stays kept, and what it deleted stays deleted.
LEMMA KeptStays ==
  ASSUME TypeOK, ControlOK, HistoryComplete, [Next]_vars,
         NEW r \in Requests, pc[r] # "idle", req'[r] = req[r]
  PROVE  /\ Kept(r) => Kept(r)'
         /\ Stored(Code(r)) /\ rows[Code(r)].deleted =>
              Stored(Code(r))' /\ rows'[Code(r)].deleted
<1>1. PICK c \in Codes : c = Code(r) /\ c = Code(r)'
  BY ServedInput DEF Code
<1>2. FinalStep(c) /\ (Stored(c) => Stored(c)')
  BY EveryStepFinal, VersionsMoveOn
<1>3. Kept(r) => Kept(r)'
  BY <1>1, <1>2 DEF Kept, FinalStep, NewVersion, Versions
<1>4. Stored(c) /\ rows[c].deleted => Stored(c)' /\ rows'[c].deleted
  BY <1>2 DEF FinalStep
<1> QED
  BY <1>1, <1>3, <1>4 DEF Stored

\* The row a request is about to show is no newer than the table's.
LEMMA ShownStays ==
  ASSUME TypeOK, ControlOK, HistoryComplete, [Next]_vars,
         NEW c \in Codes, Stored(c), NEW n \in Nat, n <= rows[c].version
  PROVE  Stored(c)' /\ n <= rows'[c].version
<1>1. /\ Stored(c)' /\ rows[c].version \in Nat
      /\ rows[c].version <= rows'[c].version
  BY VersionsMoveOn
<1>2. rows'[c] \in Row
  BY <1>1, TypeControlStep DEF TypeOK, Stored
<1>3. rows'[c].version \in Nat
  BY <1>2 DEF Row
<1> QED
  BY <1>1, <1>3

OutcomesOf(r) == TraceOf(r) /\ OutcomeOf(r) /\ AnswerOf(r)

\* No new revision, and no new entry in the audit log, is the request's.
NoTraceAdded(r) ==
  /\ \A c \in Codes : \A v \in DOMAIN revisions'[c] :
       revisions'[c][v].request = r =>
         v \in Versions(c) /\ revisions'[c][v] = revisions[c][v]
  /\ \A entry \in audits' : entry.request = r => entry \in audits
  /\ audits \subseteq audits'

LEMMA OutcomeFrame ==
  ASSUME TypeOK, ControlOK, HistoryComplete, [Next]_vars,
         NEW r \in Requests, OutcomesOf(r), NoTraceAdded(r),
         pc'[r] = pc[r], req'[r] = req[r], snap'[r] = snap[r],
         reply'[r] = reply[r], listed'[r] = listed[r]
  PROVE  OutcomesOf(r)'
<1>1. /\ Untouched(r)' = Untouched(r) /\ Through(r)' = Through(r)
      /\ Showing(r)' = Showing(r) /\ Writing(r)' = Writing(r)
      /\ NewVersion(r)' = NewVersion(r) /\ Code(r)' = Code(r)
      /\ Answered(r, "ok")' = Answered(r, "ok")
  BY DEF Untouched, Through, Showing, Writing, NewVersion, Code, Answered
<1>2. TraceOf(r)'
  <2>1. ASSUME NEW c \in Codes, NEW v \in DOMAIN revisions'[c],
               revisions'[c][v].request = r
        PROVE  ~Untouched(r) /\ Writing(r) /\ c = Code(r) /\ v = NewVersion(r)
    BY <2>1 DEF OutcomesOf, TraceOf, NoTraceAdded
  <2>2. ASSUME NEW entry \in audits', entry.request = r
        PROVE  /\ ~Untouched(r) /\ pc[r] # "audit"
               /\ entry.code = Code(r) /\ entry.action = req[r].op
    BY <2>2 DEF OutcomesOf, TraceOf, NoTraceAdded, AuditsOf
  <2> QED
    BY <1>1, <2>1, <2>2 DEF TraceOf, Versions, AuditsOf
<1>3. OutcomeOf(r)'
  <2>1. CASE ~Through(r)
    BY <1>1, <2>1 DEF OutcomeOf
  <2>2. CASE Through(r)
    <3>1. pc[r] # "idle"
      BY <2>2 DEF Through, Answered
    <3>2. OutcomeOf(r)
      BY DEF OutcomesOf
    <3>3. AuditsOf(r) # {} => AuditsOf(r)' # {}
      BY DEF NoTraceAdded, AuditsOf
    <3> QED
      BY <1>1, <2>2, <3>1, <3>2, <3>3, KeptStays DEF OutcomeOf, Stored
  <2> QED
    BY <2>1, <2>2
<1>4. AnswerOf(r)'
  <2>1. CASE Showing(r)
    <3>1. pc[r] # "idle" /\ AnswerOf(r)
      BY <2>1 DEF Showing, Answered, OutcomesOf
    <3>2. PICK c \in Codes : c = Code(r)
      BY <3>1, ServedInput
    <3>3. Stored(c) /\ snap[r].version \in Nat /\ snap[r].version <= rows[c].version
      BY <2>1, <3>1, <3>2 DEF AnswerOf, Row
    <3>4. Stored(c)' /\ snap[r].version <= rows'[c].version
      BY <3>3, ShownStays
    <3> QED
      BY <1>1, <2>1, <3>1, <3>2, <3>4 DEF AnswerOf, Stored
  <2>2. CASE ~Showing(r)
    BY <1>1, <2>2 DEF AnswerOf, Showing
  <2> QED
    BY <2>1, <2>2
<1> QED
  BY <1>2, <1>3, <1>4 DEF OutcomesOf

\* Whom and what an audit entry names, and the statuses it shows.
LEMMA AuditEntryNames ==
  ASSUME NEW s
  PROVE  /\ AuditEntry(s, "draft").request = s
         /\ AuditEntry(s, "draft").code = Code(s)
         /\ AuditEntry(s, "draft").action = req[s].op
         /\ req[s].op # "create" =>
              AuditEntry(s, "draft").before = snap[s].status
         /\ req[s].op = "create" => AuditEntry(s, "draft").after = "draft"
         /\ req[s].op = "update" =>
              AuditEntry(s, "draft").after = snap[s].status
         /\ req[s].op = "transition" =>
              AuditEntry(s, "draft").after = req[s].target
  BY DEF AuditEntry, Code

\* Every statement adds to the history and to the log of its request only.
LEMMA OthersTraceless ==
  ASSUME TypeOK, ControlOK, HistoryComplete, [Next]_vars,
         NEW s \in Requests, Statement(s), NEW r \in Requests \ {s}
  PROVE  NoTraceAdded(r)
<1>1. CASE TablesLeft
  BY <1>1 DEF TablesLeft, NoTraceAdded, Versions
<1>2. CASE Committed(s)
  BY <1>2, CommitKeeps DEF NoTraceAdded, Committed
<1>3. CASE Removed(s)
  BY <1>3 DEF Removed, NoTraceAdded, Versions
<1>4. CASE Audited(s)
  BY <1>4, AuditEntryNames DEF Audited, NoTraceAdded, Versions
<1> QED
  BY <1>1, <1>2, <1>3, <1>4
  DEF Statement, Received, TurnedDown, Loaded, ReadBack, Listed

\* A statement before the commit finds no trace of its request.
LEMMA NoTraceYet ==
  ASSUME NEW s \in Requests, TraceOf(s), Untouched(s), UNCHANGED <<revisions, audits>>
  PROVE  /\ \A c \in Codes : \A v \in DOMAIN revisions'[c] :
              revisions'[c][v].request # s
         /\ \A entry \in audits' : entry.request # s
  BY DEF TraceOf, Versions, AuditsOf

LEMMA TracelessOutcome ==
  ASSUME NEW s \in Requests, TraceOf(s), Untouched(s),
         UNCHANGED <<revisions, audits>>,
         \/ pc'[s] \in {"load", "insert", "write", "remove"}
         \/ pc'[s] = "read" /\ req'[s].op = "get"
         \/ pc'[s] = "done" /\ reply'[s] # "ok"
  PROVE  OutcomesOf(s)'
<1>1. TraceOf(s)'
  BY NoTraceYet DEF TraceOf, Versions, AuditsOf
<1> QED
  BY <1>1 DEF OutcomesOf, OutcomeOf, AnswerOf, Through, Showing, Answered,
              Writing

LEMMA ReceivedOutcome ==
  ASSUME NEW s \in Requests, OutcomesOf(s), Received(s)
  PROVE  OutcomesOf(s)'
<1>1. Untouched(s)
  BY DEF Received, Untouched
<1> QED
  BY <1>1, TracelessOutcome DEF Received, TablesLeft, OutcomesOf

LEMMA LoadedOutcome ==
  ASSUME NEW s \in Requests, OutcomesOf(s), Loaded(s)
  PROVE  OutcomesOf(s)'
<1>1. Untouched(s)
  BY DEF Loaded, Untouched
<1> QED
  BY <1>1, TracelessOutcome DEF Loaded, TablesLeft, OutcomesOf

LEMMA TurnedDownOutcome ==
  ASSUME NEW s \in Requests, OutcomesOf(s), TurnedDown(s)
  PROVE  OutcomesOf(s)'
<1>1. CASE Untouched(s)
  BY <1>1, TracelessOutcome DEF TurnedDown, TablesLeft, OutcomesOf
<1>2. CASE ~Untouched(s)
  <2>1. ~Untouched(s)'
    BY <1>2 DEF TurnedDown, Untouched
  <2>2. TraceOf(s)'
    BY <1>2, <2>1 DEF TurnedDown, TablesLeft, OutcomesOf, TraceOf, Versions,
                      AuditsOf, Writing, Code, NewVersion
  <2> QED
    BY <2>2 DEF TurnedDown, OutcomesOf, OutcomeOf, AnswerOf, Through, Showing,
                Answered
<1> QED
  BY <1>1, <1>2

LEMMA CommittedOutcome ==
  ASSUME TypeOK, ControlOK, HistoryComplete, [Next]_vars,
         NEW s \in Requests, OutcomesOf(s), Committed(s)
  PROVE  OutcomesOf(s)'
<1>1. Untouched(s) /\ TraceOf(s)
  BY DEF Committed, Commits, Untouched, OutcomesOf
<1>2. Writing(s) /\ Writing(s)' /\ Kept(s)' /\ Code(s)' = Code(s)
      /\ NewVersion(s)' = NewVersion(s)
  BY CommitKeeps DEF Writing, Committed, Code, NewVersion
<1>3. \A c \in Codes : \A v \in DOMAIN revisions'[c] :
        revisions'[c][v].request = s => c = Code(s) /\ v = NewVersion(s)
  BY <1>1, CommitKeeps DEF TraceOf
<1>4. ~Untouched(s)'
  BY DEF Committed, Untouched
<1>5. AuditsOf(s)' = {}
  BY <1>1 DEF TraceOf, AuditsOf, Committed
<1>6. TraceOf(s)'
  BY <1>2, <1>3, <1>4, <1>5 DEF TraceOf, Versions
<1>7. req'[s].op # "delete"
  BY <1>2 DEF Writing
<1> QED
  BY <1>2, <1>6, <1>7
  DEF OutcomesOf, OutcomeOf, AnswerOf, Committed, Showing, Answered

LEMMA RemovedOutcome ==
  ASSUME TypeOK, ControlOK, NEW s \in Requests, OutcomesOf(s), Removed(s)
  PROVE  OutcomesOf(s)'
<1>1. Untouched(s) /\ TraceOf(s) /\ UNCHANGED <<revisions, audits>>
  BY DEF Removed, Untouched, OutcomesOf
<1>2. TraceOf(s)'
  BY <1>1, NoTraceYet DEF TraceOf, Versions, AuditsOf
<1>3. req'[s] = req[s] /\ req[s].op = "delete" /\ Code(s)' = Code(s)
  BY DEF Removed, ControlOK, ControlOf, Code
<1>4. PICK c : c = Code(s)
  OBVIOUS
<1>5. rows'[c] = [rows[c] EXCEPT !.deleted = TRUE] /\ rows[c] \in Row
      /\ rows'[c] \in Row
  BY <1>4, DeleteEffect DEF Removed
<1>6. rows'[c] # NoRow /\ rows'[c].deleted
  BY <1>5 DEF Row
<1> QED
  BY <1>2, <1>3, <1>4, <1>6
  DEF OutcomesOf, OutcomeOf, AnswerOf, Removed, Showing, Answered, Writing,
      Stored

LEMMA AuditedOutcome ==
  ASSUME TypeOK, ControlOK, NEW s \in Requests, OutcomesOf(s), Audited(s)
  PROVE  OutcomesOf(s)'
<1>1. ~Untouched(s) /\ Through(s)
  BY DEF Audited, Untouched, Through
<1>2. /\ req'[s] = req[s] /\ Code(s)' = Code(s) /\ Writing(s)' = Writing(s)
      /\ NewVersion(s)' = NewVersion(s)
  BY DEF Audited, Code, Writing, NewVersion
<1>3. ~Untouched(s)' /\ pc'[s] # "audit"
  BY DEF Audited, Interrupted, Untouched, Refusals
<1>4. \A entry \in audits' : entry.request = s =>
        entry.code = Code(s) /\ entry.action = req[s].op
  BY <1>1, AuditEntryNames DEF Audited, OutcomesOf, TraceOf, AuditsOf
<1>5. TraceOf(s)'
  BY <1>1, <1>2, <1>3, <1>4
  DEF OutcomesOf, TraceOf, AuditsOf, Versions, Audited
<1>6. Through(s)' /\ req[s].op \in {"transition", "delete"}
        => AuditsOf(s)' # {}
  BY AuditEntryNames DEF Audited, Interrupted, AuditsOf, Through, Answered
<1>7. OutcomeOf(s)'
  <2>1. OutcomeOf(s) /\ UNCHANGED <<rows, revisions>>
    BY DEF Audited, OutcomesOf
  <2>2. Kept(s) => Kept(s)'
    BY <1>2, <2>1 DEF Kept, Versions
  <2> QED
    BY <1>1, <1>2, <1>6, <2>1, <2>2 DEF OutcomeOf, Stored
<1>8. AnswerOf(s)'
  BY <1>2 DEF AnswerOf, Audited, Interrupted, Showing, Answered
<1> QED
  BY <1>5, <1>7, <1>8 DEF OutcomesOf

LEMMA ReadBackOutcome ==
  ASSUME TypeOK, ControlOK, HistoryComplete,
         NEW s \in Requests, OutcomesOf(s), ReadBack(s)
  PROVE  OutcomesOf(s)'
<1>1. ~Untouched(s) /\ Through(s) /\ ~Untouched(s)' /\ pc[s] # "audit"
  BY DEF ReadBack, Untouched, Through
<1>2. /\ req'[s] = req[s] /\ Code(s)' = Code(s) /\ Writing(s)' = Writing(s)
      /\ NewVersion(s)' = NewVersion(s) /\ UNCHANGED <<rows, revisions, audits>>
  BY DEF ReadBack, TablesLeft, Code, Writing, NewVersion
<1>3. TraceOf(s)'
  BY <1>1, <1>2 DEF OutcomesOf, TraceOf, AuditsOf, Versions, ReadBack
<1>4. OutcomeOf(s)'
  BY <1>1, <1>2 DEF OutcomesOf, OutcomeOf, AuditsOf, Versions, Kept, Stored
<1>5. PICK c \in Codes : c = Code(s)
  BY ServedInput DEF ReadBack
<1>6. Stored(c) /\ rows[c] \in Row /\ snap'[s] = rows[c]
  BY <1>5 DEF ReadBack, Live, TypeOK, Stored
<1>7. Versions(c) = 1..rows[c].version /\ rows[c].version \in Nat
  BY <1>6 DEF HistoryComplete, CompleteHistory, Row
<1>8. Writing(s) => NewVersion(s) <= rows[c].version
  <2>1. Writing(s) => NewVersion(s) \in Versions(c)
    BY <1>1, <1>5 DEF OutcomesOf, OutcomeOf, Kept
  <2> QED
    BY <1>7, <2>1
<1>9. AnswerOf(s)'
  BY <1>2, <1>5, <1>6, <1>7, <1>8 DEF AnswerOf, ReadBack, Answered, Stored
<1> QED
  BY <1>3, <1>4, <1>9 DEF OutcomesOf

LEMMA ListedOutcome ==
  ASSUME TypeOK, ControlOK, HistoryComplete,
         NEW s \in Requests, OutcomesOf(s), Listed(s)
  PROVE  OutcomesOf(s)'
<1>1. ~Untouched(s) /\ Through(s) /\ ~Untouched(s)' /\ pc[s] # "audit"
      /\ Showing(s)
  BY DEF Listed, Untouched, Through, Showing, Refusals
<1>2. /\ req'[s] = req[s] /\ Code(s)' = Code(s) /\ Writing(s)' = Writing(s)
      /\ NewVersion(s)' = NewVersion(s) /\ UNCHANGED <<rows, revisions, audits>>
      /\ snap'[s] = snap[s]
  BY DEF Listed, TablesLeft, Code, Writing, NewVersion
<1>3. TraceOf(s)'
  BY <1>1, <1>2 DEF OutcomesOf, TraceOf, AuditsOf, Versions, Listed
<1>4. OutcomeOf(s)'
  BY <1>1, <1>2 DEF OutcomesOf, OutcomeOf, AuditsOf, Versions, Kept, Stored
<1>5. PICK c \in Codes : c = Code(s)
  BY ServedInput DEF Listed
<1>6. /\ Stored(c) /\ rows[c] \in Row /\ snap[s] \in Row
      /\ snap[s].version <= rows[c].version
  BY <1>1, <1>5 DEF OutcomesOf, AnswerOf, TypeOK, Stored
<1>7. Versions(c) = 1..rows[c].version /\ rows[c].version \in Nat
      /\ snap[s].version \in Nat
  BY <1>6 DEF HistoryComplete, CompleteHistory, Row
<1>8. 1..snap[s].version \subseteq listed'[s]
  BY <1>5, <1>6, <1>7 DEF Listed
<1>9. AnswerOf(s)'
  BY <1>1, <1>2, <1>8 DEF OutcomesOf, AnswerOf, Stored
<1> QED
  BY <1>3, <1>4, <1>9 DEF OutcomesOf

LEMMA OutcomesInit == Init => OutcomesOK
<1> SUFFICES ASSUME Init, NEW r \in Requests
             PROVE  TraceOf(r) /\ OutcomeOf(r) /\ AnswerOf(r)
  BY DEF OutcomesOK
<1>1. pc[r] = "idle" /\ audits = {}
  BY DEF Init, NothingHandled
<1>2. \A c \in Codes : \A v \in Versions(c) : revisions[c][v].request = "seed"
  BY DEF Init, Versions, newDecisionRevision
<1> QED
  BY <1>1, <1>2 DEF TraceOf, OutcomeOf, AnswerOf, AuditsOf, Through, Showing,
                    Answered

LEMMA OutcomesStep ==
  TypeOK /\ ControlOK /\ HistoryComplete /\ OutcomesOK /\ [Next]_vars
    => OutcomesOK'
<1> SUFFICES ASSUME TypeOK, ControlOK, HistoryComplete, OutcomesOK,
                    [Next]_vars, NEW r \in Requests
             PROVE  OutcomesOf(r)'
  BY DEF OutcomesOK, OutcomesOf
<1>1. OutcomesOf(r)
  BY DEF OutcomesOK, OutcomesOf
<1>2. CASE UNCHANGED vars
  BY <1>1, <1>2, OutcomeFrame DEF vars, NoTraceAdded, Versions
<1>3. ASSUME NEW s \in Requests, OthersLeft(s), Statement(s)
      PROVE  OutcomesOf(r)'
  <2>1. CASE r # s
    BY <1>1, <1>3, <2>1, OthersTraceless, OutcomeFrame DEF OthersLeft
  <2>2. CASE r = s
    BY <1>1, <1>3, <2>2, ReceivedOutcome, TurnedDownOutcome, LoadedOutcome,
       CommittedOutcome, RemovedOutcome, AuditedOutcome, ReadBackOutcome,
       ListedOutcome DEF Statement
  <2> QED
    BY <2>1, <2>2
<1> QED
  BY <1>2, <1>3, StatementOfOne

\* What every request has done at each of its statements, on every run of
\* the system, with failing statements and clients that guess versions.
THEOREM OutcomesAlways == Spec => []OutcomesOK
  BY TypeControlInit, TypeControlStep, HistoryInit, HistoryStep, OutcomesInit,
     OutcomesStep, PTL DEF Spec

\* The same with the types and histories it rests on: the inductive invariant
\* behind every promise made to any client.
THEOREM OutcomesInvariantHolds == Spec => []OutcomesInvariant
<1>1. TypeOK /\ ControlOK /\ HistoryComplete /\ OutcomesOK
        => OutcomesInvariant
  BY DEF OutcomesInvariant
<1> QED
  BY <1>1, TypeCorrect, HistoryAlwaysComplete, OutcomesAlways, PTL

-----------------------------------------------------------------------------
(* Answers *)

\* A create, update or transition that was answered with success stays in
\* the history under its own version, with its client's name and what it
\* asked for: no two clients are told they wrote the same version.
THEOREM AcknowledgedWritesSurvive == Spec => []AcknowledgedWriteKept
<1>1. OutcomesOK => AcknowledgedWriteKept
  BY DEF OutcomesOK, OutcomeOf, AcknowledgedWriteKept, Wrote, Through
<1> QED
  BY <1>1, OutcomesAlways, PTL

\* A request refused for its role, a business rule or a version conflict
\* left neither a revision nor an audit entry.
THEOREM RefusalsLeaveNothing == Spec => []RefusedLeavesNoTrace
<1>1. OutcomesOK => RefusedLeavesNoTrace
  <2> SUFFICES ASSUME OutcomesOK, NEW r \in Requests, pc[r] = "done",
                      reply[r] \in Refusals
               PROVE  ChangedBy(r) = {} /\ AuditsOf(r) = {}
    BY DEF RefusedLeavesNoTrace
  <2>1. TraceOf(r) /\ Untouched(r)
    BY DEF OutcomesOK, Untouched
  <2> QED
    BY <2>1 DEF TraceOf, ChangedBy, AuditsOf
<1> QED
  BY <1>1, OutcomesAlways, PTL

\* An answer lists every revision up to the version it shows, and a request
\* that wrote is shown its own version or a later one, whatever is committed
\* between the query for the row and the query for the revisions.
THEOREM AnswersCoverTheirVersion == Spec => []AnswerCoversItsVersion
<1>1. TypeOK /\ ControlOK /\ OutcomesOK => AnswerCoversItsVersion
  <2> SUFFICES ASSUME TypeOK, ControlOK, OutcomesOK, NEW r \in Requests,
                      Answered(r, "ok"), req[r].op # "delete"
               PROVE  /\ 1..snap[r].version \subseteq listed[r]
                      /\ Wrote(r) => NewVersion(r) \in 1..snap[r].version
    BY DEF AnswerCoversItsVersion
  <2>1. AnswerOf(r) /\ Showing(r)
    BY DEF OutcomesOK, Showing
  <2>2. CASE ~Writing(r)
    BY <2>1, <2>2 DEF AnswerOf, Wrote
  <2>3. CASE Writing(r)
    <3>1. req[r] \in Inputs(Users, Codes, Nat \ {0})
      BY ServedInput DEF Answered
    <3>2. NewVersion(r) \in Nat \ {0}
      <4>1. CASE req[r].op = "create"
        BY <4>1 DEF NewVersion
      <4>2. CASE req[r].op # "create"
        <5>1. req[r].expected \in Nat \ {0}
          BY <2>3, <3>1, <4>2, InputType DEF Writing
        <5> QED
          BY <4>2, <5>1 DEF NewVersion
      <4> QED
        BY <4>1, <4>2
    <3>3. snap[r].version \in Nat /\ NewVersion(r) <= snap[r].version
      BY <2>1, <2>3 DEF AnswerOf, Row
    <3> QED
      BY <2>1, <3>2, <3>3 DEF AnswerOf
  <2> QED
    BY <2>2, <2>3
<1> QED
  BY <1>1, OutcomesAlways, TypeCorrect, PTL

\* A transition or delete that was answered with success is in the audit
\* log, even when statements fail.
THEOREM AcknowledgedAlwaysAudited == Spec => []AcknowledgedIsAudited
<1>1. OutcomesOK => AcknowledgedIsAudited
  BY DEF OutcomesOK, OutcomeOf, AcknowledgedIsAudited, Answered, Through
<1> QED
  BY <1>1, OutcomesAlways, PTL

\* Of the requests that deleted a decision there is at most one.
OneDelete ==
  \A r, s \in Requests :
    /\ Through(r) /\ req[r].op = "delete"
    /\ Through(s) /\ req[s].op = "delete" /\ Code(s) = Code(r)
    => r = s

\* A request that has deleted was about to, or had before.
LEMMA DeletesBefore ==
  ASSUME TypeOK, ControlOK, NEW s \in Requests, OthersLeft(s), Statement(s),
         NEW r \in Requests, Through(r)', req'[r].op = "delete"
  PROVE  /\ req[r].op = "delete" /\ Code(r)' = Code(r)
         /\ Through(r) \/ (r = s /\ Removed(s))
<1>1. CASE r # s
  BY <1>1 DEF OthersLeft, Through, Answered, Code
<1>2. CASE r = s
  <2>1. CASE Received(s)
    BY <1>2, <2>1 DEF Received, Through, Answered
  <2>2. CASE TurnedDown(s) \/ Loaded(s)
    BY <1>2, <2>2 DEF TurnedDown, Loaded, Through, Answered
  <2>3. CASE Committed(s)
    BY <1>2, <2>3 DEF Committed, Commits, ControlOK, ControlOf
  <2>4. CASE Removed(s)
    BY <1>2, <2>4 DEF Removed, Code
  <2>5. CASE Audited(s) \/ ReadBack(s) \/ Listed(s)
    BY <1>2, <2>5 DEF Audited, ReadBack, Listed, Through, Code
  <2> QED
    BY <1>2, <2>1, <2>2, <2>3, <2>4, <2>5 DEF Statement
<1> QED
  BY <1>1, <1>2

LEMMA OneDeleteStep ==
  TypeOK /\ ControlOK /\ OutcomesOK /\ OneDelete /\ [Next]_vars => OneDelete'
<1> SUFFICES ASSUME TypeOK, ControlOK, OutcomesOK, OneDelete, [Next]_vars,
                    NEW q \in Requests, NEW r \in Requests,
                    Through(q)', req'[q].op = "delete",
                    Through(r)', req'[r].op = "delete", Code(r)' = Code(q)'
             PROVE  q = r
  BY DEF OneDelete
<1>1. CASE UNCHANGED vars
  BY <1>1 DEF vars, Through, Answered, Code, OneDelete
<1>2. ASSUME NEW s \in Requests, OthersLeft(s), Statement(s)
      PROVE  q = r
  <2>1. /\ req[q].op = "delete" /\ req[r].op = "delete" /\ Code(r) = Code(q)
        /\ Through(q) \/ (q = s /\ Removed(s))
        /\ Through(r) \/ (r = s /\ Removed(s))
    BY <1>2, DeletesBefore
  <2>2. ASSUME NEW p \in Requests, Through(p), req[p].op = "delete",
               Code(p) = Code(s)
        PROVE  ~Removed(s)
    BY <2>2 DEF OutcomesOK, OutcomeOf, Removed, Delete, Live
  <2> QED
    BY <2>1, <2>2 DEF OneDelete
<1> QED
  BY <1>1, <1>2, StatementOfOne

\* Of the deletes of one decision exactly one is told it succeeded, and the
\* decision is gone when it is told.
THEOREM DeletedOnce == Spec => []OneDeleteSucceeds
<1>1. Init => OneDelete
  BY DEF Init, NothingHandled, OneDelete, Through, Answered
<1>2. OutcomesOK /\ OneDelete => OneDeleteSucceeds
  BY DEF OutcomesOK, OutcomeOf, OneDelete, OneDeleteSucceeds, Through
<1> QED
  BY <1>1, <1>2, TypeCorrect, OutcomesAlways, OneDeleteStep, PTL DEF Spec

-----------------------------------------------------------------------------
(* The audit log, when no statement fails *)

\* A request past its audit statement has logged what it changed.
LoggedOf(r) ==
  pc[r] \in {"read", "preload", "done"} /\ ChangedBy(r) # {} => AuditsOf(r) # {}

LEMMA LoggedStep ==
  ASSUME ~Faults, TypeOK, ControlOK, HistoryComplete, OutcomesOK, [Next]_vars,
         NEW r \in Requests, LoggedOf(r)
  PROVE  LoggedOf(r)'
<1>1. ASSUME pc'[r] = pc[r], NoTraceAdded(r)
      PROVE  LoggedOf(r)'
  <2>1. ChangedBy(r)' # {} => ChangedBy(r) # {}
    BY <1>1 DEF ChangedBy, NoTraceAdded, Versions
  <2>2. AuditsOf(r) # {} => AuditsOf(r)' # {}
    BY <1>1 DEF AuditsOf, NoTraceAdded
  <2> QED
    BY <1>1, <2>1, <2>2 DEF LoggedOf
<1>2. CASE UNCHANGED vars
  BY <1>1, <1>2 DEF vars, NoTraceAdded, Versions
<1>3. ASSUME NEW s \in Requests, OthersLeft(s), Statement(s)
      PROVE  LoggedOf(r)'
  <2>1. CASE r # s
    BY <1>1, <1>3, <2>1, OthersTraceless DEF OthersLeft
  <2>2. CASE r = s /\ pc'[s] \notin {"read", "preload", "done"}
    BY <2>2 DEF LoggedOf
  <2>3. CASE r = s /\ TablesLeft /\ ~Audited(s)
    <3>1. ChangedBy(s)' = ChangedBy(s) /\ AuditsOf(s)' = AuditsOf(s)
      BY <2>3 DEF TablesLeft, ChangedBy, AuditsOf, Versions
    <3>2. Untouched(s) => ChangedBy(s) = {}
      BY DEF OutcomesOK, TraceOf, ChangedBy
    <3>3. Untouched(s) \/ pc[s] \in {"read", "preload", "done"}
      BY <1>3, <2>3
      DEF Statement, Received, TurnedDown, Loaded, Committed, Removed, Audited,
          ReadBack, Listed, Commits, Untouched, TypeOK, Steps
    <3> QED
      BY <2>3, <3>1, <3>2, <3>3 DEF LoggedOf
  <2>4. CASE r = s /\ Audited(s)
    <3>1. audits' = audits \cup {AuditEntry(s, "draft")}
      BY <2>4 DEF Audited, Interrupted
    <3> QED
      BY <2>4, <3>1, AuditEntryNames DEF LoggedOf, AuditsOf
  <2> QED
    BY <1>3, <2>1, <2>2, <2>3, <2>4
    DEF Statement, Received, TurnedDown, Loaded, Committed, Removed, ReadBack,
        Listed
<1> QED
  BY <1>2, <1>3, StatementOfOne

\* As long as no statement fails, every revision a finished request made has
\* its audit entry.
THEOREM ChangesAudited ==
  ASSUME ~Faults
  PROVE  Spec => []EveryChangeAudited
<1> DEFINE Logged == \A r \in Requests : LoggedOf(r)
<1>1. Init => Logged
  BY DEF Init, NothingHandled, LoggedOf
<1>2. TypeOK /\ ControlOK /\ HistoryComplete /\ OutcomesOK /\ Logged
        /\ [Next]_vars => Logged'
  BY LoggedStep
<1>3. Logged => EveryChangeAudited
  BY DEF LoggedOf, EveryChangeAudited
<1> QED
  BY <1>1, <1>2, <1>3, TypeCorrect, HistoryAlwaysComplete, OutcomesAlways, PTL
  DEF Spec

-----------------------------------------------------------------------------
(* For clients that expect versions they have read *)

\* A request that was received keeps its input.
LEMMA InputStays ==
  ASSUME TypeOK, [Next]_vars, NEW r \in Requests, pc[r] # "idle"
  PROVE  req'[r] = req[r]
<1>1. CASE UNCHANGED vars
  BY <1>1 DEF vars
<1>2. ASSUME NEW s \in Requests, OthersLeft(s), Statement(s)
      PROVE  req'[r] = req[r]
  BY <1>2 DEF OthersLeft, Statement, Received, TurnedDown, Loaded, Committed,
              Removed, Audited, ReadBack, Listed
<1> QED
  BY <1>1, <1>2, StatementOfOne

\* An update that matches writes over the version it was checked against:
\* the snapshot is the row.
LEMMA MatchedRow ==
  ASSUME WritesBound, NEW s \in Requests, pc[s] = "write",
         NEW c, c = Code(s), Matches(c, req[s].expected)
  PROVE  /\ c \in Codes /\ rows[c].version = req[s].expected
         /\ rows[c].version \in Nat \ {0}
         /\ snap[s].status = rows[c].status
         /\ snap[s].fields = rows[c].fields
<1> USE DEF WritesBound
<1>1. c \in Codes /\ rows[c].version = req[s].expected /\ Stored(c)
  BY ServedInput DEF Matches, Live
<1>2. rows[c] \in Row /\ snap[s] \in Row
  BY <1>1 DEF TypeOK, Stored, ControlOK, ControlOf
<1>3. rows[c].version \in Nat \ {0} /\ snap[s].version \in Nat
  BY <1>2 DEF Row
<1>4. /\ req[s].expected <= snap[s].version
      /\ snap[s].version <= rows[c].version
      /\ revisions[c][snap[s].version].state = snap[s].status
      /\ revisions[c][snap[s].version].fields = snap[s].fields
  BY DEF ExpectationsOK, ExpectationOf
<1>5. snap[s].version = rows[c].version
  BY <1>1, <1>3, <1>4
<1> QED
  BY <1>1, <1>3, <1>4, <1>5 DEF HistoryComplete, CompleteHistory

LEMMA MatchedSnapshot ==
  ASSUME WritesBound, [Next]_vars, NEW s \in Requests,
         Committed(s), pc[s] = "write"
  PROVE  SnapshotOf(s)'
<1>1. PICK c : c = Code(s)
  OBVIOUS
<1>2. Matches(c, req[s].expected) /\ req'[s] = req[s] /\ snap'[s] = snap[s]
      /\ Code(s)' = Code(s)
  BY <1>1 DEF Committed, Commits, UpdateWithRevision, Update, Code
<1>3. /\ c \in Codes /\ rows[c].version = req[s].expected
      /\ rows[c].version \in Nat \ {0} /\ snap[s].status = rows[c].status
  BY <1>1, <1>2, MatchedRow
<1>4. /\ rows[c].version \in Versions(c)
      /\ revisions[c][rows[c].version].state = rows[c].status
  BY <1>2, <1>3 DEF WritesBound, HistoryComplete, CompleteHistory, Matches, Live
<1>5. FinalStep(c)
  BY <1>3, EveryStepFinal DEF WritesBound
<1> QED
  BY <1>1, <1>2, <1>3, <1>4, <1>5 DEF SnapshotOf, FinalStep, Versions

LEMMA SnapshotStep ==
  WritesBound /\ SnapshotsOK /\ [Next]_vars => SnapshotsOK'
<1> SUFFICES ASSUME WritesBound, SnapshotsOK, [Next]_vars,
                    NEW r \in Requests, pc'[r] = "audit",
                    req'[r].op \in {"update", "transition"}
             PROVE  SnapshotOf(r)'
  BY DEF SnapshotsOK, SnapshotOf
<1>1. ASSUME pc[r] = "audit", req'[r] = req[r], snap'[r] = snap[r]
      PROVE  SnapshotOf(r)'
  <2>1. PICK c \in Codes : c = Code(r)
    BY <1>1, ServedInput DEF WritesBound
  <2>2. FinalStep(c)
    BY EveryStepFinal DEF WritesBound
  <2> QED
    BY <1>1, <2>1, <2>2 DEF SnapshotsOK, SnapshotOf, FinalStep, Versions, Code
<1>2. CASE UNCHANGED vars
  BY <1>1, <1>2 DEF vars
<1>3. ASSUME NEW s \in Requests, OthersLeft(s), Statement(s)
      PROVE  SnapshotOf(r)'
  <2>1. CASE r # s
    BY <1>1, <1>3, <2>1 DEF OthersLeft
  <2>2. CASE r = s
    <3>1. Committed(s) \/ Removed(s)
      BY <1>3, <2>2 DEF Statement, Received, TurnedDown, Loaded, Audited,
                        Interrupted, ReadBack, Listed
    <3>2. req'[s] = req[s] /\ pc[s] \in {"write", "insert", "remove"}
      BY <3>1 DEF Committed, Removed, Commits
    <3>3. pc[s] = "write"
      BY <2>2, <3>2 DEF WritesBound, ControlOK, ControlOf
    <3> QED
      BY <2>2, <3>1, <3>3, MatchedSnapshot DEF Removed
  <2> QED
    BY <2>1, <2>2
<1> QED
  BY <1>2, <1>3, StatementOfOne DEF WritesBound

LEMMA InvariantInit == Init => DecisionInvariant
<1>1. Init => SnapshotsOK
  BY DEF Init, NothingHandled, SnapshotsOK, SnapshotOf
<1> QED
  BY <1>1, BoundInit DEF WritesBound, DecisionInvariant

LEMMA InvariantStep ==
  Lookahead = 0 /\ DecisionInvariant /\ [Next]_vars => DecisionInvariant'
  BY BoundStep, SnapshotStep DEF WritesBound, DecisionInvariant

\* The histories are complete, their successions legal, and every request in
\* flight is bound to the version it was checked against.
THEOREM InvariantHolds ==
  ASSUME Lookahead = 0
  PROVE  Spec => []DecisionInvariant
<1>1. DecisionInvariant /\ [Next]_vars => DecisionInvariant'
  BY InvariantStep
<1> QED
  BY InvariantInit, <1>1, PTL DEF Spec

\* What an entry in the audit log says of the version its request wrote.
TruthOf(entry, r, c) ==
  entry.action # "delete" =>
    /\ NewVersion(r) \in Versions(c)
    /\ revisions[c][NewVersion(r)].request = r
    /\ revisions[c][NewVersion(r)].state = entry.after
    /\ entry.action # "create" =>
         revisions[c][NewVersion(r) - 1].state = entry.before

\* An entry tells what its request knows when it is written.
LEMMA NewEntryTrue ==
  ASSUME DecisionInvariant, OutcomesOK, NEW s \in Requests, Audited(s),
         NEW e, e = AuditEntry(s, "draft"), NEW c, c = Code(s)
  PROVE  TruthOf(e, s, c)
<1>1. /\ e.action = req[s].op
      /\ req[s].op # "create" => e.before = snap[s].status
      /\ req[s].op = "create" => e.after = "draft"
      /\ req[s].op = "update" => e.after = snap[s].status
      /\ req[s].op = "transition" => e.after = req[s].target
  BY AuditEntryNames
<1>2. /\ Through(s) /\ ControlOf(s) /\ OutcomeOf(s) /\ SnapshotOf(s)
      /\ pc[s] = "audit"
  BY DEF Audited, Through, OutcomesOK, DecisionInvariant, ControlOK, SnapshotsOK
<1>3. req[s] \in Inputs(Users, Codes, Nat \ {0})
      /\ req[s].op \in AllOperations \ {"get"}
  BY <1>2 DEF ControlOf
<1>4. CASE req[s].op = "create"
  BY <1>1, <1>2, <1>4 DEF TruthOf, OutcomeOf, Kept, Writing
<1>5. CASE req[s].op \in {"update", "transition"}
  <2>1. Kept(s) /\ revisions[c][req[s].expected].state = snap[s].status
    BY <1>2, <1>5 DEF OutcomeOf, Writing, SnapshotOf
  <2>2. req[s].expected \in Nat
    BY <1>3, <1>5, InputType
  <2>3. NewVersion(s) - 1 = req[s].expected
    BY <1>5, <2>2 DEF NewVersion
  <2>4. req[s].op = "update" => snap[s].status = "draft"
    BY <1>2 DEF ControlOf, Refuses, RefusesUpdate
  <2> QED
    BY <1>1, <1>5, <2>1, <2>3, <2>4 DEF TruthOf, Kept
<1>6. CASE req[s].op = "delete"
  BY <1>1, <1>6 DEF TruthOf
<1> QED
  BY <1>3, <1>4, <1>5, <1>6 DEF AllOperations

\* What an entry tells stays so.
LEMMA TruthStays ==
  ASSUME TypeOK, ControlOK, HistoryComplete, OutcomesOK, [Next]_vars,
         NEW e \in audits, NEW r, r = e.request, NEW c, c = e.code,
         TruthOf(e, r, c)
  PROVE  TruthOf(e, r, c)'
<1>1. r \in Requests /\ e \in AuditsOf(r)
  BY DEF TypeOK, AuditLog, AuditsOf
<1>2. /\ ~Untouched(r) /\ c = Code(r) /\ e.action = req[r].op
  BY <1>1 DEF OutcomesOK, TraceOf
<1>3. pc[r] # "idle"
  BY <1>2 DEF Untouched
<1>4. /\ req'[r] = req[r] /\ req[r] \in Inputs(Users, Codes, Nat \ {0})
      /\ c \in Codes
  BY <1>1, <1>2, <1>3, InputStays, ServedInput
<1>5. CASE e.action = "delete"
  BY <1>5 DEF TruthOf
<1>6. CASE e.action # "delete"
  <2>1. NewVersion(r)' = NewVersion(r) /\ NewVersion(r) \in Versions(c)
    BY <1>4, <1>6 DEF NewVersion, TruthOf
  <2>2. \A v \in Versions(c) :
          v \in Versions(c)' /\ revisions'[c][v] = revisions[c][v]
    BY <1>4, EveryStepFinal DEF FinalStep, Versions
  <2>3. e.action # "create" => NewVersion(r) - 1 \in Versions(c)
    <3> SUFFICES ASSUME e.action # "create"
                 PROVE  NewVersion(r) - 1 \in Versions(c)
      OBVIOUS
    <3>1. CompleteHistory(c) /\ Stored(c)
      BY <1>4, <2>1 DEF HistoryComplete, CompleteHistory
    <3>2. Versions(c) = 1..rows[c].version /\ rows[c].version \in Nat
      BY <1>4, <3>1, VersionsMoveOn DEF CompleteHistory
    <3>3. req[r].op \in {"update", "transition"}
      <4>1. Writing(r)
        BY <1>1, <1>4, <1>6 DEF OutcomesOK, TraceOf, TruthOf
      <4> QED
        BY <1>2, <4>1 DEF Writing
    <3>4. req[r].expected \in Nat \ {0} /\ NewVersion(r) = req[r].expected + 1
      BY <1>4, <3>3, InputType DEF NewVersion
    <3> QED
      BY <2>1, <3>2, <3>4
  <2> QED
    BY <2>1, <2>2, <2>3 DEF TruthOf
<1> QED
  BY <1>5, <1>6

\* The audit entry of a create, update or transition says of the status
\* before and after what the history says, although it is made from the
\* request's snapshot after the change was committed.
THEOREM AuditTruthful ==
  ASSUME Lookahead = 0
  PROVE  Spec => []AuditTellsTheTruth
<1> DEFINE Truths == \A entry \in audits :
                       TruthOf(entry, entry.request, entry.code)
<1>1. Init => Truths
  BY DEF Init, NothingHandled
<1>2. DecisionInvariant /\ OutcomesOK /\ Truths /\ [Next]_vars => Truths'
  <2> SUFFICES ASSUME DecisionInvariant, OutcomesOK, Truths, [Next]_vars,
                      NEW e \in audits', NEW r, r = e.request,
                      NEW c, c = e.code
               PROVE  TruthOf(e, r, c)'
    OBVIOUS
  <2>1. CASE e \in audits
    BY <2>1, TruthStays DEF DecisionInvariant
  <2>2. ASSUME NEW s \in Requests, Audited(s), e \notin audits
        PROVE  TruthOf(e, r, c)'
    <3>1. e = AuditEntry(s, "draft")
      BY <2>2 DEF Audited
    <3>2. r = s /\ c = Code(s)
      BY <3>1, AuditEntryNames
    <3>3. TruthOf(e, r, c)
      BY <2>2, <3>1, <3>2, NewEntryTrue
    <3>4. NewVersion(s)' = NewVersion(s) /\ UNCHANGED revisions
      BY <2>2 DEF Audited, NewVersion
    <3> QED
      BY <3>2, <3>3, <3>4 DEF TruthOf, Versions
  <2>3. UNCHANGED audits \/ \E s \in Requests : Audited(s)
    BY StatementOfOne
    DEF DecisionInvariant, vars, Statement, Received, TurnedDown, Loaded,
        Committed, Removed, ReadBack, Listed, TablesLeft
  <2> QED
    BY <2>1, <2>2, <2>3
<1>3. Truths => AuditTellsTheTruth
  BY DEF TruthOf, AuditTellsTheTruth
<1> HIDE DEF Truths
<1> QED
  BY <1>1, <1>2, <1>3, InvariantHolds, OutcomesAlways, PTL DEF Spec

-----------------------------------------------------------------------------
(* Version conflicts *)

\* What the properties of conflicts are inductive with: the request wrote.
ConflictOf(r) ==
  Answered(r, "version_conflict") =>
    /\ req[r].op \in {"update", "transition"}
    /\ Stored(Code(r))
    /\ rows[Code(r)].deleted \/ rows[Code(r)].version > req[r].expected

LEMMA ConflictStep ==
  ASSUME DecisionInvariant, [Next]_vars, NEW r \in Requests, ConflictOf(r)
  PROVE  ConflictOf(r)'
<1> SUFFICES ASSUME Answered(r, "version_conflict")'
             PROVE  ConflictOf(r)'
  BY DEF ConflictOf
<1> USE DEF DecisionInvariant
<1>1. ASSUME pc[r] # "idle", req'[r] = req[r],
             req[r].op \in {"update", "transition"}, Stored(Code(r)),
             rows[Code(r)].deleted \/ rows[Code(r)].version > req[r].expected
      PROVE  ConflictOf(r)'
  <2>1. PICK c \in Codes : c = Code(r)
    BY <1>1, ServedInput
  <2>2. Code(r)' = c
    BY <1>1, <2>1 DEF Code
  <2>3. /\ Stored(c)' /\ rows[c].version \in Nat
        /\ rows[c].version <= rows'[c].version
    BY <1>1, <2>1, VersionsMoveOn
  <2>4. rows'[c] \in Row
    BY <2>3, TypeControlStep DEF TypeOK, Stored
  <2>5. rows'[c].version \in Nat
    BY <2>4 DEF Row
  <2>6. req[r].expected \in Nat
    BY <1>1, ServedInput, InputType
  <2>7. rows[c].deleted => rows'[c].deleted
    BY <1>1, <2>1, EveryStepFinal DEF FinalStep
  <2>8. rows'[c].deleted \/ rows'[c].version > req[r].expected
    BY <1>1, <2>1, <2>3, <2>5, <2>6, <2>7
  <2> QED
    BY <1>1, <2>2, <2>3, <2>8 DEF ConflictOf, Stored
<1>2. CASE UNCHANGED vars
  BY <1>1, <1>2 DEF vars, ConflictOf, Answered
<1>3. ASSUME NEW s \in Requests, OthersLeft(s), Statement(s)
      PROVE  ConflictOf(r)'
  <2>1. CASE r # s
    BY <1>1, <1>3, <2>1 DEF OthersLeft, ConflictOf, Answered
  <2>2. CASE r = s
    <3>1. pc[r] = "write" /\ ~Matches(Code(r), req[r].expected) /\ req'[r] = req[r]
      BY <1>3, <2>2 DEF Statement, Received, TurnedDown, Loaded, Committed,
                        Removed, Audited, Interrupted, ReadBack, Listed, Answered
    <3>2. PICK c \in Codes : c = Code(r)
      BY <3>1, ServedInput
    <3>3. /\ Stored(c) /\ req[r].expected <= snap[r].version
          /\ snap[r].version <= rows[c].version
      BY <3>1, <3>2 DEF ExpectationsOK, ExpectationOf
    <3>4. req[r].op \in {"update", "transition"} /\ snap[r] \in Row
      BY <3>1 DEF ControlOK, ControlOf
    <3>5. req[r].expected \in Nat
      BY <3>1, <3>4, ServedInput, InputType
    <3>6. snap[r].version \in Nat /\ rows[c] \in Row
      BY <3>3, <3>4 DEF TypeOK, Stored, Row
    <3>7. rows[c].version \in Nat
      BY <3>6 DEF Row
    <3>8. rows[c].deleted \/ rows[c].version > req[r].expected
      BY <3>1, <3>2, <3>3, <3>5, <3>6, <3>7 DEF Matches, Live
    <3> QED
      BY <1>1, <3>1, <3>2, <3>3, <3>4, <3>8
  <2> QED
    BY <2>1, <2>2
<1> QED
  BY <1>2, <1>3, StatementOfOne

\* A version conflict is never spurious: the decision has moved beyond the
\* version the client expected, or it is deleted.
THEOREM ConflictsHaveWinners ==
  ASSUME Lookahead = 0
  PROVE  Spec => []ConflictHasWinner
<1> DEFINE Conflicts == \A r \in Requests : ConflictOf(r)
<1>1. Init => Conflicts
  BY DEF Init, NothingHandled, ConflictOf, Answered
<1>2. DecisionInvariant /\ Conflicts /\ [Next]_vars => Conflicts'
  BY ConflictStep
<1>3. Conflicts => ConflictHasWinner
  BY DEF ConflictOf, ConflictHasWinner
<1> HIDE DEF Conflicts
<1> QED
  BY <1>1, <1>2, <1>3, InvariantHolds, PTL DEF Spec

-----------------------------------------------------------------------------
(* The ledger *)

\* A request that is served has passed the guard of its route.
GuardPassed ==
  \A r \in Requests : pc[r] \notin {"idle", "done"} =>
    Permitted(req[r].op, req[r].user)

LEMMA GuardStep == TypeOK /\ GuardPassed /\ [Next]_vars => GuardPassed'
<1> SUFFICES ASSUME TypeOK, GuardPassed, [Next]_vars, NEW r \in Requests,
                    pc'[r] \notin {"idle", "done"}
             PROVE  Permitted(req'[r].op, req'[r].user)
  BY DEF GuardPassed
<1>1. CASE UNCHANGED vars
  BY <1>1 DEF vars, GuardPassed
<1>2. ASSUME NEW s \in Requests, OthersLeft(s), Statement(s)
      PROVE  Permitted(req'[r].op, req'[r].user)
  <2>1. CASE r # s
    BY <1>2, <2>1 DEF OthersLeft, GuardPassed
  <2>2. CASE r = s /\ Received(s)
    BY <2>2 DEF Received
  <2>3. CASE r = s /\ ~Received(s)
    <3>1. req'[s] = req[s] /\ pc[s] \notin {"idle", "done"}
      BY <1>2, <2>3 DEF Statement, TurnedDown, Loaded, Committed, Commits,
                        Removed, Audited, ReadBack, Listed
    <3> QED
      BY <2>3, <3>1 DEF GuardPassed
  <2> QED
    BY <2>1, <2>2, <2>3
<1> QED
  BY <1>1, <1>2, StatementOfOne

\* Whoever writes has at least the rank of an operator.
LEMMA WriterRank ==
  ASSUME ControlOK, GuardPassed, NEW r \in Requests,
         pc[r] \in {"insert", "write"}
  PROVE  req[r].user \in Ledger!Writers
<1>1. req[r].op \in {"create", "update", "transition"} /\ req[r].user \in Users
  BY ServedInput, InputType DEF ControlOK, ControlOf
<1>2. Permitted(req[r].op, req[r].user)
  BY DEF GuardPassed
<1> QED
  BY <1>1, <1>2
  DEF Permitted, RequireMinimumRole, Users, roleRank, Ledger!Writers,
      Ledger!RequireMinimumRole, Ledger!Users, Ledger!roleRank

\* One version more in the history is one entry more in the journal.
LEMMA Entered ==
  ASSUME TypeOK, HistoryComplete, NEW c \in Codes,
         NEW n \in Nat, n = ledgerVersion[c], Stored(c) => ~rows[c].deleted,
         Stored(c)', rows'[c].version = n + 1, ~rows'[c].deleted,
         Versions(c)' = Versions(c) \cup {n + 1},
         \A v \in Versions(c) \ {n + 1} : revisions'[c][v] = revisions[c][v],
         \A d \in Codes \ {c} : rows'[d] = rows[d] /\ revisions'[d] = revisions[d],
         NEW state, state = revisions'[c][n + 1].state,
         NEW fields, fields = revisions'[c][n + 1].fields,
         NEW actor, actor = revisions'[c][n + 1].actor
  PROVE  Ledger!Enter(c, Ledger!Entry(state, fields, actor))
<1>1. Versions(c) = 1..n
  <2>1. CASE Stored(c)
    BY <2>1 DEF HistoryComplete, CompleteHistory, ledgerVersion
  <2>2. CASE ~Stored(c)
    <3>1. n = 0 /\ Versions(c) = {}
      BY <2>2 DEF HistoryComplete, CompleteHistory, ledgerVersion
    <3> QED
      BY <3>1
  <2> QED
    BY <2>1, <2>2
<1>2. ledgerVersion' = [ledgerVersion EXCEPT ![c] = n + 1]
  BY DEF ledgerVersion, Stored
<1>3. ledgerStruck' = ledgerStruck
  BY DEF ledgerStruck, Stored
<1>4. Versions(c)' = 1..(n + 1)
  BY <1>1
<1> DEFINE entry == Ledger!Entry(state, fields, actor)
           g == [v \in 1..(n + 1) |-> IF v = n + 1 THEN entry
                                       ELSE ledgerJournal[c][v]]
<1>5. ledgerJournal'[c] = g
  <2>1. ledgerJournal'[c] = [v \in Versions(c)' |->
                               [state  |-> revisions'[c][v].state,
                                fields |-> revisions'[c][v].fields,
                                actor  |-> revisions'[c][v].actor]]
    BY DEF ledgerJournal, Versions
  <2>2. ASSUME NEW v \in 1..(n + 1)
        PROVE  g[v] = [state  |-> revisions'[c][v].state,
                       fields |-> revisions'[c][v].fields,
                       actor  |-> revisions'[c][v].actor]
    <3>1. CASE v = n + 1
      BY <3>1 DEF Ledger!Entry
    <3>2. CASE v # n + 1
      <4>1. v \in Versions(c) \ {n + 1}
        BY <1>1, <3>2
      <4>2. ledgerJournal[c][v] = [state  |-> revisions[c][v].state,
                                   fields |-> revisions[c][v].fields,
                                   actor  |-> revisions[c][v].actor]
        BY <4>1 DEF ledgerJournal
      <4>3. revisions'[c][v] = revisions[c][v]
        BY <4>1
      <4> QED
        BY <3>2, <4>2, <4>3
    <3> QED
      BY <3>1, <3>2
  <2> QED
    BY <1>4, <2>1, <2>2
<1>6. ledgerJournal' = [ledgerJournal EXCEPT ![c] = g]
  BY <1>5 DEF ledgerJournal, Versions
<1> QED
  BY <1>2, <1>3, <1>6 DEF Ledger!Enter

LEMMA LedgerCreate ==
  ASSUME TypeOK, ControlOK, HistoryComplete, GuardPassed,
         NEW r \in Requests, pc[r] = "insert", req[r].fields \in ValidFields,
         CreateWithRevision(r, NewRow("draft", req[r].fields))
  PROVE  Ledger!LedgerNext
<1>1. PICK c : c = Code(r)
  OBVIOUS
<1>2. /\ c \in Codes /\ ~Stored(c)
      /\ rows'[c] \in Row
      /\ rows'[c] = NewRow("draft", req[r].fields)
      /\ Versions(c)' = Versions(c) \cup {1}
      /\ revisions'[c][1].state = "draft"
      /\ revisions'[c][1].fields = req[r].fields
      /\ revisions'[c][1].actor = req[r].user
      /\ \A w \in Versions(c) \ {1} : revisions'[c][w] = revisions[c][w]
      /\ \A d \in Codes \ {c} :
           rows'[d] = rows[d] /\ revisions'[d] = revisions[d]
  BY <1>1, CreateEffect
<1>3. ledgerVersion[c] = 0
  BY <1>2 DEF ledgerVersion
<1>4. Stored(c)' /\ rows'[c].version = 0 + 1 /\ ~rows'[c].deleted
  <2>1. rows'[c].version = 1 /\ rows'[c].deleted = FALSE
    BY <1>2 DEF NewRow
  <2>2. rows'[c] # NoRow
    BY <1>2
  <2> QED
    BY <2>1, <2>2 DEF Stored
<1>5. Ledger!Enter(c, Ledger!Entry("draft", req[r].fields, req[r].user))
  BY <1>2, <1>3, <1>4, Entered
<1>6. Ledger!Open(c)
  BY <1>3, <1>5, WriterRank DEF Ledger!Open
<1> QED
  BY <1>2, <1>6 DEF Ledger!LedgerNext

\* The newest entry of an open journal is what the row says.
LEMMA LatestEntry ==
  ASSUME HistoryComplete, NEW c \in Codes, Live(c), rows[c].version \in Nat \ {0}
  PROVE  /\ Ledger!Live(c)
         /\ ledgerVersion[c] = rows[c].version
         /\ Ledger!Latest(c).state = rows[c].status
         /\ Ledger!Latest(c).fields = rows[c].fields
<1>1. ledgerVersion[c] = rows[c].version /\ ~ledgerStruck[c]
  BY DEF Live, Stored, ledgerVersion, ledgerStruck
<1>2. /\ rows[c].version \in Versions(c)
      /\ revisions[c][rows[c].version].state = rows[c].status
      /\ revisions[c][rows[c].version].fields = rows[c].fields
  BY DEF Live, HistoryComplete, CompleteHistory
<1>3. ledgerJournal[c][rows[c].version].state = rows[c].status
      /\ ledgerJournal[c][rows[c].version].fields = rows[c].fields
  BY <1>2 DEF ledgerJournal
<1> QED
  BY <1>1, <1>3 DEF Ledger!Live, Ledger!Latest

LEMMA LedgerWrite ==
  ASSUME WritesBound, GuardPassed,
         NEW r \in Requests, pc[r] = "write",
         UpdateWithRevision(r, Changed(r))
  PROVE  Ledger!LedgerNext
<1> USE DEF WritesBound
<1>1. PICK c, v : c = Code(r) /\ v = rows[c].version + 1
  OBVIOUS
<1>2. /\ c \in Codes
      /\ rows[c] \in Row /\ ~rows[c].deleted
      /\ rows'[c] \in Row /\ ~rows'[c].deleted
      /\ rows'[c].version = v
      /\ Versions(c)' = Versions(c) \cup {v}
      /\ revisions'[c][v].state = Changed(r).status
      /\ revisions'[c][v].fields = Changed(r).fields
      /\ revisions'[c][v].actor = req[r].user
      /\ \A w \in Versions(c) \ {v} : revisions'[c][w] = revisions[c][w]
      /\ \A d \in Codes \ {c} :
           rows'[d] = rows[d] /\ revisions'[d] = revisions[d]
  BY <1>1, WriteEffect
<1>3. Live(c) /\ Stored(c)' /\ rows[c].version \in Nat \ {0}
  BY <1>2 DEF Live, Stored, Row
<1>4. /\ Ledger!Live(c) /\ ledgerVersion[c] = rows[c].version
      /\ Ledger!Latest(c).state = rows[c].status
      /\ Ledger!Latest(c).fields = rows[c].fields
  BY <1>2, <1>3, LatestEntry
<1>5. Ledger!Enter(c, Ledger!Entry(Changed(r).status, Changed(r).fields,
                                   req[r].user))
  BY <1>1, <1>2, <1>3, <1>4, Entered
<1>6. snap[r].status = rows[c].status /\ snap[r].fields = rows[c].fields
  BY <1>1, MatchedRow DEF UpdateWithRevision, Update
<1>7. /\ req[r] \in Inputs(Users, Codes, Nat \ {0})
      /\ req[r].op \in {"update", "transition"}
      /\ snap[r] \in Row /\ ~Refuses(snap[r], req[r])
  BY DEF ControlOK, ControlOf
<1>8. req[r].expected + 1 \in Nat \ {0}
  <2>1. req[r].expected \in Nat
    BY <1>7, InputType
  <2> QED
    BY <2>1
<1>9. req[r].user \in Ledger!Writers
  BY WriterRank
<1>10. CASE req[r].op = "update"
  <2>1. snap[r].status = "draft" /\ req[r].fields \in ValidFields
    BY <1>7, <1>10 DEF Refuses, RefusesUpdate
  <2>2. Changed(r).status = "draft" /\ Changed(r).fields = req[r].fields
    BY <1>7, <1>8, <1>10, <2>1, EditedType DEF Changed
  <2>3. Ledger!Amend(c)
    BY <1>4, <1>5, <1>6, <1>9, <2>1, <2>2 DEF Ledger!Amend
  <2> QED
    BY <1>2, <2>3 DEF Ledger!LedgerNext
<1>11. CASE req[r].op = "transition"
  <2>1. /\ CanTransition(ComplianceDecisionTransitions, snap[r].status,
                         req[r].target)
        /\ req[r].target \in Verdicts => req[r].user \in {"reviewer", "admin"}
    BY <1>7, <1>11 DEF Refuses, RefusesTransition
  <2>2. req[r].target \in Statuses
    BY <2>1, TransitionTarget
  <2>3. Changed(r).status = req[r].target /\ Changed(r).fields = snap[r].fields
    BY <1>7, <1>8, <1>11, <2>2, MovedType DEF Changed
  <2>4. req[r].target \in Ledger!States
    BY <2>2 DEF Ledger!States, Ledger!ComplianceDecisionTransitions,
                ComplianceDecisionTransitions
  <2>5. Ledger!CanTransition(Ledger!ComplianceDecisionTransitions,
                             Ledger!Latest(c).state, req[r].target)
    BY <1>4, <1>6, <2>1
    DEF Ledger!CanTransition, CanTransition,
        Ledger!ComplianceDecisionTransitions, ComplianceDecisionTransitions
  <2>6. Ledger!Enter(c, Ledger!Entry(req[r].target, Ledger!Latest(c).fields,
                                     req[r].user))
    BY <1>4, <1>5, <1>6, <2>3
  <2>7. Ledger!Move(c)
    BY <1>4, <1>9, <2>1, <2>4, <2>5, <2>6 DEF Ledger!Move, Ledger!Reviewers, Verdicts
  <2> QED
    BY <1>2, <2>7 DEF Ledger!LedgerNext
<1> QED
  BY <1>7, <1>10, <1>11

LEMMA LedgerDelete ==
  ASSUME TypeOK, ControlOK, HistoryComplete,
         NEW r \in Requests, pc[r] = "remove", Delete(Code(r)),
         UNCHANGED revisions
  PROVE  Ledger!LedgerNext
<1>1. PICK c : c = Code(r)
  OBVIOUS
<1>2. /\ c \in Codes
      /\ rows[c] \in Row /\ ~rows[c].deleted
      /\ rows'[c] = [rows[c] EXCEPT !.deleted = TRUE]
      /\ rows'[c] \in Row
      /\ rows'[c].version = rows[c].version
      /\ \A d \in Codes \ {c} : rows'[d] = rows[d]
  BY <1>1, DeleteEffect
<1>3. /\ Live(c) /\ Stored(c) /\ Stored(c)' /\ rows[c].version \in Nat \ {0}
      /\ rows'[c].deleted
  BY <1>2 DEF Live, Stored, Row
<1>4. Ledger!Live(c)
  BY <1>2, <1>3, LatestEntry
<1>5. ledgerVersion' = ledgerVersion /\ ledgerJournal' = ledgerJournal
  BY <1>2, <1>3 DEF ledgerVersion, ledgerJournal, Stored, Versions
<1>6. ledgerStruck' = [ledgerStruck EXCEPT ![c] = TRUE]
  BY <1>2, <1>3 DEF ledgerStruck, Stored
<1>7. Ledger!Strike(c)
  BY <1>4, <1>5, <1>6 DEF Ledger!Strike
<1> QED
  BY <1>2, <1>7 DEF Ledger!LedgerNext

\* A seeded decision opens with the one entry the seed wrote.
LEMMA LedgerStarts == Init => Ledger!LedgerInit
<1> SUFFICES ASSUME Init PROVE Ledger!LedgerInit
  OBVIOUS
<1>1. \A c \in Codes : rows[c] = NoRow \/
        (/\ rows[c] # NoRow /\ rows[c].version = 1 /\ rows[c].deleted = FALSE
         /\ rows[c].status \in Statuses /\ rows[c].fields \in ValidFields)
  <2> SUFFICES ASSUME NEW c \in Codes, rows[c] # NoRow
               PROVE  /\ rows[c].version = 1 /\ rows[c].deleted = FALSE
                      /\ rows[c].status \in Statuses
                      /\ rows[c].fields \in ValidFields
    OBVIOUS
  <2>1. PICK s \in Statuses, f \in ValidFields : rows[c] = NewRow(s, f)
    BY DEF Init, SeedRows
  <2> QED
    BY <2>1 DEF NewRow
<1>2. ledgerStruck = [c \in Codes |-> FALSE]
  BY <1>1 DEF ledgerStruck, Stored
<1>3. ledgerVersion \in [Codes -> {0, 1}]
  BY <1>1 DEF ledgerVersion, Stored
<1>4. ASSUME NEW c \in Codes
      PROVE  /\ DOMAIN ledgerJournal[c] = 1..ledgerVersion[c]
             /\ ledgerJournal[c] \in {<<>>} \cup
                  {<<Ledger!Entry(s, f, "system")>> :
                     s \in Ledger!States, f \in ValidFields}
  <2>1. revisions[c] = [v \in IF Stored(c) THEN {1} ELSE {} |->
                          newDecisionRevision(rows[c], "system", "seed")]
    BY DEF Init
  <2>2. ledgerJournal[c] = [v \in Versions(c) |->
                              [state  |-> revisions[c][v].state,
                               fields |-> revisions[c][v].fields,
                               actor  |-> revisions[c][v].actor]]
    BY DEF ledgerJournal
  <2>3. CASE ~Stored(c)
    <3>1. Versions(c) = {} /\ ledgerVersion[c] = 0
      BY <2>1, <2>3 DEF Versions, ledgerVersion
    <3>2. ledgerJournal[c] = <<>> /\ 1..0 = {}
      BY <2>2, <3>1
    <3> QED
      BY <2>2, <3>1, <3>2
  <2>4. CASE Stored(c)
    <3>1. Versions(c) = {1} /\ ledgerVersion[c] = 1
      BY <1>1, <2>1, <2>4 DEF Versions, ledgerVersion, Stored
    <3>2. /\ revisions[c][1].state = rows[c].status
          /\ revisions[c][1].fields = rows[c].fields
          /\ revisions[c][1].actor = "system"
      BY <2>1, <2>4 DEF newDecisionRevision
    <3> DEFINE entry == Ledger!Entry(rows[c].status, rows[c].fields, "system")
    <3>3. 1..1 = {1}
      OBVIOUS
    <3>4. ledgerJournal[c] = [v \in 1..1 |-> entry]
      BY <2>2, <3>1, <3>2, <3>3 DEF Ledger!Entry
    <3>5. [v \in 1..1 |-> entry] = <<entry>>
      BY <3>3
    <3>6. rows[c].status \in Ledger!States /\ rows[c].fields \in ValidFields
      BY <1>1, <2>4
      DEF Stored, Ledger!States, Ledger!ComplianceDecisionTransitions,
          ComplianceDecisionTransitions
    <3>7. <<entry>> \in {<<Ledger!Entry(s, f, "system")>> :
                           s \in Ledger!States, f \in ValidFields}
      BY <3>6
    <3> QED
      BY <3>1, <3>3, <3>4, <3>5, <3>7
  <2> QED
    BY <2>3, <2>4
<1>5. ledgerJournal \in [Codes -> {<<>>} \cup
        {<<Ledger!Entry(s, f, "system")>> :
           s \in Ledger!States, f \in ValidFields}]
  BY <1>4 DEF ledgerJournal
<1> QED
  BY <1>2, <1>3, <1>4, <1>5 DEF Ledger!LedgerInit

LEMMA LedgerStep ==
  WritesBound /\ GuardPassed /\ [Next]_vars =>
    [Ledger!LedgerNext]_(Ledger!ledgerVars)
<1> SUFFICES ASSUME WritesBound, GuardPassed, [Next]_vars
             PROVE  Ledger!LedgerNext \/ UNCHANGED Ledger!ledgerVars
  OBVIOUS
<1>1. CASE UNCHANGED <<rows, revisions>>
  BY <1>1 DEF Ledger!ledgerVars, ledgerVersion, ledgerJournal, ledgerStruck,
              Stored, Versions
<1> QED
  BY <1>1, StepCases, LedgerCreate, LedgerWrite, LedgerDelete DEF WritesBound

\* Every interleaving of the requests is a run of the ledger: as long as
\* clients expect versions they have read, the load, the check and the write
\* of an update or a transition act as one step.
THEOREM LedgerImplemented ==
  ASSUME Lookahead = 0
  PROVE  Spec => ImplementsLedger
<1>1. Init => GuardPassed
  BY DEF Init, NothingHandled, GuardPassed
<1>2. WritesBound /\ GuardPassed /\ [Next]_vars
        => WritesBound' /\ GuardPassed'
  BY BoundStep, GuardStep DEF WritesBound
<1> QED
  BY LedgerStarts, BoundInit, LedgerStep, <1>1, <1>2, PTL
  DEF Spec, ImplementsLedger, Ledger!LedgerSpec

=============================================================================
