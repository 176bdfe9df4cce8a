-------------------------- MODULE VersionedRecords --------------------------
(***************************************************************************)
(* Capture units, permit rules and emission samples: three resources with  *)
(* the same handlers, service and repository but for their status graph    *)
(* and initial status, and one audit log between them.  Unlike a decision, *)
(* a record keeps no history, its fields may change in every status, it    *)
(* may be deleted in every status, and no transition asks for a reviewer.  *)
(*                                                                         *)
(* Each resource has a table of its own and its codes in it, so a code of  *)
(* the model names the resource as well as the record.                     *)
(***************************************************************************)
EXTENDS Naturals, Lifecycle, Handlers

CONSTANTS
  CaptureUnits, PermitRules, EmissionSamples,  \* the codes of each resource
  Seeds  \* the statuses Seed gave the codes; it left out a code that can
         \* have none of them

Transitions(c) ==
  CASE c \in CaptureUnits    -> CaptureUnitTransitions
    [] c \in PermitRules     -> PermitRuleTransitions
    [] c \in EmissionSamples -> EmissionSampleTransitions

ASSUME RecordsAssumptions ==
  /\ Codes = CaptureUnits \cup PermitRules \cup EmissionSamples
  /\ CaptureUnits \cap PermitRules = {}
  /\ CaptureUnits \cap EmissionSamples = {}
  /\ PermitRules \cap EmissionSamples = {}
  /\ \A c \in Codes : DOMAIN Transitions(c) \subseteq Statuses
  /\ Seeds \subseteq Statuses

VARIABLE
  written  \* history variable: the changes committed to each code, by
           \* version; the program keeps no such record

vars == <<rows, written, audits, pc, req, snap, reply>>

Change == [request: Requests, before: Statuses \cup {""}, after: Statuses]

Note(r, version, before, after) ==
  written' = [written EXCEPT ![Code(r)] =
    [v \in DOMAIN written[Code(r)] \cup {version} |->
       IF v = version THEN [request |-> r, before |-> before, after |-> after]
                      ELSE written[Code(r)][v]]]

SeedRows(c) ==
  LET statuses == Seeds \cap DOMAIN Transitions(c) IN
  IF statuses = {} THEN {NoRow}
  ELSE {NewRow(s, f) : s \in statuses, f \in ValidFields}

Init ==
  /\ rows \in [Codes -> UNION {SeedRows(c) : c \in Codes}]
  /\ \A c \in Codes : rows[c] \in SeedRows(c)
  /\ written = [c \in Codes |-> <<>>]
  /\ NothingHandled

-----------------------------------------------------------------------------
(* One service *)

Create(r, initial) ==
  /\ pc[r] = "insert"
  /\ \/ /\ req[r].fields \notin ValidFields
        /\ Answer(r, "business_rule")
        /\ UNCHANGED <<rows, written>>
     \/ /\ req[r].fields \in ValidFields
        /\ Insert(Code(r), NewRow(initial, req[r].fields))
        /\ Note(r, 1, "", initial)
        /\ Goto(r, "audit")
     \/ /\ req[r].fields \in ValidFields
        /\ Stored(Code(r))  \* the unique index refuses the code
        /\ Answer(r, "internal_error")
        /\ UNCHANGED <<rows, written>>
  /\ UNCHANGED <<audits, req, snap>>

Refuses(item, q, graph) ==
  CASE q.op = "update"     -> q.fields \notin ValidFields
    [] q.op = "transition" -> ~CanTransition(graph, item.status, q.target)
    [] q.op = "delete"     -> FALSE

Load(r, graph) ==
  /\ LoadUnless(r, Refuses(rows[Code(r)], req[r], graph))
  /\ UNCHANGED written

Write(r) ==
  /\ pc[r] = "write"
  /\ \/ /\ Update(Code(r), req[r].expected, Changed(r))
        /\ Note(r, Changed(r).version, rows[Code(r)].status,
                Changed(r).status)
        /\ Goto(r, "audit")
     \/ /\ ~Matches(Code(r), req[r].expected)
        /\ Answer(r, "version_conflict")
        /\ UNCHANGED <<rows, written>>
  /\ UNCHANGED <<audits, req, snap>>

Read(r) ==
  /\ pc[r] = "read"
  /\ \/ /\ Live(Code(r))
        /\ snap' = [snap EXCEPT ![r] = rows[Code(r)]]
        /\ Answer(r, "ok")
     \/ /\ ~Live(Code(r))
        /\ Answer(r, "not_found")
        /\ UNCHANGED snap
  /\ UNCHANGED <<rows, written, audits, req>>

\* Create answers with the row it inserted, Delete with nothing; the others
\* read the row back.
CommonStep(r, initial) ==
  /\ \/ Remove(r)
     \/ Audit(r, initial, {"create", "delete"})
     \/ AuditFails(r, initial, {"create", "delete"})
     \/ Interrupt(r)
  /\ UNCHANGED written

Serve(r, graph, initial) ==
  \/ Create(r, initial) \/ Load(r, graph) \/ Write(r) \/ Read(r)
  \/ CommonStep(r, initial)

-----------------------------------------------------------------------------
(* The three of them *)

CaptureUnitService(r) ==
  /\ req[r] # NoInput /\ Code(r) \in CaptureUnits
  /\ Serve(r, CaptureUnitTransitions, "standby")

PermitRuleService(r) ==
  /\ req[r] # NoInput /\ Code(r) \in PermitRules
  /\ Serve(r, PermitRuleTransitions, "draft")

EmissionSampleService(r) ==
  /\ req[r] # NoInput /\ Code(r) \in EmissionSamples
  /\ Serve(r, EmissionSampleTransitions, "collected")

Start(r) == Receive(r) /\ UNCHANGED written

Handle(r) ==
  CaptureUnitService(r) \/ PermitRuleService(r) \/ EmissionSampleService(r)

AllAnswered ==
  /\ \A r \in Requests : pc[r] = "done"
  /\ UNCHANGED vars

Next ==
  \/ \E r \in Requests : Start(r) \/ Handle(r)
  \/ AllAnswered

Spec == Init /\ [][Next]_vars

-----------------------------------------------------------------------------
(* Properties *)

WrittenOK ==
  /\ written = [c \in Codes |-> written[c]]
  /\ \A c \in Codes : /\ DOMAIN written[c] \subseteq Nat \ {0}
                      /\ written[c] \in [DOMAIN written[c] -> Change]

\* Every variable has its type, and no record a status of another resource.
TypeOK ==
  /\ rows \in [Codes -> Row \cup {NoRow}]
  /\ \A c \in Codes : Stored(c) => rows[c].status \in DOMAIN Transitions(c)
  /\ WrittenOK
  /\ audits \subseteq AuditLog
  /\ pc \in [Requests -> Steps]
  /\ req \in [Requests -> Inputs(Users, Codes, Nat \ {0}) \cup {NoInput}]
  /\ snap \in [Requests -> Row \cup {NoRow}]
  /\ reply \in [Requests -> Answers]

Answered(r, answer) == pc[r] = "done" /\ reply[r] = answer

\* The answers that say nothing was done.
Refusals == {"forbidden", "business_rule", "version_conflict"}

Writing(r) == req[r].op \in {"create", "update", "transition"}

NewVersion(r) == IF req[r].op = "create" THEN 1 ELSE req[r].expected + 1

Committed(r, c, v) == v \in DOMAIN written[c] /\ written[c][v].request = r

\* A record changes one version at a time, by an edit that leaves the status
\* or by a move along its graph that leaves the fields, although the check
\* and the write of Transition are two statements and Update writes the
\* status it loaded; and a deleted record never changes again.
OneLegalChangeAtATime ==
  [][\A c \in Codes : Stored(c) /\ rows'[c] # rows[c] =>
       LET old == rows[c]
           new == rows'[c]
       IN /\ ~old.deleted
          /\ \/ new = [old EXCEPT !.deleted = TRUE]
             \/ /\ new.version = old.version + 1
                /\ ~new.deleted
                /\ \/ new.status = old.status
                   \/ /\ CanTransition(Transitions(c), old.status, new.status)
                      /\ new.fields = old.fields
    ]_vars

\* A write the client was told succeeded made the version after the one it
\* expected, and no other write made that version; a request told of a
\* conflict, a rule or its role made none.
AnswersAreTrue ==
  \A r \in Requests :
    /\ Answered(r, "ok") /\ Writing(r) => Committed(r, Code(r), NewVersion(r))
    /\ pc[r] = "done" /\ reply[r] \in Refusals
         => \A c \in Codes : \A v \in DOMAIN written[c] : ~Committed(r, c, v)

\* The audit entry of a create, update or transition, made from the snapshot
\* of the request, tells what its write did to the status.  (That of a delete
\* may not: the row may have moved since it was loaded.)
EntryTrue(r, entry) ==
  LET change == written[entry.code][NewVersion(r)] IN
  /\ Committed(r, entry.code, NewVersion(r))
  /\ change.before = entry.before
  /\ change.after = entry.after

AuditTellsTheTruth ==
  \A entry \in audits :
    entry.action # "delete" => EntryTrue(entry.request, entry)

\* A status changes by a transition only, which the graph allows and the
\* audit log shows: an edit, writing back the whole row it loaded, never does.
EditsKeepStatus ==
  \A c \in Codes : \A v \in DOMAIN written[c] :
    req[written[c][v].request].op = "update"
      => written[c][v].before = written[c][v].after

-----------------------------------------------------------------------------
(* The inductive invariant *)

\* What a service may count on at each statement of a request it serves.
ControlOf(r) ==
  /\ pc[r] # "idle" => req[r] \in Inputs(Users, Codes, Nat \ {0})
  /\ pc[r] = "insert" => req[r].op = "create"
  /\ pc[r] = "load" => req[r].op \in {"update", "transition", "delete"}
  /\ pc[r] = "write" => req[r].op \in {"update", "transition"}
  /\ pc[r] = "remove" => req[r].op = "delete"
  /\ pc[r] = "audit" => req[r].op \in AllOperations \ {"get"}
  /\ pc[r] \in {"write", "remove", "audit"} /\ req[r].op # "create" =>
       /\ snap[r] \in Row
       /\ snap[r].status \in DOMAIN Transitions(Code(r))
       /\ ~Refuses(snap[r], req[r], Transitions(Code(r)))

ControlOK == \A r \in Requests : ControlOf(r)

\* The request has committed nothing, and if it is done it never will.
Untouched(r) ==
  \/ pc[r] \in {"idle", "load", "insert", "write", "remove"}
  \/ pc[r] = "done" /\ reply[r] \in Refusals

\* What it asked for is committed, and no failure was met since.
Through(r) == pc[r] \in {"audit", "read"} \/ Answered(r, "ok")

\* A request has changed a record only after its write, only its own record,
\* and only to the version it was to make; and it has made that one when it
\* gets past its write.
TraceOf(r) ==
  /\ \A c \in Codes : \A v \in DOMAIN written[c] : Committed(r, c, v) =>
       ~Untouched(r) /\ Writing(r) /\ c = Code(r) /\ v = NewVersion(r)
  /\ Through(r) /\ Writing(r) => Committed(r, Code(r), NewVersion(r))

\* No version was made that the row has not reached.
ReachedOK ==
  \A c \in Codes : \A v \in DOMAIN written[c] :
    Stored(c) /\ v <= rows[c].version

TracesOK == ReachedOK /\ \A r \in Requests : TraceOf(r)

\* How the expected version, the snapshot and the row are ordered when
\* clients expect versions they have read: an UPDATE that matches finds the
\* row the service checked, although Transition and Update write it back
\* from memory.
ExpectationOf(r) ==
  /\ pc[r] = "load" /\ req[r].op # "delete" =>
       req[r].expected <= Known(Code(r))
  /\ pc[r] = "write" =>
       LET row == rows[Code(r)] IN
       /\ Stored(Code(r))
       /\ req[r].expected <= snap[r].version
       /\ snap[r].version <= row.version
       /\ snap[r].version = row.version =>
            snap[r].status = row.status /\ snap[r].fields = row.fields

ExpectationsOK == \A r \in Requests : ExpectationOf(r)

\* The status a record of each resource begins with.
Initial(c) ==
  CASE c \in CaptureUnits    -> "standby"
    [] c \in PermitRules     -> "draft"
    [] c \in EmissionSamples -> "collected"

ChangeOf(r) == written[Code(r)][NewVersion(r)]

\* A request about to be audited holds what its write did to the status.
SnapshotOf(r) ==
  pc[r] = "audit" /\ Writing(r) =>
    /\ req[r].op = "create" =>
         ChangeOf(r).before = "" /\ ChangeOf(r).after = Initial(Code(r))
    /\ req[r].op # "create" => ChangeOf(r).before = snap[r].status
    /\ req[r].op = "update" => ChangeOf(r).after = snap[r].status
    /\ req[r].op = "transition" => ChangeOf(r).after = req[r].target

SnapshotsOK == \A r \in Requests : SnapshotOf(r)

\* The facts that together survive every step: every change was made by the
\* request it names, and every request in flight is bound to the version it
\* was checked against.
RecordsInvariant ==
  TypeOK /\ ControlOK /\ TracesOK /\ ExpectationsOK /\ SnapshotsOK

=============================================================================
