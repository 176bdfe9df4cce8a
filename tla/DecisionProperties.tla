------------------------- MODULE DecisionProperties -------------------------
(***************************************************************************)
(* What must be true of ComplianceDecision.  Most of these relate the      *)
(* three records of a change that the code writes or sends separately: the *)
(* row with its history, the audit log, and the answer to the client.      *)
(***************************************************************************)
EXTENDS ComplianceDecision

Answered(r, answer) == pc[r] = "done" /\ reply[r] = answer

Writing(r) == req[r].op \in {"create", "update", "transition"}

Wrote(r) == Answered(r, "ok") /\ Writing(r)

\* The answers that say nothing was done.
Refusals == {"forbidden", "business_rule", "version_conflict"}

NewVersion(r) == IF req[r].op = "create" THEN 1 ELSE req[r].expected + 1

\* The decisions a request appended a revision to.
ChangedBy(r) ==
  {c \in Codes : \E v \in Versions(c) : revisions[c][v].request = r}

AuditsOf(r) == {entry \in audits : entry.request = r}

-----------------------------------------------------------------------------

\* Every variable has its type.
HistoriesOK ==
  /\ revisions = [c \in Codes |-> revisions[c]]
  /\ \A c \in Codes :
       /\ Versions(c) \subseteq Nat \ {0}
       /\ revisions[c] \in [Versions(c) -> Revision]

TypeOK ==
  /\ rows \in [Codes -> Row \cup {NoRow}]
  /\ HistoriesOK
  /\ audits \subseteq AuditLog
  /\ pc \in [Requests -> Steps]
  /\ req \in [Requests -> Inputs(Users, Codes, Nat \ {0}) \cup {NoInput}]
  /\ snap \in [Requests -> Row \cup {NoRow}]
  /\ reply \in [Requests -> Answers]
  /\ listed \in [Requests -> SUBSET (Nat \ {0})]

-----------------------------------------------------------------------------
(* The row and its history *)

\* The history of a decision holds exactly its versions 1, 2, ..., with no
\* gap and no version the row does not have, and the newest revision says
\* what the row says: CreateWithRevision and UpdateWithRevision keep two
\* tables together, and a soft delete touches one of them only.
CompleteHistory(c) ==
  IF Stored(c)
  THEN /\ Versions(c) = 1..rows[c].version
       /\ revisions[c][rows[c].version].state = rows[c].status
       /\ revisions[c][rows[c].version].fields = rows[c].fields
  ELSE Versions(c) = {}

HistoryComplete == \A c \in Codes : CompleteHistory(c)

\* Only a reviewer or an admin ever takes a decision to accepted or
\* escalated, whatever the other requests do between the role check of
\* Transition and its write.
ReviewerBoundary ==
  \A c \in Codes : \A v \in Versions(c) :
    v > 1 /\ revisions[c][v].state \in Verdicts
      => revisions[c][v].actor \in {"reviewer", "admin"}

\* Every two consecutive versions of a decision are one legal change apart:
\* an edit of a draft that leaves the status, or a status change along the
\* graph that leaves the fields.  So no status is skipped, no field changes
\* after review began, and no write undoes one it has not seen, although the
\* status check and the write are two statements.
LegalChange(old, new) ==
  \/ old.state = "draft" /\ new.state = "draft"
  \/ /\ CanTransition(ComplianceDecisionTransitions, old.state, new.state)
     /\ new.fields = old.fields

LegalSuccession ==
  \A c \in Codes : \A v \in Versions(c) :
    v > 1 => LegalChange(revisions[c][v - 1], revisions[c][v])

\* A step appends at most the next version to a history and changes no
\* revision already there, a row never goes back, and nothing happens to a
\* decision once it is deleted: no late write of a request that loaded it
\* before revives or changes it.
HistoryIsFinal ==
  [][\A c \in Codes :
       /\ Versions(c) \subseteq Versions(c)'
       /\ \A v \in Versions(c) : revisions'[c][v] = revisions[c][v]
       /\ Stored(c) /\ rows'[c] # rows[c] =>
            /\ ~rows[c].deleted
            /\ \/ rows'[c] = [rows[c] EXCEPT !.deleted = TRUE]
               \/ /\ rows'[c].version = rows[c].version + 1
                  /\ ~rows'[c].deleted
    ]_vars

-----------------------------------------------------------------------------
(* Answers *)

\* A create, update or transition answered with success stays in the history
\* for ever, under the version after the one the client expected, with the
\* client's name and what it asked for.  Two requests can not both be told
\* they wrote the same version.
Kept(r) ==
  LET c == Code(r) IN
  /\ NewVersion(r) \in Versions(c)
  /\ revisions[c][NewVersion(r)].request = r
  /\ revisions[c][NewVersion(r)].actor = req[r].user
  /\ req[r].op = "transition" =>
       revisions[c][NewVersion(r)].state = req[r].target
  /\ req[r].op # "transition" =>
       /\ revisions[c][NewVersion(r)].state = "draft"
       /\ revisions[c][NewVersion(r)].fields = req[r].fields

AcknowledgedWriteKept == \A r \in Requests : Wrote(r) => Kept(r)

\* Of the deletes of one decision exactly one is told it succeeded, and the
\* decision is gone when it is told.
OneDeleteSucceeds ==
  \A r, s \in Requests :
    /\ Answered(r, "ok") /\ req[r].op = "delete"
    /\ Answered(s, "ok") /\ req[s].op = "delete" /\ Code(s) = Code(r)
    => r = s /\ rows[Code(r)].deleted

\* A request refused for its role, a business rule or a version conflict
\* left nothing behind in the history or the audit log.  (An internal error
\* or a not-found answer says nothing of the kind: the change may have been
\* committed before a later statement failed or another request deleted the
\* decision.)
RefusedLeavesNoTrace ==
  \A r \in Requests :
    pc[r] = "done" /\ reply[r] \in Refusals
      => ChangedBy(r) = {} /\ AuditsOf(r) = {}

\* A version conflict is never spurious: the decision has moved beyond the
\* version the client expected, or it is deleted.
ConflictHasWinner ==
  \A r \in Requests : Answered(r, "version_conflict") =>
    LET row == rows[Code(r)] IN row.deleted \/ row.version > req[r].expected

\* The row and the revisions of an answer are read by two queries.  Whatever
\* is committed between them, the answer lists every revision up to the
\* version it shows (it may list newer ones), and a request that wrote sees
\* its own version or a later one.
AnswerCoversItsVersion ==
  \A r \in Requests : Answered(r, "ok") /\ req[r].op # "delete" =>
    /\ 1..snap[r].version \subseteq listed[r]
    /\ Wrote(r) => NewVersion(r) \in 1..snap[r].version

-----------------------------------------------------------------------------
(* The audit log *)

\* A transition or delete the client was told succeeded is in the audit log,
\* even when statements fail.
AcknowledgedIsAudited ==
  \A r \in Requests :
    Answered(r, "ok") /\ req[r].op \in {"transition", "delete"}
      => AuditsOf(r) # {}

\* The audit entry of a create, update or transition tells what the history
\* tells: the version the request wrote has the status after, the version
\* before it the status before, although the entry is made from the snapshot
\* of the request after the change was committed.
AuditTellsTheTruth ==
  \A entry \in audits :
    LET r == entry.request
        history == revisions[entry.code] IN
    entry.action # "delete" =>
      /\ NewVersion(r) \in Versions(entry.code)
      /\ history[NewVersion(r)].request = r
      /\ history[NewVersion(r)].state = entry.after
      /\ entry.action # "create" =>
           history[NewVersion(r) - 1].state = entry.before

\* Every revision a finished request made has its audit entry.  True as long
\* as no statement fails.
EveryChangeAudited ==
  \A r \in Requests :
    pc[r] = "done" /\ ChangedBy(r) # {} => AuditsOf(r) # {}

-----------------------------------------------------------------------------

\* Only drafts are deleted: RefusesDelete looks at the status.
OnlyDraftDeleted ==
  \A c \in Codes : Stored(c) /\ rows[c].deleted => rows[c].status = "draft"

\* Accepting a decision takes a review of that decision's last draft.
ReviewNotSkipped ==
  \A c \in Codes : \A v \in Versions(c) :
    v > 1 /\ revisions[c][v - 1].state = "draft"
      => revisions[c][v].state \in {"draft", "review"}

\* A request a handler has started on is answered.
EveryRequestAnswered ==
  \A r \in Requests : pc[r] # "idle" ~> pc[r] = "done"

-----------------------------------------------------------------------------
(* The inductive invariant *)

\* What each step of a handler may count on: the kind of request it serves,
\* and that the service did not refuse it on the snapshot it still holds.
ControlOf(r) ==
  /\ pc[r] # "idle" => req[r] \in Inputs(Users, Codes, Nat \ {0})
  /\ pc[r] = "insert" => req[r].op = "create"
  /\ pc[r] = "load" => req[r].op \in {"update", "transition", "delete"}
  /\ pc[r] = "write" => req[r].op \in {"update", "transition"}
  /\ pc[r] = "remove" => req[r].op = "delete"
  /\ pc[r] = "audit" => req[r].op \in AllOperations \ {"get"}
  /\ pc[r] \in {"write", "remove", "audit"} /\ req[r].op # "create" =>
       snap[r] \in Row /\ ~Refuses(snap[r], req[r])

ControlOK == \A r \in Requests : ControlOf(r)

\* How the expected version, the snapshot and the row are ordered when
\* clients expect versions they have read.  The UPDATE matches only when all
\* three versions are equal, and then the snapshot is the row.
ExpectationOf(r) ==
  /\ pc[r] = "load" /\ req[r].op # "delete" =>
       req[r].expected <= Known(Code(r))
  /\ pc[r] = "write" =>
       LET history == revisions[Code(r)]
           row == rows[Code(r)]
       IN /\ Stored(Code(r))
          /\ req[r].expected <= snap[r].version
          /\ snap[r].version <= row.version
          /\ history[snap[r].version].state = snap[r].status
          /\ history[snap[r].version].fields = snap[r].fields

ExpectationsOK == \A r \in Requests : ExpectationOf(r)

\* A request about to be audited still holds the version it wrote over.
SnapshotOf(r) ==
  pc[r] = "audit" /\ req[r].op \in {"update", "transition"} =>
    LET history == revisions[Code(r)] IN
    /\ req[r].expected \in Versions(Code(r))
    /\ history[req[r].expected].state = snap[r].status

SnapshotsOK == \A r \in Requests : SnapshotOf(r)

\* The facts that together survive every step: the histories are complete,
\* their successions legal, and every request in flight is bound to the
\* version it was checked against.
DecisionInvariant ==
  /\ TypeOK /\ ControlOK /\ HistoryComplete
  /\ ExpectationsOK /\ LegalSuccession /\ SnapshotsOK

-----------------------------------------------------------------------------
(* What a request has done at each of its statements *)

\* Nothing of the request is committed yet, or ever will be.
Untouched(r) ==
  \/ pc[r] \in {"idle", "load", "insert", "write", "remove"}
  \/ pc[r] = "done" /\ reply[r] \in Refusals

\* What it asked for is committed, and no failure was met since.
Through(r) == pc[r] \in {"audit", "read", "preload"} \/ Answered(r, "ok")

\* The row it shows, or is about to show.
Showing(r) == pc[r] = "preload" \/ (Answered(r, "ok") /\ req[r].op # "delete")

\* Where a request has left a trace, and that it left one: its revision is
\* the one version it was to write, its audit entry names what it did, and
\* the row it reads back is its own version or a later one.
TraceOf(r) ==
  /\ \A c \in Codes : \A v \in Versions(c) : revisions[c][v].request = r =>
       ~Untouched(r) /\ Writing(r) /\ c = Code(r) /\ v = NewVersion(r)
  /\ \A entry \in AuditsOf(r) :
       /\ ~Untouched(r) /\ pc[r] # "audit"
       /\ entry.code = Code(r) /\ entry.action = req[r].op

OutcomeOf(r) ==
  /\ Through(r) /\ Writing(r) => Kept(r)
  /\ Through(r) /\ req[r].op = "delete" =>
       Stored(Code(r)) /\ rows[Code(r)].deleted
  /\ Through(r) /\ pc[r] # "audit" /\ req[r].op \in {"transition", "delete"}
       => AuditsOf(r) # {}

AnswerOf(r) ==
  /\ Showing(r) =>
       /\ Stored(Code(r)) /\ snap[r] \in Row
       /\ snap[r].version <= rows[Code(r)].version
       /\ Writing(r) => NewVersion(r) <= snap[r].version
  /\ Answered(r, "ok") /\ req[r].op # "delete" =>
       1..snap[r].version \subseteq listed[r]

\* What holds of every request at every statement, whatever the others do:
\* the properties of answers are what it says of finished ones.
OutcomesOK == \A r \in Requests : TraceOf(r) /\ OutcomeOf(r) /\ AnswerOf(r)

\* With what it rests on, this survives every step, whatever versions clients
\* expect and whichever statements fail.
OutcomesInvariant == TypeOK /\ ControlOK /\ HistoryComplete /\ OutcomesOK

=============================================================================
