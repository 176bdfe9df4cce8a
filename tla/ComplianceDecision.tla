------------------------- MODULE ComplianceDecision -------------------------
(***************************************************************************)
(* The compliance decision aggregate: the handlers, the service and the    *)
(* repository behind /api/decisions, as any number of concurrent requests  *)
(* execute them against one database.                                      *)
(*                                                                         *)
(* The service reads the row, decides on that snapshot, and writes with    *)
(* WHERE version = expectedVersion, where expectedVersion is the CLIENT's: *)
(* snapshot and expectation are two different things, and most properties  *)
(* (DecisionProperties) are about what keeps them together.                *)
(***************************************************************************)
EXTENDS Naturals, Lifecycle, Handlers

CONSTANT
  Seeds  \* the statuses Seed gave the codes, with "absent" where it left
         \* some out

ASSUME DecisionAssumptions ==
  /\ Statuses = DOMAIN ComplianceDecisionTransitions
  /\ Seeds \subseteq Statuses \cup {"absent"}
  /\ "seed" \notin Requests  \* what Seed writes is no request's

VARIABLES
  revisions,  \* decision_revisions: per code, version -> revision
  listed      \* the revision versions a successful answer carries

vars == <<rows, revisions, audits, pc, req, snap, reply, listed>>

-----------------------------------------------------------------------------
(* Data *)

Verdicts == {"accepted", "escalated"}

\* A revision copies the evidence of the row it describes; evidence is the
\* part of fields a reader of the history sees.
Revision ==
  [state: Statuses, fields: Fields, actor: Users \cup {"system"},
   request: Requests \cup {"seed"}]

newDecisionRevision(item, actor, request) ==
  [state |-> item.status, fields |-> item.fields, actor |-> actor,
   request |-> request]

Versions(c) == DOMAIN revisions[c]

\* INSERT into decision_revisions, under its unique (decision, version) index.
AppendRevision(c, version, revision) ==
  revisions' = [revisions EXCEPT ![c] =
    [v \in Versions(c) \cup {version} |->
       IF v = version THEN revision ELSE revisions[c][v]]]

SeedRows ==
       {NewRow(s, f) : s \in Seeds \ {"absent"}, f \in ValidFields}
  \cup {row \in {NoRow} : "absent" \in Seeds}

Init ==
  /\ rows \in [Codes -> SeedRows]
  /\ revisions = [c \in Codes |->
                    [v \in IF Stored(c) THEN {1} ELSE {} |->
                       newDecisionRevision(rows[c], "system", "seed")]]
  /\ listed = [r \in Requests |-> {}]
  /\ NothingHandled

-----------------------------------------------------------------------------
(* Create *)

CreateWithRevision(r, item) ==
  /\ Insert(Code(r), item)
  /\ AppendRevision(Code(r), 1, newDecisionRevision(item, req[r].user, r))

Create(r) ==
  /\ pc[r] = "insert"
  /\ \/ /\ req[r].fields \notin ValidFields
        /\ Answer(r, "business_rule")
        /\ UNCHANGED <<rows, revisions>>
     \/ /\ req[r].fields \in ValidFields
        /\ CreateWithRevision(r, NewRow("draft", req[r].fields))
        /\ Goto(r, "audit")
     \/ /\ req[r].fields \in ValidFields
        /\ Stored(Code(r))  \* the unique index refuses the code
        /\ Answer(r, "internal_error")
        /\ UNCHANGED <<rows, revisions>>
  /\ UNCHANGED <<audits, req, snap, listed>>

-----------------------------------------------------------------------------
(* Update, Transition and Delete: load and decide *)

\* Mutant: the draft check of Update is forgotten.
RefusesUpdateOfBlanks(item, q) == q.fields \notin ValidFields

RefusesUpdate(item, q) ==
  item.status # "draft" \/ q.fields \notin ValidFields

\* Mutant: the role check covers accepted only.
RefusesAcceptance(item, q) ==
  \/ ~CanTransition(ComplianceDecisionTransitions, item.status, q.target)
  \/ q.target = "accepted" /\ q.user \notin {"reviewer", "admin"}

RefusesTransition(item, q) ==
  \/ ~CanTransition(ComplianceDecisionTransitions, item.status, q.target)
  \/ q.target \in Verdicts /\ q.user \notin {"reviewer", "admin"}

RefusesDelete(item) == item.status # "draft"

Refuses(item, q) ==
  CASE q.op = "update"     -> RefusesUpdate(item, q)
    [] q.op = "transition" -> RefusesTransition(item, q)
    [] q.op = "delete"     -> RefusesDelete(item)

Load(r) ==
  /\ LoadUnless(r, Refuses(rows[Code(r)], req[r]))
  /\ UNCHANGED <<revisions, listed>>

-----------------------------------------------------------------------------
(* Update and Transition: write the whole snapshot back *)

\* Mutant: only edits append a revision.
UpdateWithRevisionForEdits(r, item) ==
  /\ Update(Code(r), req[r].expected, item)
  /\ IF req[r].op = "update"
     THEN AppendRevision(Code(r), item.version,
                         newDecisionRevision(item, req[r].user, r))
     ELSE UNCHANGED revisions

UpdateWithRevision(r, item) ==
  /\ Update(Code(r), req[r].expected, item)
  /\ AppendRevision(Code(r), item.version,
                    newDecisionRevision(item, req[r].user, r))

\* Mutant: the revision is inserted first, outside the transaction.
WriteRevisionFirst(r) ==
  /\ pc[r] = "write"
  /\ Changed(r).version \notin Versions(Code(r))
  /\ AppendRevision(Code(r), Changed(r).version,
                    newDecisionRevision(Changed(r), req[r].user, r))
  /\ \/ Update(Code(r), req[r].expected, Changed(r)) /\ Goto(r, "audit")
     \/ /\ ~Matches(Code(r), req[r].expected)
        /\ Answer(r, "version_conflict")
        /\ UNCHANGED rows
  /\ UNCHANGED <<audits, req, snap, listed>>

Write(r) ==
  /\ pc[r] = "write"
  /\ \/ /\ Matches(Code(r), req[r].expected)
        \* a revision of that version would roll the transaction back
        /\ IF Changed(r).version \in Versions(Code(r))
           THEN /\ Answer(r, "internal_error")
                /\ UNCHANGED <<rows, revisions>>
           ELSE /\ UpdateWithRevision(r, Changed(r))
                /\ Goto(r, "audit")
     \/ /\ ~Matches(Code(r), req[r].expected)
        /\ Answer(r, "version_conflict")
        /\ UNCHANGED <<rows, revisions>>
  /\ UNCHANGED <<audits, req, snap, listed>>

-----------------------------------------------------------------------------
(* repository.Get: the row, then its revisions in a second query *)

\* Mutant: a decision deleted meanwhile is waited for.
ReadUntilFound(r) ==
  /\ pc[r] = "read"
  /\ Live(Code(r))
  /\ snap' = [snap EXCEPT ![r] = rows[Code(r)]]
  /\ Goto(r, "preload")
  /\ UNCHANGED <<rows, revisions, audits, req, listed>>

Read(r) ==
  /\ pc[r] = "read"
  /\ \/ /\ Live(Code(r))
        /\ snap' = [snap EXCEPT ![r] = rows[Code(r)]]
        /\ Goto(r, "preload")
     \/ /\ ~Live(Code(r))
        /\ Answer(r, "not_found")
        /\ UNCHANGED snap
  /\ UNCHANGED <<rows, revisions, audits, req, listed>>

\* Mutant: the preload is limited to one revision.
PreloadFirst(r) ==
  /\ pc[r] = "preload"
  /\ listed' = [listed EXCEPT ![r] = Versions(Code(r)) \cap {1}]
  /\ Answer(r, "ok")
  /\ UNCHANGED <<rows, revisions, audits, req, snap>>

Preload(r) ==
  /\ pc[r] = "preload"
  /\ listed' = [listed EXCEPT ![r] = Versions(Code(r))]
  /\ Answer(r, "ok")
  /\ UNCHANGED <<rows, revisions, audits, req, snap>>

-----------------------------------------------------------------------------

\* The steps every resource has, none of which writes a revision.
CommonStep(r) ==
  /\ \/ Remove(r)
     \/ Audit(r, "draft", {"delete"})
     \/ AuditFails(r, "draft", {"delete"})
     \/ Interrupt(r)
  /\ UNCHANGED <<revisions, listed>>

Handle(r) ==
  Create(r) \/ Load(r) \/ Write(r) \/ Read(r) \/ Preload(r) \/ CommonStep(r)

Start(r) == Receive(r) /\ UNCHANGED <<revisions, listed>>

\* Every request is answered: the only state in which nothing more happens.
AllAnswered ==
  /\ \A r \in Requests : pc[r] = "done"
  /\ UNCHANGED vars

Next ==
  \/ \E r \in Requests : Start(r) \/ Handle(r)
  \/ AllAnswered

Spec == Init /\ [][Next]_vars

\* A handler that has started runs on: nothing in it blocks for ever.
FairSpec == Spec /\ \A r \in Requests : WF_vars(Handle(r))

=============================================================================
