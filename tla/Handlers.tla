------------------------------ MODULE Handlers ------------------------------
(***************************************************************************)
(* What the requests of all four resources have in common: the inputs gin  *)
(* binds, the guards of the routes, the audit entry, failing statements.   *)
(*                                                                         *)
(* A request is a goroutine running one handler; each SQL statement (or    *)
(* transaction) is one atomic step, and everything a handler computes      *)
(* between two statements is done with the step before it.                 *)
(***************************************************************************)
EXTENDS Naturals, Roles, Store

CONSTANTS
  Requests,     \* the requests of a behaviour, each sent once
  Operations,   \* the operations clients use
  Callers,      \* the roles they use them with
  ValidFields,  \* the fields without a blank name, facility or owner
  Lookahead,    \* how far beyond the version committed when a request is
                \* sent its expectedVersion may be: 0 for clients that send
                \* a version they have read
  Faults        \* whether statements may fail

AllOperations == {"get", "create", "update", "transition", "delete"}

ASSUME HandlersAssumptions ==
  /\ Operations \subseteq AllOperations
  /\ Callers \subseteq Users
  /\ ValidFields \subseteq Fields
  /\ Lookahead \in Nat
  /\ Faults \in BOOLEAN

VARIABLES
  audits,  \* the audit_logs entries
  pc,      \* the next statement of each request
  req,     \* the input of each request
  snap,    \* the row a request read last
  reply    \* the answer sent

Targets == Statuses \cup {"unknown"}

\* The requests that reach a handler: bound and validated by gin.
Inputs(users, codes, versions) ==
       [op: {"get", "delete"}, user: users, code: codes]
  \cup [op: {"create"}, user: users, code: codes, fields: Fields]
  \cup [op: {"update"}, user: users, code: codes, expected: versions,
        fields: Fields]
  \cup [op: {"transition"}, user: users, code: codes, expected: versions,
        target: Targets]

NoInput == [op |-> "none"]

Code(r) == req[r].code

Steps == {"idle", "load", "insert", "write", "remove", "audit", "read",
          "preload", "done"}

Answers == {"none", "ok", "forbidden", "not_found", "business_rule",
            "version_conflict", "internal_error"}

AuditLog ==
  [request: Requests, action: AllOperations, code: Codes,
   before: Statuses \cup {""}, after: Statuses \cup {"deleted"}]

NothingHandled ==
  /\ audits = {}
  /\ pc = [r \in Requests |-> "idle"]
  /\ req = [r \in Requests |-> NoInput]
  /\ snap = [r \in Requests |-> NoRow]
  /\ reply = [r \in Requests |-> "none"]

-----------------------------------------------------------------------------

Goto(r, step) ==
  /\ pc' = [pc EXCEPT ![r] = step]
  /\ UNCHANGED reply

Answer(r, answer) ==
  /\ pc' = [pc EXCEPT ![r] = "done"]
  /\ reply' = [reply EXCEPT ![r] = answer]

FirstStep(op) ==
  CASE op = "get"    -> "read"
    [] op = "create" -> "insert"
    [] OTHER         -> "load"

\* The newest version a client can have read when it sends a request.
Known(c) == IF Stored(c) THEN rows[c].version ELSE 1

\* Authentication, the role check of the route, then the handler.
Accept(r, q) ==
  /\ req' = [req EXCEPT ![r] = q]
  /\ IF Permitted(q.op, q.user) THEN Goto(r, FirstStep(q.op))
                                ELSE Answer(r, "forbidden")
  /\ UNCHANGED <<rows, audits, snap>>

\* Any client sends anything.
Receive(r) ==
  /\ pc[r] = "idle"
  /\ \E c \in Codes :
       \E q \in Inputs(Callers, {c}, 1..(Known(c) + Lookahead)) :
         q.op \in Operations /\ Accept(r, q)

\* The whole row is read; refused is what the service then says to it.
LoadUnless(r, refused) ==
  /\ pc[r] = "load"
  /\ \/ /\ ~Live(Code(r))
        /\ Answer(r, "not_found")
        /\ UNCHANGED snap
     \/ /\ Live(Code(r))
        /\ refused
        /\ Answer(r, "business_rule")
        /\ UNCHANGED snap
     \/ /\ Live(Code(r))
        /\ ~refused
        /\ snap' = [snap EXCEPT ![r] = rows[Code(r)]]
        /\ Goto(r, IF req[r].op = "delete" THEN "remove" ELSE "write")
  /\ UNCHANGED <<rows, audits, req>>

Edited(row, fields, version) ==
  [row EXCEPT !.fields = fields, !.version = version]

Moved(row, status, version) ==
  [row EXCEPT !.status = status, !.version = version]

\* The snapshot with the change applied: what Update and Transition write.
Changed(r) ==
  IF req[r].op = "update"
  THEN Edited(snap[r], req[r].fields, req[r].expected + 1)
  ELSE Moved(snap[r], req[r].target, req[r].expected + 1)

\* The DELETE names no version.
Remove(r) ==
  /\ pc[r] = "remove"
  /\ \/ /\ Delete(Code(r))
        /\ Goto(r, "audit")
     \/ /\ ~Live(Code(r))
        /\ Answer(r, "not_found")
        /\ UNCHANGED rows
  /\ UNCHANGED <<audits, req, snap>>

-----------------------------------------------------------------------------
(* The audit entry, written after the change is committed *)

\* Mutant: the state before is taken from the row as it is now.
AuditEntryAfterwards(r, initial) ==
  LET q == req[r] IN
  [request |-> r, action |-> q.op, code |-> q.code,
   before |-> IF q.op = "create" THEN "" ELSE rows[q.code].status,
   after  |-> CASE q.op = "create"     -> initial
                [] q.op = "update"     -> snap[r].status
                [] q.op = "transition" -> q.target
                [] q.op = "delete"     -> "deleted"]

AuditEntry(r, initial) ==
  LET q == req[r] IN
  [request |-> r, action |-> q.op, code |-> q.code,
   before |-> IF q.op = "create" THEN "" ELSE snap[r].status,
   after  |-> CASE q.op = "create"     -> initial
                [] q.op = "update"     -> snap[r].status
                [] q.op = "transition" -> q.target
                [] q.op = "delete"     -> "deleted"]

\* Operations in final answer at once; the others read the row back.
AfterAudit(r, final) ==
  IF req[r].op \in final THEN Answer(r, "ok") ELSE Goto(r, "read")

\* Mutant: edits are not audited.
AuditMoves(r, initial, final) ==
  /\ pc[r] = "audit"
  /\ audits' = audits \cup {entry \in {AuditEntry(r, initial)} :
                             entry.action # "update"}
  /\ AfterAudit(r, final)
  /\ UNCHANGED <<rows, req, snap>>

Audit(r, initial, final) ==
  /\ pc[r] = "audit"
  /\ audits' = audits \cup {AuditEntry(r, initial)}
  /\ AfterAudit(r, final)
  /\ UNCHANGED <<rows, req, snap>>

\* Mutant: the error is dropped by every operation, as Create and Update do.
AuditFailsUnnoticed(r, initial, final) ==
  /\ Faults
  /\ pc[r] = "audit"
  /\ audits' \in {audits, audits \cup {AuditEntry(r, initial)}}
  /\ AfterAudit(r, final)
  /\ UNCHANGED <<rows, req, snap>>

\* The INSERT of the entry fails, or is executed and only its answer lost.
\* Create and Update drop that error; Transition and Delete report it, the
\* change being committed all the same.  Any of the four is told of an
\* internal error, or of nothing, when it was the answer to its commit that
\* was lost or when the process dies.
AuditFails(r, initial, final) ==
  /\ Faults
  /\ pc[r] = "audit"
  /\ audits' \in {audits, audits \cup {AuditEntry(r, initial)}}
  /\ \/ req[r].op \in {"create", "update"} /\ AfterAudit(r, final)
     \/ Answer(r, "internal_error")
  /\ UNCHANGED <<rows, req, snap>>

\* A statement fails, the client goes away (its context is cancelled) or the
\* process dies: nothing of the current transaction stays, and the client is
\* told of an internal error or of nothing.  An answer of the database
\* that is lost is the failure of the statement after it.
Interrupt(r) ==
  /\ Faults
  /\ pc[r] \in {"load", "insert", "write", "remove", "read", "preload"}
  /\ Answer(r, "internal_error")
  /\ UNCHANGED <<rows, audits, req, snap>>

=============================================================================
