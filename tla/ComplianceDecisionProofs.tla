---------------------- MODULE ComplianceDecisionProofs ----------------------
(***************************************************************************)
(* Theorems about ComplianceDecision, for any number of requests, codes    *)
(* and field values.                                                       *)
(***************************************************************************)
EXTENDS DecisionProperties, HandlersProofs

USE DecisionAssumptions, HandlersAssumptions, NoRowAssumption

-----------------------------------------------------------------------------
(* Data *)

\* The statuses of the graph, one by one.
LEMMA StatusNames == Statuses = {"draft", "review", "accepted", "escalated"}
  BY DEF ComplianceDecisionTransitions

\* The graph leads to statuses only.
LEMMA TransitionTarget ==
  ASSUME NEW from, NEW to,
         CanTransition(ComplianceDecisionTransitions, from, to)
  PROVE  from \in Statuses /\ to \in Statuses
  BY StatusNames DEF CanTransition, ComplianceDecisionTransitions

\* The seeds are rows or none.
LEMMA SeedRowsType == SeedRows \subseteq Row \cup {NoRow}
  BY NewRowType DEF SeedRows

\* What an append to the history of one decision does to all of them.
LEMMA AppendHistory ==
  ASSUME HistoriesOK,
         NEW c \in Codes, NEW v \in Nat \ {0}, NEW rev \in Revision,
         AppendRevision(c, v, rev)
  PROVE  /\ HistoriesOK'
         /\ Versions(c)' = Versions(c) \cup {v}
         /\ revisions'[c][v] = rev
         /\ \A w \in Versions(c) \ {v} : revisions'[c][w] = revisions[c][w]
         /\ \A d \in Codes \ {c} : revisions'[d] = revisions[d]
<1> DEFINE g == [w \in Versions(c) \cup {v} |->
                   IF w = v THEN rev ELSE revisions[c][w]]
<1>1. /\ revisions'[c] = g
      /\ \A d \in Codes \ {c} : revisions'[d] = revisions[d]
      /\ revisions' = [d \in Codes |-> revisions'[d]]
  BY DEF HistoriesOK, AppendRevision
<1>2. Versions(c) \subseteq Nat \ {0} /\ revisions[c] \in [Versions(c) -> Revision]
  BY DEF HistoriesOK
<1>3. HistoriesOK'
  <2> SUFFICES ASSUME NEW d \in Codes
               PROVE  /\ DOMAIN revisions'[d] \subseteq Nat \ {0}
                      /\ revisions'[d] \in [DOMAIN revisions'[d] -> Revision]
    BY <1>1 DEF HistoriesOK, Versions
  <2>1. CASE d = c
    BY <1>1, <1>2, <2>1
  <2>2. CASE d # c
    BY <1>1, <2>2 DEF HistoriesOK, Versions
  <2> QED
    BY <2>1, <2>2
<1> QED
  BY <1>1, <1>3 DEF Versions

LEMMA RevisionType ==
  ASSUME NEW item \in Row, NEW actor \in Users \cup {"system"},
         NEW request \in Requests \cup {"seed"}
  PROVE  newDecisionRevision(item, actor, request) \in Revision
  BY DEF newDecisionRevision, Revision, Row

\* What Update and Transition write back is a row, one version beyond the
\* expected one, and the change is a legal one of the snapshot.
LEMMA ChangedType ==
  ASSUME NEW r \in Requests,
         snap[r] \in Row,
         req[r] \in Inputs(Users, Codes, Nat \ {0}),
         req[r].op \in {"update", "transition"},
         ~Refuses(snap[r], req[r])
  PROVE  /\ Changed(r) \in Row
         /\ Changed(r).version = req[r].expected + 1
         /\ Changed(r).deleted = snap[r].deleted
         /\ \/ snap[r].status = "draft" /\ Changed(r).status = "draft"
            \/ /\ CanTransition(ComplianceDecisionTransitions,
                                snap[r].status, Changed(r).status)
               /\ Changed(r).fields = snap[r].fields
         /\ Changed(r).status \in Verdicts
              => req[r].user \in {"reviewer", "admin"}
<1>1. req[r].expected + 1 \in Nat \ {0}
  <2>1. req[r].expected \in Nat \ {0}
    BY InputType
  <2> QED
    BY <2>1
<1>2. CASE req[r].op = "update"
  <2>1. req[r].fields \in Fields /\ snap[r].status = "draft"
    BY <1>2, InputType DEF Refuses, RefusesUpdate
  <2>2. Changed(r) = Edited(snap[r], req[r].fields, req[r].expected + 1)
    BY <1>2 DEF Changed
  <2> QED
    BY <1>1, <2>1, <2>2, EditedType DEF Verdicts
<1>3. CASE req[r].op = "transition"
  <2>1. /\ CanTransition(ComplianceDecisionTransitions, snap[r].status,
                         req[r].target)
        /\ req[r].target \in Verdicts => req[r].user \in {"reviewer", "admin"}
    BY <1>3 DEF Refuses, RefusesTransition
  <2>2. req[r].target \in Statuses
    BY <2>1, TransitionTarget
  <2>3. Changed(r) = Moved(snap[r], req[r].target, req[r].expected + 1)
    BY <1>3 DEF Changed
  <2> QED
    BY <1>1, <2>1, <2>2, <2>3, MovedType
<1> QED
  BY <1>2, <1>3

-----------------------------------------------------------------------------
(* Types and control *)

LEMMA TypeControlInit == Init => TypeOK /\ ControlOK
<1> SUFFICES ASSUME Init PROVE TypeOK /\ ControlOK
  OBVIOUS
<1>1. rows \in [Codes -> Row \cup {NoRow}]
  BY SeedRowsType DEF Init
<1>2. HistoriesOK
  <2> SUFFICES ASSUME NEW c \in Codes
               PROVE  /\ Versions(c) \subseteq Nat \ {0}
                      /\ revisions[c] \in [Versions(c) -> Revision]
    BY DEF HistoriesOK, Init
  <2>1. revisions[c] = [v \in IF Stored(c) THEN {1} ELSE {} |->
                          newDecisionRevision(rows[c], "system", "seed")]
    BY DEF Init
  <2>2. CASE ~Stored(c)
    BY <2>1, <2>2 DEF Versions
  <2>3. CASE Stored(c)
    <3>1. newDecisionRevision(rows[c], "system", "seed") \in Revision
      BY <1>1, <2>3, RevisionType DEF Stored
    <3> QED
      BY <2>1, <2>3, <3>1 DEF Versions
  <2> QED
    BY <2>2, <2>3
<1> QED
  BY <1>1, <1>2 DEF Init, NothingHandled, TypeOK, ControlOK, ControlOf,
                    Steps, Answers

\* A step of one request leaves what the others may count on.
LEMMA ControlFrame ==
  ASSUME NEW r \in Requests, ControlOK, ControlOf(r)',
         \A s \in Requests \ {r} :
           pc'[s] = pc[s] /\ req'[s] = req[s] /\ snap'[s] = snap[s]
  PROVE  ControlOK'
BY DEF ControlOK, ControlOf

LEMMA StartType ==
  ASSUME TypeOK, ControlOK, NEW r \in Requests, Start(r)
  PROVE  TypeOK' /\ ControlOK'
<1>1. PICK c \in Codes : \E q \in Inputs(Callers, {c}, 1..(Known(c) + Lookahead)) :
        /\ req' = [req EXCEPT ![r] = q]
        /\ IF Permitted(q.op, q.user) THEN Goto(r, FirstStep(q.op))
                                      ELSE Answer(r, "forbidden")
  BY DEF Start, Receive, Accept
<1>2. PICK q \in Inputs(Callers, {c}, 1..(Known(c) + Lookahead)) :
        /\ req' = [req EXCEPT ![r] = q]
        /\ IF Permitted(q.op, q.user) THEN Goto(r, FirstStep(q.op))
                                      ELSE Answer(r, "forbidden")
  BY <1>1
<1>3. Known(c) \in Nat
  BY DEF Known, Stored, TypeOK, Row
<1>4. q \in Inputs(Users, Codes, Nat \ {0})
  <2>1. 1..(Known(c) + Lookahead) \subseteq Nat \ {0}
    BY <1>3
  <2> QED
    BY <2>1, ClientInput
<1>5. /\ pc' \in [Requests -> Steps]
      /\ reply' \in [Requests -> Answers]
      /\ pc'[r] \in {FirstStep(q.op), "done"}
      /\ \A s \in Requests \ {r} : pc'[s] = pc[s]
  BY <1>2 DEF TypeOK, Goto, Answer, FirstStep, Steps, Answers
<1>6. UNCHANGED <<rows, audits, snap, revisions, listed>>
  BY DEF Start, Receive, Accept
<1>7. TypeOK'
  BY <1>2, <1>4, <1>5, <1>6 DEF TypeOK, HistoriesOK, Versions
<1>8. ControlOf(r)'
  BY <1>2, <1>4, <1>5, InputType DEF ControlOf, FirstStep, AllOperations, TypeOK
<1> QED
  BY <1>2, <1>5, <1>6, <1>7, <1>8, ControlFrame DEF TypeOK

LEMMA CreateType ==
  ASSUME TypeOK, ControlOK, NEW r \in Requests, Create(r)
  PROVE  TypeOK' /\ ControlOK'
<1> DEFINE c == Code(r)
           item == NewRow("draft", req[r].fields)
           rev == newDecisionRevision(item, req[r].user, r)
<1>1. /\ req[r] \in Inputs(Users, Codes, Nat \ {0})
      /\ req[r].op = "create"
  BY DEF Create, ControlOK, ControlOf
<1>2. c \in Codes /\ req[r].user \in Users /\ req[r].fields \in Fields
  BY <1>1, InputType DEF Code
<1>3. UNCHANGED <<audits, req, snap, listed>>
  BY DEF Create
<1>4. CASE UNCHANGED <<rows, revisions>> /\
           \E answer \in {"business_rule", "internal_error"} : Answer(r, answer)
  <2>1. TypeOK'
    BY <1>3, <1>4 DEF TypeOK, HistoriesOK, Versions, Answer, Steps, Answers
  <2>2. ControlOf(r)'
    BY <1>1, <1>3, <1>4 DEF ControlOf, Answer, TypeOK
  <2> QED
    BY <1>3, <1>4, <2>1, <2>2, ControlFrame DEF Answer, TypeOK
<1>5. CASE CreateWithRevision(r, item) /\ Goto(r, "audit")
  <2>1. item \in Row /\ rev \in Revision
    <3>1. item \in Row
      BY <1>2, NewRowType, StatusNames
    <3> QED
      BY <1>2, <3>1, RevisionType
  <2>2. rows' \in [Codes -> Row \cup {NoRow}]
    BY <1>2, <1>5, <2>1 DEF CreateWithRevision, Insert, TypeOK
  <2>3. AppendRevision(c, 1, rev)
    BY <1>5 DEF CreateWithRevision
  <2>4. HistoriesOK'
    BY <1>2, <2>1, <2>3, AppendHistory DEF TypeOK
  <2>5. TypeOK'
    BY <1>3, <1>5, <2>2, <2>4 DEF TypeOK, Goto, Steps
  <2>6. ControlOf(r)'
    BY <1>1, <1>3, <1>5 DEF ControlOf, Goto, TypeOK, AllOperations
  <2> QED
    BY <1>3, <1>5, <2>5, <2>6, ControlFrame DEF Goto, TypeOK
<1> QED
  BY <1>4, <1>5 DEF Create

LEMMA LoadType ==
  ASSUME TypeOK, ControlOK, NEW r \in Requests, Load(r)
  PROVE  TypeOK' /\ ControlOK'
<1> DEFINE c == Code(r)
<1>1. /\ req[r] \in Inputs(Users, Codes, Nat \ {0})
      /\ req[r].op \in {"update", "transition", "delete"}
  BY DEF Load, LoadUnless, ControlOK, ControlOf
<1>2. c \in Codes
  BY <1>1, InputType DEF Code
<1>3. UNCHANGED <<rows, audits, req, revisions, listed>>
  BY DEF Load, LoadUnless
<1>4. CASE UNCHANGED snap /\
           \E answer \in {"not_found", "business_rule"} : Answer(r, answer)
  <2>1. TypeOK'
    BY <1>3, <1>4 DEF TypeOK, HistoriesOK, Versions, Answer, Steps, Answers
  <2>2. ControlOf(r)'
    BY <1>1, <1>3, <1>4 DEF ControlOf, Answer, TypeOK
  <2> QED
    BY <1>3, <1>4, <2>1, <2>2, ControlFrame DEF Answer, TypeOK
<1>5. CASE /\ Live(c)
           /\ ~Refuses(rows[c], req[r])
           /\ snap' = [snap EXCEPT ![r] = rows[c]]
           /\ Goto(r, IF req[r].op = "delete" THEN "remove" ELSE "write")
  <2>1. rows[c] \in Row
    BY <1>2, <1>5 DEF Live, Stored, TypeOK
  <2>2. TypeOK'
    BY <1>3, <1>5, <2>1 DEF TypeOK, HistoriesOK, Versions, Goto, Steps
  <2>3. ControlOf(r)'
    BY <1>1, <1>3, <1>5, <2>1 DEF ControlOf, Goto, TypeOK
  <2> QED
    BY <1>3, <1>5, <2>2, <2>3, ControlFrame DEF Goto, TypeOK
<1> QED
  BY <1>4, <1>5 DEF Load, LoadUnless

LEMMA WriteType ==
  ASSUME TypeOK, ControlOK, NEW r \in Requests, Write(r)
  PROVE  TypeOK' /\ ControlOK'
<1> DEFINE c == Code(r)
           item == Changed(r)
           rev == newDecisionRevision(item, req[r].user, r)
<1>1. /\ req[r] \in Inputs(Users, Codes, Nat \ {0})
      /\ req[r].op \in {"update", "transition"}
      /\ snap[r] \in Row /\ ~Refuses(snap[r], req[r])
  BY DEF Write, ControlOK, ControlOf
<1>2. c \in Codes /\ req[r].user \in Users
  BY <1>1, InputType DEF Code
<1>3. UNCHANGED <<audits, req, snap, listed>>
  BY DEF Write
<1>4. CASE /\ UNCHANGED <<rows, revisions>>
           /\ \E answer \in {"version_conflict", "internal_error"} :
                Answer(r, answer)
  <2>1. TypeOK'
    BY <1>3, <1>4 DEF TypeOK, HistoriesOK, Versions, Answer, Steps, Answers
  <2>2. ControlOf(r)'
    BY <1>1, <1>3, <1>4 DEF ControlOf, Answer, TypeOK
  <2> QED
    BY <1>3, <1>4, <2>1, <2>2, ControlFrame DEF Answer, TypeOK
<1>5. CASE UpdateWithRevision(r, item) /\ Goto(r, "audit")
  <2>1. item \in Row /\ rev \in Revision
    <3>1. item \in Row
      BY <1>1, ChangedType
    <3> QED
      BY <1>2, <3>1, RevisionType
  <2>2. rows' \in [Codes -> Row \cup {NoRow}]
    <3>1. rows[c] \in Row
      BY <1>2, <1>5 DEF UpdateWithRevision, Update, Matches, Live, Stored,
                        TypeOK
    <3>2. [status |-> item.status, version |-> item.version,
           fields |-> item.fields, deleted |-> rows[c].deleted] \in Row
      BY <2>1, <3>1 DEF Row
    <3> QED
      BY <1>2, <1>5, <3>2 DEF UpdateWithRevision, Update, TypeOK
  <2>3. item.version \in Nat \ {0} /\ AppendRevision(c, item.version, rev)
    BY <1>5, <2>1 DEF UpdateWithRevision, Row
  <2>4. HistoriesOK'
    BY <1>2, <2>1, <2>3, AppendHistory DEF TypeOK
  <2>5. TypeOK'
    BY <1>3, <1>5, <2>2, <2>4 DEF TypeOK, Goto, Steps
  <2>6. ControlOf(r)'
    BY <1>1, <1>3, <1>5 DEF ControlOf, Goto, TypeOK, AllOperations
  <2> QED
    BY <1>3, <1>5, <2>5, <2>6, ControlFrame DEF Goto, TypeOK
<1> QED
  BY <1>4, <1>5 DEF Write

LEMMA ReadType ==
  ASSUME TypeOK, ControlOK, NEW r \in Requests, Read(r)
  PROVE  TypeOK' /\ ControlOK'
<1>1. req[r] \in Inputs(Users, Codes, Nat \ {0})
  BY DEF Read, ControlOK, ControlOf
<1>2. Code(r) \in Codes
  BY <1>1, InputType DEF Code
<1>3. UNCHANGED <<rows, revisions, audits, req, listed>>
  BY DEF Read
<1>4. /\ snap' \in [Requests -> Row \cup {NoRow}]
      /\ pc' \in [Requests -> Steps] /\ reply' \in [Requests -> Answers]
      /\ pc'[r] \in {"preload", "done"}
      /\ \A s \in Requests \ {r} : pc'[s] = pc[s] /\ snap'[s] = snap[s]
  BY <1>2 DEF Read, Goto, Answer, TypeOK, Steps, Answers
<1>5. TypeOK'
  BY <1>3, <1>4 DEF TypeOK, HistoriesOK, Versions
<1>6. ControlOf(r)'
  BY <1>1, <1>3, <1>4 DEF ControlOf
<1> QED
  BY <1>3, <1>4, <1>5, <1>6, ControlFrame

LEMMA PreloadType ==
  ASSUME TypeOK, ControlOK, NEW r \in Requests, Preload(r)
  PROVE  TypeOK' /\ ControlOK'
<1>1. req[r] \in Inputs(Users, Codes, Nat \ {0})
  BY DEF Preload, ControlOK, ControlOf
<1>2. Code(r) \in Codes
  BY <1>1, InputType DEF Code
<1>3. Versions(Code(r)) \subseteq Nat \ {0}
  BY <1>2 DEF TypeOK, HistoriesOK
<1>4. UNCHANGED <<rows, revisions, audits, req, snap>> /\ Answer(r, "ok")
  BY DEF Preload
<1>5. TypeOK'
  BY <1>3, <1>4 DEF TypeOK, HistoriesOK, Versions, Preload, Answer, Steps,
                    Answers
<1>6. ControlOf(r)'
  BY <1>1, <1>4 DEF ControlOf, Answer, TypeOK
<1> QED
  BY <1>4, <1>5, <1>6, ControlFrame DEF Answer, TypeOK

LEMMA CommonType ==
  ASSUME TypeOK, ControlOK, NEW r \in Requests, CommonStep(r)
  PROVE  TypeOK' /\ ControlOK'
<1>1. UNCHANGED <<revisions, listed>>
  BY DEF CommonStep
<1>2. pc[r] # "idle" => /\ req[r] \in Inputs(Users, Codes, Nat \ {0})
                        /\ Code(r) \in Codes
  BY InputType DEF ControlOK, ControlOf, Code
<1>3. CASE Remove(r)
  <2>1. UNCHANGED <<audits, req, snap>> /\ pc[r] = "remove"
    BY <1>3 DEF Remove
  <2>2. rows' \in [Codes -> Row \cup {NoRow}]
    <3>1. CASE Delete(Code(r))
      <4>1. [rows[Code(r)] EXCEPT !.deleted = TRUE] \in Row
        <5>1. rows[Code(r)] \in Row
          BY <1>2, <2>1, <3>1 DEF Delete, Live, Stored, TypeOK
        <5> QED
          BY <5>1 DEF Row
      <4> QED
        BY <3>1, <4>1 DEF Delete, TypeOK
    <3>2. CASE UNCHANGED rows
      BY <3>2 DEF TypeOK
    <3> QED
      BY <1>3, <3>1, <3>2 DEF Remove
  <2>3. /\ pc' \in [Requests -> Steps] /\ reply' \in [Requests -> Answers]
        /\ pc'[r] \in {"audit", "done"}
        /\ \A s \in Requests \ {r} : pc'[s] = pc[s]
    BY <1>3 DEF Remove, Goto, Answer, TypeOK, Steps, Answers
  <2>4. TypeOK'
    BY <1>1, <2>1, <2>2, <2>3 DEF TypeOK, HistoriesOK, Versions
  <2>5. ControlOf(r)'
    BY <1>2, <2>1, <2>3 DEF ControlOK, ControlOf, AllOperations
  <2> QED
    BY <2>1, <2>3, <2>4, <2>5, ControlFrame
<1>4. ASSUME /\ pc[r] # "idle"
             /\ UNCHANGED <<rows, req, snap>>
             /\ audits' \subseteq AuditLog
             /\ \/ \E answer \in Answers : Answer(r, answer)
                \/ Goto(r, "read")
      PROVE  TypeOK' /\ ControlOK'
  <2>1. /\ pc' \in [Requests -> Steps] /\ reply' \in [Requests -> Answers]
        /\ pc'[r] \in {"read", "done"}
        /\ \A s \in Requests \ {r} : pc'[s] = pc[s]
    BY <1>4 DEF Goto, Answer, TypeOK, Steps, Answers
  <2>2. TypeOK'
    BY <1>1, <1>4, <2>1 DEF TypeOK, HistoriesOK, Versions
  <2>3. ControlOf(r)'
    BY <1>2, <1>4, <2>1 DEF ControlOf
  <2> QED
    BY <1>4, <2>1, <2>2, <2>3, ControlFrame
<1>5. CASE Audit(r, "draft", {"delete"}) \/ AuditFails(r, "draft", {"delete"})
  <2>1. pc[r] = "audit" /\ req[r].op \in AllOperations \ {"get"}
    BY <1>5 DEF Audit, AuditFails, ControlOK, ControlOf
  <2>2. req[r].op # "create" => snap[r] \in Row /\ ~Refuses(snap[r], req[r])
    BY <2>1 DEF ControlOK, ControlOf
  <2>3. AuditEntry(r, "draft") \in AuditLog
    <3>1. /\ Code(r) = req[r].code /\ Code(r) \in Codes /\ "draft" \in Statuses
          /\ req[r].op # "create" => snap[r].status \in Statuses
      BY <1>2, <2>1, <2>2, StatusNames DEF Code, Row
    <3>2. req[r].op = "transition" => req[r].target \in Statuses
      BY <2>2, TransitionTarget DEF Refuses, RefusesTransition
    <3> QED
      BY <2>1, <3>1, <3>2 DEF AuditEntry, AuditLog, AllOperations
  <2>4. audits' \subseteq AuditLog
    BY <1>5, <2>3 DEF Audit, AuditFails, TypeOK
  <2>5. (\E answer \in Answers : Answer(r, answer)) \/ Goto(r, "read")
    BY <1>5 DEF Audit, AuditFails, AfterAudit, Answers
  <2>6. UNCHANGED <<rows, req, snap>>
    BY <1>5 DEF Audit, AuditFails
  <2> QED
    BY <1>4, <2>1, <2>4, <2>5, <2>6
<1>6. CASE Interrupt(r)
  BY <1>4, <1>6 DEF Interrupt, Answers, TypeOK
<1> QED
  BY <1>3, <1>5, <1>6 DEF CommonStep

LEMMA TypeControlStep == TypeOK /\ ControlOK /\ [Next]_vars => TypeOK' /\ ControlOK'
<1> SUFFICES ASSUME TypeOK, ControlOK, [Next]_vars
             PROVE  TypeOK' /\ ControlOK'
  OBVIOUS
<1>1. CASE UNCHANGED vars
  BY <1>1 DEF vars, TypeOK, HistoriesOK, Versions, ControlOK, ControlOf
<1>2. ASSUME NEW r \in Requests, Start(r) \/ Handle(r)
      PROVE  TypeOK' /\ ControlOK'
  BY <1>2, StartType, CreateType, LoadType, WriteType, ReadType, PreloadType,
     CommonType DEF Handle
<1> QED
  BY <1>1, <1>2 DEF Next, AllAnswered

\* Every variable keeps its type, and every step of a handler finds what it
\* counts on, whatever the other requests do.
THEOREM TypeCorrect == Spec => [](TypeOK /\ ControlOK)
  BY TypeControlInit, TypeControlStep, PTL DEF Spec

-----------------------------------------------------------------------------
(* The row and its history *)

\* The four things a step can do to the tables.
LEMMA StepCases ==
  ASSUME [Next]_vars
  PROVE  \/ UNCHANGED <<rows, revisions>>
         \/ \E r \in Requests :
              \/ /\ pc[r] = "insert" /\ req[r].fields \in ValidFields
                 /\ CreateWithRevision(r, NewRow("draft", req[r].fields))
              \/ /\ pc[r] = "write"
                 /\ UpdateWithRevision(r, Changed(r))
              \/ /\ pc[r] = "remove"
                 /\ Delete(Code(r)) /\ UNCHANGED revisions
<1>1. CASE UNCHANGED vars
  BY <1>1 DEF vars
<1>2. ASSUME NEW r \in Requests, Start(r) \/ Handle(r)
      PROVE  \/ UNCHANGED <<rows, revisions>>
             \/ /\ pc[r] = "insert" /\ req[r].fields \in ValidFields
                /\ CreateWithRevision(r, NewRow("draft", req[r].fields))
             \/ pc[r] = "write" /\ UpdateWithRevision(r, Changed(r))
             \/ pc[r] = "remove" /\ Delete(Code(r)) /\ UNCHANGED revisions
  <2>1. CASE Start(r)
    BY <2>1 DEF Start, Receive, Accept
  <2>2. CASE Create(r)
    BY <2>2 DEF Create
  <2>3. CASE Write(r)
    BY <2>3 DEF Write
  <2>4. CASE Load(r) \/ Read(r) \/ Preload(r)
    BY <2>4 DEF Load, LoadUnless, Read, Preload
  <2>5. CASE CommonStep(r)
    BY <2>5 DEF CommonStep, Remove, Audit, AuditFails, Interrupt
  <2> QED
    BY <1>2, <2>1, <2>2, <2>3, <2>4, <2>5 DEF Handle
<1> QED
  BY <1>1, <1>2 DEF Next, AllAnswered

\* A create opens a history with version 1, the row's.
LEMMA CreateEffect ==
  ASSUME TypeOK, ControlOK, NEW r \in Requests, pc[r] = "insert",
         req[r].fields \in ValidFields, NEW c, c = Code(r),
         CreateWithRevision(r, NewRow("draft", req[r].fields))
  PROVE  /\ c \in Codes /\ ~Stored(c) /\ req[r].user \in Users
         /\ rows'[c] \in Row
         /\ rows'[c] = NewRow("draft", req[r].fields)
         /\ Versions(c)' = Versions(c) \cup {1}
         /\ revisions'[c][1].state = "draft"
         /\ revisions'[c][1].fields = req[r].fields
         /\ revisions'[c][1].actor = req[r].user
         /\ revisions'[c][1].request = r
         /\ \A w \in Versions(c) \ {1} : revisions'[c][w] = revisions[c][w]
         /\ \A d \in Codes \ {c} :
              rows'[d] = rows[d] /\ revisions'[d] = revisions[d]
<1> DEFINE item == NewRow("draft", req[r].fields)
           rev == newDecisionRevision(item, req[r].user, r)
<1>1. c \in Codes /\ req[r].user \in Users
  BY InputType DEF ControlOK, ControlOf, Code
<1>2. item \in Row
  BY NewRowType, StatusNames
<1>3. rev \in Revision
  BY <1>1, <1>2, RevisionType
<1>4. /\ ~Stored(c)
      /\ rows' = [rows EXCEPT ![c] = item]
      /\ AppendRevision(c, 1, rev)
  BY DEF CreateWithRevision, Insert
<1>5. /\ rev.state = "draft" /\ rev.fields = req[r].fields
      /\ rev.actor = req[r].user /\ rev.request = r
  BY DEF newDecisionRevision, NewRow
<1>6. rows'[c] = item /\ \A d \in Codes \ {c} : rows'[d] = rows[d]
  BY <1>1, <1>4 DEF TypeOK
<1> HIDE DEF rev
<1>7. /\ Versions(c)' = Versions(c) \cup {1}
      /\ revisions'[c][1] = rev
      /\ \A w \in Versions(c) \ {1} : revisions'[c][w] = revisions[c][w]
      /\ \A d \in Codes \ {c} : revisions'[d] = revisions[d]
  BY <1>1, <1>3, <1>4, AppendHistory DEF TypeOK
<1> QED
  BY <1>1, <1>2, <1>4, <1>5, <1>6, <1>7

\* A write takes the row and its history on by one version, the changed
\* snapshot's.
LEMMA WriteEffect ==
  ASSUME TypeOK, ControlOK, NEW r \in Requests, pc[r] = "write",
         NEW c, c = Code(r), NEW v, v = rows[c].version + 1,
         UpdateWithRevision(r, Changed(r))
  PROVE  /\ c \in Codes /\ req[r].user \in Users
         /\ rows[c] \in Row /\ ~rows[c].deleted
         /\ rows[c].version = req[r].expected
         /\ rows'[c] \in Row /\ ~rows'[c].deleted
         /\ rows'[c].version = v
         /\ rows'[c].status = Changed(r).status
         /\ rows'[c].fields = Changed(r).fields
         /\ Versions(c)' = Versions(c) \cup {v}
         /\ revisions'[c][v].state = Changed(r).status
         /\ revisions'[c][v].fields = Changed(r).fields
         /\ revisions'[c][v].actor = req[r].user
         /\ revisions'[c][v].request = r
         /\ \A w \in Versions(c) \ {v} : revisions'[c][w] = revisions[c][w]
         /\ \A d \in Codes \ {c} :
              rows'[d] = rows[d] /\ revisions'[d] = revisions[d]
<1> DEFINE item == Changed(r)
           rev == newDecisionRevision(item, req[r].user, r)
           new == [status |-> item.status, version |-> item.version,
                   fields |-> item.fields, deleted |-> rows[c].deleted]
<1>1. /\ req[r] \in Inputs(Users, Codes, Nat \ {0})
      /\ req[r].op \in {"update", "transition"}
      /\ snap[r] \in Row /\ ~Refuses(snap[r], req[r])
  BY DEF ControlOK, ControlOf
<1>2. c \in Codes /\ req[r].user \in Users
  BY <1>1, InputType DEF Code
<1>3. item \in Row /\ item.version = req[r].expected + 1
  BY <1>1, ChangedType
<1>4. rev \in Revision
  BY <1>2, <1>3, RevisionType
<1>5. /\ Live(c) /\ rows[c].version = req[r].expected
      /\ rows' = [rows EXCEPT ![c] = new]
      /\ AppendRevision(c, item.version, rev)
  BY DEF UpdateWithRevision, Update, Matches
<1>6. rows[c] \in Row /\ ~rows[c].deleted
  BY <1>2, <1>5 DEF Live, Stored, TypeOK
<1>7. item.version = v /\ v \in Nat \ {0}
  BY <1>3, <1>5, <1>6 DEF Row
<1>8. rows'[c] = new /\ \A d \in Codes \ {c} : rows'[d] = rows[d]
  BY <1>2, <1>5 DEF TypeOK
<1>9. new \in Row /\ ~new.deleted
  BY <1>3, <1>6 DEF Row
<1>10. /\ rev.state = item.status /\ rev.fields = item.fields
       /\ rev.actor = req[r].user /\ rev.request = r
  BY DEF newDecisionRevision
<1> HIDE DEF item, rev
<1>11. /\ Versions(c)' = Versions(c) \cup {v}
       /\ revisions'[c][v] = rev
       /\ \A w \in Versions(c) \ {v} : revisions'[c][w] = revisions[c][w]
       /\ \A d \in Codes \ {c} : revisions'[d] = revisions[d]
  BY <1>2, <1>4, <1>5, <1>7, AppendHistory DEF TypeOK
<1>12. /\ rows'[c].version = v
       /\ rows'[c].status = item.status /\ rows'[c].fields = item.fields
  BY <1>7, <1>8
<1> USE DEF item
<1> QED
  BY <1>2, <1>5, <1>6, <1>8, <1>9, <1>10, <1>11, <1>12

\* A delete marks a live row and touches nothing else.
LEMMA DeleteEffect ==
  ASSUME TypeOK, ControlOK, NEW r \in Requests, pc[r] = "remove",
         NEW c, c = Code(r), Delete(c)
  PROVE  /\ c \in Codes
         /\ rows[c] \in Row /\ ~rows[c].deleted
         /\ rows'[c] = [rows[c] EXCEPT !.deleted = TRUE]
         /\ rows'[c] \in Row
         /\ rows'[c].version = rows[c].version
         /\ rows'[c].status = rows[c].status
         /\ rows'[c].fields = rows[c].fields
         /\ \A d \in Codes \ {c} : rows'[d] = rows[d]
<1>1. c \in Codes
  BY InputType DEF ControlOK, ControlOf, Code
<1>2. rows[c] \in Row /\ ~rows[c].deleted
  BY <1>1 DEF Delete, Live, Stored, TypeOK
<1>3. /\ rows'[c] = [rows[c] EXCEPT !.deleted = TRUE]
      /\ \A d \in Codes \ {c} : rows'[d] = rows[d]
  BY <1>1 DEF Delete, TypeOK
<1>4. [rows[c] EXCEPT !.deleted = TRUE] \in Row
  BY <1>2 DEF Row
<1> QED
  BY <1>1, <1>2, <1>3, <1>4 DEF Row

\* The seeds have one version each.
LEMMA HistoryInit == Init => HistoryComplete
<1> SUFFICES ASSUME Init, NEW c \in Codes
             PROVE  CompleteHistory(c)
  BY DEF HistoryComplete
<1>1. rows[c] \in SeedRows
  BY DEF Init
<1>2. CASE rows[c] = NoRow
  BY <1>2 DEF Init, CompleteHistory, Stored, Versions
<1>3. CASE rows[c] # NoRow
  <2>1. rows[c].version = 1
    BY <1>1, <1>3 DEF SeedRows, NewRow
  <2>2. revisions[c] = [v \in {1} |-> newDecisionRevision(rows[c], "system", "seed")]
    BY <1>3 DEF Init, Stored
  <2>3. Versions(c) = {1} /\ 1..1 = {1}
    BY <2>2 DEF Versions
  <2> QED
    BY <1>3, <2>1, <2>2, <2>3 DEF CompleteHistory, Stored, newDecisionRevision
<1> QED
  BY <1>2, <1>3

\* A row and a history that do not change stay complete.
LEMMA HistoryKept ==
  ASSUME NEW c, CompleteHistory(c),
         rows'[c] = rows[c], revisions'[c] = revisions[c]
  PROVE  CompleteHistory(c)'
  BY DEF CompleteHistory, Stored, Versions

LEMMA HistoryStep ==
  TypeOK /\ ControlOK /\ HistoryComplete /\ [Next]_vars => HistoryComplete'
<1> SUFFICES ASSUME TypeOK, ControlOK, HistoryComplete, [Next]_vars,
                    NEW d \in Codes
             PROVE  CompleteHistory(d)'
  BY DEF HistoryComplete
<1>0. CompleteHistory(d)
  BY DEF HistoryComplete
<1>1. CASE UNCHANGED <<rows, revisions>>
  BY <1>0, <1>1, HistoryKept
<1>2. ASSUME NEW r \in Requests, pc[r] = "insert", req[r].fields \in ValidFields,
             CreateWithRevision(r, NewRow("draft", req[r].fields))
      PROVE  CompleteHistory(d)'
  <2>1. PICK e : e = Code(r)
    OBVIOUS
  <2>2. /\ ~Stored(e) /\ rows'[e] \in Row
        /\ rows'[e] = NewRow("draft", req[r].fields)
        /\ Versions(e)' = Versions(e) \cup {1}
        /\ revisions'[e][1].state = "draft"
        /\ revisions'[e][1].fields = req[r].fields
        /\ \A x \in Codes \ {e} :
             rows'[x] = rows[x] /\ revisions'[x] = revisions[x]
    BY <1>2, <2>1, CreateEffect
  <2>3. CASE d # e
    BY <1>0, <2>2, <2>3, HistoryKept
  <2>4. CASE d = e
    <3>1. Versions(d) = {}
      BY <1>0, <2>2, <2>4 DEF CompleteHistory
    <3>2. rows'[d].version = 1 /\ rows'[d].status = "draft"
          /\ rows'[d].fields = req[r].fields /\ rows'[d] # NoRow
      BY <2>2, <2>4 DEF NewRow
    <3>3. Versions(d)' = 1..1
      BY <2>2, <2>4, <3>1
    <3> QED
      BY <2>2, <2>4, <3>2, <3>3 DEF CompleteHistory, Stored
  <2> QED
    BY <2>3, <2>4
<1>3. ASSUME NEW r \in Requests, pc[r] = "write", UpdateWithRevision(r, Changed(r))
      PROVE  CompleteHistory(d)'
  <2>1. PICK e, v : e = Code(r) /\ v = rows[e].version + 1
    OBVIOUS
  <2>2. /\ rows[e] \in Row /\ rows'[e] \in Row
        /\ rows'[e].version = v
        /\ rows'[e].status = Changed(r).status
        /\ rows'[e].fields = Changed(r).fields
        /\ Versions(e)' = Versions(e) \cup {v}
        /\ revisions'[e][v].state = Changed(r).status
        /\ revisions'[e][v].fields = Changed(r).fields
        /\ \A x \in Codes \ {e} :
             rows'[x] = rows[x] /\ revisions'[x] = revisions[x]
    BY <1>3, <2>1, WriteEffect
  <2>3. CASE d # e
    BY <1>0, <2>2, <2>3, HistoryKept
  <2>4. CASE d = e
    <3>1. Versions(d) = 1..rows[d].version /\ rows[d].version \in Nat \ {0}
      BY <1>0, <2>2, <2>4 DEF CompleteHistory, Stored, Row
    <3>2. 1..v = 1..rows[d].version \cup {v}
      BY <2>1, <2>4, <3>1
    <3> QED
      BY <2>2, <2>4, <3>1, <3>2 DEF CompleteHistory, Stored
  <2> QED
    BY <2>3, <2>4
<1>4. ASSUME NEW r \in Requests, pc[r] = "remove", Delete(Code(r)),
             UNCHANGED revisions
      PROVE  CompleteHistory(d)'
  <2>1. PICK e : e = Code(r)
    OBVIOUS
  <2>2. /\ rows[e] \in Row /\ rows'[e] \in Row
        /\ rows'[e].version = rows[e].version
        /\ rows'[e].status = rows[e].status
        /\ rows'[e].fields = rows[e].fields
        /\ \A x \in Codes \ {e} : rows'[x] = rows[x]
    BY <1>4, <2>1, DeleteEffect
  <2>3. CASE d # e
    BY <1>0, <1>4, <2>2, <2>3, HistoryKept
  <2>4. CASE d = e
    BY <1>0, <1>4, <2>2, <2>4 DEF CompleteHistory, Stored, Versions
  <2> QED
    BY <2>3, <2>4
<1> QED
  BY <1>1, <1>2, <1>3, <1>4, StepCases

\* The history of a decision holds exactly the versions of its row, whatever
\* versions clients expect and whichever statements fail.
THEOREM HistoryAlwaysComplete == Spec => []HistoryComplete
  BY TypeControlInit, TypeControlStep, HistoryInit, HistoryStep, PTL DEF Spec

\* What a write puts into the history: only a reviewer or an admin moves a
\* decision to a verdict.
LEMMA WriteRole ==
  ASSUME ControlOK, NEW r \in Requests, pc[r] = "write",
         Changed(r).status \in Verdicts
  PROVE  req[r].user \in {"reviewer", "admin"}
<1>1. /\ req[r] \in Inputs(Users, Codes, Nat \ {0})
      /\ req[r].op \in {"update", "transition"}
      /\ snap[r] \in Row /\ ~Refuses(snap[r], req[r])
  BY DEF ControlOK, ControlOf
<1> QED
  BY <1>1, ChangedType

LEMMA ReviewerStep ==
  TypeOK /\ ControlOK /\ ReviewerBoundary /\ [Next]_vars => ReviewerBoundary'
<1> SUFFICES ASSUME TypeOK, ControlOK, ReviewerBoundary, [Next]_vars,
                    NEW d \in Codes, NEW w \in DOMAIN revisions'[d],
                    w > 1, revisions'[d][w].state \in Verdicts
             PROVE  revisions'[d][w].actor \in {"reviewer", "admin"}
  BY DEF ReviewerBoundary, Versions
<1>0. w \in Versions(d) /\ revisions'[d][w] = revisions[d][w]
        => revisions'[d][w].actor \in {"reviewer", "admin"}
  BY DEF ReviewerBoundary
<1>1. CASE UNCHANGED revisions
  BY <1>0, <1>1 DEF Versions
<1>2. ASSUME NEW r \in Requests, pc[r] = "insert", req[r].fields \in ValidFields,
             CreateWithRevision(r, NewRow("draft", req[r].fields))
      PROVE  revisions'[d][w].actor \in {"reviewer", "admin"}
  <2>1. PICK e : e = Code(r)
    OBVIOUS
  <2>2. /\ Versions(e)' = Versions(e) \cup {1}
        /\ \A x \in Versions(e) \ {1} : revisions'[e][x] = revisions[e][x]
        /\ \A x \in Codes \ {e} : revisions'[x] = revisions[x]
    BY <1>2, <2>1, CreateEffect
  <2> QED
    BY <1>0, <2>2 DEF Versions
<1>3. ASSUME NEW r \in Requests, pc[r] = "write", UpdateWithRevision(r, Changed(r))
      PROVE  revisions'[d][w].actor \in {"reviewer", "admin"}
  <2>1. PICK e, v : e = Code(r) /\ v = rows[e].version + 1
    OBVIOUS
  <2>2. /\ Versions(e)' = Versions(e) \cup {v}
        /\ revisions'[e][v].state = Changed(r).status
        /\ revisions'[e][v].actor = req[r].user
        /\ \A x \in Versions(e) \ {v} : revisions'[e][x] = revisions[e][x]
        /\ \A x \in Codes \ {e} : revisions'[x] = revisions[x]
    BY <1>3, <2>1, WriteEffect
  <2>3. CASE d = e /\ w = v
    BY <1>3, <2>2, <2>3, WriteRole
  <2>4. CASE d # e \/ w # v
    BY <1>0, <2>2, <2>4 DEF Versions
  <2> QED
    BY <2>3, <2>4
<1> QED
  BY <1>1, <1>2, <1>3, StepCases

\* No interleaving lets anybody but a reviewer or an admin take a decision
\* to accepted or escalated: the role was checked against the target that is
\* written, and a write replaces no revision.
THEOREM OnlyReviewersDecide == Spec => []ReviewerBoundary
<1>1. Init => ReviewerBoundary
  BY DEF Init, ReviewerBoundary, Versions
<1> QED
  BY <1>1, TypeControlInit, TypeControlStep, ReviewerStep, PTL DEF Spec

\* What HistoryIsFinal says of one decision in one step.
FinalStep(c) ==
  /\ Versions(c) \subseteq DOMAIN revisions'[c]
  /\ \A v \in Versions(c) : revisions'[c][v] = revisions[c][v]
  /\ Stored(c) /\ rows'[c] # rows[c] =>
       /\ ~rows[c].deleted
       /\ \/ rows'[c] = [rows[c] EXCEPT !.deleted = TRUE]
          \/ /\ rows'[c].version = rows[c].version + 1
             /\ ~rows'[c].deleted

LEMMA EveryStepFinal ==
  ASSUME TypeOK, ControlOK, HistoryComplete, [Next]_vars, NEW d \in Codes
  PROVE  FinalStep(d)
<1>0. CompleteHistory(d)
  BY DEF HistoryComplete
<1>1. CASE UNCHANGED <<rows, revisions>>
  BY <1>1 DEF Versions, FinalStep
<1>2. ASSUME NEW r \in Requests, pc[r] = "insert",
             req[r].fields \in ValidFields,
             CreateWithRevision(r, NewRow("draft", req[r].fields))
      PROVE  FinalStep(d)
  <2>1. PICK e : e = Code(r)
    OBVIOUS
  <2>2. /\ ~Stored(e)
        /\ \A x \in Codes \ {e} :
             rows'[x] = rows[x] /\ revisions'[x] = revisions[x]
    BY <1>2, <2>1, CreateEffect
  <2>3. CASE d = e
    BY <1>0, <2>2, <2>3 DEF CompleteHistory, FinalStep
  <2> QED
    BY <2>2, <2>3 DEF Versions, FinalStep
<1>3. ASSUME NEW r \in Requests, pc[r] = "write",
             UpdateWithRevision(r, Changed(r))
      PROVE  FinalStep(d)
  <2>1. PICK e, v : e = Code(r) /\ v = rows[e].version + 1
    OBVIOUS
  <2>2. /\ rows[e] \in Row /\ ~rows[e].deleted
        /\ ~rows'[e].deleted /\ rows'[e].version = v
        /\ Versions(e)' = Versions(e) \cup {v}
        /\ \A x \in Versions(e) \ {v} : revisions'[e][x] = revisions[e][x]
        /\ \A x \in Codes \ {e} :
             rows'[x] = rows[x] /\ revisions'[x] = revisions[x]
    BY <1>3, <2>1, WriteEffect
  <2>3. CASE d = e
    <3>1. v \notin Versions(d)
      BY <1>0, <2>1, <2>2, <2>3 DEF CompleteHistory, Stored, Row
    <3> QED
      BY <2>1, <2>2, <2>3, <3>1 DEF Versions, FinalStep
  <2> QED
    BY <2>2, <2>3 DEF Versions, FinalStep
<1>4. ASSUME NEW r \in Requests, pc[r] = "remove", Delete(Code(r)),
             UNCHANGED revisions
      PROVE  FinalStep(d)
  <2>1. PICK e : e = Code(r)
    OBVIOUS
  <2>2. /\ ~rows[e].deleted
        /\ rows'[e] = [rows[e] EXCEPT !.deleted = TRUE]
        /\ \A x \in Codes \ {e} : rows'[x] = rows[x]
    BY <1>4, <2>1, DeleteEffect
  <2> QED
    BY <1>4, <2>2 DEF Versions, FinalStep
<1> QED
  BY <1>1, <1>2, <1>3, <1>4, StepCases

\* Histories only grow, rows only move to the next version or are deleted,
\* and a deleted decision never changes again.
THEOREM HistoryNeverRewritten == Spec => HistoryIsFinal
<1> DEFINE Step == [\A c \in Codes :
                      /\ Versions(c) \subseteq Versions(c)'
                      /\ \A v \in Versions(c) : revisions'[c][v] = revisions[c][v]
                      /\ Stored(c) /\ rows'[c] # rows[c] =>
                           /\ ~rows[c].deleted
                           /\ \/ rows'[c] = [rows[c] EXCEPT !.deleted = TRUE]
                              \/ /\ rows'[c].version = rows[c].version + 1
                                 /\ ~rows'[c].deleted]_vars
<1>1. TypeOK /\ ControlOK /\ HistoryComplete /\ [Next]_vars => Step
  BY EveryStepFinal DEF FinalStep, Versions
<1> QED
  BY <1>1, TypeControlInit, TypeControlStep, HistoryInit, HistoryStep, PTL
  DEF Spec, HistoryIsFinal

-----------------------------------------------------------------------------
(* The review lock, for clients that expect versions they have read *)

\* A decision's newest version only moves on.
LEMMA VersionsMoveOn ==
  ASSUME TypeOK, ControlOK, HistoryComplete, [Next]_vars, NEW c \in Codes
  PROVE  /\ Known(c) \in Nat \ {0} /\ Known(c) <= Known(c)'
         /\ Stored(c) => /\ Stored(c)'
                         /\ rows[c].version \in Nat \ {0}
                         /\ rows[c].version <= rows'[c].version
                         /\ \A v \in 1..rows[c].version :
                              revisions'[c][v] = revisions[c][v]
<1>0. rows[c] \in Row \cup {NoRow} /\ rows'[c] \in Row \cup {NoRow}
  BY TypeControlStep DEF TypeOK
<1>1. CASE ~Stored(c)
  BY <1>0, <1>1 DEF Known, Stored, Row
<1>2. CASE Stored(c)
  <2>1. rows[c] \in Row /\ FinalStep(c) /\ CompleteHistory(c)
    BY <1>0, <1>2, EveryStepFinal DEF Stored, HistoryComplete
  <2>2. rows[c].version \in Nat \ {0}
    BY <2>1 DEF Row
  <2>3. Versions(c) = 1..rows[c].version
    BY <1>2, <2>1 DEF CompleteHistory
  <2>4. rows'[c] # NoRow
    <3>1. CompleteHistory(c)'
      BY HistoryStep DEF HistoryComplete
    <3>2. 1 \in DOMAIN revisions'[c]
      BY <2>1, <2>2, <2>3 DEF FinalStep
    <3> QED
      BY <3>1, <3>2 DEF CompleteHistory, Stored, Versions
  <2>5. rows'[c].version \in Nat /\ rows[c].version <= rows'[c].version
    <3>1. rows'[c] \in Row
      BY <1>0, <2>4
    <3>2. rows'[c].version \in Nat
      BY <3>1 DEF Row
    <3>3. CASE rows'[c] = [rows[c] EXCEPT !.deleted = TRUE]
      BY <2>1, <2>2, <3>3 DEF Row
    <3> QED
      BY <1>2, <2>1, <2>2, <3>2, <3>3 DEF FinalStep
  <2> QED
    BY <1>2, <2>1, <2>2, <2>3, <2>4, <2>5 DEF Known, FinalStep, Stored
<1> QED
  BY <1>1, <1>2

\* What a step can do to a request that will load or write afterwards:
\* nothing, receive it, or load the row for it.
LEMMA RequestCases ==
  ASSUME [Next]_vars, NEW r \in Requests,
         pc \in [Requests -> Steps], snap \in [Requests -> Row \cup {NoRow}],
         req \in [Requests -> Inputs(Users, Codes, Nat \ {0}) \cup {NoInput}]
  PROVE  \/ pc'[r] = pc[r] /\ req'[r] = req[r] /\ snap'[r] = snap[r]
         \/ pc'[r] \notin {"load", "write"}
         \/ /\ UNCHANGED <<rows, revisions>>
            /\ pc'[r] = "load"
            /\ \E c \in Codes :
                 req'[r] \in Inputs(Callers, {c}, 1..(Known(c) + Lookahead))
         \/ /\ UNCHANGED <<rows, revisions>>
            /\ pc[r] = "load" /\ pc'[r] = "write"
            /\ req'[r] = req[r] /\ req[r].op # "delete"
            /\ Live(Code(r)) /\ snap'[r] = rows[Code(r)]
<1>1. CASE UNCHANGED vars
  BY <1>1 DEF vars
<1>2. ASSUME NEW s \in Requests, s # r, Start(s) \/ Handle(s)
      PROVE  pc'[r] = pc[r] /\ req'[r] = req[r] /\ snap'[r] = snap[r]
  <2>1. CASE Start(s)
    BY <1>2, <2>1 DEF Start, Receive, Accept, Goto, Answer
  <2>2. CASE Create(s)
    BY <1>2, <2>2 DEF Create, Goto, Answer
  <2>3. CASE Load(s)
    BY <1>2, <2>3 DEF Load, LoadUnless, Goto, Answer
  <2>4. CASE Write(s)
    BY <1>2, <2>4 DEF Write, Goto, Answer
  <2>5. CASE Read(s)
    BY <1>2, <2>5 DEF Read, Goto, Answer
  <2>6. CASE Preload(s)
    BY <1>2, <2>6 DEF Preload, Goto, Answer
  <2>7. CASE CommonStep(s)
    BY <1>2, <2>7
    DEF CommonStep, Remove, Audit, AuditFails, AfterAudit, Interrupt, Goto, Answer
  <2> QED
    BY <1>2, <2>1, <2>2, <2>3, <2>4, <2>5, <2>6, <2>7 DEF Handle
<1>3. CASE Start(r)
  <2>0. PICK c \in Codes :
          \E q \in Inputs(Callers, {c}, 1..(Known(c) + Lookahead)) :
            /\ req' = [req EXCEPT ![r] = q]
            /\ IF Permitted(q.op, q.user) THEN Goto(r, FirstStep(q.op))
                                          ELSE Answer(r, "forbidden")
    BY <1>3 DEF Start, Receive, Accept
  <2>1. PICK q \in Inputs(Callers, {c}, 1..(Known(c) + Lookahead)) :
          /\ req' = [req EXCEPT ![r] = q]
          /\ IF Permitted(q.op, q.user) THEN Goto(r, FirstStep(q.op))
                                        ELSE Answer(r, "forbidden")
    BY <2>0
  <2>2. req'[r] = q /\ pc'[r] \in {FirstStep(q.op), "done"}
    BY <2>1 DEF Goto, Answer
  <2>3. FirstStep(q.op) # "write"
    BY DEF FirstStep
  <2> QED
    BY <1>3, <2>2, <2>3 DEF Start, Receive, Accept
<1>4. CASE Load(r)
  BY <1>4 DEF Load, LoadUnless, Goto, Answer
<1>5. CASE Create(r) \/ Write(r) \/ Read(r) \/ Preload(r) \/ CommonStep(r)
  BY <1>5 DEF Create, Write, Read, Preload, CommonStep, Remove, Audit,
              AuditFails, AfterAudit, Interrupt, Goto, Answer
<1> QED
  BY <1>1, <1>2, <1>3, <1>4, <1>5 DEF Next, AllAnswered, Handle

\* The versions a request in flight is bound to stay in order.
LEMMA ExpectationStep ==
  Lookahead = 0 /\ TypeOK /\ ControlOK /\ HistoryComplete /\ ExpectationsOK
    /\ [Next]_vars => ExpectationsOK'
<1> SUFFICES ASSUME Lookahead = 0, TypeOK, ControlOK, HistoryComplete,
                    ExpectationsOK, [Next]_vars, NEW r \in Requests
             PROVE  ExpectationOf(r)'
  BY DEF ExpectationsOK
<1>1. ExpectationOf(r) /\ ControlOf(r)
  BY DEF ExpectationsOK, ControlOK
<1>2. CASE pc'[r] \notin {"load", "write"}
  BY <1>2 DEF ExpectationOf
<1>3. CASE /\ pc[r] \in {"load", "write"}
           /\ pc'[r] = pc[r] /\ req'[r] = req[r] /\ snap'[r] = snap[r]
  <2>1. PICK c \in Codes : c = Code(r) /\ c = req'[r].code
    BY <1>1, <1>3, InputType DEF ControlOf, Code
  <2>2. CASE pc[r] = "load"
    <3>1. req[r].op # "delete" => req[r].expected \in Nat \ {0}
      BY <1>1, <2>2, InputType DEF ControlOf
    <3>2. req[r].op # "delete" => req[r].expected <= Known(c)
      BY <1>1, <2>1, <2>2 DEF ExpectationOf
    <3>3. Known(c) \in Nat /\ Known(c)' \in Nat /\ Known(c) <= Known(c)'
      BY VersionsMoveOn, TypeControlStep DEF Known, TypeOK, Stored, Row
    <3> QED
      BY <1>3, <2>1, <2>2, <3>1, <3>2, <3>3 DEF ExpectationOf, Code, Known, Stored
  <2>3. CASE pc[r] = "write"
    <3>1. /\ Stored(c) /\ req[r].expected <= snap[r].version
          /\ snap[r].version <= rows[c].version
          /\ revisions[c][snap[r].version].state = snap[r].status
          /\ revisions[c][snap[r].version].fields = snap[r].fields
      BY <1>1, <2>1, <2>3 DEF ExpectationOf
    <3>2. snap[r] \in Row
      BY <1>1, <2>3 DEF ControlOf
    <3>3. snap[r].version \in Nat \ {0}
      BY <3>2 DEF Row
    <3>4. /\ Stored(c)' /\ rows[c].version \in Nat
          /\ rows[c].version <= rows'[c].version
          /\ \A v \in 1..rows[c].version : revisions'[c][v] = revisions[c][v]
      BY <3>1, VersionsMoveOn
    <3>5. rows'[c] \in Row
      BY <3>4, TypeControlStep DEF TypeOK, Stored
    <3>6. rows'[c].version \in Nat
      BY <3>5 DEF Row
    <3>7. snap[r].version <= rows'[c].version
      BY <3>1, <3>3, <3>4, <3>6
    <3>8. revisions'[c][snap[r].version] = revisions[c][snap[r].version]
      BY <3>1, <3>3, <3>4
    <3> QED
      BY <1>3, <2>1, <2>3, <3>1, <3>4, <3>7, <3>8 DEF ExpectationOf, Code, Stored
  <2> QED
    BY <1>3, <2>2, <2>3
<1>4. CASE /\ UNCHANGED <<rows, revisions>>
           /\ pc'[r] = "load"
           /\ \E c \in Codes :
                req'[r] \in Inputs(Callers, {c}, 1..(Known(c) + Lookahead))
  <2>1. PICK c \in Codes :
          req'[r] \in Inputs(Callers, {c}, 1..(Known(c) + Lookahead))
    BY <1>4
  <2>2. Known(c) \in Nat /\ Known(c)' = Known(c)
    BY <1>4, VersionsMoveOn DEF Known, Stored
  <2>3. req'[r].code = c
    BY <2>1, InputType
  <2>4. req'[r].op \in {"update", "transition"} => req'[r].expected <= Known(c)
    BY <2>1, <2>2, InputType
  <2>5. req'[r].op \in {"update", "transition", "delete"}
    BY <1>4, TypeControlStep DEF ControlOK, ControlOf
  <2> QED
    BY <1>4, <2>2, <2>3, <2>4, <2>5 DEF ExpectationOf, Code, Known, Stored
<1>5. CASE /\ UNCHANGED <<rows, revisions>>
           /\ pc[r] = "load" /\ pc'[r] = "write"
           /\ req'[r] = req[r] /\ req[r].op # "delete"
           /\ Live(Code(r)) /\ snap'[r] = rows[Code(r)]
  <2>1. PICK c \in Codes : c = Code(r) /\ c = req'[r].code
    BY <1>1, <1>5, InputType DEF ControlOf, Code
  <2>2. Stored(c) /\ snap'[r] = rows[c] /\ CompleteHistory(c)
    BY <1>5, <2>1 DEF Live, HistoryComplete
  <2>3. req[r].expected <= rows[c].version
    BY <1>1, <1>5, <2>1, <2>2 DEF ExpectationOf, Known
  <2>4. rows[c].version \in Nat
    BY <2>2, VersionsMoveOn
  <2> QED
    BY <1>5, <2>1, <2>2, <2>3, <2>4
    DEF ExpectationOf, Code, Stored, CompleteHistory
<1> QED
  BY <1>1, <1>2, <1>3, <1>4, <1>5, RequestCases DEF TypeOK

\* A write that matches is one legal change away from the newest revision.
LEMMA SuccessionStep ==
  TypeOK /\ ControlOK /\ HistoryComplete /\ ExpectationsOK /\ LegalSuccession
    /\ [Next]_vars => LegalSuccession'
<1> SUFFICES ASSUME TypeOK, ControlOK, HistoryComplete, ExpectationsOK,
                    LegalSuccession, [Next]_vars,
                    NEW d \in Codes, NEW w \in DOMAIN revisions'[d], w > 1
             PROVE  LegalChange(revisions'[d][w - 1], revisions'[d][w])
  BY DEF LegalSuccession, Versions
<1>1. FinalStep(d) /\ CompleteHistory(d)
  BY EveryStepFinal DEF HistoryComplete
<1>2. CASE w \in Versions(d)
  <2>1. Stored(d)
    BY <1>1, <1>2 DEF CompleteHistory
  <2>2. rows[d].version \in Nat /\ Versions(d) = 1..rows[d].version
    BY <1>1, <2>1, VersionsMoveOn DEF CompleteHistory
  <2>3. w - 1 \in Versions(d)
    BY <1>2, <2>2
  <2> QED
    BY <1>1, <1>2, <2>3 DEF FinalStep, LegalSuccession
<1>3. ASSUME NEW r \in Requests, pc[r] = "write",
             UpdateWithRevision(r, Changed(r)), w \notin Versions(d)
      PROVE  LegalChange(revisions'[d][w - 1], revisions'[d][w])
  <2>1. PICK e, v : e = Code(r) /\ v = rows[e].version + 1
    OBVIOUS
  <2>2. /\ e \in Codes /\ rows[e] \in Row /\ rows[e].version = req[r].expected
        /\ Versions(e)' = Versions(e) \cup {v}
        /\ revisions'[e][v].state = Changed(r).status
        /\ revisions'[e][v].fields = Changed(r).fields
        /\ \A x \in Versions(e) \ {v} : revisions'[e][x] = revisions[e][x]
        /\ \A x \in Codes \ {e} : revisions'[x] = revisions[x]
    BY <1>3, <2>1, WriteEffect
  <2>3. d = e /\ w = v
    BY <1>3, <2>2 DEF Versions
  <2>4. rows[e].version \in Nat \ {0} /\ Stored(e)
    BY <2>2 DEF Row, Stored
  <2>5. /\ req[r].expected <= snap[r].version
        /\ snap[r].version <= rows[e].version
        /\ revisions[e][snap[r].version].state = snap[r].status
        /\ revisions[e][snap[r].version].fields = snap[r].fields
    BY <1>3, <2>1 DEF ExpectationsOK, ExpectationOf
  <2>6. /\ req[r] \in Inputs(Users, Codes, Nat \ {0})
        /\ req[r].op \in {"update", "transition"}
        /\ snap[r] \in Row /\ ~Refuses(snap[r], req[r])
    BY <1>3 DEF ControlOK, ControlOf
  <2>7. snap[r].version \in Nat
    BY <2>6 DEF Row
  <2>8. w - 1 = rows[e].version /\ snap[r].version = rows[e].version
    BY <2>1, <2>2, <2>3, <2>4, <2>5, <2>7
  <2>9. revisions'[e][w - 1] = revisions[e][snap[r].version]
    BY <1>1, <2>3, <2>4, <2>8 DEF CompleteHistory, FinalStep
  <2> QED
    BY <2>2, <2>3, <2>5, <2>6, <2>9, ChangedType DEF LegalChange
<1>4. ASSUME NEW r \in Requests, pc[r] = "insert", req[r].fields \in ValidFields,
             CreateWithRevision(r, NewRow("draft", req[r].fields))
      PROVE  w \in Versions(d)
  <2>1. PICK e : e = Code(r)
    OBVIOUS
  <2>2. /\ Versions(e)' = Versions(e) \cup {1}
        /\ \A x \in Codes \ {e} : revisions'[x] = revisions[x]
    BY <1>4, <2>1, CreateEffect
  <2> QED
    BY <2>2 DEF Versions
<1>5. CASE UNCHANGED revisions
  BY <1>2, <1>5 DEF Versions
<1> QED
  BY <1>2, <1>3, <1>4, <1>5, StepCases

\* What ties a write to the version it was checked against.
WritesBound ==
  TypeOK /\ ControlOK /\ HistoryComplete /\ ExpectationsOK /\ LegalSuccession

LEMMA BoundInit == Init => WritesBound
<1>1. Init => TypeOK /\ ControlOK /\ HistoryComplete
  BY TypeControlInit, HistoryInit
<1>2. Init => ExpectationsOK
  BY DEF Init, NothingHandled, ExpectationsOK, ExpectationOf
<1>3. Init => LegalSuccession
  BY DEF Init, LegalSuccession, Versions
<1> QED
  BY <1>1, <1>2, <1>3 DEF WritesBound

LEMMA BoundStep == Lookahead = 0 /\ WritesBound /\ [Next]_vars => WritesBound'
  BY TypeControlStep, HistoryStep, ExpectationStep, SuccessionStep
  DEF WritesBound

\* When clients expect only versions they have read, consecutive versions of
\* a decision are one legal change apart: nothing is edited once review has
\* begun, no status is skipped and no write is lost.
THEOREM ReviewLockHolds ==
  ASSUME Lookahead = 0
  PROVE  Spec => []LegalSuccession
<1>1. WritesBound /\ [Next]_vars => WritesBound'
  BY BoundStep
<1>2. WritesBound => LegalSuccession
  BY DEF WritesBound
<1> QED
  BY BoundInit, <1>1, <1>2, PTL DEF Spec

=============================================================================
