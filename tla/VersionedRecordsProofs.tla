----------------------- MODULE VersionedRecordsProofs -----------------------
(***************************************************************************)
(* Theorems about capture units, permit rules and emission samples, for    *)
(* any number of requests, codes and field values.                         *)
(***************************************************************************)
EXTENDS VersionedRecords, HandlersProofs

USE RecordsAssumptions, HandlersAssumptions, NoRowAssumption

-----------------------------------------------------------------------------
(* The three graphs *)

\* What Create notes for the status before.
NoStatus == ""

LEMMA OneOfThree ==
  ASSUME NEW c \in Codes
  PROVE  \/ /\ c \in CaptureUnits /\ c \notin PermitRules \cup EmissionSamples
            /\ Transitions(c) = CaptureUnitTransitions /\ Initial(c) = "standby"
         \/ /\ c \in PermitRules /\ c \notin CaptureUnits \cup EmissionSamples
            /\ Transitions(c) = PermitRuleTransitions /\ Initial(c) = "draft"
         \/ /\ c \in EmissionSamples /\ c \notin CaptureUnits \cup PermitRules
            /\ Transitions(c) = EmissionSampleTransitions
            /\ Initial(c) = "collected"
  BY DEF Transitions, Initial

\* A graph leads from its statuses to its statuses, the initial one among
\* them.
LEMMA GraphClosed ==
  ASSUME NEW c \in Codes
  PROVE  /\ DOMAIN Transitions(c) \subseteq Statuses
         /\ Initial(c) \in DOMAIN Transitions(c)
         /\ \A from, to : CanTransition(Transitions(c), from, to) =>
              from \in DOMAIN Transitions(c) /\ to \in DOMAIN Transitions(c)
<1>1. CASE Transitions(c) = CaptureUnitTransitions /\ Initial(c) = "standby"
  BY <1>1 DEF CanTransition, CaptureUnitTransitions
<1>2. CASE Transitions(c) = PermitRuleTransitions /\ Initial(c) = "draft"
  BY <1>2 DEF CanTransition, PermitRuleTransitions
<1>3. CASE Transitions(c) = EmissionSampleTransitions /\ Initial(c) = "collected"
  BY <1>3 DEF CanTransition, EmissionSampleTransitions
<1> QED
  BY <1>1, <1>2, <1>3, OneOfThree

\* A request is served by the service of its code's resource.
LEMMA ServedBy ==
  ASSUME NEW r \in Requests, Handle(r)
  PROVE  /\ Code(r) \in Codes
         /\ Serve(r, Transitions(Code(r)), Initial(Code(r)))
<1>1. CASE CaptureUnitService(r)
  BY <1>1, OneOfThree DEF CaptureUnitService
<1>2. CASE PermitRuleService(r)
  BY <1>2, OneOfThree DEF PermitRuleService
<1>3. CASE EmissionSampleService(r)
  BY <1>3, OneOfThree DEF EmissionSampleService
<1> QED
  BY <1>1, <1>2, <1>3 DEF Handle

-----------------------------------------------------------------------------
(* A step of the system is one statement of one request *)

OthersLeft(s) ==
  \A r \in Requests \ {s} :
    /\ pc'[r] = pc[r] /\ req'[r] = req[r]
    /\ snap'[r] = snap[r] /\ reply'[r] = reply[r]

TablesLeft == UNCHANGED <<rows, written, audits>>

Received(s) ==
  /\ TablesLeft /\ pc[s] = "idle"
  /\ \E c \in Codes :
       req'[s] \in Inputs(Callers, {c}, 1..(Known(c) + Lookahead))
  /\ \/ pc'[s] = FirstStep(req'[s].op)
     \/ pc'[s] = "done" /\ reply'[s] = "forbidden"

\* Answered with anything but success.
TurnedDown(s) ==
  /\ TablesLeft /\ req'[s] = req[s] /\ snap'[s] = snap[s]
  /\ pc[s] \notin {"idle", "audit", "done"} /\ pc'[s] = "done"
  /\ reply'[s] # "ok"
  /\ reply'[s] \in Refusals => pc[s] \in {"load", "insert", "write"}

Loaded(s) ==
  /\ TablesLeft /\ req'[s] = req[s]
  /\ pc[s] = "load"
  /\ pc'[s] = IF req[s].op = "delete" THEN "remove" ELSE "write"
  /\ Live(Code(s)) /\ snap'[s] = rows[Code(s)]
  /\ ~Refuses(snap'[s], req[s], Transitions(Code(s)))

Inserted(s) ==
  /\ UNCHANGED audits /\ req'[s] = req[s] /\ snap'[s] = snap[s]
  /\ pc[s] = "insert" /\ pc'[s] = "audit"
  /\ req[s].fields \in ValidFields
  /\ Insert(Code(s), NewRow(Initial(Code(s)), req[s].fields))
  /\ Note(s, 1, NoStatus, Initial(Code(s)))

Updated(s) ==
  /\ UNCHANGED audits /\ req'[s] = req[s] /\ snap'[s] = snap[s]
  /\ pc[s] = "write" /\ pc'[s] = "audit"
  /\ Update(Code(s), req[s].expected, Changed(s))
  /\ Note(s, Changed(s).version, rows[Code(s)].status, Changed(s).status)

Removed(s) ==
  /\ UNCHANGED <<written, audits>> /\ req'[s] = req[s] /\ snap'[s] = snap[s]
  /\ pc[s] = "remove" /\ pc'[s] = "audit" /\ Delete(Code(s))

\* The audit statement, executed or not.
Audited(s) ==
  /\ UNCHANGED <<rows, written>> /\ req'[s] = req[s] /\ snap'[s] = snap[s]
  /\ pc[s] = "audit"
  /\ \/ audits' = audits \cup {AuditEntry(s, Initial(Code(s)))}
     \/ UNCHANGED audits
  /\ pc'[s] \in {"read", "done"}
  /\ pc'[s] = "done" => reply'[s] \in {"ok", "internal_error"}

ReadBack(s) ==
  /\ TablesLeft /\ req'[s] = req[s]
  /\ pc[s] = "read" /\ pc'[s] = "done" /\ reply'[s] = "ok"

Statement(s) ==
  \/ Received(s) \/ TurnedDown(s) \/ Loaded(s) \/ Inserted(s) \/ Updated(s)
  \/ Removed(s) \/ Audited(s) \/ ReadBack(s)

\* The types of what the handlers keep for themselves.
RequestsTyped ==
  /\ pc \in [Requests -> Steps]
  /\ req \in [Requests -> Inputs(Users, Codes, Nat \ {0}) \cup {NoInput}]
  /\ snap \in [Requests -> Row \cup {NoRow}]
  /\ reply \in [Requests -> Answers]

LEMMA StartStatement ==
  ASSUME TypeOK, NEW s \in Requests, Start(s)
  PROVE  OthersLeft(s) /\ Received(s) /\ RequestsTyped'
<1>1. PICK c \in Codes : \E q \in Inputs(Callers, {c}, 1..(Known(c) + Lookahead)) :
        /\ req' = [req EXCEPT ![s] = q]
        /\ IF Permitted(q.op, q.user) THEN Goto(s, FirstStep(q.op))
                                      ELSE Answer(s, "forbidden")
  BY DEF Start, Receive, Accept
<1>2. PICK q \in Inputs(Callers, {c}, 1..(Known(c) + Lookahead)) :
        /\ req' = [req EXCEPT ![s] = q]
        /\ IF Permitted(q.op, q.user) THEN Goto(s, FirstStep(q.op))
                                      ELSE Answer(s, "forbidden")
  BY <1>1
<1>3. pc[s] = "idle" /\ UNCHANGED <<rows, audits, snap, written>>
  BY DEF Start, Receive, Accept
<1>4. OthersLeft(s)
  BY <1>2, <1>3 DEF OthersLeft, Goto, Answer, TypeOK
<1>5. req'[s] = q
  BY <1>2 DEF TypeOK
<1>6. Received(s)
  <2>1. CASE Goto(s, FirstStep(q.op))
    BY <1>2, <1>3, <1>5, <2>1 DEF Received, TablesLeft, Goto, TypeOK
  <2>2. CASE Answer(s, "forbidden")
    BY <1>2, <1>3, <1>5, <2>2 DEF Received, TablesLeft, Answer, TypeOK
  <2> QED
    BY <1>2, <2>1, <2>2
<1>7. q \in Inputs(Users, Codes, Nat \ {0})
  <2>1. Known(c) \in Nat
    BY DEF Known, Stored, TypeOK, Row
  <2>2. 1..(Known(c) + Lookahead) \subseteq Nat \ {0}
    BY <2>1
  <2> QED
    BY <2>2, ClientInput
<1>8. pc' \in [Requests -> Steps] /\ reply' \in [Requests -> Answers]
  BY <1>2 DEF TypeOK, Goto, Answer, FirstStep, Steps, Answers
<1> QED
  BY <1>2, <1>3, <1>4, <1>6, <1>7, <1>8 DEF RequestsTyped, TypeOK

LEMMA HandleStatement ==
  ASSUME TypeOK, NEW s \in Requests, Handle(s)
  PROVE  OthersLeft(s) /\ Statement(s) /\ RequestsTyped'
<1> DEFINE graph == Transitions(Code(s))
           initial == Initial(Code(s))
<1>0. Code(s) \in Codes /\ Serve(s, graph, initial)
  BY ServedBy
<1>c. rows[Code(s)] \in Row \cup {NoRow}
  BY <1>0 DEF TypeOK
<1> HIDE DEF graph, initial
<1> USE DEF OthersLeft, TypeOK, Goto, Answer, RequestsTyped, Steps, Answers
<1>1. CASE Create(s, initial)
  BY <1>1 DEF Create, Statement, TurnedDown, Inserted, TablesLeft, Refusals,
              initial, NoStatus
<1>2. CASE Load(s, graph)
  BY <1>2, <1>c DEF Load, LoadUnless, Statement, TurnedDown, Loaded, TablesLeft,
                    Refusals, graph
<1>3. CASE Write(s)
  BY <1>3 DEF Write, Statement, TurnedDown, Updated, TablesLeft, Refusals
<1>4. CASE Read(s)
  BY <1>4, <1>c DEF Read, Statement, TurnedDown, ReadBack, TablesLeft, Refusals
<1>5. CASE Remove(s) /\ UNCHANGED written
  BY <1>5 DEF Remove, Statement, TurnedDown, Removed, TablesLeft, Refusals
<1>6. CASE Audit(s, initial, {"create", "delete"}) /\ UNCHANGED written
  BY <1>6 DEF Audit, AfterAudit, Statement, Audited, initial
<1>7. CASE /\ AuditFails(s, initial, {"create", "delete"})
           /\ UNCHANGED written
  BY <1>7 DEF AuditFails, AfterAudit, Statement, Audited, initial
<1>8. CASE Interrupt(s) /\ UNCHANGED written
  BY <1>8 DEF Interrupt, Statement, TurnedDown, TablesLeft, Refusals
<1> QED
  BY <1>0, <1>1, <1>2, <1>3, <1>4, <1>5, <1>6, <1>7, <1>8 DEF Serve, CommonStep

LEMMA StatementOfOne ==
  ASSUME TypeOK, [Next]_vars
  PROVE  /\ RequestsTyped'
         /\ \/ UNCHANGED vars
            \/ \E s \in Requests : OthersLeft(s) /\ Statement(s)
<1>1. CASE UNCHANGED vars
  BY <1>1 DEF vars, TypeOK, RequestsTyped
<1>2. ASSUME NEW s \in Requests, Start(s) \/ Handle(s)
      PROVE  RequestsTyped' /\ OthersLeft(s) /\ Statement(s)
  BY <1>2, StartStatement, HandleStatement DEF Statement
<1> QED
  BY <1>1, <1>2 DEF Next, AllAnswered

-----------------------------------------------------------------------------
(* Types and control *)

LEMMA ServedInput ==
  ASSUME ControlOK, NEW r \in Requests, pc[r] # "idle"
  PROVE  /\ req[r] \in Inputs(Users, Codes, Nat \ {0})
         /\ Code(r) \in Codes
<1>1. req[r] \in Inputs(Users, Codes, Nat \ {0})
  BY DEF ControlOK, ControlOf
<1> QED
  BY <1>1, InputType DEF Code

\* What Update and Transition write back is a row, one version beyond the
\* expected one, and one legal change away from the snapshot.
LEMMA ChangedType ==
  ASSUME ControlOK, NEW r \in Requests, pc[r] = "write"
  PROVE  /\ Changed(r) \in Row
         /\ Changed(r).version = req[r].expected + 1
         /\ Changed(r).version = NewVersion(r)
         /\ NewVersion(r) \in Nat \ {0}
         /\ Changed(r).status \in DOMAIN Transitions(Code(r))
         /\ req[r].op = "update" => Changed(r).status = snap[r].status
         /\ req[r].op = "transition" =>
              /\ Changed(r).status = req[r].target
              /\ CanTransition(Transitions(Code(r)), snap[r].status,
                               req[r].target)
              /\ Changed(r).fields = snap[r].fields
<1>1. /\ req[r] \in Inputs(Users, Codes, Nat \ {0}) /\ Code(r) \in Codes
      /\ req[r].op \in {"update", "transition"}
      /\ snap[r] \in Row /\ snap[r].status \in DOMAIN Transitions(Code(r))
      /\ ~Refuses(snap[r], req[r], Transitions(Code(r)))
  BY ServedInput DEF ControlOK, ControlOf
<1>2. req[r].expected + 1 \in Nat \ {0}
  <2>1. req[r].expected \in Nat
    BY <1>1, InputType
  <2> QED
    BY <2>1
<1>3. CASE req[r].op = "update"
  <2>1. req[r].fields \in Fields
    BY <1>1, <1>3, InputType
  <2>2. Changed(r) = Edited(snap[r], req[r].fields, req[r].expected + 1)
    BY <1>3 DEF Changed
  <2> QED
    BY <1>1, <1>2, <1>3, <2>1, <2>2, EditedType DEF NewVersion
<1>4. CASE req[r].op = "transition"
  <2>1. CanTransition(Transitions(Code(r)), snap[r].status, req[r].target)
    BY <1>1, <1>4 DEF Refuses
  <2>2. req[r].target \in DOMAIN Transitions(Code(r)) /\ req[r].target \in Statuses
    BY <1>1, <2>1, GraphClosed
  <2>3. Changed(r) = Moved(snap[r], req[r].target, req[r].expected + 1)
    BY <1>4 DEF Changed
  <2> QED
    BY <1>1, <1>2, <1>4, <2>1, <2>2, <2>3, MovedType DEF NewVersion
<1> QED
  BY <1>1, <1>3, <1>4

\* What a note adds to what was committed to one code.
LEMMA NoteEffect ==
  ASSUME TypeOK, NEW r \in Requests, NEW c \in Codes, c = Code(r),
         NEW v \in Nat \ {0}, NEW before \in Statuses \cup {NoStatus},
         NEW after \in Statuses, Note(r, v, before, after)
  PROVE  /\ WrittenOK'
         /\ DOMAIN written'[c] = DOMAIN written[c] \cup {v}
         /\ written'[c][v].request = r
         /\ written'[c][v].before = before
         /\ written'[c][v].after = after
         /\ \A w \in DOMAIN written[c] \ {v} : written'[c][w] = written[c][w]
         /\ \A d \in Codes \ {c} : written'[d] = written[d]
<1> DEFINE change == [request |-> r, before |-> before, after |-> after]
           g == [w \in DOMAIN written[c] \cup {v} |->
                   IF w = v THEN change ELSE written[c][w]]
<1>1. change \in Change
  BY DEF Change, NoStatus
<1>2. /\ written'[c] = g
      /\ \A d \in Codes \ {c} : written'[d] = written[d]
      /\ written' = [d \in Codes |-> written'[d]]
  BY DEF Note, TypeOK, WrittenOK
<1>3. DOMAIN written[c] \subseteq Nat \ {0} /\ written[c] \in [DOMAIN written[c] -> Change]
  BY DEF TypeOK, WrittenOK
<1> HIDE DEF change
<1>4. g \in [DOMAIN written[c] \cup {v} -> Change]
  BY <1>1, <1>3
<1>5. WrittenOK'
  <2> SUFFICES ASSUME NEW d \in Codes
               PROVE  /\ DOMAIN written'[d] \subseteq Nat \ {0}
                      /\ written'[d] \in [DOMAIN written'[d] -> Change]
    BY <1>2 DEF WrittenOK
  <2>1. CASE d = c
    BY <1>2, <1>3, <1>4, <2>1
  <2>2. CASE d # c
    BY <1>2, <2>2 DEF TypeOK, WrittenOK
  <2> QED
    BY <2>1, <2>2
<1>6. g[v] = change /\ \A w \in DOMAIN written[c] \ {v} : g[w] = written[c][w]
  OBVIOUS
<1>7. change.request = r /\ change.before = before /\ change.after = after
  BY DEF change
<1> QED
  BY <1>2, <1>5, <1>6, <1>7

\* A create opens a code at version 1.
LEMMA InsertEffect ==
  ASSUME TypeOK, ControlOK, NEW s \in Requests, Inserted(s), NEW c, c = Code(s)
  PROVE  /\ c \in Codes /\ ~Stored(c) /\ req[s].op = "create"
         /\ rows' \in [Codes -> Row \cup {NoRow}]
         /\ rows'[c] \in Row
         /\ rows'[c].version = 1 /\ rows'[c].status = Initial(c)
         /\ rows'[c].deleted = FALSE
         /\ \A d \in Codes \ {c} : rows'[d] = rows[d]
<1>1. c \in Codes /\ req[s].op = "create" /\ req[s].fields \in Fields
  BY ServedInput DEF Inserted, ControlOK, ControlOf
<1>2. Initial(c) \in Statuses
  BY <1>1, GraphClosed
<1> DEFINE row == NewRow(Initial(c), req[s].fields)
<1>3. /\ row \in Row /\ row.version = 1 /\ row.status = Initial(c)
      /\ row.deleted = FALSE
  BY <1>1, <1>2, NewRowType DEF NewRow
<1>4. ~Stored(c) /\ rows' = [rows EXCEPT ![c] = row]
  BY DEF Inserted, Insert
<1> HIDE DEF row
<1>5. /\ rows' \in [Codes -> Row \cup {NoRow}] /\ rows'[c] = row
      /\ \A d \in Codes \ {c} : rows'[d] = rows[d]
  BY <1>1, <1>3, <1>4 DEF TypeOK
<1> QED
  BY <1>1, <1>3, <1>4, <1>5

\* And it is noted under that version.
LEMMA InsertNoted ==
  ASSUME TypeOK, ControlOK, NEW s \in Requests, Inserted(s), NEW c, c = Code(s)
  PROVE  /\ WrittenOK'
         /\ DOMAIN written'[c] = DOMAIN written[c] \cup {1}
         /\ written'[c][1].request = s
         /\ written'[c][1].before = NoStatus
         /\ written'[c][1].after = Initial(c)
         /\ \A w \in DOMAIN written[c] \ {1} : written'[c][w] = written[c][w]
         /\ \A d \in Codes \ {c} : written'[d] = written[d]
<1>1. c \in Codes
  BY InsertEffect
<1>2. PICK a : a = Initial(c)
  OBVIOUS
<1>3. PICK v \in Nat \ {0} : v = 1
  OBVIOUS
<1>4. a \in Statuses /\ NoStatus \in Statuses \cup {NoStatus}
  BY <1>1, <1>2, GraphClosed
<1>5. Note(s, v, NoStatus, a)
  BY <1>2, <1>3 DEF Inserted
<1>6. /\ WrittenOK'
      /\ DOMAIN written'[c] = DOMAIN written[c] \cup {v}
      /\ written'[c][v].request = s
      /\ written'[c][v].before = NoStatus
      /\ written'[c][v].after = a
      /\ \A w \in DOMAIN written[c] \ {v} : written'[c][w] = written[c][w]
      /\ \A d \in Codes \ {c} : written'[d] = written[d]
  BY <1>1, <1>4, <1>5, NoteEffect
<1> QED
  BY <1>2, <1>3, <1>6

\* A write takes a live row on by one version.
LEMMA UpdateEffect ==
  ASSUME TypeOK, ControlOK, NEW s \in Requests, Updated(s), NEW c, c = Code(s)
  PROVE  /\ c \in Codes /\ rows[c] \in Row /\ rows[c].deleted = FALSE
         /\ rows[c].version = req[s].expected
         /\ NewVersion(s) = rows[c].version + 1
         /\ rows' \in [Codes -> Row \cup {NoRow}]
         /\ rows'[c] \in Row
         /\ rows'[c].version = NewVersion(s)
         /\ rows'[c].status = Changed(s).status
         /\ rows'[c].fields = Changed(s).fields /\ rows'[c].deleted = FALSE
         /\ \A d \in Codes \ {c} : rows'[d] = rows[d]
<1>1. c \in Codes /\ pc[s] = "write"
  BY ServedInput DEF Updated
<1> DEFINE item == Changed(s)
           new == [status |-> item.status, version |-> item.version,
                   fields |-> item.fields, deleted |-> rows[c].deleted]
<1>2. /\ item \in Row /\ item.version = req[s].expected + 1
      /\ item.version = NewVersion(s)
  BY <1>1, ChangedType
<1>3. /\ Live(c) /\ rows[c].version = req[s].expected
      /\ rows' = [rows EXCEPT ![c] = new]
  BY DEF Updated, Update, Matches
<1> HIDE DEF item
<1>4. rows[c] \in Row /\ rows[c].deleted = FALSE
  BY <1>1, <1>3 DEF Live, Stored, TypeOK, Row
<1>5. new \in Row /\ new.deleted = FALSE
  BY <1>2, <1>4 DEF Row
<1>6. /\ rows' \in [Codes -> Row \cup {NoRow}] /\ rows'[c] = new
      /\ \A d \in Codes \ {c} : rows'[d] = rows[d]
  BY <1>1, <1>3, <1>5 DEF TypeOK
<1>7. rows'[c].version = item.version /\ rows'[c].status = item.status
      /\ rows'[c].fields = item.fields
  BY <1>2, <1>6
<1> USE DEF item
<1> QED
  BY <1>1, <1>2, <1>3, <1>4, <1>5, <1>6, <1>7

\* And it is noted under that version, with the status of the row before.
LEMMA UpdateNoted ==
  ASSUME TypeOK, ControlOK, NEW s \in Requests, Updated(s), NEW c, c = Code(s),
         NEW v, v = NewVersion(s)
  PROVE  /\ WrittenOK' /\ v \in Nat \ {0}
         /\ DOMAIN written'[c] = DOMAIN written[c] \cup {v}
         /\ written'[c][v].request = s
         /\ written'[c][v].before = rows[c].status
         /\ written'[c][v].after = Changed(s).status
         /\ \A w \in DOMAIN written[c] \ {v} : written'[c][w] = written[c][w]
         /\ \A d \in Codes \ {c} : written'[d] = written[d]
<1>1. c \in Codes /\ rows[c] \in Row
  BY UpdateEffect
<1> DEFINE item == Changed(s)
<1>2. pc[s] = "write" /\ Note(s, item.version, rows[c].status, item.status)
  BY DEF Updated
<1>3. item \in Row /\ item.version = v /\ v \in Nat \ {0}
  BY <1>2, ChangedType
<1> HIDE DEF item
<1>4. Note(s, v, rows[c].status, item.status)
  BY <1>2, <1>3
<1>5. rows[c].status \in Statuses /\ item.status \in Statuses
  BY <1>1, <1>3 DEF Row
<1>6. /\ WrittenOK'
      /\ DOMAIN written'[c] = DOMAIN written[c] \cup {v}
      /\ written'[c][v].request = s
      /\ written'[c][v].before = rows[c].status
      /\ written'[c][v].after = item.status
      /\ \A w \in DOMAIN written[c] \ {v} : written'[c][w] = written[c][w]
      /\ \A d \in Codes \ {c} : written'[d] = written[d]
  BY <1>1, <1>3, <1>4, <1>5, NoteEffect
<1> USE DEF item
<1> QED
  BY <1>3, <1>6

\* A delete marks a live row.
LEMMA RemoveEffect ==
  ASSUME TypeOK, ControlOK, NEW s \in Requests, Removed(s), NEW c, c = Code(s)
  PROVE  /\ c \in Codes /\ rows[c] \in Row /\ rows[c].deleted = FALSE
         /\ rows' \in [Codes -> Row \cup {NoRow}]
         /\ rows'[c] = [rows[c] EXCEPT !.deleted = TRUE]
         /\ rows'[c] \in Row /\ rows'[c].deleted = TRUE
         /\ rows'[c].version = rows[c].version
         /\ rows'[c].status = rows[c].status
         /\ rows'[c].fields = rows[c].fields
         /\ \A d \in Codes \ {c} : rows'[d] = rows[d]
<1>1. c \in Codes
  BY ServedInput DEF Removed
<1>2. rows[c] \in Row /\ rows[c].deleted = FALSE
  BY <1>1 DEF Removed, Delete, Live, Stored, TypeOK, Row
<1> DEFINE new == [rows[c] EXCEPT !.deleted = TRUE]
<1>3. /\ new \in Row /\ new.deleted = TRUE /\ new.version = rows[c].version
      /\ new.status = rows[c].status /\ new.fields = rows[c].fields
  BY <1>2 DEF Row
<1>4. rows' = [rows EXCEPT ![c] = new]
  BY DEF Removed, Delete
<1> HIDE DEF new
<1>5. /\ rows' \in [Codes -> Row \cup {NoRow}] /\ rows'[c] = new
      /\ \A d \in Codes \ {c} : rows'[d] = rows[d]
  BY <1>1, <1>3, <1>4 DEF TypeOK
<1> USE DEF new
<1> QED
  BY <1>1, <1>2, <1>3, <1>5

LEMMA StartTypes == Init => TypeOK /\ ControlOK
<1> SUFFICES ASSUME Init PROVE TypeOK /\ ControlOK
  OBVIOUS
<1>1. ASSUME NEW c \in Codes
      PROVE  /\ rows[c] \in Row \cup {NoRow}
             /\ Stored(c) => rows[c].status \in DOMAIN Transitions(c)
  <2>0. rows[c] \in SeedRows(c)
    BY DEF Init
  <2>1. rows[c] = NoRow \/
          \E s \in DOMAIN Transitions(c), f \in ValidFields :
            rows[c] = NewRow(s, f)
    BY <2>0 DEF SeedRows
  <2>2. CASE rows[c] = NoRow
    BY <2>2 DEF Stored
  <2>3. ASSUME NEW s \in DOMAIN Transitions(c), NEW f \in ValidFields,
               rows[c] = NewRow(s, f)
        PROVE  rows[c] \in Row /\ rows[c].status \in DOMAIN Transitions(c)
    <3>1. s \in Statuses /\ f \in Fields
      BY GraphClosed
    <3> QED
      BY <2>3, <3>1, NewRowType DEF NewRow
  <2> QED
    BY <2>1, <2>2, <2>3
<1>2. rows \in [Codes -> Row \cup {NoRow}]
  BY <1>1 DEF Init
<1>3. WrittenOK
  BY DEF Init, WrittenOK
<1> QED
  BY <1>1, <1>2, <1>3 DEF Init, NothingHandled, TypeOK, ControlOK, ControlOf,
                          Steps, Answers

\* The entry a request writes is one of the log's.
LEMMA EntryType ==
  ASSUME ControlOK, NEW s \in Requests, pc[s] = "audit"
  PROVE  /\ AuditEntry(s, Initial(Code(s))) \in AuditLog
         /\ AuditEntry(s, Initial(Code(s))).request = s
         /\ AuditEntry(s, Initial(Code(s))).code = Code(s)
         /\ AuditEntry(s, Initial(Code(s))).action = req[s].op
<1>1. /\ req[s] \in Inputs(Users, Codes, Nat \ {0}) /\ Code(s) \in Codes
      /\ req[s].op \in AllOperations \ {"get"}
      /\ req[s].op # "create" =>
           snap[s] \in Row /\ ~Refuses(snap[s], req[s], Transitions(Code(s)))
  BY ServedInput DEF ControlOK, ControlOf
<1>2. req[s].op = "transition" => req[s].target \in Statuses
  BY <1>1, GraphClosed DEF Refuses
<1>3. Initial(Code(s)) \in Statuses
  BY <1>1, GraphClosed
<1>4. req[s].op # "create" => snap[s].status \in Statuses
  BY <1>1 DEF Row
<1>5. PICK a : a = Initial(Code(s))
  OBVIOUS
<1>6. AuditEntry(s, a) \in AuditLog
  BY <1>1, <1>2, <1>3, <1>4, <1>5 DEF AuditEntry, AuditLog, AllOperations, Code
<1>7. /\ AuditEntry(s, a).request = s /\ AuditEntry(s, a).code = Code(s)
      /\ AuditEntry(s, a).action = req[s].op
  BY DEF AuditEntry, Code
<1> QED
  BY <1>5, <1>6, <1>7

LEMMA TypeStep == TypeOK /\ ControlOK /\ [Next]_vars => TypeOK'
<1> SUFFICES ASSUME TypeOK, ControlOK, [Next]_vars PROVE TypeOK'
  OBVIOUS
<1>1. RequestsTyped'
  BY StatementOfOne
<1>2. CASE UNCHANGED <<rows, written>> /\ audits' \subseteq AuditLog
  BY <1>1, <1>2 DEF TypeOK, RequestsTyped, WrittenOK, Stored
<1>3. ASSUME NEW s \in Requests, Statement(s)
      PROVE  TypeOK'
  <2>1. CASE TablesLeft
    BY <1>2, <2>1 DEF TablesLeft, TypeOK
  <2>2. CASE Inserted(s)
    <3>1. PICK c : c = Code(s)
      OBVIOUS
    <3>2. /\ c \in Codes
          /\ rows' \in [Codes -> Row \cup {NoRow}] /\ rows'[c].status = Initial(c)
          /\ \A d \in Codes \ {c} : rows'[d] = rows[d]
      BY <2>2, <3>1, InsertEffect
    <3>4. WrittenOK'
      BY <2>2, <3>1, InsertNoted
    <3>3. \A d \in Codes : Stored(d)' => rows'[d].status \in DOMAIN Transitions(d)
      BY <3>2, GraphClosed DEF TypeOK, Stored
    <3> QED
      BY <1>1, <2>2, <3>2, <3>3, <3>4 DEF TypeOK, RequestsTyped, Inserted
  <2>3. CASE Updated(s)
    <3>1. PICK c, v : c = Code(s) /\ v = NewVersion(s)
      OBVIOUS
    <3>2. /\ c \in Codes
          /\ rows' \in [Codes -> Row \cup {NoRow}]
          /\ rows'[c].status = Changed(s).status
          /\ \A d \in Codes \ {c} : rows'[d] = rows[d]
      BY <2>3, <3>1, UpdateEffect
    <3>3. Changed(s).status \in DOMAIN Transitions(c)
      BY <2>3, <3>1, ChangedType DEF Updated
    <3>4. \A d \in Codes : Stored(d)' => rows'[d].status \in DOMAIN Transitions(d)
      BY <3>2, <3>3 DEF TypeOK, Stored
    <3>5. WrittenOK'
      BY <2>3, <3>1, UpdateNoted
    <3> QED
      BY <1>1, <2>3, <3>2, <3>4, <3>5 DEF TypeOK, RequestsTyped, Updated
  <2>4. CASE Removed(s)
    <3>1. PICK c : c = Code(s)
      OBVIOUS
    <3>2. /\ c \in Codes /\ rows[c] \in Row
          /\ rows' \in [Codes -> Row \cup {NoRow}]
          /\ rows'[c].status = rows[c].status
          /\ \A d \in Codes \ {c} : rows'[d] = rows[d]
      BY <2>4, <3>1, RemoveEffect
    <3>3. \A d \in Codes : Stored(d)' => rows'[d].status \in DOMAIN Transitions(d)
      BY <3>2 DEF TypeOK, Stored
    <3> QED
      BY <1>1, <2>4, <3>2, <3>3 DEF TypeOK, RequestsTyped, Removed, WrittenOK
  <2>5. CASE Audited(s)
    BY <1>2, <2>5, EntryType DEF Audited, TypeOK
  <2> QED
    BY <1>3, <2>1, <2>2, <2>3, <2>4, <2>5
    DEF Statement, Received, TurnedDown, Loaded, ReadBack
<1> QED
  BY <1>2, <1>3, StatementOfOne DEF vars, TypeOK

LEMMA ControlStep == TypeOK /\ ControlOK /\ [Next]_vars => ControlOK'
<1> SUFFICES ASSUME TypeOK, ControlOK, [Next]_vars, NEW r \in Requests
             PROVE  ControlOf(r)'
  BY DEF ControlOK
<1>1. ControlOf(r)
  BY DEF ControlOK
<1>2. CASE UNCHANGED vars
  BY <1>1, <1>2 DEF vars, ControlOf, Code
<1>3. ASSUME NEW s \in Requests, OthersLeft(s), Statement(s)
      PROVE  ControlOf(r)'
  <2>1. CASE r # s
    BY <1>1, <1>3, <2>1 DEF OthersLeft, ControlOf, Code
  <2>2. CASE r = s /\ Received(s)
    <3>1. PICK c \in Codes :
            req'[s] \in Inputs(Callers, {c}, 1..(Known(c) + Lookahead))
      BY <2>2 DEF Received
    <3>2. Known(c) \in Nat
      BY DEF Known, Stored, TypeOK, Row
    <3>3. 1..(Known(c) + Lookahead) \subseteq Nat \ {0}
      BY <3>2
    <3>4. req'[s] \in Inputs(Users, Codes, Nat \ {0})
      BY <3>1, <3>3, ClientInput
    <3>5. req'[s].op \in AllOperations
      BY <3>4, InputType
    <3> QED
      BY <2>2, <3>4, <3>5 DEF Received, ControlOf, FirstStep, AllOperations
  <2>3. CASE r = s /\ Loaded(s)
    <3>1. Code(s) \in Codes
      BY <2>3, ServedInput DEF Loaded
    <3>2. /\ rows[Code(s)] \in Row
          /\ rows[Code(s)].status \in DOMAIN Transitions(Code(s))
      BY <2>3, <3>1 DEF Loaded, Live, Stored, TypeOK
    <3> QED
      BY <1>1, <2>3, <3>2 DEF Loaded, ControlOf, Code
  <2>4. CASE r = s /\ pc'[s] = "audit" /\ (Inserted(s) \/ Updated(s) \/ Removed(s))
    BY <1>1, <2>4 DEF Inserted, Updated, Removed, ControlOf, Code, AllOperations
  <2>5. CASE /\ r = s /\ pc'[s] \in {"read", "done"} /\ req'[s] = req[s]
             /\ pc[s] # "idle"
    BY <1>1, <2>5 DEF ControlOf
  <2> QED
    BY <1>3, <2>1, <2>2, <2>3, <2>4, <2>5
    DEF Statement, TurnedDown, Inserted, Updated, Removed, Audited, ReadBack
<1> QED
  BY <1>2, <1>3, StatementOfOne

\* Every variable keeps its type, and no record ever has a status of another
\* resource: an edit writes back the status of the record it loaded.
THEOREM TypeCorrect == Spec => []TypeOK
<1>1. TypeOK /\ ControlOK /\ [Next]_vars => TypeOK' /\ ControlOK'
  BY TypeStep, ControlStep
<1> QED
  BY <1>1, StartTypes, PTL DEF Spec

-----------------------------------------------------------------------------
(* Who made which version *)

Commits(s) == Inserted(s) \/ Updated(s)

\* A commit makes one version, which no one has made before, and takes the
\* row to it.
LEMMA CommitEffect ==
  ASSUME TypeOK, ControlOK, ReachedOK, NEW s \in Requests, Commits(s),
         NEW c, c = Code(s), NEW v, v = NewVersion(s)
  PROVE  /\ c \in Codes /\ v \in Nat \ {0} /\ v \notin DOMAIN written[c]
         /\ Writing(s) /\ pc[s] \in {"insert", "write"} /\ pc'[s] = "audit"
         /\ req'[s] = req[s]
         /\ Stored(c)' /\ rows'[c].version = v
         /\ \A w \in DOMAIN written[c] : w <= v
         /\ \A d \in Codes \ {c} : rows'[d] = rows[d]
<1>1. CASE Inserted(s)
  <2>1. /\ c \in Codes /\ ~Stored(c) /\ req[s].op = "create"
        /\ rows'[c] \in Row /\ rows'[c].version = 1
        /\ \A d \in Codes \ {c} : rows'[d] = rows[d]
    BY <1>1, InsertEffect
  <2>2. v = 1 /\ DOMAIN written[c] = {}
    BY <2>1 DEF NewVersion, ReachedOK
  <2> QED
    BY <1>1, <2>1, <2>2 DEF Inserted, Writing, Stored
<1>2. CASE Updated(s)
  <2>1. /\ c \in Codes /\ rows[c] \in Row /\ rows'[c] \in Row
        /\ v = rows[c].version + 1 /\ rows'[c].version = v
        /\ \A d \in Codes \ {c} : rows'[d] = rows[d]
    BY <1>2, UpdateEffect
  <2>2. rows[c].version \in Nat /\ v \in Nat \ {0}
    BY <2>1 DEF Row
  <2>3. \A w \in DOMAIN written[c] : w \in Nat /\ w <= rows[c].version
    BY <2>1 DEF ReachedOK, TypeOK, WrittenOK
  <2>4. v \notin DOMAIN written[c] /\ \A w \in DOMAIN written[c] : w <= v
    BY <2>1, <2>2, <2>3
  <2>5. Writing(s)
    BY <1>2 DEF Updated, Writing, ControlOK, ControlOf
  <2> QED
    BY <1>2, <2>1, <2>2, <2>4, <2>5 DEF Updated, Stored
<1> QED
  BY <1>1, <1>2 DEF Commits

LEMMA CommitNoted ==
  ASSUME TypeOK, ControlOK, ReachedOK, NEW s \in Requests, Commits(s),
         NEW c, c = Code(s), NEW v, v = NewVersion(s)
  PROVE  /\ DOMAIN written'[c] = DOMAIN written[c] \cup {v}
         /\ written'[c][v].request = s
         /\ \A w \in DOMAIN written[c] : written'[c][w] = written[c][w]
         /\ \A d \in Codes \ {c} : written'[d] = written[d]
<1>1. v \notin DOMAIN written[c]
  BY CommitEffect
<1>2. CASE Inserted(s)
  <2>1. req[s].op = "create"
    BY <1>2, InsertEffect
  <2>2. v = 1
    BY <2>1 DEF NewVersion
  <2> QED
    BY <1>1, <1>2, <2>2, InsertNoted
<1>3. CASE Updated(s)
  BY <1>1, <1>3, UpdateNoted
<1> QED
  BY <1>2, <1>3 DEF Commits

\* What was made stays made, and a step adds at most its own request's change.
LEMMA WrittenStays ==
  ASSUME TypeOK, ControlOK, ReachedOK, NEW s \in Requests, Statement(s)
  PROVE  /\ \A c \in Codes : \A v \in DOMAIN written[c] :
              v \in DOMAIN written'[c] /\ written'[c][v] = written[c][v]
         /\ \A c \in Codes : \A v \in DOMAIN written'[c] :
              \/ v \in DOMAIN written[c] /\ written'[c][v] = written[c][v]
              \/ /\ Commits(s) /\ c = Code(s) /\ v = NewVersion(s)
                 /\ written'[c][v].request = s
<1>1. CASE UNCHANGED written
  BY <1>1
<1>2. CASE Commits(s)
  <2>1. PICK c, v : c = Code(s) /\ v = NewVersion(s)
    OBVIOUS
  <2>2. /\ DOMAIN written'[c] = DOMAIN written[c] \cup {v}
        /\ written'[c][v].request = s
        /\ \A w \in DOMAIN written[c] : written'[c][w] = written[c][w]
        /\ \A d \in Codes \ {c} : written'[d] = written[d]
    BY <1>2, <2>1, CommitNoted
  <2> QED
    BY <1>2, <2>1, <2>2
<1> QED
  BY <1>1, <1>2 DEF Statement, Received, TurnedDown, Loaded, ReadBack, Audited,
                    Removed, TablesLeft, Commits

LEMMA ReachedStep ==
  ASSUME TypeOK, ControlOK, ReachedOK, NEW s \in Requests, Statement(s)
  PROVE  ReachedOK'
<1>1. CASE UNCHANGED <<rows, written>>
  BY <1>1 DEF ReachedOK, Stored
<1>2. CASE Commits(s)
  <2>1. PICK c, v : c = Code(s) /\ v = NewVersion(s)
    OBVIOUS
  <2>2. /\ c \in Codes /\ v \in Nat \ {0}
        /\ Stored(c)' /\ rows'[c].version = v
        /\ \A w \in DOMAIN written[c] : w <= v
        /\ \A d \in Codes \ {c} : rows'[d] = rows[d]
    BY <1>2, <2>1, CommitEffect
  <2>3. /\ DOMAIN written'[c] = DOMAIN written[c] \cup {v}
        /\ \A d \in Codes \ {c} : written'[d] = written[d]
    BY <1>2, <2>1, CommitNoted
  <2> SUFFICES ASSUME NEW d \in Codes, NEW w \in DOMAIN written'[d]
               PROVE  Stored(d)' /\ w <= rows'[d].version
    BY DEF ReachedOK
  <2>4. CASE d = c
    BY <2>2, <2>3, <2>4
  <2>5. CASE d # c
    BY <2>2, <2>3, <2>5 DEF ReachedOK, Stored
  <2> QED
    BY <2>4, <2>5
<1>3. CASE Removed(s)
  <2>1. PICK c : c = Code(s)
    OBVIOUS
  <2>2. /\ c \in Codes /\ rows'[c] \in Row
        /\ rows'[c].version = rows[c].version
        /\ \A d \in Codes \ {c} : rows'[d] = rows[d]
    BY <1>3, <2>1, RemoveEffect
  <2>3. UNCHANGED written
    BY <1>3 DEF Removed
  <2> SUFFICES ASSUME NEW d \in Codes, NEW w \in DOMAIN written[d]
               PROVE  Stored(d)' /\ w <= rows'[d].version
    BY <2>3 DEF ReachedOK
  <2>4. CASE d = c
    BY <2>2, <2>4 DEF ReachedOK, Stored
  <2>5. CASE d # c
    BY <2>2, <2>5 DEF ReachedOK, Stored
  <2> QED
    BY <2>4, <2>5
<1> QED
  BY <1>1, <1>2, <1>3 DEF Statement, Received, TurnedDown, Loaded, ReadBack,
                          Audited, TablesLeft, Commits

\* A statement of another request leaves a request's trace as it is.
LEMMA TraceFrame ==
  ASSUME TypeOK, ControlOK, ReachedOK, NEW s \in Requests, Statement(s),
         NEW r \in Requests, TraceOf(r), r # s,
         pc'[r] = pc[r], req'[r] = req[r], reply'[r] = reply[r]
  PROVE  TraceOf(r)'
<1>1. /\ Untouched(r)' = Untouched(r) /\ Through(r)' = Through(r)
      /\ Writing(r)' = Writing(r) /\ NewVersion(r)' = NewVersion(r)
      /\ Code(r)' = Code(r)
  BY DEF Untouched, Through, Writing, NewVersion, Code, Answered
<1>2. ASSUME NEW c \in Codes, NEW v \in DOMAIN written'[c],
             written'[c][v].request = r
      PROVE  ~Untouched(r) /\ Writing(r) /\ c = Code(r) /\ v = NewVersion(r)
  <2>1. v \in DOMAIN written[c] /\ written[c][v].request = r
    BY <1>2, WrittenStays
  <2> QED
    BY <2>1 DEF TraceOf, Committed
<1>3. ASSUME Through(r), Writing(r)
      PROVE  /\ NewVersion(r) \in DOMAIN written'[Code(r)]
             /\ written'[Code(r)][NewVersion(r)].request = r
  <2>1. Code(r) \in Codes
    BY <1>3, ServedInput DEF Through, Answered
  <2>2. Committed(r, Code(r), NewVersion(r))
    BY <1>3 DEF TraceOf
  <2> QED
    BY <2>1, <2>2, WrittenStays DEF Committed
<1> QED
  BY <1>1, <1>2, <1>3 DEF TraceOf, Committed

\* A request that has committed nothing, and commits nothing, has no trace.
LEMMA NoTraceYet ==
  ASSUME NEW s \in Requests, TraceOf(s), Untouched(s), UNCHANGED written,
         \/ pc'[s] \in {"load", "insert", "write", "remove"}
         \/ pc'[s] \in {"read", "audit"} /\ req'[s].op \in {"get", "delete"}
         \/ pc'[s] = "done" /\ reply'[s] # "ok"
  PROVE  TraceOf(s)'
<1>1. \A c \in Codes : \A v \in DOMAIN written'[c] : ~Committed(s, c, v)'
  BY DEF TraceOf, Committed
<1>2. ~(Through(s)' /\ Writing(s)')
  BY DEF Through, Writing, Answered
<1> QED
  BY <1>1, <1>2 DEF TraceOf

LEMMA TraceStep ==
  ASSUME TypeOK, ControlOK, ReachedOK, NEW s \in Requests, Statement(s), TraceOf(s)
  PROVE  TraceOf(s)'
<1>1. CASE Received(s)
  <2>1. \/ pc'[s] \in {"insert", "load"}
        \/ pc'[s] = "read" /\ req'[s].op = "get"
        \/ pc'[s] = "done" /\ reply'[s] = "forbidden"
    BY <1>1 DEF Received, FirstStep
  <2> QED
    BY <1>1, <2>1, NoTraceYet DEF Received, TablesLeft, Untouched
<1>2. CASE TurnedDown(s) /\ Untouched(s)
  BY <1>2, NoTraceYet DEF TurnedDown, TablesLeft
<1>3. CASE TurnedDown(s) /\ ~Untouched(s)
  <2>1. ~Untouched(s)' /\ ~Through(s)'
    BY <1>3 DEF TurnedDown, Untouched, Through, Answered
  <2> QED
    BY <1>3, <2>1 DEF TurnedDown, TablesLeft, TraceOf, Committed, Writing, Code,
                      NewVersion
<1>4. CASE Loaded(s)
  BY <1>4, NoTraceYet DEF Loaded, TablesLeft, Untouched
<1>5. CASE Commits(s)
  <2>1. PICK c, v : c = Code(s) /\ v = NewVersion(s)
    OBVIOUS
  <2>2. /\ c \in Codes /\ Writing(s) /\ pc[s] \in {"insert", "write"}
        /\ pc'[s] = "audit" /\ req'[s] = req[s]
    BY <1>5, <2>1, CommitEffect
  <2>3. /\ DOMAIN written'[c] = DOMAIN written[c] \cup {v}
        /\ written'[c][v].request = s
    BY <1>5, <2>1, CommitNoted
  <2>4. /\ ~Untouched(s)' /\ Writing(s)' /\ Code(s)' = c /\ NewVersion(s)' = v
    BY <2>1, <2>2 DEF Untouched, Writing, Code, NewVersion
  <2>5. ASSUME NEW d \in Codes, NEW w \in DOMAIN written'[d],
               written'[d][w].request = s
        PROVE  d = c /\ w = v
    BY <2>1, <2>2, <2>5, WrittenStays DEF TraceOf, Untouched, Committed
  <2> QED
    BY <2>3, <2>4, <2>5 DEF TraceOf, Committed
<1>6. CASE Removed(s)
  <2>1. req[s].op = "delete"
    BY <1>6 DEF Removed, ControlOK, ControlOf
  <2> QED
    BY <1>6, <2>1, NoTraceYet DEF Removed, Untouched
<1>7. CASE /\ UNCHANGED written /\ req'[s] = req[s]
           /\ pc[s] \in {"audit", "read"}
           /\ \/ pc'[s] = "read"
              \/ pc'[s] = "done" /\ reply'[s] \in {"ok", "internal_error"}
  <2>1. ~Untouched(s)'
    BY <1>7 DEF Untouched, Refusals
  <2>2. Through(s)
    BY <1>7 DEF Through
  <2> QED
    BY <1>7, <2>1, <2>2 DEF TraceOf, Committed, Writing, Code, NewVersion
<1>8. CASE Audited(s)
  <2>1. /\ UNCHANGED written /\ req'[s] = req[s]
        /\ pc[s] \in {"audit", "read"}
        /\ \/ pc'[s] = "read"
           \/ pc'[s] = "done" /\ reply'[s] \in {"ok", "internal_error"}
    BY <1>8 DEF Audited
  <2> QED
    BY <1>7, <2>1
<1>9. CASE ReadBack(s)
  BY <1>7, <1>9 DEF ReadBack, TablesLeft
<1> QED
  BY <1>1, <1>2, <1>3, <1>4, <1>5, <1>6, <1>8, <1>9 DEF Statement, Commits

LEMMA TracesStep == TypeOK /\ ControlOK /\ TracesOK /\ [Next]_vars => TracesOK'
<1> SUFFICES ASSUME TypeOK, ControlOK, TracesOK, [Next]_vars PROVE TracesOK'
  OBVIOUS
<1>1. CASE UNCHANGED vars
  BY <1>1 DEF vars, TracesOK, ReachedOK, Stored, TraceOf, Committed, Untouched,
              Through, Writing, Code, NewVersion, Answered
<1>2. ASSUME NEW s \in Requests, OthersLeft(s), Statement(s) PROVE TracesOK'
  <2>1. ReachedOK'
    BY <1>2, ReachedStep DEF TracesOK
  <2>2. ASSUME NEW r \in Requests PROVE TraceOf(r)'
    <3>1. CASE r = s
      BY <1>2, <3>1, TraceStep DEF TracesOK
    <3>2. CASE r # s
      BY <1>2, <3>2, TraceFrame DEF TracesOK, OthersLeft
    <3> QED
      BY <3>1, <3>2
  <2> QED
    BY <2>1, <2>2 DEF TracesOK
<1> QED
  BY <1>1, <1>2, StatementOfOne

LEMMA TracesStart == Init => TracesOK
  BY DEF Init, NothingHandled, TracesOK, ReachedOK, TraceOf, Through, Answered

LEMMA TracesAlways == Spec => [](TypeOK /\ ControlOK /\ TracesOK)
<1>1. /\ Init => TypeOK /\ ControlOK /\ TracesOK
      /\ TypeOK /\ ControlOK /\ TracesOK /\ [Next]_vars =>
           TypeOK' /\ ControlOK' /\ TracesOK'
  BY StartTypes, TypeStep, ControlStep, TracesStart, TracesStep
<1> QED
  BY <1>1, PTL DEF Spec

\* A write a client was told succeeded is the one that made the version after
\* the expected one, and a request refused for its role, a rule or a conflict
\* made none, whatever versions clients expect and whatever fails.
THEOREM AnswersTrue == Spec => []AnswersAreTrue
<1>1. TracesOK => AnswersAreTrue
  BY DEF TracesOK, AnswersAreTrue, TraceOf, Untouched, Through, Answered
<1> QED
  BY <1>1, TracesAlways, PTL

-----------------------------------------------------------------------------
(* Clients that expect versions they have read *)

\* A row goes up one version at a time, and tells the same in between.
LEMMA RowMoves ==
  ASSUME TypeOK, ControlOK, NEW s \in Requests, Statement(s), NEW c \in Codes,
         Stored(c)
  PROVE  /\ Stored(c)' /\ rows[c].version \in Nat /\ rows'[c].version \in Nat
         /\ \/ rows'[c].version = rows[c].version + 1
            \/ /\ rows'[c].version = rows[c].version
               /\ rows'[c].status = rows[c].status
               /\ rows'[c].fields = rows[c].fields
<1>1. rows[c] \in Row /\ rows[c].version \in Nat
  BY DEF TypeOK, Stored, Row
<1>2. CASE rows'[c] = rows[c]
  BY <1>1, <1>2 DEF Stored
<1>3. CASE Inserted(s) /\ c # Code(s)
  BY <1>2, <1>3, InsertEffect
<1>4. CASE Inserted(s) /\ c = Code(s)
  BY <1>4, InsertEffect
<1>5. CASE Updated(s) /\ c # Code(s)
  BY <1>2, <1>5, UpdateEffect
<1>6. CASE Updated(s) /\ c = Code(s)
  <2>1. rows'[c] \in Row
    BY <1>6, UpdateEffect
  <2>2. rows'[c].version = NewVersion(s)
    BY <1>6, UpdateEffect
  <2>3. NewVersion(s) = rows[c].version + 1
    BY <1>6, UpdateEffect
  <2> QED
    BY <1>1, <2>1, <2>2, <2>3 DEF Stored
<1>7. CASE Removed(s) /\ c # Code(s)
  BY <1>2, <1>7, RemoveEffect
<1>8. CASE Removed(s) /\ c = Code(s)
  <2>1. /\ rows'[c] \in Row /\ rows'[c].version = rows[c].version
        /\ rows'[c].status = rows[c].status /\ rows'[c].fields = rows[c].fields
    BY <1>8, RemoveEffect
  <2> QED
    BY <1>1, <2>1 DEF Stored
<1> QED
  BY <1>2, <1>3, <1>4, <1>5, <1>6, <1>7, <1>8
  DEF Statement, Received, TurnedDown, Loaded, ReadBack, Audited, TablesLeft

\* So what a client can have read only grows.
LEMMA KnownGrows ==
  ASSUME TypeOK, ControlOK, [Next]_vars, NEW s \in Requests, Statement(s),
         NEW c \in Codes, NEW n \in Nat, n <= Known(c)
  PROVE  n <= Known(c)'
<1>1. CASE Stored(c)
  <2>1. /\ Stored(c)' /\ rows[c].version \in Nat /\ rows'[c].version \in Nat
        /\ rows[c].version <= rows'[c].version
    BY <1>1, RowMoves
  <2>2. n <= rows[c].version
    BY <1>1 DEF Known
  <2>3. n <= rows'[c].version
    BY <2>1, <2>2
  <2> QED
    BY <2>1, <2>3 DEF Known
<1>2. CASE ~Stored(c)
  <2>1. rows'[c] \in Row \cup {NoRow}
    BY TypeStep DEF TypeOK
  <2>2. Stored(c)' => rows'[c].version \in Nat \ {0}
    BY <2>1 DEF Stored, Row
  <2>3. n <= 1
    BY <1>2 DEF Known
  <2> QED
    BY <2>2, <2>3 DEF Known
<1> QED
  BY <1>1, <1>2

\* An UPDATE that matches finds the row of the snapshot.
LEMMA MatchedRow ==
  ASSUME TypeOK, ControlOK, NEW s \in Requests, Updated(s), ExpectationOf(s),
         NEW c, c = Code(s)
  PROVE  snap[s].status = rows[c].status /\ snap[s].fields = rows[c].fields
<1>1. /\ rows[c] \in Row /\ rows[c].version = req[s].expected
  BY UpdateEffect
<1>2. /\ pc[s] = "write" /\ req[s].op \in {"update", "transition"}
      /\ snap[s] \in Row
  BY DEF Updated, ControlOK, ControlOf
<1>3. /\ req[s].expected <= snap[s].version
      /\ snap[s].version <= rows[c].version
      /\ snap[s].version = rows[c].version =>
           snap[s].status = rows[c].status /\ snap[s].fields = rows[c].fields
  BY <1>2 DEF ExpectationOf
<1>4. snap[s].version \in Nat /\ rows[c].version \in Nat
  BY <1>1, <1>2 DEF Row
<1>5. snap[s].version = rows[c].version
  BY <1>1, <1>3, <1>4
<1> QED
  BY <1>3, <1>5

LEMMA ExpectationFrame ==
  ASSUME TypeOK, ControlOK, [Next]_vars, NEW s \in Requests, Statement(s),
         NEW r \in Requests, ExpectationOf(r), pc'[r] = pc[r],
         req'[r] = req[r], snap'[r] = snap[r]
  PROVE  ExpectationOf(r)'
<1>1. CASE pc[r] = "load" /\ req[r].op # "delete"
  <2>1. PICK c : c = Code(r)
    OBVIOUS
  <2>2. c \in Codes /\ req[r] \in Inputs(Users, Codes, Nat \ {0})
    BY <1>1, <2>1, ServedInput
  <2>3. req[r].op \in {"update", "transition"}
    BY <1>1 DEF ControlOK, ControlOf
  <2>4. req[r].expected \in Nat
    BY <2>2, <2>3, InputType
  <2>5. req[r].expected <= Known(c)
    BY <1>1, <2>1 DEF ExpectationOf
  <2>6. req[r].expected <= Known(c)'
    BY <2>2, <2>4, <2>5, KnownGrows
  <2>7. Code(r)' = c
    BY <2>1 DEF Code
  <2> QED
    BY <1>1, <2>6, <2>7 DEF ExpectationOf, Known, Stored
<1>2. CASE pc[r] = "write"
  <2>1. PICK c : c = Code(r)
    OBVIOUS
  <2>2. c \in Codes /\ snap[r] \in Row
    BY <1>2, <2>1, ServedInput DEF ControlOK, ControlOf
  <2>3. /\ Stored(c) /\ req[r].expected <= snap[r].version
        /\ snap[r].version <= rows[c].version
        /\ snap[r].version = rows[c].version =>
             snap[r].status = rows[c].status /\ snap[r].fields = rows[c].fields
    BY <1>2, <2>1 DEF ExpectationOf
  <2>4. /\ Stored(c)' /\ rows[c].version \in Nat /\ rows'[c].version \in Nat
        /\ \/ rows'[c].version = rows[c].version + 1
           \/ /\ rows'[c].version = rows[c].version
              /\ rows'[c].status = rows[c].status
              /\ rows'[c].fields = rows[c].fields
    BY <2>2, <2>3, RowMoves
  <2>5. snap[r].version \in Nat
    BY <2>2 DEF Row
  <2>6. /\ snap[r].version <= rows'[c].version
        /\ snap[r].version = rows'[c].version =>
             snap[r].status = rows'[c].status /\ snap[r].fields = rows'[c].fields
    BY <2>3, <2>4, <2>5
  <2>7. Code(r)' = c
    BY <2>1 DEF Code
  <2> QED
    BY <1>2, <2>3, <2>4, <2>6, <2>7 DEF ExpectationOf, Stored
<1> QED
  BY <1>1, <1>2 DEF ExpectationOf

\* The input a client sends expects no version beyond the one it can have
\* read.
LEMMA ReceivedExpectation ==
  ASSUME TypeOK, Lookahead = 0, NEW s \in Requests, Received(s)
  PROVE  ExpectationOf(s)'
<1>1. PICK c \in Codes :
        req'[s] \in Inputs(Callers, {c}, 1..(Known(c) + Lookahead))
  BY DEF Received
<1>2. pc'[s] = FirstStep(req'[s].op) \/ pc'[s] = "done"
  BY DEF Received
<1>3. pc'[s] # "write"
  BY <1>2 DEF FirstStep
<1>4. ASSUME pc'[s] = "load", req'[s].op # "delete"
      PROVE  req'[s].expected <= Known(c)
  <2>0. req'[s].op \in AllOperations
    BY <1>1, InputType
  <2>1. req'[s].op \in {"update", "transition"}
    BY <1>2, <1>4, <2>0 DEF FirstStep, AllOperations
  <2>2. PICK q, V : q = req'[s] /\ V = 1..(Known(c) + Lookahead)
    OBVIOUS
  <2>4. q \in Inputs(Callers, {c}, V) /\ q.op \in {"update", "transition"}
    BY <1>1, <2>1, <2>2
  <2>5. q.expected \in V
    BY <2>4, InputType
  <2>3. Known(c) \in Nat
    BY DEF Known, Stored, TypeOK, Row
  <2> QED
    BY <2>2, <2>3, <2>5
<1>5. Code(s)' = c
  BY <1>1, InputType DEF Code
<1>6. Known(c)' = Known(c)
  BY DEF Received, TablesLeft, Known, Stored
<1> QED
  BY <1>3, <1>4, <1>5, <1>6 DEF ExpectationOf, Known, Stored

\* The service loads a version no older than the expected one.
LEMMA LoadedExpectation ==
  ASSUME TypeOK, ControlOK, NEW s \in Requests, Loaded(s), ExpectationOf(s)
  PROVE  ExpectationOf(s)'
<1>1. PICK c : c = Code(s)
  OBVIOUS
<1>2. c \in Codes /\ Code(s)' = c /\ UNCHANGED rows
  BY <1>1, ServedInput DEF Loaded, Code, TablesLeft
<1>3. Stored(c) /\ snap'[s] = rows[c]
  BY <1>1 DEF Loaded, Live
<1>4. rows[c].version \in Nat
  BY <1>2, <1>3 DEF TypeOK, Stored, Row
<1>5. ASSUME pc'[s] = "write" PROVE req[s].expected <= rows[c].version
  <2>1. req[s].op # "delete" /\ pc[s] = "load"
    BY <1>5 DEF Loaded
  <2> QED
    BY <1>1, <1>3, <2>1 DEF ExpectationOf, Known
<1>6. pc'[s] # "load" /\ req'[s] = req[s]
  BY DEF Loaded
<1> QED
  BY <1>2, <1>3, <1>4, <1>5, <1>6 DEF ExpectationOf, Stored

LEMMA ExpectationsStep ==
  ASSUME TypeOK, ControlOK, ExpectationsOK, Lookahead = 0, [Next]_vars
  PROVE  ExpectationsOK'
<1> SUFFICES ASSUME NEW r \in Requests PROVE ExpectationOf(r)'
  BY DEF ExpectationsOK
<1>0. ExpectationOf(r)
  BY DEF ExpectationsOK
<1>1. CASE UNCHANGED vars
  BY <1>0, <1>1 DEF vars, ExpectationOf, Code, Known, Stored
<1>2. ASSUME NEW s \in Requests, OthersLeft(s), Statement(s)
      PROVE  ExpectationOf(r)'
  <2>1. CASE r # s
    BY <1>0, <1>2, <2>1, ExpectationFrame DEF OthersLeft
  <2>2. CASE r = s /\ Received(s)
    BY <2>2, ReceivedExpectation
  <2>3. CASE r = s /\ Loaded(s)
    BY <1>0, <2>3, LoadedExpectation
  <2>4. CASE r = s /\ pc'[s] \in {"audit", "read", "done"}
    BY <2>4 DEF ExpectationOf
  <2> QED
    BY <1>2, <2>1, <2>2, <2>3, <2>4
    DEF Statement, TurnedDown, Inserted, Updated, Removed, Audited, ReadBack
<1> QED
  BY <1>1, <1>2, StatementOfOne

\* What the audit entry of a write shows.
LEMMA EntryShows ==
  ASSUME NEW r, NEW a
  PROVE  /\ AuditEntry(r, a).request = r /\ AuditEntry(r, a).code = Code(r)
         /\ AuditEntry(r, a).action = req[r].op
         /\ req[r].op = "create" =>
              AuditEntry(r, a).before = NoStatus /\ AuditEntry(r, a).after = a
         /\ req[r].op # "create" => AuditEntry(r, a).before = snap[r].status
         /\ req[r].op = "update" => AuditEntry(r, a).after = snap[r].status
         /\ req[r].op = "transition" => AuditEntry(r, a).after = req[r].target
  BY DEF AuditEntry, Code, NoStatus

LEMMA CommitSnapshot ==
  ASSUME TypeOK, ControlOK, ReachedOK, NEW s \in Requests, Commits(s),
         ExpectationOf(s)
  PROVE  SnapshotOf(s)'
<1>1. PICK c, v : c = Code(s) /\ v = NewVersion(s)
  OBVIOUS
<1>2. c \in Codes /\ req'[s] = req[s]
  BY <1>1, CommitEffect
<1>3. Code(s)' = c /\ NewVersion(s)' = v
  BY <1>1, <1>2 DEF Code, NewVersion
<1>4. CASE Inserted(s)
  <2>1. req[s].op = "create"
    BY <1>4, InsertEffect
  <2>2. v = 1
    BY <1>1, <2>1 DEF NewVersion
  <2>3. written'[c][v].before = NoStatus /\ written'[c][v].after = Initial(c)
    BY <1>1, <1>4, <2>2, InsertNoted
  <2> QED
    BY <1>2, <1>3, <2>1, <2>3 DEF SnapshotOf, ChangeOf, NoStatus, Initial
<1>5. CASE Updated(s)
  <2>1. /\ written'[c][v].before = rows[c].status
        /\ written'[c][v].after = Changed(s).status
    BY <1>1, <1>5, UpdateNoted
  <2>2. snap[s].status = rows[c].status
    BY <1>1, <1>5, MatchedRow
  <2>3. /\ pc[s] = "write" /\ snap'[s] = snap[s]
        /\ req[s].op \in {"update", "transition"}
    BY <1>5 DEF Updated, ControlOK, ControlOf
  <2>4. /\ req[s].op = "update" => Changed(s).status = snap[s].status
        /\ req[s].op = "transition" => Changed(s).status = req[s].target
    BY <2>3, ChangedType
  <2> QED
    BY <1>2, <1>3, <2>1, <2>2, <2>3, <2>4 DEF SnapshotOf, ChangeOf
<1> QED
  BY <1>4, <1>5 DEF Commits

LEMMA SnapshotFrame ==
  ASSUME TypeOK, ControlOK, TracesOK, NEW s \in Requests, Statement(s),
         NEW r \in Requests, SnapshotOf(r), pc'[r] = pc[r],
         req'[r] = req[r], snap'[r] = snap[r]
  PROVE  SnapshotOf(r)'
<1> SUFFICES ASSUME pc[r] = "audit", Writing(r) PROVE SnapshotOf(r)'
  BY DEF SnapshotOf, Writing
<1>1. PICK c, v : c = Code(r) /\ v = NewVersion(r)
  OBVIOUS
<1>2. c \in Codes /\ Code(r)' = c /\ NewVersion(r)' = v
  BY <1>1, ServedInput DEF Code, NewVersion
<1>3. v \in DOMAIN written[c]
  BY <1>1 DEF TracesOK, TraceOf, Through, Committed
<1>4. written'[c][v] = written[c][v]
  BY <1>2, <1>3, WrittenStays DEF TracesOK
<1>5. ChangeOf(r)' = ChangeOf(r)
  BY <1>1, <1>2, <1>4 DEF ChangeOf
<1> QED
  BY <1>1, <1>2, <1>5 DEF SnapshotOf, Writing

LEMMA SnapshotsStep ==
  ASSUME RecordsInvariant, [Next]_vars
  PROVE  SnapshotsOK'
<1> SUFFICES ASSUME NEW r \in Requests PROVE SnapshotOf(r)'
  BY DEF SnapshotsOK
<1> USE DEF RecordsInvariant
<1>0. SnapshotOf(r) /\ ExpectationOf(r)
  BY DEF SnapshotsOK, ExpectationsOK
<1>1. CASE UNCHANGED vars
  BY <1>0, <1>1 DEF vars, SnapshotOf, ChangeOf, Writing, Code, NewVersion
<1>2. ASSUME NEW s \in Requests, OthersLeft(s), Statement(s)
      PROVE  SnapshotOf(r)'
  <2>1. CASE r # s
    BY <1>0, <1>2, <2>1, SnapshotFrame DEF OthersLeft
  <2>2. CASE r = s /\ Commits(s)
    BY <1>0, <2>2, CommitSnapshot DEF TracesOK
  <2>3. CASE r = s /\ Removed(s)
    BY <2>3 DEF Removed, SnapshotOf, Writing, ControlOK, ControlOf
  <2>4. CASE r = s /\ pc'[s] # "audit"
    BY <2>4 DEF SnapshotOf
  <2> QED
    BY <1>2, <2>1, <2>2, <2>3, <2>4
    DEF Statement, Commits, Received, FirstStep, TurnedDown, Loaded, Audited,
        ReadBack
<1> QED
  BY <1>1, <1>2, StatementOfOne

LEMMA InvariantStep ==
  ASSUME Lookahead = 0
  PROVE  RecordsInvariant /\ [Next]_vars => RecordsInvariant'
<1> SUFFICES ASSUME RecordsInvariant, [Next]_vars PROVE RecordsInvariant'
  OBVIOUS
<1>1. TypeOK' /\ ControlOK' /\ TracesOK'
  BY TypeStep, ControlStep, TracesStep DEF RecordsInvariant
<1>2. ExpectationsOK'
  BY ExpectationsStep DEF RecordsInvariant
<1>3. SnapshotsOK'
  BY SnapshotsStep
<1> QED
  BY <1>1, <1>2, <1>3 DEF RecordsInvariant

LEMMA InvariantStart == Init => RecordsInvariant
<1>1. Init => ExpectationsOK /\ SnapshotsOK
  BY DEF Init, NothingHandled, ExpectationsOK, ExpectationOf, SnapshotsOK,
         SnapshotOf
<1> QED
  BY <1>1, StartTypes, TracesStart DEF RecordsInvariant

\* While clients expect versions they have read, every request in flight is
\* bound to the version it was checked against: the whole inductive
\* invariant.
THEOREM InvariantHolds ==
  ASSUME Lookahead = 0
  PROVE  Spec => []RecordsInvariant
<1>1. /\ Init => RecordsInvariant
      /\ RecordsInvariant /\ [Next]_vars => RecordsInvariant'
  BY InvariantStart, InvariantStep
<1> QED
  BY <1>1, PTL DEF Spec

\* A request keeps its input.
LEMMA InputStays ==
  ASSUME TypeOK, [Next]_vars, NEW r \in Requests, pc[r] # "idle"
  PROVE  req'[r] = req[r]
<1>1. CASE UNCHANGED vars
  BY <1>1 DEF vars
<1>2. ASSUME NEW s \in Requests, OthersLeft(s), Statement(s)
      PROVE  req'[r] = req[r]
  BY <1>2 DEF OthersLeft, Statement, Received, TurnedDown, Loaded, Inserted,
              Updated, Removed, Audited, ReadBack
<1> QED
  BY <1>1, <1>2, StatementOfOne

\* Who made a version has been handled.
LEMMA MakerKnown ==
  ASSUME TypeOK, TracesOK, NEW c \in Codes, NEW v \in DOMAIN written[c],
         NEW r, r = written[c][v].request
  PROVE  r \in Requests /\ pc[r] # "idle"
<1>1. r \in Requests
  BY DEF TypeOK, WrittenOK, Change
<1> QED
  BY <1>1 DEF TracesOK, TraceOf, Committed, Untouched

\* A committed change stays as it is.
LEMMA ChangesStay ==
  ASSUME TypeOK, ControlOK, TracesOK, [Next]_vars,
         NEW c \in Codes, NEW v \in DOMAIN written[c]
  PROVE  v \in DOMAIN written'[c] /\ written'[c][v] = written[c][v]
<1>1. CASE UNCHANGED vars
  BY <1>1 DEF vars
<1>2. ASSUME NEW s \in Requests, Statement(s)
      PROVE  v \in DOMAIN written'[c] /\ written'[c][v] = written[c][v]
  BY <1>2, WrittenStays DEF TracesOK
<1> QED
  BY <1>1, <1>2, StatementOfOne

LEMMA EditsStep ==
  ASSUME RecordsInvariant, EditsKeepStatus, [Next]_vars
  PROVE  EditsKeepStatus'
<1> USE DEF RecordsInvariant
<1> SUFFICES ASSUME NEW c \in Codes, NEW v \in DOMAIN written'[c],
                    NEW r, r = written'[c][v].request, req'[r].op = "update"
             PROVE  written'[c][v].before = written'[c][v].after
  BY DEF EditsKeepStatus
<1>1. CASE v \in DOMAIN written[c]
  <2>1. written'[c][v] = written[c][v]
    BY <1>1, ChangesStay
  <2>2. r \in Requests /\ pc[r] # "idle"
    BY <1>1, <2>1, MakerKnown
  <2>3. req'[r] = req[r]
    BY <2>2, InputStays
  <2> QED
    BY <1>1, <2>1, <2>3 DEF EditsKeepStatus
<1>2. CASE v \notin DOMAIN written[c]
  <2>1. PICK s \in Requests : Statement(s)
    BY <1>2, StatementOfOne DEF vars
  <2>2. Commits(s) /\ c = Code(s) /\ v = NewVersion(s) /\ r = s
    BY <1>2, <2>1, WrittenStays DEF TracesOK
  <2>3. Updated(s)
    BY <2>2 DEF Commits, Inserted, ControlOK, ControlOf
  <2>4. /\ written'[c][v].before = rows[c].status
        /\ written'[c][v].after = Changed(s).status
    BY <2>2, <2>3, UpdateNoted
  <2>5. snap[s].status = rows[c].status
    BY <2>2, <2>3, MatchedRow DEF ExpectationsOK
  <2>6. pc[s] = "write" /\ req[s].op = "update"
    BY <2>2, <2>3 DEF Updated
  <2>7. Changed(s).status = snap[s].status
    BY <2>6, ChangedType
  <2> QED
    BY <2>4, <2>5, <2>7
<1> QED
  BY <1>1, <1>2

\* An edit, which writes back the whole row it loaded, changes no status.
THEOREM StatusKeptByEdits ==
  ASSUME Lookahead = 0
  PROVE  Spec => []EditsKeepStatus
<1>1. Init => RecordsInvariant /\ EditsKeepStatus
  BY InvariantStart DEF Init, EditsKeepStatus
<1>2. RecordsInvariant /\ EditsKeepStatus /\ [Next]_vars =>
        RecordsInvariant' /\ EditsKeepStatus'
  BY InvariantStep, EditsStep
<1> QED
  BY <1>1, <1>2, PTL DEF Spec

LEMMA EntryStaysTrue ==
  ASSUME RecordsInvariant, [Next]_vars, NEW r \in Requests,
         NEW entry, entry.code \in Codes, EntryTrue(r, entry)
  PROVE  EntryTrue(r, entry)'
<1> USE DEF RecordsInvariant
<1>1. PICK c, v : c = entry.code /\ v = NewVersion(r)
  OBVIOUS
<1>2. /\ c \in Codes /\ v \in DOMAIN written[c] /\ written[c][v].request = r
      /\ written[c][v].before = entry.before
      /\ written[c][v].after = entry.after
  BY <1>1 DEF EntryTrue, Committed
<1>3. v \in DOMAIN written'[c] /\ written'[c][v] = written[c][v]
  BY <1>2, ChangesStay
<1>4. pc[r] # "idle"
  BY <1>2, MakerKnown
<1>5. req'[r] = req[r]
  BY <1>4, InputStays
<1>6. NewVersion(r)' = v
  BY <1>1, <1>5 DEF NewVersion
<1> QED
  BY <1>1, <1>2, <1>3, <1>6 DEF EntryTrue, Committed

LEMMA NewEntryTrue ==
  ASSUME RecordsInvariant, NEW s \in Requests, Audited(s),
         NEW entry, entry = AuditEntry(s, Initial(Code(s))),
         entry.action # "delete"
  PROVE  EntryTrue(s, entry)'
<1> USE DEF RecordsInvariant
<1>1. pc[s] = "audit" /\ req'[s] = req[s] /\ UNCHANGED written
  BY DEF Audited
<1>2. PICK a : a = Initial(Code(s))
  OBVIOUS
<1>3. /\ entry.code = Code(s) /\ entry.action = req[s].op
      /\ req[s].op = "create" => entry.before = NoStatus /\ entry.after = a
      /\ req[s].op # "create" => entry.before = snap[s].status
      /\ req[s].op = "update" => entry.after = snap[s].status
      /\ req[s].op = "transition" => entry.after = req[s].target
  BY <1>2, EntryShows
<1>4. req[s].op \in {"create", "update", "transition"}
  BY <1>1, <1>3 DEF ControlOK, ControlOf, AllOperations
<1>5. Writing(s) /\ Committed(s, Code(s), NewVersion(s))
  BY <1>1, <1>4 DEF Writing, TracesOK, TraceOf, Through
<1>6. ChangeOf(s).before = entry.before /\ ChangeOf(s).after = entry.after
  BY <1>1, <1>2, <1>3, <1>4, <1>5 DEF SnapshotsOK, SnapshotOf, NoStatus
<1>7. NewVersion(s)' = NewVersion(s)
  BY <1>1 DEF NewVersion
<1> QED
  BY <1>1, <1>3, <1>5, <1>6, <1>7 DEF EntryTrue, Committed, ChangeOf

LEMMA AuditTruthStep ==
  ASSUME RecordsInvariant, AuditTellsTheTruth, [Next]_vars
  PROVE  AuditTellsTheTruth'
<1> USE DEF RecordsInvariant
<1> SUFFICES ASSUME NEW entry \in audits', entry.action # "delete"
             PROVE  EntryTrue(entry.request, entry)'
  BY DEF AuditTellsTheTruth
<1>1. CASE entry \in audits
  <2>1. entry.request \in Requests /\ entry.code \in Codes
    BY <1>1 DEF TypeOK, AuditLog
  <2>2. EntryTrue(entry.request, entry)
    BY <1>1 DEF AuditTellsTheTruth
  <2> QED
    BY <2>1, <2>2, EntryStaysTrue
<1>2. CASE entry \notin audits
  <2>1. PICK s \in Requests : Statement(s)
    BY <1>2, StatementOfOne DEF vars
  <2>2. Audited(s) /\ entry = AuditEntry(s, Initial(Code(s)))
    BY <1>2, <2>1 DEF Statement, Received, TurnedDown, Loaded, Inserted, Updated,
                      Removed, ReadBack, Audited, TablesLeft
  <2>3. entry.request = s
    BY <2>2, EntryShows
  <2> QED
    BY <2>2, <2>3, NewEntryTrue
<1> QED
  BY <1>1, <1>2

\* The audit entry of a create, update or transition tells what its write did
\* to the status, although it is made from a snapshot after the commit.
THEOREM AuditTruthful ==
  ASSUME Lookahead = 0
  PROVE  Spec => []AuditTellsTheTruth
<1>1. Init => RecordsInvariant /\ AuditTellsTheTruth
  BY InvariantStart DEF Init, NothingHandled, AuditTellsTheTruth
<1>2. RecordsInvariant /\ AuditTellsTheTruth /\ [Next]_vars =>
        RecordsInvariant' /\ AuditTellsTheTruth'
  BY InvariantStep, AuditTruthStep
<1> QED
  BY <1>1, <1>2, PTL DEF Spec

\* One statement changes a record by one legal step at most.
LEMMA LegalStep ==
  ASSUME RecordsInvariant, [Next]_vars, NEW c \in Codes, Stored(c),
         rows'[c] # rows[c]
  PROVE  /\ ~rows[c].deleted
         /\ \/ rows'[c] = [rows[c] EXCEPT !.deleted = TRUE]
            \/ /\ rows'[c].version = rows[c].version + 1
               /\ ~rows'[c].deleted
               /\ \/ rows'[c].status = rows[c].status
                  \/ /\ CanTransition(Transitions(c), rows[c].status,
                                      rows'[c].status)
                     /\ rows'[c].fields = rows[c].fields
<1> USE DEF RecordsInvariant
<1>1. PICK s \in Requests : Statement(s)
  BY StatementOfOne DEF vars
<1>2. CASE Inserted(s)
  <2>1. PICK d : d = Code(s)
    OBVIOUS
  <2>2. ~Stored(d) /\ \A e \in Codes \ {d} : rows'[e] = rows[e]
    BY <1>2, <2>1, InsertEffect
  <2> QED
    BY <2>2
<1>3. CASE Removed(s)
  <2>1. PICK d : d = Code(s)
    OBVIOUS
  <2>2. /\ rows[d].deleted = FALSE
        /\ rows'[d] = [rows[d] EXCEPT !.deleted = TRUE]
        /\ \A e \in Codes \ {d} : rows'[e] = rows[e]
    BY <1>3, <2>1, RemoveEffect
  <2> QED
    BY <2>2
<1>4. CASE Updated(s)
  <2>1. PICK d : d = Code(s)
    OBVIOUS
  <2>2. /\ rows[d].deleted = FALSE /\ rows'[d].deleted = FALSE
        /\ rows'[d].version = NewVersion(s)
        /\ NewVersion(s) = rows[d].version + 1
        /\ rows'[d].status = Changed(s).status
        /\ rows'[d].fields = Changed(s).fields
        /\ \A e \in Codes \ {d} : rows'[e] = rows[e]
    BY <1>4, <2>1, UpdateEffect
  <2>3. snap[s].status = rows[d].status /\ snap[s].fields = rows[d].fields
    BY <1>4, <2>1, MatchedRow DEF ExpectationsOK
  <2>4. pc[s] = "write" /\ req[s].op \in {"update", "transition"}
    BY <1>4 DEF Updated, ControlOK, ControlOf
  <2>5. \/ Changed(s).status = snap[s].status
        \/ /\ CanTransition(Transitions(d), snap[s].status, Changed(s).status)
           /\ Changed(s).fields = snap[s].fields
    BY <2>1, <2>4, ChangedType
  <2>6. c = d
    BY <2>2
  <2> QED
    BY <2>2, <2>3, <2>5, <2>6
<1> QED
  BY <1>1, <1>2, <1>3, <1>4 DEF Statement, Received, TurnedDown, Loaded, ReadBack,
                                Audited, TablesLeft

\* A record changes one version at a time, by an edit that leaves the status
\* or a move along its own graph that leaves the fields, and a deleted record
\* never changes: no statement of any other request comes between the check
\* of a service and its write that the version does not give away.
THEOREM ChangesLegal ==
  ASSUME Lookahead = 0
  PROVE  Spec => OneLegalChangeAtATime
<1>1. RecordsInvariant /\ [Next]_vars =>
        [\A c \in Codes : Stored(c) /\ rows'[c] # rows[c] =>
           LET old == rows[c]
               new == rows'[c]
           IN /\ ~old.deleted
              /\ \/ new = [old EXCEPT !.deleted = TRUE]
                 \/ /\ new.version = old.version + 1
                    /\ ~new.deleted
                    /\ \/ new.status = old.status
                       \/ /\ CanTransition(Transitions(c), old.status, new.status)
                          /\ new.fields = old.fields
        ]_vars
  BY LegalStep
<1> QED
  BY <1>1, InvariantHolds, PTL DEF Spec, OneLegalChangeAtATime

=============================================================================
