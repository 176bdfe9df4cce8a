-------------------------- MODULE WorkbenchProofs --------------------------
(***************************************************************************)
(* Theorems about Workbench, for any number of moves, lists, decisions and *)
(* other clients: whatever order a tab's calls are answered in, the server *)
(* sees a client that has read what it refers to.                          *)
(***************************************************************************)
EXTENDS WorkbenchProperties, DecisionPromiseProofs

USE WorkbenchAssumptions, DecisionAssumptions, HandlersAssumptions,
    NoRowAssumption

\* What is proved of the server for any clients.
ServerOK == TypeOK /\ ControlOK /\ HistoryComplete

\* The rows shown for a decision: on the screen, in the dialog or in an
\* answer on its way.
Shown(c, row) ==
  \/ screen[c] = row
  \/ /\ dialog # NoDialog /\ dialog.kind = "transition"
     /\ dialog.code = c /\ dialog.item = row
  \/ \E l \in Lists : loads[l].page[c] = row

ShownOK == \A c \in Codes : \A row \in Row : Shown(c, row) => WasVersion(c, row)

\* An answer has all the revisions up to the version it shows.
ListedOK ==
  \A l \in Lists : \A c \in Codes :
    loads[l].page[c] # NoRow /\ loads[l].step = "ok" =>
      1..loads[l].page[c].version \subseteq loads[l].listed[c]

Inv == ServerOK /\ WorkbenchTypeOK /\ TabOK /\ ShownOK /\ ListedOK

-----------------------------------------------------------------------------
(* Data *)

LEMMA NextIsStatus ==
  ASSUME NEW item PROVE next(item) \subseteq Statuses
<1>1. ENTITY_CONFIGS.decisions = <<"draft", "review", "accepted", "escalated">>
  BY DEF ENTITY_CONFIGS
<1>2. \A i \in 1..4 : ENTITY_CONFIGS.decisions[i] \in Statuses
  BY <1>1, StatusNames
<1>3. Len(ENTITY_CONFIGS.decisions) = 4
  BY <1>1
<1> QED
  BY <1>2, <1>3 DEF next, nextStatus

\* On each of the four pages, what the button offers for a status is a step
\* of the graph the server keeps for that kind of record, although the page
\* has a list of statuses of its own.
THEOREM ButtonsFollowGraph ==
  ASSUME NEW page \in DOMAIN ENTITY_CONFIGS, NEW current,
         NEW target \in nextStatus(current, ENTITY_CONFIGS[page])
  PROVE  CanTransition(GraphOf[page], current, target)
<1>1. page \in {"units", "rules", "samples", "decisions"}
  BY DEF ENTITY_CONFIGS
<1>2. PICK i \in 1..(Len(ENTITY_CONFIGS[page]) - 1) :
        ENTITY_CONFIGS[page][i] = current /\ target = ENTITY_CONFIGS[page][i + 1]
  BY DEF nextStatus
<1>3. CASE page = "units"
  <2>1. ENTITY_CONFIGS[page] = <<"standby", "running", "limited", "stopped">>
    BY <1>3 DEF ENTITY_CONFIGS
  <2>2. GraphOf[page] = CaptureUnitTransitions
    BY <1>3 DEF GraphOf
  <2> QED
    BY <1>2, <2>1, <2>2 DEF CanTransition, CaptureUnitTransitions
<1>4. CASE page = "rules"
  <2>1. ENTITY_CONFIGS[page] = <<"draft", "active", "superseded", "retired">>
    BY <1>4 DEF ENTITY_CONFIGS
  <2>2. GraphOf[page] = PermitRuleTransitions
    BY <1>4 DEF GraphOf
  <2> QED
    BY <1>2, <2>1, <2>2 DEF CanTransition, PermitRuleTransitions
<1>5. CASE page = "samples"
  <2>1. ENTITY_CONFIGS[page] = <<"collected", "testing", "verified", "invalid">>
    BY <1>5 DEF ENTITY_CONFIGS
  <2>2. GraphOf[page] = EmissionSampleTransitions
    BY <1>5 DEF GraphOf
  <2> QED
    BY <1>2, <2>1, <2>2 DEF CanTransition, EmissionSampleTransitions
<1>6. CASE page = "decisions"
  <2>1. ENTITY_CONFIGS[page] = <<"draft", "review", "accepted", "escalated">>
    BY <1>6 DEF ENTITY_CONFIGS
  <2>2. GraphOf[page] = ComplianceDecisionTransitions
    BY <1>6 DEF GraphOf
  <2> QED
    BY <1>2, <2>1, <2>2 DEF CanTransition, ComplianceDecisionTransitions
<1> QED
  BY <1>1, <1>3, <1>4, <1>5, <1>6

LEMMA SomebodyWrites ==
  ASSUME TabOK, canWrite
  PROVE  session \in Callers
  BY DEF TabOK, canWrite, hasMinimumRole

LEMMA EmptyPageType == EmptyPage \in Page
  BY DEF EmptyPage, Page

LEMMA NotLoadedType ==
  ASSUME NEW step \in {"idle", "asked", "failed"}
  PROVE  NotLoaded(step) \in ListState
  BY EmptyPageType DEF NotLoaded, ListState

LEMMA AskType ==
  ASSUME WorkbenchTypeOK, NEW l \in Lists, NEW as, Ask(l, as)
  PROVE  loads' \in [Lists -> ListState] /\ loading' \in BOOLEAN
  BY NotLoadedType DEF WorkbenchTypeOK, Ask

\* A dialog opened on a row of the screen.
LEMMA TransitionDialogType ==
  ASSUME NEW c \in Codes, NEW item \in Row, NEW status \in Statuses
  PROVE  TransitionDialog(c, item, status) \in Dialog
  BY DEF TransitionDialog, Dialog

LEMMA CreateDialogType == CreateDialog \in Dialog
  BY DEF CreateDialog, Dialog

-----------------------------------------------------------------------------
(* Every step of the tab is a step of the server or none *)

\* What the tab sends is what a client of the server may send: it names a
\* version that was on the screen when the dialog was opened.
LEMMA ConfirmIsRequest ==
  ASSUME Inv, NEW m \in Moves, Confirm(m)
  PROVE  Start(m) \/ UNCHANGED vars
<1>1. CASE UNCHANGED vars
  BY <1>1
<1>2. CASE (\E q \in Body : Accept(m, q)) /\ UNCHANGED <<revisions, listed>>
  <2>1. PICK q \in Body : Accept(m, q)
    BY <1>2
  <2>2. pc[m] = "idle" /\ dialog \in Dialog /\ m \in Requests
    BY DEF Inv, TabOK, Confirm, WorkbenchTypeOK
  <2>3. CASE dialog.kind = "create"
    <3>1. canWrite
      BY <2>3 DEF Confirm
    <3>2. session \in Callers
      BY <3>1, SomebodyWrites DEF Inv
    <3>3. q \in [op: {"create"}, user: {session}, code: Codes, fields: ValidFields]
      BY <2>1, <2>3 DEF Body
    <3>4. q.code \in Codes /\ q.op \in Operations
      BY <3>3
    <3>5. q \in Inputs(Callers, {q.code}, 1..(Known(q.code) + Lookahead))
      BY <3>2, <3>3 DEF Inputs
    <3>6. Receive(m)
      BY <2>1, <2>2, <3>4, <3>5 DEF Receive
    <3> QED
      BY <1>2, <3>6 DEF Start
  <2>4. CASE dialog.kind # "create"
    <3>1. dialog \in [kind: {"transition"}, code: Codes, item: Row, status: Statuses]
      BY <2>2, <2>4 DEF Dialog
    <3>2. canTransition(dialog.item)
      BY <2>4 DEF Confirm
    <3>3. session \in Callers
      BY <3>2, SomebodyWrites DEF Inv, canTransition
    <3>4. q \in [op: {"transition"}, user: {session}, code: {dialog.code},
                 expected: {dialog.item.version}, target: {dialog.status}]
      BY <2>1, <2>4 DEF Body
    <3>5. /\ q.code \in Codes /\ q.code = dialog.code
          /\ q.op \in Operations
      BY <3>1, <3>4
    <3>6. WasVersion(dialog.code, dialog.item)
      <4>1. dialog # NoDialog /\ dialog.kind = "transition"
            /\ dialog.code \in Codes /\ dialog.item \in Row
        BY <3>1 DEF Confirm
      <4> QED
        BY <4>1 DEF Inv, ShownOK, Shown
    <3>7. dialog.item.version \in 1..Known(dialog.code)
      <4>1. CompleteHistory(dialog.code)
        BY <3>1 DEF Inv, ServerOK, HistoryComplete
      <4> QED
        BY <3>6, <4>1 DEF CompleteHistory, WasVersion, Known
    <3>8. Known(dialog.code) \in Nat /\ Lookahead \in Nat
      <4>1. rows[dialog.code] \in Row \cup {NoRow}
        BY <3>1 DEF Inv, ServerOK, TypeOK
      <4> QED
        BY <4>1 DEF Known, Stored, Row
    <3>9. dialog.item.version \in 1..(Known(q.code) + Lookahead)
      BY <3>5, <3>7, <3>8
    <3>10. q \in Inputs(Callers, {q.code}, 1..(Known(q.code) + Lookahead))
      <4>1. dialog.status \in Targets
        BY <3>1 DEF Targets
      <4> QED
        BY <3>3, <3>4, <3>9, <4>1 DEF Inputs
    <3>11. Receive(m)
      BY <2>1, <2>2, <3>5, <3>10 DEF Receive
    <3> QED
      BY <1>2, <3>11 DEF Start
  <2> QED
    BY <2>3, <2>4
<1> QED
  BY <1>1, <1>2 DEF Confirm

LEMMA TabStep ==
  ASSUME Inv, [WorkbenchNext]_<<vars, tab>>
  PROVE  [Next]_vars
<1>1. ASSUME NEW m \in Moves, Confirm(m) PROVE Next \/ UNCHANGED vars
  BY <1>1, ConfirmIsRequest DEF Next
<1>2. ASSUME NEW r \in Requests, Serve(r) \/ OtherClient(r) PROVE Next
  BY <1>2 DEF Next, Serve, OtherClient
<1>3. CASE User
  BY <1>1, <1>3 DEF User, Query, openCreate, openTransition, Cancel, logout
<1>4. ASSUME NEW m \in Moves, MoveFails(m) \/ MoveDone(m) PROVE UNCHANGED vars
  BY <1>4 DEF MoveFails, MoveDone
<1>5. ASSUME NEW l \in Lists, List(l) \/ ListArrives(l) PROVE UNCHANGED vars
  BY <1>5 DEF List, ReadPage, ReadRevisions, ListFails, ListArrives
<1>6. CASE authenticate
  BY <1>6 DEF authenticate
<1> QED
  BY <1>2, <1>3, <1>4, <1>5, <1>6 DEF WorkbenchNext

-----------------------------------------------------------------------------
(* Types of the tab *)

LEMMA UserType ==
  ASSUME Inv, User
  PROVE  WorkbenchTypeOK'
<1> USE DEF Inv
<1>1. ASSUME NEW q \in Queries, Query(q) PROVE WorkbenchTypeOK'
  BY <1>1, AskType DEF WorkbenchTypeOK, Query, Lists
<1>2. CASE openCreate
  BY <1>2, CreateDialogType DEF WorkbenchTypeOK, openCreate
<1>3. ASSUME NEW c \in Codes, openTransition(c) PROVE WorkbenchTypeOK'
  <2>1. screen[c] \in Row
    BY <1>3 DEF WorkbenchTypeOK, Page, openTransition
  <2>2. PICK status \in next(screen[c]) :
          dialog' = TransitionDialog(c, screen[c], status)
    BY <1>3 DEF openTransition
  <2>3. dialog' \in Dialog
    BY <2>1, <2>2, NextIsStatus, TransitionDialogType
  <2> QED
    BY <1>3, <2>3 DEF WorkbenchTypeOK, openTransition
<1>4. CASE Cancel
  BY <1>4 DEF WorkbenchTypeOK, Cancel
<1>5. ASSUME NEW m \in Moves, Confirm(m) PROVE WorkbenchTypeOK'
  <2>1. PICK step \in {"sent", "lost"} :
          moves' = [moves EXCEPT ![m] = [step |-> step, asked |-> dialog]]
    BY <1>5 DEF Confirm
  <2>2. [step |-> step, asked |-> dialog] \in MoveState
    BY DEF WorkbenchTypeOK, MoveState
  <2>3. moves' \in [Moves -> MoveState]
    BY <2>1, <2>2 DEF WorkbenchTypeOK
  <2> QED
    BY <1>5, <2>3 DEF WorkbenchTypeOK, Confirm
<1>6. CASE logout
  BY <1>6 DEF WorkbenchTypeOK, logout
<1> QED
  BY <1>1, <1>2, <1>3, <1>4, <1>5, <1>6 DEF User

LEMMA MoveStepType ==
  ASSUME WorkbenchTypeOK, NEW m \in Moves,
         NEW step \in {"reloading", "over"},
         moves' = [moves EXCEPT ![m].step = step]
  PROVE  moves' \in [Moves -> MoveState]
<1>1. [moves[m] EXCEPT !.step = step] \in MoveState
  BY DEF WorkbenchTypeOK, MoveState
<1> QED
  BY <1>1 DEF WorkbenchTypeOK

LEMMA AnswerType ==
  ASSUME Inv, NEW m \in Moves, MoveFails(m) \/ MoveDone(m)
  PROVE  WorkbenchTypeOK'
<1> USE DEF Inv
<1>1. CASE MoveFails(m)
  <2>1. moves' \in [Moves -> MoveState]
    BY <1>1, MoveStepType DEF MoveFails
  <2> QED
    BY <1>1, <2>1 DEF WorkbenchTypeOK, MoveFails
<1>2. CASE MoveDone(m)
  <2>1. moves' \in [Moves -> MoveState]
    BY <1>2, MoveStepType DEF MoveDone
  <2>2. loads' \in [Lists -> ListState] /\ loading' \in BOOLEAN
    BY <1>2, AskType DEF MoveDone, Lists
  <2> QED
    BY <1>2, <2>1, <2>2 DEF WorkbenchTypeOK, MoveDone
<1> QED
  BY <1>1, <1>2

\* The state of one list after a step of the server.
LEMMA ListStepType ==
  ASSUME Inv, NEW l \in Lists, List(l)
  PROVE  /\ loads' = [loads EXCEPT ![l] = loads'[l]]
         /\ loads'[l] \in ListState
<1> USE DEF Inv
<1>0. loads[l] \in ListState /\ loads \in [Lists -> ListState]
  BY DEF WorkbenchTypeOK
<1>1. CASE ReadPage(l)
  <2> DEFINE page == [c \in Codes |-> IF Live(c) THEN rows[c] ELSE NoRow]
             step == IF \E c \in Codes : Live(c) THEN "paged" ELSE "ok"
  <2>1. page \in Page
    BY DEF Page, Live, Stored, ServerOK, TypeOK
  <2>2. loads' = [loads EXCEPT ![l] =
                    [[loads[l] EXCEPT !.page = page] EXCEPT !.step = step]]
    BY <1>0, <1>1 DEF ReadPage
  <2>3. step \in {"paged", "ok"}
    OBVIOUS
  <2> HIDE DEF page, step
  <2>4. [loads[l] EXCEPT !.page = page] \in ListState
    BY <1>0, <2>1 DEF ListState
  <2>5. [[loads[l] EXCEPT !.page = page] EXCEPT !.step = step] \in ListState
    BY <2>3, <2>4 DEF ListState
  <2> QED
    BY <1>0, <2>2, <2>5
<1>2. CASE ReadRevisions(l)
  <2> DEFINE versions == [c \in Codes |-> IF loads[l].page[c] = NoRow THEN {}
                                          ELSE Versions(c)]
  <2>1. versions \in [Codes -> SUBSET (Nat \ {0})]
    BY DEF ServerOK, TypeOK, HistoriesOK
  <2>2. loads' = [loads EXCEPT ![l] =
                    [[loads[l] EXCEPT !.listed = versions] EXCEPT !.step = "ok"]]
    BY <1>0, <1>2 DEF ReadRevisions
  <2> HIDE DEF versions
  <2>3. [loads[l] EXCEPT !.listed = versions] \in ListState
    BY <1>0, <2>1 DEF ListState
  <2>4. [[loads[l] EXCEPT !.listed = versions] EXCEPT !.step = "ok"] \in ListState
    BY <2>3 DEF ListState
  <2> QED
    BY <1>0, <2>2, <2>4
<1>3. CASE ListFails(l)
  BY <1>0, <1>3, NotLoadedType DEF ListFails
<1> QED
  BY <1>1, <1>2, <1>3 DEF List

LEMMA ListType ==
  ASSUME Inv, NEW l \in Lists, List(l) \/ ListArrives(l)
  PROVE  WorkbenchTypeOK'
<1> USE DEF Inv
<1>1. CASE List(l)
  <2>1. loads' \in [Lists -> ListState]
    BY <1>1, ListStepType DEF WorkbenchTypeOK
  <2> QED
    BY <1>1, <2>1 DEF WorkbenchTypeOK, List, ReadPage, ReadRevisions, ListFails
<1>2. CASE ListArrives(l)
  <2>1. loads' \in [Lists -> ListState]
    BY <1>2, NotLoadedType DEF WorkbenchTypeOK, ListArrives
  <2>2. screen' \in Page
    BY <1>2 DEF WorkbenchTypeOK, ListState, ListArrives
  <2>3. moves' \in [Moves -> MoveState]
    BY <1>2, MoveStepType DEF WorkbenchTypeOK, ListArrives
  <2>4. dialog' \in Dialog \cup {NoDialog}
    BY <1>2 DEF WorkbenchTypeOK, ListArrives
  <2> QED
    BY <1>2, <2>1, <2>2, <2>3, <2>4 DEF WorkbenchTypeOK, ListArrives
<1> QED
  BY <1>1, <1>2

LEMMA TabTypeStep ==
  ASSUME Inv, [WorkbenchNext]_<<vars, tab>>
  PROVE  WorkbenchTypeOK'
<1> USE DEF Inv
<1>1. CASE authenticate
  <2>1. session' \in Users \cup {"none"}
    BY <1>1 DEF authenticate
  <2>2. loads' \in [Lists -> ListState] /\ loading' \in BOOLEAN
    BY <1>1, AskType DEF authenticate, Lists
  <2> QED
    BY <1>1, <2>1, <2>2 DEF WorkbenchTypeOK, authenticate
<1>2. CASE UNCHANGED tab
  BY <1>2 DEF WorkbenchTypeOK, tab
<1>3. ASSUME NEW r \in Requests, Serve(r) \/ OtherClient(r) PROVE UNCHANGED tab
  BY <1>3 DEF Serve, OtherClient
<1> QED
  BY <1>1, <1>2, <1>3, UserType, AnswerType, ListType DEF WorkbenchNext

-----------------------------------------------------------------------------
(* Sessions and moves *)

\* A step of one request leaves the others where they are, and a request that
\* was not sent is not handled.
LEMMA HandledAlone ==
  ASSUME TypeOK, NEW r \in Requests, Handle(r) \/ Start(r)
  PROVE  /\ Handle(r) => pc[r] # "idle"
         /\ \A s \in Requests \ {r} : pc'[s] = pc[s]
<1> USE DEF Goto, Answer
<1>0. pc \in [Requests -> Steps]
  BY DEF TypeOK
<1>1. CASE Start(r)
  <2>1. PICK c \in Codes :
          \E q \in Inputs(Callers, {c}, 1..(Known(c) + Lookahead)) : Accept(r, q)
    BY <1>1 DEF Start, Receive
  <2>2. \E step : pc' = [pc EXCEPT ![r] = step]
    BY <2>1, Zenon DEF Accept
  <2>3. ~Handle(r) \/ pc[r] # "idle"
    BY DEF Handle, Create, Load, LoadUnless, Write, Read, Preload, CommonStep,
           Remove, Audit, AuditFails, Interrupt
  <2> QED
    BY <1>0, <2>2, <2>3
<1>2. CASE Create(r)
  BY <1>0, <1>2 DEF Create
<1>3. CASE Load(r)
  BY <1>0, <1>3 DEF Load, LoadUnless
<1>4. CASE Write(r)
  BY <1>0, <1>4 DEF Write
<1>5. CASE Read(r)
  BY <1>0, <1>5 DEF Read
<1>6. CASE Preload(r)
  BY <1>0, <1>6 DEF Preload
<1>7. CASE CommonStep(r)
  BY <1>0, <1>7 DEF CommonStep, Remove, Audit, AuditFails, AfterAudit, Interrupt
<1>8. Handle(r) => pc[r] # "idle"
  BY DEF Handle, Create, Load, LoadUnless, Write, Read, Preload, CommonStep,
         Remove, Audit, AuditFails, Interrupt
<1> QED
  BY <1>1, <1>2, <1>3, <1>4, <1>5, <1>6, <1>7, <1>8 DEF Handle

\* A session comes from a login and goes with a logout.
LEMMA SessionStep ==
  ASSUME Inv, [WorkbenchNext]_<<vars, tab>>
  PROVE  session' \in Callers \cup {"none"}
<1>1. session \in Callers \cup {"none"}
  BY DEF Inv, TabOK
<1>2. CASE authenticate
  BY <1>2 DEF authenticate
<1>3. CASE User
  BY <1>1, <1>3 DEF User, Query, openCreate, openTransition, Cancel, Confirm,
                    logout
<1> QED
  BY <1>1, <1>2, <1>3
  DEF WorkbenchNext, MoveFails, MoveDone, List, ReadPage, ReadRevisions,
      ListFails, ListArrives, Serve, OtherClient, tab

LEMMA MoveGoesOn ==
  ASSUME moves \in [Moves -> MoveState], NEW m \in Moves, NEW n \in Moves,
         NEW step, moves' = [moves EXCEPT ![m].step = step]
  PROVE  moves'[n].step = IF n = m THEN step ELSE moves[n].step
<1>1. moves[m] \in MoveState
  OBVIOUS
<1>2. [moves[m] EXCEPT !.step = step].step = step
  BY <1>1 DEF MoveState
<1> QED
  BY <1>2

LEMMA TabOKStep ==
  ASSUME Inv, [WorkbenchNext]_<<vars, tab>>
  PROVE  TabOK'
<1> SUFFICES ASSUME NEW n \in Moves, moves'[n].step = "idle"
             PROVE  pc'[n] = "idle"
  BY SessionStep DEF TabOK
<1>0. /\ n \in Requests
      /\ moves \in [Moves -> MoveState]
      /\ moves[n].step = "idle" => pc[n] = "idle"
  BY DEF Inv, TabOK, WorkbenchTypeOK
<1>1. ASSUME NEW m \in Moves, Confirm(m) PROVE pc'[n] = "idle"
  <2>1. m # n /\ moves'[n] = moves[n]
    BY <1>0, <1>1 DEF Confirm
  <2>2. m \in Requests /\ TypeOK
    BY DEF Inv, ServerOK
  <2>3. Start(m) \/ UNCHANGED vars
    BY <1>1, ConfirmIsRequest
  <2>4. pc'[n] = pc[n]
    BY <1>0, <2>1, <2>2, <2>3, HandledAlone DEF vars
  <2> QED
    BY <1>0, <2>1, <2>4
<1>2. ASSUME NEW r \in Requests, Serve(r) \/ OtherClient(r)
      PROVE  pc'[n] = "idle"
  <2>1. moves' = moves /\ pc[n] = "idle"
    BY <1>0, <1>2 DEF Serve, OtherClient, tab
  <2>2. Handle(r) \/ Start(r)
    BY <1>2 DEF Serve, OtherClient
  <2>3. r # n
    BY <1>2, <2>1, HandledAlone DEF Serve, OtherClient, Inv, ServerOK
  <2> QED
    BY <1>0, <2>1, <2>2, <2>3, HandledAlone DEF Inv, ServerOK
<1>3. ASSUME UNCHANGED vars, \A m \in Moves : moves'[m].step = "idle" =>
                                               moves[m].step = "idle"
      PROVE  pc'[n] = "idle"
  BY <1>0, <1>3 DEF vars
<1>4. CASE UNCHANGED <<vars, moves>>
  BY <1>3, <1>4
<1>5. ASSUME NEW m \in Moves, MoveFails(m) \/ MoveDone(m)
      PROVE  pc'[n] = "idle"
  BY <1>0, <1>3, <1>5, MoveGoesOn DEF MoveFails, MoveDone
<1>6. ASSUME NEW l \in Lists, ListArrives(l) PROVE pc'[n] = "idle"
  BY <1>0, <1>3, <1>4, <1>6, MoveGoesOn DEF ListArrives
<1>7. CASE User
  BY <1>1, <1>4, <1>7 DEF User, Query, openCreate, openTransition, Cancel, logout
<1> QED
  BY <1>2, <1>4, <1>5, <1>6, <1>7
  DEF WorkbenchNext, authenticate, List, ReadPage, ReadRevisions, ListFails, tab

-----------------------------------------------------------------------------
(* What is shown *)

\* A version a decision had stays a version it had.
LEMMA HistoryLasts ==
  ASSUME ServerOK, [Next]_vars, NEW c \in Codes, NEW row, WasVersion(c, row)
  PROVE  WasVersion(c, row)'
<1>1. CompleteHistory(c) /\ CompleteHistory(c)'
  BY TypeControlStep, HistoryStep DEF ServerOK, HistoryComplete
<1>2. Stored(c) /\ row.version \in 1..rows[c].version
  BY <1>1 DEF CompleteHistory, WasVersion
<1>3. /\ Stored(c)'
      /\ rows[c].version \in Nat /\ rows[c].version <= rows'[c].version
      /\ revisions'[c][row.version] = revisions[c][row.version]
  BY <1>2, VersionsMoveOn DEF ServerOK
<1>4. rows'[c].version \in Nat
  <2>1. rows'[c] \in Row \cup {NoRow}
    BY TypeControlStep DEF ServerOK, TypeOK
  <2> QED
    BY <1>3, <2>1 DEF Stored, Row
<1>5. row.version \in Versions(c)'
  <2>1. row.version \in 1..rows'[c].version
    BY <1>2, <1>3, <1>4
  <2> QED
    BY <1>1, <1>3, <2>1 DEF CompleteHistory
<1> QED
  BY <1>3, <1>5 DEF WasVersion

\* The row of a decision is its newest version.
LEMMA RowIsVersion ==
  ASSUME ServerOK, NEW c \in Codes, NEW row \in Row, rows[c] = row
  PROVE  WasVersion(c, row)
<1>1. Stored(c) /\ CompleteHistory(c)
  BY DEF ServerOK, HistoryComplete, Stored
<1> QED
  BY <1>1 DEF CompleteHistory, WasVersion, Row

\* A step of the tab shows what was shown somewhere before, or a row of the
\* table as it is.
LEMMA ShownComesFrom ==
  ASSUME Inv, [WorkbenchNext]_<<vars, tab>>,
         NEW c \in Codes, NEW row \in Row, Shown(c, row)'
  PROVE  Shown(c, row) \/ rows[c] = row
<1>0. /\ loads \in [Lists -> ListState] /\ screen \in Page
      /\ row # NoRow
  BY DEF Inv, WorkbenchTypeOK
<1>1. ASSUME dialog' = dialog, screen' = screen, loads' = loads
      PROVE  Shown(c, row)
  BY <1>1 DEF Shown
<1>2. ASSUME NEW l \in Lists, NEW as, Ask(l, as),
             dialog' = dialog, screen' = screen
      PROVE  Shown(c, row)
  <2>1. \A k \in Lists : loads'[k].page[c] = row => loads[k].page[c] = row
    BY <1>0, <1>2 DEF Ask, NotLoaded, EmptyPage
  <2> QED
    BY <1>2, <2>1 DEF Shown
<1>3. CASE openCreate \/ Cancel
  BY <1>3 DEF openCreate, Cancel, CreateDialog, Shown
<1>4. ASSUME NEW d \in Codes, openTransition(d) PROVE Shown(c, row)
  BY <1>4 DEF openTransition, TransitionDialog, Shown
<1>5. ASSUME NEW l \in Lists, ListArrives(l) PROVE Shown(c, row)
  <2>1. \A k \in Lists : loads'[k].page[c] = row => loads[k].page[c] = row
    BY <1>0, <1>5 DEF ListArrives, NotLoaded, EmptyPage
  <2>2. screen'[c] = row => screen[c] = row \/ loads[l].page[c] = row
    BY <1>5 DEF ListArrives
  <2>3. dialog' \in {dialog, NoDialog}
    BY <1>5 DEF ListArrives
  <2> QED
    BY <2>1, <2>2, <2>3 DEF Shown
<1>6. ASSUME NEW l \in Lists, List(l) PROVE Shown(c, row) \/ rows[c] = row
  <2>1. dialog' = dialog /\ screen' = screen
    BY <1>6 DEF List, ReadPage, ReadRevisions, ListFails
  <2>2. \A k \in Lists : loads'[k].page[c] = row =>
          loads[k].page[c] = row \/ rows[c] = row
    <3>1. \A k \in Lists \ {l} : loads'[k] = loads[k]
      BY <1>0, <1>6 DEF List, ReadPage, ReadRevisions, ListFails
    <3>2. loads[l] \in ListState
      BY <1>0
    <3>3. CASE ReadPage(l)
      BY <1>0, <3>1, <3>2, <3>3 DEF ReadPage, ListState
    <3>4. CASE ReadRevisions(l)
      BY <1>0, <3>1, <3>2, <3>4 DEF ReadRevisions, ListState
    <3>5. CASE ListFails(l)
      BY <1>0, <3>1, <3>5 DEF ListFails, NotLoaded, EmptyPage
    <3> QED
      BY <1>6, <3>3, <3>4, <3>5 DEF List
  <2> QED
    BY <2>1, <2>2 DEF Shown
<1>7. CASE User
  <2>1. ASSUME NEW q \in Queries, Query(q) PROVE Shown(c, row)
    BY <1>2, <2>1 DEF Query, Lists
  <2>2. ASSUME NEW m \in Moves, Confirm(m) PROVE Shown(c, row)
    <3>1. dialog' = dialog /\ screen' = screen /\ loads' = loads
      BY <2>2 DEF Confirm
    <3> QED
      BY <1>1, <3>1
  <2>3. CASE logout
    BY <1>1, <2>3 DEF logout
  <2> QED
    BY <1>3, <1>4, <1>7, <2>1, <2>2, <2>3 DEF User
<1>8. CASE authenticate
  BY <1>2, <1>8 DEF authenticate, Lists
<1>9. ASSUME NEW m \in Moves, MoveFails(m) \/ MoveDone(m) PROVE Shown(c, row)
  <2>1. CASE MoveFails(m)
    BY <1>1, <2>1 DEF MoveFails
  <2>2. CASE MoveDone(m)
    <3>1. Ask(m, session) /\ dialog' = dialog /\ screen' = screen
      BY <2>2 DEF MoveDone
    <3>2. m \in Lists
      BY DEF Lists
    <3> QED
      BY <1>2, <3>1, <3>2
  <2> QED
    BY <1>9, <2>1, <2>2
<1> QED
  BY <1>1, <1>5, <1>6, <1>7, <1>8, <1>9
  DEF WorkbenchNext, Serve, OtherClient, tab

LEMMA ShownStep ==
  ASSUME Inv, [WorkbenchNext]_<<vars, tab>>
  PROVE  ShownOK'
<1> SUFFICES ASSUME NEW c \in Codes, NEW row \in Row, Shown(c, row)'
             PROVE  WasVersion(c, row)'
  BY DEF ShownOK
<1>1. Shown(c, row) \/ rows[c] = row
  BY ShownComesFrom
<1>2. WasVersion(c, row)
  BY <1>1, RowIsVersion DEF Inv, ShownOK
<1> QED
  BY <1>2, TabStep, HistoryLasts DEF Inv

\* The revisions are read after the page, and versions only grow.
LEMMA ListedStep ==
  ASSUME Inv, [WorkbenchNext]_<<vars, tab>>
  PROVE  ListedOK'
<1> SUFFICES ASSUME NEW l \in Lists, NEW c \in Codes,
                    loads'[l].page[c] # NoRow, loads'[l].step = "ok"
             PROVE  1..loads'[l].page[c].version \subseteq loads'[l].listed[c]
  BY DEF ListedOK
<1>0. loads \in [Lists -> ListState]
  BY DEF Inv, WorkbenchTypeOK
<1>1. CASE loads'[l] = loads[l]
  BY <1>1 DEF Inv, ListedOK
<1>2. CASE ReadRevisions(l)
  <2>1. /\ loads'[l].page = loads[l].page
        /\ loads'[l].listed[c] = Versions(c)
    BY <1>0, <1>2 DEF ReadRevisions, ListState
  <2>2. loads[l].page[c] \in Row
    BY <1>0, <2>1 DEF ListState, Page
  <2>3. WasVersion(c, loads[l].page[c])
    BY <2>2 DEF Inv, ShownOK, Shown
  <2>4. Versions(c) = 1..rows[c].version /\ rows[c].version \in Nat
    <3>1. CompleteHistory(c) /\ rows[c] \in Row \cup {NoRow}
      BY DEF Inv, ServerOK, HistoryComplete, TypeOK
    <3> QED
      BY <2>3, <3>1 DEF CompleteHistory, WasVersion, Stored, Row
  <2>5. loads[l].page[c].version \in 1..rows[c].version
    BY <2>3, <2>4 DEF WasVersion
  <2> QED
    BY <2>1, <2>4, <2>5
<1>3. CASE ReadPage(l)
  <2>1. ~\E d \in Codes : Live(d)
    BY <1>0, <1>3 DEF ReadPage, ListState
  <2>2. loads'[l].page[c] = NoRow
    BY <1>0, <1>3, <2>1 DEF ReadPage, ListState
  <2> QED
    BY <2>2
<1>4. ASSUME NEW k \in Lists, NEW as, Ask(k, as) PROVE loads'[l] = loads[l]
  BY <1>0, <1>4 DEF Ask, NotLoaded
<1>5. ASSUME NEW k \in Lists, List(k) \/ ListArrives(k),
             loads'[l] # loads[l]
      PROVE  ReadPage(l) \/ ReadRevisions(l)
  BY <1>0, <1>5 DEF List, ReadPage, ReadRevisions, ListFails, ListArrives,
                    NotLoaded
<1>6. CASE User
  BY <1>1, <1>4, <1>6 DEF User, Query, openCreate, openTransition, Cancel,
                          Confirm, logout, Lists
<1> QED
  BY <1>1, <1>2, <1>3, <1>4, <1>5, <1>6
  DEF WorkbenchNext, authenticate, MoveFails, MoveDone, Serve, OtherClient, tab,
      Lists

-----------------------------------------------------------------------------
(* ComplianceDecision for clients that have read what they refer to *)

\* Lookahead is a matter of what a client may send, of nothing else.
LEMMA SameInit == Init => Reader!Init
  BY DEF Init, SeedRows, NewRow, Stored, newDecisionRevision,
         NothingHandled, NoInput, Reader!Init, Reader!SeedRows,
         Reader!NewRow, Reader!Stored, Reader!newDecisionRevision,
         Reader!NothingHandled, Reader!NoInput

LEMMA SameStart ==
  ASSUME Lookahead = 0, NEW r, Start(r)
  PROVE  Reader!Start(r)
  BY DEF Start, Receive, Accept, Goto, Answer, FirstStep, Known, Permitted,
         Stored, Inputs, Targets, RequireMinimumRole, RequireRoles,
         roleRank, Reader!Start, Reader!Receive, Reader!Accept, Reader!Goto,
         Reader!Answer, Reader!FirstStep, Reader!Known, Reader!Permitted,
         Reader!Stored, Reader!Inputs, Reader!Targets,
         Reader!RequireMinimumRole, Reader!RequireRoles, Reader!roleRank

LEMMA SameHandle ==
  ASSUME NEW r, Handle(r)
  PROVE  Reader!Handle(r)
<1> USE DEF Goto, Answer, Code, Stored, Live, Reader!Goto, Reader!Answer,
            Reader!Code, Reader!Stored, Reader!Live
<1>1. ASSUME Create(r) PROVE Reader!Create(r)
  BY <1>1 DEF Create, CreateWithRevision, Insert, AppendRevision, Versions,
         newDecisionRevision, NewRow, Reader!Create,
         Reader!CreateWithRevision, Reader!Insert, Reader!AppendRevision,
         Reader!Versions, Reader!newDecisionRevision, Reader!NewRow
<1>2. ASSUME Load(r) PROVE Reader!Load(r)
  BY <1>2 DEF Load, LoadUnless, Refuses, RefusesUpdate, RefusesTransition,
         RefusesDelete, CanTransition, ComplianceDecisionTransitions,
         Verdicts, Reader!Load, Reader!LoadUnless, Reader!Refuses,
         Reader!RefusesUpdate, Reader!RefusesTransition,
         Reader!RefusesDelete, Reader!CanTransition,
         Reader!ComplianceDecisionTransitions, Reader!Verdicts
<1>3. ASSUME Write(r) PROVE Reader!Write(r)
  BY <1>3 DEF Write, Matches, Changed, Edited, Moved, Versions,
         UpdateWithRevision, Update, AppendRevision, newDecisionRevision,
         Reader!Write, Reader!Matches, Reader!Changed, Reader!Edited,
         Reader!Moved, Reader!Versions, Reader!UpdateWithRevision,
         Reader!Update, Reader!AppendRevision, Reader!newDecisionRevision
<1>4. ASSUME Read(r) PROVE Reader!Read(r)
  BY <1>4 DEF Read, Reader!Read
<1>5. ASSUME Preload(r) PROVE Reader!Preload(r)
  BY <1>5 DEF Preload, Versions, Reader!Preload, Reader!Versions
<1>6. ASSUME CommonStep(r) PROVE Reader!CommonStep(r)
  BY <1>6 DEF CommonStep, Remove, Delete, Audit, AuditEntry, AfterAudit,
         AuditFails, Interrupt, Reader!CommonStep, Reader!Remove,
         Reader!Delete, Reader!Audit, Reader!AuditEntry, Reader!AfterAudit,
         Reader!AuditFails, Reader!Interrupt
<1> QED
  BY <1>1, <1>2, <1>3, <1>4, <1>5, <1>6 DEF Handle, Reader!Handle

LEMMA SameStep ==
  ASSUME Lookahead = 0, [Next]_vars
  PROVE  [Reader!Next]_(Reader!vars)
<1>1. CASE UNCHANGED vars
  BY <1>1 DEF vars, Reader!vars
<1>2. CASE AllAnswered
  BY <1>2 DEF AllAnswered, vars, Reader!vars
<1>3. CASE \E r \in Requests : Start(r) \/ Handle(r)
  BY <1>3, SameStart, SameHandle DEF Reader!Next
<1> QED
  BY <1>1, <1>2, <1>3 DEF Next

-----------------------------------------------------------------------------
(* Theorems *)

LEMMA InvInit == WorkbenchInit => Inv
<1> SUFFICES ASSUME WorkbenchInit PROVE Inv
  OBVIOUS
<1>1. ServerOK
  BY TypeControlInit, HistoryInit DEF ServerOK, WorkbenchInit
<1>2. \A l \in Lists : loads[l] \in {NotLoaded("asked"), NotLoaded("idle")}
  BY DEF WorkbenchInit
<1>3. loads \in [Lists -> ListState]
  BY <1>2, NotLoadedType DEF WorkbenchInit
<1>4. moves \in [Moves -> MoveState]
  BY DEF WorkbenchInit, MoveState
<1>5. WorkbenchTypeOK
  BY <1>3, <1>4, EmptyPageType DEF WorkbenchInit, WorkbenchTypeOK
<1>6. TabOK
  BY DEF WorkbenchInit, TabOK, Init, NothingHandled
<1>7. /\ \A c \in Codes : screen[c] = NoRow
      /\ \A l \in Lists : \A c \in Codes : loads[l].page[c] = NoRow
  BY <1>2 DEF WorkbenchInit, EmptyPage, NotLoaded
<1>8. ShownOK /\ ListedOK
  BY <1>7 DEF ShownOK, ListedOK, Shown, WorkbenchInit
<1> QED
  BY <1>1, <1>5, <1>6, <1>8 DEF Inv

LEMMA InvStep == Inv /\ [WorkbenchNext]_<<vars, tab>> => Inv'
<1> SUFFICES ASSUME Inv, [WorkbenchNext]_<<vars, tab>> PROVE Inv'
  OBVIOUS
<1>1. ServerOK'
  BY TabStep, TypeControlStep, HistoryStep DEF Inv, ServerOK
<1> QED
  BY <1>1, TabTypeStep, TabOKStep, ShownStep, ListedStep DEF Inv

LEMMA InvAlways == WorkbenchSpec => []Inv
  BY InvInit, InvStep, PTL DEF WorkbenchSpec

\* Every variable of the tab keeps its type.
THEOREM TabTypeCorrect == WorkbenchSpec => []WorkbenchTypeOK
<1>1. Inv => WorkbenchTypeOK
  BY DEF Inv
<1> QED
  BY <1>1, InvAlways, PTL

LEMMA ShownWas == Inv => ShownIsHistory
<1> SUFFICES ASSUME Inv PROVE ShownIsHistory
  OBVIOUS
<1>1. \A c \in Codes : screen[c] # NoRow => WasVersion(c, screen[c])
  BY DEF Inv, ShownOK, Shown, WorkbenchTypeOK, Page
<1>2. dialog # NoDialog /\ dialog.kind = "transition" =>
        WasVersion(dialog.code, dialog.item)
  BY DEF Inv, ShownOK, Shown, WorkbenchTypeOK, Dialog
<1>3. ASSUME NEW l \in Lists, NEW c \in Codes, loads[l].page[c] # NoRow
      PROVE  WasVersion(c, loads[l].page[c])
  <2>1. loads[l].page[c] \in Row
    BY <1>3 DEF Inv, WorkbenchTypeOK, ListState, Page
  <2> QED
    BY <2>1 DEF Inv, ShownOK, Shown
<1> QED
  BY <1>1, <1>2, <1>3 DEF ShownIsHistory, Inv, ListedOK

\* Whatever the tab shows, in whatever order its answers arrived, is a version
\* the decision had, and an answer has all the revisions up to it.
THEOREM ShownAlwaysHistory == WorkbenchSpec => []ShownIsHistory
  BY ShownWas, InvAlways, PTL

\* A tab beside any clients is one more client: the server with a tab
\* behaves like the server.
THEOREM TabIsClient == WorkbenchSpec => Spec
<1>1. WorkbenchInit => Init
  BY DEF WorkbenchInit
<1>2. Inv /\ [WorkbenchNext]_<<vars, tab>> => [Next]_vars
  BY TabStep
<1> QED
  BY <1>1, <1>2, InvAlways, PTL DEF WorkbenchSpec, Spec

\* Beside clients that send versions they have read, a tab with all its
\* overlapping answers and stale lists leaves the review lock intact.
THEOREM TabKeepsReviewLock ==
  ASSUME Lookahead = 0
  PROVE  WorkbenchSpec => []LegalSuccession
  BY TabIsClient, ReviewLockHolds, PTL

\* Beside such clients the tab is one itself: it never sends a version it has
\* not read, whatever it has loaded, confirmed or lost meanwhile.
THEOREM TabHasRead ==
  ASSUME Lookahead = 0
  PROVE  WorkbenchSpec => ReadsBeforeItWrites
<1>1. Init => Reader!Init
  BY SameInit
<1>2. [Next]_vars => [Reader!Next]_(Reader!vars)
  BY SameStep
<1> QED
  BY <1>1, <1>2, TabIsClient, PTL DEF Spec, ReadsBeforeItWrites, Reader!Spec

-----------------------------------------------------------------------------
(* What is shown while calls are in flight *)

\* The notice that data is being loaded is never left on the screen: it is
\* shown only while a call of the tab is in flight, however the calls overlap
\* and whichever of them fail.
THEOREM LoadingEnds == WorkbenchSpec => []LoadingMeansCall
<1>1. WorkbenchInit => LoadingMeansCall
  <2> SUFFICES ASSUME WorkbenchInit PROVE InFlight # {}
    BY DEF LoadingMeansCall
  <2>1. PICK q \in Queries : loads = [l \in Lists |->
                               NotLoaded(IF l = q THEN "asked" ELSE "idle")]
    BY DEF WorkbenchInit
  <2>2. q \in Lists /\ loads[q].step = "asked"
    BY <2>1 DEF Lists, NotLoaded
  <2> QED
    BY <2>2 DEF InFlight
<1>2. Inv /\ LoadingMeansCall /\ [WorkbenchNext]_<<vars, tab>>
        => LoadingMeansCall'
  <2> SUFFICES ASSUME Inv, LoadingMeansCall, [WorkbenchNext]_<<vars, tab>>,
                      loading'
               PROVE  InFlight' # {}
    BY DEF LoadingMeansCall
  <2>0. moves \in [Moves -> MoveState] /\ loads \in [Lists -> ListState]
    BY DEF Inv, WorkbenchTypeOK
  <2>1. ASSUME loading' = loading, moves' = moves, NEW l \in Lists,
               loads' = [loads EXCEPT ![l] = loads'[l]], loads'[l].step # "idle"
        PROVE  InFlight' # {}
    <3>1. l \in InFlight'
      BY <2>1 DEF InFlight
    <3> QED
      BY <3>1
  <2>2. ASSUME loading' = loading, moves' = moves, loads' = loads
        PROVE  InFlight' # {}
    BY <2>2 DEF InFlight, LoadingMeansCall
  <2>3. ASSUME NEW l \in Lists, NEW as, Ask(l, as) PROVE InFlight' # {}
    <3>1. loads'[l].step # "idle"
      BY <2>0, <2>3 DEF Ask, NotLoaded
    <3> QED
      BY <3>1 DEF InFlight
  <2>4. ASSUME NEW m \in Moves, Confirm(m) PROVE InFlight' # {}
    <3>1. moves'[m].step \in {"sent", "lost"}
      BY <2>0, <2>4 DEF Confirm
    <3> QED
      BY <3>1 DEF InFlight
  <2>5. ASSUME NEW m \in Moves, MoveFails(m) \/ MoveDone(m)
        PROVE  InFlight' # {}
    BY <2>3, <2>5 DEF MoveFails, MoveDone, Lists
  <2>6. ASSUME NEW l \in Lists, List(l) PROVE InFlight' # {}
    <3>1. loads' = [loads EXCEPT ![l] = loads'[l]]
      BY <2>6, ListStepType
    <3>2. loads'[l].step # "idle"
      <4>0. loads[l] \in ListState
        BY <2>0
      <4>1. CASE ReadPage(l)
        BY <2>0, <4>0, <4>1 DEF ReadPage, ListState
      <4>2. CASE ReadRevisions(l)
        BY <2>0, <4>0, <4>2 DEF ReadRevisions, ListState
      <4>3. CASE ListFails(l)
        BY <2>0, <4>3 DEF ListFails, NotLoaded
      <4> QED
        BY <2>6, <4>1, <4>2, <4>3 DEF List
    <3>3. loading' = loading /\ moves' = moves
      BY <2>6 DEF List, ReadPage, ReadRevisions, ListFails
    <3> QED
      BY <2>1, <3>1, <3>2, <3>3
  <2>7. ASSUME NEW l \in Lists, ListArrives(l) PROVE InFlight' # {}
    BY <2>7 DEF ListArrives
  <2>8. CASE User
    BY <2>2, <2>3, <2>4, <2>8 DEF User, Query, openCreate, openTransition,
                                  Cancel, logout, Lists
  <2>9. CASE authenticate
    BY <2>3, <2>9 DEF authenticate, Lists
  <2> QED
    BY <2>2, <2>5, <2>6, <2>7, <2>8, <2>9
    DEF WorkbenchNext, Serve, OtherClient, tab
<1> QED
  BY <1>1, <1>2, InvAlways, PTL DEF WorkbenchSpec

-----------------------------------------------------------------------------
(* What a confirmed dialog does *)

\* A status the button offers is one the decision may move to, and when the
\* verdict is for reviewers, so is the button.
LEMMA ButtonIsLegal ==
  ASSUME NEW item, NEW status \in next(item)
  PROVE  /\ CanTransition(ComplianceDecisionTransitions, item.status, status)
         /\ status \in Verdicts => next(item) \subseteq Verdicts
<1>1. ENTITY_CONFIGS.decisions = <<"draft", "review", "accepted", "escalated">>
      /\ "decisions" \in DOMAIN ENTITY_CONFIGS
      /\ GraphOf["decisions"] = ComplianceDecisionTransitions
  BY DEF ENTITY_CONFIGS, GraphOf
<1>2. status \in nextStatus(item.status, ENTITY_CONFIGS["decisions"])
  BY DEF next
<1>3. CanTransition(ComplianceDecisionTransitions, item.status, status)
  BY <1>1, <1>2, ButtonsFollowGraph
<1>4. ASSUME status \in Verdicts, NEW other \in next(item)
      PROVE  other \in Verdicts
  <2>1. Len(ENTITY_CONFIGS.decisions) = 4
    BY <1>1
  <2>2. PICK i \in 1..3 : ENTITY_CONFIGS.decisions[i] = item.status
                          /\ status = ENTITY_CONFIGS.decisions[i + 1]
    BY <2>1 DEF next, nextStatus
  <2>3. PICK j \in 1..3 : ENTITY_CONFIGS.decisions[j] = item.status
                          /\ other = ENTITY_CONFIGS.decisions[j + 1]
    BY <2>1 DEF next, nextStatus
  <2>4. i = j
    BY <1>1, <2>2, <2>3
  <2> QED
    BY <1>4, <2>2, <2>3, <2>4
<1> QED
  BY <1>3, <1>4

\* What a step does to one move: the user confirms it, its handler takes a
\* step, or nothing happens to it on the server.
LEMMA StepsOfMove ==
  ASSUME Inv, [WorkbenchNext]_<<vars, tab>>, NEW m \in Moves
  PROVE  \/ Confirm(m)
         \/ /\ moves'[m].asked = moves[m].asked
            /\ \/ Handle(m)
               \/ pc'[m] = pc[m] /\ req'[m] = req[m] /\ reply'[m] = reply[m]
<1>0. /\ moves \in [Moves -> MoveState] /\ Moves \subseteq Requests
      /\ m \in Requests /\ TypeOK
  BY DEF Inv, WorkbenchTypeOK, ServerOK
<1> DEFINE Left == pc'[m] = pc[m] /\ req'[m] = req[m] /\ reply'[m] = reply[m]
           Asked == moves'[m].asked = moves[m].asked
<1>1. ASSUME UNCHANGED vars PROVE Left
  BY <1>1 DEF vars
<1>2. ASSUME NEW n \in Moves, NEW step, moves' = [moves EXCEPT ![n].step = step]
      PROVE  Asked
  <2>1. moves[n] \in MoveState
    BY <1>0
  <2> QED
    BY <1>0, <1>2, <2>1 DEF MoveState
<1>3. ASSUME NEW n \in Moves, Confirm(n) PROVE Confirm(m) \/ (Asked /\ Left)
  <2>1. CASE n = m
    BY <1>3, <2>1
  <2>2. CASE n # m
    <3>1. Asked
      BY <1>0, <1>3, <2>2 DEF Confirm
    <3>2. Start(n) \/ UNCHANGED vars
      BY <1>3, ConfirmIsRequest
    <3>3. ASSUME Start(n) PROVE Left
      <4>1. OthersLeft(n)
        BY <1>0, <3>3, StartStatement
      <4> QED
        BY <1>0, <2>2, <4>1 DEF OthersLeft
    <3> QED
      BY <1>1, <3>1, <3>2, <3>3
  <2> QED
    BY <2>1, <2>2
<1>4. ASSUME NEW r \in Requests, Serve(r) \/ OtherClient(r)
      PROVE  Asked /\ (Handle(m) \/ Left)
  <2>1. Asked
    BY <1>4 DEF Serve, OtherClient, tab
  <2>2. CASE r = m
    BY <1>4, <2>1, <2>2 DEF Serve, OtherClient
  <2>3. CASE r # m
    <3>1. OthersLeft(r)
      BY <1>0, <1>4, StartStatement, HandleStatement DEF Serve, OtherClient
    <3> QED
      BY <1>0, <2>1, <2>3, <3>1 DEF OthersLeft
  <2> QED
    BY <2>2, <2>3
<1>5. CASE UNCHANGED <<vars, moves>>
  BY <1>1, <1>5
<1>6. ASSUME NEW n \in Moves, MoveFails(n) \/ MoveDone(n) PROVE Asked /\ Left
  BY <1>1, <1>2, <1>6 DEF MoveFails, MoveDone
<1>7. ASSUME NEW l \in Lists, ListArrives(l) PROVE Asked /\ Left
  BY <1>1, <1>2, <1>7 DEF ListArrives
<1>8. CASE User
  BY <1>3, <1>5, <1>8 DEF User, Query, openCreate, openTransition, Cancel, logout
<1> QED
  BY <1>4, <1>5, <1>6, <1>7, <1>8
  DEF WorkbenchNext, authenticate, List, ReadPage, ReadRevisions, ListFails, tab

\* What the revision a request appends says is what the request asked for.
LEMMA AppendedState ==
  ASSUME ServerOK, [Next]_vars, NEW r \in Requests, pc[r] # "idle",
         req[r].op = "transition",
         \A c \in Codes : \A v \in Versions(c) :
           revisions[c][v].request = r => revisions[c][v].state = req[r].target,
         NEW c \in Codes, NEW v \in DOMAIN revisions'[c],
         revisions'[c][v].request = r
  PROVE  revisions'[c][v].state = req[r].target
<1> USE DEF ServerOK
<1>1. CASE UNCHANGED revisions
  BY <1>1 DEF Versions
<1>2. ASSUME NEW s \in Requests, Committed(s)
      PROVE  revisions'[c][v].state = req[r].target
  <2>1. CASE v \in Versions(c) /\ revisions'[c][v] = revisions[c][v]
    BY <2>1
  <2>2. CASE ~(v \in Versions(c) /\ revisions'[c][v] = revisions[c][v])
    <3>1. \A d \in Codes : \A w \in DOMAIN revisions'[d] :
            \/ w \in Versions(d) /\ revisions'[d][w] = revisions[d][w]
            \/ d = Code(s) /\ w = NewVersion(s) /\ revisions'[d][w].request = s
      BY <1>2, CommitKeeps
    <3>2. c = Code(s) /\ v = NewVersion(s) /\ revisions'[c][v].request = s
      BY <2>2, <3>1
    <3>3. s = r
      BY <3>2
    <3>4. c = Code(r) /\ v = NewVersion(r) /\ Kept(r)' /\ req'[r] = req[r]
      BY <1>2, <3>2, <3>3, CommitKeeps DEF Committed
    <3>5. Code(r)' = c /\ NewVersion(r)' = v
      BY <3>4 DEF Code, NewVersion
    <3> QED
      BY <3>4, <3>5 DEF Kept
  <2> QED
    BY <2>1, <2>2
<1>3. ASSUME NEW s \in Requests, Statement(s), ~Committed(s)
      PROVE  UNCHANGED revisions
  BY <1>3 DEF Statement, Received, TurnedDown, Loaded, Removed, Audited,
              ReadBack, Listed, TablesLeft
<1> QED
  BY <1>1, <1>2, <1>3, StatementOfOne DEF vars

\* The dialog offers what the button of its item offered.
LEMMA DialogStep ==
  ASSUME Inv, MovesOK, [WorkbenchNext]_<<vars, tab>>,
         dialog' # NoDialog, dialog'.kind = "transition"
  PROVE  dialog'.status \in next(dialog'.item)
<1>1. ASSUME NEW c \in Codes, openTransition(c)
      PROVE  dialog'.status \in next(dialog'.item)
  BY <1>1 DEF openTransition, TransitionDialog
<1>2. CASE dialog' = dialog
  BY <1>2 DEF MovesOK
<1>3. CASE openCreate \/ Cancel
  BY <1>3 DEF openCreate, Cancel, CreateDialog
<1>4. ASSUME NEW l \in Lists, ListArrives(l) PROVE dialog' = dialog
  BY <1>4 DEF ListArrives
<1>5. CASE User
  BY <1>1, <1>2, <1>3, <1>5 DEF User, Query, Confirm, logout
<1> QED
  BY <1>2, <1>4, <1>5
  DEF WorkbenchNext, authenticate, MoveFails, MoveDone, List, ReadPage,
      ReadRevisions, ListFails, Serve, OtherClient, tab

\* What is sent for a dialog is what it says, and whoever may press the
\* button may do that.
LEMMA ConfirmSends ==
  ASSUME Inv, MovesOK, NEW m \in Moves, Confirm(m)
  PROVE  /\ moves'[m].asked = dialog /\ dialog \in Dialog /\ dialog # NoDialog
         /\ dialog' = dialog /\ pc[m] = "idle" /\ pc'[m] # "done"
         /\ pc'[m] # "idle" => SentAs(m, dialog)'
<1>0. /\ moves \in [Moves -> MoveState] /\ dialog \in Dialog /\ m \in Requests
      /\ dialog # NoDialog /\ pc[m] = "idle" /\ dialog' = dialog
      /\ req \in [Requests -> Inputs(Users, Codes, Nat \ {0}) \cup {NoInput}]
      /\ pc \in [Requests -> Steps]
  BY DEF Inv, WorkbenchTypeOK, TabOK, Confirm, ServerOK, TypeOK
<1>1. moves'[m].asked = dialog
  BY <1>0 DEF Confirm
<1>2. CASE UNCHANGED vars
  BY <1>0, <1>1, <1>2 DEF vars
<1>3. ASSUME NEW q \in Body, Accept(m, q)
      PROVE  pc'[m] # "done" /\ SentAs(m, dialog)'
  <2>1. req'[m] = q
    BY <1>0, <1>3 DEF Accept
  <2>2. ASSUME q.op \in {"create", "transition"}, Permitted(q.op, q.user)
        PROVE  pc'[m] # "done"
    BY <1>0, <1>3, <2>2 DEF Accept, Goto, FirstStep
  <2>3. canWrite => session \in Users /\ RequireMinimumRole("operator", session)
    BY SomebodyWrites DEF Inv, canWrite, hasMinimumRole
  <2>4. CASE dialog.kind = "create"
    <3>1. canWrite
      BY <2>4 DEF Confirm
    <3>2. q.op = "create" /\ q.user = session
      BY <1>3, <2>4 DEF Body
    <3>3. Permitted(q.op, q.user)
      BY <2>3, <3>1, <3>2 DEF Permitted
    <3> QED
      BY <1>0, <2>1, <2>2, <2>4, <3>2, <3>3 DEF SentAs
  <2>5. CASE dialog.kind # "create"
    <3>1. /\ dialog.kind = "transition" /\ dialog.item \in Row
          /\ dialog.status \in next(dialog.item)
      BY <1>0, <2>5 DEF Dialog, MovesOK
    <3>2. canTransition(dialog.item)
      BY <2>5 DEF Confirm
    <3>3. /\ q.op = "transition" /\ q.user = session /\ q.code = dialog.code
          /\ q.expected = dialog.item.version /\ q.target = dialog.status
      BY <1>3, <2>5 DEF Body
    <3>4. Permitted(q.op, q.user)
      BY <2>3, <3>2, <3>3 DEF Permitted, canTransition
    <3>5. q.target \in Verdicts => q.user \in {"reviewer", "admin"}
      <4>1. q.target \in Verdicts => canReview
        BY <3>1, <3>2, <3>3, ButtonIsLegal DEF canTransition
      <4>2. session \in Users
        BY <2>3, <3>2 DEF canTransition
      <4>3. canReview => roleRank[session] >= 3
        BY DEF canReview, hasMinimumRole, RequireMinimumRole, roleRank
      <4> QED
        BY <3>3, <4>1, <4>2, <4>3 DEF Users, roleRank
    <3>6. ~Refuses(dialog.item, q)
      BY <3>1, <3>3, <3>5, ButtonIsLegal DEF Refuses, RefusesTransition
    <3> QED
      BY <1>0, <2>1, <2>2, <3>1, <3>3, <3>4, <3>6 DEF SentAs
  <2> QED
    BY <2>4, <2>5
<1> QED
  BY <1>0, <1>1, <1>2, <1>3 DEF Confirm

LEMMA MovesStep ==
  ASSUME Inv, OutcomesOK, MovesOK, [WorkbenchNext]_<<vars, tab>>
  PROVE  MovesOK'
<1> SUFFICES ASSUME NEW m \in Moves PROVE MoveOf(m)'
  BY DialogStep DEF MovesOK
<1>0. /\ moves \in [Moves -> MoveState] /\ m \in Requests /\ MoveOf(m)
      /\ [Next]_vars /\ ServerOK
  BY TabStep DEF Inv, WorkbenchTypeOK, MovesOK
<1>1. TraceOf(m)'
  BY <1>0, OutcomesStep DEF ServerOK, OutcomesOK
<1>2. ASSUME pc'[m] = "idle", NEW c \in Codes, NEW v \in DOMAIN revisions'[c]
      PROVE  revisions'[c][v].request # m
  BY <1>1, <1>2 DEF TraceOf, Untouched, Versions
<1>3. CASE Confirm(m)
  <2>1. /\ moves'[m].asked = dialog /\ dialog \in Dialog /\ dialog # NoDialog
        /\ pc[m] = "idle" /\ dialog' = dialog
        /\ pc'[m] # "idle" => SentAs(m, dialog)'
    BY <1>3, ConfirmSends
  <2>2. ASSUME m \in Transitions' PROVE WasVersion(dialog.code, dialog.item)'
    <3>1. /\ dialog.kind = "transition" /\ dialog.code \in Codes
          /\ dialog.item \in Row
      BY <2>1, <2>2 DEF Transitions, Dialog
    <3>2. WasVersion(dialog.code, dialog.item)
      BY <2>1, <3>1 DEF Inv, ShownOK, Shown
    <3>3. PICK c, item : c = dialog.code /\ item = dialog.item
      OBVIOUS
    <3>4. WasVersion(c, item)'
      BY <1>0, <3>1, <3>2, <3>3, HistoryLasts
    <3> QED
      BY <2>1, <3>3, <3>4
  <2>3. ASSUME NEW c \in Codes, NEW v \in DOMAIN revisions'[c]
        PROVE  revisions'[c][v].request # m
    <3>1. TraceOf(m) /\ Untouched(m)
      BY <1>0, <2>1 DEF OutcomesOK, Untouched
    <3>2. revisions' = revisions
      BY <1>3 DEF Confirm, vars
    <3> QED
      BY <2>3, <3>1, <3>2 DEF TraceOf, Versions
  <2> QED
    BY <2>1, <2>2, <2>3 DEF MoveOf, Versions
<1>4. CASE /\ moves'[m].asked = moves[m].asked
           /\ \/ Handle(m)
              \/ pc'[m] = pc[m] /\ req'[m] = req[m] /\ reply'[m] = reply[m]
  <2>1. pc'[m] # "idle" => pc[m] # "idle"
    BY <1>0, <1>4, HandledAlone DEF ServerOK
  <2>2. pc[m] # "idle" => req'[m] = req[m]
    BY <1>0, InputStays DEF ServerOK
  <2>3. PICK asked : asked = moves[m].asked
    OBVIOUS
  <2>4. pc'[m] # "idle" => asked # NoDialog /\ SentAs(m, asked)'
    BY <1>0, <2>1, <2>2, <2>3 DEF MoveOf, SentAs
  <2>5. ASSUME m \in Transitions' PROVE WasVersion(asked.code, asked.item)'
    <3>1. m \in Transitions /\ asked # NoDialog
      BY <1>4, <2>3, <2>5 DEF Transitions
    <3>2. asked.code \in Codes
      <4>1. moves[m] \in MoveState
        BY <1>0
      <4>2. asked \in Dialog
        BY <2>3, <3>1, <4>1 DEF MoveState
      <4> QED
        BY <2>3, <3>1, <4>2 DEF Dialog, Transitions
    <3>3. WasVersion(asked.code, asked.item)
      BY <1>0, <2>3, <3>1 DEF MoveOf
    <3> QED
      BY <1>0, <3>2, <3>3, HistoryLasts
  <2>6. ASSUME NEW c \in Codes, NEW v \in DOMAIN revisions'[c],
               revisions'[c][v].request = m, req'[m].op = "transition"
        PROVE  revisions'[c][v].state = req'[m].target
    <3>1. pc[m] # "idle"
      <4>1. pc'[m] # "idle"
        BY <1>2, <2>6
      <4> QED
        BY <2>1, <4>1
    <3>2. req'[m] = req[m]
      BY <2>2, <3>1
    <3>3. \A d \in Codes : \A w \in Versions(d) :
            revisions[d][w].request = m => revisions[d][w].state = req[m].target
      BY <1>0, <2>6, <3>2 DEF MoveOf
    <3> QED
      BY <1>0, <2>6, <3>1, <3>2, <3>3, AppendedState
  <2> QED
    BY <1>4, <2>3, <2>4, <2>5, <2>6 DEF MoveOf, Versions
<1> QED
  BY <1>3, <1>4, StepsOfMove

LEMMA MovesInit == WorkbenchInit => MovesOK
<1> SUFFICES ASSUME WorkbenchInit, NEW m \in Moves PROVE MoveOf(m)
  BY DEF MovesOK, WorkbenchInit
<1>1. pc[m] = "idle" /\ req[m] = NoInput
  BY DEF WorkbenchInit, Init, NothingHandled
<1>2. m \notin Transitions
  BY DEF WorkbenchInit, Transitions
<1> QED
  BY <1>1, <1>2 DEF MoveOf, NoInput

\* Every move is bound to the dialog it was confirmed from, and what it
\* appended to what that dialog showed, whatever the tab has shown, closed or
\* logged out of since.
THEOREM MovesBound == WorkbenchSpec => [](Inv /\ OutcomesOK /\ MovesOK)
<1>1. WorkbenchInit => Inv /\ OutcomesOK /\ MovesOK
  BY InvInit, MovesInit, OutcomesInit DEF WorkbenchInit
<1>2. Inv /\ OutcomesOK /\ MovesOK /\ [WorkbenchNext]_<<vars, tab>>
        => Inv' /\ OutcomesOK' /\ MovesOK'
  BY InvStep, MovesStep, OutcomesStep, TabStep DEF Inv, ServerOK
<1> QED
  BY <1>1, <1>2, PTL DEF WorkbenchSpec

\* The inductive invariant of the server and the tab together, beside any
\* other clients.
THEOREM WorkbenchInvariantHolds == WorkbenchSpec => []WorkbenchInvariant
<1>1. Inv /\ OutcomesOK /\ MovesOK => WorkbenchInvariant
  BY ShownWas DEF Inv, ServerOK, OutcomesInvariant, WorkbenchInvariant
<1> QED
  BY <1>1, MovesBound, PTL

\* The dialog of a transition and the request it was sent as.
LEMMA TransitionSent ==
  ASSUME Inv, MovesOK, NEW m \in Transitions, pc[m] # "idle"
  PROVE  LET asked == moves[m].asked IN
         /\ m \in Requests /\ asked.code \in Codes /\ asked.item \in Row
         /\ asked.status \in Statuses
         /\ req[m].op = "transition" /\ Code(m) = asked.code
         /\ req[m].expected = asked.item.version
         /\ req[m].target = asked.status
         /\ ~Refuses(asked.item, req[m])
<1>1. moves[m] \in MoveState /\ m \in Moves /\ m \in Requests
  BY DEF Transitions, Inv, WorkbenchTypeOK
<1>2. moves[m].asked \in Dialog /\ moves[m].asked.kind = "transition"
  BY <1>1 DEF MoveState, Transitions
<1>3. SentAs(m, moves[m].asked)
  BY <1>1 DEF MovesOK, MoveOf
<1> QED
  BY <1>1, <1>2, <1>3 DEF Dialog, SentAs, Code

\* A confirmed dialog does what it showed or nothing: a move never changes a
\* decision the user has not seen, and one answered with success is done.
THEOREM ConfirmedAsShown == WorkbenchSpec => []ConfirmedIsDone
<1>1. Inv /\ OutcomesOK /\ MovesOK => ConfirmedIsDone
  <2> SUFFICES ASSUME Inv, OutcomesOK, MovesOK, NEW m \in Transitions,
                      NEW asked, asked = moves[m].asked,
                      NEW history, history = revisions[asked.code]
               PROVE  /\ \A v \in DOMAIN history : history[v].request = m =>
                           /\ v = asked.item.version + 1
                           /\ history[v].state = asked.status
                           /\ history[v - 1].state = asked.item.status
                           /\ history[v - 1].fields = asked.item.fields
                      /\ Answered(m, "ok") =>
                           \E v \in DOMAIN history : history[v].request = m
    BY DEF ConfirmedIsDone
  <2>0. /\ m \in Requests /\ m \in Moves /\ MoveOf(m)
        /\ TraceOf(m) /\ OutcomeOf(m)
        /\ asked.code \in Codes /\ asked.item \in Row
    <3>1. m \in Requests /\ m \in Moves /\ moves[m] \in MoveState
      BY DEF Transitions, Inv, WorkbenchTypeOK
    <3>2. asked \in Dialog /\ asked.kind = "transition"
      BY <3>1 DEF MoveState, Transitions
    <3> QED
      BY <3>1, <3>2 DEF Dialog, MovesOK, OutcomesOK
  <2>1. ASSUME NEW v \in DOMAIN history, history[v].request = m
        PROVE  /\ v = asked.item.version + 1
               /\ history[v].state = asked.status
               /\ history[v - 1].state = asked.item.status
               /\ history[v - 1].fields = asked.item.fields
    <3>1. ~Untouched(m) /\ v = NewVersion(m)
      BY <2>0, <2>1 DEF TraceOf, Versions
    <3>2. pc[m] # "idle"
      BY <3>1 DEF Untouched
    <3>3. /\ req[m].op = "transition" /\ req[m].expected = asked.item.version
          /\ req[m].target = asked.status
      BY <3>2, TransitionSent
    <3>4. v = asked.item.version + 1 /\ asked.item.version \in Nat
      BY <2>0, <3>1, <3>3 DEF NewVersion, Row
    <3>5. history[v].state = asked.status
      BY <2>0, <2>1, <3>3 DEF MoveOf, Versions
    <3>6. WasVersion(asked.code, asked.item) /\ v - 1 = asked.item.version
      BY <2>0, <3>4 DEF MoveOf
    <3> QED
      BY <3>4, <3>5, <3>6 DEF WasVersion
  <2>2. ASSUME Answered(m, "ok")
        PROVE  \E v \in DOMAIN history : history[v].request = m
    <3>1. Through(m) /\ pc[m] # "idle"
      BY <2>2 DEF Through, Answered
    <3>2. Writing(m) /\ Code(m) = asked.code
      BY <3>1, TransitionSent DEF Writing
    <3>3. Kept(m)
      BY <2>0, <3>1, <3>2 DEF OutcomeOf
    <3> QED
      BY <3>2, <3>3 DEF Kept, Versions
  <2> QED
    BY <2>1, <2>2
<1> QED
  BY <1>1, MovesBound, PTL

\* The decision of a version is that version or a later one.
LEMMA VersionOfRow ==
  ASSUME ServerOK, NEW c \in Codes, NEW item \in Row, WasVersion(c, item)
  PROVE  /\ Stored(c) /\ rows[c] \in Row
         /\ item.version \in Nat /\ rows[c].version \in Nat
         /\ item.version <= rows[c].version
         /\ item.version = rows[c].version => item.status = rows[c].status
<1>1. CompleteHistory(c) /\ rows[c] \in Row \cup {NoRow}
  BY DEF ServerOK, HistoryComplete, TypeOK
<1>2. Stored(c) /\ rows[c] \in Row
  BY <1>1 DEF CompleteHistory, WasVersion, Stored
<1>3. rows[c].version \in Nat /\ item.version \in Nat
  BY <1>2 DEF Row
<1>4. item.version \in 1..rows[c].version
  BY <1>1, <1>2 DEF CompleteHistory, WasVersion
<1>5. item.version = rows[c].version => item.status = rows[c].status
  BY <1>1, <1>2 DEF CompleteHistory, WasVersion
<1> QED
  BY <1>2, <1>3, <1>4, <1>5

\* A handler that refuses a move has found another row than the one shown.
LEMMA RefusedMove ==
  ASSUME Inv, MovesOK, NEW m \in Transitions, Handle(m), pc'[m] = "done",
         reply'[m] \in {"business_rule", "version_conflict", "not_found"},
         NEW c, c = moves[m].asked.code
  PROVE  /\ rows' = rows
         /\ rows[c].deleted \/ rows[c].version > moves[m].asked.item.version
<1>0. /\ m \in Requests /\ pc[m] # "idle" /\ ControlOf(m)
      /\ pc \in [Requests -> Steps] /\ reply \in [Requests -> Answers]
  BY HandledAlone DEF Transitions, Inv, ServerOK, ControlOK, TypeOK
<1>1. /\ c \in Codes /\ Code(m) = c /\ moves[m].asked.item \in Row
      /\ req[m].op = "transition"
      /\ req[m].expected = moves[m].asked.item.version
      /\ ~Refuses(moves[m].asked.item, req[m])
  BY <1>0, TransitionSent
<1>2. WasVersion(c, moves[m].asked.item)
  BY DEF MovesOK, MoveOf, Transitions
<1>3. PICK item : item = moves[m].asked.item
  OBVIOUS
<1>4. /\ Stored(c) /\ item.version \in Nat /\ rows[c].version \in Nat
      /\ item.version <= rows[c].version
      /\ item.version = rows[c].version => item.status = rows[c].status
  BY <1>1, <1>2, <1>3, VersionOfRow DEF Inv
<1>5. ~Live(c) => rows[c].deleted
  BY <1>4 DEF Live
<1>6. Refuses(rows[c], req[m]) => rows[c].version > item.version
  BY <1>1, <1>3, <1>4 DEF Refuses, RefusesTransition
<1>7. ~Matches(c, item.version) => rows[c].deleted \/ rows[c].version > item.version
  BY <1>4, <1>5 DEF Matches
<1>8. CASE Load(m)
  BY <1>0, <1>1, <1>3, <1>5, <1>6, <1>8 DEF Load, LoadUnless, Answer, Goto
<1>9. CASE Write(m)
  BY <1>0, <1>1, <1>3, <1>7, <1>9 DEF Write, Answer, Goto
<1>10. CASE Read(m)
  BY <1>0, <1>1, <1>3, <1>5, <1>10 DEF Read, Answer, Goto
<1>11. ~Create(m) /\ ~Remove(m)
  BY <1>0, <1>1 DEF ControlOf, Create, Remove
<1>12. ~Preload(m)
  BY <1>0 DEF Preload, Answer
<1>13. /\ ~Audit(m, "draft", {"delete"}) /\ ~AuditFails(m, "draft", {"delete"})
       /\ ~Interrupt(m)
  BY <1>0, <1>1 DEF Audit, AuditFails, AfterAudit, Interrupt, Answer, Goto
<1> QED
  BY <1>3, <1>8, <1>9, <1>10, <1>11, <1>12, <1>13 DEF Handle, CommonStep

LEMMA NobodyForbidden ==
  ASSUME TypeOK, NEW r \in Requests, Handle(r), Answered(r, "forbidden")'
  PROVE  Answered(r, "forbidden")
<1> USE DEF Goto, Answer, Answered
<1>0. pc \in [Requests -> Steps] /\ reply \in [Requests -> Answers]
  BY DEF TypeOK
<1>1. ~Create(r)
  BY <1>0 DEF Create
<1>2. ~Load(r)
  BY <1>0 DEF Load, LoadUnless
<1>3. ~Write(r)
  BY <1>0 DEF Write
<1>4. ~Read(r) /\ ~Preload(r)
  BY <1>0 DEF Read, Preload
<1>5. ~CommonStep(r)
  BY <1>0 DEF CommonStep, Remove, Audit, AuditFails, AfterAudit, Interrupt
<1> QED
  BY <1>1, <1>2, <1>3, <1>4, <1>5 DEF Handle

\* No move is refused for a role, and one that is refused at all finds the
\* decision moved on or deleted: the list, asked for again, shows it.
THEOREM RefusalsExplained == WorkbenchSpec => []RefusalMeansMoved
<1>1. WorkbenchInit => RefusalMeansMoved
  BY DEF WorkbenchInit, Init, NothingHandled, RefusalMeansMoved, Answered,
         Transitions
<1>2. Inv /\ OutcomesOK /\ MovesOK /\ RefusalMeansMoved
        /\ [WorkbenchNext]_<<vars, tab>> => RefusalMeansMoved'
  <2> SUFFICES ASSUME Inv, MovesOK, RefusalMeansMoved,
                      [WorkbenchNext]_<<vars, tab>>, NEW m \in Moves
               PROVE  /\ ~Answered(m, "forbidden")'
                      /\ m \in Transitions' /\ pc'[m] = "done" /\
                         reply'[m] \in {"business_rule", "version_conflict",
                                        "not_found"} =>
                           \/ rows'[moves'[m].asked.code].deleted
                           \/ rows'[moves'[m].asked.code].version
                                > moves'[m].asked.item.version
    BY DEF RefusalMeansMoved, Transitions
  <2>0. m \in Requests /\ ServerOK /\ [Next]_vars /\ ~Answered(m, "forbidden")
    BY TabStep DEF Inv, WorkbenchTypeOK, RefusalMeansMoved
  <2>1. CASE Confirm(m)
    BY <2>1, ConfirmSends DEF Answered
  <2>2. CASE /\ moves'[m].asked = moves[m].asked
             /\ \/ Handle(m)
                \/ pc'[m] = pc[m] /\ req'[m] = req[m] /\ reply'[m] = reply[m]
    <3>1. ~Answered(m, "forbidden")'
      BY <2>0, <2>2, NobodyForbidden DEF ServerOK, Answered
    <3>2. ASSUME m \in Transitions', pc'[m] = "done",
                 reply'[m] \in {"business_rule", "version_conflict", "not_found"}
          PROVE  \/ rows'[moves'[m].asked.code].deleted
                 \/ rows'[moves'[m].asked.code].version
                      > moves'[m].asked.item.version
      <4>0. m \in Transitions
        BY <2>2, <3>2 DEF Transitions
      <4>1. CASE Handle(m)
        BY <2>2, <3>2, <4>0, <4>1, RefusedMove
      <4>2. CASE pc'[m] = pc[m] /\ req'[m] = req[m] /\ reply'[m] = reply[m]
        <5>1. PICK c, item : c = moves[m].asked.code /\ item = moves[m].asked.item
          OBVIOUS
        <5>2. rows[c].deleted \/ rows[c].version > item.version
          BY <3>2, <4>0, <4>2, <5>1 DEF RefusalMeansMoved
        <5>3. /\ c \in Codes /\ Code(m) = c /\ item \in Row
              /\ WasVersion(c, item)
          BY <3>2, <4>0, <4>2, <5>1, TransitionSent DEF MovesOK, MoveOf, Transitions
        <5>4. Stored(c) /\ item.version \in Nat /\ rows[c].version \in Nat
          BY <2>0, <5>3, VersionOfRow
        <5>5. rows[c].deleted => rows'[c].deleted
          BY <2>0, <3>2, <4>2, <5>3, <5>4, KeptStays DEF ServerOK, Code
        <5>6. /\ rows[c].version <= rows'[c].version /\ rows'[c].version \in Nat
          BY <2>0, <5>3, <5>4, ShownStays, TypeControlStep
          DEF ServerOK, TypeOK, Stored, Row
        <5> QED
          BY <2>2, <5>1, <5>2, <5>4, <5>5, <5>6
      <4> QED
        BY <2>2, <4>1, <4>2
    <3> QED
      BY <3>1, <3>2
  <2> QED
    BY <2>1, <2>2, StepsOfMove
<1> QED
  BY <1>1, <1>2, MovesBound, PTL DEF WorkbenchSpec

=============================================================================
