------------------------------ MODULE Workbench ------------------------------
(***************************************************************************)
(* One browser tab on the decisions page, beside any other clients of the  *)
(* server: frontend/src/stores/factory.ts, entity-page.component.ts and    *)
(* hooks/use-auth.ts.                                                      *)
(*                                                                         *)
(* Nothing in the tab waits for anything else.  Lists and moves are calls  *)
(* in flight whose answers arrive in any order, each overwriting the one   *)
(* state of the store; a dialog keeps the item it was opened on while the  *)
(* list behind it is replaced; and its button may be pressed again before  *)
(* the first answer.                                                       *)
(***************************************************************************)
EXTENDS FiniteSets, DecisionProperties, EntityConfig

CONSTANTS
  Moves,    \* the requests the tab sends when a dialog is confirmed
  Queries,  \* the lists it asks for otherwise, each of them again and again:
            \* bounds how many of them are in flight
  Losses,   \* whether calls of the tab may fail or get lost
  MaxRequests,  \* bounds the moves and requests of other clients in all
  MaxCalls,     \* bounds the calls in flight when the user makes another
  OnlyChanges,  \* whether requests of other clients that can change nothing
                \* are left out
  NoDialog  \* no dialog is open

ASSUME WorkbenchAssumptions ==
  /\ Moves \subseteq Requests
  /\ {"create", "transition"} \subseteq Operations
  /\ "admin" \in Callers
  /\ {Losses, OnlyChanges} \subseteq BOOLEAN
  /\ MaxRequests \in Nat /\ MaxCalls \in Nat
  /\ NoDialog \notin [kind: {"create", "transition"}]

VARIABLES
  session,         \* the role of the stored session, or "none"
  authenticating,  \* the page is replaced by a notice while a login runs
  screen,          \* the rows of the store, NoRow where it shows none
  loading,         \* the loading flag of the store
  dialog,          \* showCreate and pending: at most one of them is open,
                   \* as a dialog covers the buttons that open another
  moves,           \* per move, how far it is and the dialog it confirms
  attached,        \* the moves made by the page instance on the screen
  loads            \* per list, how far it is and what has been read for it

tab == <<session, authenticating, screen, loading, dialog, moves, attached,
         loads>>

-----------------------------------------------------------------------------
(* Data *)

\* A move that is done asks for a list of its own.
Lists == Queries \cup Moves

Page == [Codes -> Row \cup {NoRow}]

EmptyPage == [c \in Codes |-> NoRow]

NotLoaded(step) ==
  [step |-> step, page |-> EmptyPage, listed |-> [c \in Codes |-> {}]]

CreateDialog == [kind |-> "create"]

TransitionDialog(c, item, status) ==
  [kind |-> "transition", code |-> c, item |-> item, status |-> status]

hasMinimumRole(minimum) ==
  session # "none" /\ RequireMinimumRole(minimum, session)

canWrite == hasMinimumRole("operator")

canReview == hasMinimumRole("reviewer")

next(item) == nextStatus(item.status, ENTITY_CONFIGS.decisions)

\* Mutant: the reviewer's part is forgotten.
canMove(item) == next(item) # {} /\ canWrite

canTransition(item) ==
  /\ next(item) # {}
  /\ canWrite
  /\ next(item) \subseteq Verdicts => canReview

\* load, up to its fetch.  Without a session there is no token, and the
\* server refuses the list.
Ask(l, as) ==
  /\ loads' = [loads EXCEPT ![l] =
                 NotLoaded(IF as = "none" THEN "failed" ELSE "asked")]
  /\ loading' = TRUE

\* The page is opened by the router, which has seen to a session.
WorkbenchInit ==
  /\ Init
  /\ session \in Callers
  /\ authenticating = FALSE
  /\ screen = EmptyPage
  /\ loading = TRUE
  /\ dialog = NoDialog
  /\ moves = [m \in Moves |-> [step |-> "idle", asked |-> NoDialog]]
  /\ attached = {}
  /\ \E q \in Queries :
       loads = [l \in Lists |-> NotLoaded(IF l = q THEN "asked" ELSE "idle")]

-----------------------------------------------------------------------------
(* The user *)

InFlight ==
  {m \in Moves : moves[m].step \in {"sent", "lost"}} \cup
  {l \in Lists : loads[l].step # "idle"}

Sent == {m \in Moves : moves[m].step # "idle"} \cup
        {r \in Requests : pc[r] # "idle"}

MaySend == Cardinality(Sent) < MaxRequests

MayCall == Cardinality(InFlight) < MaxCalls

\* The page is there and no dialog covers it.
Uncovered == ~authenticating /\ dialog = NoDialog

Query(q) ==
  /\ Uncovered
  /\ MayCall
  /\ loads[q].step = "idle"
  /\ Ask(q, session)
  /\ UNCHANGED <<vars, session, authenticating, screen, dialog, moves, attached>>

openCreate ==
  /\ Uncovered
  /\ canWrite
  /\ dialog' = CreateDialog
  /\ UNCHANGED <<vars, session, authenticating, screen, loading, moves,
                 attached, loads>>

openTransition(c) ==
  /\ Uncovered
  /\ screen[c] # NoRow
  /\ canTransition(screen[c])
  /\ \E status \in next(screen[c]) :
       dialog' = TransitionDialog(c, screen[c], status)
  /\ UNCHANGED <<vars, session, authenticating, screen, loading, moves,
                 attached, loads>>

\* closeCreate and closeTransition.
Cancel ==
  /\ dialog # NoDialog
  /\ dialog' = NoDialog
  /\ UNCHANGED <<vars, session, authenticating, screen, loading, moves,
                 attached, loads>>

\* Mutant: the version is that of the row on the screen by now.
BodyFromScreen ==
  IF dialog.kind = "create"
  THEN [op: {"create"}, user: {session}, code: Codes, fields: ValidFields]
  ELSE [op: {"transition"}, user: {session}, code: {dialog.code},
        expected: {screen[dialog.code].version : c \in
                     {d \in {dialog.code} : screen[d] # NoRow}},
        target: {dialog.status}]

\* Mutant: the version the move will lead to is sent.
BodyAhead ==
  IF dialog.kind = "create"
  THEN [op: {"create"}, user: {session}, code: Codes, fields: ValidFields]
  ELSE [op: {"transition"}, user: {session}, code: {dialog.code},
        expected: {dialog.item.version + 1}, target: {dialog.status}]

\* What a confirmed dialog sends.  The code of a new record is cut from the
\* clock: any code, new or not.
Body ==
  IF dialog.kind = "create"
  THEN [op: {"create"}, user: {session}, code: Codes, fields: ValidFields]
  ELSE [op: {"transition"}, user: {session}, code: {dialog.code},
        expected: {dialog.item.version}, target: {dialog.status}]

\* createDemo and confirmTransition, up to the fetch.  The dialog stays open.
\* The request may get lost, or be refused before it reaches the handler.
Confirm(m) ==
  /\ ~authenticating
  /\ MayCall
  /\ dialog # NoDialog
  /\ IF dialog.kind = "create" THEN canWrite ELSE canTransition(dialog.item)
  /\ moves[m].step = "idle"
  /\ MaySend
  /\ \/ /\ \E q \in Body : Accept(m, q)
        /\ moves' = [moves EXCEPT ![m] = [step |-> "sent", asked |-> dialog]]
        /\ UNCHANGED <<revisions, listed>>
     \/ /\ Losses
        /\ moves' = [moves EXCEPT ![m] = [step |-> "lost", asked |-> dialog]]
        /\ UNCHANGED vars
  /\ attached' = attached \cup {m}
  /\ loading' = TRUE
  /\ UNCHANGED <<session, authenticating, screen, dialog, loads>>

-----------------------------------------------------------------------------
(* Answers *)

\* Mutant: the failure is not caught.
UncaughtFailure(m) ==
  /\ \/ moves[m].step = "lost"
     \/ moves[m].step = "sent" /\ pc[m] = "done" /\ reply[m] # "ok"
     \/ moves[m].step = "sent" /\ Losses
  /\ moves' = [moves EXCEPT ![m].step = "over"]
  /\ UNCHANGED <<vars, session, authenticating, screen, loading, dialog,
                 attached, loads>>

\* The fetch fails or the answer is an error: the error is shown, the dialog
\* stays and nothing is loaded.  The connection may be lost while the handler
\* runs on.
MoveFails(m) ==
  /\ \/ moves[m].step = "lost"
     \/ moves[m].step = "sent" /\ pc[m] = "done" /\ reply[m] # "ok"
     \/ moves[m].step = "sent" /\ Losses
  /\ moves' = [moves EXCEPT ![m].step = "over"]
  /\ loading' = FALSE
  /\ UNCHANGED <<vars, session, authenticating, screen, dialog, attached, loads>>

\* createRecord and transition load the list again.
MoveDone(m) ==
  /\ moves[m].step = "sent" /\ pc[m] = "done" /\ reply[m] = "ok"
  /\ moves' = [moves EXCEPT ![m].step = "reloading"]
  /\ Ask(m, session)
  /\ UNCHANGED <<vars, session, authenticating, screen, dialog, attached>>

\* A dialog is closed by the end of any move of its kind the same page made.
Closes(l) ==
  /\ l \in attached
  /\ dialog # NoDialog
  /\ dialog.kind = moves[l].asked.kind

\* The end of load: the answer becomes the list on the screen, whatever
\* was asked for or answered since.  load catches every failure, so the
\* move that asked goes on either way.
ListArrives(l) ==
  /\ loads[l].step \in {"ok", "failed"}
  /\ screen' = IF loads[l].step = "ok" THEN loads[l].page ELSE screen
  /\ loading' = FALSE
  /\ loads' = [loads EXCEPT ![l] = NotLoaded("idle")]
  /\ IF l \in Moves
     THEN /\ moves' = [moves EXCEPT ![l].step = "over"]
          /\ dialog' = IF Closes(l) THEN NoDialog ELSE dialog
     ELSE UNCHANGED <<moves, dialog>>
  /\ UNCHANGED <<vars, session, authenticating, attached>>

-----------------------------------------------------------------------------
(* The session *)

\* While a login runs there is no page; the next one is another instance.
logout ==
  /\ Uncovered
  /\ MayCall
  /\ \E q \in Queries : loads[q].step = "idle"
  /\ session' = "none"
  /\ authenticating' = TRUE
  /\ attached' = {}
  /\ UNCHANGED <<vars, screen, loading, dialog, moves, loads>>

\* login names no user and is the admin's.  Whether it succeeds or not, the
\* page is created again and loads its list.
authenticate ==
  /\ authenticating
  /\ authenticating' = FALSE
  /\ session' \in {"admin"} \cup {s \in {"none"} : Losses}
  /\ \E q \in Queries : loads[q].step = "idle" /\ Ask(q, session')
  /\ UNCHANGED <<vars, screen, dialog, moves, attached>>

-----------------------------------------------------------------------------
(* The server *)

\* complianceDecisionRepository.List: the page, then the revisions of the
\* decisions on it, if any.  All codes fit one page.
ReadPage(l) ==
  /\ loads[l].step = "asked"
  /\ loads' = [loads EXCEPT
       ![l].page = [c \in Codes |-> IF Live(c) THEN rows[c] ELSE NoRow],
       ![l].step = IF \E c \in Codes : Live(c) THEN "paged" ELSE "ok"]
  /\ UNCHANGED <<vars, session, authenticating, screen, loading, dialog, moves,
                 attached>>

\* Mutant: one revision for each decision.
ReadLastRevisions(l) ==
  /\ loads[l].step = "paged"
  /\ loads' = [loads EXCEPT
       ![l].listed = [c \in Codes |-> IF loads[l].page[c] = NoRow THEN {}
                                      ELSE {rows[c].version}],
       ![l].step = "ok"]
  /\ UNCHANGED <<vars, session, authenticating, screen, loading, dialog, moves,
                 attached>>

ReadRevisions(l) ==
  /\ loads[l].step = "paged"
  /\ loads' = [loads EXCEPT
       ![l].listed = [c \in Codes |-> IF loads[l].page[c] = NoRow THEN {}
                                      ELSE Versions(c)],
       ![l].step = "ok"]
  /\ UNCHANGED <<vars, session, authenticating, screen, loading, dialog, moves,
                 attached>>

ListFails(l) ==
  /\ Losses
  /\ loads[l].step \in {"asked", "paged"}
  /\ loads' = [loads EXCEPT ![l] = NotLoaded("failed")]
  /\ UNCHANGED <<vars, session, authenticating, screen, loading, dialog, moves,
                 attached>>

List(l) == ReadPage(l) \/ ReadRevisions(l) \/ ListFails(l)

\* The handlers of the tab's moves and of the other clients' requests.
Serve(r) == Handle(r) /\ UNCHANGED tab

\* What another client changes a tab can see: its reads, refusals and conflicts
\* only shift the moments of the others.  A request that is sent long before
\* its row is loaded does what it does when sent right before, so it need not
\* be sent while it would be refused; unless its version is still to come, a
\* version that does not match by then never will; and the admin may do what
\* any other user may.
ChangesSomething(q) ==
  /\ q.user = "admin"
  /\ \/ q.op = "create" /\ ~Stored(q.code)
     \/ q.op = "delete" /\ Live(q.code) /\ ~Refuses(rows[q.code], q)
     \/ /\ q.op \in {"update", "transition"}
        /\ Live(q.code)
        /\ q.expected >= rows[q.code].version
        /\ ~Refuses(rows[q.code], q)

\* Any other client, a pipelined one too where Lookahead allows.
OtherClient(r) ==
  /\ r \notin Moves
  /\ MaySend
  /\ Start(r)
  /\ OnlyChanges => ChangesSomething(req'[r])
  /\ UNCHANGED tab

-----------------------------------------------------------------------------

User ==
  \/ \E q \in Queries : Query(q)
  \/ openCreate
  \/ \E c \in Codes : openTransition(c)
  \/ Cancel
  \/ \E m \in Moves : Confirm(m)
  \/ logout

WorkbenchNext ==
  \/ User
  \/ authenticate
  \/ \E m \in Moves : MoveFails(m) \/ MoveDone(m)
  \/ \E l \in Lists : List(l) \/ ListArrives(l)
  \/ \E r \in Requests : Serve(r) \/ OtherClient(r)

WorkbenchSpec == WorkbenchInit /\ [][WorkbenchNext]_<<vars, tab>>

=============================================================================
