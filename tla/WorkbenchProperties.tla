------------------------- MODULE WorkbenchProperties -------------------------
(***************************************************************************)
(* What must be true of Workbench: what the user sees, what a confirmed    *)
(* dialog does to the decision it was opened on, and what the server may   *)
(* count on.                                                               *)
(***************************************************************************)
EXTENDS Workbench

Dialog ==
  [kind: {"create"}] \cup
  [kind: {"transition"}, code: Codes, item: Row, status: Statuses]

MoveState ==
  [step: {"idle", "lost", "sent", "reloading", "over"},
   asked: Dialog \cup {NoDialog}]

ListState ==
  [step: {"idle", "asked", "paged", "ok", "failed"}, page: Page,
   listed: [Codes -> SUBSET (Nat \ {0})]]

\* Every variable of the tab has its type.
WorkbenchTypeOK ==
  /\ session \in Users \cup {"none"}
  /\ authenticating \in BOOLEAN
  /\ screen \in Page
  /\ loading \in BOOLEAN
  /\ dialog \in Dialog \cup {NoDialog}
  /\ moves \in [Moves -> MoveState]
  /\ attached \subseteq Moves
  /\ loads \in [Lists -> ListState]

\* The moves that change the status of a decision, once confirmed.
Transitions == {m \in Moves : moves[m].asked # NoDialog /\
                              moves[m].asked.kind = "transition"}

-----------------------------------------------------------------------------

\* Every row on the screen, in the dialog or in an answer on its way is a
\* version the decision really had, however late the answer, and an answer
\* has all the revisions up to the version it shows, although List reads
\* them in a second query.
WasVersion(c, row) ==
  /\ row.version \in Versions(c)
  /\ revisions[c][row.version].state = row.status
  /\ revisions[c][row.version].fields = row.fields

ShownIsHistory ==
  /\ \A c \in Codes : screen[c] # NoRow => WasVersion(c, screen[c])
  /\ dialog # NoDialog /\ dialog.kind = "transition" =>
       WasVersion(dialog.code, dialog.item)
  /\ \A l \in Lists : \A c \in Codes : loads[l].page[c] # NoRow =>
       /\ WasVersion(c, loads[l].page[c])
       /\ loads[l].step = "ok" =>
            1..loads[l].page[c].version \subseteq loads[l].listed[c]

\* A confirmed dialog does what it showed or nothing: a revision a move
\* appended comes right after the version the dialog was opened on and has
\* the status on its button, and a move answered with success has appended
\* one.  So a dialog opened on an old list, or confirmed twice, or again
\* after its answer was lost, never moves a decision the user has not seen.
ConfirmedIsDone ==
  \A m \in Transitions :
    LET asked == moves[m].asked
        history == revisions[asked.code]
        Appended == {v \in DOMAIN history : history[v].request = m}
    IN /\ \A v \in Appended :
            /\ v = asked.item.version + 1
            /\ history[v].state = asked.status
            /\ history[v - 1].state = asked.item.status
            /\ history[v - 1].fields = asked.item.fields
       /\ Answered(m, "ok") => Appended # {}

\* A move is never refused for a role: the buttons follow the guards of the
\* routes and the reviewer rule of the service.  When it is refused at all,
\* the decision has moved on or is deleted, so that the list, asked for
\* again, shows something else than the user was looking at.
RefusalMeansMoved ==
  /\ \A m \in Moves : ~Answered(m, "forbidden")
  /\ \A m \in Transitions :
       pc[m] = "done" /\ reply[m] \in {"business_rule", "version_conflict",
                                       "not_found"}
         => LET row == rows[moves[m].asked.code] IN
            row.deleted \/ row.version > moves[m].asked.item.version

\* The tab sends only versions it has read.  Whatever order its answers
\* arrive in, the server sees a behaviour of clients with Lookahead = 0,
\* which is what ReviewLockHolds assumes of them.
Reader == INSTANCE ComplianceDecision WITH Lookahead <- 0

ReadsBeforeItWrites == Reader!Spec

\* The notice that data is being loaded is shown only while a call of the tab
\* is in flight, so that it goes away with the last of them, however they
\* overlap and whichever of them fail.
LoadingMeansCall == loading => InFlight # {}

-----------------------------------------------------------------------------
(* The inductive invariant *)

\* A session is one of the roles that log in, and a move that was not made
\* yet is a request that was not sent.
TabOK ==
  /\ session \in Callers \cup {"none"}
  /\ \A m \in Moves : moves[m].step = "idle" => pc[m] = "idle"

\* The request says what the dialog said, and nothing in it is refused to
\* whoever was logged in when the dialog was confirmed.
SentAs(m, asked) ==
  /\ req[m].op = asked.kind
  /\ Permitted(req[m].op, req[m].user)
  /\ asked.kind = "transition" =>
       /\ req[m].code = asked.code
       /\ req[m].expected = asked.item.version
       /\ req[m].target = asked.status
       /\ ~Refuses(asked.item, req[m])

\* However the tab and its session have changed since, a move that was sent
\* is bound to the dialog it confirms, that dialog to a version the decision
\* had, and what the move appended to what it asked for.
MoveOf(m) ==
  LET asked == moves[m].asked IN
  /\ pc[m] # "idle" => asked # NoDialog /\ SentAs(m, asked)
  /\ m \in Transitions => WasVersion(asked.code, asked.item)
  /\ \A c \in Codes : \A v \in Versions(c) :
       revisions[c][v].request = m /\ req[m].op = "transition" =>
         revisions[c][v].state = req[m].target

MovesOK ==
  /\ \A m \in Moves : MoveOf(m)
  /\ dialog # NoDialog /\ dialog.kind = "transition" =>
       dialog.status \in next(dialog.item)

\* What every step of the server, the tab and the other clients preserves.
WorkbenchInvariant ==
  /\ OutcomesInvariant
  /\ WorkbenchTypeOK /\ TabOK /\ ShownIsHistory /\ MovesOK

=============================================================================
