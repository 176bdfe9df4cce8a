--------------------------- MODULE DecisionLedger ---------------------------
(***************************************************************************)
(* What the decision service promises its users, with every change one     *)
(* step: a numbered journal per decision that only grows, by an edit of a  *)
(* draft or a move along the status graph, a verdict being the reviewers'. *)
(* Nothing here is loaded, checked and written at different times; that    *)
(* ComplianceDecision implements this for clients that send versions they  *)
(* have read says its optimistic lock makes the three as good as one step. *)
(*                                                                         *)
(* Strike takes any live decision, draft or not: the delete of the code    *)
(* checks the status in one statement and deletes in the next, with no     *)
(* version, so nothing stronger holds.                                     *)
(***************************************************************************)
EXTENDS Naturals, Lifecycle, Roles

CONSTANTS Codes, ValidFields

VARIABLES
  version,  \* the number of entries of each journal; 0 before it is opened
  journal,  \* per code, the entries 1..version
  struck    \* whether the decision was deleted

ledgerVars == <<version, journal, struck>>

States == DOMAIN ComplianceDecisionTransitions

Writers == {u \in Users : RequireMinimumRole("operator", u)}

Reviewers == {"reviewer", "admin"}

Latest(c) == journal[c][version[c]]

Enter(c, entry) ==
  /\ version' = [version EXCEPT ![c] = version[c] + 1]
  /\ journal' = [journal EXCEPT ![c] =
                   [v \in 1..(version[c] + 1) |->
                      IF v = version[c] + 1 THEN entry ELSE journal[c][v]]]
  /\ UNCHANGED struck

Entry(state, fields, actor) ==
  [state |-> state, fields |-> fields, actor |-> actor]

LedgerInit ==
  /\ struck = [c \in Codes |-> FALSE]
  /\ version \in [Codes -> {0, 1}]
  /\ journal \in [Codes -> {<<>>} \cup
       {<<Entry(s, f, "system")>> : s \in States, f \in ValidFields}]
  /\ \A c \in Codes : DOMAIN journal[c] = 1..version[c]

Open(c) ==
  /\ version[c] = 0
  /\ \E f \in ValidFields, u \in Writers : Enter(c, Entry("draft", f, u))

Live(c) == version[c] > 0 /\ ~struck[c]

Amend(c) ==
  /\ Live(c)
  /\ Latest(c).state = "draft"
  /\ \E f \in ValidFields, u \in Writers : Enter(c, Entry("draft", f, u))

Move(c) ==
  /\ Live(c)
  /\ \E target \in States, u \in Writers :
       /\ CanTransition(ComplianceDecisionTransitions, Latest(c).state, target)
       /\ target \in {"accepted", "escalated"} => u \in Reviewers
       /\ Enter(c, Entry(target, Latest(c).fields, u))

Strike(c) ==
  /\ Live(c)
  /\ struck' = [struck EXCEPT ![c] = TRUE]
  /\ UNCHANGED <<version, journal>>

LedgerNext == \E c \in Codes : Open(c) \/ Amend(c) \/ Move(c) \/ Strike(c)

LedgerSpec == LedgerInit /\ [][LedgerNext]_ledgerVars

=============================================================================
