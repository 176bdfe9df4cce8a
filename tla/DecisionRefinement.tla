------------------------- MODULE DecisionRefinement -------------------------
(* ComplianceDecision implements DecisionLedger. *)
EXTENDS DecisionProperties

ledgerVersion ==
  [c \in Codes |-> IF Stored(c) THEN rows[c].version ELSE 0]

\* The request a revision came from is no part of the promise.
ledgerJournal ==
  [c \in Codes |->
     [v \in Versions(c) |->
        [state  |-> revisions[c][v].state,
         fields |-> revisions[c][v].fields,
         actor  |-> revisions[c][v].actor]]]

ledgerStruck == [c \in Codes |-> Stored(c) /\ rows[c].deleted]

Ledger == INSTANCE DecisionLedger WITH
  version <- ledgerVersion, journal <- ledgerJournal, struck <- ledgerStruck

\* Every step of every interleaving of the requests is one atomic change of
\* the ledger or none at all: load, check and write of Update and Transition
\* act as one, as long as clients expect versions they have read.
ImplementsLedger == Ledger!LedgerSpec

=============================================================================
