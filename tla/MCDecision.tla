----------------------------- MODULE MCDecision -----------------------------
(* ComplianceDecision on small instances. *)
EXTENDS DecisionRefinement, TLC

CONSTANTS c1, f1, f2, blank

\* Requests differ by what they ask for only, and valid fields not at all.
Symmetry == Permutations(Requests) \cup Permutations(ValidFields)

=============================================================================
