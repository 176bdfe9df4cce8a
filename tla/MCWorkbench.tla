---------------------------- MODULE MCWorkbench ----------------------------
(* Workbench on a small instance. *)
EXTENDS WorkbenchProperties, TLC

CONSTANTS c1, f1, f2, m1, m2, q1, q2

Symmetry == Permutations(Moves) \cup Permutations(Queries)

=============================================================================
