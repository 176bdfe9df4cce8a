----------------------------- MODULE MCRecords ------------------------------
(* VersionedRecords on small instances. *)
EXTENDS VersionedRecords, TLC

CONSTANTS cu, pr, es, f1, f2, blank

\* Requests differ by what they ask for only, and valid fields not at all.
Symmetry == Permutations(Requests) \cup Permutations(ValidFields)

=============================================================================
