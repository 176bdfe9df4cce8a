----------------------------- MODULE MCReports -----------------------------
(* Reports on a small instance. *)
EXTENDS Reports

\* Two entries that differ in everything the summary groups by, and one that
\* shares a part with each.
AuditEntries ==
  {[action |-> "transition", actor |-> "reviewer", entityType |-> "decision"],
   [action |-> "update",     actor |-> "operator", entityType |-> "unit"],
   [action |-> "update",     actor |-> "reviewer", entityType |-> "decision"]}

=============================================================================
