---------------------------- MODULE EntityConfig ----------------------------
(***************************************************************************)
(* What the workbench knows of the four records                            *)
(* (frontend/src/types/status.ts): the statuses of each page, in the order *)
(* its buttons go through them.  It is not the status graph of the server  *)
(* (Lifecycle), which has no order.                                        *)
(***************************************************************************)
EXTENDS Naturals, Sequences, Lifecycle

ENTITY_CONFIGS ==
  [ units     |-> <<"standby", "running", "limited", "stopped">>,
    rules     |-> <<"draft", "active", "superseded", "retired">>,
    samples   |-> <<"collected", "testing", "verified", "invalid">>,
    decisions |-> <<"draft", "review", "accepted", "escalated">> ]

\* The server's graph behind each page.
GraphOf ==
  [ units     |-> CaptureUnitTransitions,
    rules     |-> PermitRuleTransitions,
    samples   |-> EmissionSampleTransitions,
    decisions |-> ComplianceDecisionTransitions ]

\* The status after current in the list: none for the last and for a status
\* the list does not have, otherwise the one element of the set.
nextStatus(current, statuses) ==
  {statuses[i + 1] : i \in {j \in 1..(Len(statuses) - 1) :
                              statuses[j] = current}}

=============================================================================
