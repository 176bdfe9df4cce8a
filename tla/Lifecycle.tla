----------------------------- MODULE Lifecycle -----------------------------
(***************************************************************************)
(* The status graphs of the four business records                          *)
(* (backend/internal/constants/status.go).  A graph maps a status to the   *)
(* set of statuses it may move to, as the nested Go maps do.               *)
(***************************************************************************)

CaptureUnitTransitions ==
  [ standby |-> {"running", "limited"},
    running |-> {"limited", "stopped", "standby"},
    limited |-> {"stopped", "running"},
    stopped |-> {"limited"} ]

PermitRuleTransitions ==
  [ draft      |-> {"active", "superseded"},
    active     |-> {"superseded", "retired", "draft"},
    superseded |-> {"retired", "active"},
    retired    |-> {"superseded"} ]

EmissionSampleTransitions ==
  [ collected |-> {"testing", "verified"},
    testing   |-> {"verified", "invalid", "collected"},
    verified  |-> {"invalid", "testing"},
    invalid   |-> {"verified"} ]

ComplianceDecisionTransitions ==
  [ draft     |-> {"review"},
    review    |-> {"accepted", "escalated", "draft"},
    accepted  |-> {"escalated", "review"},
    escalated |-> {"accepted"} ]

\* An unknown source status has no entry in the map, so nothing is allowed.
CanTransition(graph, from, to) ==
  /\ from \in DOMAIN graph
  /\ to \in graph[from]

=============================================================================
