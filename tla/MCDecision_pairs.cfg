\* Two concurrent requests of any kind from any role, on a decision in any
\* status or none, with failing statements and clients that guess versions.
SPECIFICATION Spec
CONSTANTS
  c1 = c1
  f1 = f1
  f2 = f2
  blank = blank
  Requests = {r1, r2}
  Codes = {c1}
  NoRow = NoRow
  Fields = {f1, f2, blank}
  ValidFields = {f1, f2}
  Statuses = {"draft", "review", "accepted", "escalated"}
  Operations = {"get", "create", "update", "transition", "delete"}
  Callers = {"viewer", "operator", "reviewer", "admin"}
  Lookahead = 1
  Faults = TRUE
  Seeds = {"absent", "draft", "review", "accepted"}
SYMMETRY Symmetry
INVARIANTS
  HistoryComplete
  ReviewerBoundary
  AcknowledgedWriteKept
  OneDeleteSucceeds
  RefusedLeavesNoTrace
  AnswerCoversItsVersion
  AcknowledgedIsAudited
  OutcomesInvariant
PROPERTIES
  HistoryIsFinal
