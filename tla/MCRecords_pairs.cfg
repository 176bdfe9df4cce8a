\* Two concurrent requests on one record of each kind, one kind not seeded,
\* with failing statements and clients that expect versions they have read.
SPECIFICATION Spec
CONSTANTS
  cu = cu
  pr = pr
  es = es
  f1 = f1
  f2 = f2
  blank = blank
  Requests = {r1, r2}
  Codes = {cu, pr, es}
  CaptureUnits = {cu}
  PermitRules = {pr}
  EmissionSamples = {es}
  NoRow = NoRow
  Fields = {f1, f2, blank}
  ValidFields = {f1, f2}
  Statuses = {"standby", "running", "limited", "stopped",
              "draft", "active", "superseded", "retired",
              "collected", "testing", "verified", "invalid"}
  Operations = {"get", "create", "update", "transition", "delete"}
  Callers = {"viewer", "operator", "admin"}
  Lookahead = 0
  Faults = TRUE
  Seeds = {"active", "verified", "collected"}
SYMMETRY Symmetry
INVARIANTS
  AnswersAreTrue
  AuditTellsTheTruth
  EditsKeepStatus
  RecordsInvariant
PROPERTIES
  OneLegalChangeAtATime
