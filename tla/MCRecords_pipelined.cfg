\* A client sends its next request before the answer to the last.
SPECIFICATION Spec
CONSTANTS
  cu = cu
  pr = pr
  es = es
  f1 = f1
  f2 = f2
  blank = blank
  Requests = {r1, r2}
  Codes = {cu, pr, es}
  CaptureUnits = {cu}
  PermitRules = {pr}
  EmissionSamples = {es}
  NoRow = NoRow
  Fields = {f1, f2, blank}
  ValidFields = {f1, f2}
  Statuses = {"standby", "running", "limited", "stopped",
              "draft", "active", "superseded", "retired",
              "collected", "testing", "verified", "invalid"}
  Operations = {"update", "transition"}
  Callers = {"operator"}
  Lookahead = 1
  Faults = FALSE
  Seeds = {"standby"}
SYMMETRY Symmetry
INVARIANTS
  EditsKeepStatus
