\* A client sends its next request before the answer to the last.
SPECIFICATION Spec
CONSTANTS
  c1 = c1
  f1 = f1
  f2 = f2
  blank = blank
  Requests = {r1, r2}
  Codes = {c1}
  NoRow = NoRow
  Fields = {f1, f2, blank}
  ValidFields = {f1, f2}
  Statuses = {"draft", "review", "accepted", "escalated"}
  Operations = {"get", "create", "update", "transition", "delete"}
  Callers = {"viewer", "operator", "reviewer", "admin"}
  Lookahead = 1
  Faults = FALSE
  Seeds = {"absent", "draft", "review", "accepted"}
SYMMETRY Symmetry
INVARIANTS
  ReviewNotSkipped
