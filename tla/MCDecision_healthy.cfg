\* No statement fails: every change is audited and every request answered.
SPECIFICATION FairSpec
CONSTANTS
  c1 = c1
  f1 = f1
  f2 = f2
  blank = blank
  Requests = {r1, r2}
  Codes = {c1}
  NoRow = NoRow
  Fields = {f1}
  ValidFields = {f1}
  Statuses = {"draft", "review", "accepted", "escalated"}
  Operations = {"get", "create", "update", "transition", "delete"}
  Callers = {"operator", "admin"}
  Lookahead = 0
  Faults = FALSE
  Seeds = {"absent", "draft", "review", "accepted"}
INVARIANTS
  EveryChangeAudited
PROPERTIES
  EveryRequestAnswered
