\* A tab and another client, two requests in all on one decision, lists asked
\* for again and again.  The user may stop at any time.
SPECIFICATION WorkbenchSpec
CONSTANTS
  c1 = c1
  f1 = f1
  f2 = f2
  m1 = m1
  m2 = m2
  q1 = q1
  q2 = q2
  Requests = {m1, m2, r1}
  Moves = {m1, m2}
  Queries = {q1}
  Losses = TRUE
  MaxRequests = 2
  MaxCalls = 2
  OnlyChanges = TRUE
  NoDialog = NoDialog
  Codes = {c1}
  NoRow = NoRow
  Fields = {f1}
  ValidFields = {f1}
  Statuses = {"draft", "review", "accepted", "escalated"}
  Operations = {"update", "transition", "create", "delete"}
  Callers = {"operator", "admin"}
  Lookahead = 0
  Faults = FALSE
  Seeds = {"absent", "draft"}
SYMMETRY Symmetry
CHECK_DEADLOCK FALSE
INVARIANTS
  ShownIsHistory
  ConfirmedIsDone
  RefusalMeansMoved
  LoadingMeansCall
  WorkbenchInvariant
PROPERTIES
  ReadsBeforeItWrites
