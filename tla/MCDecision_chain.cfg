\* Three concurrent writers that expect versions they have read: enough for a
\* decision to be taken back to draft and edited behind a request that loaded it.
SPECIFICATION Spec
CONSTANTS
  c1 = c1
  f1 = f1
  f2 = f2
  blank = blank
  Requests = {r1, r2, r3}
  Codes = {c1}
  NoRow = NoRow
  Fields = {f1, f2}
  ValidFields = {f1, f2}
  Statuses = {"draft", "review", "accepted", "escalated"}
  Operations = {"update", "transition", "delete"}
  Callers = {"operator", "admin"}
  Lookahead = 0
  Faults = FALSE
  Seeds = {"draft", "review"}
SYMMETRY Symmetry
INVARIANTS
  LegalSuccession
  DecisionInvariant
  ConflictHasWinner
  AuditTellsTheTruth
PROPERTIES
  ImplementsLedger
