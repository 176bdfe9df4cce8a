\* Up to four rows read in pages of one or two, or up to four audit entries
\* summed up, some of them from before the window.
SPECIFICATION Spec
CONSTANTS
  LastId = 4
  LastTime = 2
  Asked = {1, 2}
  Entries <- AuditEntries
  Since = 1
CHECK_DEADLOCK FALSE
INVARIANTS
  TypeOK
  NothingSkipped
  SummaryAddsUp
