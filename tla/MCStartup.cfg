\* Two instances and two crashes or outages, one resource table and the
\* decisions, each with two seeded codes and a client's.
SPECIFICATION FairSpec
CONSTANTS
  i1 = i1
  i2 = i2
  s1 = s1
  s2 = s2
  o1 = o1
  Instances = {i1, i2}
  Decisions = 2
  SeedCodes = {s1, s2}
  ClientCodes = {o1}
  Attempts = 2
  Crashes = 2
INVARIANTS
  TypeOK
  DecisionsHaveHistory
  ServingIsSeeded
PROPERTIES
  DeletedStaysDeleted
  EventuallyServing
