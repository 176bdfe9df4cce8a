\* Three requests of up to three keys over three minutes, one per minute and
\* key allowed: counters in use, of the past minute and expired.
SPECIFICATION Spec
CONSTANTS
  r1 = r1
  r2 = r2
  r3 = r3
  k1 = k1
  k2 = k2
  k3 = k3
  Requests = {r1, r2, r3}
  Keys = {k1, k2, k3}
  Limit = 1
  CleanupAt = 2
  LastMinute = 2
  Redis = TRUE
SYMMETRY Symmetry
INVARIANTS
  RedisWithinLimit
  LocalWithinLimit
  RefusedOnlyOverLimit
  StaleBucketsBounded
  LimiterInvariant
