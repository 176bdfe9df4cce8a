----------------------------- MODULE RateLimiter -----------------------------
(***************************************************************************)
(* The rate limiter every /api route is behind                             *)
(* (backend/internal/middleware/ratelimit.go): a counter per client, route *)
(* and minute in Redis, and one in memory that replaces it for a request   *)
(* whose Redis transaction returns an error.                               *)
(*                                                                         *)
(* A request takes three steps: the Redis key is named after the minute it *)
(* arrives in, the transaction is executed later, and the local counter    *)
(* reads the clock again, under its mutex.                                 *)
(***************************************************************************)
EXTENDS Naturals, FiniteSets

CONSTANTS
  Requests,    \* the requests of a behaviour
  Keys,        \* client address and route
  Limit,       \* how many requests a key has per minute
  CleanupAt,   \* the size of the local map from which it is cleaned up: 512
  LastMinute,  \* bound on the clock
  Redis        \* whether a Redis server is configured

ASSUME LimiterAssumptions ==
  /\ Limit \in Nat \ {0}
  /\ CleanupAt \in Nat \ {0}
  /\ LastMinute \in Nat
  /\ Redis \in BOOLEAN

VARIABLES
  minute,    \* the clock
  pc,        \* "idle", "redis", "local" or "done" for each request
  key,       \* its key
  stamp,     \* the minute its Redis key names
  counters,  \* Redis: the counter of each key and minute, 0 when it has none,
             \* and the minute its expiry was last set
  local,     \* Limiter.local: the bucket of some of the keys
  counted,   \* history: the counters that counted each request
  verdict    \* the count each request was judged by

vars == <<minute, pc, key, stamp, counters, local, counted, verdict>>

Minutes == 0..LastMinute

Backends == {"redis", "local"}

NoVerdict == [by |-> "none"]

Init ==
  /\ minute = 0
  /\ pc = [r \in Requests |-> "idle"]
  /\ key \in [Requests -> Keys]
  /\ stamp = [r \in Requests |-> 0]
  /\ counters = [k \in Keys |-> [w \in Minutes |-> [count |-> 0, touched |-> w]]]
  /\ local = [k \in {} |-> [window |-> 0, count |-> 0]]
  /\ counted = [r \in Requests |-> {}]
  /\ verdict = [r \in Requests |-> NoVerdict]

Goto(r, step) == pc' = [pc EXCEPT ![r] = step]

Count(r, by, window) ==
  counted' = [counted EXCEPT ![r] = @ \cup {[by |-> by, window |-> window]}]

\* Over the limit is 429; any other request goes on.
Judge(r, by, window, count) ==
  /\ verdict' = [verdict EXCEPT ![r] = [by |-> by, window |-> window,
                                        count |-> count]]
  /\ Goto(r, "done")

-----------------------------------------------------------------------------
(* Redis *)

Arrive(r) ==
  /\ pc[r] = "idle"
  /\ stamp' = [stamp EXCEPT ![r] = minute]
  /\ Goto(r, IF Redis THEN "redis" ELSE "local")
  /\ UNCHANGED <<minute, key, counters, local, counted, verdict>>

\* INCR and EXPIRE, between MULTI and EXEC.
Execute(r) ==
  /\ counters' = [counters EXCEPT ![key[r]][stamp[r]] =
                    [count |-> @.count + 1, touched |-> minute]]
  /\ Count(r, "redis", stamp[r])

Increment(r) ==
  /\ pc[r] = "redis"
  /\ Execute(r)
  /\ Judge(r, "redis", stamp[r], counters[key[r]][stamp[r]].count + 1)
  /\ UNCHANGED <<minute, key, stamp, local>>

\* The connection fails after the transaction or before it, or the client
\* goes away: the limiter can not tell which.
IncrementFails(r) ==
  /\ pc[r] = "redis"
  /\ Execute(r) \/ UNCHANGED <<counters, counted>>
  /\ Goto(r, "local")
  /\ UNCHANGED <<minute, key, stamp, local, verdict>>

\* Mutant: EXPIRE after one minute.
ExpireSoon(k, w) ==
  /\ counters[k][w].count > 0
  /\ counters[k][w].touched + 1 <= minute
  /\ counters' = [counters EXCEPT ![k][w].count = 0]
  /\ UNCHANGED <<minute, pc, key, stamp, local, counted, verdict>>

\* Two minutes after the last EXPIRE.
Expire(k, w) ==
  /\ counters[k][w].count > 0
  /\ counters[k][w].touched + 2 <= minute
  /\ counters' = [counters EXCEPT ![k][w].count = 0]
  /\ UNCHANGED <<minute, pc, key, stamp, local, counted, verdict>>

-----------------------------------------------------------------------------
(* The local map *)

\* Mutant: len(l.local) <= 512.
KeptOneMore ==
  IF Cardinality(DOMAIN local) <= CleanupAt
  THEN DOMAIN local
  ELSE {k \in DOMAIN local : ~(local[k].window < minute)}

\* The keys cleanupLocal leaves.
Kept ==
  IF Cardinality(DOMAIN local) < CleanupAt
  THEN DOMAIN local
  ELSE {k \in DOMAIN local : ~(local[k].window < minute)}

\* Mutant: a bucket is never started anew.
SumOf(k, now) == IF k \in Kept THEN local[k].count ELSE 0

\* The count of the bucket of this minute.
CountOf(k, now) ==
  IF k \in Kept /\ local[k].window = now THEN local[k].count ELSE 0

Store(k, bucket) ==
  local' = [j \in Kept \cup {k} |-> IF j = k THEN bucket ELSE local[j]]

\* Mutant: the clock is read before the mutex is taken.
IncrementLocalLate(r) ==
  /\ pc[r] = "local"
  /\ LET count == CountOf(key[r], stamp[r]) + 1 IN
       /\ Store(key[r], [window |-> stamp[r], count |-> count])
       /\ Count(r, "local", stamp[r])
       /\ Judge(r, "local", stamp[r], count)
  /\ UNCHANGED <<minute, key, stamp, counters>>

IncrementLocal(r) ==
  /\ pc[r] = "local"
  /\ LET count == CountOf(key[r], minute) + 1 IN
       /\ Store(key[r], [window |-> minute, count |-> count])
       /\ Count(r, "local", minute)
       /\ Judge(r, "local", minute, count)
  /\ UNCHANGED <<minute, key, stamp, counters>>

-----------------------------------------------------------------------------

\* The client's time limits are seconds: when a minute ends, every request
\* at Redis has arrived in it.
Tick ==
  /\ minute < LastMinute
  /\ \A r \in Requests : pc[r] = "redis" => stamp[r] = minute
  /\ minute' = minute + 1
  /\ UNCHANGED <<pc, key, stamp, counters, local, counted, verdict>>

\* The bounds are reached.
Over ==
  /\ minute = LastMinute
  /\ \A r \in Requests : pc[r] = "done"
  /\ UNCHANGED vars

Next ==
  \/ \E r \in Requests :
       Arrive(r) \/ Increment(r) \/ IncrementFails(r) \/ IncrementLocal(r)
  \/ \E k \in Keys, w \in Minutes : Expire(k, w)
  \/ Tick
  \/ Over

Spec == Init /\ [][Next]_vars

-----------------------------------------------------------------------------
(* Properties *)

\* Every variable has its type, and no bucket is empty or of a minute to come.
TypeOK ==
  /\ minute \in Minutes
  /\ pc \in [Requests -> {"idle", "redis", "local", "done"}]
  /\ key \in [Requests -> Keys]
  /\ stamp \in [Requests -> Minutes]
  /\ counters \in [Keys -> [Minutes -> [count: Nat, touched: Minutes]]]
  /\ DOMAIN local \subseteq Keys
  /\ local \in [DOMAIN local -> [window: 0..minute, count: Nat \ {0}]]
  /\ counted \in [Requests -> SUBSET [by: Backends, window: Minutes]]
  /\ verdict \in [Requests -> {NoVerdict} \cup
                    [by: Backends, window: Minutes, count: Nat \ {0}]]

CountedBy(by, k, w) ==
  {r \in Requests : key[r] = k /\ [by |-> by, window |-> w] \in counted[r]}

AdmittedBy(by, k, w) ==
  {r \in Requests :
     /\ key[r] = k
     /\ verdict[r].by = by /\ verdict[r].window = w
     /\ verdict[r].count <= Limit}

\* Redis admits at most Limit requests of a key and minute, although a
\* request may execute its transaction in the minute after the one its
\* counter is named after and counters expire.
RedisWithinLimit ==
  \A k \in Keys, w \in Minutes : Cardinality(AdmittedBy("redis", k, w)) <= Limit

\* The local counter admits at most Limit requests of a key and minute:
\* requests that began in different minutes take turns at one bucket, and
\* neither restarts the count of the other, nor does a cleanup.
LocalWithinLimit ==
  \A k \in Keys, w \in Minutes : Cardinality(AdmittedBy("local", k, w)) <= Limit

\* A request is refused only when more than Limit requests of its key were
\* counted by the same counter in the same minute.
RefusedOnlyOverLimit ==
  \A r \in Requests :
    pc[r] = "done" /\ verdict[r].count > Limit
      => Cardinality(CountedBy(verdict[r].by, key[r], verdict[r].window)) > Limit

\* The map outgrows CleanupAt only with buckets of one minute: what a past
\* minute left behind is bounded.
StaleBucketsBounded ==
  Cardinality(DOMAIN local) > CleanupAt =>
    \A j, k \in DOMAIN local : local[j].window = local[k].window

-----------------------------------------------------------------------------
(* The inductive invariant *)

\* A request reaches Redis in the minute its key names or the next one, is
\* counted there before it is counted locally, and is judged last.
OrderOf(r) ==
  /\ stamp[r] <= minute
  /\ pc[r] = "redis" => minute <= stamp[r] + 1
  /\ pc[r] \in {"idle", "redis"} => counted[r] = {}
  /\ \A c \in counted[r] : pc[r] = "local" => c.by = "redis"
  /\ pc[r] = "done" <=> verdict[r] # NoVerdict

\* No counter was set to expire before its minute was over.
ExpiryOK == \A k \in Keys, w \in Minutes : w <= counters[k][w].touched

\* A counter has reached every count it gave a verdict by, unless its minute
\* is over.
ReachedBy(r) ==
  /\ verdict[r].by = "redis" =>
       \/ verdict[r].window + 2 <= minute
       \/ verdict[r].count <= counters[key[r]][verdict[r].window].count
  /\ verdict[r].by = "local" =>
       \/ verdict[r].window < minute
       \/ /\ verdict[r].window = minute
          /\ key[r] \in DOMAIN local
          /\ local[key[r]].window = minute
          /\ verdict[r].count <= local[key[r]].count

SameCounter(r, s) ==
  /\ key[r] = key[s]
  /\ verdict[r].by = verdict[s].by
  /\ verdict[r].window = verdict[s].window

\* No two requests are judged by the same count of the same counter.
VerdictsDiffer ==
  \A r, s \in Requests :
    /\ r # s /\ verdict[r] # NoVerdict /\ verdict[s] # NoVerdict
    /\ SameCounter(r, s)
    => verdict[r].count # verdict[s].count

\* No count exceeds the requests counted.
CountsBacked ==
  /\ \A k \in Keys, w \in Minutes :
       counters[k][w].count <= Cardinality(CountedBy("redis", k, w))
  /\ \A k \in DOMAIN local :
       local[k].count <= Cardinality(CountedBy("local", k, local[k].window))
  /\ \A r \in Requests : verdict[r] # NoVerdict =>
       verdict[r].count <=
         Cardinality(CountedBy(verdict[r].by, key[r], verdict[r].window))

FinitelyMany ==
  /\ IsFiniteSet(DOMAIN local)
  /\ \A by \in Backends, k \in Keys, w \in Minutes :
       IsFiniteSet(CountedBy(by, k, w))

\* What every step preserves: each counter numbers the requests it counts
\* one after the other, as long as requests may still reach it.
LimiterInvariant ==
  /\ TypeOK /\ ExpiryOK
  /\ \A r \in Requests : OrderOf(r) /\ ReachedBy(r)
  /\ VerdictsDiffer /\ CountsBacked /\ FinitelyMany

=============================================================================
