------------------------- MODULE RateLimiterProofs -------------------------
(***************************************************************************)
(* Theorems about the rate limiter, for any number of requests, keys and   *)
(* minutes, any limit and any size of the local map.                       *)
(***************************************************************************)
EXTENDS RateLimiter, FiniteSetTheorems, TLAPS

USE LimiterAssumptions

-----------------------------------------------------------------------------
(* What each action does to the counters *)

Verdicts == [by: Backends, window: Minutes, count: Nat \ {0}]

\* A bucket has a window no later than now and counts someone.
LEMMA BucketType ==
  ASSUME TypeOK, NEW k \in DOMAIN local
  PROVE  /\ k \in Keys /\ local[k] \in [window: 0..minute, count: Nat \ {0}]
         /\ local[k].window \in Minutes /\ local[k].window <= minute
         /\ local[k].count \in Nat \ {0}
<1>1. k \in Keys /\ local[k] \in [window: 0..minute, count: Nat \ {0}]
  BY DEF TypeOK
<1>2. local[k].window \in 0..minute /\ local[k].count \in Nat \ {0}
  BY <1>1
<1> QED
  BY <1>1, <1>2 DEF TypeOK, Minutes

LEMMA ExecuteEffect ==
  ASSUME TypeOK, NEW r \in Requests, Execute(r),
         NEW k, k = key[r], NEW w, w = stamp[r]
  PROVE  /\ k \in Keys /\ w \in Minutes
         /\ counters' \in [Keys -> [Minutes -> [count: Nat, touched: Minutes]]]
         /\ counters'[k][w].count = counters[k][w].count + 1
         /\ counters'[k][w].touched = minute
         /\ \A j \in Keys, x \in Minutes :
              j # k \/ x # w => counters'[j][x] = counters[j][x]
<1>1. k \in Keys /\ w \in Minutes /\ minute \in Minutes
  BY DEF TypeOK
<1>2. counters[k] \in [Minutes -> [count: Nat, touched: Minutes]]
  BY <1>1 DEF TypeOK
<1>3. counters[k][w] \in [count: Nat, touched: Minutes]
  BY <1>1, <1>2
<1> DEFINE new == [count |-> counters[k][w].count + 1, touched |-> minute]
           row == [counters[k] EXCEPT ![w] = new]
<1>4. new \in [count: Nat, touched: Minutes]
  BY <1>1, <1>3
<1>5. /\ new.count = counters[k][w].count + 1 /\ new.touched = minute
  OBVIOUS
<1>6. counters' = [counters EXCEPT ![k] = row]
  BY DEF Execute
<1> HIDE DEF new
<1>7. /\ row \in [Minutes -> [count: Nat, touched: Minutes]] /\ row[w] = new
      /\ \A x \in Minutes : x # w => row[x] = counters[k][x]
  BY <1>1, <1>2, <1>4
<1> HIDE DEF row
<1>8. /\ counters' \in [Keys -> [Minutes -> [count: Nat, touched: Minutes]]]
      /\ counters'[k] = row
      /\ \A j \in Keys : j # k => counters'[j] = counters[j]
  BY <1>1, <1>6, <1>7 DEF TypeOK
<1> QED
  BY <1>1, <1>5, <1>7, <1>8

LEMMA ExpireEffect ==
  ASSUME TypeOK, NEW k \in Keys, NEW w \in Minutes, Expire(k, w)
  PROVE  /\ counters' \in [Keys -> [Minutes -> [count: Nat, touched: Minutes]]]
         /\ counters'[k][w].count = 0
         /\ counters'[k][w].touched = counters[k][w].touched
         /\ \A j \in Keys, x \in Minutes :
              j # k \/ x # w => counters'[j][x] = counters[j][x]
<1>2. counters[k] \in [Minutes -> [count: Nat, touched: Minutes]]
  BY DEF TypeOK
<1>3. counters[k][w] \in [count: Nat, touched: Minutes]
  BY <1>2
<1> DEFINE new == [counters[k][w] EXCEPT !.count = 0]
           row == [counters[k] EXCEPT ![w] = new]
<1>4. /\ new \in [count: Nat, touched: Minutes]
      /\ new.count = 0 /\ new.touched = counters[k][w].touched
  BY <1>3
<1>6. counters' = [counters EXCEPT ![k] = row]
  BY DEF Expire
<1> HIDE DEF new
<1>7. /\ row \in [Minutes -> [count: Nat, touched: Minutes]] /\ row[w] = new
      /\ \A x \in Minutes : x # w => row[x] = counters[k][x]
  BY <1>2, <1>4
<1> HIDE DEF row
<1>8. /\ counters' \in [Keys -> [Minutes -> [count: Nat, touched: Minutes]]]
      /\ counters'[k] = row
      /\ \A j \in Keys : j # k => counters'[j] = counters[j]
  BY <1>6, <1>7 DEF TypeOK
<1> QED
  BY <1>4, <1>7, <1>8

\* The bucket a request counts itself in is of this minute, and its count one
\* more than that of the bucket of this minute it found.
LEMMA StoreEffect ==
  ASSUME TypeOK, NEW k \in Keys, NEW n, n = CountOf(k, minute) + 1,
         Store(k, [window |-> minute, count |-> n])
  PROVE  /\ n \in Nat \ {0}
         /\ \/ n = 1
            \/ k \in DOMAIN local /\ local[k].window = minute /\ n = local[k].count + 1
         /\ k \in DOMAIN local /\ local[k].window = minute => n = local[k].count + 1
         /\ DOMAIN local' = Kept \cup {k} /\ Kept \subseteq DOMAIN local
         /\ local'[k].window = minute /\ local'[k].count = n
         /\ \A j \in Kept : j # k => local'[j] = local[j]
         /\ \A j \in DOMAIN local : local[j].window = minute => j \in Kept
         /\ local' \in [DOMAIN local' -> [window: 0..minute, count: Nat \ {0}]]
<1> DEFINE bucket == [window |-> minute, count |-> n]
<1>1. Kept \subseteq DOMAIN local
  BY DEF Kept
<1>2. \A j \in DOMAIN local : local[j].window = minute => j \in Kept
  <2> SUFFICES ASSUME NEW j \in DOMAIN local, local[j].window = minute
               PROVE  j \in Kept
    OBVIOUS
  <2>1. ~(local[j].window < minute)
    BY DEF TypeOK, Minutes
  <2> QED
    BY <2>1 DEF Kept
<1>3. k \in DOMAIN local /\ local[k].window = minute =>
        n = local[k].count + 1
  BY <1>2 DEF CountOf
<1>4. ~(k \in DOMAIN local /\ local[k].window = minute) => n = 1
  BY <1>1 DEF CountOf
<1>5. n \in Nat \ {0}
  BY <1>3, <1>4, BucketType
<1>6. bucket \in [window: 0..minute, count: Nat \ {0}]
  BY <1>5 DEF TypeOK, Minutes
<1>7. bucket.window = minute /\ bucket.count = n
  OBVIOUS
<1>8. local' = [j \in Kept \cup {k} |-> IF j = k THEN bucket ELSE local[j]]
  BY DEF Store
<1> HIDE DEF bucket
<1>9. /\ DOMAIN local' = Kept \cup {k} /\ local'[k] = bucket
      /\ \A j \in Kept : j # k => local'[j] = local[j]
  BY <1>8
<1>10. \A j \in Kept : local[j] \in [window: 0..minute, count: Nat \ {0}]
  BY <1>1, BucketType
<1>11. local' \in [DOMAIN local' -> [window: 0..minute, count: Nat \ {0}]]
  BY <1>6, <1>8, <1>9, <1>10
<1> QED
  BY <1>1, <1>2, <1>3, <1>4, <1>5, <1>7, <1>9, <1>11

-----------------------------------------------------------------------------
(* A step is one of these *)

OthersLeft(s) ==
  \A r \in Requests \ {s} :
    /\ pc'[r] = pc[r] /\ stamp'[r] = stamp[r]
    /\ counted'[r] = counted[r] /\ verdict'[r] = verdict[r]

Arrived(s) ==
  /\ UNCHANGED <<minute, key, counters, local, counted, verdict>>
  /\ pc[s] = "idle" /\ pc'[s] \in {"redis", "local"} /\ stamp'[s] = minute

\* Counted by Redis, and judged or not.
CountedAtRedis(s) ==
  /\ UNCHANGED <<minute, key, stamp, local>>
  /\ pc[s] = "redis" /\ Execute(s)
  /\ \/ /\ pc'[s] = "done"
        /\ verdict'[s] = [by |-> "redis", window |-> stamp[s],
                          count |-> counters[key[s]][stamp[s]].count + 1]
     \/ pc'[s] = "local" /\ verdict'[s] = verdict[s]

NotCounted(s) ==
  /\ UNCHANGED <<minute, key, stamp, counters, local, counted, verdict>>
  /\ pc[s] = "redis" /\ pc'[s] = "local"

CountedLocally(s) ==
  /\ UNCHANGED <<minute, key, stamp, counters>>
  /\ pc[s] = "local" /\ pc'[s] = "done"
  /\ \E n \in {CountOf(key[s], minute) + 1} :
       /\ Store(key[s], [window |-> minute, count |-> n])
       /\ verdict'[s] = [by |-> "local", window |-> minute, count |-> n]
  /\ Count(s, "local", minute)

Progress(s) ==
  /\ OthersLeft(s)
  /\ Arrived(s) \/ CountedAtRedis(s) \/ NotCounted(s) \/ CountedLocally(s)

\* The functions of requests still are.
ShapeKept ==
  /\ pc' \in [Requests -> {"idle", "redis", "local", "done"}]
  /\ stamp' \in [Requests -> Minutes]
  /\ counted' = [r \in Requests |-> counted'[r]]
  /\ verdict' = [r \in Requests |-> verdict'[r]]

LEMMA StepOfOne ==
  ASSUME TypeOK, [Next]_vars
  PROVE  \/ UNCHANGED vars
         \/ \E s \in Requests : Progress(s) /\ ShapeKept
         \/ \E k \in Keys, w \in Minutes : Expire(k, w)
         \/ Tick
<1>1. ASSUME NEW s \in Requests,
             Arrive(s) \/ Increment(s) \/ IncrementFails(s) \/ IncrementLocal(s)
      PROVE  Progress(s) /\ ShapeKept
  <2>1. CASE Arrive(s)
    BY <2>1 DEF Arrive, Goto, TypeOK, OthersLeft, Arrived, Progress, ShapeKept
  <2>2. CASE Increment(s)
    BY <2>2 DEF Increment, Execute, Count, Judge, Goto, TypeOK, OthersLeft,
                CountedAtRedis, Progress, ShapeKept
  <2>3. CASE IncrementFails(s)
    BY <2>3 DEF IncrementFails, Execute, Count, Goto, TypeOK, OthersLeft,
                CountedAtRedis, NotCounted, Progress, ShapeKept
  <2>4. CASE IncrementLocal(s)
    <3>1. PICK n : n = CountOf(key[s], minute) + 1
      OBVIOUS
    <3>2. /\ Store(key[s], [window |-> minute, count |-> n])
          /\ Count(s, "local", minute) /\ Judge(s, "local", minute, n)
          /\ pc[s] = "local" /\ UNCHANGED <<minute, key, stamp, counters>>
      BY <2>4, <3>1 DEF IncrementLocal
    <3>3. ShapeKept
      BY <3>2 DEF Count, Judge, Goto, TypeOK, ShapeKept
    <3>4. OthersLeft(s) /\ CountedLocally(s)
      BY <3>1, <3>2 DEF Count, Judge, Goto, TypeOK, OthersLeft, CountedLocally
    <3> QED
      BY <3>3, <3>4 DEF Progress
  <2> QED
    BY <1>1, <2>1, <2>2, <2>3, <2>4
<1> QED
  BY <1>1 DEF Next, Over

-----------------------------------------------------------------------------
(* Counting *)

\* A request not yet counted by a counter adds one to those counted by it, and
\* nothing to those counted by any other.
LEMMA CountEffect ==
  ASSUME TypeOK, FinitelyMany, UNCHANGED key, NEW r \in Requests,
         NEW by \in Backends, NEW w \in Minutes, Count(r, by, w),
         [by |-> by, window |-> w] \notin counted[r],
         NEW b \in Backends, NEW k \in Keys, NEW x \in Minutes
  PROVE  /\ IsFiniteSet(CountedBy(b, k, x)')
         /\ Cardinality(CountedBy(b, k, x)) \in Nat
         /\ IF b = by /\ k = key[r] /\ x = w
            THEN Cardinality(CountedBy(b, k, x)') = Cardinality(CountedBy(b, k, x)) + 1
            ELSE CountedBy(b, k, x)' = CountedBy(b, k, x)
<1> DEFINE c == [by |-> by, window |-> w]
           d == [by |-> b, window |-> x]
<1>1. /\ counted'[r] = counted[r] \cup {c}
      /\ \A s \in Requests : s # r => counted'[s] = counted[s]
  BY DEF Count, TypeOK
<1>2. IsFiniteSet(CountedBy(b, k, x))
  BY DEF FinitelyMany
<1>3. Cardinality(CountedBy(b, k, x)) \in Nat
  BY <1>2, FS_CardinalityType
<1>4. c = d <=> b = by /\ x = w
  OBVIOUS
<1>5. CASE b = by /\ k = key[r] /\ x = w
  <2>1. r \notin CountedBy(b, k, x)
    BY <1>5 DEF CountedBy
  <2>2. CountedBy(b, k, x)' = CountedBy(b, k, x) \cup {r}
    <3> SUFFICES ASSUME NEW s
                 PROVE  s \in CountedBy(b, k, x)' <=> s \in CountedBy(b, k, x) \cup {r}
      OBVIOUS
    <3> HIDE DEF c, d
    <3>1. c = d
      BY <1>4, <1>5
    <3>2. CountedBy(b, k, x) = {q \in Requests : key[q] = k /\ d \in counted[q]}
      BY DEF CountedBy, d
    <3>3. CountedBy(b, k, x)' = {q \in Requests : key[q] = k /\ d \in counted'[q]}
      BY DEF CountedBy, d
    <3> QED
      BY <1>1, <1>5, <3>1, <3>2, <3>3
  <2>3. /\ IsFiniteSet(CountedBy(b, k, x) \cup {r})
        /\ Cardinality(CountedBy(b, k, x) \cup {r}) = Cardinality(CountedBy(b, k, x)) + 1
    BY <1>2, <2>1, FS_AddElement
  <2> QED
    BY <1>3, <1>5, <2>2, <2>3
<1>6. CASE ~(b = by /\ k = key[r] /\ x = w)
  <2>1. CountedBy(b, k, x)' = CountedBy(b, k, x)
    <3> HIDE DEF c, d
    <3>1. c = d => k # key[r]
      BY <1>4, <1>6
    <3>2. CountedBy(b, k, x) = {q \in Requests : key[q] = k /\ d \in counted[q]}
      BY DEF CountedBy, d
    <3>3. CountedBy(b, k, x)' = {q \in Requests : key[q] = k /\ d \in counted'[q]}
      BY DEF CountedBy, d
    <3> QED
      BY <1>1, <3>1, <3>2, <3>3
  <2> QED
    BY <1>2, <1>3, <1>6, <2>1
<1> QED
  BY <1>5, <1>6

\* A request at a counter has not been counted by it.
LEMMA Uncounted ==
  ASSUME NEW r \in Requests, OrderOf(r), NEW w
  PROVE  /\ pc[r] = "redis" => [by |-> "redis", window |-> w] \notin counted[r]
         /\ pc[r] = "local" => [by |-> "local", window |-> w] \notin counted[r]
<1> DEFINE c == [by |-> "local", window |-> w]
<1>1. c.by = "local"
  OBVIOUS
<1> HIDE DEF c
<1>2. pc[r] = "local" => c \notin counted[r]
  BY <1>1 DEF OrderOf
<1>3. pc[r] = "redis" => [by |-> "redis", window |-> w] \notin counted[r]
  BY DEF OrderOf
<1> QED
  BY <1>2, <1>3 DEF c

-----------------------------------------------------------------------------
(* The parts of the invariant *)

LEMMA TypeStep == LimiterInvariant /\ [Next]_vars => TypeOK'
<1> SUFFICES ASSUME LimiterInvariant, [Next]_vars PROVE TypeOK'
  OBVIOUS
<1>0. TypeOK /\ minute \in Minutes
  BY DEF LimiterInvariant, TypeOK
<1>1. CASE UNCHANGED vars
  BY <1>0, <1>1 DEF vars, TypeOK
<1>2. ASSUME NEW s \in Requests, Progress(s), ShapeKept PROVE TypeOK'
  <2>1. CASE Arrived(s)
    BY <1>0, <1>2, <2>1 DEF Arrived, OthersLeft, Progress, ShapeKept, TypeOK
  <2>2. CASE NotCounted(s)
    BY <1>0, <1>2, <2>2 DEF NotCounted, OthersLeft, Progress, ShapeKept, TypeOK
  <2>3. CASE CountedAtRedis(s)
    <3>1. PICK k, w : k = key[s] /\ w = stamp[s]
      OBVIOUS
    <3>2. Execute(s) /\ UNCHANGED <<minute, key, stamp, local>>
      BY <2>3 DEF CountedAtRedis
    <3>3. /\ k \in Keys /\ w \in Minutes
          /\ counters' \in [Keys -> [Minutes -> [count: Nat, touched: Minutes]]]
      BY <1>0, <3>1, <3>2, ExecuteEffect
    <3>4. counters[k][w].count + 1 \in Nat \ {0}
      BY <1>0, <3>3 DEF TypeOK
    <3>5. verdict'[s] \in {NoVerdict} \cup Verdicts
      BY <1>0, <2>3, <3>1, <3>3, <3>4 DEF CountedAtRedis, TypeOK, Verdicts, Backends
    <3>6. counted'[s] \in SUBSET [by: Backends, window: Minutes]
      BY <1>0, <3>1, <3>2, <3>3 DEF Execute, Count, TypeOK, Backends
    <3>7. counted' \in [Requests -> SUBSET [by: Backends, window: Minutes]]
      BY <1>0, <1>2, <3>6 DEF Progress, OthersLeft, ShapeKept, TypeOK
    <3>8. verdict' \in [Requests -> {NoVerdict} \cup Verdicts]
      BY <1>0, <1>2, <3>5 DEF Progress, OthersLeft, ShapeKept, TypeOK, Verdicts
    <3> QED
      BY <1>0, <1>2, <3>2, <3>3, <3>7, <3>8 DEF ShapeKept, TypeOK, Verdicts
  <2>4. CASE CountedLocally(s)
    <3>1. PICK k, n : /\ k = key[s] /\ n = CountOf(k, minute) + 1
                      /\ Store(k, [window |-> minute, count |-> n])
                      /\ verdict'[s] = [by |-> "local", window |-> minute, count |-> n]
      BY <2>4 DEF CountedLocally
    <3>2. k \in Keys
      BY <1>0, <3>1 DEF TypeOK
    <3>3. /\ n \in Nat \ {0}
          /\ DOMAIN local' = Kept \cup {k} /\ Kept \subseteq DOMAIN local
          /\ local' \in [DOMAIN local' -> [window: 0..minute, count: Nat \ {0}]]
      BY <1>0, <3>1, <3>2, StoreEffect
    <3>4. DOMAIN local' \subseteq Keys
      BY <1>0, <3>2, <3>3 DEF TypeOK
    <3>5. verdict'[s] \in Verdicts
      BY <1>0, <3>1, <3>3 DEF Verdicts, Backends
    <3>6. counted'[s] \in SUBSET [by: Backends, window: Minutes]
      BY <1>0, <2>4 DEF CountedLocally, Count, TypeOK, Backends
    <3>7. counted' \in [Requests -> SUBSET [by: Backends, window: Minutes]]
      BY <1>0, <1>2, <3>6 DEF Progress, OthersLeft, ShapeKept, TypeOK
    <3>8. verdict' \in [Requests -> {NoVerdict} \cup Verdicts]
      BY <1>0, <1>2, <3>5 DEF Progress, OthersLeft, ShapeKept, TypeOK, Verdicts
    <3>9. UNCHANGED <<minute, key, stamp, counters>>
      BY <2>4 DEF CountedLocally
    <3> QED
      BY <1>0, <1>2, <3>3, <3>4, <3>7, <3>8, <3>9 DEF ShapeKept, TypeOK, Verdicts
  <2> QED
    BY <1>2, <2>1, <2>2, <2>3, <2>4 DEF Progress
<1>3. ASSUME NEW k \in Keys, NEW w \in Minutes, Expire(k, w) PROVE TypeOK'
  <2>1. counters' \in [Keys -> [Minutes -> [count: Nat, touched: Minutes]]]
    BY <1>0, <1>3, ExpireEffect
  <2> QED
    BY <1>0, <1>3, <2>1 DEF Expire, TypeOK
<1>4. CASE Tick
  <2>1. minute' \in Minutes /\ 0..minute \subseteq 0..minute'
    BY <1>0, <1>4 DEF Tick, Minutes
  <2>2. [window: 0..minute, count: Nat \ {0}] \subseteq
          [window: 0..minute', count: Nat \ {0}]
    BY <2>1
  <2>3. local \in [DOMAIN local -> [window: 0..minute', count: Nat \ {0}]]
    BY <1>0, <2>2 DEF TypeOK
  <2> QED
    BY <1>0, <1>4, <2>1, <2>3 DEF Tick, TypeOK
<1> QED
  BY <1>0, <1>1, <1>2, <1>3, <1>4, StepOfOne

LEMMA ExpiryStep == LimiterInvariant /\ [Next]_vars => ExpiryOK'
<1> SUFFICES ASSUME LimiterInvariant, [Next]_vars,
                    NEW k \in Keys, NEW w \in Minutes
             PROVE  w <= counters'[k][w].touched
  BY DEF ExpiryOK
<1>0. TypeOK /\ w <= counters[k][w].touched
  BY DEF LimiterInvariant, ExpiryOK
<1>1. CASE counters' = counters
  BY <1>0, <1>1
<1>2. ASSUME NEW s \in Requests, CountedAtRedis(s)
      PROVE  w <= counters'[k][w].touched
  <2>1. PICK j, x : j = key[s] /\ x = stamp[s]
    OBVIOUS
  <2>2. Execute(s)
    BY <1>2 DEF CountedAtRedis
  <2>3. /\ counters'[j][x].touched = minute
        /\ k # j \/ w # x => counters'[k][w] = counters[k][w]
    BY <1>0, <2>1, <2>2, ExecuteEffect
  <2>4. x <= minute
    BY <2>1 DEF LimiterInvariant, OrderOf
  <2> QED
    BY <1>0, <2>3, <2>4
<1>3. ASSUME NEW j \in Keys, NEW x \in Minutes, Expire(j, x)
      PROVE  w <= counters'[k][w].touched
  <2>1. /\ counters'[j][x].touched = counters[j][x].touched
        /\ k # j \/ w # x => counters'[k][w] = counters[k][w]
    BY <1>0, <1>3, ExpireEffect
  <2> QED
    BY <1>0, <2>1
<1> QED
  BY <1>0, <1>1, <1>2, <1>3, StepOfOne
  DEF vars, Progress, Arrived, NotCounted, CountedLocally, Tick

\* A verdict is not the lack of one.
LEMMA VerdictMade ==
  ASSUME NEW by \in Backends, NEW w, NEW n
  PROVE  /\ [by |-> by, window |-> w, count |-> n] # NoVerdict
         /\ [by |-> by, window |-> w, count |-> n].by = by
         /\ [by |-> by, window |-> w, count |-> n].window = w
         /\ [by |-> by, window |-> w, count |-> n].count = n
<1> DEFINE v == [by |-> by, window |-> w, count |-> n]
<1>1. v.by = by /\ v.window = w /\ v.count = n
  OBVIOUS
<1> HIDE DEF v
<1>2. NoVerdict.by = "none" /\ by # "none"
  BY DEF NoVerdict, Backends
<1>3. v # NoVerdict
  BY <1>1, <1>2
<1> QED
  BY <1>1, <1>3 DEF v

LEMMA OrderStep ==
  ASSUME LimiterInvariant, [Next]_vars, NEW r \in Requests
  PROVE  OrderOf(r)'
<1>0. TypeOK /\ OrderOf(r) /\ minute \in Nat /\ stamp[r] \in Nat
  BY DEF LimiterInvariant, TypeOK, Minutes
<1>1. CASE /\ UNCHANGED minute /\ pc'[r] = pc[r] /\ stamp'[r] = stamp[r]
           /\ counted'[r] = counted[r] /\ verdict'[r] = verdict[r]
  BY <1>0, <1>1 DEF OrderOf
<1>2. ASSUME NEW s \in Requests, Progress(s), ShapeKept PROVE OrderOf(r)'
  <2>0. UNCHANGED minute
    BY <1>2 DEF Progress, Arrived, CountedAtRedis, NotCounted, CountedLocally
  <2>1. CASE r # s
    BY <1>1, <1>2, <2>0, <2>1 DEF Progress, OthersLeft
  <2>2. CASE r = s /\ Arrived(s)
    BY <1>0, <2>2 DEF Arrived, OrderOf
  <2>3. CASE r = s /\ NotCounted(s)
    BY <1>0, <2>3 DEF NotCounted, OrderOf
  <2>4. CASE r = s /\ CountedAtRedis(s)
    <3>1. PICK c : c = [by |-> "redis", window |-> stamp[s]]
      OBVIOUS
    <3>2. c.by = "redis"
      BY <3>1
    <3>3. counted'[s] = counted[s] \cup {c} /\ counted[s] = {}
      BY <1>0, <2>4, <3>1 DEF CountedAtRedis, Execute, Count, TypeOK, OrderOf
    <3>4. verdict[s] = NoVerdict
      BY <1>0, <2>4 DEF OrderOf, CountedAtRedis
    <3>5. pc'[s] = "done" => verdict'[s] # NoVerdict
      BY <2>4, VerdictMade DEF CountedAtRedis, Backends
    <3>6. pc'[s] \in {"done", "local"} /\ (pc'[s] = "local" => verdict'[s] = NoVerdict)
      BY <2>4, <3>4 DEF CountedAtRedis
    <3>7. stamp'[s] = stamp[s]
      BY <2>4 DEF CountedAtRedis
    <3> QED
      BY <1>0, <2>0, <2>4, <3>2, <3>3, <3>5, <3>6, <3>7 DEF OrderOf
  <2>5. CASE r = s /\ CountedLocally(s)
    <3>1. verdict'[s] # NoVerdict
      BY <2>5, VerdictMade DEF CountedLocally, Backends
    <3>2. pc'[s] = "done" /\ stamp'[s] = stamp[s]
      BY <2>5 DEF CountedLocally
    <3> QED
      BY <1>0, <2>0, <2>5, <3>1, <3>2 DEF OrderOf
  <2> QED
    BY <1>2, <2>1, <2>2, <2>3, <2>4, <2>5 DEF Progress
<1>3. CASE Tick
  BY <1>0, <1>3 DEF Tick, OrderOf
<1> QED
  BY <1>0, <1>1, <1>2, <1>3, StepOfOne DEF vars, Expire

\* What a verdict is made of.
LEMMA VerdictType ==
  ASSUME TypeOK, NEW r \in Requests, verdict[r] # NoVerdict
  PROVE  /\ verdict[r].by \in Backends /\ verdict[r].window \in Minutes
         /\ verdict[r].count \in Nat \ {0} /\ key[r] \in Keys
<1>1. verdict[r] \in Verdicts
  BY DEF TypeOK, Verdicts
<1> QED
  BY <1>1 DEF Verdicts, TypeOK

LEMMA ReachedFrame ==
  ASSUME LimiterInvariant, NEW s \in Requests, Progress(s), NEW r \in Requests,
         verdict'[r] = verdict[r], verdict[r] # NoVerdict
  PROVE  ReachedBy(r)'
<1>0. /\ TypeOK /\ ReachedBy(r) /\ verdict[r].window \in Minutes
      /\ verdict[r].count \in Nat \ {0} /\ key[r] \in Keys
  BY VerdictType DEF LimiterInvariant
<1>1. UNCHANGED <<minute, key>>
  BY DEF Progress, Arrived, CountedAtRedis, NotCounted, CountedLocally
<1>2. PICK k, w, n : k = key[r] /\ w = verdict[r].window /\ n = verdict[r].count
  OBVIOUS
<1>3. ASSUME verdict[r].by = "redis"
      PROVE  w + 2 <= minute \/ n <= counters'[k][w].count
  <2>1. w + 2 <= minute \/ n <= counters[k][w].count
    BY <1>0, <1>2, <1>3 DEF ReachedBy
  <2>2. CASE UNCHANGED counters
    BY <2>1, <2>2
  <2>3. CASE CountedAtRedis(s)
    <3>1. PICK j, x : j = key[s] /\ x = stamp[s]
      OBVIOUS
    <3>2. Execute(s)
      BY <2>3 DEF CountedAtRedis
    <3>3. /\ counters'[j][x].count = counters[j][x].count + 1
          /\ k # j \/ w # x => counters'[k][w] = counters[k][w]
      BY <1>0, <1>2, <3>1, <3>2, ExecuteEffect
    <3>4. n \in Nat /\ counters[k][w].count \in Nat
      BY <1>0, <1>2 DEF TypeOK
    <3>5. CASE k = j /\ w = x
      BY <2>1, <3>3, <3>4, <3>5
    <3> QED
      BY <2>1, <3>3, <3>5
  <2> QED
    BY <2>2, <2>3 DEF Progress, Arrived, NotCounted, CountedLocally
<1>4. ASSUME verdict[r].by = "local"
      PROVE  \/ w < minute
             \/ /\ w = minute /\ k \in DOMAIN local'
                /\ local'[k].window = minute /\ n <= local'[k].count
  <2>1. \/ w < minute
        \/ /\ w = minute /\ k \in DOMAIN local
           /\ local[k].window = minute /\ n <= local[k].count
    BY <1>0, <1>2, <1>4 DEF ReachedBy
  <2>2. CASE UNCHANGED local
    BY <2>1, <2>2
  <2>3. CASE CountedLocally(s) /\ w = minute
    <3>1. PICK j, m : /\ j = key[s] /\ m = CountOf(j, minute) + 1
                      /\ Store(j, [window |-> minute, count |-> m])
      BY <2>3 DEF CountedLocally
    <3>2. j \in Keys
      BY <1>0, <3>1 DEF TypeOK
    <3>3. /\ j \in DOMAIN local /\ local[j].window = minute => m = local[j].count + 1
          /\ DOMAIN local' = Kept \cup {j}
          /\ local'[j].window = minute /\ local'[j].count = m
          /\ \A i \in Kept : i # j => local'[i] = local[i]
          /\ \A i \in DOMAIN local : local[i].window = minute => i \in Kept
      BY <1>0, <3>1, <3>2, StoreEffect
    <3>4. /\ k \in DOMAIN local /\ local[k].window = minute
          /\ n <= local[k].count /\ minute \in Nat
      BY <1>0, <2>1, <2>3 DEF TypeOK, Minutes
    <3>5. local[k].count \in Nat /\ n \in Nat
      BY <1>0, <1>2, <3>4, BucketType
    <3>6. CASE k = j
      BY <2>3, <3>3, <3>4, <3>5, <3>6
    <3>7. CASE k # j
      BY <2>3, <3>3, <3>4, <3>7
    <3> QED
      BY <3>6, <3>7
  <2> QED
    BY <2>1, <2>2, <2>3 DEF Progress, Arrived, NotCounted, CountedAtRedis
<1> QED
  BY <1>1, <1>2, <1>3, <1>4 DEF ReachedBy

LEMMA ReachedStep ==
  ASSUME LimiterInvariant, [Next]_vars, NEW r \in Requests
  PROVE  ReachedBy(r)'
<1>0. TypeOK /\ ReachedBy(r) /\ OrderOf(r)
  BY DEF LimiterInvariant
<1>n. ASSUME verdict'[r] = NoVerdict PROVE ReachedBy(r)'
  BY <1>n DEF ReachedBy, NoVerdict
<1>1. CASE UNCHANGED vars
  BY <1>0, <1>1 DEF vars, ReachedBy
<1>2. ASSUME NEW s \in Requests, Progress(s) PROVE ReachedBy(r)'
  <2>1. CASE verdict'[r] = verdict[r]
    BY <1>2, <1>n, <2>1, ReachedFrame
  <2>2. CASE r = s /\ CountedAtRedis(s) /\ verdict'[r] # verdict[r]
    <3>1. PICK k, w, n : k = key[s] /\ w = stamp[s] /\ n = counters[k][w].count + 1
      OBVIOUS
    <3>2. verdict'[s] = [by |-> "redis", window |-> w, count |-> n] /\ Execute(s)
      BY <2>2, <3>1 DEF CountedAtRedis
    <3>3. /\ k \in Keys /\ w \in Minutes
          /\ counters'[k][w].count = n
          /\ counters' \in [Keys -> [Minutes -> [count: Nat, touched: Minutes]]]
      BY <1>0, <3>1, <3>2, ExecuteEffect
    <3>4. n \in Nat
      BY <3>3
    <3>5. /\ verdict'[s].by = "redis" /\ verdict'[s].window = w
          /\ verdict'[s].count = n
      BY <3>2
    <3>6. key'[s] = k
      BY <2>2, <3>1 DEF CountedAtRedis
    <3> QED
      BY <2>2, <3>3, <3>4, <3>5, <3>6 DEF ReachedBy
  <2>3. CASE r = s /\ CountedLocally(s)
    <3>1. PICK k, n : /\ k = key[s] /\ n = CountOf(k, minute) + 1
                      /\ Store(k, [window |-> minute, count |-> n])
                      /\ verdict'[s] = [by |-> "local", window |-> minute, count |-> n]
      BY <2>3 DEF CountedLocally
    <3>2. k \in Keys
      BY <1>0, <3>1 DEF TypeOK
    <3>3. /\ n \in Nat \ {0} /\ k \in DOMAIN local'
          /\ local'[k].window = minute /\ local'[k].count = n
      BY <1>0, <3>1, <3>2, StoreEffect
    <3>4. /\ verdict'[s].by = "local" /\ verdict'[s].window = minute
          /\ verdict'[s].count = n
      BY <3>1
    <3>5. key'[s] = k /\ minute' = minute
      BY <2>3, <3>1 DEF CountedLocally
    <3> QED
      BY <2>3, <3>3, <3>4, <3>5 DEF ReachedBy
  <2> QED
    BY <1>2, <2>1, <2>2, <2>3 DEF Progress, OthersLeft, Arrived, NotCounted
<1>3. ASSUME NEW k \in Keys, NEW w \in Minutes, Expire(k, w),
             verdict[r] # NoVerdict
      PROVE  ReachedBy(r)'
  <2>1. UNCHANGED <<minute, key, local, verdict>>
    BY <1>3 DEF Expire
  <2>2. key[r] \in Keys /\ verdict[r].window \in Minutes
    BY <1>0, <1>3, VerdictType
  <2>3. w + 2 <= minute
    <3>1. w <= counters[k][w].touched /\ counters[k][w].touched + 2 <= minute
      BY <1>3 DEF LimiterInvariant, ExpiryOK, Expire
    <3>2. counters[k][w].touched \in Nat /\ w \in Nat /\ minute \in Nat
      BY <1>0 DEF TypeOK, Minutes
    <3> QED
      BY <3>1, <3>2
  <2>4. \/ key[r] = k /\ verdict[r].window = w
        \/ counters'[key[r]][verdict[r].window] = counters[key[r]][verdict[r].window]
    BY <1>0, <1>3, <2>2, ExpireEffect
  <2> QED
    BY <1>0, <2>1, <2>3, <2>4 DEF ReachedBy
<1>4. ASSUME Tick, verdict[r] # NoVerdict PROVE ReachedBy(r)'
  <2>1. verdict[r].window \in Nat /\ minute \in Nat
    BY <1>0, <1>4, VerdictType DEF TypeOK, Minutes
  <2> QED
    BY <1>0, <1>4, <2>1 DEF Tick, ReachedBy
<1>5. ASSUME NEW k \in Keys, NEW w \in Minutes, Expire(k, w), verdict[r] = NoVerdict
      PROVE  ReachedBy(r)'
  BY <1>n, <1>5 DEF Expire
<1>6. ASSUME Tick, verdict[r] = NoVerdict PROVE ReachedBy(r)'
  BY <1>n, <1>6 DEF Tick
<1> QED
  BY <1>0, <1>1, <1>2, <1>3, <1>4, <1>5, <1>6, StepOfOne

\* The count a request is judged by has been given to no other.
LEMMA FreshVerdict ==
  ASSUME LimiterInvariant, NEW s \in Requests, Progress(s),
         verdict'[s] # verdict[s], NEW r \in Requests \ {s},
         verdict[r] # NoVerdict, key[r] = key[s],
         verdict[r].by = verdict'[s].by, verdict[r].window = verdict'[s].window
  PROVE  verdict[r].count # verdict'[s].count
<1>0. TypeOK /\ ReachedBy(r) /\ OrderOf(s)
  BY DEF LimiterInvariant
<1>1. verdict[r].count \in Nat /\ verdict[r].window \in Minutes
  BY <1>0, VerdictType
<1>2. CASE CountedAtRedis(s)
  <2>1. PICK k, w, n : k = key[s] /\ w = stamp[s] /\ n = counters[k][w].count + 1
    OBVIOUS
  <2>2. /\ pc[s] = "redis"
        /\ verdict'[s] = [by |-> "redis", window |-> w, count |-> n]
    BY <1>2, <2>1 DEF CountedAtRedis
  <2>3. /\ verdict'[s].by = "redis" /\ verdict'[s].window = w
        /\ verdict'[s].count = n
    BY <2>2
  <2>4. minute <= w + 1 /\ w \in Nat /\ minute \in Nat
    BY <1>0, <2>1, <2>2 DEF OrderOf, TypeOK, Minutes
  <2>5. verdict[r].count <= counters[k][w].count
    BY <1>0, <2>1, <2>3, <2>4 DEF ReachedBy
  <2>6. counters[k][w].count \in Nat
    BY <1>0, <2>1 DEF TypeOK
  <2> QED
    BY <1>1, <2>1, <2>3, <2>5, <2>6
<1>3. CASE CountedLocally(s)
  <2>1. PICK k, n : /\ k = key[s] /\ n = CountOf(k, minute) + 1
                    /\ Store(k, [window |-> minute, count |-> n])
                    /\ verdict'[s] = [by |-> "local", window |-> minute, count |-> n]
    BY <1>3 DEF CountedLocally
  <2>2. k \in Keys
    BY <1>0, <2>1 DEF TypeOK
  <2>3. /\ verdict'[s].by = "local" /\ verdict'[s].window = minute
        /\ verdict'[s].count = n
    BY <2>1
  <2>4. k \in DOMAIN local /\ local[k].window = minute => n = local[k].count + 1
    BY <1>0, <2>1, <2>2, StoreEffect
  <2>5. /\ k \in DOMAIN local /\ local[k].window = minute
        /\ verdict[r].count <= local[k].count
    BY <1>0, <1>1, <2>1, <2>3 DEF ReachedBy, TypeOK, Minutes
  <2>6. local[k].count \in Nat
    BY <1>0, <2>5, BucketType
  <2> QED
    BY <1>1, <2>3, <2>4, <2>5, <2>6
<1> QED
  BY <1>2, <1>3 DEF Progress, Arrived, NotCounted

LEMMA DifferStep == LimiterInvariant /\ [Next]_vars => VerdictsDiffer'
<1> SUFFICES ASSUME LimiterInvariant, [Next]_vars PROVE VerdictsDiffer'
  OBVIOUS
<1>0. TypeOK /\ VerdictsDiffer
  BY DEF LimiterInvariant
<1>1. CASE UNCHANGED <<key, verdict>>
  BY <1>0, <1>1 DEF VerdictsDiffer, SameCounter
<1>2. ASSUME NEW s \in Requests, Progress(s), verdict'[s] # verdict[s]
      PROVE  VerdictsDiffer'
  <2>1. UNCHANGED key
    BY <1>2 DEF Progress, Arrived, CountedAtRedis, NotCounted, CountedLocally
  <2>2. \A r \in Requests \ {s} : verdict'[r] = verdict[r]
    BY <1>2 DEF Progress, OthersLeft
  <2> SUFFICES ASSUME NEW q \in Requests, NEW r \in Requests, q # r,
                      verdict'[q] # NoVerdict, verdict'[r] # NoVerdict,
                      key[q] = key[r], verdict'[q].by = verdict'[r].by,
                      verdict'[q].window = verdict'[r].window
               PROVE  verdict'[q].count # verdict'[r].count
    BY <2>1 DEF VerdictsDiffer, SameCounter
  <2>3. CASE q = s
    BY <1>2, <2>2, <2>3, FreshVerdict
  <2>4. CASE r = s
    BY <1>2, <2>2, <2>4, FreshVerdict
  <2>5. CASE q # s /\ r # s
    BY <1>0, <2>2, <2>5 DEF VerdictsDiffer, SameCounter
  <2> QED
    BY <2>3, <2>4, <2>5
<1>3. ASSUME NEW s \in Requests, Progress(s), ShapeKept, verdict'[s] = verdict[s]
      PROVE  UNCHANGED <<key, verdict>>
  <2>1. UNCHANGED key
    BY <1>3 DEF Progress, Arrived, CountedAtRedis, NotCounted, CountedLocally
  <2>2. \A r \in Requests : verdict'[r] = verdict[r]
    BY <1>3 DEF Progress, OthersLeft
  <2> QED
    BY <1>0, <1>3, <2>1, <2>2 DEF ShapeKept, TypeOK
<1> QED
  BY <1>0, <1>1, <1>2, <1>3, StepOfOne DEF vars, Expire, Tick

\* Who is counted stays counted, and the sets stay finite.
LEMMA CountedGrows ==
  ASSUME LimiterInvariant, [Next]_vars,
         NEW by \in Backends, NEW k \in Keys, NEW w \in Minutes
  PROVE  /\ IsFiniteSet(CountedBy(by, k, w)')
         /\ Cardinality(CountedBy(by, k, w)) \in Nat
         /\ Cardinality(CountedBy(by, k, w)') \in Nat
         /\ Cardinality(CountedBy(by, k, w)) <= Cardinality(CountedBy(by, k, w)')
<1>0. TypeOK /\ FinitelyMany /\ minute \in Minutes
  BY DEF LimiterInvariant, TypeOK
<1>1. IsFiniteSet(CountedBy(by, k, w)) /\ Cardinality(CountedBy(by, k, w)) \in Nat
  BY <1>0, FS_CardinalityType DEF FinitelyMany
<1>2. CASE UNCHANGED <<key, counted>>
  <2>1. CountedBy(by, k, w)' = CountedBy(by, k, w)
    BY <1>2 DEF CountedBy
  <2> QED
    BY <1>1, <2>1
<1>3. ASSUME NEW s \in Requests, NEW b \in Backends, NEW x \in Minutes,
             UNCHANGED key, Count(s, b, x), [by |-> b, window |-> x] \notin counted[s]
      PROVE  /\ IsFiniteSet(CountedBy(by, k, w)')
             /\ Cardinality(CountedBy(by, k, w)') \in Nat
             /\ Cardinality(CountedBy(by, k, w)) <= Cardinality(CountedBy(by, k, w)')
  <2>1. /\ IsFiniteSet(CountedBy(by, k, w)')
        /\ \/ Cardinality(CountedBy(by, k, w)') = Cardinality(CountedBy(by, k, w)) + 1
           \/ CountedBy(by, k, w)' = CountedBy(by, k, w)
    BY <1>0, <1>3, CountEffect
  <2>2. CASE Cardinality(CountedBy(by, k, w)') = Cardinality(CountedBy(by, k, w)) + 1
    BY <1>1, <2>1, <2>2
  <2>3. CASE CountedBy(by, k, w)' = CountedBy(by, k, w)
    BY <1>1, <2>3
  <2> QED
    BY <2>1, <2>2, <2>3
<1>4. ASSUME NEW s \in Requests, CountedAtRedis(s)
      PROVE  /\ UNCHANGED key /\ stamp[s] \in Minutes
             /\ Count(s, "redis", stamp[s])
             /\ [by |-> "redis", window |-> stamp[s]] \notin counted[s]
  BY <1>0, <1>4, Uncounted DEF CountedAtRedis, Execute, TypeOK, LimiterInvariant
<1>5. ASSUME NEW s \in Requests, CountedLocally(s)
      PROVE  /\ UNCHANGED key /\ Count(s, "local", minute)
             /\ [by |-> "local", window |-> minute] \notin counted[s]
  BY <1>5, Uncounted DEF CountedLocally, LimiterInvariant
<1>6. "redis" \in Backends /\ "local" \in Backends
  BY DEF Backends
<1>7. ASSUME NEW s \in Requests, CountedAtRedis(s) \/ CountedLocally(s)
      PROVE  /\ IsFiniteSet(CountedBy(by, k, w)')
             /\ Cardinality(CountedBy(by, k, w)') \in Nat
             /\ Cardinality(CountedBy(by, k, w)) <= Cardinality(CountedBy(by, k, w)')
  BY <1>0, <1>3, <1>4, <1>5, <1>6, <1>7
<1>8. \/ UNCHANGED <<key, counted>>
      \/ \E s \in Requests : CountedAtRedis(s) \/ CountedLocally(s)
  BY <1>0, StepOfOne DEF vars, Progress, Arrived, NotCounted, Expire, Tick
<1> QED
  BY <1>1, <1>2, <1>7, <1>8

LEMMA FiniteStep == LimiterInvariant /\ [Next]_vars => FinitelyMany'
<1> SUFFICES ASSUME LimiterInvariant, [Next]_vars PROVE FinitelyMany'
  OBVIOUS
<1>0. TypeOK /\ IsFiniteSet(DOMAIN local)
  BY DEF LimiterInvariant, FinitelyMany
<1>1. ASSUME NEW s \in Requests, CountedLocally(s) PROVE IsFiniteSet(DOMAIN local')
  <2>1. PICK k, n : /\ k = key[s] /\ n = CountOf(k, minute) + 1
                    /\ Store(k, [window |-> minute, count |-> n])
    BY <1>1 DEF CountedLocally
  <2>2. k \in Keys
    BY <1>0, <2>1 DEF TypeOK
  <2>3. DOMAIN local' = Kept \cup {k} /\ Kept \subseteq DOMAIN local
    BY <1>0, <2>1, <2>2, StoreEffect
  <2>4. IsFiniteSet(Kept)
    BY <1>0, <2>3, FS_Subset
  <2> QED
    BY <2>3, <2>4, FS_AddElement
<1>2. IsFiniteSet(DOMAIN local')
  BY <1>0, <1>1, StepOfOne
  DEF vars, Progress, Arrived, NotCounted, CountedAtRedis, Expire, Tick
<1>3. ASSUME NEW by \in Backends, NEW k \in Keys, NEW w \in Minutes
      PROVE  IsFiniteSet(CountedBy(by, k, w)')
  BY <1>3, CountedGrows
<1>4. ASSUME NEW by \in Backends, NEW k \in Keys, NEW w \in Minutes
      PROVE  IsFiniteSet(CountedBy(by, k, w))'
  BY <1>3
<1> QED
  BY <1>2, <1>4 DEF FinitelyMany

\* A count goes up by one, and so do those counted.
LEMMA RedisBacked ==
  ASSUME LimiterInvariant, [Next]_vars, NEW k \in Keys, NEW w \in Minutes
  PROVE  counters'[k][w].count <= Cardinality(CountedBy("redis", k, w)')
<1>0. /\ TypeOK /\ FinitelyMany /\ counters[k][w].count \in Nat
      /\ counters[k][w].count <= Cardinality(CountedBy("redis", k, w))
  BY DEF LimiterInvariant, CountsBacked, TypeOK
<1>1. /\ Cardinality(CountedBy("redis", k, w)) \in Nat
      /\ Cardinality(CountedBy("redis", k, w)') \in Nat
      /\ Cardinality(CountedBy("redis", k, w)) <= Cardinality(CountedBy("redis", k, w)')
  BY CountedGrows DEF Backends
<1>2. CASE counters'[k][w] = counters[k][w]
  BY <1>0, <1>1, <1>2
<1>3. ASSUME NEW s \in Requests, CountedAtRedis(s)
      PROVE  counters'[k][w].count <= Cardinality(CountedBy("redis", k, w)')
  <2>1. PICK j, x : j = key[s] /\ x = stamp[s]
    OBVIOUS
  <2>2. Execute(s) /\ UNCHANGED key /\ pc[s] = "redis"
    BY <1>3 DEF CountedAtRedis
  <2>3. /\ j \in Keys /\ x \in Minutes
        /\ counters'[j][x].count = counters[j][x].count + 1
        /\ k # j \/ w # x => counters'[k][w] = counters[k][w]
    BY <1>0, <2>1, <2>2, ExecuteEffect
  <2>4. CASE k = j /\ w = x
    <3>1. Count(s, "redis", w) /\ [by |-> "redis", window |-> w] \notin counted[s]
      BY <2>1, <2>2, <2>4, Uncounted DEF Execute, LimiterInvariant
    <3>2. Cardinality(CountedBy("redis", k, w)') = Cardinality(CountedBy("redis", k, w)) + 1
      BY <1>0, <2>1, <2>2, <2>4, <3>1, CountEffect DEF Backends
    <3> QED
      BY <1>0, <1>1, <2>3, <2>4, <3>2
  <2> QED
    BY <1>2, <2>3, <2>4
<1>4. ASSUME NEW j \in Keys, NEW x \in Minutes, Expire(j, x)
      PROVE  counters'[k][w].count <= Cardinality(CountedBy("redis", k, w)')
  <2>1. /\ counters'[j][x].count = 0
        /\ k # j \/ w # x => counters'[k][w] = counters[k][w]
    BY <1>0, <1>4, ExpireEffect
  <2>2. CASE k = j /\ w = x
    BY <1>1, <2>1, <2>2
  <2> QED
    BY <1>2, <2>1, <2>2
<1> QED
  BY <1>0, <1>2, <1>3, <1>4, StepOfOne
  DEF vars, Progress, Arrived, NotCounted, CountedLocally, Tick

LEMMA LocalBacked ==
  ASSUME LimiterInvariant, [Next]_vars, NEW k \in DOMAIN local', NEW w,
         w = local'[k].window
  PROVE  local'[k].count <= Cardinality(CountedBy("local", k, w)')
<1>0. TypeOK /\ FinitelyMany /\ minute \in Minutes
  BY DEF LimiterInvariant, TypeOK
<1>1. CASE k \in DOMAIN local /\ local'[k] = local[k]
  <2>1. /\ k \in Keys /\ w \in Minutes /\ local[k].count \in Nat
    BY <1>0, <1>1, BucketType
  <2>2. local[k].count <= Cardinality(CountedBy("local", k, w))
    BY <1>1 DEF LimiterInvariant, CountsBacked
  <2>3. /\ Cardinality(CountedBy("local", k, w)) \in Nat
        /\ Cardinality(CountedBy("local", k, w)') \in Nat
        /\ Cardinality(CountedBy("local", k, w)) <= Cardinality(CountedBy("local", k, w)')
    BY <2>1, CountedGrows DEF Backends
  <2> QED
    BY <1>1, <2>1, <2>2, <2>3
<1>2. ASSUME NEW s \in Requests, CountedLocally(s)
      PROVE  local'[k].count <= Cardinality(CountedBy("local", k, w)')
  <2>1. PICK j, n : /\ j = key[s] /\ n = CountOf(j, minute) + 1
                    /\ Store(j, [window |-> minute, count |-> n])
    BY <1>2 DEF CountedLocally
  <2>2. j \in Keys
    BY <1>0, <2>1 DEF TypeOK
  <2>3. /\ n = 1 \/ (/\ j \in DOMAIN local /\ local[j].window = minute
                     /\ n = local[j].count + 1)
        /\ DOMAIN local' = Kept \cup {j} /\ Kept \subseteq DOMAIN local
        /\ local'[j].window = minute /\ local'[j].count = n
        /\ \A i \in Kept : i # j => local'[i] = local[i]
    BY <1>0, <2>1, <2>2, StoreEffect
  <2>4. CASE k # j
    BY <1>1, <2>3, <2>4
  <2>5. CASE k = j
    <3>1. w = minute
      BY <2>3, <2>5
    <3>2. /\ UNCHANGED key /\ Count(s, "local", w)
          /\ [by |-> "local", window |-> w] \notin counted[s]
      BY <1>2, <3>1, Uncounted DEF CountedLocally, LimiterInvariant
    <3>3. /\ Cardinality(CountedBy("local", k, w)) \in Nat
          /\ Cardinality(CountedBy("local", k, w)') = Cardinality(CountedBy("local", k, w)) + 1
      BY <1>0, <2>1, <2>2, <2>5, <3>1, <3>2, CountEffect DEF Backends
    <3>4. CASE n = 1
      BY <2>3, <2>5, <3>3, <3>4
    <3>5. CASE k \in DOMAIN local /\ local[k].window = minute /\ n = local[k].count + 1
      <4>1. local[k].count <= Cardinality(CountedBy("local", k, w))
        BY <3>1, <3>5 DEF LimiterInvariant, CountsBacked
      <4>2. local[k].count \in Nat
        BY <1>0, <3>5, BucketType
      <4> QED
        BY <2>3, <2>5, <3>3, <3>5, <4>1, <4>2
    <3> QED
      BY <2>3, <2>5, <3>4, <3>5
  <2> QED
    BY <2>4, <2>5
<1> QED
  BY <1>0, <1>1, <1>2, StepOfOne
  DEF vars, Progress, Arrived, NotCounted, CountedAtRedis, Expire, Tick

LEMMA VerdictBacked ==
  ASSUME LimiterInvariant, [Next]_vars, NEW r \in Requests,
         verdict'[r] # NoVerdict, NEW by, by = verdict'[r].by,
         NEW k, k = key'[r], NEW w, w = verdict'[r].window
  PROVE  verdict'[r].count <= Cardinality(CountedBy(by, k, w)')
<1>0. TypeOK /\ minute \in Minutes
  BY DEF LimiterInvariant, TypeOK
<1>1. CASE verdict'[r] = verdict[r] /\ UNCHANGED key
  <2>1. /\ by = verdict[r].by /\ k = key[r] /\ w = verdict[r].window
    BY <1>1
  <2>2. /\ by \in Backends /\ k \in Keys /\ w \in Minutes
        /\ verdict[r].count \in Nat
    BY <1>0, <1>1, <2>1, VerdictType
  <2>3. verdict[r].count <= Cardinality(CountedBy(by, k, w))
    BY <1>1, <2>1 DEF LimiterInvariant, CountsBacked
  <2>4. /\ Cardinality(CountedBy(by, k, w)) \in Nat
        /\ Cardinality(CountedBy(by, k, w)') \in Nat
        /\ Cardinality(CountedBy(by, k, w)) <= Cardinality(CountedBy(by, k, w)')
    BY <2>2, CountedGrows
  <2> QED
    BY <1>1, <2>2, <2>3, <2>4
<1>2. CASE CountedAtRedis(r) /\ verdict'[r] # verdict[r]
  <2>1. PICK j, x, n : j = key[r] /\ x = stamp[r] /\ n = counters[j][x].count + 1
    OBVIOUS
  <2>2. verdict'[r] = [by |-> "redis", window |-> x, count |-> n] /\ Execute(r)
    BY <1>2, <2>1 DEF CountedAtRedis
  <2>3. j \in Keys /\ x \in Minutes /\ counters'[j][x].count = n
    BY <1>0, <2>1, <2>2, ExecuteEffect
  <2>4. n <= Cardinality(CountedBy("redis", j, x)')
    BY <2>3, RedisBacked
  <2>5. by = "redis" /\ w = x /\ verdict'[r].count = n /\ k = j
    BY <1>2, <2>1, <2>2 DEF CountedAtRedis
  <2> QED
    BY <2>4, <2>5
<1>3. CASE CountedLocally(r)
  <2>1. PICK j, n : /\ j = key[r] /\ n = CountOf(j, minute) + 1
                    /\ Store(j, [window |-> minute, count |-> n])
                    /\ verdict'[r] = [by |-> "local", window |-> minute, count |-> n]
    BY <1>3 DEF CountedLocally
  <2>2. j \in Keys
    BY <1>0, <2>1 DEF TypeOK
  <2>3. j \in DOMAIN local' /\ local'[j].window = minute /\ local'[j].count = n
    BY <1>0, <2>1, <2>2, StoreEffect
  <2>4. by = "local" /\ w = minute /\ verdict'[r].count = n /\ k = j
    BY <1>3, <2>1 DEF CountedLocally
  <2>5. n <= Cardinality(CountedBy("local", k, w)')
    BY <2>3, <2>4, LocalBacked
  <2> QED
    BY <2>4, <2>5
<1>4. ASSUME NEW s \in Requests, Progress(s)
      PROVE  \/ verdict'[r] = verdict[r] /\ UNCHANGED key
             \/ CountedAtRedis(r) /\ verdict'[r] # verdict[r]
             \/ CountedLocally(r)
  BY <1>4 DEF Progress, OthersLeft, Arrived, NotCounted, CountedAtRedis,
              CountedLocally
<1> QED
  BY <1>0, <1>1, <1>2, <1>3, <1>4, StepOfOne DEF vars, Expire, Tick

LEMMA BackedStep == LimiterInvariant /\ [Next]_vars => CountsBacked'
<1> SUFFICES ASSUME LimiterInvariant, [Next]_vars PROVE CountsBacked'
  OBVIOUS
<1>1. ASSUME NEW k \in Keys, NEW w \in Minutes
      PROVE  counters'[k][w].count <= Cardinality(CountedBy("redis", k, w))'
  BY RedisBacked
<1>2. ASSUME NEW k \in DOMAIN local'
      PROVE  local'[k].count <= Cardinality(CountedBy("local", k, local[k].window))'
  <2>1. PICK w : w = local'[k].window
    OBVIOUS
  <2>2. local'[k].count <= Cardinality(CountedBy("local", k, w)')
    BY <2>1, LocalBacked
  <2> QED
    BY <2>1, <2>2 DEF CountedBy
<1>3. ASSUME NEW r \in Requests, verdict'[r] # NoVerdict
      PROVE  verdict'[r].count <=
               Cardinality(CountedBy(verdict[r].by, key[r], verdict[r].window))'
  <2>1. PICK by, k, w : /\ by = verdict'[r].by /\ k = key'[r]
                        /\ w = verdict'[r].window
    OBVIOUS
  <2>2. verdict'[r].count <= Cardinality(CountedBy(by, k, w)')
    BY <1>3, <2>1, VerdictBacked
  <2> QED
    BY <2>1, <2>2 DEF CountedBy
<1> QED
  BY <1>1, <1>2, <1>3 DEF CountsBacked

LEMMA Starts == Init => LimiterInvariant
<1> SUFFICES ASSUME Init PROVE LimiterInvariant
  OBVIOUS
<1>1. TypeOK
  <2>1. 0 \in Minutes
    BY DEF Minutes
  <2>2. counters \in [Keys -> [Minutes -> [count: Nat, touched: Minutes]]]
    BY DEF Init
  <2>3. DOMAIN local = {} /\ local \in [DOMAIN local -> [window: 0..minute, count: Nat \ {0}]]
    BY DEF Init
  <2> QED
    BY <2>1, <2>2, <2>3 DEF Init, TypeOK
<1>2. ExpiryOK
  BY DEF Init, ExpiryOK, Minutes
<1>3. ASSUME NEW r \in Requests PROVE OrderOf(r) /\ ReachedBy(r)
  BY DEF Init, OrderOf, ReachedBy, NoVerdict
<1>4. VerdictsDiffer
  BY DEF Init, VerdictsDiffer
<1>5. \A by \in Backends, k \in Keys, w \in Minutes : CountedBy(by, k, w) = {}
  BY DEF Init, CountedBy
<1>6. FinitelyMany
  BY <1>5, FS_EmptySet DEF Init, FinitelyMany
<1>7. CountsBacked
  <2>1. ASSUME NEW k \in Keys, NEW w \in Minutes
        PROVE  counters[k][w].count <= Cardinality(CountedBy("redis", k, w))
    <3>1. counters[k][w].count = 0
      BY DEF Init
    <3>2. CountedBy("redis", k, w) = {}
      BY <1>5 DEF Backends
    <3> QED
      BY <3>1, <3>2, FS_EmptySet
  <2>2. DOMAIN local = {} /\ \A r \in Requests : verdict[r] = NoVerdict
    BY DEF Init
  <2> QED
    BY <2>1, <2>2 DEF CountsBacked
<1> QED
  BY <1>1, <1>2, <1>3, <1>4, <1>6, <1>7 DEF LimiterInvariant

\* Each counter, in Redis and in memory, numbers the requests it counts one
\* after the other for as long as requests may reach it: the whole inductive
\* invariant.
THEOREM InvariantHolds == Spec => []LimiterInvariant
<1>1. LimiterInvariant /\ [Next]_vars => LimiterInvariant'
  BY TypeStep, ExpiryStep, OrderStep, ReachedStep, DifferStep, BackedStep,
     FiniteStep DEF LimiterInvariant
<1> QED
  BY <1>1, Starts, PTL DEF Spec

\* Every variable has its type, and no bucket is empty or of a minute to come.
THEOREM TypeCorrect == Spec => []TypeOK
<1>1. LimiterInvariant => TypeOK
  BY DEF LimiterInvariant
<1> QED
  BY <1>1, InvariantHolds, PTL

\* Different counts up to Limit: not more than Limit of them.
LEMMA AdmittedBounded ==
  ASSUME LimiterInvariant, NEW by \in Backends, NEW k \in Keys, NEW w \in Minutes
  PROVE  Cardinality(AdmittedBy(by, k, w)) <= Limit
<1> DEFINE A == AdmittedBy(by, k, w)
           f == [r \in A |-> verdict[r].count]
<1>1. ASSUME NEW r \in A
      PROVE  /\ r \in Requests /\ verdict[r] # NoVerdict
             /\ verdict[r].count \in 1..Limit /\ key[r] = k
             /\ verdict[r].by = by /\ verdict[r].window = w
  <2>1. /\ r \in Requests /\ key[r] = k /\ verdict[r].by = by
        /\ verdict[r].window = w /\ verdict[r].count <= Limit
    BY DEF AdmittedBy
  <2>2. verdict[r] # NoVerdict
    BY <2>1 DEF NoVerdict, Backends
  <2>3. verdict[r].count \in Nat \ {0}
    BY <2>1, <2>2, VerdictType DEF LimiterInvariant
  <2> QED
    BY <2>1, <2>2, <2>3
<1>2. ASSUME NEW r \in A, NEW s \in A, verdict[r].count = verdict[s].count
      PROVE  r = s
  BY <1>1, <1>2 DEF LimiterInvariant, VerdictsDiffer, SameCounter
<1> HIDE DEF A
<1>3. f \in [A -> 1..Limit]
  BY <1>1
<1>4. f \in Injection(A, 1..Limit)
  BY <1>2, <1>3 DEF Injection, IsInjective
<1>5. IsFiniteSet(1..Limit) /\ Cardinality(1..Limit) = Limit
  BY FS_Interval
<1>6. Cardinality(A) <= Cardinality(1..Limit)
  BY <1>4, <1>5, FS_Injection
<1> QED
  BY <1>5, <1>6 DEF A

\* Redis admits at most Limit requests of a key and minute, whichever fail,
\* arrive late or meet an expired counter.
THEOREM RedisBounded == Spec => []RedisWithinLimit
<1>1. LimiterInvariant => RedisWithinLimit
  BY AdmittedBounded DEF RedisWithinLimit, Backends
<1> QED
  BY <1>1, InvariantHolds, PTL

\* The local map admits at most Limit requests of a key and minute, however
\* often it is cleaned up.
THEOREM LocalBounded == Spec => []LocalWithinLimit
<1>1. LimiterInvariant => LocalWithinLimit
  BY AdmittedBounded DEF LocalWithinLimit, Backends
<1> QED
  BY <1>1, InvariantHolds, PTL

\* Only a request beyond the first Limit counted is refused.
THEOREM RefusalsJustified == Spec => []RefusedOnlyOverLimit
<1>1. ASSUME LimiterInvariant, NEW r \in Requests, pc[r] = "done",
             verdict[r].count > Limit
      PROVE  Cardinality(CountedBy(verdict[r].by, key[r], verdict[r].window)) > Limit
  <2>1. verdict[r] # NoVerdict
    BY <1>1 DEF LimiterInvariant, OrderOf
  <2>2. /\ verdict[r].by \in Backends /\ verdict[r].window \in Minutes
        /\ verdict[r].count \in Nat /\ key[r] \in Keys
    BY <1>1, <2>1, VerdictType DEF LimiterInvariant
  <2>3. Cardinality(CountedBy(verdict[r].by, key[r], verdict[r].window)) \in Nat
    BY <1>1, <2>2, FS_CardinalityType DEF LimiterInvariant, FinitelyMany
  <2>4. verdict[r].count <=
          Cardinality(CountedBy(verdict[r].by, key[r], verdict[r].window))
    BY <1>1, <2>1 DEF LimiterInvariant, CountsBacked
  <2> QED
    BY <1>1, <2>2, <2>3, <2>4
<1>2. LimiterInvariant => RefusedOnlyOverLimit
  BY <1>1 DEF RefusedOnlyOverLimit
<1> QED
  BY <1>2, InvariantHolds, PTL

LEMMA StaleStep ==
  LimiterInvariant /\ StaleBucketsBounded /\ [Next]_vars => StaleBucketsBounded'
<1> SUFFICES ASSUME LimiterInvariant, StaleBucketsBounded, [Next]_vars
             PROVE  StaleBucketsBounded'
  OBVIOUS
<1>0. TypeOK /\ minute \in Nat /\ IsFiniteSet(DOMAIN local)
  BY DEF LimiterInvariant, TypeOK, Minutes, FinitelyMany
<1>1. CASE UNCHANGED local
  BY <1>1 DEF StaleBucketsBounded
<1>2. ASSUME NEW s \in Requests, CountedLocally(s) PROVE StaleBucketsBounded'
  <2>1. PICK k, n : /\ k = key[s] /\ n = CountOf(k, minute) + 1
                    /\ Store(k, [window |-> minute, count |-> n])
    BY <1>2 DEF CountedLocally
  <2>2. k \in Keys
    BY <1>0, <2>1 DEF TypeOK
  <2>3. /\ DOMAIN local' = Kept \cup {k} /\ Kept \subseteq DOMAIN local
        /\ local'[k].window = minute
        /\ \A j \in Kept : j # k => local'[j] = local[j]
    BY <1>0, <2>1, <2>2, StoreEffect
  <2>4. CASE Cardinality(DOMAIN local) < CleanupAt
    <3>1. Kept = DOMAIN local
      BY <2>4 DEF Kept
    <3>2. /\ Cardinality(DOMAIN local) \in Nat
          /\ Cardinality(DOMAIN local \cup {k}) =
               IF k \in DOMAIN local THEN Cardinality(DOMAIN local)
                                     ELSE Cardinality(DOMAIN local) + 1
      BY <1>0, FS_CardinalityType, FS_AddElement
    <3>3. Cardinality(DOMAIN local') <= CleanupAt /\ Cardinality(DOMAIN local') \in Nat
      BY <2>3, <2>4, <3>1, <3>2
    <3> QED
      BY <3>3 DEF StaleBucketsBounded
  <2>5. CASE ~(Cardinality(DOMAIN local) < CleanupAt)
    <3>1. \A j \in Kept : local[j].window = minute
      <4> SUFFICES ASSUME NEW j \in Kept PROVE local[j].window = minute
        OBVIOUS
      <4>1. j \in DOMAIN local /\ ~(local[j].window < minute)
        BY <2>5 DEF Kept
      <4>2. local[j].window \in Nat /\ local[j].window <= minute
        BY <1>0, <4>1, BucketType DEF Minutes
      <4> QED
        BY <1>0, <4>1, <4>2
    <3>2. \A j \in DOMAIN local' : local'[j].window = minute
      BY <2>3, <3>1
    <3> QED
      BY <3>2 DEF StaleBucketsBounded
  <2> QED
    BY <2>4, <2>5
<1> QED
  BY <1>0, <1>1, <1>2, StepOfOne
  DEF vars, Progress, Arrived, NotCounted, CountedAtRedis, Expire, Tick

\* Beyond CleanupAt buckets the map holds those of one minute only: what past
\* minutes left in it is bounded.
THEOREM StaleBounded == Spec => []StaleBucketsBounded
<1>1. Init => StaleBucketsBounded
  <2> SUFFICES ASSUME Init PROVE StaleBucketsBounded
    OBVIOUS
  <2>1. DOMAIN local = {}
    BY DEF Init
  <2> QED
    BY <2>1 DEF StaleBucketsBounded
<1> QED
  BY <1>1, StaleStep, InvariantHolds, PTL DEF Spec

=============================================================================
