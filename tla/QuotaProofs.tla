---------------------------- MODULE QuotaProofs -----------------------------
(***************************************************************************)
(* Theorems about Quota, for any calls, caps, limits and pool.             *)
(***************************************************************************)
EXTENDS Quota, FiniteSetTheorems, TLAPS

USE DEF redisVars, vars

-----------------------------------------------------------------------------
(* Types.                                                                  *)

CountersTyped ==
  /\ counter \in [Caps -> Nat \cup {Absent}]
  /\ ttl \subseteq {c \in Caps : counter[c] # Absent}
  /\ primed \in [Caps -> Nat]

\* SET and INCR write numbers.
LEMMA CountersWritten ==
  ASSUME TypeOK, NEW r \in Requests, SetCounter(r) \/ IncrCounter(r)
  PROVE  CountersTyped'
<1> DEFINE c == cap[r]
<1>0. c \in Caps /\ read[r] \in Nat /\ Absent \notin Nat
  BY ConstantsAssumption DEF TypeOK
<1>1. counter[c] = Absent \/ counter[c] \in Nat
  BY <1>0 DEF TypeOK
<1>2. counter' \in [Caps -> Nat \cup {Absent}] /\ primed' \in [Caps -> Nat]
  BY <1>0, <1>1 DEF SetCounter, IncrCounter, TypeOK
<1>3. counter'[c] # Absent /\ \A d \in Caps : d # c => counter'[d] = counter[d]
  BY <1>0, <1>1 DEF SetCounter, IncrCounter, TypeOK
<1>4. ttl' \subseteq ttl \cup {c}
  BY DEF SetCounter, IncrCounter
<1>5. ttl' \subseteq {d \in Caps : counter'[d] # Absent}
  BY <1>0, <1>3, <1>4 DEF TypeOK
<1> QED
  BY <1>2, <1>5 DEF CountersTyped

\* A type is kept by every step.
LEMMA TypeInductive == TypeOK /\ [Next]_vars => TypeOK'
<1> SUFFICES ASSUME TypeOK, [Next]_vars PROVE TypeOK'
  OBVIOUS
<1> USE DEF TypeOK, Caps, Checking
<1>1. ASSUME NEW r \in Requests, Step(r) PROVE TypeOK'
  <2>1. CASE Enter(r)
    BY <2>1 DEF Enter, Face
  <2>2. CASE Get(r) \/ Miss(r) \/ CountRows(r)
    BY <2>2, ConstantsAssumption DEF Get, Miss, CountRows, Judge
  <2>3. CASE Prime(r)
    BY <2>3, CountersWritten DEF Prime, CountersTyped, Judge
  <2>4. CASE Incr(r)
    BY <2>4, CountersWritten DEF Incr, CountersTyped, Advance, Face
  <2>5. CASE RedisFails(r)
    <3>1. CountersTyped'
      BY <2>5, CountersWritten DEF RedisFails, CountersTyped
    <3> QED
      BY <2>5, <3>1 DEF RedisFails, CountersTyped
  <2>6. CASE FallBack(r)
    BY <2>6 DEF FallBack, Advance, Face
  <2>7. CASE DbFails(r)
    BY <2>7 DEF DbFails
  <2>8. CASE Finish(r)
    <3>1. logged' \in [Caps -> Nat]
      BY <2>8 DEF Finish
    <3> QED
      BY <2>8, <3>1 DEF Finish
  <2> QED
    BY <1>1, <2>8, <2>1, <2>2, <2>3, <2>4, <2>5, <2>6, <2>7 DEF Step, Serve
<1>2. ASSUME NEW c \in Caps, Expire(c) PROVE TypeOK'
  BY <1>2 DEF Expire
<1>3. ASSUME NEW over \in {{"daily"}, Caps}, Turn(over) PROVE TypeOK'
  BY <1>3 DEF Turn
<1>4. CASE UNCHANGED vars
  BY <1>4
<1> QED
  BY <1>1, <1>2, <1>3, <1>4 DEF Next

\* The state has its type.
THEOREM QuotaTypeCorrect == Spec => []TypeOK
<1>1. Init => TypeOK
  BY DEF Init, TypeOK, Caps, Checking
<1> QED
  BY <1>1, TypeInductive, PTL DEF Spec

-----------------------------------------------------------------------------
(* The counters' reserve.                                                  *)

\* The calls that are busy or have passed are finitely many.
LEMMA CallSets ==
  /\ IsFiniteSet(Busy) /\ Cardinality(Busy) \in Nat
  /\ \A c \in Caps : /\ Passed(c) \subseteq Busy
                     /\ IsFiniteSet(Passed(c)) /\ Cardinality(Passed(c)) \in Nat
                     /\ Cardinality(Passed(c)) <= Cardinality(Busy)
<1>1. Busy \subseteq Requests
  BY DEF Busy
<1>2. IsFiniteSet(Busy)
  BY <1>1, FS_Subset, ConstantsAssumption
<1>3. ASSUME NEW c \in Caps PROVE Passed(c) \subseteq Busy
  BY DEF Passed, Busy, Checking
<1> QED
  BY <1>2, <1>3, FS_Subset, FS_CardinalityType

\* What a step does to the busy calls, whichever action it is.
LEMMA BusyBounded ==
  TypeOK /\ Cardinality(Busy) <= PoolSize /\ [Next]_vars => Cardinality(Busy') <= PoolSize
<1> SUFFICES ASSUME TypeOK, Cardinality(Busy) <= PoolSize, [Next]_vars
             PROVE Cardinality(Busy') <= PoolSize
  OBVIOUS
<1> USE DEF TypeOK, Busy, Checking
<1>0. IsFiniteSet(Busy) /\ Cardinality(Busy) \in Nat /\ PoolSize \in Nat
  BY CallSets, ConstantsAssumption
<1>1. ASSUME NEW r \in Requests, Enter(r) PROVE Cardinality(Busy') <= PoolSize
  <2>1. Busy' = Busy \cup {r} /\ r \notin Busy
    BY <1>1 DEF Enter, Face
  <2>2. Cardinality(Busy') = Cardinality(Busy) + 1
    BY <1>0, <2>1, FS_AddElement
  <2> QED
    BY <1>0, <1>1, <2>2 DEF Enter
<1>2. ASSUME Busy' \subseteq Busy PROVE Cardinality(Busy') <= PoolSize
  <2>1. Cardinality(Busy') <= Cardinality(Busy) /\ Cardinality(Busy') \in Nat
    BY <1>0, <1>2, FS_Subset, FS_CardinalityType
  <2> QED
    BY <1>0, <2>1
<1>3. ASSUME NEW r \in Requests, Step(r), ~Enter(r) PROVE Busy' \subseteq Busy
  <2>1. pc[r] \in Checking \cup {"served"}
    BY <1>3 DEF Step, Serve, Get, Miss, CountRows, Prime, Incr, RedisFails, FallBack,
                DbFails, Finish
  <2>2. \A x \in Requests : x # r => pc'[x] = pc[x]
    BY <1>3 DEF Step, Serve, Get, Miss, CountRows, Prime, Incr, RedisFails, FallBack,
                DbFails, Finish, Judge, Advance, Face
  <2> QED
    BY <2>1, <2>2
<1>4. CASE UNCHANGED pc
  BY <1>2, <1>4
<1> QED
  BY <1>1, <1>2, <1>3, <1>4 DEF Next, Step, Serve, Expire, Turn

\* The reserve is kept.
LEMMA ReserveInductive ==
  TypeOK /\ CounterReserve /\ [Next]_vars => CounterReserve'
<1> SUFFICES ASSUME TypeOK, CounterReserve, [Next]_vars PROVE CounterReserve'
  OBVIOUS
<1>0. Cardinality(Busy) <= PoolSize /\ Cardinality(Busy') <= PoolSize
  BY BusyBounded DEF CounterReserve
<1>t. TypeOK'
  BY TypeInductive
<1>c. PoolSize \in Nat /\ Limit \in [Caps -> Nat] /\ Capped \subseteq Caps /\ Absent \notin Nat
  BY ConstantsAssumption
<1> SUFFICES ASSUME NEW c \in Capped, counter'[c] # Absent
             PROVE counter'[c] + Cardinality(Passed(c)')
                     < Larger(primed'[c] + 1, Limit[c]) + PoolSize
  BY <1>0 DEF CounterReserve
<1> DEFINE k == Cardinality(Passed(c))
           k1 == Cardinality(Passed(c)')
           Bounded == counter'[c] + k1 < Larger(primed'[c] + 1, Limit[c]) + PoolSize
<1>n. /\ k \in Nat /\ k <= PoolSize /\ IsFiniteSet(Passed(c))
      /\ k1 \in Nat /\ k1 <= PoolSize
  <2>1. k \in Nat /\ k <= Cardinality(Busy) /\ IsFiniteSet(Passed(c)) /\ Cardinality(Busy) \in Nat
    BY CallSets, <1>c
  <2>2. k1 \in Nat /\ k1 <= Cardinality(Busy') /\ Cardinality(Busy') \in Nat
    <3>1. CallSets!1' /\ CallSets!2'
      BY CallSets, PTL
    <3> QED
      BY <3>1, <1>c
  <2> QED
    BY <2>1, <2>2, <1>0, <1>c
<1>i. /\ counter'[c] \in Nat /\ primed[c] \in Nat /\ primed'[c] \in Nat /\ Limit[c] \in Nat
      /\ counter[c] # Absent => counter[c] \in Nat
  BY <1>t, <1>c DEF TypeOK
<1>r. counter[c] # Absent => counter[c] + k < Larger(primed[c] + 1, Limit[c]) + PoolSize
  BY DEF CounterReserve
<1>s. ASSUME counter'[c] = counter[c], primed'[c] = primed[c], Passed(c)' \subseteq Passed(c)
      PROVE Bounded
  <2>1. k1 <= k
    BY <1>s, <1>n, FS_Subset
  <2> QED
    BY <2>1, <1>s, <1>n, <1>i, <1>r, <1>c DEF Larger
<1>p. ASSUME NEW r \in Requests, pc[r] # "passed" \/ cap[r] # c,
             pc' = [pc EXCEPT ![r] = pc'[r]], cap' = [cap EXCEPT ![r] = cap'[r]],
             pc'[r] # "passed" \/ cap'[r] # c
      PROVE Passed(c)' \subseteq Passed(c)
  BY <1>p DEF Passed, TypeOK
<1>d. ASSUME NEW r \in Requests, pc[r] = "passed", cap[r] = c,
             pc' = [pc EXCEPT ![r] = pc'[r]], cap' = [cap EXCEPT ![r] = cap'[r]],
             pc'[r] # "passed"
      PROVE k1 = k - 1 /\ k > 0
  <2>1. Passed(c)' = Passed(c) \ {r} /\ r \in Passed(c)
    BY <1>d DEF Passed, TypeOK
  <2> QED
    BY <2>1, <1>n, FS_RemoveElement, FS_EmptySet, FS_CardinalityType
<1>1. ASSUME NEW r \in Requests, Step(r) PROVE Bounded
  <2>1. CASE Enter(r) \/ Miss(r) \/ CountRows(r) \/ DbFails(r) \/ Finish(r) \/ FallBack(r)
    <3>1. Passed(c)' \subseteq Passed(c)
      BY <2>1, <1>p DEF Enter, Miss, CountRows, DbFails, Finish, FallBack, Advance, Face, TypeOK
    <3> QED
      BY <3>1, <2>1, <1>s DEF Enter, Miss, CountRows, DbFails, Finish, FallBack, Advance, Face
  <2>2. CASE Get(r)
    <3>1. CASE cap[r] = c /\ counter[c] < Limit[c]
      BY <3>1, <2>2, <1>n, <1>i, <1>c DEF Get, Larger
    <3>2. CASE cap[r] # c \/ ~(counter[c] < Limit[c])
      <4>1. Passed(c)' \subseteq Passed(c)
        <5>1. /\ pc[r] = "get" /\ cap' = cap
              /\ pc' = [pc EXCEPT ![r] =
                          IF counter[cap[r]] >= Limit[cap[r]] THEN "refused" ELSE "passed"]
          BY <2>2 DEF Get, Judge
        <5>2. cap[r] = c => pc'[r] = "refused"
          <6>1. cap[r] = c => counter[c] >= Limit[c]
            BY <3>2, <2>2, <1>i DEF Get
          <6> QED
            BY <5>1, <6>1 DEF TypeOK
        <5> QED
          BY <5>1, <5>2 DEF Passed, TypeOK
      <4> QED
        BY <4>1, <2>2, <1>s DEF Get
    <3> QED
      BY <3>1, <3>2
  <2>3. ASSUME SetCounter(r), cap[r] = c PROVE Bounded
    BY <2>3, <1>n, <1>i, <1>c DEF SetCounter, Larger, TypeOK
  <2>4. CASE Prime(r)
    <3>1. CASE cap[r] # c
      <4>1. Passed(c)' \subseteq Passed(c)
        BY <3>1, <2>4, <1>p DEF Prime, Judge, TypeOK
      <4> QED
        BY <3>1, <4>1, <2>4, <1>s, <1>c DEF Prime, SetCounter, TypeOK
    <3> QED
      BY <3>1, <2>3, <2>4 DEF Prime
  <2>5. ASSUME IncrCounter(r), pc[r] = "passed", cap[r] = c,
               pc' = [pc EXCEPT ![r] = pc'[r]], cap' = [cap EXCEPT ![r] = cap'[r]],
               pc'[r] # "passed"
        PROVE Bounded
    <3>1. k1 = k - 1
      BY <2>5, <1>d
    <3>2. CASE counter[c] = Absent
      BY <3>1, <3>2, <2>5, <1>n, <1>i, <1>c DEF IncrCounter, Larger, TypeOK
    <3>3. CASE counter[c] # Absent
      <4>1. counter'[c] = counter[c] + 1 /\ primed'[c] = primed[c]
        BY <3>3, <2>5, <1>c DEF IncrCounter, TypeOK
      <4> QED
        BY <3>1, <3>3, <4>1, <1>r, <1>n, <1>i
    <3> QED
      BY <3>2, <3>3
  <2>6. ASSUME IncrCounter(r), cap[r] # c PROVE counter'[c] = counter[c] /\ primed'[c] = primed[c]
    BY <2>6, <1>c DEF IncrCounter, TypeOK
  <2>7. CASE Incr(r)
    <3>1. pc' = [pc EXCEPT ![r] = pc'[r]] /\ cap' = [cap EXCEPT ![r] = cap'[r]] /\ pc'[r] # "passed"
      BY <2>7 DEF Incr, Advance, Face, TypeOK
    <3>2. CASE cap[r] = c
      BY <3>1, <3>2, <2>5, <2>7 DEF Incr
    <3>3. CASE cap[r] # c
      BY <3>1, <3>3, <2>6, <2>7, <1>p, <1>s DEF Incr
    <3> QED
      BY <3>2, <3>3
  <2>8. CASE RedisFails(r)
    <3>1. /\ pc' = [pc EXCEPT ![r] = pc'[r]] /\ cap' = [cap EXCEPT ![r] = cap'[r]]
          /\ pc'[r] = "fallback"
      BY <2>8 DEF RedisFails, TypeOK
    <3>2. Passed(c)' \subseteq Passed(c)
      BY <3>1 DEF Passed, TypeOK
    <3>3. CASE UNCHANGED redisVars
      BY <3>2, <3>3, <1>s
    <3>4. CASE pc[r] = "priming" /\ SetCounter(r)
      <4>1. CASE cap[r] # c
        BY <3>2, <3>4, <4>1, <1>s, <1>c DEF SetCounter, TypeOK
      <4> QED
        BY <4>1, <3>4, <2>3
    <3>5. CASE pc[r] = "passed" /\ IncrCounter(r)
      <4>1. CASE cap[r] # c
        BY <3>2, <3>5, <4>1, <1>s, <2>6
      <4>2. CASE cap[r] = c
        BY <4>2, <3>1, <3>5, <2>5
      <4> QED
        BY <4>1, <4>2
    <3> QED
      BY <3>3, <3>4, <3>5, <2>8 DEF RedisFails
  <2> QED
    BY <1>1, <2>1, <2>2, <2>4, <2>7, <2>8 DEF Step, Serve
<1>2. ASSUME NEW d \in Caps, Expire(d) PROVE Bounded
  <2>1. counter'[c] = counter[c] /\ primed'[c] = primed[c]
    BY <1>2, <1>c DEF Expire, TypeOK
  <2>2. Passed(c)' = Passed(c)
    BY <1>2 DEF Expire, Passed
  <2> QED
    BY <2>1, <2>2, <1>s
<1>3. CASE UNCHANGED <<pc, cap, redisVars>>
  BY <1>3, <1>s DEF Passed
<1> QED
  BY <1>1, <1>2, <1>3 DEF Next, Turn

\* The reserve holds: each call that passed a cap on a count can still add one.
THEOREM ReserveCorrect == Spec => []CounterReserve
<1>1. Init => CounterReserve
  <2> SUFFICES ASSUME Init PROVE CounterReserve
    OBVIOUS
  <2>1. Busy = {}
    BY DEF Init, Busy, Checking
  <2>2. \A c \in Capped : counter[c] = Absent
    BY ConstantsAssumption DEF Init
  <2> QED
    BY <2>1, <2>2, FS_EmptySet, ConstantsAssumption DEF CounterReserve
<1> QED
  BY <1>1, ReserveInductive, QuotaTypeCorrect, PTL DEF Spec

\* For any limits and any number of calls, a counter passes its limit, or what
\* it was primed with, by less than the number of connections.
THEOREM CountersBounded == Spec => []CounterBounded
<1>1. TypeOK /\ CounterReserve => CounterBounded
  <2> SUFFICES ASSUME TypeOK, CounterReserve, NEW c \in Capped
               PROVE Count(c) < Larger(primed[c] + 1, Limit[c]) + PoolSize
    BY DEF CounterBounded
  <2>1. c \in Caps /\ Cardinality(Passed(c)) \in Nat /\ Limit[c] \in Nat /\ primed[c] \in Nat
        /\ PoolSize \in Nat \ {0}
    BY CallSets, ConstantsAssumption DEF TypeOK
  <2>2. counter[c] = Absent \/ counter[c] \in Nat
    BY <2>1 DEF TypeOK
  <2> QED
    BY <2>1, <2>2 DEF CounterReserve, Count, Larger
<1> QED
  BY <1>1, QuotaTypeCorrect, ReserveCorrect, PTL

-----------------------------------------------------------------------------
(* What the counters forget and overcount.                                 *)

DriftOf(c) ==
  /\ Undercount(c)' > Undercount(c) => Forgets(c)
  /\ Undercount(c)' < Undercount(c) => Overcounts(c)

\* The counts are numbers.
LEMMA CountsTyped ==
  TypeOK => \A c \in Caps : uses[c] \in Nat /\ Count(c) \in Nat /\ Due(c) \in Nat
<1> SUFFICES ASSUME TypeOK, NEW c \in Caps
             PROVE  uses[c] \in Nat /\ Count(c) \in Nat /\ Due(c) \in Nat
  OBVIOUS
<1>1. uses[c] \in Nat /\ Count(c) \in Nat
  BY ConstantsAssumption DEF TypeOK, Count
<1>2. Between(c) \subseteq Requests
  BY DEF Between
<1>3. Cardinality(Between(c)) \in Nat
  BY <1>2, ConstantsAssumption, FS_Subset, FS_CardinalityType
<1> QED
  BY <1>1, <1>3 DEF Due

\* A step of r adds r to the calls between two caps, or takes it away.
LEMMA BetweenChanges ==
  ASSUME TypeOK, NEW c \in Caps, NEW r \in Requests,
         \A x \in Requests : x # r => pc'[x] = pc[x] /\ cap'[x] = cap[x]
  PROVE  Cardinality(Between(c)') = Cardinality(Between(c))
           + (IF r \in Between(c)' THEN 1 ELSE 0) - (IF r \in Between(c) THEN 1 ELSE 0)
<1> DEFINE D == Between(c) \ {r}
<1>1. Between(c) \subseteq Requests /\ Between(c)' \subseteq Requests
  BY DEF Between
<1>2. Between(c)' \ {r} = D
  BY DEF Between
<1>3. IsFiniteSet(D) /\ r \notin D /\ Cardinality(D) \in Nat
      /\ Cardinality(D \cup {r}) = Cardinality(D) + 1
  <2>1. IsFiniteSet(D)
    BY <1>1, ConstantsAssumption, FS_Subset
  <2> QED BY <2>1, FS_AddElement, FS_CardinalityType
<1>4. Between(c) = IF r \in Between(c) THEN D \cup {r} ELSE D
  OBVIOUS
<1>5. Between(c)' = IF r \in Between(c)' THEN D \cup {r} ELSE D
  BY <1>2
<1>6. Cardinality(Between(c)) = Cardinality(D) + (IF r \in Between(c) THEN 1 ELSE 0)
  BY <1>3, <1>4
<1>7. Cardinality(Between(c)') = Cardinality(D) + (IF r \in Between(c)' THEN 1 ELSE 0)
  BY <1>3, <1>5
<1> QED
  <2> HIDE DEF D
  <2> QED BY <1>3, <1>6, <1>7

\* A step that changes neither what is due nor what is counted causes no drift.
LEMMA UnchangedCounts ==
  ASSUME TypeOK, NEW c \in Caps, Due(c)' = Due(c), Count(c)' = Count(c)
  PROVE  DriftOf(c)
BY CountsTyped DEF DriftOf, Undercount

\* A step of r that leaves it where it is, between two caps or not, changes
\* nothing that is due unless it serves r.
LEMMA StaysDue ==
  ASSUME TypeOK, NEW c \in Caps, NEW r \in Requests, UNCHANGED uses,
         \A x \in Requests : x # r => pc'[x] = pc[x] /\ cap'[x] = cap[x],
         r \in Between(c)' <=> r \in Between(c)
  PROVE  Due(c)' = Due(c)
<1>1. Cardinality(Between(c)') = Cardinality(Between(c))
  <2>1. Cardinality(Between(c)) \in Nat
    <3>1. Between(c) \subseteq Requests
      BY DEF Between
    <3> QED BY <3>1, ConstantsAssumption, FS_Subset, FS_CardinalityType
  <2> QED BY <2>1, BetweenChanges
<1> QED
  BY <1>1 DEF Due

\* A call that passes cap c is one more that c should count; one that passes the
\* other was due already.
LEMMA AdvanceAdds ==
  ASSUME TypeOK, NEW c \in Capped, NEW r \in Requests, Advance(r), pc[r] \in Checking
  PROVE  Due(c)' = Due(c) + (IF cap[r] = c THEN 1 ELSE 0)
<1>0. c \in Caps /\ cap[r] \in Caps /\ uses[c] \in Nat
  BY ConstantsAssumption DEF TypeOK
<1>n. Cardinality(Between(c)) \in Nat
  <2>1. Between(c) \subseteq Requests
    BY DEF Between
  <2> QED BY <2>1, ConstantsAssumption, FS_Subset, FS_CardinalityType
<1>1. \A x \in Requests : x # r => pc'[x] = pc[x] /\ cap'[x] = cap[x]
  BY DEF Advance, Face, TypeOK
<1>2. Cardinality(Between(c)') = Cardinality(Between(c))
        + (IF r \in Between(c)' THEN 1 ELSE 0) - (IF r \in Between(c) THEN 1 ELSE 0)
  BY <1>0, <1>1, BetweenChanges
<1>3. CASE cap[r] = "daily" /\ "monthly" \in Capped
  <2>1. uses' = uses /\ pc'[r] = "get" /\ cap'[r] = "monthly"
    BY <1>3, <1>0 DEF Advance, Face, TypeOK
  <2>2. r \notin Between(c) /\ (r \in Between(c)' <=> c = "daily")
    BY <1>3, <2>1 DEF Between, Checking
  <2> QED BY <1>0, <1>n, <1>2, <1>3, <2>1, <2>2 DEF Due
<1>4. CASE ~(cap[r] = "daily" /\ "monthly" \in Capped)
  <2>1. uses'[c] = uses[c] + 1 /\ pc'[r] = "served"
    BY <1>4, <1>0 DEF Advance, Face, TypeOK
  <2>2. r \notin Between(c)'
    BY <2>1 DEF Between, Checking
  <2>3. r \in Between(c) <=> cap[r] # c
    BY <1>0, <1>4 DEF Between, Caps
  <2>4. \A n, k, m \in Nat : (n + 1) + (k + 0 - 1) = n + k /\ (n + 1) + (k + 0 - 0) = n + k + 1
    OBVIOUS
  <2>5. CASE cap[r] = c
    BY <1>0, <1>n, <1>2, <2>1, <2>2, <2>3, <2>4, <2>5 DEF Due
  <2>6. CASE cap[r] # c
    BY <1>0, <1>n, <1>2, <2>1, <2>2, <2>3, <2>4, <2>6 DEF Due
  <2> QED BY <2>5, <2>6
<1> QED
  BY <1>3, <1>4

\* A check that goes on, or refuses, without a write: a refused call that the
\* day has counted is what the counter is then ahead by.
LEMMA RefusalDrift ==
  ASSUME TypeOK, NEW c \in Caps, NEW r \in Requests, UNCHANGED <<uses, cap>>,
         Count(c)' = Count(c), pc[r] \in Checking, pc'[r] \in Checking \cup {"refused"},
         \A x \in Requests : x # r => pc'[x] = pc[x]
  PROVE  DriftOf(c)
<1>1. CASE pc'[r] \in Checking \/ r \notin Between(c)
  <2>1. r \in Between(c)' <=> r \in Between(c)
    BY <1>1 DEF Between, Checking
  <2> QED BY <2>1, StaysDue, UnchangedCounts
<1>2. CASE pc'[r] = "refused" /\ r \in Between(c)
  <2>1. r \notin Between(c)'
    BY <1>2 DEF Between, Checking
  <2>2. Cardinality(Between(c)') = Cardinality(Between(c)) - 1 /\ Cardinality(Between(c)) \in Nat
    <3>1. Between(c) \subseteq Requests
      BY DEF Between
    <3>2. Cardinality(Between(c)) \in Nat
      BY <3>1, ConstantsAssumption, FS_Subset, FS_CardinalityType
    <3> QED BY <1>2, <2>1, <3>2, BetweenChanges
  <2>3. uses'[c] = uses[c] /\ uses[c] \in Nat /\ Count(c) \in Nat
    BY CountsTyped
  <2>4. ~(Undercount(c)' > Undercount(c))
    BY <2>2, <2>3 DEF Undercount, Due
  <2> QED BY <1>2, <2>4 DEF DriftOf, Overcounts
<1> QED
  BY <1>1, <1>2

\* A SET that is answered or not causes the drift it may.
LEMMA SetDrift ==
  ASSUME TypeOK, NEW c \in Caps, NEW r \in Requests, SetCounter(r),
         pc[r] = "priming", pc'[r] \in (Checking \cup {"refused"}) \ {"priming"},
         \A x \in Requests : x # r => pc'[x] = pc[x],
         UNCHANGED <<uses, cap>>
  PROVE  DriftOf(c)
<1>c. Absent \notin Nat
  BY ConstantsAssumption
<1>1. CASE cap[r] # c
  <2>1. Count(c)' = Count(c)
    BY <1>1, <1>c DEF SetCounter, Count, TypeOK
  <2> QED
    BY <2>1, RefusalDrift DEF Checking
<1>2. CASE cap[r] = c
  <2>1. Count(c)' = read[r] /\ read[r] \in Nat
    BY <1>2, <1>c DEF SetCounter, Count, TypeOK
  <2>2. r \notin Between(c) /\ r \notin Between(c)'
    BY <1>2 DEF Between
  <2>3. Due(c) \in Nat /\ Count(c) \in Nat /\ Due(c)' = Due(c)
    BY <2>2, CountsTyped, StaysDue
  <2>4. Undercount(c)' > Undercount(c) => read[r] < Count(c)
    BY <2>1, <2>3 DEF Undercount
  <2>5. Undercount(c)' < Undercount(c) => read[r] > Count(c)
    BY <2>1, <2>3 DEF Undercount
  <2> QED
    BY <1>2, <2>4, <2>5 DEF DriftOf, Forgets, Overcounts
<1> QED
  BY <1>1, <1>2

\* An INCR adds one, to its own counter.
LEMMA IncrAdds ==
  ASSUME TypeOK, NEW c \in Caps, NEW r \in Requests, IncrCounter(r)
  PROVE  Count(c)' = Count(c) + (IF cap[r] = c THEN 1 ELSE 0)
BY ConstantsAssumption, CountsTyped DEF IncrCounter, Count, TypeOK

\* Whatever a step of a call does to a counter has one of the causes.
LEMMA StepDrift ==
  ASSUME TypeOK, NEW c \in Capped, NEW r \in Requests, Step(r)
  PROVE  DriftOf(c)
<1>0. c \in Caps
  BY ConstantsAssumption
<1>t. Due(c) \in Nat /\ Count(c) \in Nat
  BY <1>0, CountsTyped
<1>1. CASE Get(r) \/ Miss(r) \/ CountRows(r) \/ DbFails(r)
  <2>1. /\ UNCHANGED <<counter, uses, cap>> /\ pc[r] \in Checking
        /\ pc'[r] \in Checking \cup {"refused"} /\ \A x \in Requests : x # r => pc'[x] = pc[x]
    BY <1>1 DEF Get, Miss, CountRows, DbFails, Judge, Checking, TypeOK
  <2> QED
    BY <1>0, <2>1, RefusalDrift DEF Count
<1>2. CASE Enter(r)
  <2>1. Caps \cap Capped # {}
    BY <1>0
  <2>2. /\ UNCHANGED <<counter, uses>> /\ pc[r] = "new"
        /\ pc'[r] = "get" /\ cap'[r] = (IF "daily" \in Caps \cap Capped THEN "daily" ELSE "monthly")
        /\ \A x \in Requests : x # r => pc'[x] = pc[x] /\ cap'[x] = cap[x]
    BY <1>2, <2>1 DEF Enter, Face, TypeOK
  <2>3. r \notin Between(c) /\ r \notin Between(c)'
    BY <1>0, <2>2 DEF Between, Checking
  <2>4. Due(c)' = Due(c)
    BY <1>0, <2>2, <2>3, StaysDue
  <2> QED
    BY <1>0, <2>2, <2>4, UnchangedCounts DEF Count
<1>3. CASE Finish(r)
  <2>1. /\ UNCHANGED <<counter, uses, cap>> /\ pc[r] = "served" /\ pc'[r] = "done"
        /\ \A x \in Requests : x # r => pc'[x] = pc[x]
    BY <1>3 DEF Finish, TypeOK
  <2>2. r \notin Between(c) /\ r \notin Between(c)'
    BY <2>1 DEF Between, Checking
  <2>3. Due(c)' = Due(c)
    BY <1>0, <2>1, <2>2, StaysDue
  <2> QED
    BY <1>0, <2>1, <2>3, UnchangedCounts DEF Count
<1>4. CASE Prime(r)
  <2>1. /\ SetCounter(r) /\ pc[r] = "priming" /\ UNCHANGED <<uses, cap>>
        /\ pc'[r] \in (Checking \cup {"refused"}) \ {"priming"}
        /\ \A x \in Requests : x # r => pc'[x] = pc[x]
    BY <1>4 DEF Prime, Judge, Checking, TypeOK
  <2> QED
    BY <1>0, <2>1, SetDrift
<1>5. CASE Incr(r)
  <2>1. Due(c)' = Due(c) + (IF cap[r] = c THEN 1 ELSE 0)
    BY <1>5, AdvanceAdds DEF Incr, Checking
  <2>2. Count(c)' = Count(c) + (IF cap[r] = c THEN 1 ELSE 0)
    BY <1>0, <1>5, IncrAdds DEF Incr
  <2> QED
    BY <2>1, <2>2, <1>t DEF DriftOf, Undercount
<1>6. CASE RedisFails(r)
  <2>1. /\ UNCHANGED <<uses, cap>> /\ pc[r] \in Checking /\ pc'[r] = "fallback"
        /\ \A x \in Requests : x # r => pc'[x] = pc[x]
    BY <1>6 DEF RedisFails, Checking, TypeOK
  <2>2. r \in Between(c)' <=> r \in Between(c)
    BY <2>1 DEF Between, Checking
  <2>3. Due(c)' = Due(c)
    BY <1>0, <2>1, <2>2, StaysDue
  <2>4. CASE UNCHANGED redisVars
    BY <1>0, <2>3, <2>4, UnchangedCounts DEF Count
  <2>5. CASE pc[r] = "priming" /\ SetCounter(r)
    BY <1>0, <2>1, <2>5, SetDrift DEF Checking
  <2>6. CASE pc[r] = "passed" /\ IncrCounter(r) /\ cap[r] # c
    BY <1>0, <2>3, <2>6, <1>t, IncrAdds, UnchangedCounts
  <2>7. CASE pc[r] = "passed" /\ IncrCounter(r) /\ cap[r] = c
    <3>1. ~(Undercount(c)' > Undercount(c))
      BY <1>0, <2>3, <2>7, <1>t, IncrAdds DEF Undercount
    <3> QED
      BY <2>1, <2>7, <3>1 DEF DriftOf, Overcounts
  <2> QED
    BY <1>6, <2>4, <2>5, <2>6, <2>7 DEF RedisFails
<1>7. CASE FallBack(r)
  <2>1. Count(c)' = Count(c)
    BY <1>7 DEF FallBack, Count
  <2>2. CASE logged[cap[r]] >= Limit[cap[r]]
    <3>1. /\ UNCHANGED <<uses, cap>> /\ pc[r] \in Checking /\ pc'[r] = "refused"
          /\ \A x \in Requests : x # r => pc'[x] = pc[x]
      BY <1>7, <2>2 DEF FallBack, Checking, TypeOK
    <3> QED
      BY <1>0, <2>1, <3>1, RefusalDrift
  <2>3. CASE ~(logged[cap[r]] >= Limit[cap[r]])
    <3>1. Advance(r) /\ pc[r] = "fallback" /\ pc'[r] \in {"get", "served"}
      BY <1>7, <2>3 DEF FallBack, Advance, Face, TypeOK
    <3>2. Due(c)' = Due(c) + (IF cap[r] = c THEN 1 ELSE 0)
      BY <3>1, AdvanceAdds DEF Checking
    <3>3. ~(Undercount(c)' < Undercount(c)) /\ (Undercount(c)' > Undercount(c) => cap[r] = c)
      BY <2>1, <3>2, <1>t DEF Undercount
    <3> QED
      BY <3>1, <3>3 DEF DriftOf, Forgets
  <2> QED
    BY <2>2, <2>3
<1> QED
  BY <1>1, <1>2, <1>3, <1>4, <1>5, <1>6, <1>7 DEF Step, Serve

\* A counter drifts from the calls served in its period, either way, only for
\* the causes that DriftHasCause names.
THEOREM DriftCorrect == Spec => DriftHasCause
<1>1. ASSUME TypeOK, [Next]_vars, NEW c \in Capped PROVE DriftOf(c)
  <2>0. c \in Caps
    BY ConstantsAssumption
  <2>t. uses[c] \in Nat /\ Due(c) \in Nat /\ Count(c) \in Nat /\ Cardinality(Between(c)) \in Nat
    <3>1. Between(c) \subseteq Requests
      BY DEF Between
    <3> QED
      BY <1>1, <2>0, <3>1, CountsTyped, ConstantsAssumption, FS_Subset, FS_CardinalityType
  <2>1. CASE \E r \in Requests : Step(r)
    BY <1>1, <2>1, StepDrift
  <2>2. ASSUME NEW d \in Caps, Expire(d) PROVE DriftOf(c)
    <3>1. Due(c)' = Due(c)
      BY <2>2 DEF Expire, Due, Between
    <3>2. CASE d # c
      BY <1>1, <2>0, <2>2, <3>1, <3>2, UnchangedCounts DEF Expire, Count, TypeOK
    <3>3. CASE d = c
      <4>1. counter[c] # Absent /\ counter'[c] = Absent
        BY <1>1, <2>0, <2>2, <3>3 DEF Expire, TypeOK
      <4>2. Count(c)' = 0
        BY <4>1 DEF Count
      <4>3. ~(Undercount(c)' < Undercount(c))
        BY <2>t, <3>1, <4>2 DEF Undercount
      <4> QED
        BY <4>1, <4>3 DEF DriftOf, Forgets
    <3> QED
      BY <3>2, <3>3
  <2>3. ASSUME NEW over \in {{"daily"}, Caps}, Turn(over) PROVE DriftOf(c)
    <3>1. UNCHANGED <<pc, counter>> /\ Count(c)' = Count(c) /\ Between(c)' = Between(c)
      BY <2>3 DEF Turn, Count, Between
    <3>2. CASE c \notin over
      <4>1. Due(c)' = Due(c)
        BY <2>0, <2>3, <3>1, <3>2 DEF Turn, Due
      <4> QED
        BY <1>1, <2>0, <3>1, <4>1, UnchangedCounts
    <3>3. CASE c \in over
      <4>1. uses'[c] = 0
        BY <2>0, <2>3, <3>3 DEF Turn
      <4>2. ~(Undercount(c)' > Undercount(c))
        BY <2>t, <3>1, <4>1 DEF Undercount, Due
      <4> QED
        BY <3>1, <4>1, <4>2 DEF DriftOf, Overcounts
    <3> QED
      BY <3>2, <3>3
  <2>4. CASE UNCHANGED vars
    BY <1>1, <2>0, <2>4, UnchangedCounts DEF Count, Due, Between
  <2> QED
    BY <1>1, <2>1, <2>2, <2>3, <2>4 DEF Next
<1>2. TypeOK /\ [Next]_vars
      => [\A c \in Capped : /\ Undercount(c)' > Undercount(c) => Forgets(c)
                            /\ Undercount(c)' < Undercount(c) => Overcounts(c)]_vars
  BY <1>1 DEF DriftOf
<1> QED
  BY <1>2, QuotaTypeCorrect, PTL DEF Spec, DriftHasCause

=============================================================================
