------------------------------- MODULE Quota --------------------------------
(***************************************************************************)
(* The daily and monthly caps of check_api_key_limits, for one API key.    *)
(* Each cap has a counter in Redis, which is primed with the number of     *)
(* usage rows of the current period when it is missing, read with one      *)
(* command and incremented with another. Redis may forget a counter that   *)
(* has a TTL at any time, or fail; then the database alone decides.        *)
(***************************************************************************)
EXTENDS Integers, FiniteSets

CONSTANTS
  Requests,  \* calls made with the key
  Capped,    \* the caps that are set: daily_limit, monthly_limit is not None
  Limit,     \* Limit[c]: its value
  PoolSize,  \* database connections, one of which each call holds
  Absent     \* the value of a counter that Redis does not have

Caps == {"daily", "monthly"}

ASSUME ConstantsAssumption ==
  /\ IsFiniteSet(Requests)
  /\ Capped \subseteq Caps
  /\ Limit \in [Caps -> Nat]
  /\ PoolSize \in Nat \ {0}
  /\ Absent \notin Nat

VARIABLES
  pc,       \* pc[r]: where call r is
  cap,      \* cap[r]: the cap it is being held against
  read,     \* read[r]: the rows it counted to prime a counter with, else 0
  counter,  \* counter[c]: the value of the Redis key of cap c
  ttl,      \* the caps whose key, if there is one, has an expiry
  primed,   \* primed[c]: the value the key was created with, 0 if there is none
  logged,   \* logged[c]: the key's usage_logs rows in the current period
  uses      \* uses[c]: the calls that got past both caps in the period of c

redisVars == <<counter, ttl, primed>>
vars == <<pc, cap, read, counter, ttl, primed, logged, uses>>

Checking == {"get", "missed", "priming", "passed", "fallback"}

Busy == {r \in Requests : pc[r] \in Checking \cup {"served"}}

Init ==
  /\ pc = [r \in Requests |-> "new"]
  /\ cap = [r \in Requests |-> "daily"]
  /\ read = [r \in Requests |-> 0]
  /\ counter = [c \in Caps |-> Absent]
  /\ ttl = {}
  /\ primed = [c \in Caps |-> 0]
  /\ logged = [c \in Caps |-> 0]
  /\ uses = [c \in Caps |-> 0]

-----------------------------------------------------------------------------
\* Of the caps that r has still to face, the first whose limit is not None; or
\* the endpoint.
Face(r, ahead) ==
  IF ahead \cap Capped = {}
  THEN /\ pc' = [pc EXCEPT ![r] = "served"]
       /\ uses' = [c \in Caps |-> uses[c] + 1]
       /\ UNCHANGED cap
  ELSE /\ pc' = [pc EXCEPT ![r] = "get"]
       /\ cap' = [cap EXCEPT ![r] = IF "daily" \in ahead \cap Capped THEN "daily" ELSE "monthly"]
       /\ UNCHANGED uses

\* verify_api_key takes a connection; the minute limit lets the call pass.
Enter(r) ==
  /\ pc[r] = "new"
  /\ Cardinality(Busy) < PoolSize
  /\ Face(r, Caps)
  /\ UNCHANGED <<read, redisVars, logged>>

\* On to the next cap, or to the endpoint.
Advance(r) == Face(r, IF cap[r] = "daily" THEN {"monthly"} ELSE {})

\* Mutant: the last call is let in twice.
JudgeLate(r, count) ==
  pc' = [pc EXCEPT ![r] = IF count > Limit[cap[r]] THEN "refused" ELSE "passed"]

\* 429 if the count has reached the limit.
Judge(r, count) ==
  pc' = [pc EXCEPT ![r] = IF count >= Limit[cap[r]] THEN "refused" ELSE "passed"]

\* GET finds the counter.
Get(r) ==
  /\ pc[r] = "get"
  /\ counter[cap[r]] # Absent
  /\ Judge(r, counter[cap[r]])
  /\ UNCHANGED <<cap, read, redisVars, logged, uses>>

\* GET finds nothing.
Miss(r) ==
  /\ pc[r] = "get"
  /\ counter[cap[r]] = Absent
  /\ pc' = [pc EXCEPT ![r] = "missed"]
  /\ UNCHANGED <<cap, read, redisVars, logged, uses>>

\* The rows since the start of the day or of the month are counted.
CountRows(r) ==
  /\ pc[r] = "missed"
  /\ read' = [read EXCEPT ![r] = logged[cap[r]]]
  /\ pc' = [pc EXCEPT ![r] = "priming"]
  /\ UNCHANGED <<cap, redisVars, logged, uses>>

\* SET with an expiry, over whatever is there by now.
SetCounter(r) ==
  /\ counter' = [counter EXCEPT ![cap[r]] = read[r]]
  /\ primed' = [primed EXCEPT ![cap[r]] = read[r]]
  /\ ttl' = ttl \cup {cap[r]}

Prime(r) ==
  /\ pc[r] = "priming"
  /\ SetCounter(r)
  /\ Judge(r, read[r])
  /\ read' = [read EXCEPT ![r] = 0]
  /\ UNCHANGED <<cap, logged, uses>>

\* Mutant: a key that is gone is not incremented.
IncrCounterIfThere(r) ==
  LET c == cap[r] IN
    /\ counter' = [counter EXCEPT ![c] = IF @ = Absent THEN Absent ELSE @ + 1]
    /\ UNCHANGED <<primed, ttl>>

\* INCR; a key that is gone is created at one, and without an expiry.
IncrCounter(r) ==
  LET c == cap[r] IN
    /\ counter' = [counter EXCEPT ![c] = IF @ = Absent THEN 1 ELSE @ + 1]
    /\ primed' = [primed EXCEPT ![c] = IF counter[c] = Absent THEN 0 ELSE @]
    /\ ttl' = IF counter[c] = Absent THEN ttl \ {c} ELSE ttl

Incr(r) ==
  /\ pc[r] = "passed"
  /\ IncrCounter(r)
  /\ Advance(r)
  /\ UNCHANGED <<read, logged>>

\* A Redis command fails, before or after Redis executed it.
RedisFails(r) ==
  /\ pc[r] \in {"get", "priming", "passed"}
  /\ pc' = [pc EXCEPT ![r] = "fallback"]
  /\ read' = [read EXCEPT ![r] = 0]
  /\ \/ UNCHANGED redisVars
     \/ pc[r] = "priming" /\ SetCounter(r)
     \/ pc[r] = "passed" /\ IncrCounter(r)
  /\ UNCHANGED <<cap, logged, uses>>

\* Mutant: without Redis a call is refused by the database but never let in.
FallBackNever(r) ==
  /\ pc[r] = "fallback"
  /\ logged[cap[r]] >= Limit[cap[r]]
  /\ pc' = [pc EXCEPT ![r] = "refused"]
  /\ UNCHANGED <<cap, read, redisVars, logged, uses>>

\* The database decides; nothing is counted in Redis.
FallBack(r) ==
  /\ pc[r] = "fallback"
  /\ IF logged[cap[r]] >= Limit[cap[r]]
     THEN /\ pc' = [pc EXCEPT ![r] = "refused"]
          /\ UNCHANGED <<cap, uses>>
     ELSE Advance(r)
  /\ UNCHANGED <<read, redisVars, logged>>

\* The database fails: the except branch asks it again, and the call ends in 500.
DbFails(r) ==
  /\ pc[r] \in {"missed", "fallback"}
  /\ pc' = [pc EXCEPT ![r] = "refused"]
  /\ UNCHANGED <<cap, read, redisVars, logged, uses>>

\* The endpoint returns; its usage row is written, unless metering failed.
Finish(r) ==
  /\ pc[r] = "served"
  /\ pc' = [pc EXCEPT ![r] = "done"]
  /\ \/ logged' = [c \in Caps |-> logged[c] + 1]
     \/ UNCHANGED logged
  /\ UNCHANGED <<cap, read, redisVars, uses>>

-----------------------------------------------------------------------------
\* Redis drops a key whose TTL is over, or that it evicts.
Expire(c) ==
  /\ counter[c] # Absent
  /\ c \in ttl
  /\ counter' = [counter EXCEPT ![c] = Absent]
  /\ ttl' = ttl \ {c}
  /\ primed' = [primed EXCEPT ![c] = 0]
  /\ UNCHANGED <<pc, cap, read, logged, uses>>

\* A day, or a month and with it a day, begins. The keys stay for a while: the
\* daily one for up to a minute, the monthly one for up to thirty days.
Turn(over) ==
  /\ logged' = [c \in Caps |-> IF c \in over THEN 0 ELSE logged[c]]
  /\ uses' = [c \in Caps |-> IF c \in over THEN 0 ELSE uses[c]]
  /\ UNCHANGED <<pc, cap, read, redisVars>>

Serve(r) ==
  \/ Enter(r) \/ Get(r) \/ Miss(r) \/ CountRows(r) \/ Prime(r) \/ Incr(r)
  \/ FallBack(r) \/ Finish(r)

Step(r) == Serve(r) \/ RedisFails(r) \/ DbFails(r)

Next ==
  \/ \E r \in Requests : Step(r)
  \/ \E c \in Caps : Expire(c)
  \/ \E over \in {{"daily"}, Caps} : Turn(over)

Spec == Init /\ [][Next]_vars

\* Redis and PostgreSQL answer; they may fail, but need not for a call to end.
FairSpec == Spec /\ \A r \in Requests : WF_vars(Serve(r))

-----------------------------------------------------------------------------
(* Properties.                                                             *)

(* The state has its type, and only a key that exists has an expiry.       *)
TypeOK ==
  /\ pc \in [Requests -> {"new", "served", "done", "refused"} \cup Checking]
  /\ cap \in [Requests -> Caps]
  /\ read \in [Requests -> Nat]
  /\ counter \in [Caps -> Nat \cup {Absent}]
  /\ ttl \subseteq {c \in Caps : counter[c] # Absent}
  /\ primed \in [Caps -> Nat]
  /\ logged \in [Caps -> Nat]
  /\ uses \in [Caps -> Nat]

Count(c) == IF counter[c] = Absent THEN 0 ELSE counter[c]

\* The calls that were let pass by a count and have yet to add to it.
Passed(c) == {r \in Requests : pc[r] = "passed" /\ cap[r] = c}

Larger(m, n) == IF m > n THEN m ELSE n

(* GET and INCR are two commands, so calls side by side pass a cap on the  *)
(* same count; the counter goes beyond the limit, or beyond what the       *)
(* database primed it with, by less than the number of connections         *)
(* (rate_limit.py:96-121).                                                 *)
CounterBounded ==
  \A c \in Capped : Count(c) < Larger(primed[c] + 1, Limit[c]) + PoolSize

(* What makes it inductive: each call that passed will add one.            *)
CounterReserve ==
  /\ Cardinality(Busy) <= PoolSize
  /\ \A c \in Capped :
       counter[c] # Absent =>
         counter[c] + Cardinality(Passed(c)) < Larger(primed[c] + 1, Limit[c]) + PoolSize

\* The calls that cap c has let pass and the other still checks.
Between(c) == {r \in Requests : c = "daily" /\ cap[r] = "monthly" /\ pc[r] \in Checking}

\* What cap c should have counted: the calls served in its period, and those that
\* may yet be.
Due(c) == uses[c] + Cardinality(Between(c))

\* By how many calls the counter of c is behind it.
Undercount(c) == Due(c) - Count(c)

\* What makes the counter of c fall behind: Redis drops it, a late SET overwrites
\* increments, or the database alone lets a call pass.
Forgets(c) ==
  \/ counter[c] # Absent /\ counter'[c] = Absent
  \/ \E r \in Requests :
       /\ cap[r] = c
       /\ \/ pc[r] = "priming" /\ pc'[r] # "priming" /\ read[r] < Count(c)
          \/ pc[r] = "fallback" /\ pc'[r] \in {"get", "served"}

\* What makes it get ahead: a period begins and its key stays, the rows of calls
\* of the last period are primed with, an INCR is executed and its reply lost, or
\* a call that was counted for the day is refused for the month.
Overcounts(c) ==
  \/ UNCHANGED <<pc, counter>> /\ uses'[c] = 0
  \/ \E r \in Requests :
       /\ cap[r] = c
       /\ \/ pc[r] = "priming" /\ pc'[r] # "priming" /\ read[r] > Count(c)
          \/ pc[r] = "passed" /\ pc'[r] = "fallback"
  \/ \E r \in Between(c) : pc'[r] = "refused"

(* Increments of calls side by side never lose each other: a counter       *)
(* drifts from the calls served in its period, and so lets too many pass   *)
(* or refuses too early, for these reasons only (rate_limit.py:110, 121,   *)
(* 156, 160, 168).                                                         *)
DriftHasCause ==
  [][\A c \in Capped :
       /\ Undercount(c)' > Undercount(c) => Forgets(c)
       /\ Undercount(c)' < Undercount(c) => Overcounts(c)]_vars

(* Every call that enters the limiter leaves it, to the endpoint or with   *)
(* an error, and gives its connection back (rate_limit.py:124, 170).       *)
EveryCheckEnds == \A r \in Requests : pc[r] = "get" ~> pc[r] \in {"done", "refused"}

(* No counter stays for ever: "Set TTL to expire at the end of the day"    *)
(* (rate_limit.py:108); a key without one ends up refusing every call.     *)
CountersExpire == \A c \in Caps : counter[c] # Absent => c \in ttl

=============================================================================
