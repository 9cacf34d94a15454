--------------------------- MODULE SlidingWindow ----------------------------
(***************************************************************************)
(* RateLimiter.is_rate_limited on one key: a request reads the clock, and  *)
(* some time later Redis runs its four commands in one MULTI. Requests of  *)
(* other tasks run theirs in between, so they may be applied in another    *)
(* order than their clock readings. A Redis error lets the request pass.   *)
(***************************************************************************)
EXTENDS Integers, FiniteSets

CONSTANTS
  Requests,   \* the requests that meet the key
  Limit,      \* how many may pass per window
  Window,     \* window_seconds
  Slack,      \* what the key's EXPIRE adds to the window
  MaxDelay,   \* the longest time between reading the clock and the MULTI
  MaxTime     \* when the modelled clock stops

ASSUME ConstantsAssumption ==
  /\ IsFiniteSet(Requests)
  /\ Limit \in Nat \ {0}
  /\ Window \in Nat \ {0}
  /\ Slack \in Nat
  /\ MaxDelay \in 0..Window
  /\ MaxTime \in Nat

VARIABLES
  now,       \* the clock, which the gateway and Redis share
  stamp,     \* stamp[r]: current_time of request r, its score in the set
  verdict,   \* verdict[r]: "none", "waiting", or how r was decided
  zset,      \* the members of the sorted set
  expireAt   \* when Redis drops the key

vars == <<now, stamp, verdict, zset, expireAt>>

Waiting == {r \in Requests : verdict[r] = "waiting"}

Init ==
  /\ now = 0
  /\ stamp = [r \in Requests |-> 0]
  /\ verdict = [r \in Requests |-> "none"]
  /\ zset = {}
  /\ expireAt = 0

\* current_time = time.time()
ReadClock(r) ==
  /\ verdict[r] = "none"
  /\ stamp' = [stamp EXCEPT ![r] = now]
  /\ verdict' = [verdict EXCEPT ![r] = "waiting"]
  /\ UNCHANGED <<now, zset, expireAt>>

\* Mutant: nothing is removed.
KeptAll(r) == {q \in zset : stamp[q] <= now}

\* ZREMRANGEBYSCORE key 0 clear_before leaves what is younger than the window.
Kept(r) == {q \in zset : stamp[q] > stamp[r] - Window}

\* Mutant: members are bare timestamps, and equal ones collapse.
CountStamps(r) == Cardinality({stamp[q] : q \in Kept(r)})

\* ZCARD: members carry a random suffix, so each request is counted.
Count(r) == Cardinality(Kept(r))

\* EXPIRE key window_seconds + 5, by Redis's clock.
ExpireAfter(r) == now + Window + Slack

\* The MULTI: prune, count, add, re-arm the expiry.
Apply(r) ==
  /\ verdict[r] = "waiting"
  /\ zset' = Kept(r) \cup {r}
  /\ expireAt' = ExpireAfter(r)
  /\ UNCHANGED <<now, stamp>>

\* ... and its reply: `return count >= limit`.
Decide(r) ==
  /\ Apply(r)
  /\ verdict' = [verdict EXCEPT ![r] = IF Count(r) >= Limit THEN "rejected"
                                                           ELSE "admitted"]

\* Redis ran the MULTI but its reply is lost: the exception lets r pass.
LoseReply(r) ==
  /\ Apply(r)
  /\ verdict' = [verdict EXCEPT ![r] = "open"]

\* Redis cannot be reached, or the client's pool is exhausted: r passes.
FailOpen(r) ==
  /\ verdict[r] = "waiting"
  /\ verdict' = [verdict EXCEPT ![r] = "open"]
  /\ UNCHANGED <<now, stamp, zset, expireAt>>

\* Redis drops the key.
Expire ==
  /\ zset # {}
  /\ now >= expireAt
  /\ zset' = {}
  /\ UNCHANGED <<now, stamp, verdict, expireAt>>

\* Time passes, but no request waits longer than MaxDelay.
Tick ==
  /\ now < MaxTime
  /\ \A r \in Waiting : now < stamp[r] + MaxDelay
  /\ now' = now + 1
  /\ UNCHANGED <<stamp, verdict, zset, expireAt>>

Next ==
  \/ \E r \in Requests : ReadClock(r) \/ Decide(r) \/ LoseReply(r) \/ FailOpen(r)
  \/ Expire
  \/ Tick

Spec == Init /\ [][Next]_vars

-----------------------------------------------------------------------------
(* Properties.                                                             *)

(* The state has its type; a reading is a clock value.                     *)
TypeOK ==
  /\ now \in Nat
  /\ stamp \in [Requests -> Nat]
  /\ verdict \in [Requests -> {"none", "waiting", "admitted", "rejected", "open"}]
  /\ zset \subseteq Requests
  /\ expireAt \in Nat

(* The requests that were counted and admitted, with a reading in (t, u].  *)
AdmittedIn(t, u) ==
  {r \in Requests : verdict[r] = "admitted" /\ t < stamp[r] /\ stamp[r] <= u}

(* In whatever order delayed requests reach Redis, no more than Limit of   *)
(* those it admits fall in any span of the window less the longest delay   *)
(* (rate_limit.py:31-50). With no delay that is the window itself.         *)
WindowBounded ==
  \A t \in -Window..MaxTime :
    Cardinality(AdmittedIn(t, t + (Window - MaxDelay))) <= Limit

(* A rejected request had Limit others, admitted or not, that were seen    *)
(* before it with readings younger than its own window: nobody is turned   *)
(* away for traffic that is over (rate_limit.py:39).                       *)
RejectionJustified ==
  \A r \in Requests :
    verdict[r] = "rejected" =>
      Cardinality({q \in Requests \ {r} :
        /\ verdict[q] \in {"admitted", "rejected", "open"}
        /\ stamp[q] > stamp[r] - Window}) >= Limit

(* What makes it inductive: an admitted request is forgotten, by pruning   *)
(* or by expiry, only when its window is over on everybody's clock.        *)
ForgottenIsOld ==
  \A r \in Requests :
    verdict[r] = "admitted" /\ r \notin zset => stamp[r] + Window <= now

=============================================================================
