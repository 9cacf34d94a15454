------------------------ MODULE SlidingWindowProofs -------------------------
(***************************************************************************)
(* Proofs about SlidingWindow: for any number of requests, any limit and   *)
(* any delay up to the window, no more than Limit requests are admitted in *)
(* a span of Window - MaxDelay, and a rejection is always deserved.        *)
(***************************************************************************)
EXTENDS SlidingWindow, FiniteSetTheorems, TLAPS

Decided == {"admitted", "rejected", "open"}

\* A reading is never ahead of the clock, and a waiting one not far behind.
ReadingsAreRecent ==
  \A r \in Requests :
    /\ stamp[r] <= now
    /\ verdict[r] = "waiting" => now <= stamp[r] + MaxDelay

MembersAreDecided == \A r \in zset : verdict[r] \in Decided

KeyOutlivesMembers == \A r \in zset : stamp[r] + Window <= expireAt

IInv ==
  /\ TypeOK
  /\ ReadingsAreRecent
  /\ MembersAreDecided
  /\ KeyOutlivesMembers
  /\ ForgottenIsOld

(* The invariant holds initially: nobody has read the clock.               *)
LEMMA InitIInv == Init => IInv
  BY ConstantsAssumption
  DEF Init, IInv, TypeOK, ReadingsAreRecent, MembersAreDecided,
      KeyOutlivesMembers, ForgottenIsOld

(* The MULTI keeps every conjunct, whatever verdict its reply leads to.    *)
LEMMA ApplyIInv ==
  ASSUME IInv, NEW r \in Requests, Apply(r), NEW v \in Decided,
         verdict' = [verdict EXCEPT ![r] = v]
  PROVE  IInv'
<1> USE ConstantsAssumption
<1>1. /\ now' = now /\ stamp' = stamp /\ verdict[r] = "waiting"
      /\ zset' = Kept(r) \cup {r} /\ expireAt' = now + Window + Slack
  BY DEF Apply, ExpireAfter
<1>2. TypeOK'
  BY <1>1 DEF IInv, TypeOK, Kept, Decided
<1>3. ReadingsAreRecent'
  BY <1>1 DEF IInv, TypeOK, ReadingsAreRecent, Decided
<1>4. MembersAreDecided'
  BY <1>1 DEF IInv, TypeOK, MembersAreDecided, Kept
<1>5. KeyOutlivesMembers'
  BY <1>1 DEF IInv, TypeOK, KeyOutlivesMembers, ReadingsAreRecent, Kept
<1>6. ForgottenIsOld'
  <2> SUFFICES ASSUME NEW q \in Requests, verdict'[q] = "admitted", q \notin zset'
               PROVE  stamp[q] + Window <= now
    BY <1>1 DEF ForgottenIsOld
  <2>1. q # r /\ verdict[q] = "admitted"
    BY <1>1 DEF IInv, TypeOK
  <2>2. CASE q \notin zset
    BY <2>1, <2>2 DEF IInv, ForgottenIsOld
  <2>3. CASE q \in zset
    <3>1. ~ (stamp[q] > stamp[r] - Window)
      BY <1>1, <2>3 DEF Kept
    <3>2. stamp[r] <= now
      BY DEF IInv, ReadingsAreRecent
    <3> QED
      BY <3>1, <3>2 DEF IInv, TypeOK
  <2> QED
    BY <2>2, <2>3
<1> QED
  BY <1>2, <1>3, <1>4, <1>5, <1>6 DEF IInv

(* Every step keeps the invariant.                                         *)
LEMMA NextIInv == IInv /\ [Next]_vars => IInv'
<1> SUFFICES ASSUME IInv, [Next]_vars PROVE IInv'
  OBVIOUS
<1> USE ConstantsAssumption
<1>1. ASSUME NEW r \in Requests, ReadClock(r) PROVE IInv'
  BY <1>1
  DEF ReadClock, IInv, TypeOK, ReadingsAreRecent, MembersAreDecided,
      KeyOutlivesMembers, ForgottenIsOld, Decided
<1>2. ASSUME NEW r \in Requests, Decide(r) PROVE IInv'
  <2> DEFINE v == IF Count(r) >= Limit THEN "rejected" ELSE "admitted"
  <2>1. v \in Decided
    BY DEF Decided
  <2>2. Apply(r) /\ verdict' = [verdict EXCEPT ![r] = v]
    BY <1>2 DEF Decide
  <2> HIDE DEF v
  <2> QED
    BY <2>1, <2>2, ApplyIInv
<1>3. ASSUME NEW r \in Requests, LoseReply(r) PROVE IInv'
  BY <1>3, ApplyIInv DEF LoseReply, Decided
<1>4. ASSUME NEW r \in Requests, FailOpen(r) PROVE IInv'
  BY <1>4
  DEF FailOpen, IInv, TypeOK, ReadingsAreRecent, MembersAreDecided,
      KeyOutlivesMembers, ForgottenIsOld, Decided
<1>5. CASE Expire
  BY <1>5
  DEF Expire, IInv, TypeOK, ReadingsAreRecent, MembersAreDecided,
      KeyOutlivesMembers, ForgottenIsOld
<1>6. CASE Tick
  BY <1>6
  DEF Tick, Waiting, IInv, TypeOK, ReadingsAreRecent, MembersAreDecided,
      KeyOutlivesMembers, ForgottenIsOld
<1>7. CASE UNCHANGED vars
  BY <1>7
  DEF vars, IInv, TypeOK, ReadingsAreRecent, MembersAreDecided,
      KeyOutlivesMembers, ForgottenIsOld
<1> QED
  BY <1>1, <1>2, <1>3, <1>4, <1>5, <1>6, <1>7 DEF Next

(* The invariant holds in every behaviour.                                 *)
LEMMA AlwaysIInv == Spec => []IInv
  BY InitIInv, NextIInv, PTL DEF Spec

(* The types of the limiter's state hold in every behaviour.               *)
THEOREM WindowTypeCorrect == Spec => []TypeOK
<1>1. IInv => TypeOK
  BY DEF IInv
<1> QED
  BY <1>1, AlwaysIInv, PTL

(* An admitted request leaves the set only when its window is over.        *)
THEOREM ForgottenCorrect == Spec => []ForgottenIsOld
<1>1. IInv => ForgottenIsOld
  BY DEF IInv
<1> QED
  BY <1>1, AlwaysIInv, PTL

-----------------------------------------------------------------------------
(* The bound on what is admitted.                                          *)

(* A set that loses one element to a smaller set is at most one larger.    *)
LEMMA OneMore ==
  ASSUME NEW S, NEW K, NEW r, IsFiniteSet(K), S \ {r} \subseteq K
  PROVE  IsFiniteSet(S) /\ Cardinality(S) <= Cardinality(K) + 1
<1>1. /\ IsFiniteSet(K \cup {r})
      /\ Cardinality(K \cup {r}) = Cardinality(K)
           \/ Cardinality(K \cup {r}) = Cardinality(K) + 1
  BY FS_AddElement
<1>2. Cardinality(K) \in Nat
  BY FS_CardinalityType
<1>3. S \subseteq K \cup {r}
  OBVIOUS
<1>4. IsFiniteSet(S) /\ Cardinality(S) <= Cardinality(K \cup {r})
  BY <1>1, <1>3, FS_Subset
<1>5. Cardinality(S) \in Nat
  BY <1>4, FS_CardinalityType
<1> QED
  BY <1>1, <1>2, <1>4, <1>5

(* A subset of the requests is finite, and no larger than what holds it.   *)
LEMMA Smaller ==
  ASSUME NEW S, NEW T, T \subseteq Requests, S \subseteq T
  PROVE  /\ IsFiniteSet(S) /\ IsFiniteSet(T)
         /\ Cardinality(S) \in Nat /\ Cardinality(T) \in Nat
         /\ Cardinality(S) <= Cardinality(T)
<1>1. IsFiniteSet(T)
  BY ConstantsAssumption, FS_Subset
<1>2. IsFiniteSet(S) /\ Cardinality(S) <= Cardinality(T)
  BY <1>1, FS_Subset
<1> QED
  BY <1>1, <1>2, FS_CardinalityType

(* What r counts holds every request admitted close before it: none of     *)
(* them is old enough, by any clock, to have been pruned or expired.       *)
LEMMA NoneForgotten ==
  ASSUME IInv, NEW r \in Requests, verdict[r] = "waiting",
         NEW t \in Int, stamp[r] <= t + (Window - MaxDelay),
         NEW q \in AdmittedIn(t, t + (Window - MaxDelay))
  PROVE  q \in Kept(r)
<1> USE ConstantsAssumption
<1>1. /\ q \in Requests /\ verdict[q] = "admitted"
      /\ t < stamp[q]
  BY DEF AdmittedIn
<1>2. /\ stamp[q] \in Nat /\ stamp[r] \in Nat /\ now \in Nat
      /\ Window \in Nat /\ MaxDelay \in Nat
  BY <1>1 DEF IInv, TypeOK
<1>3. now <= stamp[r] + MaxDelay
  BY DEF IInv, ReadingsAreRecent
<1>4. \A a, b, n, W, D \in Nat : \A i \in Int :
        b <= i + (W - D) /\ i < a /\ n <= b + D => ~ (a + W <= n)
  OBVIOUS
<1>5. q \in zset
  BY <1>1, <1>2, <1>3, <1>4 DEF IInv, ForgottenIsOld
<1>6. \A a, b, W, D \in Nat : \A i \in Int :
        b <= i + (W - D) /\ i < a => a > b - W
  OBVIOUS
<1>7. stamp[q] > stamp[r] - Window
  BY <1>1, <1>2, <1>6
<1> QED
  BY <1>5, <1>7 DEF Kept

(* Steps other than r's own admission do not add to what was admitted.     *)
LEMMA WindowStep == IInv /\ WindowBounded /\ [Next]_vars => WindowBounded'
<1> SUFFICES ASSUME IInv, WindowBounded, [Next]_vars,
                    NEW t \in -Window..MaxTime
             PROVE  Cardinality(AdmittedIn(t, t + (Window - MaxDelay))') <= Limit
  BY DEF WindowBounded
<1> USE ConstantsAssumption
<1> DEFINE S == AdmittedIn(t, t + (Window - MaxDelay))
<1>1. t \in Int
  OBVIOUS
<1>2. S \subseteq Requests /\ S' \subseteq Requests
  BY DEF AdmittedIn
<1>3. Cardinality(S) <= Limit
  BY DEF WindowBounded
<1>4. ASSUME S' \subseteq S PROVE Cardinality(S') <= Limit
  <2> HIDE DEF S
  <2>1. Cardinality(S') <= Cardinality(S)
        /\ Cardinality(S') \in Nat /\ Cardinality(S) \in Nat
    BY <1>2, <1>4, Smaller
  <2> QED
    BY <1>3, <2>1
<1>5. ASSUME NEW r \in Requests, ReadClock(r) PROVE S' \subseteq S
  BY <1>5 DEF ReadClock, AdmittedIn, IInv, TypeOK
<1>6. ASSUME NEW r \in Requests, LoseReply(r) \/ FailOpen(r) PROVE S' \subseteq S
  BY <1>6 DEF LoseReply, FailOpen, Apply, AdmittedIn, IInv, TypeOK
<1>7. ASSUME Expire \/ Tick \/ UNCHANGED vars PROVE S' \subseteq S
  BY <1>7 DEF Expire, Tick, vars, AdmittedIn
<1>8. ASSUME NEW r \in Requests, Decide(r) PROVE Cardinality(S') <= Limit
  <2>1. /\ verdict[r] = "waiting" /\ stamp' = stamp
        /\ verdict' = [verdict EXCEPT ![r] =
             IF Count(r) >= Limit THEN "rejected" ELSE "admitted"]
    BY <1>8 DEF Decide, Apply
  <2>2. CASE r \notin S'
    <3>1. S' \subseteq S
      BY <2>1, <2>2 DEF AdmittedIn, IInv, TypeOK
    <3> QED
      BY <3>1, <1>4
  <2>3. CASE r \in S'
    <3>1. /\ stamp[r] <= t + (Window - MaxDelay)
          /\ verdict'[r] = "admitted"
      BY <2>1, <2>3 DEF AdmittedIn
    <3>2. ~ (Cardinality(Kept(r)) >= Limit)
      BY <2>1, <3>1 DEF Count, IInv, TypeOK
    <3>3. S' \ {r} \subseteq S
      BY <2>1 DEF AdmittedIn, IInv, TypeOK
    <3>4. S \subseteq Kept(r)
      BY <1>1, <2>1, <3>1, NoneForgotten
    <3>5. Kept(r) \subseteq Requests
      BY DEF Kept, IInv, TypeOK
    <3>6. IsFiniteSet(Kept(r)) /\ Cardinality(Kept(r)) \in Nat
      BY <3>5, Smaller
    <3> HIDE DEF S
    <3>7. S' \ {r} \subseteq Kept(r)
      BY <3>3, <3>4
    <3>8. Cardinality(S') <= Cardinality(Kept(r)) + 1
      BY <3>6, <3>7, OneMore
    <3>9. Cardinality(S') \in Nat
      BY <1>2, Smaller
    <3> QED
      BY <3>2, <3>6, <3>8, <3>9
  <2> QED
    BY <2>2, <2>3
<1> HIDE DEF S
<1>9. Cardinality(S') <= Limit
  BY <1>4, <1>5, <1>6, <1>7, <1>8 DEF Next
<1> QED
  BY <1>9 DEF S

(* For every limit, window and delay: no more than Limit of the requests   *)
(* the limiter admits fall in a span of the window less the delay.         *)
THEOREM WindowCorrect == Spec => []WindowBounded
<1>1. Init => WindowBounded
  <2> SUFFICES ASSUME Init, NEW t \in -Window..MaxTime
               PROVE  Cardinality(AdmittedIn(t, t + (Window - MaxDelay))) <= Limit
    BY DEF WindowBounded
  <2>1. AdmittedIn(t, t + (Window - MaxDelay)) = {}
    BY DEF Init, AdmittedIn
  <2> QED
    BY <2>1, FS_EmptySet, ConstantsAssumption
<1> QED
  BY <1>1, WindowStep, AlwaysIInv, PTL DEF Spec

-----------------------------------------------------------------------------
(* A rejection is deserved.                                                *)

\* The requests seen within r's window, as RejectionJustified counts them.
SeenBy(r) ==
  {q \in Requests \ {r} : verdict[q] \in Decided /\ stamp[q] > stamp[r] - Window}

(* What a decided request counts only grows.                               *)
LEMMA SeenGrows ==
  ASSUME IInv, [Next]_vars, NEW r \in Requests, verdict[r] \in Decided
  PROVE  SeenBy(r) \subseteq SeenBy(r)' /\ verdict'[r] = verdict[r]
<1>1. ASSUME NEW q \in Requests, ReadClock(q)
      PROVE  SeenBy(r) \subseteq SeenBy(r)' /\ verdict'[r] = verdict[r]
  BY <1>1 DEF ReadClock, SeenBy, Decided, IInv, TypeOK
<1>2. ASSUME NEW q \in Requests, Decide(q)
      PROVE  SeenBy(r) \subseteq SeenBy(r)' /\ verdict'[r] = verdict[r]
  BY <1>2 DEF Decide, Apply, SeenBy, Decided, IInv, TypeOK
<1>3. ASSUME NEW q \in Requests, LoseReply(q) \/ FailOpen(q)
      PROVE  SeenBy(r) \subseteq SeenBy(r)' /\ verdict'[r] = verdict[r]
  BY <1>3 DEF LoseReply, FailOpen, Apply, SeenBy, Decided, IInv, TypeOK
<1>4. ASSUME Expire \/ Tick \/ UNCHANGED vars
      PROVE  SeenBy(r) \subseteq SeenBy(r)' /\ verdict'[r] = verdict[r]
  BY <1>4 DEF Expire, Tick, vars, SeenBy
<1> QED
  BY <1>1, <1>2, <1>3, <1>4 DEF Next

(* A step that rejects r does so for Limit others.                         *)
LEMMA RejectionStep ==
  IInv /\ RejectionJustified /\ [Next]_vars => RejectionJustified'
<1> SUFFICES ASSUME IInv, RejectionJustified, [Next]_vars,
                    NEW r \in Requests, verdict'[r] = "rejected"
             PROVE  Cardinality(SeenBy(r)') >= Limit
  BY DEF RejectionJustified, SeenBy, Decided
<1> USE ConstantsAssumption
<1>1. SeenBy(r) \subseteq Requests /\ SeenBy(r)' \subseteq Requests
  BY DEF SeenBy
<1>2. CASE verdict[r] = "rejected"
  <2>1. SeenBy(r) \subseteq SeenBy(r)'
    BY <1>2, SeenGrows DEF Decided
  <2>2. Cardinality(SeenBy(r)) >= Limit
    BY <1>2 DEF RejectionJustified, SeenBy, Decided
  <2>3. /\ Cardinality(SeenBy(r)) \in Nat /\ Cardinality(SeenBy(r)') \in Nat
        /\ Cardinality(SeenBy(r)) <= Cardinality(SeenBy(r)')
    BY <1>1, <2>1, Smaller
  <2> QED
    BY <2>2, <2>3
<1>3. CASE verdict[r] # "rejected"
  <2>1. Decide(r)
    BY <1>3
    DEF Next, ReadClock, Decide, LoseReply, FailOpen, Apply, Expire, Tick, vars,
        IInv, TypeOK
  <2>2. /\ verdict[r] = "waiting" /\ stamp' = stamp
        /\ verdict' = [verdict EXCEPT ![r] =
             IF Count(r) >= Limit THEN "rejected" ELSE "admitted"]
    BY <2>1 DEF Decide, Apply
  <2>3. Cardinality(Kept(r)) >= Limit
    BY <2>2 DEF Count, IInv, TypeOK
  <2>4. Kept(r) \subseteq SeenBy(r)'
    BY <2>2 DEF Kept, SeenBy, Decided, IInv, TypeOK, MembersAreDecided
  <2>5. /\ Cardinality(Kept(r)) \in Nat /\ Cardinality(SeenBy(r)') \in Nat
        /\ Cardinality(Kept(r)) <= Cardinality(SeenBy(r)')
    BY <1>1, <2>4, Smaller
  <2> QED
    BY <2>3, <2>5
<1> QED
  BY <1>2, <1>3

(* Whoever is rejected was preceded by Limit others within its window.     *)
THEOREM RejectionCorrect == Spec => []RejectionJustified
<1>1. Init => RejectionJustified
  BY DEF Init, RejectionJustified
<1> QED
  BY <1>1, RejectionStep, AlwaysIInv, PTL DEF Spec

=============================================================================
