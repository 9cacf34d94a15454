--------------------------- MODULE MeteringProofs ---------------------------
(***************************************************************************)
(* Proofs about Metering, its Reports and the ConnectionPool of its calls, *)
(* for every value of their constants.                                     *)
(***************************************************************************)
EXTENDS Reports, ConnectionPool, FiniteSetTheorems, WellFoundedInduction, TLAPS

-----------------------------------------------------------------------------
(* Sums over finite sets: SumFunctionOnSet.                                *)

\* Induction over the subsets of a finite set, with the property as a set.
LEMMA SubsetInd ==
  ASSUME NEW S, IsFiniteSet(S), NEW T,
         \A A \in SUBSET S : (\A x \in A : A \ {x} \in T) => A \in T
  PROVE  \A A \in SUBSET S : A \in T
<1> SUFFICES ASSUME \E A \in SUBSET S : A \notin T PROVE FALSE
  OBVIOUS
<1> DEFINE Bad == (SUBSET S) \ T
<1>1. Bad # {} /\ Bad \subseteq FiniteSubsetsOf(S)
  BY FS_Subset DEF FiniteSubsetsOf
<1>2. IsWellFoundedOn(StrictSubsetOrdering(S), FiniteSubsetsOf(S))
  BY FS_StrictSubsetOrderingWellFounded
<1> HIDE DEF Bad
<1>3. PICK A \in Bad : \A B \in Bad : ~ (<<B, A>> \in StrictSubsetOrdering(S))
  BY <1>1, <1>2, WFMin, Zenon
<1>4. A \in SUBSET S /\ A \notin T
  BY DEF Bad
<1>5. ASSUME NEW x \in A PROVE A \ {x} \in T
  <2>1. <<A \ {x}, A>> \in StrictSubsetOrdering(S)
    BY <1>4 DEF StrictSubsetOrdering
  <2>2. A \ {x} \notin Bad
    BY <1>3, <2>1
  <2> QED
    BY <1>4, <2>2 DEF Bad
<1> QED
  BY <1>4, <1>5

\* The element that a sum takes first, and the rule of its recursive function.
First(s) == CHOOSE x \in s : TRUE
Adds(F, S, g) ==
  g = [s \in SUBSET S |-> IF s = {} THEN 0 ELSE F[First(s)] + g[s \ {First(s)}]]

\* A set that is not empty has a first element.
LEMMA FirstIn == \A s : s # {} => First(s) \in s
BY DEF First

\* What the function returns, one element further.
LEMMA AddsStep ==
  ASSUME NEW F, NEW S, NEW g, Adds(F, S, g)
  PROVE  \A s \in SUBSET S :
           g[s] = IF s = {} THEN 0 ELSE F[First(s)] + g[s \ {First(s)}]
BY Zenon DEF Adds

\* The rule says what the function returns.
LEMMA AddsUnique ==
  ASSUME NEW F, NEW A, IsFiniteSet(A), NEW g, Adds(F, A, g), NEW B, NEW h, Adds(F, B, h)
  PROVE  \A s \in SUBSET A : s \subseteq B => g[s] = h[s]
<1> DEFINE T == {s \in SUBSET A : s \subseteq B => g[s] = h[s]}
<1>1. ASSUME NEW s \in SUBSET A, \A x \in s : s \ {x} \in T PROVE s \in T
  <2> SUFFICES ASSUME s \subseteq B PROVE g[s] = h[s]
    OBVIOUS
  <2>1. /\ g[s] = IF s = {} THEN 0 ELSE F[First(s)] + g[s \ {First(s)}]
        /\ h[s] = IF s = {} THEN 0 ELSE F[First(s)] + h[s \ {First(s)}]
    <3>1. s \in SUBSET A /\ s \in SUBSET B
      OBVIOUS
    <3>2. g[s] = IF s = {} THEN 0 ELSE F[First(s)] + g[s \ {First(s)}]
      BY <3>1, AddsStep
    <3>3. h[s] = IF s = {} THEN 0 ELSE F[First(s)] + h[s \ {First(s)}]
      BY <3>1, AddsStep
    <3> QED
      BY <3>2, <3>3, Zenon
  <2>2. s # {} => g[s \ {First(s)}] = h[s \ {First(s)}]
    BY <1>1, FirstIn
  <2> QED
    BY <2>1, <2>2
<1> HIDE DEF T
<1>2. \A s \in SUBSET A : s \in T
  BY <1>1, SubsetInd
<1> QED
  BY <1>2 DEF T

\* There is a function with the rule, for any finite set.
LEMMA AddsDefined ==
  ASSUME NEW F, NEW S, IsFiniteSet(S)
  PROVE  \A A \in SUBSET S : \E g : Adds(F, A, g)
<1> DEFINE T == {A \in SUBSET S : \A B \in SUBSET A : \E g : Adds(F, B, g)}
<1>1. ASSUME NEW A \in SUBSET S, \A x \in A : A \ {x} \in T PROVE A \in T
  <2>1. ASSUME NEW B \in SUBSET A, B # A PROVE \E g : Adds(F, B, g)
    <3>1. PICK x \in A : x \notin B
      BY <2>1
    <3>2. B \in SUBSET (A \ {x})
      BY <3>1
    <3> QED
      BY <1>1, <3>1, <3>2
  <2> DEFINE of(B) == CHOOSE g : Adds(F, B, g)
             first == IF A = {} THEN 0 ELSE F[First(A)] + of(A \ {First(A)})[A \ {First(A)}]
             g == [B \in SUBSET A |-> IF B = A THEN first ELSE of(B)[B]]
             k == [s \in SUBSET A |-> IF s = {} THEN 0 ELSE F[First(s)] + g[s \ {First(s)}]]
  <2>2. ASSUME NEW B \in SUBSET A, B # A PROVE Adds(F, B, of(B))
    BY <2>1, <2>2, Zenon
  <2> HIDE DEF of
  <2>3. ASSUME NEW B \in SUBSET A, B # A, B # {}
        PROVE  of(B)[B \ {First(B)}] = of(B \ {First(B)})[B \ {First(B)}]
    <3> DEFINE C == B \ {First(B)}
    <3>1. C \in SUBSET A /\ C # A /\ C \subseteq B /\ C \in SUBSET C
      BY <2>3, FirstIn
    <3>2. Adds(F, C, of(C)) /\ Adds(F, B, of(B))
      BY <2>2, <2>3, <3>1
    <3>3. IsFiniteSet(C)
      BY <3>1, FS_Subset
    <3> HIDE DEF C
    <3>4. of(C)[C] = of(B)[C]
      BY <3>1, <3>2, <3>3, AddsUnique
    <3> QED
      BY <3>4 DEF C
  <2>4. ASSUME NEW B \in SUBSET A PROVE g[B] = k[B]
    <3>1. CASE B = A
      <4>1. A # {} => g[A \ {First(A)}] = of(A \ {First(A)})[A \ {First(A)}]
        BY FirstIn
      <4> QED
        BY <3>1, <4>1
    <3>2. CASE B # A
      <4>1. Adds(F, B, of(B)) /\ g[B] = of(B)[B]
        BY <2>2, <3>2
      <4>2. of(B)[B] = IF B = {} THEN 0 ELSE F[First(B)] + of(B)[B \ {First(B)}]
        BY <4>1, AddsStep
      <4>3. B # {} => /\ B \ {First(B)} \in SUBSET A /\ B \ {First(B)} # A
                      /\ of(B)[B \ {First(B)}] = of(B \ {First(B)})[B \ {First(B)}]
        BY <2>3, <3>2, FirstIn
      <4>4. B # {} => g[B \ {First(B)}] = of(B \ {First(B)})[B \ {First(B)}]
        BY <4>3
      <4> QED
        BY <4>1, <4>2, <4>3, <4>4
    <3> QED
      BY <3>1, <3>2
  <2>5. g = k
    BY <2>4
  <2>6. Adds(F, A, g)
    BY <2>5 DEF Adds
  <2> HIDE DEF g
  <2> QED
    BY <2>1, <2>6
<1> HIDE DEF T
<1>2. \A A \in SUBSET S : A \in T
  BY <1>1, SubsetInd
<1> QED
  BY <1>2 DEF T

SumOf(F, S) == (CHOOSE g : Adds(F, S, g))[S]

\* The sum is the value of such a function.
LEMMA SumIs ==
  ASSUME NEW F, NEW S, IsFiniteSet(S), NEW g, Adds(F, S, g)
  PROVE  \A A \in SUBSET S : SumOf(F, A) = g[A]
<1> SUFFICES ASSUME NEW A \in SUBSET S PROVE SumOf(F, A) = g[A]
  OBVIOUS
<1> DEFINE h == CHOOSE h : Adds(F, A, h)
<1>1. IsFiniteSet(A) /\ A \in SUBSET A
  BY FS_Subset
<1>2. \E f : Adds(F, A, f)
  BY <1>1, AddsDefined
<1>3. Adds(F, A, h)
  BY <1>2, Zenon
<1>4. SumOf(F, A) = h[A]
  BY DEF SumOf
<1> HIDE DEF h
<1>5. h[A] = g[A]
  BY <1>1, <1>3, AddsUnique
<1> QED
  BY <1>4, <1>5

\* A sum is its first element's and the rest's.
LEMMA SumFirst ==
  ASSUME NEW F, NEW S, IsFiniteSet(S)
  PROVE  SumOf(F, S) = IF S = {} THEN 0 ELSE F[First(S)] + SumOf(F, S \ {First(S)})
<1>1. PICK g : Adds(F, S, g)
  BY AddsDefined
<1>2. g[S] = IF S = {} THEN 0 ELSE F[First(S)] + g[S \ {First(S)}]
  BY <1>1, AddsStep
<1>3. S \in SUBSET S /\ S \ {First(S)} \in SUBSET S
  OBVIOUS
<1>4. SumOf(F, S) = g[S] /\ SumOf(F, S \ {First(S)}) = g[S \ {First(S)}]
  BY <1>1, <1>3, SumIs
<1> QED
  BY <1>2, <1>4

\* A sum of natural numbers is one.
LEMMA SumType ==
  ASSUME NEW S, IsFiniteSet(S), NEW F, \A x \in S : F[x] \in Nat
  PROVE  \A A \in SUBSET S : SumOf(F, A) \in Nat
<1> DEFINE T == {A \in SUBSET S : SumOf(F, A) \in Nat}
<1>1. ASSUME NEW A \in SUBSET S, \A x \in A : A \ {x} \in T PROVE A \in T
  <2>1. SumOf(F, A) = IF A = {} THEN 0 ELSE F[First(A)] + SumOf(F, A \ {First(A)})
    BY FS_Subset, SumFirst
  <2>2. A # {} => F[First(A)] \in Nat /\ SumOf(F, A \ {First(A)}) \in Nat
    BY <1>1, FirstIn
  <2> QED
    BY <2>1, <2>2
<1> HIDE DEF T
<1>2. \A A \in SUBSET S : A \in T
  BY <1>1, SubsetInd
<1> QED
  BY <1>2 DEF T

\* Any element may be taken first.
LEMMA SumSplit ==
  ASSUME NEW S, IsFiniteSet(S), NEW F, \A x \in S : F[x] \in Nat
  PROVE  \A A \in SUBSET S : \A x \in A : SumOf(F, A) = F[x] + SumOf(F, A \ {x})
<1> DEFINE T == {A \in SUBSET S : \A x \in A : SumOf(F, A) = F[x] + SumOf(F, A \ {x})}
<1>1. ASSUME NEW A \in SUBSET S, \A x \in A : A \ {x} \in T PROVE A \in T
  <2> SUFFICES ASSUME NEW x \in A PROVE SumOf(F, A) = F[x] + SumOf(F, A \ {x})
    OBVIOUS
  <2>1. PICK p \in A : SumOf(F, A) = F[p] + SumOf(F, A \ {p})
    BY FS_Subset, SumFirst, FirstIn
  <2>2. CASE p = x
    BY <2>1, <2>2
  <2>3. CASE p # x
    <3> DEFINE R == (A \ {p}) \ {x}
    <3>1. R = (A \ {x}) \ {p} /\ R \in SUBSET S
      OBVIOUS
    <3>2. SumOf(F, A \ {p}) = F[x] + SumOf(F, R)
      BY <1>1, <2>3
    <3>3. SumOf(F, A \ {x}) = F[p] + SumOf(F, R)
      BY <1>1, <2>3, <3>1
    <3> HIDE DEF R
    <3>4. SumOf(F, R) \in Nat /\ F[x] \in Nat /\ F[p] \in Nat
      BY <3>1, SumType
    <3>5. \A a, b, c \in Nat : a + (b + c) = b + (a + c)
      OBVIOUS
    <3> QED
      BY <2>1, <3>2, <3>3, <3>4, <3>5
  <2> QED
    BY <2>2, <2>3
<1> HIDE DEF T
<1>2. \A A \in SUBSET S : A \in T
  BY <1>1, SubsetInd
<1> QED
  BY <1>2 DEF T

\* One more element adds its number.
LEMMA SumAdd ==
  ASSUME NEW S, IsFiniteSet(S), NEW x, x \notin S, NEW F, \A y \in S \cup {x} : F[y] \in Nat
  PROVE  SumOf(F, S \cup {x}) = SumOf(F, S) + F[x]
<1> DEFINE A == S \cup {x}
<1>1. IsFiniteSet(A) /\ x \in A /\ A \ {x} = S /\ A \in SUBSET A /\ S \in SUBSET A
  BY FS_AddElement
<1> HIDE DEF A
<1>2. \A y \in A : F[y] \in Nat
  BY DEF A
<1>3. SumOf(F, A) = F[x] + SumOf(F, A \ {x})
  BY <1>1, <1>2, SumSplit
<1>4. F[x] \in Nat /\ SumOf(F, S) \in Nat
  BY <1>1, <1>2, SumType
<1> QED
  BY <1>1, <1>3, <1>4 DEF A

\* The sum of sums.
LEMMA SumPlus ==
  ASSUME NEW S, IsFiniteSet(S), NEW F, NEW G, NEW H,
         \A x \in S : F[x] \in Nat /\ G[x] \in Nat /\ H[x] = F[x] + G[x]
  PROVE  SumOf(H, S) = SumOf(F, S) + SumOf(G, S)
<1> DEFINE T == {A \in SUBSET S : SumOf(H, A) = SumOf(F, A) + SumOf(G, A)}
<1>1. ASSUME NEW A \in SUBSET S, \A x \in A : A \ {x} \in T PROVE A \in T
  <2>1. IsFiniteSet(A)
    BY FS_Subset
  <2>2. CASE A = {}
    <3>1. SumOf(F, A) = 0 /\ SumOf(G, A) = 0 /\ SumOf(H, A) = 0
      BY <2>1, <2>2, SumFirst
    <3> QED
      BY <3>1
  <2>3. CASE A # {}
    <3>1. PICK p, B : p = First(A) /\ B = A \ {p}
      OBVIOUS
    <3>2. p \in A /\ p \in S /\ B \in SUBSET S
      BY <2>3, <3>1, FirstIn
    <3>3. SumOf(H, A) = H[p] + SumOf(H, B)
      BY <2>1, <2>3, <3>1, SumFirst
    <3>4. SumOf(F, A) = F[p] + SumOf(F, B) /\ SumOf(G, A) = G[p] + SumOf(G, B)
      BY <2>1, <2>3, <3>1, SumFirst
    <3>5. SumOf(H, B) = SumOf(F, B) + SumOf(G, B)
      BY <1>1, <3>1, <3>2
    <3>6. SumOf(F, B) \in Nat /\ SumOf(G, B) \in Nat
      BY <3>2, SumType
    <3>7. F[p] \in Nat /\ G[p] \in Nat /\ H[p] = F[p] + G[p]
      BY <3>2
    <3>8. \A a, b, c, d \in Nat : (a + b) + (c + d) = (a + c) + (b + d)
      OBVIOUS
    <3> QED
      BY <3>3, <3>4, <3>5, <3>6, <3>7, <3>8
  <2> QED
    BY <2>2, <2>3
<1> HIDE DEF T
<1>2. \A A \in SUBSET S : A \in T
  BY <1>1, SubsetInd
<1> QED
  BY <1>2 DEF T

\* The sum depends on the values only.
LEMMA SumSame ==
  ASSUME NEW S, IsFiniteSet(S), NEW F, NEW G, \A x \in S : F[x] = G[x]
  PROVE  SumOf(F, S) = SumOf(G, S)
<1>1. PICK g : Adds(F, S, g)
  BY AddsDefined
<1>2. \A s \in SUBSET S : s # {} => F[First(s)] = G[First(s)]
  BY FirstIn
<1>3. Adds(G, S, g)
  BY <1>1, <1>2 DEF Adds
<1> QED
  BY <1>1, <1>3, SumIs

\* It is the library's sum.
LEMMA SumFunctionIs == \A F, S : SumFunctionOnSet(F, S) = SumOf(F, S)
BY DEF SumFunctionOnSet, FoldFunctionOnSet, MapThenFoldSet, SumOf, Adds, First

-----------------------------------------------------------------------------
USE ConstantsAssumption, CallsAssumption

-----------------------------------------------------------------------------
(* Type correctness.                                                       *)

(* A cost on its way to record_usage is within the bound.                  *)
LEMMA CostRange == TypeOK => \A r \in Requests : cost[r] \in 0..MaxCost
<1>1. Costs \cup {0} \subseteq 0..MaxCost
  OBVIOUS
<1> QED BY <1>1 DEF TypeOK

(* Entering record_usage keeps the call's locals in their types.           *)
LEMMA MeterType ==
  ASSUME TypeOK, NEW r \in Requests, NEW c \in Costs, NEW s \in BOOLEAN,
         Meter(r, s, c)
  PROVE  /\ pc' \in [Requests -> PCs]
         /\ ok' \in [Requests -> BOOLEAN]
         /\ cost' \in [Requests -> Costs \cup {0}]
BY DEF TypeOK, Meter, PCs

(* Ending a call keeps its locals in their types.                          *)
LEMMA CloseType ==
  ASSUME TypeOK, NEW r \in Requests,
         NEW told \in {"ok", "error", "refused"}, Close(r, told)
  PROVE  /\ pc' \in [Requests -> PCs]
         /\ resp' \in [Requests -> {"none", "ok", "error", "refused"}]
BY DEF TypeOK, Close, PCs

(* Releasing a row lock keeps the locks in their type.                     *)
LEMMA ReleaseType ==
  ASSUME TypeOK, NEW r \in Requests, Release(r)
  PROVE  rowLock' \in [Orgs -> Requests \cup {NoOne}]
BY DEF TypeOK, Release

(* However record_usage fails, the call's locals keep their types.         *)
LEMMA AfterFailureType ==
  ASSUME TypeOK, NEW r \in Requests, AfterFailure(r)
  PROVE  /\ pc' \in [Requests -> PCs]
         /\ ok' \in [Requests -> BOOLEAN]
         /\ cost' \in [Requests -> Costs \cup {0}]
         /\ resp' \in [Requests -> {"none", "ok", "error", "refused"}]
<1>1. CASE r \in Streams /\ ok[r]
  BY <1>1, MeterType DEF AfterFailure, TypeOK
<1>2. CASE ~(r \in Streams /\ ok[r])
  BY <1>2, CloseType DEF AfterFailure, TypeOK
<1> QED BY <1>1, <1>2

\* The columns a COMMIT writes keep their types: the new balance is no larger
\* than the one that was read.
LEMMA PersistType ==
  ASSUME TypeOK, NEW r \in Requests, Persist(r)
  PROVE  /\ balance' \in [Orgs -> Int]
         /\ \A o \in Orgs : balance'[o] <= MaxBalance
         /\ deposited' \in [Orgs -> Nat]
         /\ debited' \in [Orgs -> Nat]
         /\ charged' \in [Requests -> Nat]
         /\ usageLog' \subseteq Row
         /\ overwritten' = overwritten
<1>0. usageLog' \subseteq Row
  BY CostRange DEF TypeOK, Persist, Row
<1>1. Payer[r] \in Orgs /\ cost[r] \in 0..MaxCost /\ seen[r] \in Int
      /\ seen[r] <= MaxBalance /\ MaxBalance \in Nat
  BY CostRange DEF TypeOK
<1>2. CASE NeedsCharge(r)
  <2>1. balance' = [balance EXCEPT ![Payer[r]] = seen[r] - cost[r]]
        /\ debited' = [debited EXCEPT ![Payer[r]] = @ + cost[r]]
        /\ charged' = [charged EXCEPT ![r] = @ + cost[r]]
        /\ deposited' = deposited
    BY <1>2 DEF Persist
  <2>2. seen[r] - cost[r] \in Int /\ seen[r] - cost[r] <= MaxBalance
    BY <1>1
  <2> QED BY <1>0, <1>1, <2>1, <2>2 DEF TypeOK, Persist
<1>3. CASE ~NeedsCharge(r)
  BY <1>0, <1>3 DEF Persist, TypeOK
<1> QED BY <1>0, <1>2, <1>3

(* The initial state has its type.                                         *)
LEMMA InitType == Init => TypeOK
BY DEF Init, TypeOK, PCs

(* Every step, a crash included, keeps the types.                          *)
LEMMA TypeStep ==
  ASSUME TypeOK, [Next]_vars
  PROVE  TypeOK'
<1> USE DEF accountVars, requestVars
<1>1. ASSUME NEW r \in Requests, Admit(r) PROVE TypeOK'
  BY <1>1 DEF Admit, TypeOK, PCs
<1>2. ASSUME NEW r \in Requests, RefuseUnfunded(r) \/ RefuseKey(r) \/ RefuseAdmitted(r)
      PROVE  TypeOK'
  <2>1. Close(r, "refused")
    BY <1>2 DEF RefuseUnfunded, RefuseKey, RefuseAdmitted
  <2> QED
    BY <1>2, <2>1, CloseType DEF RefuseUnfunded, RefuseKey, RefuseAdmitted, TypeOK
<1>3. ASSUME NEW r \in Requests, Answer(r) PROVE TypeOK'
  BY <1>3, MeterType DEF Answer, TypeOK
<1>4. ASSUME NEW r \in Requests, OpenStream(r) PROVE TypeOK'
  BY <1>4 DEF OpenStream, TypeOK, PCs
<1>5. ASSUME NEW r \in Requests, FinishStream(r) PROVE TypeOK'
  BY <1>5, MeterType DEF FinishStream, TypeOK
<1>6. ASSUME NEW r \in Requests, BreakStream(r) PROVE TypeOK'
  BY <1>6, MeterType DEF BreakStream, TypeOK
<1>7. ASSUME NEW r \in Requests, LockAccount(r) PROVE TypeOK'
  <2>1. Payer[r] \in Orgs
    OBVIOUS
  <2> QED BY <1>7, <2>1 DEF LockAccount, TypeOK, PCs
<1>8. ASSUME NEW r \in Requests, CommitUsage(r) PROVE TypeOK'
  <2>1. PICK told \in {"ok", "error", "refused"} : Close(r, told)
    BY <1>8 DEF CommitUsage
  <2> QED
    BY <1>8, <2>1, CloseType, ReleaseType, PersistType DEF CommitUsage, TypeOK
<1>9. ASSUME NEW r \in Requests, RejectRow(r) \/ LoseDatabase(r) PROVE TypeOK'
  BY <1>9, AfterFailureType, ReleaseType DEF RejectRow, LoseDatabase, TypeOK
<1>10. ASSUME NEW r \in Requests, LoseCommitAck(r) PROVE TypeOK'
  BY <1>10, AfterFailureType, ReleaseType, PersistType DEF LoseCommitAck, TypeOK
<1>11. ASSUME NEW r \in Requests, Disconnect(r) PROVE TypeOK'
  BY <1>11, CloseType, ReleaseType DEF Disconnect, TypeOK
<1>12. ASSUME NEW d \in TopUps, ReadTopUp(d) PROVE TypeOK'
  <2>1. Payer[d] \in Orgs
    OBVIOUS
  <2> QED BY <1>12, <2>1 DEF ReadTopUp, TypeOK
<1>13. ASSUME NEW d \in TopUps, NEW a \in Amounts, CommitTopUp(d, a) PROVE TypeOK'
  <2>1. Payer[d] \in Orgs /\ a \in Nat
    OBVIOUS
  <2> QED BY <1>13, <2>1 DEF CommitTopUp, TypeOK
<1>14. ASSUME NEW d \in TopUps, FailTopUp(d) PROVE TypeOK'
  BY <1>14 DEF FailTopUp, TypeOK
<1>15. CASE Crash
  BY <1>15 DEF Crash, TypeOK, PCs, Active
<1>16. CASE UNCHANGED vars
  BY <1>16 DEF vars, TypeOK
<1> QED
  BY <1>1, <1>2, <1>3, <1>4, <1>5, <1>6, <1>7, <1>8, <1>9, <1>10, <1>11, <1>12,
     <1>13, <1>14, <1>15, <1>16 DEF Next, Serve, Interrupt, TopUp

(* In every reachable state each variable has its type, and no balance is  *)
(* larger than the column that stores it.                                  *)
THEOREM TypeCorrect == Spec => []TypeOK
<1>1. TypeOK /\ [Next]_vars => TypeOK'
  BY TypeStep
<1> QED BY <1>1, InitType, PTL DEF Spec

-----------------------------------------------------------------------------
(* The row lock. A step keeps LockHolderIsFresh because a balance is       *)
(* written only by the holder of its row's lock or while nobody holds it.  *)

(* No row is locked initially.                                             *)
LEMMA InitLock == Init => LockHolderIsFresh
BY DEF Init, LockHolderIsFresh

\* r leaves "locked" or was not there, gives its lock up and may have written
\* its account's balance while it held the lock.
LEMMA LetGo ==
  ASSUME TypeOK, LockHolderIsFresh, NEW r \in Requests,
         Release(r), UNCHANGED seen,
         NEW where \in {"metering", "closed"},
         pc' = [pc EXCEPT ![r] = where],
         \A o \in Orgs :
           balance'[o] # balance[o] => pc[r] = "locked" /\ Payer[r] = o
  PROVE  LockHolderIsFresh'
<1>1. \A o \in Orgs : \A q \in Requests :
        rowLock'[o] = q <=> (pc'[q] = "locked" /\ Payer[q] = o)
  BY DEF TypeOK, LockHolderIsFresh, Release
<1>2. ASSUME NEW q \in Requests, pc'[q] = "locked"
      PROVE  seen'[q] = balance'[Payer[q]]
  <2>1. q # r /\ pc[q] = "locked" /\ Payer[q] \in Orgs
    BY <1>2 DEF TypeOK
  <2>2. rowLock[Payer[q]] = q /\ seen[q] = balance[Payer[q]]
    BY <2>1 DEF LockHolderIsFresh
  <2>3. ~(pc[r] = "locked" /\ Payer[r] = Payer[q])
    BY <2>1, <2>2 DEF LockHolderIsFresh
  <2> QED BY <2>1, <2>2, <2>3
<1> QED BY <1>1, <1>2 DEF LockHolderIsFresh

(* A call whose record_usage failed no longer holds the lock.              *)
LEMMA AfterFailureMoves ==
  ASSUME NEW r \in Requests, AfterFailure(r)
  PROVE  \E where \in {"metering", "closed"} : pc' = [pc EXCEPT ![r] = where]
BY DEF AfterFailure, Meter, Close

(* A commit writes the balance of its own organization only.               *)
LEMMA PersistWrites ==
  ASSUME TypeOK, NEW r \in Requests, AtCommit(r), Persist(r), NEW o \in Orgs,
         balance'[o] # balance[o]
  PROVE  pc[r] = "locked" /\ Payer[r] = o
BY DEF TypeOK, AtCommit, Persist

(* Every step keeps the lock and the balance read under it together.       *)
LEMMA LockStep ==
  ASSUME TypeOK, LockHolderIsFresh, [Next]_vars
  PROVE  LockHolderIsFresh'
<1> USE DEF accountVars, requestVars
<1>1. ASSUME NEW r \in Requests, Admit(r) PROVE LockHolderIsFresh'
  BY <1>1 DEF Admit, TypeOK, LockHolderIsFresh
<1>2. ASSUME NEW r \in Requests, RefuseUnfunded(r) \/ RefuseKey(r) \/ RefuseAdmitted(r)
      PROVE  LockHolderIsFresh'
  BY <1>2 DEF RefuseUnfunded, RefuseKey, RefuseAdmitted, Close, TypeOK, LockHolderIsFresh
<1>3. ASSUME NEW r \in Requests, Answer(r) \/ FinishStream(r) \/ BreakStream(r)
      PROVE  LockHolderIsFresh'
  <2>1. pc[r] # "locked" /\ pc' = [pc EXCEPT ![r] = "metering"]
        /\ UNCHANGED <<rowLock, seen, balance>>
    BY <1>3 DEF Answer, FinishStream, BreakStream, Meter
  <2> QED BY <2>1 DEF TypeOK, LockHolderIsFresh
<1>4. ASSUME NEW r \in Requests, OpenStream(r) PROVE LockHolderIsFresh'
  BY <1>4 DEF OpenStream, TypeOK, LockHolderIsFresh
<1>5. ASSUME NEW r \in Requests, LockAccount(r) PROVE LockHolderIsFresh'
  <2>1. Payer[r] \in Orgs
    OBVIOUS
  <2> QED BY <1>5, <2>1 DEF LockAccount, TypeOK, LockHolderIsFresh
<1>6. ASSUME NEW r \in Requests, CommitUsage(r) PROVE LockHolderIsFresh'
  <2>1. Release(r) /\ UNCHANGED seen /\ pc' = [pc EXCEPT ![r] = "closed"]
    BY <1>6 DEF CommitUsage, Close
  <2>2. \A o \in Orgs :
          balance'[o] # balance[o] => pc[r] = "locked" /\ Payer[r] = o
    BY <1>6, PersistWrites DEF CommitUsage
  <2> QED BY <2>1, <2>2, LetGo
<1>7. ASSUME NEW r \in Requests, LoseCommitAck(r) PROVE LockHolderIsFresh'
  <2>1. PICK where \in {"metering", "closed"} : pc' = [pc EXCEPT ![r] = where]
    BY <1>7, AfterFailureMoves DEF LoseCommitAck
  <2>2. \A o \in Orgs :
          balance'[o] # balance[o] => pc[r] = "locked" /\ Payer[r] = o
    BY <1>7, PersistWrites DEF LoseCommitAck
  <2> QED BY <1>7, <2>1, <2>2, LetGo DEF LoseCommitAck
<1>8. ASSUME NEW r \in Requests, RejectRow(r) \/ LoseDatabase(r) \/ Disconnect(r)
      PROVE  LockHolderIsFresh'
  <2>1. PICK where \in {"metering", "closed"} : pc' = [pc EXCEPT ![r] = where]
    BY <1>8, AfterFailureMoves DEF RejectRow, LoseDatabase, Disconnect, Close
  <2>2. Release(r) /\ UNCHANGED <<seen, balance>>
    BY <1>8 DEF RejectRow, LoseDatabase, Disconnect
  <2> QED BY <2>1, <2>2, LetGo
<1>9. ASSUME NEW d \in TopUps, ReadTopUp(d) PROVE LockHolderIsFresh'
  BY <1>9 DEF ReadTopUp, TypeOK, LockHolderIsFresh
<1>10. ASSUME NEW d \in TopUps, NEW a \in Amounts, CommitTopUp(d, a)
       PROVE  LockHolderIsFresh'
  BY <1>10 DEF CommitTopUp, TypeOK, LockHolderIsFresh
<1>11. ASSUME NEW d \in TopUps, FailTopUp(d) PROVE LockHolderIsFresh'
  BY <1>11 DEF FailTopUp, LockHolderIsFresh
<1>12. CASE Crash
  BY <1>12 DEF Crash, Active, TypeOK, LockHolderIsFresh
<1>13. CASE UNCHANGED vars
  BY <1>13 DEF vars, LockHolderIsFresh
<1> QED
  BY <1>1, <1>2, <1>3, <1>4, <1>5, <1>6, <1>7, <1>8, <1>9, <1>10, <1>11, <1>12,
     <1>13 DEF Next, Serve, Interrupt, TopUp

(* Whatever interleaves, fails or crashes, a call that is about to write a *)
(* balance holds the row's lock and writes from the stored value.          *)
THEOREM LockCorrect == Spec => []LockHolderIsFresh
<1>1. TypeOK /\ LockHolderIsFresh /\ [Next]_vars => LockHolderIsFresh'
  BY LockStep
<1> QED BY <1>1, InitLock, TypeCorrect, PTL DEF Spec

-----------------------------------------------------------------------------
(* The books.                                                              *)

\* A step that persists r moves r's account and its ledger together.
LEMMA PersistKeepsDrift ==
  ASSUME TypeOK, LockHolderIsFresh, NEW r \in Requests, AtCommit(r), Persist(r),
         NEW o \in Orgs
  PROVE  Drift(o)' = Drift(o)
<1>1. Payer[r] \in Orgs /\ balance[o] \in Int /\ deposited[o] \in Int
      /\ debited[o] \in Int /\ cost[r] \in Int
  BY CostRange DEF TypeOK
<1>2. CASE NeedsCharge(r)
  <2>1. seen[r] = balance[Payer[r]]
    BY <1>2 DEF AtCommit, LockHolderIsFresh
  <2>2. CASE Payer[r] = o
    <3>1. balance'[o] = balance[o] - cost[r] /\ debited'[o] = debited[o] + cost[r]
          /\ deposited' = deposited
      BY <1>2, <2>1, <2>2 DEF Persist, TypeOK
    <3> QED BY <1>1, <3>1 DEF Drift
  <2>3. CASE Payer[r] # o
    BY <1>2, <2>3 DEF Persist, TypeOK, Drift
  <2> QED BY <2>2, <2>3
<1>3. CASE ~NeedsCharge(r)
  BY <1>3 DEF Persist, Drift
<1> QED BY <1>2, <1>3

(* A step that moves the drift of an account is a stale top-up's.          *)
LEMMA DriftStep ==
  ASSUME TypeOK, LockHolderIsFresh, [Next]_vars, NEW o \in Orgs,
         Drift(o)' # Drift(o)
  PROVE  StaleTopUpCommits(o) /\ o \in overwritten'
<1> USE DEF accountVars
<1>1. ASSUME NEW r \in Requests, CommitUsage(r) PROVE FALSE
  BY <1>1, PersistKeepsDrift DEF CommitUsage
<1>2. ASSUME NEW r \in Requests, LoseCommitAck(r) PROVE FALSE
  BY <1>2, PersistKeepsDrift DEF LoseCommitAck
<1>3. ASSUME NEW d \in TopUps, NEW a \in Amounts, CommitTopUp(d, a)
      PROVE  StaleTopUpCommits(o) /\ o \in overwritten'
  <2>1. CASE Payer[d] = o /\ seen[d] # balance[o]
    BY <1>3, <2>1 DEF CommitTopUp, TypeOK, StaleTopUpCommits
  <2>2. CASE Payer[d] = o /\ seen[d] = balance[o]
    <3>1. balance[o] \in Int /\ deposited[o] \in Int /\ debited[o] \in Int /\ a \in Int
      BY DEF TypeOK
    <3>2. balance'[o] = balance[o] + a /\ deposited'[o] = deposited[o] + a
          /\ debited' = debited
      BY <1>3, <2>2 DEF CommitTopUp, TypeOK
    <3> QED BY <3>1, <3>2 DEF Drift
  <2>3. CASE Payer[d] # o
    BY <1>3, <2>3 DEF CommitTopUp, TypeOK, Drift
  <2> QED BY <2>1, <2>2, <2>3
<1>4. CASE UNCHANGED <<balance, deposited, debited>>
  BY <1>4 DEF Drift
<1>5. CASE \E r \in Requests : Serve(r) \/ Interrupt(r)
  BY <1>1, <1>2, <1>4, <1>5
  DEF Serve, Interrupt, Admit, RefuseUnfunded, RefuseKey, RefuseAdmitted, Answer,
      OpenStream, FinishStream, BreakStream, LockAccount, RejectRow, LoseDatabase,
      Disconnect
<1>6. CASE \E d \in TopUps : TopUp(d)
  BY <1>3, <1>4, <1>6 DEF TopUp, ReadTopUp, FailTopUp
<1>7. CASE Crash \/ UNCHANGED vars
  BY <1>4, <1>7 DEF Crash, vars
<1> QED BY <1>5, <1>6, <1>7 DEF Next

(* Only the COMMIT of a top-up with an outdated read parts a balance from  *)
(* its ledger; no interleaving or failure of metered calls does.           *)
THEOREM DriftCorrect == Spec => DriftOnlyFromStaleTopUp
<1>1. TypeOK /\ LockHolderIsFresh /\ [Next]_vars
        => [\A o \in Orgs : Drift(o)' # Drift(o) => StaleTopUpCommits(o)]_vars
  BY DriftStep
<1> QED BY <1>1, TypeCorrect, LockCorrect, PTL DEF Spec, DriftOnlyFromStaleTopUp

(* An account that was overwritten stays on the list.                      *)
LEMMA OverwrittenStays == [Next]_vars => overwritten \subseteq overwritten'
BY DEF Next, Serve, Interrupt, TopUp, Admit, RefuseUnfunded, RefuseKey, RefuseAdmitted,
       Answer, OpenStream, FinishStream, BreakStream, LockAccount, CommitUsage, RejectRow,
       LoseDatabase, LoseCommitAck, Disconnect, Persist, ReadTopUp, CommitTopUp,
       FailTopUp, Crash, accountVars, vars

(* The books are even when an account is registered.                       *)
LEMMA InitBooks == Init => BooksBalance
BY DEF Init, BooksBalance, Drift

(* A step that makes them uneven puts the account on the list.             *)
LEMMA BooksStep ==
  ASSUME TypeOK, LockHolderIsFresh, BooksBalance, [Next]_vars
  PROVE  BooksBalance'
<1> SUFFICES ASSUME NEW o \in Orgs \ overwritten'
             PROVE  Drift(o)' = 0
  BY DEF BooksBalance, Drift
<1>1. Drift(o)' = Drift(o)
  BY DriftStep
<1>2. o \notin overwritten
  BY OverwrittenStays
<1> QED BY <1>1, <1>2 DEF BooksBalance

(* Unless a top-up overwrote it from a stale read, the balance of an       *)
(* account is the sum of its ledger transactions, for any number of calls, *)
(* streams and failures.                                                   *)
THEOREM BooksCorrect == Spec => []BooksBalance
<1>1. TypeOK /\ LockHolderIsFresh /\ BooksBalance /\ [Next]_vars => BooksBalance'
  BY BooksStep
<1> QED BY <1>1, InitBooks, TypeCorrect, LockCorrect, PTL DEF Spec

-----------------------------------------------------------------------------
(* The usage log.                                                          *)

\* The row of r that is about to be written.
NewRow(r) == [req |-> r, cid |-> cid[r], ok |-> ok[r], cost |-> cost[r]]

(* Rows keyed by correlation id are keyed by call.                         *)
LEMMA OneRow == RowsKeyedByCid => OneRowPerCall
BY DEF RowsKeyedByCid, OneRowPerCall

(* The log is empty initially.                                             *)
LEMMA InitLog == Init => LogInv
BY DEF Init, LogInv, RowsKeyedByCid, ChargeMatchesLog, AnswerIsLast, AnsweredCallIsMetered

\* A call that may still be persisted has no row yet, so it was not charged.
LEMMA UnusedIsUncharged ==
  ASSUME TypeOK, LogInv, NEW r \in Requests, Unused(r)
  PROVE  /\ \A row \in usageLog : row.req # r
         /\ charged[r] = 0
<1>1. \A row \in usageLog : row.req # r
  BY DEF LogInv, RowsKeyedByCid, Unused
<1> QED BY <1>1 DEF LogInv, ChargeMatchesLog, TypeOK

(* What one commit adds to the log and to its call's charge.               *)
LEMMA PersistEffect ==
  ASSUME TypeOK, LogInv, NEW r \in Requests, Persist(r)
  PROVE  /\ usageLog' = usageLog \cup {NewRow(r)}
         /\ charged' = [charged EXCEPT ![r] = IF ok[r] THEN cost[r] ELSE 0]
<1>1. charged[r] = 0 /\ cost[r] \in Nat
  BY UnusedIsUncharged, CostRange DEF Persist, TypeOK
<1>2. CASE NeedsCharge(r)
  BY <1>1, <1>2 DEF Persist, NeedsCharge, NewRow, TypeOK
<1>3. CASE ~NeedsCharge(r)
  <2>1. (IF ok[r] THEN cost[r] ELSE 0) = charged[r]
    BY <1>1, <1>3 DEF NeedsCharge
  <2>2. charged' = charged
    BY <1>3 DEF Persist
  <2> QED BY <2>1, <2>2 DEF Persist, NewRow, TypeOK
<1> QED BY <1>2, <1>3

(* A commit keeps rows, ids and charges in step.                           *)
LEMMA PersistKeepsLog ==
  ASSUME TypeOK, LogInv, NEW r \in Requests, Persist(r), UNCHANGED cid
  PROVE  RowsKeyedByCid' /\ ChargeMatchesLog'
<1>1. /\ usageLog' = usageLog \cup {NewRow(r)}
      /\ charged' = [charged EXCEPT ![r] = IF ok[r] THEN cost[r] ELSE 0]
  BY PersistEffect
<1>2. \A row \in usageLog : row.req # r /\ row.cid # cid[r]
  BY UnusedIsUncharged DEF Persist, Unused
<1>3. RowsKeyedByCid'
  BY <1>1, <1>2 DEF LogInv, RowsKeyedByCid, NewRow
<1>4. ASSUME NEW row \in usageLog', row.ok
      PROVE  charged'[row.req] = row.cost
  <2>1. CASE row \in usageLog
    <3>1. row.req \in Requests /\ row.req # r
      BY <1>2, <2>1 DEF TypeOK, Row
    <3>2. charged[row.req] = row.cost
      BY <1>4, <2>1 DEF LogInv, ChargeMatchesLog
    <3> QED BY <1>1, <3>1, <3>2 DEF TypeOK
  <2>2. CASE row = NewRow(r)
    BY <1>1, <1>4, <2>2 DEF NewRow, TypeOK
  <2> QED BY <1>1, <2>1, <2>2
<1>5. ASSUME NEW q \in Requests, charged'[q] > 0
      PROVE  \E row \in usageLog' : row.req = q /\ row.ok /\ row.cost = charged'[q]
  <2>1. CASE q = r
    <3>1. ok[r] /\ charged'[q] = cost[r]
      BY <1>1, <1>5, <2>1 DEF TypeOK
    <3>2. NewRow(r) \in usageLog' /\ NewRow(r).req = q /\ NewRow(r).ok
          /\ NewRow(r).cost = charged'[q]
      BY <1>1, <2>1, <3>1 DEF NewRow
    <3> QED BY <3>2
  <2>2. CASE q # r
    <3>1. charged'[q] = charged[q]
      BY <1>1, <2>2 DEF TypeOK
    <3> QED BY <1>1, <1>5, <3>1 DEF LogInv, ChargeMatchesLog
  <2> QED BY <2>1, <2>2
<1> QED BY <1>3, <1>4, <1>5 DEF ChargeMatchesLog

\* A step of a call that is not over changes nothing of the others, and of
\* itself only matters here if it tells its caller something.
LEMMA AnswersStep ==
  ASSUME TypeOK, LogInv, NEW r \in Requests, pc[r] # "closed",
         usageLog \subseteq usageLog', UNCHANGED cid,
         \A q \in Requests \ {r} :
           /\ pc'[q] = pc[q] /\ resp'[q] = resp[q]
           /\ charged'[q] = charged[q] /\ cost'[q] = cost[q],
         r \notin Streams =>
           /\ pc'[r] # "streaming"
           /\ resp'[r] = "none" \/ pc'[r] = "closed"
           /\ resp'[r] = "ok" =>
                /\ charged'[r] = cost'[r]
                /\ [req |-> r, cid |-> cid[r], ok |-> TRUE, cost |-> cost'[r]] \in usageLog'
  PROVE  AnswerIsLast' /\ AnsweredCallIsMetered'
<1>1. ASSUME NEW q \in Requests \ Streams
      PROVE  pc'[q] # "streaming" /\ (pc'[q] # "closed" => resp'[q] = "none")
  BY DEF LogInv, AnswerIsLast
<1>2. ASSUME NEW q \in Requests \ Streams, resp'[q] = "ok"
      PROVE  /\ charged'[q] = cost'[q]
             /\ [req |-> q, cid |-> cid'[q], ok |-> TRUE, cost |-> cost'[q]] \in usageLog'
  <2>1. CASE q = r
    BY <1>2, <2>1
  <2>2. CASE q # r
    <3>1. resp[q] = "ok" /\ charged'[q] = charged[q] /\ cost'[q] = cost[q]
      BY <1>2, <2>2
    <3> QED BY <3>1 DEF LogInv, AnsweredCallIsMetered
  <2> QED BY <2>1, <2>2
<1> QED BY <1>1, <1>2 DEF AnswerIsLast, AnsweredCallIsMetered

\* The rows and charges stay as they are.
LEMMA LogUnchanged ==
  ASSUME LogInv, UNCHANGED <<usageLog, charged, cid>>
  PROVE  RowsKeyedByCid' /\ ChargeMatchesLog'
BY DEF LogInv, RowsKeyedByCid, ChargeMatchesLog

(* A plain call whose metering failed is not told 200.                     *)
LEMMA AfterFailureAnswers ==
  ASSUME TypeOK, LogInv, NEW r \in Requests, pc[r] # "closed", AfterFailure(r)
  PROVE  /\ \A q \in Requests \ {r} :
              pc'[q] = pc[q] /\ resp'[q] = resp[q] /\ cost'[q] = cost[q]
         /\ r \notin Streams => resp'[r] = "error" /\ pc'[r] = "closed"
<1>1. r \notin Streams => resp[r] = "none"
  BY DEF LogInv, AnswerIsLast
<1>2. CASE r \in Streams /\ ok[r]
  BY <1>2 DEF AfterFailure, Meter, TypeOK
<1>3. CASE ~(r \in Streams /\ ok[r])
  BY <1>1, <1>3 DEF AfterFailure, Close, TypeOK
<1> QED BY <1>2, <1>3

(* Every step keeps the usage log's invariant.                             *)
LEMMA LogStep ==
  ASSUME TypeOK, LogInv, [Next]_vars
  PROVE  LogInv'
<1> USE DEF accountVars, requestVars
<1>1. ASSUME NEW r \in Requests,
             \/ Admit(r) \/ RefuseUnfunded(r) \/ RefuseKey(r) \/ RefuseAdmitted(r)
             \/ Answer(r) \/ OpenStream(r) \/ FinishStream(r) \/ BreakStream(r)
             \/ LockAccount(r) \/ Disconnect(r)
      PROVE  LogInv'
  <2>1. UNCHANGED <<usageLog, charged, cid>> /\ pc[r] # "closed"
    BY <1>1 DEF Admit, RefuseUnfunded, RefuseKey, RefuseAdmitted, Answer, OpenStream,
                FinishStream, BreakStream, LockAccount, Disconnect
  <2>2. \A q \in Requests \ {r} :
          pc'[q] = pc[q] /\ resp'[q] = resp[q] /\ cost'[q] = cost[q]
    BY <1>1 DEF Admit, RefuseUnfunded, RefuseKey, RefuseAdmitted, Answer, OpenStream,
                FinishStream, BreakStream, LockAccount, Disconnect, Close, Meter, TypeOK
  <2>3. r \notin Streams =>
          /\ pc'[r] # "streaming"
          /\ resp'[r] = "none" \/ pc'[r] = "closed"
          /\ resp'[r] # "ok"
    <3> SUFFICES ASSUME r \notin Streams
                 PROVE  /\ pc'[r] # "streaming"
                        /\ resp'[r] = "none" \/ pc'[r] = "closed"
                        /\ resp'[r] # "ok"
      OBVIOUS
    <3>1. resp[r] = "none" /\ pc[r] # "streaming"
      BY <2>1 DEF LogInv, AnswerIsLast
    <3>2. ASSUME Admit(r) \/ Answer(r) \/ LockAccount(r)
          PROVE  resp' = resp /\ pc'[r] # "streaming"
      BY <3>2 DEF Admit, Answer, LockAccount, Meter, TypeOK
    <3>3. ASSUME RefuseUnfunded(r) \/ RefuseKey(r) \/ RefuseAdmitted(r)
          PROVE  Close(r, "refused")
      BY <3>3 DEF RefuseUnfunded, RefuseKey, RefuseAdmitted
    <3>4. ~(OpenStream(r) \/ FinishStream(r) \/ BreakStream(r) \/ Disconnect(r))
      BY <3>1 DEF OpenStream, FinishStream, BreakStream, Disconnect
    <3>5. CASE resp' = resp /\ pc'[r] # "streaming"
      BY <3>1, <3>5
    <3>6. CASE Close(r, "refused")
      BY <3>1, <3>6 DEF Close, TypeOK
    <3> QED BY <1>1, <3>2, <3>3, <3>4, <3>5, <3>6
  <2> QED BY <2>1, <2>2, <2>3, LogUnchanged, AnswersStep DEF LogInv
<1>2. ASSUME NEW r \in Requests, RejectRow(r) \/ LoseDatabase(r)
      PROVE  LogInv'
  <2>1. /\ UNCHANGED <<usageLog, charged, cid>> /\ pc[r] # "closed"
        /\ AfterFailure(r)
    BY <1>2 DEF RejectRow, LoseDatabase, AtCommit
  <2> QED BY <2>1, LogUnchanged, AfterFailureAnswers, AnswersStep DEF LogInv
<1>3. ASSUME NEW r \in Requests, LoseCommitAck(r)
      PROVE  LogInv'
  <2>1. UNCHANGED cid /\ pc[r] # "closed" /\ AfterFailure(r) /\ Persist(r)
    BY <1>3 DEF LoseCommitAck, AtCommit
  <2>2. usageLog \subseteq usageLog' /\ \A q \in Requests \ {r} : charged'[q] = charged[q]
    BY <2>1, PersistEffect DEF TypeOK
  <2>3. AnswerIsLast' /\ AnsweredCallIsMetered'
    BY <2>1, <2>2, AfterFailureAnswers, AnswersStep
  <2> QED BY <2>1, <2>3, PersistKeepsLog DEF LogInv
<1>4. ASSUME NEW r \in Requests, CommitUsage(r)
      PROVE  LogInv'
  <2>1. UNCHANGED <<cid, cost>> /\ pc[r] # "closed" /\ Persist(r)
    BY <1>4 DEF CommitUsage, AtCommit
  <2>2. /\ usageLog' = usageLog \cup {NewRow(r)}
        /\ charged' = [charged EXCEPT ![r] = IF ok[r] THEN cost[r] ELSE 0]
    BY <2>1, PersistEffect
  <2>3. \A q \in Requests \ {r} :
          pc'[q] = pc[q] /\ resp'[q] = resp[q] /\ charged'[q] = charged[q]
    BY <1>4, <2>2 DEF CommitUsage, Close, TypeOK
  <2>4. r \notin Streams =>
          pc'[r] = "closed" /\ resp'[r] = IF ok[r] THEN "ok" ELSE "error"
    BY <1>4, <2>1 DEF CommitUsage, Close, TypeOK, LogInv, AnswerIsLast
  <2>5. ok[r] =>
          /\ charged'[r] = cost'[r]
          /\ [req |-> r, cid |-> cid[r], ok |-> TRUE, cost |-> cost'[r]] \in usageLog'
    <3> SUFFICES ASSUME ok[r]
                 PROVE  /\ charged'[r] = cost'[r]
                        /\ [req |-> r, cid |-> cid[r], ok |-> TRUE, cost |-> cost'[r]]
                             \in usageLog'
      OBVIOUS
    <3>1. ok[r] = TRUE /\ cost' = cost
      BY <2>1 DEF TypeOK
    <3> QED BY <2>2, <3>1 DEF NewRow, TypeOK
  <2>6. usageLog \subseteq usageLog'
    BY <2>2
  <2>7. AnswerIsLast' /\ AnsweredCallIsMetered'
    BY <2>1, <2>3, <2>4, <2>5, <2>6, AnswersStep
  <2> QED BY <2>1, <2>7, PersistKeepsLog DEF LogInv
<1>5. ASSUME NEW d \in TopUps, TopUp(d)
      PROVE  LogInv'
  <2>1. UNCHANGED <<usageLog, charged, cid, pc, resp, cost>>
    BY <1>5 DEF TopUp, ReadTopUp, CommitTopUp, FailTopUp
  <2> QED BY <2>1, LogUnchanged DEF LogInv, AnswerIsLast, AnsweredCallIsMetered
<1>6. CASE Crash
  <2>1. UNCHANGED <<usageLog, charged, cid, cost>>
    BY <1>6 DEF Crash
  <2>2. ASSUME NEW q \in Requests \ Streams
        PROVE  /\ pc'[q] # "streaming" /\ (pc'[q] # "closed" => resp'[q] = "none")
               /\ resp'[q] = "ok" => resp[q] = "ok"
    BY <1>6 DEF Crash, Active, LogInv, AnswerIsLast, TypeOK
  <2> QED
    BY <2>1, <2>2, LogUnchanged DEF LogInv, AnswerIsLast, AnsweredCallIsMetered
<1>7. CASE UNCHANGED vars
  BY <1>7, LogUnchanged DEF vars, LogInv, AnswerIsLast, AnsweredCallIsMetered
<1> QED
  BY <1>1, <1>2, <1>3, <1>4, <1>5, <1>6, <1>7 DEF Next, Serve, Interrupt

(* The usage log's invariants hold together: they need one another.        *)
THEOREM LogCorrect == Spec => []LogInv
<1>1. TypeOK /\ LogInv /\ [Next]_vars => LogInv'
  BY LogStep
<1> QED BY <1>1, InitLog, TypeCorrect, PTL DEF Spec

(* Every charge is the cost of the call's one status-200 row, and a call   *)
(* without such a row is never charged.                                    *)
THEOREM ChargesMatchLog == Spec => []ChargeMatchesLog
<1>1. LogInv => ChargeMatchesLog
  BY DEF LogInv
<1> QED BY <1>1, LogCorrect, PTL

(* No call is ever logged twice, so none is charged twice.                 *)
THEOREM NoSecondRow == Spec => []OneRowPerCall
<1>1. LogInv => OneRowPerCall
  BY OneRow DEF LogInv
<1> QED BY <1>1, LogCorrect, PTL

(* A non-streaming caller is told of success only once it was charged.     *)
THEOREM AnsweredMeansMetered == Spec => []AnsweredCallIsMetered
<1>1. LogInv => AnsweredCallIsMetered
  BY DEF LogInv
<1> QED BY <1>1, LogCorrect, PTL

-----------------------------------------------------------------------------
(* The abstract ledger.                                                    *)

(* The initial accounts are the ledger's.                                  *)
LEMMA InitLedger == Init => AbstractLedger!Init
BY DEF Init, AbstractLedger!Init, BookBalance

\* The ledger transactions' sums.
LedgerSum == [o \in Orgs |-> deposited[o] - debited[o]]

\* Where the books balance, the abstract balance is what they come to.
LEMMA BooksAreLedger ==
  ASSUME TypeOK, BooksBalance, TypeOK', BooksBalance'
  PROVE  BookBalance = LedgerSum /\ BookBalance' = LedgerSum'
<1>1. \A b, d, e \in Int : b - (d - e) = 0 => b = d - e
  OBVIOUS
<1>2. ASSUME NEW o \in Orgs \ overwritten PROVE balance[o] = deposited[o] - debited[o]
  <2>1. Drift(o) = 0
    BY DEF BooksBalance
  <2>2. balance[o] \in Int /\ deposited[o] \in Int /\ debited[o] \in Int
    BY DEF TypeOK
  <2> QED BY <1>1, <2>1, <2>2 DEF Drift
<1>3. ASSUME NEW o \in Orgs \ overwritten' PROVE balance'[o] = deposited'[o] - debited'[o]
  <2>1. Drift(o)' = 0
    BY DEF BooksBalance
  <2>2. balance'[o] \in Int /\ deposited'[o] \in Int /\ debited'[o] \in Int
    BY DEF TypeOK
  <2> QED BY <1>1, <2>1, <2>2 DEF Drift
<1> QED BY <1>2, <1>3 DEF BookBalance, LedgerSum

\* Persisting a call is an abstract charge, or nothing.
LEMMA PersistImplements ==
  ASSUME TypeOK, TypeOK', BooksBalance, BooksBalance', LockHolderIsFresh, LogInv,
         NEW r \in Requests, AtCommit(r), Persist(r)
  PROVE  \/ \E c \in Costs \ {0} : AbstractLedger!Charge(r, c)
         \/ UNCHANGED <<balance, deposited, debited, charged, overwritten>>
<1>1. CASE ~NeedsCharge(r)
  BY <1>1 DEF Persist
<1>2. CASE NeedsCharge(r)
  <2> DEFINE o == Payer[r]
  <2>1. BookBalance = LedgerSum /\ BookBalance' = LedgerSum'
    BY BooksAreLedger
  <2>2. charged[r] = 0
    BY UnusedIsUncharged DEF Persist
  <2>3. /\ o \in Orgs /\ deposited \in [Orgs -> Int] /\ debited \in [Orgs -> Int]
        /\ cost[r] \in Int
    BY CostRange DEF TypeOK
  <2>4. debited' = [debited EXCEPT ![o] = @ + cost[r]] /\ deposited' = deposited
        /\ charged' = [charged EXCEPT ![r] = @ + cost[r]]
    BY <1>2 DEF Persist
  <2>5. LedgerSum' = [LedgerSum EXCEPT ![o] = @ - cost[r]]
    <3>1. ASSUME NEW x \in Orgs
          PROVE  deposited'[x] - debited'[x] =
                   deposited[x] - debited[x] - (IF x = o THEN cost[r] ELSE 0)
      <4>1. deposited[x] \in Int /\ debited[x] \in Int
        BY <2>3
      <4>2. deposited'[x] = deposited[x]
            /\ debited'[x] = debited[x] + (IF x = o THEN cost[r] ELSE 0)
        BY <2>3, <2>4, <4>1
      <4> QED BY <2>3, <4>1, <4>2
    <3>2. \A x \in Orgs : deposited[x] - debited[x] \in Int
      BY <2>3
    <3> QED BY <3>1, <3>2 DEF LedgerSum
  <2>6. charged' = [charged EXCEPT ![r] = cost[r]]
    <3>1. charged[r] + cost[r] = cost[r]
      BY <2>2, <2>3
    <3> QED BY <2>4, <3>1 DEF TypeOK
  <2>7. AbstractLedger!Charge(r, cost[r])
    BY <2>1, <2>2, <2>4, <2>5, <2>6 DEF AbstractLedger!Charge
  <2>8. cost[r] \in Costs \ {0}
    BY <1>2 DEF NeedsCharge, TypeOK
  <2> QED BY <2>7, <2>8
<1> QED BY <1>1, <1>2

(* Every step is a ledger step or a stutter: a stale top-up's is a credit  *)
(* of the books, which it leaves the balance behind.                       *)
LEMMA LedgerStep ==
  ASSUME TypeOK, TypeOK', BooksBalance, BooksBalance', LockHolderIsFresh, LogInv,
         [Next]_vars
  PROVE  [AbstractLedger!Next]_(AbstractLedger!vars)
<1> USE DEF accountVars, AbstractLedger!vars, AbstractLedger!Next
<1>1. CASE UNCHANGED <<balance, deposited, debited, charged, overwritten>>
  BY <1>1 DEF BookBalance
<1>2. ASSUME NEW r \in Requests, CommitUsage(r) \/ LoseCommitAck(r)
      PROVE  [AbstractLedger!Next]_(AbstractLedger!vars)
  BY <1>1, <1>2, PersistImplements DEF CommitUsage, LoseCommitAck
<1>3. ASSUME NEW d \in TopUps, NEW a \in Amounts, CommitTopUp(d, a)
      PROVE  [AbstractLedger!Next]_(AbstractLedger!vars)
  <2> DEFINE o == Payer[d]
  <2>1. BookBalance = LedgerSum /\ BookBalance' = LedgerSum'
    BY BooksAreLedger
  <2>2. o \in Orgs /\ deposited \in [Orgs -> Int] /\ debited \in [Orgs -> Int]
        /\ a \in Int
    BY DEF TypeOK
  <2>3. deposited' = [deposited EXCEPT ![o] = @ + a] /\ UNCHANGED <<debited, charged>>
    BY <1>3 DEF CommitTopUp
  <2>4. LedgerSum' = [LedgerSum EXCEPT ![o] = @ + a]
    <3>1. ASSUME NEW x \in Orgs
          PROVE  deposited'[x] - debited'[x] =
                   deposited[x] - debited[x] + (IF x = o THEN a ELSE 0)
      <4>1. deposited[x] \in Int /\ debited[x] \in Int
        BY <2>2
      <4>2. debited'[x] = debited[x]
            /\ deposited'[x] = deposited[x] + (IF x = o THEN a ELSE 0)
        BY <2>2, <2>3, <4>1
      <4> QED BY <2>2, <4>1, <4>2
    <3>2. \A x \in Orgs : deposited[x] - debited[x] \in Int
      BY <2>2
    <3> QED BY <3>1, <3>2 DEF LedgerSum
  <2>5. AbstractLedger!Credit(o, a)
    BY <2>1, <2>3, <2>4 DEF AbstractLedger!Credit
  <2> QED BY <2>2, <2>5
<1>4. CASE \E r \in Requests : Serve(r) \/ Interrupt(r)
  BY <1>1, <1>2, <1>4
  DEF Serve, Interrupt, Admit, RefuseUnfunded, RefuseKey, RefuseAdmitted, Answer,
      OpenStream, FinishStream, BreakStream, LockAccount, RejectRow, LoseDatabase,
      Disconnect
<1>5. CASE \E d \in TopUps : TopUp(d)
  BY <1>1, <1>3, <1>5 DEF TopUp, ReadTopUp, FailTopUp
<1>6. CASE Crash \/ UNCHANGED vars
  BY <1>1, <1>6 DEF Crash, vars
<1> QED BY <1>4, <1>5, <1>6 DEF Next

(* Metering implements the ledger: each call is billed at most once and    *)
(* each change of a balance has its transaction, whatever locks, retries,  *)
(* failures and crashes are involved.                                      *)
THEOREM MeteringImplementsLedger == Spec => ImplementsLedger
<1>1. TypeOK /\ TypeOK' /\ BooksBalance /\ BooksBalance' /\ LockHolderIsFresh /\ LogInv
        /\ [Next]_vars => [AbstractLedger!Next]_(AbstractLedger!vars)
  BY LedgerStep
<1> QED
  BY <1>1, InitLedger, TypeCorrect, BooksCorrect, LockCorrect, LogCorrect, PTL
  DEF Spec, ImplementsLedger, AbstractLedger!Spec

-----------------------------------------------------------------------------
(* The overdraft. Each unfinished call keeps MaxCost in reserve: admitting *)
(* one is safe because the balance is then positive, and charging one      *)
(* spends at most what was reserved for it.                                *)

(* The calls that may still charge an account are finitely many.           *)
LEMMA MayChargeFinite ==
  ASSUME NEW o \in Orgs
  PROVE  /\ IsFiniteSet(MayCharge(o)) /\ Cardinality(MayCharge(o)) \in Nat
         /\ IsFiniteSet(MayCharge(o)') /\ Cardinality(MayCharge(o)') \in Nat
         /\ Cardinality(MayCharge(o)) <= Cardinality(Connected)
         /\ Cardinality(Connected) \in Nat
<1>1. MayCharge(o) \subseteq Requests /\ MayCharge(o)' \subseteq Requests
      /\ Connected \subseteq Requests /\ MayCharge(o) \subseteq Connected
  BY DEF MayCharge, Connected
<1> QED BY <1>1, FS_Subset, FS_CardinalityType

\* The bound for b with n calls outstanding still holds for a larger balance
\* and fewer calls.
LEMMA ReserveGrows ==
  ASSUME NEW b1 \in Int, NEW b2 \in Int, NEW n1 \in Nat, NEW n2 \in Nat,
         b1 > -(MaxCost * (PoolSize - n1)), b2 >= b1, n2 <= n1
  PROVE  b2 > -(MaxCost * (PoolSize - n2))
<1>1. MaxCost * (PoolSize - n2) = MaxCost * (PoolSize - n1) + MaxCost * (n1 - n2)
  OBVIOUS
<1>2. MaxCost * (n1 - n2) >= 0
  OBVIOUS
<1> DEFINE x == MaxCost * (PoolSize - n1)
           y == MaxCost * (n1 - n2)
<1>3. x \in Int /\ y \in Int /\ b1 > -x /\ y >= 0
  BY <1>2
<1>4. b2 > -(x + y)
  <2> HIDE DEF x, y
  <2> QED BY <1>3
<1> QED BY <1>1, <1>4

\* A charge of at most MaxCost by a call that is then no longer outstanding.
LEMMA ReserveSpent ==
  ASSUME NEW b \in Int, NEW c \in 0..MaxCost, NEW n1 \in Nat, NEW n2 \in Nat,
         b > -(MaxCost * (PoolSize - n1)), n2 + 1 <= n1
  PROVE  b - c > -(MaxCost * (PoolSize - n2))
<1>1. b > -(MaxCost * (PoolSize - (n2 + 1)))
  BY ReserveGrows, n2 + 1 \in Nat
<1>2. MaxCost * (PoolSize - n2) = MaxCost * (PoolSize - (n2 + 1)) + MaxCost
  OBVIOUS
<1> DEFINE x == MaxCost * (PoolSize - (n2 + 1))
<1>3. x \in Int /\ b > -x
  BY <1>1
<1>4. b - c > -(x + MaxCost)
  <2> HIDE DEF x
  <2> QED BY <1>3
<1> QED BY <1>2, <1>4

(* A step that lets nobody new charge, and takes nothing, keeps the reserve. *)
LEMMA ReserveKept ==
  ASSUME TypeOK, TypeOK', OverdraftReserve, NEW o \in Orgs \ overwritten,
         MayCharge(o)' \subseteq MayCharge(o), balance'[o] >= balance[o]
  PROVE  balance'[o] > -(MaxCost * (PoolSize - Cardinality(MayCharge(o)')))
<1>1. Cardinality(MayCharge(o)') <= Cardinality(MayCharge(o))
  BY MayChargeFinite, FS_Subset
<1>2. balance[o] \in Int /\ balance'[o] \in Int
  BY DEF TypeOK
<1> QED BY <1>1, <1>2, MayChargeFinite, ReserveGrows DEF OverdraftReserve

\* A call that goes on without being charged adds no outstanding call.
LEMMA NoNewCall ==
  ASSUME NEW r \in Requests, Active(r), charged' = charged,
         \A q \in Requests \ {r} : pc'[q] = pc[q], NEW o \in Orgs
  PROVE  MayCharge(o)' \subseteq MayCharge(o)
BY DEF MayCharge, Connected, Active

(* A failing record_usage concerns its own call only.                      *)
LEMMA AfterFailureOthers ==
  ASSUME TypeOK, NEW r \in Requests, AfterFailure(r)
  PROVE  \A q \in Requests \ {r} : pc'[q] = pc[q]
BY DEF AfterFailure, Meter, Close, TypeOK

\* Persisting a call spends its own reserve and nobody else's.
LEMMA PersistKeepsReserve ==
  ASSUME TypeOK, TypeOK', LockHolderIsFresh, LogInv, OverdraftReserve,
         NEW r \in Requests, Active(r), AtCommit(r), Persist(r),
         \A q \in Requests \ {r} : pc'[q] = pc[q], NEW o \in Orgs \ overwritten
  PROVE  balance'[o] > -(MaxCost * (PoolSize - Cardinality(MayCharge(o)')))
<1>1. CASE ~NeedsCharge(r)
  <2>1. charged' = charged /\ balance' = balance
    BY <1>1 DEF Persist
  <2>2. balance'[o] >= balance[o]
    BY <2>1 DEF TypeOK
  <2> QED BY <2>1, <2>2, NoNewCall, ReserveKept
<1>2. CASE NeedsCharge(r)
  <2>1. seen[r] = balance[Payer[r]] /\ Payer[r] \in Orgs
    BY <1>2 DEF AtCommit, LockHolderIsFresh
  <2>2. charged[r] = 0 /\ cost[r] \in 0..MaxCost /\ cost[r] > 0 /\ ok[r]
    BY <1>2, UnusedIsUncharged, CostRange DEF Persist, NeedsCharge
  <2>3. charged' = [charged EXCEPT ![r] = cost[r]]
    BY <2>2, PersistEffect
  <2>4. MayCharge(o)' \subseteq MayCharge(o) \ {r}
    BY <2>2, <2>3 DEF MayCharge, Connected, Active, TypeOK
  <2>5. CASE Payer[r] = o
    <3>1. balance'[o] = balance[o] - cost[r] /\ balance[o] \in Int
      BY <1>2, <2>1, <2>5 DEF Persist, TypeOK
    <3>2. r \in MayCharge(o)
      BY <2>2, <2>5 DEF MayCharge, Connected
    <3>3. Cardinality(MayCharge(o)') + 1 <= Cardinality(MayCharge(o))
      <4>1. IsFiniteSet(MayCharge(o) \ {r})
            /\ Cardinality(MayCharge(o) \ {r}) = Cardinality(MayCharge(o)) - 1
        BY <3>2, MayChargeFinite, FS_RemoveElement
      <4>2. Cardinality(MayCharge(o)') <= Cardinality(MayCharge(o) \ {r})
        BY <2>4, <4>1, FS_Subset
      <4> QED BY <4>1, <4>2, MayChargeFinite
    <3> QED
      BY <2>2, <3>1, <3>3, MayChargeFinite, ReserveSpent DEF OverdraftReserve
  <2>6. CASE Payer[r] # o
    <3>1. balance'[o] = balance[o] /\ balance[o] \in Int
      BY <1>2, <2>6 DEF Persist, TypeOK
    <3>2. balance'[o] >= balance[o]
      BY <3>1
    <3> QED BY <2>4, <3>2, ReserveKept
  <2> QED BY <2>5, <2>6
<1> QED BY <1>1, <1>2

(* An admission finds a positive balance, which covers its reserve.        *)
LEMMA AdmitKeepsReserve ==
  ASSUME TypeOK, TypeOK', OverdraftReserve, NEW r \in Requests, Admit(r),
         NEW o \in Orgs \ overwritten
  PROVE  balance'[o] > -(MaxCost * (PoolSize - Cardinality(MayCharge(o)')))
<1>1. balance' = balance /\ charged' = charged /\ Cardinality(Connected) < PoolSize
  BY DEF Admit, accountVars
<1>2. CASE Payer[r] = o
  <2>1. MayCharge(o)' \subseteq MayCharge(o) \cup {r}
    BY DEF Admit, MayCharge, Connected, Active, TypeOK, accountVars
  <2>2. IsFiniteSet(MayCharge(o) \cup {r})
        /\ Cardinality(MayCharge(o) \cup {r}) <= Cardinality(MayCharge(o)) + 1
    <3>1. IsFiniteSet(MayCharge(o)) /\ Cardinality(MayCharge(o)) \in Nat
      BY MayChargeFinite
    <3>2. /\ IsFiniteSet(MayCharge(o) \cup {r})
          /\ Cardinality(MayCharge(o) \cup {r}) =
               IF r \in MayCharge(o) THEN Cardinality(MayCharge(o))
                                     ELSE Cardinality(MayCharge(o)) + 1
      BY <3>1, FS_AddElement
    <3> QED BY <3>1, <3>2
  <2>3. Cardinality(MayCharge(o)') <= Cardinality(MayCharge(o) \cup {r})
    BY <2>1, <2>2, FS_Subset
  <2>4. Cardinality(MayCharge(o) \cup {r}) \in Nat
    BY <2>2, FS_CardinalityType
  <2>5. Cardinality(MayCharge(o)') <= PoolSize
    <3>1. \A a, b, c, d, p \in Nat :
            a <= b /\ b <= c + 1 /\ c <= d /\ d < p => a <= p
      OBVIOUS
    <3>2. PoolSize \in Nat
      OBVIOUS
    <3> QED BY <1>1, <2>2, <2>3, <2>4, <3>1, <3>2, MayChargeFinite
  <2>6. balance'[o] > 0 /\ balance'[o] \in Int
    BY <1>2 DEF Admit, HasCredit, accountVars, TypeOK
  <2>8. MaxCost * (PoolSize - Cardinality(MayCharge(o)')) >= 0
    BY <2>5, MayChargeFinite
  <2> DEFINE x == MaxCost * (PoolSize - Cardinality(MayCharge(o)'))
  <2>9. x \in Int /\ x >= 0
    BY <2>8, MayChargeFinite
  <2>10. balance'[o] > -x
    <3> HIDE DEF x
    <3> QED BY <2>6, <2>9
  <2> QED BY <2>10
<1>3. CASE Payer[r] # o
  <2>1. MayCharge(o)' \subseteq MayCharge(o)
    BY <1>3 DEF Admit, MayCharge, Connected, Active, TypeOK, accountVars
  <2>2. balance'[o] >= balance[o]
    BY <1>1 DEF TypeOK
  <2> QED BY <2>1, <2>2, ReserveKept
<1> QED BY <1>2, <1>3

(* The opening balance covers the reserve.                                 *)
LEMMA InitReserve == Init => OverdraftReserve
<1> SUFFICES ASSUME Init, NEW o \in Orgs \ overwritten
             PROVE  balance[o] > -(MaxCost * (PoolSize - Cardinality(MayCharge(o))))
  BY DEF OverdraftReserve
<1>1. MayCharge(o) = {}
  BY DEF Init, MayCharge, Connected, Active
<1>2. Cardinality(MayCharge(o)) = 0
  BY <1>1, FS_EmptySet
<1>3. balance[o] > 0 /\ balance[o] \in Int
  BY DEF Init
<1>4. MaxCost * (PoolSize - 0) >= 0 /\ MaxCost * (PoolSize - 0) \in Int
  OBVIOUS
<1> DEFINE x == MaxCost * (PoolSize - 0)
<1>5. balance[o] > -x
  <2>1. x \in Int /\ x >= 0
    BY <1>4
  <2> HIDE DEF x
  <2> QED BY <1>3, <2>1
<1> QED BY <1>2, <1>5

(* Every step keeps the reserve: a charge gives back the place it used.    *)
LEMMA ReserveStep ==
  ASSUME TypeOK, LockHolderIsFresh, LogInv, OverdraftReserve, [Next]_vars
  PROVE  OverdraftReserve'
<1> USE DEF accountVars, requestVars
<1>0. TypeOK'
  BY TypeStep
<1> SUFFICES ASSUME NEW o \in Orgs \ overwritten'
             PROVE  balance'[o] > -(MaxCost * (PoolSize - Cardinality(MayCharge(o)')))
  BY DEF OverdraftReserve
<1>o. o \in Orgs \ overwritten
  BY OverwrittenStays
<1> DEFINE Kept == balance'[o] > -(MaxCost * (PoolSize - Cardinality(MayCharge(o)')))
<1>1. ASSUME balance' = balance, MayCharge(o)' \subseteq MayCharge(o) PROVE Kept
  <2>1. balance'[o] >= balance[o]
    BY <1>1 DEF TypeOK
  <2> QED BY <1>0, <1>o, <1>1, <2>1, ReserveKept
<1>2. ASSUME NEW r \in Requests, Admit(r) PROVE Kept
  BY <1>0, <1>o, <1>2, AdmitKeepsReserve
<1>3. ASSUME NEW r \in Requests, RefuseUnfunded(r) \/ RefuseKey(r) PROVE Kept
  <2>1. MayCharge(o)' \subseteq MayCharge(o)
    BY <1>3 DEF RefuseUnfunded, RefuseKey, Close, MayCharge, Connected, Active, TypeOK
  <2> QED BY <1>1, <1>3, <2>1 DEF RefuseUnfunded, RefuseKey
<1>4. ASSUME NEW r \in Requests,
             \/ RefuseAdmitted(r) \/ Answer(r) \/ OpenStream(r) \/ FinishStream(r)
             \/ BreakStream(r) \/ LockAccount(r) \/ Disconnect(r)
      PROVE  Kept
  <2>1. balance' = balance /\ charged' = charged /\ Active(r)
    BY <1>4 DEF RefuseAdmitted, Answer, OpenStream, FinishStream, BreakStream,
                LockAccount, Disconnect, Active
  <2>2. \A q \in Requests \ {r} : pc'[q] = pc[q]
    BY <1>4 DEF RefuseAdmitted, Answer, OpenStream, FinishStream, BreakStream,
                LockAccount, Disconnect, Close, Meter, TypeOK
  <2> QED BY <1>1, <2>1, <2>2, NoNewCall
<1>5. ASSUME NEW r \in Requests, RejectRow(r) \/ LoseDatabase(r) PROVE Kept
  <2>1. balance' = balance /\ charged' = charged /\ Active(r) /\ AfterFailure(r)
    BY <1>5 DEF RejectRow, LoseDatabase, AtCommit, Active
  <2> QED BY <1>1, <2>1, AfterFailureOthers, NoNewCall
<1>6. ASSUME NEW r \in Requests, CommitUsage(r) PROVE Kept
  <2>1. Active(r) /\ AtCommit(r) /\ Persist(r)
    BY <1>6 DEF CommitUsage, AtCommit, Active
  <2>2. \A q \in Requests \ {r} : pc'[q] = pc[q]
    BY <1>6 DEF CommitUsage, Close, TypeOK
  <2> QED BY <1>0, <1>o, <2>1, <2>2, PersistKeepsReserve
<1>7. ASSUME NEW r \in Requests, LoseCommitAck(r) PROVE Kept
  <2>1. Active(r) /\ AtCommit(r) /\ Persist(r) /\ AfterFailure(r)
    BY <1>7 DEF LoseCommitAck, AtCommit, Active
  <2> QED BY <1>0, <1>o, <2>1, AfterFailureOthers, PersistKeepsReserve
<1>8. ASSUME NEW d \in TopUps, TopUp(d) PROVE Kept
  <2>1. MayCharge(o)' \subseteq MayCharge(o)
    BY <1>8 DEF TopUp, ReadTopUp, CommitTopUp, FailTopUp, MayCharge, Connected, Active
  <2>2. ASSUME NEW a \in Amounts, CommitTopUp(d, a)
        PROVE  balance'[o] >= balance[o]
    <3>1. Payer[d] \in Orgs /\ a \in Nat /\ balance[o] \in Int
      BY <1>8, <2>2 DEF CommitTopUp, TypeOK
    <3>2. Payer[d] = o => seen[d] = balance[o]
      BY <2>2 DEF CommitTopUp
    <3>3. balance'[o] = balance[o] \/ balance'[o] = balance[o] + a
      BY <2>2, <3>1, <3>2 DEF CommitTopUp, TypeOK
    <3> QED BY <3>1, <3>3
  <2>3. ASSUME ReadTopUp(d) \/ FailTopUp(d)
        PROVE  balance' = balance
    BY <2>3 DEF ReadTopUp, FailTopUp
  <2>4. CASE \E a \in Amounts : CommitTopUp(d, a)
    <3>1. balance'[o] >= balance[o]
      BY <2>2, <2>4
    <3> QED BY <1>0, <1>o, <2>1, <3>1, ReserveKept
  <2>5. CASE ReadTopUp(d) \/ FailTopUp(d)
    BY <1>1, <2>1, <2>3, <2>5
  <2> QED BY <1>8, <2>4, <2>5 DEF TopUp
<1>9. CASE Crash
  <2>1. MayCharge(o)' \subseteq MayCharge(o)
    BY <1>9 DEF Crash, MayCharge, Connected, Active, TypeOK
  <2> QED BY <1>1, <1>9, <2>1 DEF Crash
<1>10. CASE UNCHANGED vars
  BY <1>1, <1>10 DEF vars, MayCharge, Connected, Active
<1> QED
  BY <1>2, <1>3, <1>4, <1>5, <1>6, <1>7, <1>8, <1>9, <1>10 DEF Next, Serve, Interrupt

(* The reserve bounds the overdraft.                                       *)
LEMMA ReserveBounds ==
  ASSUME TypeOK, OverdraftReserve
  PROVE  OverdraftBounded
<1> SUFFICES ASSUME NEW o \in Orgs \ overwritten
             PROVE  balance[o] > -(MaxCost * PoolSize)
  BY DEF OverdraftBounded
<1>1. balance[o] > -(MaxCost * (PoolSize - 0))
  <2>1. balance[o] \in Int /\ balance[o] >= balance[o]
    BY DEF TypeOK
  <2>2. Cardinality(MayCharge(o)) \in Nat /\ 0 \in Nat
        /\ 0 <= Cardinality(MayCharge(o))
    BY MayChargeFinite
  <2>3. balance[o] > -(MaxCost * (PoolSize - Cardinality(MayCharge(o))))
    BY DEF OverdraftReserve
  <2> QED BY <2>1, <2>2, <2>3, ReserveGrows
<1> QED BY <1>1

(* Unless a stale top-up overwrote it, an account is never overdrawn by as *)
(* much as the largest cost times the size of the connection pool.         *)
THEOREM OverdraftCorrect == Spec => []OverdraftBounded
<1>1. TypeOK /\ LockHolderIsFresh /\ LogInv /\ OverdraftReserve /\ [Next]_vars
        => OverdraftReserve'
  BY ReserveStep
<1>2. TypeOK /\ OverdraftReserve => OverdraftBounded
  BY ReserveBounds
<1> QED
  BY <1>1, <1>2, InitReserve, TypeCorrect, LockCorrect, LogCorrect, PTL DEF Spec

-----------------------------------------------------------------------------
(* Costs.                                                                  *)

(* Quantize goes to the nearest unit.                                      *)
LEMMA QuantizeIsClose ==
  ASSUME NEW n \in Nat
  PROVE  /\ Quantize(n) \in Nat
         /\ 2 * (PriceUnit * Quantize(n) - n) <= PriceUnit
         /\ 2 * (n - PriceUnit * Quantize(n)) <= PriceUnit
<1> DEFINE q == n \div PriceUnit
           r == n % PriceUnit
<1>1. q \in Nat /\ r \in 0..(PriceUnit - 1) /\ n = PriceUnit * q + r
  BY DEF PriceUnit
<1>2. \/ Quantize(n) = q + 1 /\ 2 * r >= PriceUnit
      \/ Quantize(n) = q /\ 2 * r <= PriceUnit
  <2>1. CASE 2 * r > PriceUnit
    BY <1>1, <2>1 DEF Quantize, PriceUnit
  <2>2. CASE 2 * r = PriceUnit
    BY <1>1, <2>2 DEF Quantize, PriceUnit
  <2>3. CASE 2 * r < PriceUnit
    BY <1>1, <2>3 DEF Quantize, PriceUnit
  <2> QED
    BY <1>1, <2>1, <2>2, <2>3 DEF PriceUnit
<1> HIDE DEF q, r
<1> QED
  BY <1>1, <1>2 DEF PriceUnit

(* No call is charged, or let off, more than half a unit for rounding, so  *)
(* that one whose tokens are worth more than that is never free            *)
(* (usage.py:61).                                                          *)
THEOREM CostIsFair ==
  ASSUME NEW usage \in [prompt : Nat, promptPrice : Nat,
                        completion : Nat, completionPrice : Nat]
  PROVE  LET exact == usage.prompt * usage.promptPrice
                      + usage.completion * usage.completionPrice
         IN  /\ 2 * (PriceUnit * CostOf(usage) - exact) <= PriceUnit
             /\ 2 * (exact - PriceUnit * CostOf(usage)) <= PriceUnit
             /\ 2 * exact > PriceUnit => CostOf(usage) > 0
<1> DEFINE exact == usage.prompt * usage.promptPrice
                    + usage.completion * usage.completionPrice
<1>1. exact \in Nat
  OBVIOUS
<1>2. CostOf(usage) = Quantize(exact)
  BY DEF CostOf
<1> HIDE DEF exact
<1>3. /\ Quantize(exact) \in Nat
      /\ 2 * (PriceUnit * Quantize(exact) - exact) <= PriceUnit
      /\ 2 * (exact - PriceUnit * Quantize(exact)) <= PriceUnit
  BY <1>1, QuantizeIsClose
<1>4. 2 * exact > PriceUnit => Quantize(exact) > 0
  BY <1>1, <1>3 DEF PriceUnit
<1> QED
  BY <1>2, <1>3, <1>4 DEF exact

-----------------------------------------------------------------------------
(* The database connections of the same calls. The pool never lends more   *)
(* than it has, and only streams can starve it.                            *)

(* The calls at some labels are finitely many.                             *)
LEMMA AtFinite ==
  ASSUME NEW labels
  PROVE  IsFiniteSet(At(labels)) /\ Cardinality(At(labels)) \in Nat
<1>1. At(labels) \subseteq Requests
  BY DEF At
<1> QED
  BY <1>1, CallsAssumption, FS_Subset, FS_CardinalityType

(* A finite set that gains at most one element grows by at most one.       *)
LEMMA GrowsByOne ==
  ASSUME NEW S, NEW T, NEW c, IsFiniteSet(S), IsFiniteSet(T), T \subseteq S \cup {c}
  PROVE  Cardinality(T) <= Cardinality(S) + 1
<1>1. /\ IsFiniteSet(S \cup {c})
      /\ Cardinality(S \cup {c}) = Cardinality(S)
           \/ Cardinality(S \cup {c}) = Cardinality(S) + 1
  BY FS_AddElement
<1>2. Cardinality(T) <= Cardinality(S \cup {c})
  BY <1>1, FS_Subset
<1>3. Cardinality(S) \in Nat /\ Cardinality(T) \in Nat
  BY FS_CardinalityType
<1> QED
  BY <1>1, <1>2, <1>3

(* A set that only loses elements does not get larger.                     *)
LEMMA Shrinks ==
  ASSUME NEW S, NEW T, IsFiniteSet(S), T \subseteq S
  PROVE  Cardinality(T) <= Cardinality(S)
  BY FS_Subset

(* The connections in use are a natural number.                            *)
LEMMA UsedIsNat ==
  /\ Cardinality(Holding) \in Nat /\ Cardinality(HoldingTwo) \in Nat
  /\ Cardinality(Holding') \in Nat /\ Cardinality(HoldingTwo') \in Nat
  /\ IsFiniteSet(Holding) /\ IsFiniteSet(HoldingTwo)
  /\ IsFiniteSet(Holding') /\ IsFiniteSet(HoldingTwo')
<1>1. IsFiniteSet(Holding) /\ IsFiniteSet(HoldingTwo)
  BY AtFinite DEF Holding, HoldingTwo
<1>2. Holding' \subseteq Requests /\ HoldingTwo' \subseteq Requests
  BY DEF Holding, HoldingTwo, At
<1>3. IsFiniteSet(Holding') /\ IsFiniteSet(HoldingTwo')
  BY <1>2, CallsAssumption, FS_Subset
<1> QED
  BY <1>1, <1>3, FS_CardinalityType

(* A step that lets nobody hold more keeps within the pool.                *)
LEMMA GivingBack ==
  ASSUME Used <= PoolSize, Holding' \subseteq Holding, HoldingTwo' \subseteq HoldingTwo
  PROVE  Used' <= PoolSize
<1>1. /\ Cardinality(Holding') <= Cardinality(Holding)
      /\ Cardinality(HoldingTwo') <= Cardinality(HoldingTwo)
  BY UsedIsNat, Shrinks
<1>2. Used' = Cardinality(Holding') + Cardinality(HoldingTwo')
  BY DEF Used
<1>3. \A a, b, x, y, n \in Nat : a + b <= n /\ x <= a /\ y <= b => x + y <= n
  OBVIOUS
<1>4. Cardinality(Holding) + Cardinality(HoldingTwo) <= PoolSize
  BY DEF Used
<1> QED
  BY <1>1, <1>2, <1>3, <1>4, UsedIsNat, CallsAssumption

(* A checkout adds one connection to what one call holds.                  *)
LEMMA Lending ==
  ASSUME PoolTypeOK, NEW c \in Requests, CheckOut(c)
  PROVE  Used' <= PoolSize
<1>1. Used < PoolSize
  BY DEF CheckOut
<1>2. \/ Holding' \subseteq Holding \cup {c} /\ HoldingTwo' \subseteq HoldingTwo
      \/ Holding' \subseteq Holding /\ HoldingTwo' \subseteq HoldingTwo \cup {c}
  BY DEF CheckOut, Move, Holding, HoldingTwo, At, PoolTypeOK
<1>3. \/ /\ Cardinality(Holding') <= Cardinality(Holding) + 1
         /\ Cardinality(HoldingTwo') <= Cardinality(HoldingTwo)
      \/ /\ Cardinality(Holding') <= Cardinality(Holding)
         /\ Cardinality(HoldingTwo') <= Cardinality(HoldingTwo) + 1
  BY <1>2, UsedIsNat, GrowsByOne, Shrinks
<1>4. /\ Used' = Cardinality(Holding') + Cardinality(HoldingTwo')
      /\ Used = Cardinality(Holding) + Cardinality(HoldingTwo)
  BY DEF Used
<1>5. \A a, b, x, y, n \in Nat :
        a + b < n /\ ((x <= a + 1 /\ y <= b) \/ (x <= a /\ y <= b + 1)) => x + y <= n
  OBVIOUS
<1> QED
  BY <1>1, <1>3, <1>4, <1>5, UsedIsNat, CallsAssumption

(* For any calls and any pool: no more connections are lent than it has.   *)
THEOREM PoolCorrect == PoolSpec => []PoolTypeOK
<1>1. PoolInit => PoolTypeOK
  <2> SUFFICES ASSUME PoolInit PROVE PoolTypeOK
    OBVIOUS
  <2>1. Holding = {} /\ HoldingTwo = {}
    BY DEF PoolInit, Holding, HoldingTwo, At
  <2>2. Used = 0
    BY <2>1, FS_EmptySet DEF Used
  <2> QED
    BY <2>2, CallsAssumption DEF PoolInit, PoolTypeOK, Places
<1>2. PoolTypeOK /\ [PoolNext]_at => PoolTypeOK'
  <2> SUFFICES ASSUME PoolTypeOK, [PoolNext]_at PROVE PoolTypeOK'
    OBVIOUS
  <2>1. at' \in [Requests -> Places]
    <3>1. ASSUME NEW c \in Requests, Arrive(c) \/ CheckOut(c) \/ TimeOut(c) \/ Finish(c)
          PROVE  at' \in [Requests -> Places]
      BY <3>1 DEF Arrive, CheckOut, TimeOut, Finish, Move, PoolTypeOK, Places
    <3>2. ASSUME NEW c \in Requests, Stream(c) \/ EndStream(c) \/ Record(c) \/ HangUp(c)
          PROVE  at' \in [Requests -> Places]
      BY <3>2 DEF Stream, EndStream, Record, HangUp, Move, PoolTypeOK, Places
    <3>3. ASSUME UNCHANGED at PROVE at' \in [Requests -> Places]
      BY <3>3 DEF PoolTypeOK
    <3> QED
      BY <3>1, <3>2, <3>3 DEF PoolNext, Step
  <2>2. ASSUME NEW c \in Requests, CheckOut(c) PROVE Used' <= PoolSize
    BY <2>2, Lending
  <2>3. ASSUME NEW c \in Requests,
               \/ Arrive(c) \/ TimeOut(c) \/ Finish(c) \/ Stream(c)
               \/ EndStream(c) \/ Record(c) \/ HangUp(c)
        PROVE  Used' <= PoolSize
    <3>1. Holding' \subseteq Holding /\ HoldingTwo' \subseteq HoldingTwo
      BY <2>3
      DEF Arrive, TimeOut, Finish, Stream, EndStream, Record, HangUp, Move,
          Holding, HoldingTwo, At, PoolTypeOK
    <3> QED
      BY <3>1, GivingBack DEF PoolTypeOK
  <2>4. ASSUME UNCHANGED at PROVE Used' <= PoolSize
    <3>1. Holding' \subseteq Holding /\ HoldingTwo' \subseteq HoldingTwo
      BY <2>4 DEF Holding, HoldingTwo, At
    <3> QED
      BY <3>1, GivingBack DEF PoolTypeOK
  <2>5. Used' <= PoolSize
    <3>1. CASE PoolNext
      <4> PICK c \in Requests : Arrive(c) \/ Step(c) \/ HangUp(c)
        BY <3>1 DEF PoolNext
      <4> QED
        BY <2>2, <2>3 DEF Step
    <3> QED
      BY <2>4, <3>1
  <2> QED
    BY <2>1, <2>5 DEF PoolTypeOK
<1> QED
  BY <1>1, <1>2, PTL DEF PoolSpec

-----------------------------------------------------------------------------
(* Only streams ask while they hold.                                       *)

OnlyStreamsAskTwice == At({"metering", "failing", "streaming", "recording"}) \subseteq Streams

(* No plain call is ever metered on a second session.                      *)
LEMMA StreamsAskTwice == PoolSpec => []OnlyStreamsAskTwice
<1>1. PoolInit => OnlyStreamsAskTwice
  BY DEF PoolInit, OnlyStreamsAskTwice, At
<1>2. PoolTypeOK /\ OnlyStreamsAskTwice /\ [PoolNext]_at => OnlyStreamsAskTwice'
  BY DEF PoolTypeOK, OnlyStreamsAskTwice, At, PoolNext, Step, Arrive, CheckOut, TimeOut,
         Finish, Stream, EndStream, Record, HangUp, Move
<1> QED
  BY <1>1, <1>2, PoolCorrect, PTL DEF PoolSpec

(* Whatever the sizes: a pool whose connections are all lent to calls that *)
(* ask for more is lent to that many streams, each holding its first.      *)
THEOREM StarvationIsStreams == PoolSpec => []StarvedByStreams
<1>1. PoolTypeOK /\ OnlyStreamsAskTwice => StarvedByStreams
  <2> SUFFICES ASSUME PoolTypeOK, OnlyStreamsAskTwice, Starved
               PROVE  Cardinality(Streams \cap At({"metering", "failing"})) = PoolSize
    BY DEF StarvedByStreams
  <2>1. Holding = Streams \cap At({"metering", "failing"})
    BY DEF Starved, Holding, Asking, OnlyStreamsAskTwice, At
  <2>2. HoldingTwo = {}
    BY DEF Starved, Holding, HoldingTwo, Asking, At
  <2>3. Used = Cardinality(Holding)
    BY <2>2, FS_EmptySet, UsedIsNat DEF Used
  <2> QED
    BY <2>1, <2>3 DEF Starved
<1> QED
  BY <1>1, PoolCorrect, StreamsAskTwice, PTL

-----------------------------------------------------------------------------
(* The reports.                                                            *)

ReportInv ==
  /\ IsFiniteSet(usageLog)
  /\ \A o \in Orgs : TotalCost(o) = debited[o] + FailedCost(o)

(* The reports are sums of natural numbers.                                *)
LEMMA ReportSums ==
  ASSUME TypeOK, IsFiniteSet(usageLog)
  PROVE  /\ \A row \in usageLog : CostOfRow[row] = row.cost /\ row.cost \in Nat
         /\ \A A \in SUBSET usageLog : SumOf(CostOfRow, A) \in Nat
         /\ \A o \in Orgs : /\ RowsOf(o) \subseteq usageLog
                            /\ FailedRowsOf(o) \subseteq usageLog
                            /\ TotalCost(o) = SumOf(CostOfRow, RowsOf(o))
                            /\ FailedCost(o) = SumOf(CostOfRow, FailedRowsOf(o))
<1>1. \A row \in usageLog : CostOfRow[row] = row.cost /\ row.cost \in Nat
  BY DEF TypeOK, Row, CostOfRow
<1>2. \A A \in SUBSET usageLog : SumOf(CostOfRow, A) \in Nat
  BY <1>1, SumType
<1>3. \A o \in Orgs : RowsOf(o) \subseteq usageLog /\ FailedRowsOf(o) \subseteq usageLog
  BY DEF RowsOf, FailedRowsOf
<1> QED
  BY <1>1, <1>2, <1>3, SumFunctionIs DEF TotalCost, FailedCost

(* A new row adds its cost to the sums that it is part of, and to no other.*)
LEMMA RowAdds ==
  ASSUME TypeOK, TypeOK', IsFiniteSet(usageLog), NEW x, x \notin usageLog,
         usageLog' = usageLog \cup {x}, NEW A \in SUBSET usageLog
  PROVE  /\ SumOf(CostOfRow', A) = SumOf(CostOfRow, A)
         /\ SumOf(CostOfRow', A \cup {x}) = SumOf(CostOfRow, A) + x.cost
<1>1. IsFiniteSet(A) /\ x \notin A
  BY FS_Subset
<1>2. \A row \in usageLog' : CostOfRow'[row] = row.cost /\ row.cost \in Nat
  BY DEF TypeOK, Row, CostOfRow
<1>3. \A row \in A : CostOfRow'[row] = CostOfRow[row]
  BY <1>2 DEF CostOfRow
<1>4. SumOf(CostOfRow', A) = SumOf(CostOfRow, A)
  BY <1>1, <1>3, SumSame
<1>5. \A row \in A \cup {x} : CostOfRow'[row] \in Nat
  BY <1>2
<1>6. SumOf(CostOfRow', A \cup {x}) = SumOf(CostOfRow', A) + CostOfRow'[x]
  BY <1>1, <1>5, SumAdd
<1>7. CostOfRow'[x] = x.cost
  BY <1>2
<1> QED
  BY <1>4, <1>6, <1>7

(* A commit shows a cost where it is charged, or shows it as failed.       *)
LEMMA PersistReports ==
  ASSUME TypeOK, TypeOK', LogInv, ReportInv, NEW r \in Requests, Persist(r)
  PROVE  ReportInv'
<1> DEFINE x == NewRow(r)
<1>1. usageLog' = usageLog \cup {x}
  BY PersistEffect
<1>2. /\ x \notin usageLog /\ x.req = r /\ x.ok = ok[r] /\ x.cost = cost[r]
      /\ ok[r] \in BOOLEAN /\ cost[r] \in Nat
  BY UnusedIsUncharged, CostRange DEF Persist, NewRow, TypeOK
<1> HIDE DEF x
<1>3. IsFiniteSet(usageLog) /\ IsFiniteSet(usageLog')
  BY <1>1, FS_AddElement DEF ReportInv
<1>4. ASSUME NEW o \in Orgs PROVE TotalCost(o)' = debited'[o] + FailedCost(o)'
  <2>1. TotalCost(o)' = SumOf(CostOfRow', RowsOf(o)')
        /\ FailedCost(o)' = SumOf(CostOfRow', FailedRowsOf(o)')
    BY SumFunctionIs DEF TotalCost, FailedCost
  <2>2. /\ TotalCost(o) = SumOf(CostOfRow, RowsOf(o))
        /\ FailedCost(o) = SumOf(CostOfRow, FailedRowsOf(o))
        /\ RowsOf(o) \in SUBSET usageLog /\ FailedRowsOf(o) \in SUBSET usageLog
        /\ TotalCost(o) \in Nat /\ FailedCost(o) \in Nat /\ debited[o] \in Nat
    BY <1>3, ReportSums DEF TypeOK
  <2>3. TotalCost(o) = debited[o] + FailedCost(o)
    BY DEF ReportInv
  <2>4. /\ RowsOf(o)' = IF Payer[r] = o THEN RowsOf(o) \cup {x} ELSE RowsOf(o)
        /\ FailedRowsOf(o)' = IF Payer[r] = o /\ ~ok[r] THEN FailedRowsOf(o) \cup {x}
                              ELSE FailedRowsOf(o)
    BY <1>1, <1>2 DEF RowsOf, FailedRowsOf
  <2>5. debited'[o] = IF Payer[r] = o /\ ok[r] THEN debited[o] + cost[r] ELSE debited[o]
    BY <1>2, <2>2 DEF Persist, NeedsCharge, TypeOK
  <2>6. /\ TotalCost(o)' = IF Payer[r] = o THEN TotalCost(o) + cost[r] ELSE TotalCost(o)
        /\ FailedCost(o)' = IF Payer[r] = o /\ ~ok[r] THEN FailedCost(o) + cost[r]
                            ELSE FailedCost(o)
    <3>1. \A A \in SUBSET usageLog :
            /\ SumOf(CostOfRow', A) = SumOf(CostOfRow, A)
            /\ SumOf(CostOfRow', A \cup {x}) = SumOf(CostOfRow, A) + cost[r]
      BY <1>1, <1>2, <1>3, RowAdds
    <3> QED
      BY <2>1, <2>2, <2>4, <3>1
  <2> QED
    BY <1>2, <2>2, <2>3, <2>5, <2>6
<1> QED
  BY <1>3, <1>4 DEF ReportInv

(* Only a commit writes what the reports read.                             *)
LEMMA ReportStep ==
  ASSUME TypeOK, TypeOK', LogInv, ReportInv, [Next]_vars
  PROVE  ReportInv'
<1>1. ASSUME UNCHANGED <<usageLog, debited>> PROVE ReportInv'
  BY <1>1 DEF ReportInv, TotalCost, FailedCost, FailedRowsOf, RowsOf, CostOfRow
<1>2. ASSUME NEW r \in Requests, Serve(r) \/ Interrupt(r)
      PROVE  Persist(r) \/ UNCHANGED <<usageLog, debited>>
  BY <1>2 DEF Serve, Interrupt, accountVars, Admit, RefuseUnfunded, RefuseKey, Answer,
              OpenStream, FinishStream, BreakStream, LockAccount, CommitUsage, RejectRow,
              RefuseAdmitted, LoseDatabase, LoseCommitAck, Disconnect
<1>3. ASSUME NEW d \in TopUps, TopUp(d) PROVE UNCHANGED <<usageLog, debited>>
  BY <1>3 DEF TopUp, ReadTopUp, CommitTopUp, FailTopUp, accountVars
<1>4. ASSUME Crash \/ UNCHANGED vars PROVE UNCHANGED <<usageLog, debited>>
  BY <1>4 DEF Crash, accountVars, vars
<1> QED
  BY <1>1, <1>2, <1>3, <1>4, PersistReports DEF Next

(* What an organization is shown adds up for all of them.                  *)
LEMMA ReportsAddUp == TypeOK /\ ReportInv => ReportsAgree
<1> SUFFICES ASSUME TypeOK, ReportInv PROVE TotalCosts = Revenue + FailedCosts
  BY DEF ReportInv, ReportsAgree
<1> DEFINE T == [o \in Orgs |-> TotalCost(o)]
           F == [o \in Orgs |-> FailedCost(o)]
<1>1. \A o \in Orgs : debited[o] \in Nat /\ FailedCost(o) \in Nat
                      /\ TotalCost(o) = debited[o] + FailedCost(o)
  BY ReportSums DEF ReportInv, TypeOK
<1>2. \A o \in Orgs : debited[o] \in Nat /\ F[o] \in Nat /\ T[o] = debited[o] + F[o]
  BY <1>1
<1>3. TotalCosts = SumOf(T, Orgs) /\ FailedCosts = SumOf(F, Orgs)
      /\ Revenue = SumOf(debited, Orgs)
  BY SumFunctionIs DEF TotalCosts, FailedCosts, Revenue
<1> HIDE DEF T, F
<1>4. SumOf(T, Orgs) = SumOf(debited, Orgs) + SumOf(F, Orgs)
  BY <1>2, OrgsFinite, SumPlus
<1> QED
  BY <1>3, <1>4

(* At every moment, for any organizations and calls, the costs shown are   *)
(* the charges and the prices of failed calls (dashboard/routes.py:367).   *)
THEOREM ReportsCorrect == Spec => []ReportsAgree
<1>1. Init => ReportInv
  <2> SUFFICES ASSUME Init PROVE ReportInv
    OBVIOUS
  <2>1. usageLog = {} /\ IsFiniteSet(usageLog) /\ \A o \in Orgs : debited[o] = 0
    BY FS_EmptySet DEF Init
  <2>2. \A o \in Orgs : RowsOf(o) = {} /\ FailedRowsOf(o) = {}
    BY <2>1 DEF RowsOf, FailedRowsOf
  <2>3. \A F : SumOf(F, {}) = 0
    BY SumFirst, FS_EmptySet
  <2>4. \A o \in Orgs : TotalCost(o) = 0 /\ FailedCost(o) = 0
    BY <2>2, <2>3, SumFunctionIs DEF TotalCost, FailedCost
  <2> QED
    BY <2>1, <2>4 DEF ReportInv
<1>2. TypeOK /\ TypeOK' /\ LogInv /\ ReportInv /\ [Next]_vars => ReportInv'
  BY ReportStep
<1> QED
  BY <1>1, <1>2, ReportsAddUp, TypeCorrect, LogCorrect, PTL DEF Spec

=============================================================================
