------------------------ MODULE ConversationProofs -------------------------
(***************************************************************************)
(* Proofs about Conversation, for any tools, shapes of messages and length *)
(* of the conversation.                                                    *)
(***************************************************************************)
EXTENDS Conversation, FiniteSetTheorems, SequenceTheorems, WellFoundedInduction, TLAPS

-----------------------------------------------------------------------------
(* Induction over the naturals and over sequences, with the property as a  *)
(* set.                                                                    *)

\* A set that holds 0 and the successor of each of its numbers holds all.
LEMMA NatInd ==
  ASSUME NEW T, 0 \in T, \A n \in Nat : n \in T => n + 1 \in T
  PROVE  \A n \in Nat : n \in T
<1> SUFFICES ASSUME \E n \in Nat : n \notin T PROVE FALSE
  OBVIOUS
<1> DEFINE Less == {p \in Nat \X Nat : p[1] < p[2]}
<1>1. Less = OpToRel(<, Nat)
  BY DEF OpToRel
<1>2. IsWellFoundedOn(Less, Nat)
  BY <1>1, NatLessThanWellFounded, Zenon
<1> HIDE DEF Less
<1>3. PICK m \in Nat \ T : \A n \in Nat \ T : ~ (<<n, m>> \in Less)
  BY <1>2, WFMin, Zenon
<1>4. m - 1 \in Nat \ T
  BY <1>3
<1>5. <<m - 1, m>> \in Less
  BY <1>4 DEF Less
<1> QED
  BY <1>3, <1>4, <1>5

\* A set that holds <<>> and, of each sequence in it, its extensions.
LEMMA SeqInd ==
  ASSUME NEW S, NEW T, <<>> \in T, \A s \in Seq(S), x \in S : s \in T => Append(s, x) \in T
  PROVE  \A s \in Seq(S) : s \in T
<1> DEFINE N == {n \in Nat : \A s \in Seq(S) : Len(s) = n => s \in T}
<1>1. 0 \in N
  OBVIOUS
<1>2. ASSUME NEW n \in Nat, n \in N PROVE n + 1 \in N
  <2> SUFFICES ASSUME NEW s \in Seq(S), Len(s) = n + 1 PROVE s \in T
    OBVIOUS
  <2> DEFINE f == SubSeq(s, 1, n)
  <2>1. f \in Seq(S) /\ Len(f) = n /\ s[n + 1] \in S /\ s = Append(f, s[n + 1])
    OBVIOUS
  <2>2. f \in T
    BY <1>2, <2>1
  <2> QED
    BY <2>1, <2>2
<1> HIDE DEF N
<1>3. \A n \in Nat : n \in N
  BY <1>1, <1>2, NatInd
<1> QED
  BY <1>3 DEF N

-----------------------------------------------------------------------------
(* FlattenSeq.                                                             *)

\* f is the recursive function of FlattenSeq.
FlattenRule(ss, n, f) ==
  f = [i \in 1..n |-> IF i = 1 THEN ss[i] ELSE f[i - 1] \o ss[i]]

\* There is a function with the rule, for any length.
LEMMA FlattenDefined ==
  ASSUME NEW ss
  PROVE  \A n \in Nat : \E f : FlattenRule(ss, n, f)
<1> DEFINE T == {n \in Nat : \E f : FlattenRule(ss, n, f)}
<1>1. 0 \in T
  <2>1. FlattenRule(ss, 0, [i \in 1..0 |-> 0])
    BY DEF FlattenRule
  <2> QED
    BY <2>1
<1>2. ASSUME NEW n \in Nat, n \in T PROVE n + 1 \in T
  <2>1. PICK f : FlattenRule(ss, n, f)
    BY <1>2
  <2> DEFINE next == IF n = 0 THEN ss[n + 1] ELSE f[n] \o ss[n + 1]
             g == [i \in 1..(n + 1) |-> IF i <= n THEN f[i] ELSE next]
             h == [i \in 1..(n + 1) |-> IF i = 1 THEN ss[i] ELSE g[i - 1] \o ss[i]]
  <2>2. ASSUME NEW i \in 1..n PROVE f[i] = IF i = 1 THEN ss[i] ELSE f[i - 1] \o ss[i]
    BY <2>1 DEF FlattenRule
  <2>3. ASSUME NEW i \in 1..(n + 1) PROVE g[i] = h[i]
    <3>1. CASE i <= n
      <4>1. i \in 1..n /\ (i # 1 => i - 1 \in 1..n)
        BY <3>1
      <4> QED
        BY <2>2, <4>1
    <3>2. CASE i = n + 1
      BY <3>2
    <3> QED
      BY <3>1, <3>2
  <2>4. g = h
    BY <2>3
  <2>5. FlattenRule(ss, n + 1, g)
    BY <2>4 DEF FlattenRule
  <2> HIDE DEF g
  <2> QED
    BY <2>5
<1> HIDE DEF T
<1>3. \A n \in Nat : n \in T
  BY <1>1, <1>2, NatInd
<1> QED
  BY <1>3 DEF T

\* What the function returns, one sequence further.
LEMMA FlattenStep ==
  ASSUME NEW ss, NEW n \in Nat, NEW f, FlattenRule(ss, n, f)
  PROVE  \A k \in 0..(n - 1) : f[k + 1] = IF k = 0 THEN ss[1] ELSE f[k] \o ss[k + 1]
<1> SUFFICES ASSUME NEW k \in 0..(n - 1)
             PROVE  f[k + 1] = IF k = 0 THEN ss[1] ELSE f[k] \o ss[k + 1]
  OBVIOUS
<1>1. k + 1 \in 1..n /\ (k + 1) - 1 = k /\ (k + 1 = 1 <=> k = 0)
  OBVIOUS
<1>2. \A i \in 1..n : f[i] = IF i = 1 THEN ss[i] ELSE f[i - 1] \o ss[i]
  BY DEF FlattenRule
<1> QED
  BY <1>1, <1>2

\* FlattenSeq is the last value of such a function.
LEMMA FlattenIs ==
  ASSUME NEW ss, Len(ss) \in Nat \ {0}
  PROVE  \E f : FlattenRule(ss, Len(ss), f) /\ FlattenSeq(ss) = f[Len(ss)]
<1>1. \E f : FlattenRule(ss, Len(ss), f)
  BY FlattenDefined
<1> QED
  BY <1>1, Zenon DEF FlattenSeq, FlattenRule

\* Nothing joined is nothing.
LEMMA FlattenEmpty == FlattenSeq(<<>>) = <<>>
BY DEF FlattenSeq

\* One more sequence is put after the others.
LEMMA FlattenAppend ==
  ASSUME NEW S, NEW ss \in Seq(Seq(S)), NEW x \in Seq(S)
  PROVE  FlattenSeq(Append(ss, x)) = FlattenSeq(ss) \o x
<1> DEFINE n == Len(ss)
           tt == Append(ss, x)
<1>1. n \in Nat /\ Len(tt) = n + 1 /\ tt[n + 1] = x /\ \A i \in 1..n : tt[i] = ss[i]
  OBVIOUS
<1> HIDE DEF tt
<1>2. PICK g : FlattenRule(tt, n + 1, g) /\ FlattenSeq(tt) = g[n + 1]
  BY <1>1, FlattenIs
<1>s. \A k \in 0..n : g[k + 1] = IF k = 0 THEN tt[1] ELSE g[k] \o tt[k + 1]
  <2>1. n + 1 \in Nat /\ (n + 1) - 1 = n
    BY <1>1
  <2>2. \A k \in 0..((n + 1) - 1) : g[k + 1] = IF k = 0 THEN tt[1] ELSE g[k] \o tt[k + 1]
    BY <1>2, <2>1, FlattenStep
  <2> QED
    BY <2>1, <2>2
<1>3. CASE n = 0
  <2>1. ss = <<>> /\ <<>> \o x = x
    BY <1>3
  <2>2. FlattenSeq(tt) = x
    BY <1>1, <1>2, <1>3 DEF FlattenRule
  <2> QED
    BY <2>1, <2>2, FlattenEmpty DEF tt
<1>4. CASE n # 0
  <2>1. PICK f : FlattenRule(ss, n, f) /\ FlattenSeq(ss) = f[n]
    BY <1>1, <1>4, FlattenIs
  <2> DEFINE T == {k \in Nat : k \in 1..n => g[k] = f[k]}
  <2>2. 0 \in T
    OBVIOUS
  <2>3. ASSUME NEW k \in Nat, k \in T PROVE k + 1 \in T
    <3> SUFFICES ASSUME k + 1 \in 1..n PROVE g[k + 1] = f[k + 1]
      OBVIOUS
    <3>1. f[k + 1] = IF k = 0 THEN ss[1] ELSE f[k] \o ss[k + 1]
      BY <1>1, <2>1, FlattenStep
    <3>2. g[k + 1] = IF k = 0 THEN tt[1] ELSE g[k] \o tt[k + 1]
      BY <1>1, <1>s
    <3>3. k # 0 => g[k] = f[k]
      BY <2>3, <1>1
    <3> QED
      BY <1>1, <3>1, <3>2, <3>3
  <2> HIDE DEF T
  <2>4. n \in T
    BY <1>1, <2>2, <2>3, NatInd
  <2>5. g[n] = f[n]
    BY <1>1, <1>4, <2>4 DEF T
  <2>6. n \in 0..n => g[n + 1] = g[n] \o tt[n + 1]
    BY <1>1, <1>4, <1>s
  <2> QED
    BY <1>1, <1>2, <2>1, <2>5, <2>6 DEF tt
<1> QED
  BY <1>1, <1>3, <1>4

\* The elements of the whole are elements of the parts.
LEMMA FlattenType ==
  ASSUME NEW S
  PROVE  \A ss \in Seq(Seq(S)) : FlattenSeq(ss) \in Seq(S)
<1> DEFINE T == {ss \in Seq(Seq(S)) : FlattenSeq(ss) \in Seq(S)}
<1>1. <<>> \in T
  <2>1. <<>> \in Seq(Seq(S)) /\ <<>> \in Seq(S)
    OBVIOUS
  <2> QED
    BY <2>1, FlattenEmpty
<1>2. ASSUME NEW ss \in Seq(Seq(S)), NEW x \in Seq(S), ss \in T PROVE Append(ss, x) \in T
  <2>1. FlattenSeq(ss) \o x \in Seq(S)
    BY <1>2
  <2>2. Append(ss, x) \in Seq(Seq(S))
    OBVIOUS
  <2> QED
    BY <2>1, <2>2, FlattenAppend
<1> HIDE DEF T
<1>3. \A ss \in Seq(Seq(S)) : ss \in T
  BY <1>1, <1>2, SeqInd
<1> QED
  BY <1>3 DEF T

\* A sequence that gains its last element.
LEMMA IsAppend ==
  ASSUME NEW S, NEW s \in Seq(S), NEW x \in S, NEW t \in Seq(S), Len(t) = Len(s) + 1,
         \A i \in 1..Len(s) : t[i] = s[i], t[Len(s) + 1] = x
  PROVE  t = Append(s, x)
OBVIOUS

\* What a function on 1..n must return to be a sequence.
LEMMA FunctionIsSeq ==
  ASSUME NEW S, NEW n \in Nat, NEW f, f = [i \in 1..n |-> f[i]], \A i \in 1..n : f[i] \in S
  PROVE  f \in Seq(S) /\ Len(f) = n
<1>1. f \in [1..n -> S]
  OBVIOUS
<1> QED
  BY <1>1

\* FlattenAppend, with the longer sequence given element by element.
LEMMA FlattenLonger ==
  ASSUME NEW S, NEW a \in Seq(Seq(S)), NEW x \in Seq(S), NEW b,
         b = [i \in 1..(Len(a) + 1) |-> b[i]],
         \A i \in 1..Len(a) : b[i] = a[i], b[Len(a) + 1] = x
  PROVE  FlattenSeq(b) = FlattenSeq(a) \o x
<1> DEFINE Q == Seq(S)
<1>0. a \in Seq(Q) /\ x \in Q /\ Len(a) \in Nat /\ Len(a) + 1 \in Nat
  OBVIOUS
<1>1. \A i \in 1..Len(a) : a[i] \in Q
  BY <1>0
<1> HIDE DEF Q
<1>2. ASSUME NEW i \in 1..(Len(a) + 1) PROVE b[i] \in Q
  <2>1. i \in 1..Len(a) \/ i = Len(a) + 1
    BY <1>0
  <2> QED
    BY <1>0, <1>1, <2>1
<1>3. b \in Seq(Q) /\ Len(b) = Len(a) + 1
  BY <1>0, <1>2, FunctionIsSeq
<1>4. b = Append(a, x)
  BY <1>0, <1>3, IsAppend
<1> QED
  BY <1>4, FlattenAppend

-----------------------------------------------------------------------------
(* Mapping a sequence and joining what each element gives.                 *)

\* Functions that give a sequence for each element.
ToSeqs(S, R) == [S -> Seq(R)]
Joined(s, F) == FlattenSeq([i \in DOMAIN s |-> F[s[i]]])

\* No elements give nothing.
LEMMA JoinedEmpty == ASSUME NEW F PROVE Joined(<<>>, F) = <<>>
<1>1. [i \in DOMAIN <<>> |-> F[<<>>[i]]] = <<>>
  OBVIOUS
<1> QED
  BY <1>1, FlattenEmpty DEF Joined

\* One more element adds what it gives.
LEMMA JoinedAppend ==
  ASSUME NEW S, NEW R, NEW F \in ToSeqs(S, R), NEW s \in Seq(S), NEW x \in S
  PROVE  Joined(s, F) \in Seq(R) /\ Joined(Append(s, x), F) = Joined(s, F) \o F[x]
<1> DEFINE Q == Seq(R)
           t == Append(s, x)
           a == [i \in DOMAIN s |-> F[s[i]]]
           b == [i \in DOMAIN t |-> F[t[i]]]
<1>0. F \in [S -> Q] /\ Len(s) \in Nat /\ DOMAIN s = 1..Len(s) /\ DOMAIN t = 1..(Len(s) + 1)
  BY DEF ToSeqs
<1>1. /\ a = [i \in 1..Len(s) |-> a[i]]
      /\ \A i \in 1..Len(s) : a[i] \in Q
  BY <1>0
<1>2. /\ b = [i \in 1..(Len(s) + 1) |-> b[i]]
      /\ \A i \in 1..Len(s) : b[i] = a[i]
      /\ b[Len(s) + 1] = F[x]
  BY <1>0
<1> HIDE DEF a, b
<1>3. a \in Seq(Q) /\ Len(a) = Len(s)
  <2> HIDE DEF Q
  <2> QED
    BY <1>0, <1>1, FunctionIsSeq
<1>4. FlattenSeq(b) = FlattenSeq(a) \o F[x] /\ FlattenSeq(a) \in Seq(R)
  BY <1>0, <1>2, <1>3, FlattenLonger, FlattenType
<1> QED
  BY <1>4 DEF Joined, a, b

\* What is joined has the type of the parts.
LEMMA JoinedType ==
  ASSUME NEW S, NEW R, NEW F \in ToSeqs(S, R), NEW s \in Seq(S)
  PROVE  Joined(s, F) \in Seq(R)
<1>1. CASE s = <<>>
  <2>1. Joined(s, F) = <<>> /\ <<>> \in Seq(R)
    BY <1>1, JoinedEmpty
  <2> QED
    BY <2>1, Zenon
<1>2. CASE s # <<>>
  <2>1. s[1] \in S
    BY <1>2
  <2> QED
    BY <2>1, JoinedAppend
<1> QED
  BY <1>1, <1>2

-----------------------------------------------------------------------------
(* The elements of a sequence that are in K.                               *)

Only(S, K) == [x \in S |-> IF x \in K THEN <<x>> ELSE <<>>]
Kept(s, S, K) == Joined(s, Only(S, K))

\* Of nothing, nothing is kept.
LEMMA KeptEmpty == \A S, K : Kept(<<>>, S, K) = <<>>
BY JoinedEmpty DEF Kept

\* One more element is kept at the end if it is in K.
LEMMA KeptAppend ==
  ASSUME NEW S, NEW K
  PROVE  \A s \in Seq(S), x \in S :
           /\ Kept(s, S, K) \in Seq(S \cap K)
           /\ x \in K => Kept(Append(s, x), S, K) = Append(Kept(s, S, K), x)
           /\ x \notin K => Kept(Append(s, x), S, K) = Kept(s, S, K)
<1>1. Only(S, K) \in ToSeqs(S, S \cap K)
  <2>1. \A x \in S : Only(S, K)[x] \in Seq(S \cap K)
    BY DEF Only
  <2> QED
    BY <2>1 DEF Only, ToSeqs
<1> SUFFICES ASSUME NEW s \in Seq(S), NEW x \in S
             PROVE  /\ Kept(s, S, K) \in Seq(S \cap K)
                    /\ x \in K => Kept(Append(s, x), S, K) = Append(Kept(s, S, K), x)
                    /\ x \notin K => Kept(Append(s, x), S, K) = Kept(s, S, K)
  OBVIOUS
<1>2. /\ Kept(s, S, K) \in Seq(S \cap K)
      /\ Kept(Append(s, x), S, K) = Kept(s, S, K) \o Only(S, K)[x]
  <2> DEFINE f == Only(S, K)
             R == S \cap K
  <2>1. f \in ToSeqs(S, R)
    BY <1>1
  <2> HIDE DEF f, R
  <2>2. Joined(s, f) \in Seq(R) /\ Joined(Append(s, x), f) = Joined(s, f) \o f[x]
    BY <2>1, JoinedAppend
  <2> QED
    BY <2>2 DEF Kept, f, R
<1>3. Only(S, K)[x] = IF x \in K THEN <<x>> ELSE <<>>
  BY DEF Only
<1> QED
  BY <1>2, <1>3

\* What is kept was there, and is in K.
LEMMA KeptType ==
  ASSUME NEW S, NEW K, NEW s \in Seq(S)
  PROVE  Kept(s, S, K) \in Seq(S \cap K)
<1>1. CASE s = <<>>
  <2>1. Kept(s, S, K) = <<>> /\ <<>> \in Seq(S \cap K)
    BY <1>1, KeptEmpty
  <2> QED
    BY <2>1, Zenon
<1>2. CASE s # <<>>
  <2>1. s[1] \in S
    BY <1>2
  <2> QED
    BY <2>1, KeptAppend
<1> QED
  BY <1>1, <1>2

\* Nothing is left out.
LEMMA KeptAll ==
  ASSUME NEW S, NEW K
  PROVE  \A s \in Seq(S) : (\A i \in DOMAIN s : s[i] \in K) => Kept(s, S, K) = s
<1> DEFINE T == {s \in Seq(S) : (\A i \in DOMAIN s : s[i] \in K) => Kept(s, S, K) = s}
<1>1. <<>> \in T
  <2>1. <<>> \in Seq(S)
    OBVIOUS
  <2> QED
    BY <2>1, KeptEmpty
<1>2. ASSUME NEW s \in Seq(S), NEW x \in S, s \in T PROVE Append(s, x) \in T
  <2>0. Append(s, x) \in Seq(S)
    OBVIOUS
  <2> SUFFICES ASSUME \A i \in DOMAIN Append(s, x) : Append(s, x)[i] \in K
               PROVE  Kept(Append(s, x), S, K) = Append(s, x)
    BY <2>0, Zenon
  <2>1. x \in K
    <3>1. Len(s) + 1 \in DOMAIN Append(s, x) /\ Append(s, x)[Len(s) + 1] = x
      OBVIOUS
    <3> QED
      BY <3>1
  <2>2. \A i \in DOMAIN s : s[i] \in K
    <3>1. \A i \in DOMAIN s : i \in DOMAIN Append(s, x) /\ Append(s, x)[i] = s[i]
      OBVIOUS
    <3> QED
      BY <3>1
  <2>3. Kept(s, S, K) = s
    BY <1>2, <2>2
  <2>4. Kept(Append(s, x), S, K) = Append(Kept(s, S, K), x)
    BY <2>1, KeptAppend, Zenon
  <2> QED
    BY <2>3, <2>4
<1> HIDE DEF T
<1>3. \A s \in Seq(S) : s \in T
  BY <1>1, <1>2, SeqInd
<1> QED
  BY <1>3 DEF T

\* When nothing of K is there, all the elements are in the rest L.
LEMMA KeptNone ==
  ASSUME NEW S, NEW K
  PROVE  \A s \in Seq(S) : Kept(s, S, K) = <<>> => \A i \in DOMAIN s : s[i] \notin K
<1> DEFINE T == {s \in Seq(S) : Kept(s, S, K) = <<>> => \A i \in DOMAIN s : s[i] \notin K}
<1>1. <<>> \in T
  OBVIOUS
<1>2. ASSUME NEW s \in Seq(S), NEW x \in S, s \in T PROVE Append(s, x) \in T
  <2>0. Append(s, x) \in Seq(S)
    OBVIOUS
  <2> SUFFICES ASSUME Kept(Append(s, x), S, K) = <<>>, NEW i \in DOMAIN Append(s, x)
               PROVE  Append(s, x)[i] \notin K
    BY <2>0, Zenon
  <2>1. Kept(s, S, K) \in Seq(S \cap K)
    BY KeptAppend
  <2>2. x \notin K /\ Kept(s, S, K) = <<>>
    <3>1. /\ x \in K => Kept(Append(s, x), S, K) = Append(Kept(s, S, K), x)
          /\ x \notin K => Kept(Append(s, x), S, K) = Kept(s, S, K)
      BY KeptAppend, Zenon
    <3>2. Append(Kept(s, S, K), x) # <<>>
      BY <2>1
    <3> QED
      BY <3>1, <3>2
  <2>3. (i \in DOMAIN s /\ Append(s, x)[i] = s[i]) \/ Append(s, x)[i] = x
    OBVIOUS
  <2> QED
    BY <1>2, <2>2, <2>3
<1> HIDE DEF T
<1>3. \A s \in Seq(S) : s \in T
  BY <1>1, <1>2, SeqInd
<1> QED
  BY <1>3 DEF T

Snocs(S) == \A a, b \in Seq(S), x \in S : Append(a \o b, x) = a \o Append(b, x)

\* Concatenation and Append associate.
LEMMA AppendLast == ASSUME NEW S PROVE Snocs(S)
<1> SUFFICES ASSUME NEW a \in Seq(S), NEW b \in Seq(S), NEW x \in S
             PROVE  Append(a \o b, x) = a \o Append(b, x)
  BY DEF Snocs
<1>1. a \o b \in Seq(S) /\ Append(b, x) \in Seq(S)
  OBVIOUS
<1> QED
  BY <1>1

\* What is kept of two sequences is what is kept of each.
LEMMA KeptConcat ==
  ASSUME NEW S, NEW K, NEW a \in Seq(S)
  PROVE  \A b \in Seq(S) : Kept(a \o b, S, K) = Kept(a, S, K) \o Kept(b, S, K)
<1> DEFINE T == {b \in Seq(S) : Kept(a \o b, S, K) = Kept(a, S, K) \o Kept(b, S, K)}
<1>1. <<>> \in T
  <2>1. Kept(a, S, K) \in Seq(S \cap K)
    BY KeptType
  <2>2. a \o <<>> = a /\ Kept(a, S, K) \o <<>> = Kept(a, S, K) /\ <<>> \in Seq(S)
    BY <2>1
  <2> QED
    BY <2>2, KeptEmpty
<1>2. ASSUME NEW b \in Seq(S), NEW x \in S, b \in T PROVE Append(b, x) \in T
  <2>1. PICK ka, kb, t : ka = Kept(a, S, K) /\ kb = Kept(b, S, K) /\ t = Append(b, x)
    OBVIOUS
  <2>2. ka \in Seq(S \cap K) /\ kb \in Seq(S \cap K)
    BY <2>1, KeptType
  <2>3. t \in Seq(S) /\ a \o b \in Seq(S) /\ a \o t = Append(a \o b, x)
    BY <2>1
  <2>4. Kept(a \o b, S, K) = ka \o kb
    BY <1>2, <2>1
  <2>5. /\ x \in K => Kept(a \o t, S, K) = Append(ka \o kb, x) /\ Kept(t, S, K) = Append(kb, x)
        /\ x \notin K => Kept(a \o t, S, K) = ka \o kb /\ Kept(t, S, K) = kb
    <3>1. PICK c \in Seq(S) : c = a \o b
      BY <2>3
    <3>2. a \o t = Append(c, x) /\ Kept(c, S, K) = ka \o kb
      BY <2>3, <2>4, <3>1
    <3>3. /\ x \in K => Kept(Append(c, x), S, K) = Append(Kept(c, S, K), x)
          /\ x \notin K => Kept(Append(c, x), S, K) = Kept(c, S, K)
      BY <3>1, KeptAppend, Zenon
    <3>4. /\ x \in K => Kept(Append(b, x), S, K) = Append(Kept(b, S, K), x)
          /\ x \notin K => Kept(Append(b, x), S, K) = Kept(b, S, K)
      BY KeptAppend, Zenon
    <3> QED
      BY <2>1, <3>2, <3>3, <3>4, Zenon
  <2>6. ASSUME x \in K PROVE Append(ka \o kb, x) = ka \o Append(kb, x)
    <3>1. Snocs(S \cap K)
      BY AppendLast
    <3>2. x \in S \cap K
      BY <2>6
    <3> QED
      BY <2>2, <3>1, <3>2 DEF Snocs
  <2>7. Kept(a \o t, S, K) = ka \o Kept(t, S, K)
    BY <2>5, <2>6
  <2>8. t \in T
    BY <2>1, <2>3, <2>7
  <2> QED
    BY <2>1, <2>8
<1> HIDE DEF T
<1>3. \A b \in Seq(S) : b \in T
  BY <1>1, <1>2, SeqInd
<1> QED
  BY <1>3 DEF T

\* If no element is in K, nothing is kept.
LEMMA KeptNothing ==
  ASSUME NEW S, NEW K
  PROVE  \A s \in Seq(S) : (\A i \in DOMAIN s : s[i] \notin K) => Kept(s, S, K) = <<>>
<1> DEFINE T == {s \in Seq(S) : (\A i \in DOMAIN s : s[i] \notin K) => Kept(s, S, K) = <<>>}
<1>1. <<>> \in T
  <2>1. <<>> \in Seq(S)
    OBVIOUS
  <2> QED
    BY <2>1, KeptEmpty
<1>2. ASSUME NEW s \in Seq(S), NEW x \in S, s \in T PROVE Append(s, x) \in T
  <2>0. Append(s, x) \in Seq(S)
    OBVIOUS
  <2> SUFFICES ASSUME \A i \in DOMAIN Append(s, x) : Append(s, x)[i] \notin K
               PROVE  Kept(Append(s, x), S, K) = <<>>
    BY <2>0, Zenon
  <2>1. x \notin K
    <3>1. Len(s) + 1 \in DOMAIN Append(s, x) /\ Append(s, x)[Len(s) + 1] = x
      OBVIOUS
    <3> QED
      BY <3>1
  <2>2. \A i \in DOMAIN s : s[i] \notin K
    <3>1. \A i \in DOMAIN s : i \in DOMAIN Append(s, x) /\ Append(s, x)[i] = s[i]
      OBVIOUS
    <3> QED
      BY <3>1
  <2>3. Kept(s, S, K) = <<>>
    BY <1>2, <2>2
  <2>4. Kept(Append(s, x), S, K) = Kept(s, S, K)
    BY <2>1, KeptAppend, Zenon
  <2> QED
    BY <2>3, <2>4
<1> HIDE DEF T
<1>3. \A s \in Seq(S) : s \in T
  BY <1>1, <1>2, SeqInd
<1> QED
  BY <1>3 DEF T

Distinct(s) == \A i, j \in DOMAIN s : s[i] = s[j] => i = j

\* The elements of a longer sequence.
LEMMA ToSetAppend ==
  ASSUME NEW S, NEW s \in Seq(S), NEW x \in S
  PROVE  ToSet(Append(s, x)) = ToSet(s) \cup {x}
<1>1. DOMAIN Append(s, x) = DOMAIN s \cup {Len(s) + 1}
  OBVIOUS
<1>2. Append(s, x)[Len(s) + 1] = x /\ \A i \in DOMAIN s : Append(s, x)[i] = s[i]
  OBVIOUS
<1> QED
  BY <1>1, <1>2, Zenon DEF ToSet

\* As many elements as positions.
LEMMA KeptDistinct ==
  ASSUME NEW S, NEW K
  PROVE  \A s \in Seq(S) : Distinct(s) =>
           /\ ToSet(Kept(s, S, K)) \subseteq ToSet(s)
           /\ IsFiniteSet(ToSet(Kept(s, S, K)))
           /\ Cardinality(ToSet(Kept(s, S, K))) = Len(Kept(s, S, K))
<1> DEFINE Good(s) == /\ ToSet(Kept(s, S, K)) \subseteq ToSet(s)
                      /\ IsFiniteSet(ToSet(Kept(s, S, K)))
                      /\ Cardinality(ToSet(Kept(s, S, K))) = Len(Kept(s, S, K))
           T == {s \in Seq(S) : Distinct(s) => Good(s)}
<1>1. <<>> \in T
  <2>1. <<>> \in Seq(S) /\ Len(<<>>) = 0
    OBVIOUS
  <2>2. ToSet(<<>>) = {}
    BY DEF ToSet
  <2>3. Good(<<>>)
    BY <2>1, <2>2, KeptEmpty, FS_EmptySet
  <2> QED
    BY <2>1, <2>3
<1>2. ASSUME NEW s \in Seq(S), NEW x \in S, s \in T PROVE Append(s, x) \in T
  <2>1. PICK t, k, kt :
          t = Append(s, x) /\ k = Kept(s, S, K) /\ kt = Kept(t, S, K)
    OBVIOUS
  <2>2. t \in Seq(S) /\ Len(s) \in Nat /\ Len(t) = Len(s) + 1 /\ DOMAIN s = 1..Len(s)
        /\ DOMAIN t = 1..(Len(s) + 1) /\ t[Len(s) + 1] = x
        /\ \A i \in DOMAIN s : t[i] = s[i]
    BY <2>1
  <2> SUFFICES ASSUME Distinct(t) PROVE Good(t)
    BY <2>1, <2>2
  <2>3. Distinct(s) /\ x \notin ToSet(s)
    BY <2>2 DEF Distinct, ToSet
  <2>4. Good(s)
    BY <1>2, <2>3
  <2>5. ToSet(t) = ToSet(s) \cup {x}
    BY <2>1, ToSetAppend
  <2>6. k \in Seq(S \cap K)
    BY <2>1, KeptType
  <2>7. CASE x \in K
    <3>1. kt = Append(k, x)
      BY <2>1, <2>7, KeptAppend, Zenon
    <3>2. x \in S \cap K
      BY <2>7
    <3>3. ToSet(kt) = ToSet(k) \cup {x} /\ Len(kt) = Len(k) + 1
      BY <2>6, <3>1, <3>2, ToSetAppend
    <3>4. x \notin ToSet(k) /\ IsFiniteSet(ToSet(k)) /\ Cardinality(ToSet(k)) = Len(k)
      BY <2>1, <2>3, <2>4
    <3>5. IsFiniteSet(ToSet(kt)) /\ Cardinality(ToSet(kt)) = Cardinality(ToSet(k)) + 1
      BY <3>3, <3>4, FS_AddElement
    <3> QED
      BY <2>1, <2>4, <2>5, <3>3, <3>4, <3>5
  <2>8. CASE x \notin K
    <3>1. kt = k
      BY <2>1, <2>8, KeptAppend, Zenon
    <3> QED
      BY <2>1, <2>4, <2>5, <3>1
  <2> QED
    BY <2>7, <2>8
<1> HIDE DEF T
<1>3. \A s \in Seq(S) : s \in T
  BY <1>1, <1>2, SeqInd
<1> QED
  BY <1>3 DEF T

-----------------------------------------------------------------------------
(* AnthropicMessages, a message at a time.                                 *)

\* f is the recursive function of AnthropicMessages.
SentRule(h, n, f) ==
  f = [k \in 0..n |-> IF k = 0 THEN <<>> ELSE AddToAnthropic(f[k - 1], h[k])]

\* There is a function with the rule, for any number of messages.
LEMMA SentDefined ==
  ASSUME NEW h
  PROVE  \A n \in Nat : \E f : SentRule(h, n, f)
<1> DEFINE T == {n \in Nat : \E f : SentRule(h, n, f)}
<1>1. 0 \in T
  <2>1. SentRule(h, 0, [k \in 0..0 |-> <<>>])
    <3>1. \A k \in 0..0 : k = 0
      OBVIOUS
    <3> QED
      BY <3>1 DEF SentRule
  <2> QED
    BY <2>1
<1>2. ASSUME NEW n \in Nat, n \in T PROVE n + 1 \in T
  <2>1. PICK f : SentRule(h, n, f)
    BY <1>2
  <2> DEFINE next == AddToAnthropic(f[n], h[n + 1])
             g == [k \in 0..(n + 1) |-> IF k <= n THEN f[k] ELSE next]
             r == [k \in 0..(n + 1) |-> IF k = 0 THEN <<>> ELSE AddToAnthropic(g[k - 1], h[k])]
  <2>2. ASSUME NEW k \in 0..n
        PROVE  f[k] = IF k = 0 THEN <<>> ELSE AddToAnthropic(f[k - 1], h[k])
    BY <2>1 DEF SentRule
  <2>3. ASSUME NEW k \in 0..(n + 1) PROVE g[k] = r[k]
    <3>1. CASE k <= n
      <4>1. k \in 0..n /\ (k # 0 => k - 1 \in 0..n)
        BY <3>1
      <4>2. k # 0 => g[k - 1] = f[k - 1]
        BY <4>1
      <4> QED
        BY <2>2, <3>1, <4>1, <4>2
    <3>2. CASE k = n + 1
      <4>1. g[n] = f[n] /\ k # 0 /\ k - 1 = n /\ ~ (k <= n)
        BY <3>2
      <4> QED
        BY <3>2, <4>1
    <3> QED
      BY <3>1, <3>2
  <2>4. g = r
    BY <2>3
  <2>5. SentRule(h, n + 1, g)
    BY <2>4 DEF SentRule
  <2> HIDE DEF g
  <2> QED
    BY <2>5
<1> HIDE DEF T
<1>3. \A n \in Nat : n \in T
  BY <1>1, <1>2, NatInd
<1> QED
  BY <1>3 DEF T

\* What the function returns, one message further.
LEMMA SentStep ==
  ASSUME NEW h, NEW n \in Nat, NEW f, SentRule(h, n, f)
  PROVE  /\ f[0] = <<>>
         /\ \A k \in 0..(n - 1) : f[k + 1] = AddToAnthropic(f[k], h[k + 1])
<1>1. \A k \in 0..n : f[k] = IF k = 0 THEN <<>> ELSE AddToAnthropic(f[k - 1], h[k])
  BY DEF SentRule
<1>2. f[0] = <<>>
  BY <1>1
<1>3. ASSUME NEW k \in 0..(n - 1) PROVE f[k + 1] = AddToAnthropic(f[k], h[k + 1])
  <2>1. k + 1 \in 0..n /\ (k + 1) - 1 = k /\ k + 1 # 0
    OBVIOUS
  <2> QED
    BY <1>1, <2>1
<1> QED
  BY <1>2, <1>3

\* AnthropicMessages is the last value of such a function.
LEMMA SentIs ==
  ASSUME NEW h, Len(h) \in Nat
  PROVE  \E f : SentRule(h, Len(h), f) /\ AnthropicMessages(h) = f[Len(h)]
<1>1. \E f : SentRule(h, Len(h), f)
  BY SentDefined
<1> QED
  BY <1>1, Zenon DEF AnthropicMessages, SentRule

\* An empty history is translated to nothing.
LEMMA SentEmpty == AnthropicMessages(<<>>) = <<>>
<1>1. Len(<<>>) \in Nat /\ Len(<<>>) = 0
  OBVIOUS
<1>2. PICK f : SentRule(<<>>, 0, f) /\ AnthropicMessages(<<>>) = f[0]
  BY <1>1, SentIs
<1>3. f[0] = <<>>
  BY <1>2, SentStep
<1> QED
  BY <1>2, <1>3

\* A longer history is translated from the translation of the shorter.
LEMMA SentAppend ==
  ASSUME NEW S, NEW h \in Seq(S), NEW m \in S
  PROVE  AnthropicMessages(Append(h, m)) = AddToAnthropic(AnthropicMessages(h), m)
<1> DEFINE n == Len(h)
           t == Append(h, m)
<1>1. n \in Nat /\ Len(t) = n + 1 /\ t[n + 1] = m /\ \A i \in 1..n : t[i] = h[i]
  OBVIOUS
<1> HIDE DEF t
<1>2. PICK g : SentRule(t, n + 1, g) /\ AnthropicMessages(t) = g[n + 1]
  BY <1>1, SentIs
<1>3. PICK f : SentRule(h, n, f) /\ AnthropicMessages(h) = f[n]
  BY <1>1, SentIs
<1>4. g[0] = <<>> /\ \A k \in 0..n : g[k + 1] = AddToAnthropic(g[k], t[k + 1])
  <2>1. n + 1 \in Nat /\ (n + 1) - 1 = n
    BY <1>1
  <2>2. g[0] = <<>> /\ \A k \in 0..((n + 1) - 1) : g[k + 1] = AddToAnthropic(g[k], t[k + 1])
    BY <1>2, <2>1, SentStep
  <2> QED
    BY <2>1, <2>2
<1>5. f[0] = <<>> /\ \A k \in 0..(n - 1) : f[k + 1] = AddToAnthropic(f[k], h[k + 1])
  BY <1>1, <1>3, SentStep
<1> DEFINE T == {k \in Nat : k \in 0..n => g[k] = f[k]}
<1>6. 0 \in T
  BY <1>4, <1>5
<1>7. ASSUME NEW k \in Nat, k \in T PROVE k + 1 \in T
  <2> SUFFICES ASSUME k + 1 \in 0..n PROVE g[k + 1] = f[k + 1]
    OBVIOUS
  <2>1. k \in 0..n /\ k \in 0..(n - 1) /\ k + 1 \in 1..n
    BY <1>1
  <2>2. g[k] = f[k] /\ t[k + 1] = h[k + 1]
    BY <1>1, <1>7, <2>1
  <2> QED
    BY <1>4, <1>5, <2>1, <2>2
<1> HIDE DEF T
<1>8. n \in T
  BY <1>1, <1>6, <1>7, NatInd
<1>9. g[n] = f[n]
  BY <1>1, <1>8 DEF T
<1>10. g[n + 1] = AddToAnthropic(g[n], t[n + 1])
  BY <1>1, <1>4
<1> QED
  BY <1>1, <1>2, <1>3, <1>9, <1>10 DEF t

-----------------------------------------------------------------------------
(* What is said, and how the client remembers it.                          *)

Words == Seq(Nat)
Says == [kind : PartKinds, word : Words]
ToolCalls == [kind : {"call"}, fn : Functions, id : Words, args : {"full", "broken", "empty"}]
Results == [kind : {"result"}, fn : Functions \cup {""}, id : Words, word : Words]
Items == Says \cup ToolCalls \cup Results

TextItems == {x \in Items : x.kind = "text"}
Inline == {x \in Items : x.kind # "link"}

Roles == {"system", "user", "assistant", "tool"}
Utterances == [role : Roles, items : Seq(Items)]
Messages == [role : Roles, list : BOOLEAN, content : Seq(Items), calls : Seq(ToolCalls)]

AllIn(s, K) == \A i \in DOMAIN s : s[i] \in K

\* The calls of m are those of u, or what a stream merged several of them into.
KeepsCalls(m, u) ==
  \/ m.calls = Calls(u.items)
  \/ Len(Calls(u.items)) > 1 /\ m.calls = Merge(Calls(u.items))

\* The message m is how the client remembers the utterance u.
Told(m, u) ==
  /\ m \in Messages /\ u \in Utterances /\ m.role = u.role
  /\ u.role = "system" =>
       m.content = u.items /\ AllIn(u.items, TextItems)
  /\ u.role = "user" =>
       /\ m.content = u.items /\ m.calls = <<>>
       /\ ~ m.list => AllIn(u.items, TextItems)
  /\ u.role = "assistant" =>
       /\ m.content = Texts(u.items) /\ KeepsCalls(m, u) /\ ~ m.list
       /\ AllIn(u.items, TextItems \cup ToolCalls)
  /\ u.role = "tool" =>
       /\ m.calls = <<>>
       /\ \E r \in Results :
            u.items = <<r>> /\ (m.content = <<r>> \/ m.content = <<[r EXCEPT !.fn = ""]>>)

\* The tests on items, as sets.
LEMMA ItemKinds ==
  ASSUME NEW x \in Items
  PROVE  /\ x \in ToolCalls <=> IsCall(x)
         /\ x \in TextItems <=> IsText(x)
         /\ x \in Inline <=> NotLink(x)
         /\ x \in Says \cup ToolCalls \cup Results
BY DEF Items, Says, ToolCalls, Results, PartKinds, TextItems, Inline, IsCall, IsText, NotLink

\* The calls among some items, as what is kept of them.
LEMMA CallsKept == \A s \in Seq(Items) : Calls(s) = Kept(s, Items, ToolCalls)
<1> SUFFICES ASSUME NEW s \in Seq(Items) PROVE Calls(s) = Kept(s, Items, ToolCalls)
  OBVIOUS
<1>1. \A i \in DOMAIN s : s[i] \in Items /\ (s[i] \in ToolCalls <=> IsCall(s[i]))
  BY ItemKinds
<1>2. [i \in DOMAIN s |-> IF IsCall(s[i]) THEN <<s[i]>> ELSE <<>>]
        = [i \in DOMAIN s |-> Only(Items, ToolCalls)[s[i]]]
  BY <1>1 DEF Only
<1> QED
  BY <1>2 DEF Calls, Chosen, Kept, Joined

\* The texts among some items, likewise.
LEMMA TextsKept == \A s \in Seq(Items) : Texts(s) = Kept(s, Items, TextItems)
<1> SUFFICES ASSUME NEW s \in Seq(Items) PROVE Texts(s) = Kept(s, Items, TextItems)
  OBVIOUS
<1>1. \A i \in DOMAIN s : s[i] \in Items /\ (s[i] \in TextItems <=> IsText(s[i]))
  BY ItemKinds
<1>2. [i \in DOMAIN s |-> IF IsText(s[i]) THEN <<s[i]>> ELSE <<>>]
        = [i \in DOMAIN s |-> Only(Items, TextItems)[s[i]]]
  BY <1>1 DEF Only
<1> QED
  BY <1>2 DEF Texts, Chosen, Kept, Joined

\* The items that are no links, likewise.
LEMMA InlineKept == \A s \in Seq(Items) : Chosen(s, NotLink) = Kept(s, Items, Inline)
<1> SUFFICES ASSUME NEW s \in Seq(Items) PROVE Chosen(s, NotLink) = Kept(s, Items, Inline)
  OBVIOUS
<1>1. \A i \in DOMAIN s : s[i] \in Items /\ (s[i] \in Inline <=> NotLink(s[i]))
  BY ItemKinds
<1>2. [i \in DOMAIN s |-> IF NotLink(s[i]) THEN <<s[i]>> ELSE <<>>]
        = [i \in DOMAIN s |-> Only(Items, Inline)[s[i]]]
  BY <1>1 DEF Only
<1> QED
  BY <1>2 DEF Chosen, Kept, Joined

\* What the tests let through has the type of what was tested.
LEMMA SelectionTypes ==
  ASSUME NEW s \in Seq(Items)
  PROVE  Calls(s) \in Seq(ToolCalls) /\ Texts(s) \in Seq(Items) /\ Chosen(s, NotLink) \in Seq(Items)
<1>1. /\ Calls(s) = Kept(s, Items, ToolCalls)
      /\ Texts(s) = Kept(s, Items, TextItems)
      /\ Chosen(s, NotLink) = Kept(s, Items, Inline)
  BY CallsKept, TextsKept, InlineKept
<1>2. /\ Items \cap ToolCalls = ToolCalls
      /\ Items \cap TextItems \subseteq Items
      /\ Items \cap Inline \subseteq Items
  BY DEF Items
<1> DEFINE c == Calls(s)
           t == Texts(s)
           k == Chosen(s, NotLink)
<1>3. c \in Seq(Items \cap ToolCalls) /\ t \in Seq(Items \cap TextItems) /\ k \in Seq(Items \cap Inline)
  BY <1>1, KeptType
<1> HIDE DEF c, t, k
<1>4. c \in Seq(ToolCalls) /\ t \in Seq(Items) /\ k \in Seq(Items)
  BY <1>2, <1>3
<1> QED
  BY <1>4 DEF c, t, k

TypeInv ==
  /\ spoken \in Seq(Utterances) /\ history \in Seq(Messages) /\ Len(history) = Len(spoken)
  /\ \A i \in DOMAIN spoken : Told(history[i], spoken[i])
  /\ open \subseteq ToolCalls

\* One more utterance, and the message that remembers it.
Adds(m, u) == history' = Append(history, m) /\ spoken' = Append(spoken, u)

\* What the message m does to the calls that wait for a result.
Opens(m) ==
  /\ m.role = "system" => open' = open
  /\ m.role = "user" => open = {} /\ open' = {} /\ m.content \in Seq(Says)
  /\ m.role = "assistant" =>
       /\ open = {} /\ open' = ToSet(m.calls)
       /\ IsFiniteSet(open') /\ Cardinality(open') = Len(m.calls)
  /\ m.role = "tool" =>
       \E call \in open, r \in Results :
         open' = open \ {call} /\ m.content = <<r>> /\ r.id = call.id

\* An instruction is remembered as it was said.
LEMMA InstructTells ==
  ASSUME TypeInv, Instruct
  PROVE  \E m, u : Told(m, u) /\ Adds(m, u) /\ Opens(m) /\ open' \subseteq ToolCalls
<1> DEFINE x == Say("text", <<Here>>)
           u == [role |-> "system", items |-> <<x>>]
           m == Message("system", FALSE, <<x>>, <<>>)
<1>1. <<Here>> \in Words
  BY DEF TypeInv, Here, Words
<1>2. x \in Items /\ x \in TextItems
  BY <1>1 DEF Say, Items, Says, TextItems, PartKinds
<1>3. Adds(m, u) /\ open' \subseteq ToolCalls /\ Opens(m)
  BY DEF Adds, Add, Instruct, TypeInv, Opens, Message
<1> HIDE DEF x
<1>4. Told(m, u)
  <2>1. u \in Utterances
    BY <1>2 DEF Utterances, Roles
  <2>2. m \in Messages
    <3>1. <<>> \in Seq(ToolCalls) /\ <<x>> \in Seq(Items)
      BY <1>2
    <3> QED
      BY <3>1 DEF Messages, Message, Roles
  <2>3. AllIn(u.items, TextItems)
    BY <1>2 DEF AllIn
  <2> QED
    BY <2>1, <2>2, <2>3 DEF Told, Message
<1> QED
  BY <1>3, <1>4

\* A question is remembered as it was said.
LEMMA AskTells ==
  ASSUME TypeInv, NEW turn \in UserTurns, Ask(turn)
  PROVE  \E m, u : Told(m, u) /\ Adds(m, u) /\ Opens(m) /\ open' \subseteq ToolCalls
<1> DEFINE s == [i \in DOMAIN turn.parts |-> Say(turn.parts[i], <<Here, i>>)]
           u == [role |-> "user", items |-> s]
           m == Message("user", turn.list, s, <<>>)
<1>1. Adds(m, u) /\ open = {} /\ open' = {}
  BY DEF Adds, Add, Ask, TypeInv
<1>2. Shape(turn)
  BY ConstantsAssumption
<1>3. /\ turn.parts \in Seq(PartKinds)
      /\ Len(turn.parts) \in Nat /\ DOMAIN turn.parts = 1..Len(turn.parts)
      /\ ~ turn.list => \A i \in DOMAIN turn.parts : turn.parts[i] = "text"
  BY <1>2 DEF Shape
<1>4. ASSUME NEW i \in DOMAIN turn.parts
      PROVE  s[i] \in Says /\ s[i] \in Items /\ s[i].kind = turn.parts[i]
  <2>1. <<Here, i>> \in Words
    BY <1>3 DEF TypeInv, Here, Words
  <2>2. turn.parts[i] \in PartKinds
    BY <1>3
  <2> QED
    BY <2>1, <2>2 DEF Say, Items, Says
<1>5. s = [i \in 1..Len(turn.parts) |-> s[i]]
  BY <1>3
<1>6. DOMAIN s = DOMAIN turn.parts
  OBVIOUS
<1> HIDE DEF s
<1>7. s \in Seq(Items) /\ s \in Seq(Says)
  BY <1>3, <1>4, <1>5, FunctionIsSeq
<1>8. Told(m, u)
  <2>1. u \in Utterances
    BY <1>7 DEF Utterances, Roles
  <2>2. turn.list \in BOOLEAN
    BY <1>2 DEF Shape
  <2>3. m \in Messages
    <3>1. <<>> \in Seq(ToolCalls)
      OBVIOUS
    <3> QED
      BY <1>7, <2>2, <3>1 DEF Messages, Message, Roles
  <2>4. ~ turn.list => AllIn(s, TextItems)
    BY <1>3, <1>4, <1>6 DEF AllIn, TextItems
  <2> QED
    BY <2>1, <2>3, <2>4 DEF Told, Message
<1>9. Opens(m)
  BY <1>1, <1>7 DEF Opens, Message
<1> QED
  BY <1>1, <1>8, <1>9

\* Merged calls are one call.
LEMMA MergeTyped ==
  ASSUME NEW c \in Seq(ToolCalls), Len(c) > 1
  PROVE  Merge(c) \in Seq(ToolCalls) /\ Len(Merge(c)) = 1 /\ Distinct(Merge(c))
<1>1. c[Len(c)] \in ToolCalls
  OBVIOUS
<1>2. \A x \in ToolCalls : [x EXCEPT !.args = "broken"] \in ToolCalls
  BY Zenon DEF ToolCalls
<1>3. PICK x \in ToolCalls : x = [c[Len(c)] EXCEPT !.args = "broken"]
  BY <1>1, <1>2
<1>4. Merge(c) = <<x>>
  BY <1>3, Zenon DEF Merge, Last
<1> QED
  BY <1>4 DEF Distinct

\* A sequence in which nothing is twice has as many elements as places.
LEMMA DistinctCount ==
  ASSUME NEW S, NEW s \in Seq(S), Distinct(s)
  PROVE  IsFiniteSet(ToSet(s)) /\ Cardinality(ToSet(s)) = Len(s)
<1>1. Kept(s, S, S) = s
  BY KeptAll
<1> QED
  BY <1>1, KeptDistinct

\* An answer is remembered as it was said, or with its calls merged, and opens
\* the calls that are remembered.
LEMMA AnswerTells ==
  ASSUME TypeInv, NEW turn \in ModelTurns, NEW args \in {"full", "broken"},
         NEW merged \in BOOLEAN, Answer(turn, args, merged)
  PROVE  \E m, u : Told(m, u) /\ Adds(m, u) /\ Opens(m) /\ open' \subseteq ToolCalls
<1> DEFINE s == [i \in DOMAIN turn |->
                   IF turn[i] = "text" THEN Say("text", <<Here, i>>)
                   ELSE Call(turn[i], <<Here, i>>, args)]
           u == [role |-> "assistant", items |-> s]
           kept == IF merged THEN Merge(Calls(s)) ELSE Calls(s)
           m == Message("assistant", FALSE, Texts(s), kept)
<1>1. Adds(m, u) /\ open = {} /\ open' = ToSet(kept) /\ (merged => Len(Calls(s)) > 1)
  BY DEF Adds, Add, Answer
<1>2. /\ turn \in Seq(Functions \cup {"text"})
      /\ Len(turn) \in Nat /\ DOMAIN turn = 1..Len(turn)
  BY ConstantsAssumption
<1>3. ASSUME NEW i \in DOMAIN turn
      PROVE  s[i] \in Items /\ s[i] \in TextItems \cup ToolCalls
  <2>1. <<Here, i>> \in Words
    BY <1>2 DEF TypeInv, Here, Words
  <2>2. turn[i] \in Functions \cup {"text"}
    BY <1>2
  <2>3. CASE turn[i] = "text"
    BY <2>1, <2>3 DEF Say, Items, Says, TextItems, PartKinds
  <2>4. CASE turn[i] # "text"
    <3>1. Call(turn[i], <<Here, i>>, args) \in ToolCalls
      BY <2>1, <2>2, <2>4 DEF Call, ToolCalls
    <3> QED
      BY <2>4, <3>1 DEF Items
  <2> QED
    BY <2>3, <2>4
<1>4. s = [i \in 1..Len(turn) |-> s[i]]
  BY <1>2
<1>5. DOMAIN s = DOMAIN turn
  OBVIOUS
<1>10. Distinct(s)
  <2> SUFFICES ASSUME NEW i \in DOMAIN turn, NEW j \in DOMAIN turn, s[i] = s[j] PROVE i = j
    BY <1>5 DEF Distinct
  <2>1. \A k \in DOMAIN turn :
          /\ turn[k] = "text" => s[k].kind = "text" /\ s[k].word = <<Here, k>>
          /\ turn[k] # "text" => s[k].kind = "call" /\ s[k].id = <<Here, k>>
    BY DEF Say, Call
  <2>2. <<Here, i>> = <<Here, j>>
    BY <2>1
  <2> QED
    BY <2>2
<1> HIDE DEF s
<1>6. s \in Seq(Items)
  BY <1>2, <1>3, <1>4, FunctionIsSeq
<1>7. Calls(s) \in Seq(ToolCalls) /\ Texts(s) \in Seq(Items)
  BY <1>6, SelectionTypes
<1>13. kept \in Seq(ToolCalls) /\ IsFiniteSet(ToSet(kept)) /\ Cardinality(ToSet(kept)) = Len(kept)
  <2>1. CASE merged
    <3>1. Merge(Calls(s)) \in Seq(ToolCalls) /\ Distinct(Merge(Calls(s)))
      BY <1>1, <1>7, <2>1, MergeTyped
    <3> QED
      BY <2>1, <3>1, DistinctCount
  <2>2. CASE ~ merged
    BY <1>6, <1>7, <1>10, <2>2, CallsKept, KeptDistinct
  <2> QED
    BY <2>1, <2>2
<1>14. KeepsCalls(m, u)
  BY <1>1 DEF KeepsCalls, Message
<1> HIDE DEF kept
<1>8. Told(m, u)
  <2>1. u \in Utterances
    BY <1>6 DEF Utterances, Roles
  <2>2. m \in Messages
    BY <1>7, <1>13 DEF Messages, Message, Roles
  <2>3. AllIn(s, TextItems \cup ToolCalls)
    BY <1>3, <1>5 DEF AllIn
  <2> QED
    BY <1>14, <2>1, <2>2, <2>3 DEF Told, Message
<1>9. open' \subseteq ToolCalls
  BY <1>1, <1>13 DEF ToSet
<1>11. IsFiniteSet(open') /\ Cardinality(open') = Len(kept)
  BY <1>1, <1>13
<1>12. Opens(m)
  BY <1>1, <1>11 DEF Opens, Message
<1> QED
  BY <1>1, <1>8, <1>9, <1>12

\* A result without its name is a result.
LEMMA Unnamed ==
  ASSUME NEW r \in Results
  PROVE  [r EXCEPT !.fn = ""] = Result("", r.id, r.word) /\ [r EXCEPT !.fn = ""] \in Results
<1>0. \A x \in Results : x = Result(x.fn, x.id, x.word)
  <2>1. \A N : \A x \in [kind : {"result"}, fn : N, id : Words, word : Words] :
          x = Result(x.fn, x.id, x.word)
    BY DEF Result
  <2> QED
    BY <2>1, Zenon DEF Results
<1>1. [r EXCEPT !.fn = ""] \in Results
  BY Zenon DEF Results
<1>2. [r EXCEPT !.fn = ""].fn = ""
  BY DEF Results
<1>5. [r EXCEPT !.fn = ""].id = r.id
  BY DEF Results
<1>6. [r EXCEPT !.fn = ""].word = r.word
  BY DEF Results
<1> DEFINE q == [r EXCEPT !.fn = ""]
<1> HIDE DEF q
<1>3. q \in Results /\ q.fn = "" /\ q.id = r.id /\ q.word = r.word
  BY <1>1, <1>2, <1>5, <1>6 DEF q
<1>4. q = Result(q.fn, q.id, q.word)
  BY <1>0, <1>3
<1>7. q = Result("", r.id, r.word) /\ q \in Results
  BY <1>3, <1>4
<1> QED
  BY <1>7 DEF q

\* A result is remembered as it was said, and closes its call.
LEMMA ReportTells ==
  ASSUME TypeInv, NEW call \in open, NEW named \in BOOLEAN, Report(call, named)
  PROVE  \E m, u : Told(m, u) /\ Adds(m, u) /\ Opens(m) /\ open' \subseteq ToolCalls
<1> DEFINE r == Result(call.fn, call.id, <<Here>>)
           q == Result(IF named THEN call.fn ELSE "", call.id, <<Here>>)
           u == [role |-> "tool", items |-> <<r>>]
           m == Message("tool", FALSE, <<q>>, <<>>)
<1>1. Adds(m, u) /\ open' \subseteq ToolCalls /\ open' = open \ {call} /\ q.id = call.id
  BY DEF Adds, Add, Report, TypeInv, Result
<1>2. r \in Results /\ q \in Results /\ (q = r \/ q = [r EXCEPT !.fn = ""])
  <2>1. call.fn \in Functions /\ call.id \in Words
    BY DEF TypeInv, ToolCalls
  <2>2. <<Here>> \in Words
    BY DEF TypeInv, Here, Words
  <2>3. r \in Results /\ q \in Results
    BY <2>1, <2>2 DEF Result, Results
  <2>4. named => q = r
    OBVIOUS
  <2>5. ~ named => q = [r EXCEPT !.fn = ""]
    <3>1. ~ named => q = Result("", call.id, <<Here>>)
      OBVIOUS
    <3>2. r.id = call.id /\ r.word = <<Here>>
      BY DEF Result
    <3>3. [r EXCEPT !.fn = ""] = Result("", r.id, r.word)
      BY <2>3, Unnamed
    <3> QED
      BY <3>1, <3>2, <3>3
  <2> HIDE DEF r, q
  <2>6. named \/ ~ named
    OBVIOUS
  <2> QED
    BY <2>3, <2>4, <2>5, <2>6
<1> HIDE DEF r, q
<1>3. Told(m, u)
  <2>1. r \in Items /\ q \in Items
    BY <1>2 DEF Items
  <2>2. u \in Utterances
    BY <2>1 DEF Utterances, Roles
  <2>3. m \in Messages
    <3>1. <<>> \in Seq(ToolCalls) /\ <<q>> \in Seq(Items)
      BY <2>1
    <3> QED
      BY <3>1 DEF Messages, Message, Roles
  <2> QED
    BY <1>2, <2>2, <2>3 DEF Told, Message
<1>4. Opens(m)
  BY <1>1, <1>2 DEF Opens, Message
<1> QED
  BY <1>1, <1>3, <1>4

\* Every step adds a message that says what was said.
LEMMA Tells ==
  ASSUME TypeInv, Next
  PROVE  \E m, u : Told(m, u) /\ Adds(m, u) /\ Opens(m) /\ open' \subseteq ToolCalls
<1>1. CASE Instruct
  BY <1>1, InstructTells
<1>2. CASE \E turn \in UserTurns : Ask(turn)
  BY <1>2, AskTells
<1>3. CASE \E turn \in ModelTurns, args \in {"full", "broken"}, merged \in BOOLEAN :
             Answer(turn, args, merged)
  BY <1>3, AnswerTells
<1>4. CASE \E call \in open, named \in BOOLEAN : Report(call, named)
  BY <1>4, ReportTells
<1> QED
  BY <1>1, <1>2, <1>3, <1>4 DEF Next

\* Such a step keeps the types.
LEMMA ToldAppend ==
  ASSUME TypeInv, NEW m, NEW u, Told(m, u), Adds(m, u), open' \subseteq ToolCalls
  PROVE  TypeInv'
<1>1. m \in Messages /\ u \in Utterances
  BY DEF Told
<1>2. spoken' \in Seq(Utterances) /\ history' \in Seq(Messages) /\ Len(history') = Len(spoken')
  BY <1>1 DEF TypeInv, Adds
<1>3. ASSUME NEW i \in DOMAIN spoken' PROVE Told(history'[i], spoken'[i])
  <2>1. \/ i \in DOMAIN spoken /\ spoken'[i] = spoken[i] /\ history'[i] = history[i]
        \/ spoken'[i] = u /\ history'[i] = m
    BY <1>1, <1>3 DEF TypeInv, Adds
  <2> QED
    BY <2>1 DEF TypeInv
<1> QED
  BY <1>2, <1>3 DEF TypeInv

-----------------------------------------------------------------------------
(* Who says what.                                                          *)

\* All that a provider may be told.
Sayings ==
  Items \cup {Parsed(x) : x \in ToolCalls} \cup {[x EXCEPT !.fn = ""] : x \in Results}
        \cup {WithoutId(Parsed(x)) : x \in ToolCalls} \cup {WithoutId(x) : x \in Results}
Voices == Roles \cup {"model"}
Told2 == Voices \X Sayings

\* Items said by somebody are tellings.
LEMMA ByType ==
  ASSUME NEW role \in Voices, NEW s \in Seq(Sayings)
  PROVE  By(role, s) \in Seq(Told2)
<1>1. \A i \in DOMAIN s : <<role, s[i]>> \in Told2
  BY DEF Told2
<1> HIDE DEF Told2
<1>2. Len(s) \in Nat /\ DOMAIN s = 1..Len(s)
  OBVIOUS
<1> DEFINE b == By(role, s)
<1>3. b = [i \in 1..Len(s) |-> b[i]] /\ \A i \in 1..Len(s) : b[i] \in Told2
  BY <1>1, <1>2 DEF By
<1> HIDE DEF b
<1>4. b \in Seq(Told2)
  BY <1>2, <1>3, FunctionIsSeq
<1> QED
  BY <1>4 DEF b

\* When a sequence is two others, one after the other.
LEMMA IsConcat ==
  ASSUME NEW S, NEW x \in Seq(S), NEW y \in Seq(S), NEW z \in Seq(S),
         Len(z) = Len(x) + Len(y), \A i \in 1..Len(x) : z[i] = x[i],
         \A i \in 1..Len(y) : z[Len(x) + i] = y[i]
  PROVE  z = x \o y
<1>1. x \o y \in Seq(S) /\ Len(x \o y) = Len(x) + Len(y)
  BY ConcatProperties
<1>2. ASSUME NEW i \in 1..Len(z) PROVE z[i] = (x \o y)[i]
  <2>1. Len(x) \in Nat /\ Len(y) \in Nat
    OBVIOUS
  <2>2. CASE i <= Len(x)
    BY <2>1, <2>2
  <2>3. CASE i > Len(x)
    <3>1. i - Len(x) \in 1..Len(y) /\ Len(x) + (i - Len(x)) = i
      BY <2>1, <2>3
    <3>2. (x \o y)[i] = y[i - Len(x)]
      BY <2>1, <2>3
    <3>3. z[Len(x) + (i - Len(x))] = y[i - Len(x)]
      BY <3>1
    <3> QED
      BY <3>1, <3>2, <3>3
  <2> QED
    BY <2>1, <2>2, <2>3
<1> QED
  BY <1>1, <1>2, SeqEqual

\* Who says two sequences says one after the other.
LEMMA ByConcat ==
  ASSUME NEW role, NEW S, NEW a \in Seq(S), NEW b \in Seq(S)
  PROVE  By(role, a \o b) = By(role, a) \o By(role, b)
<1>1. /\ Len(a) \in Nat /\ Len(b) \in Nat /\ Len(a \o b) = Len(a) + Len(b)
      /\ DOMAIN a = 1..Len(a) /\ DOMAIN b = 1..Len(b)
      /\ DOMAIN (a \o b) = 1..(Len(a) + Len(b))
      /\ \A i \in 1..Len(a) : (a \o b)[i] = a[i]
      /\ \A i \in 1..Len(b) : (a \o b)[Len(a) + i] = b[i]
  OBVIOUS
<1> DEFINE x == By(role, a)
           y == By(role, b)
           z == By(role, a \o b)
<1>2. x = [i \in 1..Len(a) |-> x[i]] /\ y = [i \in 1..Len(b) |-> y[i]]
  BY <1>1 DEF By
<1>3. z = [i \in 1..(Len(a) + Len(b)) |-> z[i]]
  BY <1>1 DEF By
<1>4. /\ \A i \in 1..Len(a) : z[i] = x[i]
      /\ \A i \in 1..Len(b) : z[Len(a) + i] = y[i]
  BY <1>1 DEF By
<1>5. z = x \o y
  <2> DEFINE R == {role} \X S
  <2>1. (\A i \in 1..Len(a) : x[i] \in R) /\ (\A i \in 1..Len(b) : y[i] \in R)
    BY <1>1 DEF By
  <2>2. \A i \in 1..(Len(a) + Len(b)) : z[i] \in R
    <3>1. \A i \in DOMAIN (a \o b) : (a \o b)[i] \in S
      OBVIOUS
    <3> QED
      BY <1>1, <3>1 DEF By
  <2> HIDE DEF R, x, y, z
  <2>3. x \in Seq(R) /\ Len(x) = Len(a) /\ y \in Seq(R) /\ Len(y) = Len(b)
    BY <1>1, <1>2, <2>1, FunctionIsSeq
  <2>4. z \in Seq(R) /\ Len(z) = Len(a) + Len(b)
    BY <1>1, <1>3, <2>2, FunctionIsSeq
  <2>5. /\ Len(z) = Len(x) + Len(y)
        /\ \A i \in 1..Len(x) : z[i] = x[i]
        /\ \A i \in 1..Len(y) : z[Len(x) + i] = y[i]
    BY <1>4, <2>3, <2>4
  <2> QED
    BY <2>3, <2>4, <2>5, IsConcat
<1> QED
  BY <1>5

-----------------------------------------------------------------------------
(* What the messages of a request say.                                     *)

BodyOf(messages) == FlattenSeq([i \in DOMAIN messages |-> By(messages[i].role, messages[i].body)])

Voiced(S) == \A x \in S : x.role \in Voices /\ x.body \in Seq(Sayings)

\* No messages say nothing.
LEMMA BodyEmpty == BodyOf(<<>>) = <<>>
<1>1. [i \in DOMAIN <<>> |-> By(<<>>[i].role, <<>>[i].body)] = <<>>
  OBVIOUS
<1> QED
  BY <1>1, FlattenEmpty DEF BodyOf

\* One more message adds its body.
LEMMA BodyAppend ==
  ASSUME NEW S, Voiced(S), NEW s \in Seq(S), NEW x \in S
  PROVE  BodyOf(s) \in Seq(Told2) /\ BodyOf(Append(s, x)) = BodyOf(s) \o By(x.role, x.body)
<1> DEFINE F == [y \in S |-> By(y.role, y.body)]
<1>1. \A y \in S : By(y.role, y.body) \in Seq(Told2)
  BY ByType DEF Voiced
<1>2. F \in ToSeqs(S, Told2)
  BY <1>1 DEF ToSeqs
<1>3. ASSUME NEW t \in Seq(S) PROVE BodyOf(t) = Joined(t, F)
  <2>1. \A i \in DOMAIN t : t[i] \in S
    OBVIOUS
  <2>2. [i \in DOMAIN t |-> By(t[i].role, t[i].body)] = [i \in DOMAIN t |-> F[t[i]]]
    BY <2>1
  <2> QED
    BY <2>2 DEF BodyOf, Joined
<1>4. F[x] = By(x.role, x.body)
  OBVIOUS
<1>5. Append(s, x) \in Seq(S)
  OBVIOUS
<1> HIDE DEF F
<1>6. Joined(s, F) \in Seq(Told2) /\ Joined(Append(s, x), F) = Joined(s, F) \o F[x]
  BY <1>2, JoinedAppend
<1> QED
  BY <1>3, <1>4, <1>5, <1>6

\* The bodies of messages are tellings.
LEMMA BodyType ==
  ASSUME NEW S, Voiced(S), NEW s \in Seq(S)
  PROVE  BodyOf(s) \in Seq(Told2)
<1>1. CASE s = <<>>
  <2>1. BodyOf(s) = <<>> /\ <<>> \in Seq(Told2)
    BY <1>1, BodyEmpty
  <2> QED
    BY <2>1, Zenon
<1>2. CASE s # <<>>
  <2>1. s[1] \in S
    BY <1>2
  <2> QED
    BY <2>1, BodyAppend
<1> QED
  BY <1>1, <1>2

-----------------------------------------------------------------------------
(* The Anthropic adapter.                                                  *)

Sent == [role : {"user", "assistant"}, list : BOOLEAN, body : Seq(Items)]

\* Items can be told.
LEMMA ItemsTold == ASSUME NEW s \in Seq(Items) PROVE s \in Seq(Sayings)
<1>1. Items \subseteq Sayings
  BY DEF Sayings
<1> QED
  BY <1>1, SeqMonotonic

\* Anthropic's messages have a role and a body.
LEMMA SentVoiced == Voiced(Sent)
<1>1. ASSUME NEW x \in Sent PROVE x.role \in Voices /\ x.body \in Seq(Items)
  BY DEF Sent, Voices, Roles
<1> QED
  BY <1>1, ItemsTold DEF Voiced

\* A call keeps its name and its id.
LEMMA ParsedIs ==
  ASSUME NEW x \in ToolCalls
  PROVE  Parsed(x) \in ToolCalls /\ Parsed(x).id = x.id
<1>1. \A a \in {"full", "broken", "empty"} : [x EXCEPT !.args = a] \in ToolCalls
  BY Zenon DEF ToolCalls
<1>2. \A a \in {"full", "broken", "empty"} : [x EXCEPT !.args = a].id = x.id
  BY DEF ToolCalls
<1>3. PICK a \in {"full", "broken", "empty"} : a = IF x.args = "full" THEN "full" ELSE "empty"
  OBVIOUS
<1>4. Parsed(x) = [x EXCEPT !.args = a]
  BY <1>3, Zenon DEF Parsed
<1> QED
  BY <1>1, <1>2, <1>4

\* The calls of a message, as sent, are items.
LEMMA ToolUsesTyped ==
  ASSUME NEW m, m.calls \in Seq(ToolCalls)
  PROVE  ToolUses(m) \in Seq(Items)
<1> DEFINE p == ToolUses(m)
           c == m.calls
<1>1. p = [i \in 1..Len(c) |-> p[i]] /\ Len(c) \in Nat
  BY DEF ToolUses
<1>2. \A i \in 1..Len(c) : p[i] \in Items
  <2>1. \A i \in 1..Len(c) : c[i] \in ToolCalls /\ p[i] = Parsed(c[i])
    BY DEF ToolUses
  <2> QED
    BY <2>1, ParsedIs DEF Items
<1> HIDE DEF p, c
<1>3. p \in Seq(Items)
  BY <1>1, <1>2, FunctionIsSeq
<1> QED
  BY <1>3 DEF p

\* The pieces that a message is sent in are items.
LEMMA PiecesTyped ==
  ASSUME NEW m, NEW u, Told(m, u)
  PROVE  /\ Converted(m) \in Seq(Items)
         /\ ContentBlocks(m) \in Seq(Items)
         /\ m.role = "tool" => ToolResult(m) \in Seq(Items)
<1>1. m.content \in Seq(Items) /\ m.calls \in Seq(ToolCalls) /\ m.role = u.role
  BY DEF Told, Messages
<1>3. Converted(m) \in Seq(Items)
  BY <1>1, SelectionTypes DEF Converted
<1>4. ToolUses(m) \in Seq(Items)
  BY <1>1, ToolUsesTyped
<1>6. ContentBlocks(m) \in Seq(Items)
  BY <1>1, <1>4, ConcatProperties DEF ContentBlocks
<1>7. ASSUME m.role = "tool" PROVE ToolResult(m) \in Seq(Items)
  <2>1. PICK x \in Results : m.content[1] = x
    <3>1. PICK r \in Results : m.content = <<r>> \/ m.content = <<[r EXCEPT !.fn = ""]>>
      BY <1>1, <1>7 DEF Told
    <3>2. [r EXCEPT !.fn = ""] \in Results
      BY Unnamed
    <3> DEFINE q == [r EXCEPT !.fn = ""]
    <3> HIDE DEF q
    <3>3. m.content[1] = r \/ m.content[1] = q
      <4>1. m.content = <<r>> \/ m.content = <<q>>
        BY <3>1, Zenon DEF q
      <4> QED
        BY <4>1
    <3> QED
      BY <3>2, <3>3 DEF q
  <2> DEFINE y == [x EXCEPT !.fn = ""]
  <2>2. y \in Items
    <3>1. y \in Results
      BY Unnamed
    <3> HIDE DEF y
    <3> QED
      BY <3>1 DEF Items
  <2>3. ToolResult(m) = <<y>>
    BY <2>1, Zenon DEF ToolResult
  <2> HIDE DEF y
  <2> QED
    BY <2>2, <2>3
<1> QED
  BY <1>3, <1>6, <1>7

\* What the message m adds to what a request to Anthropic says.
AddedA(m) ==
  CASE m.role = "system" -> <<>>
    [] m.role = "user" -> By("user", Converted(m))
    [] m.role = "assistant" -> By("assistant", ContentBlocks(m))
    [] m.role = "tool" -> By("user", ToolResult(m))

\* A result that joins the last message.
LEMMA MergeIs ==
  ASSUME NEW s \in Seq(Sent), Merges(s), NEW r \in Seq(Items)
  PROVE  \E f \in Seq(Sent), x \in Sent, y \in Sent :
           /\ s = Append(f, x) /\ [s EXCEPT ![Len(s)].body = @ \o r] = Append(f, y)
           /\ x.role = "user" /\ x.list /\ y.role = "user" /\ y.list
           /\ y.body = x.body \o r
<1> DEFINE n == Len(s)
           t == [s EXCEPT ![n].body = @ \o r]
<1>1. s # <<>> /\ n \in Nat /\ n # 0
  BY DEF Merges
<1>2. PICK f \in Seq(Sent), x \in Sent : s = Append(f, x)
  BY <1>1, SequenceEmptyOrAppend
<1>3. n = Len(f) + 1 /\ s[n] = x /\ Len(f) \in Nat
  BY <1>2
<1>4. x.role = "user" /\ x.list
  BY <1>3 DEF Merges, Last
<1>5. x.body \in Seq(Items) /\ x.body \o r \in Seq(Items)
  BY ConcatProperties DEF Sent
<1>6. PICK y : y = [x EXCEPT !.body = @ \o r]
  OBVIOUS
<1>7. y \in Sent /\ y.role = x.role /\ y.list = x.list /\ y.body = x.body \o r
  <2>1. \A c \in Seq(Items) : [x EXCEPT !.body = c] \in Sent
    BY Zenon DEF Sent
  <2>2. \A c \in Seq(Items) : [x EXCEPT !.body = c].role = x.role
    BY DEF Sent
  <2>3. \A c \in Seq(Items) : [x EXCEPT !.body = c].list = x.list
    BY DEF Sent
  <2>4. \A c \in Seq(Items) : [x EXCEPT !.body = c].body = c
    BY DEF Sent
  <2>5. PICK b : b = x.body \o r
    OBVIOUS
  <2>6. y = [x EXCEPT !.body = b]
    BY <1>6, <2>5, Zenon
  <2> QED
    BY <1>5, <2>1, <2>2, <2>3, <2>4, <2>5, <2>6
<1>8. t = Append(f, y)
  <2>1. t = [s EXCEPT ![n] = [s[n] EXCEPT !.body = s[n].body \o r]]
    BY Zenon
  <2>2. t = [s EXCEPT ![n] = y]
    BY <1>3, <1>6, <2>1
  <2> HIDE DEF t
  <2>3. t \in Seq(Sent) /\ Len(t) = n /\ \A j \in 1..n : t[j] = IF j = n THEN y ELSE s[j]
    BY <1>1, <1>7, <2>2, ExceptSeq
  <2>4. (\A j \in 1..Len(f) : t[j] = f[j]) /\ t[Len(f) + 1] = y
    <3>1. \A j \in 1..Len(f) : s[j] = f[j] /\ j \in 1..n /\ j # n
      BY <1>2, <1>3
    <3>2. \A j \in 1..Len(f) : t[j] = f[j]
      BY <2>3, <3>1
    <3>3. t[n] = y
      BY <1>1, <2>3
    <3> QED
      BY <1>3, <3>2, <3>3
  <2> QED
    BY <1>3, <1>7, <2>3, <2>4, IsAppend
<1> HIDE DEF t
<1> QED
  BY <1>2, <1>4, <1>7, <1>8 DEF t

\* A result that joins a message is added to what all of them say.
LEMMA MergeBody ==
  ASSUME NEW s \in Seq(Sent), Merges(s), NEW r \in Seq(Items)
  PROVE  LET t == [s EXCEPT ![Len(s)].body = @ \o r]
         IN  t \in Seq(Sent) /\ BodyOf(t) = BodyOf(s) \o By("user", r)
<1> DEFINE t == [s EXCEPT ![Len(s)].body = @ \o r]
<1>1. PICK f \in Seq(Sent), x \in Sent, y \in Sent :
        /\ s = Append(f, x) /\ t = Append(f, y)
        /\ x.role = "user" /\ x.list /\ y.role = "user" /\ y.list
        /\ y.body = x.body \o r
  BY MergeIs
<1> HIDE DEF t
<1>2. x.body \in Seq(Items) /\ t \in Seq(Sent)
  BY <1>1 DEF Sent
<1>3. BodyOf(t) = BodyOf(f) \o By("user", x.body \o r)
  BY <1>1, SentVoiced, BodyAppend
<1>4. BodyOf(s) = BodyOf(f) \o By("user", x.body) /\ BodyOf(f) \in Seq(Told2)
  BY <1>1, SentVoiced, BodyAppend
<1>5. By("user", x.body \o r) = By("user", x.body) \o By("user", r)
  BY <1>2, ByConcat
<1>6. By("user", x.body) \in Seq(Told2) /\ By("user", r) \in Seq(Told2)
  BY <1>2, ItemsTold, ByType DEF Voices, Roles
<1>7. BodyOf(t) = BodyOf(s) \o By("user", r)
  <2>1. PICK a, b, c : a = BodyOf(f) /\ b = By("user", x.body) /\ c = By("user", r)
    OBVIOUS
  <2>2. a \in Seq(Told2) /\ b \in Seq(Told2) /\ c \in Seq(Told2)
    BY <1>4, <1>6, <2>1
  <2>3. a \o (b \o c) = (a \o b) \o c
    BY <2>2
  <2>4. BodyOf(t) = a \o (b \o c) /\ BodyOf(s) = a \o b
    BY <1>3, <1>4, <1>5, <2>1, Zenon
  <2> QED
    BY <2>1, <2>3, <2>4, Zenon
<1> QED
  BY <1>2, <1>7 DEF t

\* Each message adds its own piece to what all of them say.
LEMMA AddBody ==
  ASSUME NEW s \in Seq(Sent), NEW m, NEW u, Told(m, u)
  PROVE  /\ AddToAnthropic(s, m) \in Seq(Sent)
         /\ BodyOf(AddToAnthropic(s, m)) = BodyOf(s) \o AddedA(m)
         /\ AddedA(m) \in Seq(Told2)
<1>1. m.role \in Roles /\ m.list \in BOOLEAN
  BY DEF Told, Messages
<1>2. /\ Converted(m) \in Seq(Items)
      /\ ContentBlocks(m) \in Seq(Items)
      /\ m.role = "tool" => ToolResult(m) \in Seq(Items)
  BY PiecesTyped
<1>3. BodyOf(s) \in Seq(Told2)
  BY SentVoiced, BodyType
<1>4. CASE m.role = "system"
  <2>1. AddToAnthropic(s, m) = s /\ AddedA(m) = <<>>
    BY <1>4 DEF AddToAnthropic, AddedA
  <2>2. BodyOf(s) \o <<>> = BodyOf(s) /\ <<>> \in Seq(Told2)
    BY <1>3
  <2> QED
    BY <2>1, <2>2
<1>5. CASE m.role = "user"
  <2> DEFINE x == [role |-> "user", list |-> m.list, body |-> Converted(m)]
  <2>1. x \in Sent /\ x.role = "user" /\ x.body = Converted(m)
    BY <1>1, <1>2 DEF Sent
  <2>2. AddToAnthropic(s, m) = Append(s, x) /\ AddedA(m) = By("user", Converted(m))
    BY <1>5 DEF AddToAnthropic, AddedA
  <2> HIDE DEF x
  <2>3. BodyOf(Append(s, x)) = BodyOf(s) \o By("user", Converted(m))
    BY <2>1, SentVoiced, BodyAppend
  <2>4. By("user", Converted(m)) \in Seq(Told2)
    BY <1>2, ItemsTold, ByType DEF Voices, Roles
  <2> QED
    BY <2>1, <2>2, <2>3, <2>4
<1>6. CASE m.role = "assistant"
  <2> DEFINE x == [role |-> "assistant", list |-> TRUE, body |-> ContentBlocks(m)]
  <2>1. x \in Sent /\ x.role = "assistant" /\ x.body = ContentBlocks(m)
    BY <1>1, <1>2 DEF Sent
  <2>2. AddToAnthropic(s, m) = Append(s, x) /\ AddedA(m) = By("assistant", ContentBlocks(m))
    BY <1>6 DEF AddToAnthropic, AddedA
  <2> HIDE DEF x
  <2>3. BodyOf(Append(s, x)) = BodyOf(s) \o By("assistant", ContentBlocks(m))
    BY <2>1, SentVoiced, BodyAppend
  <2>4. By("assistant", ContentBlocks(m)) \in Seq(Told2)
    BY <1>2, ItemsTold, ByType DEF Voices, Roles
  <2> QED
    BY <2>1, <2>2, <2>3, <2>4
<1>7. CASE m.role = "tool"
  <2> DEFINE r == ToolResult(m)
             x == [role |-> "user", list |-> TRUE, body |-> r]
  <2>0. r \in Seq(Items)
    BY <1>2, <1>7
  <2>1. x \in Sent /\ x.role = "user" /\ x.body = r
    BY <2>0 DEF Sent
  <2>2. /\ Merges(s) => AddToAnthropic(s, m) = [s EXCEPT ![Len(s)].body = @ \o r]
        /\ ~ Merges(s) => AddToAnthropic(s, m) = Append(s, x)
        /\ AddedA(m) = By("user", r)
    <3>1. m.role # "system" /\ m.role # "user" /\ m.role # "assistant"
      BY <1>7
    <3> QED
      BY <1>7, <3>1, Zenon DEF AddToAnthropic, AddedA
  <2> HIDE DEF x, r
  <2>3. BodyOf(Append(s, x)) = BodyOf(s) \o By("user", r)
    BY <2>1, SentVoiced, BodyAppend
  <2>4. By("user", r) \in Seq(Told2)
    BY <2>0, ItemsTold, ByType DEF Voices, Roles
  <2>5. CASE Merges(s)
    BY <2>0, <2>2, <2>4, <2>5, MergeBody
  <2>6. CASE ~ Merges(s)
    <3>1. Append(s, x) \in Seq(Sent)
      BY <2>1, AppendProperties
    <3> QED
      BY <2>2, <2>3, <2>4, <2>6, <3>1
  <2> QED
    BY <2>5, <2>6
<1> QED
  BY <1>1, <1>4, <1>5, <1>6, <1>7 DEF Roles

-----------------------------------------------------------------------------
(* A conversation as a sequence of messages with what they remember.       *)

Pairs == {p \in Messages \X Utterances : Told(p[1], p[2])}
Log == [i \in DOMAIN spoken |-> <<history[i], spoken[i]>>]
Remembered(s) == [i \in DOMAIN s |-> s[i][1]]

\* The history and what was said, side by side.
LEMMA LogIs ==
  ASSUME TypeInv
  PROVE  /\ Log \in Seq(Pairs) /\ Remembered(Log) = history
         /\ DOMAIN Log = DOMAIN spoken
         /\ \A i \in DOMAIN spoken : Log[i] = <<history[i], spoken[i]>>
<1> DEFINE l == Log
<1>1. Len(spoken) \in Nat /\ DOMAIN spoken = 1..Len(spoken) /\ DOMAIN history = DOMAIN spoken
  BY DEF TypeInv
<1>2. \A i \in DOMAIN spoken : l[i] = <<history[i], spoken[i]>> /\ l[i] \in Pairs
  <2> SUFFICES ASSUME NEW i \in DOMAIN spoken PROVE <<history[i], spoken[i]>> \in Pairs
    BY DEF Log
  <2>1. Told(history[i], spoken[i]) /\ history[i] \in Messages /\ spoken[i] \in Utterances
    BY <1>1 DEF TypeInv
  <2> DEFINE p == <<history[i], spoken[i]>>
  <2>2. p \in Messages \X Utterances /\ p[1] = history[i] /\ p[2] = spoken[i]
    BY <2>1
  <2> HIDE DEF p
  <2>3. p \in Pairs
    BY <2>1, <2>2 DEF Pairs
  <2> QED
    BY <2>3 DEF p
<1>3. l = [i \in 1..Len(spoken) |-> l[i]] /\ DOMAIN l = DOMAIN spoken
  BY <1>1 DEF Log
<1>4. Remembered(l) = history
  <2>1. \A i \in DOMAIN spoken : l[i][1] = history[i]
    BY <1>2
  <2>2. Remembered(l) = [i \in DOMAIN history |-> history[i]]
    BY <1>1, <1>3, <2>1 DEF Remembered
  <2>3. history = [i \in DOMAIN history |-> history[i]]
    BY DEF TypeInv
  <2> QED
    BY <2>2, <2>3
<1> HIDE DEF l
<1>5. l \in Seq(Pairs)
  BY <1>1, <1>2, <1>3, FunctionIsSeq
<1> QED
  BY <1>2, <1>3, <1>4, <1>5 DEF l

\* One more pair is remembered by its message.
LEMMA RememberedAppend ==
  ASSUME NEW s \in Seq(Pairs), NEW p \in Pairs
  PROVE  /\ Remembered(s) \in Seq(Messages) /\ p[1] \in Messages
         /\ Remembered(Append(s, p)) = Append(Remembered(s), p[1])
<1> DEFINE t == Append(s, p)
           a == Remembered(s)
           b == Remembered(t)
<1>1. Len(s) \in Nat /\ DOMAIN s = 1..Len(s) /\ DOMAIN t = 1..(Len(s) + 1)
  OBVIOUS
<1>2. \A q \in Pairs : q[1] \in Messages
  BY DEF Pairs
<1>3. (\A i \in 1..Len(s) : s[i] \in Pairs /\ t[i] = s[i]) /\ t[Len(s) + 1] = p
  OBVIOUS
<1> HIDE DEF t
<1>4. /\ a = [i \in 1..Len(s) |-> a[i]] /\ \A i \in 1..Len(s) : a[i] \in Messages
      /\ b = [i \in 1..(Len(s) + 1) |-> b[i]] /\ \A i \in 1..Len(s) : b[i] = a[i]
      /\ b[Len(s) + 1] = p[1]
  BY <1>1, <1>2, <1>3 DEF Remembered
<1> HIDE DEF a, b
<1>5. a \in Seq(Messages) /\ Len(a) = Len(s)
  BY <1>1, <1>4, FunctionIsSeq
<1>6. \A i \in 1..(Len(s) + 1) : b[i] \in Messages
  <2>1. \A i \in 1..(Len(s) + 1) : i \in 1..Len(s) \/ i = Len(s) + 1
    BY <1>1
  <2> QED
    BY <1>2, <1>4, <2>1
<1>7. b \in Seq(Messages) /\ Len(b) = Len(s) + 1
  <2>1. Len(s) + 1 \in Nat
    BY <1>1
  <2> QED
    BY <1>4, <1>6, <2>1, FunctionIsSeq
<1>8. b = Append(a, p[1])
  BY <1>2, <1>4, <1>5, <1>7, IsAppend
<1> QED
  BY <1>2, <1>5, <1>8 DEF a, b, t

\* The calls that the client still knows of.
Uses(m, u) ==
  IF Len(m.calls) = Len(Calls(u.items)) THEN Calls(u.items) ELSE Merge(Calls(u.items))

\* They are those of its message.
LEMMA UsesAre ==
  ASSUME NEW m, NEW u, Told(m, u), u.role = "assistant"
  PROVE  Uses(m, u) = m.calls
<1>1. KeepsCalls(m, u) /\ u.items \in Seq(Items)
  BY DEF Told, Utterances
<1>2. Calls(u.items) \in Seq(ToolCalls)
  BY <1>1, SelectionTypes
<1>3. Len(Calls(u.items)) > 1 => Len(Merge(Calls(u.items))) = 1
  BY <1>2, MergeTyped
<1>4. Len(Calls(u.items)) \in Nat
  BY <1>2, LenProperties
<1>5. PICK c, d : c = Calls(u.items) /\ d = Merge(Calls(u.items))
  OBVIOUS
<1>6. Uses(m, u) = IF Len(m.calls) = Len(c) THEN c ELSE d
  BY <1>5, Zenon DEF Uses
<1>7. (m.calls = c \/ (Len(c) > 1 /\ m.calls = d)) /\ (Len(c) > 1 => Len(d) = 1) /\ Len(c) \in Nat
  BY <1>1, <1>3, <1>4, <1>5, Zenon DEF KeepsCalls
<1>8. Len(c) > 1 => Len(d) # Len(c)
  <2>1. \A n \in Nat : n > 1 => n # 1
    OBVIOUS
  <2> QED
    BY <1>7, <2>1, Zenon
<1> QED
  BY <1>6, <1>7, <1>8, Zenon

\* ToAnthropic, as a function of a message and of what was said.
HeardA(m, u) ==
  CASE u.role = "assistant" ->
         By("assistant", Texts(u.items) \o [j \in DOMAIN Uses(m, u) |-> Parsed(Uses(m, u)[j])])
    [] u.role = "tool" -> By("user", <<[u.items[1] EXCEPT !.fn = ""]>>)
    [] OTHER -> By(u.role, Chosen(u.items, NotLink))

\* Texts are no links.
LEMMA InlineTexts ==
  ASSUME NEW s \in Seq(Items), AllIn(s, TextItems)
  PROVE  Chosen(s, NotLink) = s
<1>1. \A i \in DOMAIN s : s[i] \in Inline
  BY DEF AllIn, TextItems, Inline
<1> QED
  BY <1>1, KeptAll, InlineKept

\* A user's message loses its links.
LEMMA ConvertedIs ==
  ASSUME NEW m, NEW u, Told(m, u), u.role = "user"
  PROVE  Converted(m) = Chosen(u.items, NotLink)
<1>1. m.content = u.items /\ (~ m.list => AllIn(u.items, TextItems))
  BY DEF Told
<1>2. u.items \in Seq(Items)
  BY DEF Told, Utterances
<1>3. ~ m.list => Chosen(u.items, NotLink) = u.items
  BY <1>1, <1>2, InlineTexts
<1>4. /\ m.list => Converted(m) = Chosen(m.content, NotLink)
      /\ ~ m.list => Converted(m) = m.content
  BY DEF Converted
<1> QED
  BY <1>1, <1>3, <1>4, Zenon

\* An instruction has none.
LEMMA SystemIs ==
  ASSUME NEW m, NEW u, Told(m, u), u.role = "system"
  PROVE  Chosen(u.items, NotLink) = u.items /\ m.content = u.items
<1>1. m.content = u.items /\ AllIn(u.items, TextItems) /\ u.items \in Seq(Items)
  BY DEF Told, Utterances
<1> QED
  BY <1>1, InlineTexts

\* What a message adds is what Anthropic is meant to hear of it.
LEMMA HeardAIs ==
  ASSUME NEW m, NEW u, Told(m, u)
  PROVE  /\ u.role = "system" => HeardA(m, u) = By("system", m.content)
         /\ u.role # "system" => HeardA(m, u) = AddedA(m)
<1>1. m.role = u.role /\ u.role \in Roles
  BY DEF Told, Utterances
<1>2. CASE u.role = "system"
  <2>1. HeardA(m, u) = By("system", Chosen(u.items, NotLink))
    BY <1>2 DEF HeardA
  <2> QED
    BY <1>2, <2>1, SystemIs
<1>3. CASE u.role = "user"
  <2>1. HeardA(m, u) = By("user", Chosen(u.items, NotLink)) /\ AddedA(m) = By("user", Converted(m))
    BY <1>1, <1>3 DEF HeardA, AddedA
  <2> QED
    BY <1>3, <2>1, ConvertedIs
<1>4. CASE u.role = "assistant"
  <2>1. m.content = Texts(u.items) /\ Uses(m, u) = m.calls
    BY <1>4, UsesAre DEF Told
  <2>2. AddedA(m) = By("assistant", m.content \o [j \in DOMAIN m.calls |-> Parsed(m.calls[j])])
    BY <1>1, <1>4 DEF AddedA, ContentBlocks, ToolUses
  <2>3. HeardA(m, u) = By("assistant", Texts(u.items) \o
                         [j \in DOMAIN Uses(m, u) |-> Parsed(Uses(m, u)[j])])
    BY <1>4 DEF HeardA
  <2> QED
    BY <1>4, <2>1, <2>2, <2>3
<1>5. CASE u.role = "tool"
  <2>1. PICK r \in Results :
          u.items = <<r>> /\ (m.content = <<r>> \/ m.content = <<[r EXCEPT !.fn = ""]>>)
    BY <1>5 DEF Told
  <2> DEFINE q == [r EXCEPT !.fn = ""]
             Strip(x) == [x EXCEPT !.fn = ""]
  <2>2. Strip(q) = q
    <3>1. q = Result("", r.id, r.word) /\ q \in Results
      BY Unnamed
    <3>2. q.id = r.id /\ q.word = r.word
      <4> HIDE DEF q
      <4> QED
        BY <3>1 DEF Result
    <3>3. Strip(q) = Result("", q.id, q.word)
      <4> HIDE DEF q
      <4> QED
        BY <3>1, Unnamed
    <3> QED
      BY <3>1, <3>2, <3>3, Zenon
  <2>3. HeardA(m, u) = By("user", <<Strip(u.items[1])>>)
    BY <1>5 DEF HeardA
  <2>4. AddedA(m) = By("user", <<Strip(m.content[1])>>)
    BY <1>1, <1>5 DEF AddedA, ToolResult
  <2>5. Strip(r) = q
    OBVIOUS
  <2>9. u.items = <<r>> /\ (m.content = <<r>> \/ m.content = <<q>>)
    BY <2>1, Zenon
  <2> HIDE DEF Strip, q
  <2>6. u.items[1] = r
    BY <2>9
  <2>7. m.content[1] = r \/ m.content[1] = q
    BY <2>9
  <2>8. Strip(m.content[1]) = q
    BY <2>2, <2>5, <2>7
  <2> QED
    BY <1>5, <2>3, <2>4, <2>5, <2>6, <2>8
<1> QED
  BY <1>1, <1>2, <1>3, <1>4, <1>5 DEF Roles

-----------------------------------------------------------------------------
(* The instructions.                                                       *)

\* The pairs that are instructions give this, and the others that.
InstructionsA == [p \in Pairs |-> IF p[2].role = "system" THEN HeardA(p[1], p[2]) ELSE <<>>]
DialogueA == [p \in Pairs |-> IF p[2].role = "system" THEN <<>> ELSE HeardA(p[1], p[2])]

\* The fields of a pair.
LEMMA PairTold ==
  ASSUME NEW p \in Pairs
  PROVE  /\ Told(p[1], p[2]) /\ p[1] \in Messages /\ p[2] \in Utterances
         /\ p[1].role = p[2].role /\ p[1].content \in Seq(Items)
BY DEF Pairs, Told, Messages

\* What Anthropic is to hear of a pair are tellings.
LEMMA DialogueTypeA ==
  /\ InstructionsA \in ToSeqs(Pairs, Told2)
  /\ DialogueA \in ToSeqs(Pairs, Told2)
<1>1. ASSUME NEW p \in Pairs PROVE HeardA(p[1], p[2]) \in Seq(Told2)
  <2>1. Told(p[1], p[2]) /\ p[1].content \in Seq(Items)
    BY PairTold
  <2>2. CASE p[2].role = "system"
    <3>1. Items \subseteq Sayings
      BY DEF Sayings
    <3>2. p[1].content \in Seq(Sayings)
      BY <2>1, <3>1, SeqMonotonic
    <3>3. By("system", p[1].content) \in Seq(Told2)
      BY <3>2, ByType DEF Voices, Roles
    <3> QED
      BY <2>1, <2>2, <3>3, HeardAIs
  <2>3. CASE p[2].role # "system"
    <3>1. <<>> \in Seq(Sent)
      OBVIOUS
    <3>2. AddedA(p[1]) \in Seq(Told2)
      BY <2>1, <3>1, AddBody
    <3> QED
      BY <2>1, <2>3, <3>2, HeardAIs
  <2> QED
    BY <2>2, <2>3
<1>2. <<>> \in Seq(Told2)
  OBVIOUS
<1>3. /\ \A p \in Pairs : (IF p[2].role = "system" THEN HeardA(p[1], p[2]) ELSE <<>>) \in Seq(Told2)
      /\ \A p \in Pairs : (IF p[2].role = "system" THEN <<>> ELSE HeardA(p[1], p[2])) \in Seq(Told2)
  BY <1>1, <1>2
<1> QED
  BY <1>3 DEF InstructionsA, DialogueA, ToSeqs

Instructions == [m \in Messages |-> IF m.role = "system" THEN m.content ELSE <<>>]

\* The instructions of a message are items.
LEMMA InstructionsType == Instructions \in ToSeqs(Messages, Items)
<1>1. \A m \in Messages : (IF m.role = "system" THEN m.content ELSE <<>>) \in Seq(Items)
  <2>1. <<>> \in Seq(Items)
    OBVIOUS
  <2> QED
    BY <2>1 DEF Messages
<1> QED
  BY <1>1 DEF Instructions, ToSeqs

\* The system prompt joins the instructions.
LEMMA SystemPromptIs ==
  ASSUME NEW h \in Seq(Messages)
  PROVE  SystemPrompt(h) = Joined(h, Instructions)
<1>1. \A i \in DOMAIN h : h[i] \in Messages
  OBVIOUS
<1>2. [i \in DOMAIN h |-> IF h[i].role = "system" THEN h[i].content ELSE <<>>]
        = [i \in DOMAIN h |-> Instructions[h[i]]]
  BY <1>1 DEF Instructions
<1> QED
  BY <1>2 DEF SystemPrompt, Joined

\* The system prompt holds the instructions.
LEMMA SystemPromptHears ==
  \A s \in Seq(Pairs) :
    By("system", SystemPrompt(Remembered(s))) = Joined(s, InstructionsA)
<1> DEFINE T == {s \in Seq(Pairs) :
                   By("system", SystemPrompt(Remembered(s))) = Joined(s, InstructionsA)}
<1>1. <<>> \in T
  <2>1. Remembered(<<>>) = <<>> /\ By("system", <<>>) = <<>>
    BY DEF Remembered, By
  <2>2. SystemPrompt(<<>>) = <<>>
    <3>1. <<>> \in Seq(Messages)
      OBVIOUS
    <3> QED
      BY <3>1, SystemPromptIs, JoinedEmpty
  <2>3. <<>> \in Seq(Pairs)
    OBVIOUS
  <2> QED
    BY <2>1, <2>2, <2>3, JoinedEmpty
<1>2. ASSUME NEW s \in Seq(Pairs), NEW p \in Pairs, s \in T PROVE Append(s, p) \in T
  <2> DEFINE h == Remembered(s)
             m == p[1]
             t == Append(s, p)
  <2>1. h \in Seq(Messages) /\ m \in Messages /\ Remembered(t) = Append(h, m)
    BY RememberedAppend
  <2>2. t \in Seq(Pairs)
    BY AppendProperties
  <2>3. Joined(t, InstructionsA) = Joined(s, InstructionsA) \o InstructionsA[p]
    BY DialogueTypeA, JoinedAppend
  <2>4. By("system", SystemPrompt(h)) = Joined(s, InstructionsA)
    BY <1>2
  <2>5. InstructionsA[p] = By("system", Instructions[m])
    <3>1. Told(p[1], p[2]) /\ p[1].role = p[2].role /\ m \in Messages
      BY PairTold
    <3>2. By("system", <<>>) = <<>>
      BY DEF By
    <3>3. CASE p[2].role = "system"
      BY <3>1, <3>3, HeardAIs DEF InstructionsA, Instructions
    <3>4. CASE p[2].role # "system"
      BY <3>1, <3>2, <3>4 DEF InstructionsA, Instructions
    <3> QED
      BY <3>3, <3>4
  <2> HIDE DEF h, m, t
  <2>6. /\ SystemPrompt(Append(h, m)) = SystemPrompt(h) \o Instructions[m]
        /\ SystemPrompt(h) \in Seq(Items) /\ Instructions[m] \in Seq(Items)
    <3>1. Append(h, m) \in Seq(Messages)
      BY <2>1, AppendProperties
    <3>2. Instructions[m] \in Seq(Items)
      BY <2>1, InstructionsType DEF ToSeqs
    <3>3. /\ Joined(h, Instructions) \in Seq(Items)
          /\ Joined(Append(h, m), Instructions) = Joined(h, Instructions) \o Instructions[m]
      BY <2>1, InstructionsType, JoinedAppend
    <3>4. /\ SystemPrompt(h) = Joined(h, Instructions)
          /\ SystemPrompt(Append(h, m)) = Joined(Append(h, m), Instructions)
      BY <2>1, <3>1, SystemPromptIs
    <3> QED
      BY <3>2, <3>3, <3>4
  <2>7. By("system", SystemPrompt(Append(h, m)))
          = By("system", SystemPrompt(h)) \o By("system", Instructions[m])
    BY <2>6, ByConcat
  <2> QED
    BY <2>1, <2>2, <2>3, <2>4, <2>5, <2>7 DEF t
<1> HIDE DEF T
<1>3. \A s \in Seq(Pairs) : s \in T
  BY <1>1, <1>2, SeqInd
<1> QED
  BY <1>3 DEF T

\* The other messages hold the dialogue.
LEMMA MessagesHear ==
  \A s \in Seq(Pairs) :
    /\ AnthropicMessages(Remembered(s)) \in Seq(Sent)
    /\ BodyOf(AnthropicMessages(Remembered(s))) = Joined(s, DialogueA)
<1> DEFINE T == {s \in Seq(Pairs) :
                   /\ AnthropicMessages(Remembered(s)) \in Seq(Sent)
                   /\ BodyOf(AnthropicMessages(Remembered(s))) = Joined(s, DialogueA)}
<1>1. <<>> \in T
  <2>1. Remembered(<<>>) = <<>>
    BY DEF Remembered
  <2>2. <<>> \in Seq(Pairs) /\ <<>> \in Seq(Sent)
    OBVIOUS
  <2> QED
    BY <2>1, <2>2, SentEmpty, BodyEmpty, JoinedEmpty
<1>2. ASSUME NEW s \in Seq(Pairs), NEW p \in Pairs, s \in T PROVE Append(s, p) \in T
  <2> DEFINE h == Remembered(s)
             m == p[1]
             t == Append(s, p)
             a == AnthropicMessages(h)
  <2>1. h \in Seq(Messages) /\ m \in Messages /\ Remembered(t) = Append(h, m)
    BY RememberedAppend
  <2>2. t \in Seq(Pairs)
    BY AppendProperties
  <2>3. Joined(t, DialogueA) = Joined(s, DialogueA) \o DialogueA[p]
    BY DialogueTypeA, JoinedAppend
  <2>4. a \in Seq(Sent) /\ BodyOf(a) = Joined(s, DialogueA)
    BY <1>2
  <2>5. AnthropicMessages(Append(h, m)) = AddToAnthropic(a, m)
    BY <2>1, SentAppend
  <2>6. Told(m, p[2]) /\ m.role = p[2].role
    BY PairTold
  <2>7. AddToAnthropic(a, m) \in Seq(Sent) /\ BodyOf(AddToAnthropic(a, m)) = BodyOf(a) \o AddedA(m)
    BY <2>4, <2>6, AddBody
  <2>8. DialogueA[p] = AddedA(m)
    <3>1. CASE p[2].role = "system"
      BY <2>6, <3>1 DEF DialogueA, AddedA
    <3>2. CASE p[2].role # "system"
      BY <2>6, <3>2, HeardAIs DEF DialogueA
    <3> QED
      BY <3>1, <3>2
  <2> HIDE DEF h, m, t, a
  <2> QED
    BY <2>1, <2>2, <2>3, <2>4, <2>5, <2>7, <2>8 DEF t
<1> HIDE DEF T
<1>3. \A s \in Seq(Pairs) : s \in T
  BY <1>1, <1>2, SeqInd
<1> QED
  BY <1>3 DEF T

\* So the types imply that Anthropic hears all.
LEMMA TypeInvImpliesAnthropicHearsAll == TypeInv => AnthropicHearsAll
<1> SUFFICES ASSUME TypeInv PROVE AnthropicHearsAll
  OBVIOUS
<1>1. /\ Log \in Seq(Pairs) /\ Remembered(Log) = history
      /\ DOMAIN Log = DOMAIN spoken
      /\ \A i \in DOMAIN spoken : Log[i] = <<history[i], spoken[i]>>
  BY LogIs
<1>2. Heard(AnthropicMessages(history)) =
        By("system", SystemPrompt(history)) \o BodyOf(AnthropicMessages(history))
  BY DEF Heard, BodyOf
<1>3. Heard(AnthropicMessages(history)) = Joined(Log, InstructionsA) \o Joined(Log, DialogueA)
  BY <1>1, <1>2, SystemPromptHears, MessagesHear
<1>4. ASSUME NEW i \in DOMAIN spoken
      PROVE  Log[i] \in Pairs /\ Log[i][1] = history[i] /\ Log[i][2] = spoken[i]
  BY <1>1
<1>5. Joined(Log, InstructionsA) =
        FlattenSeq([i \in DOMAIN spoken |->
          IF (spoken[i].role = "system") = TRUE THEN ToAnthropic(i) ELSE <<>>])
  <2>1. [i \in DOMAIN Log |-> InstructionsA[Log[i]]] =
          [i \in DOMAIN spoken |->
             IF (spoken[i].role = "system") = TRUE THEN ToAnthropic(i) ELSE <<>>]
    <3>1. ASSUME NEW i \in DOMAIN spoken
          PROVE  InstructionsA[Log[i]] =
                   IF (spoken[i].role = "system") = TRUE THEN ToAnthropic(i) ELSE <<>>
      <4>1. InstructionsA[Log[i]] = IF spoken[i].role = "system" THEN HeardA(history[i], spoken[i]) ELSE <<>>
        BY <1>4 DEF InstructionsA
      <4>2. ToAnthropic(i) = HeardA(history[i], spoken[i])
        BY Zenon DEF ToAnthropic, HeardA, Uses
      <4> QED
        BY <4>1, <4>2
    <3> QED
      BY <1>1, <3>1
  <2> QED
    BY <2>1 DEF Joined
<1>6. Joined(Log, DialogueA) =
        FlattenSeq([i \in DOMAIN spoken |->
          IF (spoken[i].role = "system") = FALSE THEN ToAnthropic(i) ELSE <<>>])
  <2>1. [i \in DOMAIN Log |-> DialogueA[Log[i]]] =
          [i \in DOMAIN spoken |->
             IF (spoken[i].role = "system") = FALSE THEN ToAnthropic(i) ELSE <<>>]
    <3>1. ASSUME NEW i \in DOMAIN spoken
          PROVE  DialogueA[Log[i]] =
                   IF (spoken[i].role = "system") = FALSE THEN ToAnthropic(i) ELSE <<>>
      <4>1. DialogueA[Log[i]] = IF spoken[i].role = "system" THEN <<>> ELSE HeardA(history[i], spoken[i])
        BY <1>4 DEF DialogueA
      <4>2. ToAnthropic(i) = HeardA(history[i], spoken[i])
        BY Zenon DEF ToAnthropic, HeardA, Uses
      <4> QED
        BY <4>1, <4>2
    <3> QED
      BY <1>1, <3>1
  <2> QED
    BY <2>1 DEF Joined
<1> QED
  BY <1>3, <1>5, <1>6, Zenon DEF AnthropicHearsAll, Transcript

-----------------------------------------------------------------------------
(* The Gemini adapter.                                                     *)

Content(m) == [role |-> Role(m), body |-> Parts(m)]
NonSystem == {m \in Messages : m.role # "system"}

\* The messages that are no instructions, as what is kept of all.
LEMMA SaidKept == \A h \in Seq(Messages) : Chosen(h, NotSystem) = Kept(h, Messages, NonSystem)
<1> SUFFICES ASSUME NEW h \in Seq(Messages)
             PROVE  Chosen(h, NotSystem) = Kept(h, Messages, NonSystem)
  OBVIOUS
<1>1. \A i \in DOMAIN h : h[i] \in Messages /\ (h[i] \in NonSystem <=> NotSystem(h[i]))
  BY DEF NonSystem, NotSystem
<1>2. [i \in DOMAIN h |-> IF NotSystem(h[i]) THEN <<h[i]>> ELSE <<>>]
        = [i \in DOMAIN h |-> Only(Messages, NonSystem)[h[i]]]
  BY <1>1 DEF Only
<1> QED
  BY <1>2 DEF Chosen, Kept, Joined

Contents(s) == [i \in DOMAIN s |-> Content(s[i])]

\* Gemini's contents, one for each of these.
LEMMA GeminiIs == \A h \in Seq(Messages) : GeminiContents(h) = Contents(Chosen(h, NotSystem))
BY Zenon DEF GeminiContents, Contents, Content

\* One more message adds its content.
LEMMA ContentsAppend ==
  ASSUME NEW S, NEW R, \A x \in S : Content(x) \in R, NEW s \in Seq(S), NEW x \in S
  PROVE  Contents(s) \in Seq(R) /\ Contents(Append(s, x)) = Append(Contents(s), Content(x))
<1> DEFINE t == Append(s, x)
           a == Contents(s)
           b == Contents(t)
<1>1. Len(s) \in Nat /\ DOMAIN s = 1..Len(s) /\ DOMAIN t = 1..(Len(s) + 1)
  OBVIOUS
<1>2. (\A i \in 1..Len(s) : s[i] \in S /\ t[i] = s[i]) /\ t[Len(s) + 1] = x
  OBVIOUS
<1> HIDE DEF t
<1>3. /\ a = [i \in 1..Len(s) |-> a[i]] /\ \A i \in 1..Len(s) : a[i] \in R
      /\ b = [i \in 1..(Len(s) + 1) |-> b[i]] /\ \A i \in 1..Len(s) : b[i] = a[i]
      /\ b[Len(s) + 1] = Content(x)
  BY <1>1, <1>2 DEF Contents
<1> HIDE DEF a, b
<1>4. a \in Seq(R) /\ Len(a) = Len(s)
  BY <1>1, <1>3, FunctionIsSeq
<1>5. \A i \in 1..(Len(s) + 1) : b[i] \in R
  <2>1. \A i \in 1..(Len(s) + 1) : i \in 1..Len(s) \/ i = Len(s) + 1
    BY <1>1
  <2> QED
    BY <1>3, <2>1
<1>6. b \in Seq(R) /\ Len(b) = Len(s) + 1
  <2>1. Len(s) + 1 \in Nat
    BY <1>1
  <2> QED
    BY <1>3, <1>5, <2>1, FunctionIsSeq
<1>7. b = Append(a, Content(x))
  BY <1>3, <1>4, <1>6, IsAppend
<1> QED
  BY <1>4, <1>7 DEF a, b, t

\* An empty history has no contents.
LEMMA GeminiOfNone == GeminiContents(<<>>) = <<>>
<1>1. <<>> \in Seq(Messages)
  OBVIOUS
<1>2. GeminiContents(<<>>) = Contents(Kept(<<>>, Messages, NonSystem))
  BY <1>1, GeminiIs, SaidKept
<1>3. Contents(<<>>) = <<>>
  BY DEF Contents
<1> QED
  BY <1>2, <1>3, KeptEmpty

\* A longer history has one content more, unless it is an instruction.
LEMMA GeminiAppend ==
  ASSUME NEW h \in Seq(Messages), NEW m \in Messages
  PROVE  /\ m.role = "system" => GeminiContents(Append(h, m)) = GeminiContents(h)
         /\ m.role # "system" =>
              GeminiContents(Append(h, m)) = Append(GeminiContents(h), Content(m))
<1> DEFINE R == {Content(x) : x \in Messages}
           k == Kept(h, Messages, NonSystem)
           kt == Kept(Append(h, m), Messages, NonSystem)
<1>1. /\ k \in Seq(Messages \cap NonSystem)
      /\ m \in NonSystem => kt = Append(k, m)
      /\ m \notin NonSystem => kt = k
  BY KeptAppend, Zenon
<1>2. Append(h, m) \in Seq(Messages)
  BY AppendProperties
<1>3. GeminiContents(h) = Contents(k) /\ GeminiContents(Append(h, m)) = Contents(kt)
  BY <1>2, GeminiIs, SaidKept
<1>4. k \in Seq(Messages)
  <2> HIDE DEF k
  <2>1. Messages \cap NonSystem \subseteq Messages
    OBVIOUS
  <2> QED
    BY <1>1, <2>1, SeqMonotonic
<1>5. \A x \in Messages : Content(x) \in R
  OBVIOUS
<1> HIDE DEF R, k, kt
<1>6. Contents(Append(k, m)) = Append(Contents(k), Content(m))
  BY <1>4, <1>5, ContentsAppend
<1>7. m \in NonSystem <=> m.role # "system"
  BY DEF NonSystem
<1> QED
  BY <1>1, <1>3, <1>6, <1>7

\* The content of a tool's message is a result.
LEMMA ToolContent ==
  ASSUME NEW m, NEW u, Told(m, u), u.role = "tool"
  PROVE  m.content[1] \in Results
<1>1. PICK r \in Results :
        u.items = <<r>> /\ (m.content = <<r>> \/ m.content = <<[r EXCEPT !.fn = ""]>>)
  BY DEF Told
<1>2. PICK q \in Results : q = [r EXCEPT !.fn = ""]
  BY Unnamed
<1>3. m.content = <<r>> \/ m.content = <<q>>
  BY <1>1, <1>2, Zenon
<1> QED
  BY <1>3

\* An answer without calls has texts only.
LEMMA TextsOnly ==
  ASSUME NEW s \in Seq(Items), AllIn(s, TextItems \cup ToolCalls), Calls(s) = <<>>
  PROVE  Texts(s) = s
<1>1. \A i \in DOMAIN s : s[i] \notin ToolCalls
  BY CallsKept, KeptNone
<1>2. \A i \in DOMAIN s : s[i] \in TextItems
  BY <1>1 DEF AllIn
<1> QED
  BY <1>2, TextsKept, KeptAll

\* The parts of a message are tellings.
LEMMA PartsTyped ==
  ASSUME NEW m, NEW u, Told(m, u), u.role # "system"
  PROVE  Parts(m) \in Seq(Sayings)
<1>1. m.role = u.role /\ u.role \in Roles
  BY DEF Told, Utterances
<1>2. m.calls \in Seq(ToolCalls) /\ Converted(m) \in Seq(Sayings)
  <2>1. m.calls \in Seq(ToolCalls)
    BY DEF Told, Messages
  <2> QED
    BY <2>1, PiecesTyped, ItemsTold
<1>3. CASE u.role = "tool"
  <2>1. PICK x : x = WithoutId(m.content[1])
    OBVIOUS
  <2>2. x \in Sayings
    BY <1>3, <2>1, ToolContent DEF Sayings
  <2>5. m.role = "tool" /\ m.calls = <<>>
    BY <1>1, <1>3 DEF Told
  <2>3. Parts(m) = <<WithoutId(m.content[1])>>
    BY <2>5 DEF Parts
  <2>4. Parts(m) = <<x>>
    BY <2>1, <2>3
  <2> QED
    BY <2>2, <2>4
<1>4. CASE u.role # "tool" /\ m.calls # <<>>
  <2>1. Parts(m) = [j \in DOMAIN m.calls |-> WithoutId(Parsed(m.calls[j]))]
    BY <1>1, <1>4 DEF Parts
  <2> DEFINE p == Parts(m)
             c == m.calls
  <2>2. p = [i \in 1..Len(c) |-> p[i]] /\ Len(c) \in Nat
    BY <1>2, <2>1
  <2>3. \A i \in 1..Len(c) : p[i] \in Sayings
    <3>1. \A i \in 1..Len(c) : c[i] \in ToolCalls /\ p[i] = WithoutId(Parsed(c[i]))
      BY <1>2, <2>1
    <3> QED
      BY <3>1 DEF Sayings
  <2> HIDE DEF p, c
  <2>4. p \in Seq(Sayings)
    BY <2>2, <2>3, FunctionIsSeq
  <2> QED
    BY <2>4 DEF p
<1>5. CASE u.role # "tool" /\ m.calls = <<>>
  BY <1>1, <1>2, <1>5 DEF Parts, ContentParts
<1> QED
  BY <1>3, <1>4, <1>5

Turns == [role : {"user", "model"}, body : Seq(Sayings)]

\* Gemini's contents have a role and a body.
LEMMA ContentTyped ==
  ASSUME NEW m, NEW u, Told(m, u), u.role # "system"
  PROVE  Content(m) \in Turns
<1>1. Parts(m) \in Seq(Sayings)
  BY PartsTyped
<1>2. Role(m) \in {"user", "model"}
  BY DEF Role
<1> QED
  BY <1>1, <1>2 DEF Content, Turns

\* So have those of a whole history.
LEMMA ContentsTyped == \A s \in Seq(Pairs) : GeminiContents(Remembered(s)) \in Seq(Turns)
<1> DEFINE T == {s \in Seq(Pairs) : GeminiContents(Remembered(s)) \in Seq(Turns)}
<1>1. <<>> \in T
  <2>1. Remembered(<<>>) = <<>>
    BY DEF Remembered
  <2>2. <<>> \in Seq(Pairs) /\ <<>> \in Seq(Turns)
    OBVIOUS
  <2> QED
    BY <2>1, <2>2, GeminiOfNone
<1>2. ASSUME NEW s \in Seq(Pairs), NEW p \in Pairs, s \in T PROVE Append(s, p) \in T
  <2> DEFINE h == Remembered(s)
             m == p[1]
             t == Append(s, p)
             g == GeminiContents(h)
  <2>1. h \in Seq(Messages) /\ m \in Messages /\ Remembered(t) = Append(h, m)
    BY RememberedAppend
  <2>2. t \in Seq(Pairs) /\ g \in Seq(Turns)
    BY <1>2, AppendProperties
  <2>3. Told(m, p[2]) /\ m.role = p[2].role
    BY PairTold
  <2>4. CASE m.role = "system"
    <3>1. GeminiContents(Append(h, m)) = g
      BY <2>1, <2>4, GeminiAppend
    <3> HIDE DEF h, m, t, g
    <3> QED
      BY <2>1, <2>2, <3>1 DEF t
  <2>5. CASE m.role # "system"
    <3>1. GeminiContents(Append(h, m)) = Append(g, Content(m)) /\ Content(m) \in Turns
      BY <2>1, <2>3, <2>5, GeminiAppend, ContentTyped
    <3> HIDE DEF h, m, t, g
    <3>2. Append(g, Content(m)) \in Seq(Turns)
      BY <2>2, <3>1, AppendProperties
    <3> QED
      BY <2>1, <2>2, <3>1, <3>2 DEF t
  <2> QED
    BY <2>4, <2>5
<1> HIDE DEF T
<1>3. \A s \in Seq(Pairs) : s \in T
  BY <1>1, <1>2, SeqInd
<1> QED
  BY <1>3 DEF T

-----------------------------------------------------------------------------
(* Messages with nothing in them.                                          *)

Count(s, K) == Cardinality({i \in DOMAIN s : s[i] \in K})

\* A sequence without places is empty.
LEMMA NoDomain ==
  ASSUME NEW S, NEW s \in Seq(S), DOMAIN s = {}
  PROVE  s = <<>>
OBVIOUS

\* One more element counts one if it is in K.
LEMMA CountAppend ==
  ASSUME NEW S, NEW K, NEW s \in Seq(S), NEW x \in S
  PROVE  /\ Count(s, K) \in Nat
         /\ x \in K => Count(Append(s, x), K) = Count(s, K) + 1
         /\ x \notin K => Count(Append(s, x), K) = Count(s, K)
<1> DEFINE A == {i \in DOMAIN s : s[i] \in K}
           t == Append(s, x)
           B == {i \in DOMAIN t : t[i] \in K}
<1>1. Len(s) \in Nat /\ DOMAIN s = 1..Len(s) /\ DOMAIN t = 1..(Len(s) + 1)
  OBVIOUS
<1>2. (\A i \in 1..Len(s) : t[i] = s[i]) /\ t[Len(s) + 1] = x
  OBVIOUS
<1>3. IsFiniteSet(A)
  <2>1. IsFiniteSet(1..Len(s)) /\ A \subseteq 1..Len(s)
    BY <1>1, FS_Interval
  <2> QED
    BY <2>1, FS_Subset
<1> HIDE DEF t
<1>4. x \in K => B = A \cup {Len(s) + 1}
  BY <1>1, <1>2
<1>5. x \notin K => B = A
  BY <1>1, <1>2
<1>6. Len(s) + 1 \notin A
  BY <1>1
<1>7. Count(s, K) = Cardinality(A) /\ Count(t, K) = Cardinality(B)
  BY DEF Count
<1> HIDE DEF A, B
<1>8. /\ Cardinality(A) \in Nat
      /\ Cardinality(A \cup {Len(s) + 1}) = Cardinality(A) + 1
  BY <1>3, <1>6, FS_CardinalityType, FS_AddElement
<1> QED
  BY <1>4, <1>5, <1>7, <1>8 DEF t

\* Nothing counts nothing.
LEMMA CountEmpty == \A K : Count(<<>>, K) = 0
<1> SUFFICES ASSUME NEW K PROVE Count(<<>>, K) = 0
  OBVIOUS
<1>1. {i \in DOMAIN <<>> : <<>>[i] \in K} = {}
  OBVIOUS
<1> QED
  BY <1>1, FS_EmptySet DEF Count

Silent(u) == \A j \in DOMAIN u.items : u.items[j].kind = "link"
Speechless == {p \in Pairs : Silent(p[2])}
Blank == {x \in Sent : x.body = <<>>}
BlankTurns == {x \in Turns : x.body = <<>>}

\* What is empty comes from an utterance that could not be told.
LEMMA EmptyIsSilent ==
  ASSUME NEW m, NEW u, Told(m, u)
  PROVE  /\ u.role = "user" /\ Converted(m) = <<>> => Silent(u)
         /\ u.role = "assistant" /\ ContentBlocks(m) = <<>> => Silent(u)
         /\ u.role \in {"user", "assistant"} /\ Parts(m) = <<>> => Silent(u)
<1>1. u.items \in Seq(Items) /\ m.role = u.role
  BY DEF Told, Utterances
<1>2. ASSUME u.role = "user", Converted(m) = <<>> PROVE Silent(u)
  <2>1. Kept(u.items, Items, Inline) = <<>>
    BY <1>1, <1>2, ConvertedIs, InlineKept
  <2>2. \A i \in DOMAIN u.items : u.items[i] \notin Inline /\ u.items[i] \in Items
    BY <1>1, <2>1, KeptNone
  <2> QED
    BY <2>2 DEF Inline, Silent
<1>3. ASSUME u.role = "assistant", Texts(u.items) = <<>>, Calls(u.items) = <<>> PROVE Silent(u)
  <2>1. AllIn(u.items, TextItems \cup ToolCalls)
    BY <1>3 DEF Told
  <2>2. u.items = <<>>
    BY <1>1, <1>3, <2>1, TextsOnly
  <2> QED
    BY <2>2 DEF Silent
<1>4. ASSUME u.role = "assistant"
      PROVE  /\ m.content = Texts(u.items) /\ ~ m.list
             /\ m.calls = <<>> => Calls(u.items) = <<>>
             /\ m.content \in Seq(Items) /\ m.calls \in Seq(ToolCalls)
  <2>1. /\ m.content = Texts(u.items) /\ ~ m.list /\ KeepsCalls(m, u)
        /\ m.content \in Seq(Items) /\ m.calls \in Seq(ToolCalls)
    BY <1>4 DEF Told, Messages
  <2>2. Merge(Calls(u.items)) # <<>>
    BY DEF Merge
  <2> QED
    BY <2>1, <2>2 DEF KeepsCalls
<1>5. ASSUME u.role = "assistant", ContentBlocks(m) = <<>> PROVE Silent(u)
  <2>1. PICK a, b : a = m.content /\ b = ToolUses(m)
    OBVIOUS
  <2>2. a \in Seq(Items) /\ b \in Seq(Items) /\ a \o b = <<>>
    BY <1>4, <1>5, <2>1, ToolUsesTyped DEF ContentBlocks
  <2>3. a = <<>> /\ b = <<>>
    BY <2>2, ConcatEqualIffEmpty
  <2>4. m.calls = <<>>
    <3>1. DOMAIN b = DOMAIN m.calls
      BY <2>1 DEF ToolUses
    <3>2. DOMAIN b = {}
      BY <2>3
    <3> QED
      BY <1>4, <1>5, <3>1, <3>2, NoDomain
  <2> QED
    BY <1>3, <1>4, <1>5, <2>1, <2>3, <2>4
<1>6. ASSUME u.role = "assistant", Parts(m) = <<>> PROVE Silent(u)
  <2>1. m.calls = <<>>
    <3>1. m.calls # <<>> => Parts(m) = [i \in DOMAIN m.calls |-> WithoutId(Parsed(m.calls[i]))]
      BY <1>1, <1>6 DEF Parts
    <3>2. m.calls # <<>> => DOMAIN m.calls # {}
      BY <1>4, <1>6, NoDomain
    <3>3. m.calls # <<>> => DOMAIN Parts(m) = DOMAIN m.calls
      BY <3>1
    <3>4. DOMAIN Parts(m) = {}
      BY <1>6
    <3> QED
      BY <3>2, <3>3, <3>4
  <2>2. Parts(m) = m.content
    BY <1>1, <1>4, <1>6, <2>1 DEF Parts, ContentParts, Converted
  <2> QED
    BY <1>3, <1>4, <1>6, <2>1, <2>2
<1>7. ASSUME u.role = "user", Parts(m) = <<>> PROVE Silent(u)
  <2>1. m.calls = <<>>
    BY <1>7 DEF Told
  <2>2. Parts(m) = Converted(m)
    BY <1>1, <1>7, <2>1 DEF Parts, ContentParts
  <2> QED
    BY <1>2, <1>7, <2>2
<1> QED
  BY <1>2, <1>5, <1>6, <1>7

\* A message leaves a blank only if it had nothing to tell.
LEMMA AddBlank ==
  ASSUME NEW s \in Seq(Sent), NEW m, NEW u, Told(m, u)
  PROVE  /\ Count(s, Blank) \in Nat /\ Count(AddToAnthropic(s, m), Blank) \in Nat
         /\ Count(AddToAnthropic(s, m), Blank) <= Count(s, Blank) + 1
         /\ ~ Silent(u) => Count(AddToAnthropic(s, m), Blank) <= Count(s, Blank)
<1>1. m.role \in Roles /\ m.list \in BOOLEAN /\ m.role = u.role
  BY DEF Told, Messages
<1>2. /\ Converted(m) \in Seq(Items)
      /\ ContentBlocks(m) \in Seq(Items)
      /\ m.role = "tool" => ToolResult(m) \in Seq(Items)
  BY PiecesTyped
<1>3. \A t \in Seq(Sent), x \in Sent :
        /\ Count(t, Blank) \in Nat /\ Count(Append(t, x), Blank) \in Nat
        /\ x.body = <<>> => Count(Append(t, x), Blank) = Count(t, Blank) + 1
        /\ x.body # <<>> => Count(Append(t, x), Blank) = Count(t, Blank)
  <2> SUFFICES ASSUME NEW t \in Seq(Sent), NEW x \in Sent
               PROVE  /\ Count(t, Blank) \in Nat /\ Count(Append(t, x), Blank) \in Nat
                      /\ x.body = <<>> => Count(Append(t, x), Blank) = Count(t, Blank) + 1
                      /\ x.body # <<>> => Count(Append(t, x), Blank) = Count(t, Blank)
    OBVIOUS
  <2>1. x \in Blank <=> x.body = <<>>
    BY DEF Blank
  <2>2. /\ Count(t, Blank) \in Nat
        /\ x \in Blank => Count(Append(t, x), Blank) = Count(t, Blank) + 1
        /\ x \notin Blank => Count(Append(t, x), Blank) = Count(t, Blank)
    BY CountAppend
  <2> QED
    BY <2>1, <2>2
<1>4. CASE m.role = "system"
  <2>1. AddToAnthropic(s, m) = s
    BY <1>4 DEF AddToAnthropic
  <2>2. Count(s, Blank) \in Nat
    <3>1. PICK x \in Sent : TRUE
      <4>1. <<>> \in Seq(Items)
        OBVIOUS
      <4>2. [role |-> "user", list |-> TRUE, body |-> <<>>] \in Sent
        BY <4>1 DEF Sent
      <4> QED
        BY <4>2
    <3> QED
      BY <1>3
  <2> QED
    BY <2>1, <2>2
<1>5. CASE m.role = "user"
  <2>1. PICK x : x = [role |-> "user", list |-> m.list, body |-> Converted(m)]
    OBVIOUS
  <2>2. x \in Sent /\ x.body = Converted(m)
    BY <1>1, <1>2, <2>1 DEF Sent
  <2>3. AddToAnthropic(s, m) = Append(s, x)
    BY <1>5, <2>1 DEF AddToAnthropic
  <2>4. x.body = <<>> => Silent(u)
    BY <1>1, <1>5, <2>2, EmptyIsSilent
  <2> QED
    BY <1>3, <2>2, <2>3, <2>4
<1>6. CASE m.role = "assistant"
  <2>1. PICK x : x = [role |-> "assistant", list |-> TRUE, body |-> ContentBlocks(m)]
    OBVIOUS
  <2>2. x \in Sent /\ x.body = ContentBlocks(m)
    BY <1>1, <1>2, <2>1 DEF Sent
  <2>3. AddToAnthropic(s, m) = Append(s, x)
    BY <1>6, <2>1 DEF AddToAnthropic
  <2>4. x.body = <<>> => Silent(u)
    BY <1>1, <1>6, <2>2, EmptyIsSilent
  <2> QED
    BY <1>3, <2>2, <2>3, <2>4
<1>7. CASE m.role = "tool"
  <2>1. PICK r : r = ToolResult(m)
    OBVIOUS
  <2>2. r \in Seq(Items) /\ r # <<>>
    BY <1>2, <1>7, <2>1 DEF ToolResult
  <2>3. PICK z : z = [role |-> "user", list |-> TRUE, body |-> r]
    OBVIOUS
  <2>4. z \in Sent /\ z.body = r
    BY <2>2, <2>3 DEF Sent
  <2>5. /\ Merges(s) => AddToAnthropic(s, m) = [s EXCEPT ![Len(s)].body = @ \o r]
        /\ ~ Merges(s) => AddToAnthropic(s, m) = Append(s, z)
    <3>1. m.role # "system" /\ m.role # "user" /\ m.role # "assistant"
      BY <1>7
    <3> QED
      BY <1>7, <2>1, <2>3, <3>1, Zenon DEF AddToAnthropic
  <2>6. CASE Merges(s)
    <3>1. PICK f \in Seq(Sent), x \in Sent, y \in Sent :
            s = Append(f, x) /\ AddToAnthropic(s, m) = Append(f, y) /\ y.body = x.body \o r
      <4>1. PICK t : t = [s EXCEPT ![Len(s)].body = @ \o r]
        OBVIOUS
      <4>2. \E f \in Seq(Sent), x \in Sent, y \in Sent :
              s = Append(f, x) /\ t = Append(f, y) /\ y.body = x.body \o r
        BY <2>2, <2>6, <4>1, MergeIs, Zenon
      <4>3. AddToAnthropic(s, m) = t
        BY <2>5, <2>6, <4>1
      <4> QED
        BY <4>2, <4>3
    <3>2. x.body \in Seq(Items)
      BY DEF Sent
    <3>3. y.body # <<>>
      BY <2>2, <3>1, <3>2, ConcatEqualIffEmpty
    <3>4. /\ Count(f, Blank) \in Nat
          /\ Count(Append(f, y), Blank) = Count(f, Blank)
          /\ Count(Append(f, x), Blank) \in Nat
      BY <1>3, <3>3
    <3>5. Count(Append(f, x), Blank) >= Count(f, Blank)
      BY <1>3
    <3> QED
      BY <3>1, <3>4, <3>5
  <2>7. CASE ~ Merges(s)
    <3>1. AddToAnthropic(s, m) = Append(s, z)
      BY <2>5, <2>7
    <3>2. z.body # <<>>
      BY <2>2, <2>4
    <3>3. Count(Append(s, z), Blank) = Count(s, Blank) /\ Count(s, Blank) \in Nat
      BY <1>3, <2>4, <3>2
    <3> QED
      BY <3>1, <3>3
  <2> QED
    BY <2>6, <2>7
<1> QED
  BY <1>1, <1>4, <1>5, <1>6, <1>7 DEF Roles

\* Neither translation has more blanks than there were speechless messages.
LEMMA FewBlank ==
  \A s \in Seq(Pairs) :
    /\ Count(AnthropicMessages(Remembered(s)), Blank) <= Count(s, Speechless)
    /\ Count(GeminiContents(Remembered(s)), BlankTurns) <= Count(s, Speechless)
<1> DEFINE T == {s \in Seq(Pairs) :
                   /\ Count(AnthropicMessages(Remembered(s)), Blank) <= Count(s, Speechless)
                   /\ Count(GeminiContents(Remembered(s)), BlankTurns) <= Count(s, Speechless)}
<1>1. <<>> \in T
  <2>1. Remembered(<<>>) = <<>>
    BY DEF Remembered
  <2>2. <<>> \in Seq(Pairs) /\ 0 <= 0
    OBVIOUS
  <2> QED
    BY <2>1, <2>2, SentEmpty, GeminiOfNone, CountEmpty
<1>2. ASSUME NEW s \in Seq(Pairs), NEW p \in Pairs, s \in T PROVE Append(s, p) \in T
  <2>1. PICK h, m, t, a, g :
          /\ h = Remembered(s) /\ m = p[1] /\ t = Append(s, p)
          /\ a = AnthropicMessages(h) /\ g = GeminiContents(h)
    OBVIOUS
  <2>2. /\ h \in Seq(Messages) /\ m \in Messages /\ t \in Seq(Pairs)
        /\ Remembered(t) = Append(h, m)
    BY <2>1, RememberedAppend, AppendProperties
  <2>3. a \in Seq(Sent) /\ g \in Seq(Turns)
    BY <2>1, MessagesHear, ContentsTyped
  <2>4. Told(m, p[2]) /\ m.role = p[2].role
    BY <2>1, PairTold
  <2>5. AnthropicMessages(Remembered(t)) = AddToAnthropic(a, m)
    BY <2>1, <2>2, SentAppend
  <2>6. /\ Count(s, Speechless) \in Nat
        /\ Silent(p[2]) => Count(t, Speechless) = Count(s, Speechless) + 1
        /\ ~ Silent(p[2]) => Count(t, Speechless) = Count(s, Speechless)
    <3>1. p \in Speechless <=> Silent(p[2])
      BY DEF Speechless
    <3> QED
      BY <2>1, <3>1, CountAppend
  <2>7. Count(a, Blank) <= Count(s, Speechless) /\ Count(g, BlankTurns) <= Count(s, Speechless)
    BY <1>2, <2>1
  <2>8. Count(AnthropicMessages(Remembered(t)), Blank) <= Count(t, Speechless)
    <3>1. /\ Count(a, Blank) \in Nat /\ Count(AddToAnthropic(a, m), Blank) \in Nat
          /\ Count(AddToAnthropic(a, m), Blank) <= Count(a, Blank) + 1
          /\ ~ Silent(p[2]) => Count(AddToAnthropic(a, m), Blank) <= Count(a, Blank)
      BY <2>3, <2>4, AddBlank
    <3> QED
      BY <2>5, <2>6, <2>7, <3>1
  <2>9. Count(GeminiContents(Remembered(t)), BlankTurns) <= Count(t, Speechless)
    <3>1. CASE m.role = "system"
      <4>1. GeminiContents(Remembered(t)) = g
        BY <2>1, <2>2, <3>1, GeminiAppend
      <4>2. Count(g, BlankTurns) \in Nat
        <5>1. PICK x \in Turns : TRUE
          <6>1. <<>> \in Seq(Sayings)
            OBVIOUS
          <6>2. [role |-> "user", body |-> <<>>] \in Turns
            BY <6>1 DEF Turns
          <6> QED
            BY <6>2
        <5> QED
          BY <2>3, CountAppend
      <4> QED
        BY <2>6, <2>7, <4>1, <4>2
    <3>2. CASE m.role # "system"
      <4>1. PICK c \in Turns : c = Content(m)
        BY <2>4, <3>2, ContentTyped
      <4>2. GeminiContents(Remembered(t)) = Append(g, c)
        BY <2>1, <2>2, <3>2, <4>1, GeminiAppend
      <4>3. c.body = Parts(m)
        BY <4>1 DEF Content
      <4>4. Parts(m) = <<>> => Silent(p[2])
        <5>1. m.role = "tool" => Parts(m) = <<WithoutId(m.content[1])>>
          <6>1. m.role = "tool" => m.calls = <<>>
            BY <2>4 DEF Told
          <6> QED
            BY <6>1 DEF Parts
        <5>2. m.role = "tool" => Parts(m) # <<>>
          BY <5>1
        <5>3. m.role \in Roles
          BY <2>2 DEF Messages
        <5> QED
          BY <2>4, <3>2, <5>2, <5>3, EmptyIsSilent DEF Roles
      <4>5. /\ Count(g, BlankTurns) \in Nat
            /\ c \in BlankTurns => Count(Append(g, c), BlankTurns) = Count(g, BlankTurns) + 1
            /\ c \notin BlankTurns => Count(Append(g, c), BlankTurns) = Count(g, BlankTurns)
        BY <2>3, CountAppend
      <4>6. c \in BlankTurns <=> Parts(m) = <<>>
        BY <4>3 DEF BlankTurns
      <4> QED
        BY <2>6, <2>7, <4>2, <4>4, <4>5, <4>6
    <3> QED
      BY <3>1, <3>2
  <2>10. t \in T
    BY <2>2, <2>8, <2>9
  <2> QED
    BY <2>1, <2>10
<1> HIDE DEF T
<1>3. \A s \in Seq(Pairs) : s \in T
  BY <1>1, <1>2, SeqInd
<1> QED
  BY <1>3 DEF T

\* So the types imply that empty messages are rare.
LEMMA TypeInvImpliesEmptyOnlyIfMute == TypeInv => EmptyOnlyIfMute
<1> SUFFICES ASSUME TypeInv PROVE EmptyOnlyIfMute
  OBVIOUS
<1>1. /\ Log \in Seq(Pairs) /\ Remembered(Log) = history
      /\ DOMAIN Log = DOMAIN spoken
      /\ \A i \in DOMAIN spoken : Log[i] = <<history[i], spoken[i]>>
  BY LogIs
<1>2. PICK a, g : a = AnthropicMessages(history) /\ g = GeminiContents(history)
  OBVIOUS
<1>3. a \in Seq(Sent) /\ g \in Seq(Turns)
  BY <1>1, <1>2, MessagesHear, ContentsTyped
<1>4. {i \in DOMAIN a : a[i].body = <<>>} = {i \in DOMAIN a : a[i] \in Blank}
  BY <1>3 DEF Blank
<1>5. {i \in DOMAIN g : g[i].body = <<>>} = {i \in DOMAIN g : g[i] \in BlankTurns}
  BY <1>3 DEF BlankTurns
<1>6. {i \in DOMAIN spoken : Mute(i)} = {i \in DOMAIN Log : Log[i] \in Speechless}
  <2>1. \A i \in DOMAIN spoken : Log[i] \in Pairs /\ Log[i][2] = spoken[i]
    BY <1>1
  <2>2. \A i \in DOMAIN spoken : Mute(i) <=> Log[i] \in Speechless
    BY <2>1 DEF Mute, Speechless, Silent
  <2> QED
    BY <1>1, <2>2
<1>7. /\ Count(a, Blank) <= Count(Log, Speechless)
      /\ Count(g, BlankTurns) <= Count(Log, Speechless)
  BY <1>1, <1>2, FewBlank
<1> QED
  BY <1>2, <1>4, <1>5, <1>6, <1>7 DEF EmptyOnlyIfMute, Count

-----------------------------------------------------------------------------
(* Calls and their results.                                                *)

OpenIds(calls) == {c.id : c \in calls}

\* A sequence of which nothing is a call has none.
LEMMA NoCalls ==
  ASSUME NEW s, s \in Seq(Says) \/ s \in Seq(Results)
  PROVE  s \in Seq(Items) /\ Calls(s) = <<>>
<1>1. /\ s \in Seq(Items)
      /\ \A i \in DOMAIN s : s[i] \notin ToolCalls
  <2>1. CASE s \in Seq(Says)
    <3>1. \A x \in Says : x \in Items /\ x \notin ToolCalls
      BY DEF Says, Items, ToolCalls, PartKinds
    <3>2. Says \subseteq Items
      BY <3>1
    <3>3. s \in Seq(Items)
      BY <2>1, <3>2, SeqMonotonic
    <3>4. \A i \in DOMAIN s : s[i] \in Says
      BY <2>1
    <3> QED
      BY <3>1, <3>3, <3>4
  <2>2. CASE s \in Seq(Results)
    <3>1. \A x \in Results : x \in Items /\ x \notin ToolCalls
      BY DEF Results, Items, ToolCalls
    <3>2. Results \subseteq Items
      BY <3>1
    <3>3. s \in Seq(Items)
      BY <2>2, <3>2, SeqMonotonic
    <3>4. \A i \in DOMAIN s : s[i] \in Results
      BY <2>2
    <3> QED
      BY <3>1, <3>3, <3>4
  <2> QED
    BY <2>1, <2>2
<1> QED
  BY <1>1, CallsKept, KeptNothing

\* The calls in the blocks of an answer are the calls of the message.
LEMMA CallsOfBlocks ==
  ASSUME NEW m, NEW u, Told(m, u), m.role = "assistant"
  PROVE  /\ Calls(ContentBlocks(m)) = ToolUses(m)
         /\ Len(ToolUses(m)) = Len(m.calls)
         /\ Ids(ToolUses(m)) = OpenIds(ToSet(m.calls))
<1> DEFINE t == m.content
           p == ToolUses(m)
<1>1. /\ u.items \in Seq(Items) /\ t \in Seq(Items) /\ t = Texts(u.items)
      /\ m.calls \in Seq(ToolCalls)
  BY DEF Told, Utterances, Messages
<1>2. \A i \in DOMAIN t : t[i] \notin ToolCalls
  <2>1. t \in Seq(Items \cap TextItems)
    BY <1>1, TextsKept, KeptType
  <2>2. \A x \in Items \cap TextItems : x \notin ToolCalls
    BY DEF TextItems, ToolCalls
  <2> HIDE DEF t
  <2> QED
    BY <2>1, <2>2
<1>3. p \in Seq(Items)
  BY <1>1, ToolUsesTyped
<1>4. /\ DOMAIN p = DOMAIN m.calls
      /\ \A i \in DOMAIN m.calls : p[i] \in ToolCalls /\ p[i].id = m.calls[i].id
  <2>1. \A i \in DOMAIN m.calls : m.calls[i] \in ToolCalls /\ p[i] = Parsed(m.calls[i])
    BY <1>1 DEF ToolUses
  <2> QED
    BY <2>1, ParsedIs DEF ToolUses
<1>5. Len(p) = Len(m.calls)
  <2> HIDE DEF p
  <2> QED
    BY <1>1, <1>3, <1>4
<1>6. Ids(p) = OpenIds(ToSet(m.calls))
  <2>1. Ids(p) = {m.calls[i].id : i \in DOMAIN m.calls}
    BY <1>4 DEF Ids
  <2>2. OpenIds(ToSet(m.calls)) = {m.calls[i].id : i \in DOMAIN m.calls}
    BY DEF OpenIds, ToSet
  <2> QED
    BY <2>1, <2>2
<1> HIDE DEF t, p
<1>7. Kept(t, Items, ToolCalls) = <<>> /\ Kept(p, Items, ToolCalls) = p
  BY <1>1, <1>2, <1>3, <1>4, KeptNothing, KeptAll
<1>8. Kept(t \o p, Items, ToolCalls) = Kept(t, Items, ToolCalls) \o Kept(p, Items, ToolCalls)
  BY <1>1, <1>3, KeptConcat
<1>9. t \o p \in Seq(Items) /\ <<>> \o p = p
  BY <1>1, <1>3
<1>10. Calls(t \o p) = p
  BY <1>7, <1>8, <1>9, CallsKept
<1> QED
  BY <1>5, <1>6, <1>10 DEF ContentBlocks, t, p

\* One more item has its id.
LEMMA IdsAppend ==
  ASSUME NEW s \in Seq(Items), NEW x \in Items
  PROVE  Ids(Append(s, x)) = Ids(s) \cup {x.id}
<1>1. DOMAIN Append(s, x) = DOMAIN s \cup {Len(s) + 1}
  OBVIOUS
<1>2. Append(s, x)[Len(s) + 1] = x /\ \A i \in DOMAIN s : Append(s, x)[i] = s[i]
  OBVIOUS
<1> QED
  BY <1>1, <1>2, Zenon DEF Ids

\* What CallsAreAnswered says of the i-th message.
Answered(s, i) ==
  LET uses == Calls(s[i].body) IN
  uses # <<>> =>
    /\ i < Len(s) /\ s[i + 1].role = "user"
    /\ Len(s[i + 1].body) >= Len(uses)
    /\ Ids(SubSeq(s[i + 1].body, 1, Len(uses))) = Ids(uses)

AllAnswered(s) == \A i \in DOMAIN s : Answered(s, i)

\* What was answered stays so, whatever comes after it.
LEMMA AnsweredStays ==
  ASSUME NEW f \in Seq(Sent), NEW x \in Sent, AllAnswered(f)
  PROVE  /\ \A i \in DOMAIN f : Answered(Append(f, x), i)
         /\ Calls(x.body) = <<>> => AllAnswered(Append(f, x))
<1> DEFINE t == Append(f, x)
<1>1. /\ Len(f) \in Nat /\ DOMAIN f = 1..Len(f) /\ Len(t) = Len(f) + 1
      /\ DOMAIN t = 1..(Len(f) + 1) /\ t[Len(f) + 1] = x
      /\ \A i \in DOMAIN f : t[i] = f[i]
  OBVIOUS
<1> HIDE DEF t
<1>2. ASSUME NEW i \in DOMAIN f PROVE Answered(t, i)
  <2>1. Answered(f, i)
    BY DEF AllAnswered
  <2>2. t[i] = f[i] /\ i < Len(t) /\ (i < Len(f) => i + 1 \in DOMAIN f)
    BY <1>1
  <2>3. i < Len(f) => t[i + 1] = f[i + 1]
    BY <1>1, <2>2
  <2> QED
    BY <2>1, <2>2, <2>3 DEF Answered
<1>3. Calls(x.body) = <<>> => Answered(t, Len(f) + 1)
  BY <1>1 DEF Answered
<1>4. \A i \in DOMAIN t : i \in DOMAIN f \/ i = Len(f) + 1
  BY <1>1
<1> QED
  BY <1>2, <1>3, <1>4 DEF AllAnswered, t

\* A message with calls, and the one with all their results.
LEMMA AnsweredNow ==
  ASSUME NEW f \in Seq(Sent), NEW x \in Sent, NEW y \in Sent, AllAnswered(f),
         y.role = "user", y.body \in Seq(Results),
         Len(y.body) = Len(Calls(x.body)), Ids(y.body) = Ids(Calls(x.body))
  PROVE  AllAnswered(Append(Append(f, x), y))
<1> DEFINE g == Append(f, x)
           t == Append(g, y)
<1>1. /\ Len(f) \in Nat /\ DOMAIN f = 1..Len(f) /\ g \in Seq(Sent) /\ Len(g) = Len(f) + 1
      /\ DOMAIN g = 1..(Len(f) + 1) /\ g[Len(f) + 1] = x
      /\ \A i \in DOMAIN f : g[i] = f[i]
  OBVIOUS
<1>2. \A i \in DOMAIN f : Answered(g, i)
  BY AnsweredStays
<1> HIDE DEF g
<1>3. /\ Len(t) = Len(f) + 2 /\ DOMAIN t = 1..(Len(f) + 2) /\ t[Len(f) + 2] = y
      /\ \A i \in DOMAIN g : t[i] = g[i]
  BY <1>1
<1> HIDE DEF t
<1>4. ASSUME NEW i \in DOMAIN f PROVE Answered(t, i)
  <2>1. i \in DOMAIN g /\ i + 1 \in DOMAIN g /\ i < Len(t)
    BY <1>1, <1>3
  <2>2. t[i] = g[i] /\ t[i + 1] = g[i + 1]
    BY <1>3, <2>1
  <2> QED
    BY <1>2, <2>1, <2>2 DEF Answered
<1>5. Answered(t, Len(f) + 1)
  <2> DEFINE n == Len(f) + 1
  <2>1. t[n] = x /\ t[n + 1] = y /\ n < Len(t)
    <3>1. n \in DOMAIN g /\ n + 1 = Len(f) + 2
      BY <1>1
    <3> QED
      BY <1>1, <1>3, <3>1
  <2>2. SubSeq(y.body, 1, Len(y.body)) = y.body /\ Len(y.body) \in Nat
    BY SubSeqFull
  <2> HIDE DEF n
  <2>3. Len(y.body) >= Len(Calls(x.body))
    BY <2>2
  <2>4. Answered(t, n)
    BY <2>1, <2>2, <2>3 DEF Answered
  <2> QED
    BY <2>4 DEF n
<1>6. Answered(t, Len(f) + 2)
  <2>1. Calls(y.body) = <<>>
    BY NoCalls
  <2> QED
    BY <1>3, <2>1 DEF Answered
<1>7. \A i \in DOMAIN t : i \in DOMAIN f \/ i = Len(f) + 1 \/ i = Len(f) + 2
  BY <1>1, <1>3
<1>8. AllAnswered(t)
  BY <1>4, <1>5, <1>6, <1>7 DEF AllAnswered
<1> QED
  BY <1>8 DEF t, g

\* The last message has the calls that wait for a result.
Waiting(s, calls) ==
  \E f \in Seq(Sent), x \in Sent :
    /\ s = Append(f, x) /\ AllAnswered(f)
    /\ x.role = "assistant"
    /\ Len(Calls(x.body)) = Cardinality(calls) /\ Ids(Calls(x.body)) = OpenIds(calls)

\* The last message has the results of the other calls of the one before it.
Partly(s, calls) ==
  \E f \in Seq(Sent), x \in Sent, y \in Sent :
    /\ s = Append(Append(f, x), y) /\ AllAnswered(f)
    /\ y.role = "user" /\ y.list /\ y.body \in Seq(Results)
    /\ Len(y.body) + Cardinality(calls) = Len(Calls(x.body))
    /\ Ids(y.body) \cup OpenIds(calls) = Ids(Calls(x.body))

AnswerInv(s, calls) ==
  /\ IsFiniteSet(calls)
  /\ \/ calls = {} /\ AllAnswered(s)
     \/ calls # {} /\ (Waiting(s, calls) \/ Partly(s, calls))

\* An empty conversation has no open calls.
LEMMA NoneAnswered == AnswerInv(<<>>, {})
<1>1. DOMAIN <<>> = {}
  OBVIOUS
<1> QED
  BY <1>1, FS_EmptySet DEF AnswerInv, AllAnswered

\* One more result.
LEMMA OneMoreResult ==
  ASSUME NEW f \in Seq(Sent), NEW x \in Sent, NEW y \in Sent, NEW calls, IsFiniteSet(calls),
         AllAnswered(f), y.role = "user", y.list, y.body \in Seq(Results),
         Len(y.body) + Cardinality(calls) = Len(Calls(x.body)),
         Ids(y.body) \cup OpenIds(calls) = Ids(Calls(x.body))
  PROVE  AnswerInv(Append(Append(f, x), y), calls)
<1>1. CASE calls = {}
  <2>1. OpenIds(calls) = {} /\ Cardinality(calls) = 0 /\ Len(y.body) \in Nat
    BY <1>1, FS_EmptySet DEF OpenIds
  <2>2. Len(y.body) = Len(Calls(x.body)) /\ Ids(y.body) = Ids(Calls(x.body))
    BY <2>1
  <2>3. AllAnswered(Append(Append(f, x), y))
    BY <2>2, AnsweredNow
  <2> QED
    BY <1>1, <2>3 DEF AnswerInv
<1>2. CASE calls # {}
  <2>1. Partly(Append(Append(f, x), y), calls)
    BY Zenon DEF Partly
  <2> QED
    BY <1>2, <2>1 DEF AnswerInv
<1> QED
  BY <1>1, <1>2

\* The result of a call that was open.
LEMMA ResultOf ==
  ASSUME NEW m, NEW r \in Results, m.content = <<r>>
  PROVE  \E q \in Results : ToolResult(m) = <<q>> /\ q.id = r.id
<1>1. PICK q : q = [r EXCEPT !.fn = ""]
  OBVIOUS
<1>2. m.content[1] = r
  OBVIOUS
<1>3. ToolResult(m) = <<q>>
  BY <1>1, <1>2, Zenon DEF ToolResult
<1>4. q \in Results /\ q = Result("", r.id, r.word)
  BY <1>1, Unnamed
<1>5. q.id = r.id
  BY <1>4 DEF Result
<1> QED
  BY <1>3, <1>4, <1>5

\* A call less.
LEMMA RemoveCall ==
  ASSUME NEW calls, IsFiniteSet(calls), NEW c \in calls
  PROVE  /\ IsFiniteSet(calls \ {c}) /\ Cardinality(calls) \in Nat
         /\ Cardinality(calls \ {c}) + 1 = Cardinality(calls)
         /\ OpenIds(calls \ {c}) \cup {c.id} = OpenIds(calls)
<1>1. /\ IsFiniteSet(calls \ {c}) /\ Cardinality(calls) \in Nat
      /\ Cardinality(calls \ {c}) = Cardinality(calls) - 1
  BY FS_RemoveElement, FS_CardinalityType
<1>2. OpenIds(calls \ {c}) \cup {c.id} = OpenIds(calls)
  BY DEF OpenIds
<1>3. \A a, b \in Nat : b = a - 1 => b + 1 = a
  OBVIOUS
<1>4. Cardinality(calls \ {c}) \in Nat
  BY <1>1, FS_CardinalityType
<1>5. Cardinality(calls \ {c}) + 1 = Cardinality(calls)
  BY <1>1, <1>3, <1>4
<1> QED
  BY <1>1, <1>2, <1>5

\* t is s with one more result in its last message.
Joins(s, t, q) ==
  \E f \in Seq(Sent), x \in Sent, y \in Sent :
    /\ s = Append(f, x) /\ t = Append(f, y)
    /\ y.role = "user" /\ y.list /\ y.body = Append(x.body, q)

\* A result that joins the ones before it is put after them.
LEMMA MergeOne ==
  ASSUME NEW s \in Seq(Sent), Merges(s), NEW m, m.role = "tool", NEW q \in Items,
         ToolResult(m) = <<q>>
  PROVE  Joins(s, AddToAnthropic(s, m), q)
<1>1. PICK r : r = <<q>>
  OBVIOUS
<1>2. r \in Seq(Items)
  BY <1>1
<1>3. AddToAnthropic(s, m) = [s EXCEPT ![Len(s)].body = @ \o r]
  <2>1. m.role # "system" /\ m.role # "user" /\ m.role # "assistant"
    OBVIOUS
  <2> QED
    BY <1>1, <2>1, Zenon DEF AddToAnthropic
<1>4. PICK f \in Seq(Sent), x \in Sent, y \in Sent :
        /\ s = Append(f, x) /\ [s EXCEPT ![Len(s)].body = @ \o r] = Append(f, y)
        /\ x.role = "user" /\ x.list /\ y.role = "user" /\ y.list
        /\ y.body = x.body \o r
  BY <1>2, MergeIs
<1>5. AddToAnthropic(s, m) = Append(f, y)
  BY <1>3, <1>4, Zenon
<1>6. x.body \in Seq(Items)
  BY DEF Sent
<1>7. y.role = "user" /\ y.list /\ y.body = x.body \o r
  BY <1>4, Zenon
<1>8. y.body = Append(x.body, q)
  BY <1>1, <1>6, <1>7
<1> QED
  BY <1>4, <1>5, <1>7, <1>8, Zenon DEF Joins

\* What is kept depends on what is there only.
LEMMA KeptFrom ==
  ASSUME NEW S, NEW R, NEW K, R \subseteq S, NEW s \in Seq(R)
  PROVE  Kept(s, S, K) \in Seq(R)
<1>1. \A i \in DOMAIN s : Only(S, K)[s[i]] = Only(R, K)[s[i]]
  <2>1. \A i \in DOMAIN s : s[i] \in R /\ s[i] \in S
    OBVIOUS
  <2> QED
    BY <2>1 DEF Only
<1>2. [i \in DOMAIN s |-> Only(S, K)[s[i]]] = [i \in DOMAIN s |-> Only(R, K)[s[i]]]
  BY <1>1
<1>3. Kept(s, S, K) = Kept(s, R, K)
  BY <1>2 DEF Kept, Joined
<1>4. Kept(s, R, K) \in Seq(R \cap K) /\ R \cap K \subseteq R
  BY KeptType
<1>5. Kept(s, R, K) \in Seq(R)
  BY <1>4, SeqMonotonic
<1> QED
  BY <1>3, <1>5

\* What a user says has no calls.
LEMMA UserHasNoCalls ==
  ASSUME NEW m, m.content \in Seq(Says)
  PROVE  Calls(Converted(m)) = <<>>
<1> DEFINE c == m.content
<1>1. c \in Seq(Says) /\ c \in Seq(Items)
  BY NoCalls
<1> HIDE DEF c
<1>2. Says \subseteq Items
  BY DEF Items
<1>3. Chosen(c, NotLink) \in Seq(Says)
  BY <1>1, <1>2, InlineKept, KeptFrom
<1>4. Converted(m) \in Seq(Says)
  BY <1>1, <1>3 DEF Converted, c
<1> QED
  BY <1>4, NoCalls

\* A result, wherever it is put, answers its call.
LEMMA ResultAnswers ==
  ASSUME NEW s \in Seq(Sent), NEW m, NEW calls, AnswerInv(s, calls), m.role = "tool",
         NEW c \in calls, NEW r \in Results, m.content = <<r>>, r.id = c.id
  PROVE  AnswerInv(AddToAnthropic(s, m), calls \ {c})
<1>1. PICK q \in Results : ToolResult(m) = <<q>> /\ q.id = c.id
  BY ResultOf
<1>2. /\ IsFiniteSet(calls \ {c}) /\ Cardinality(calls) \in Nat
      /\ Cardinality(calls \ {c}) + 1 = Cardinality(calls)
      /\ Cardinality(calls \ {c}) \in Nat
      /\ OpenIds(calls \ {c}) \cup {q.id} = OpenIds(calls)
  BY <1>1, RemoveCall, FS_CardinalityType DEF AnswerInv
<1>3. q \in Items /\ <<q>> \in Seq(Items)
  BY DEF Items
<1>4. ~ Merges(s) => AddToAnthropic(s, m)
                       = Append(s, [role |-> "user", list |-> TRUE, body |-> <<q>>])
  <2>1. m.role # "system" /\ m.role # "user" /\ m.role # "assistant"
    OBVIOUS
  <2> QED
    BY <1>1, <2>1, Zenon DEF AddToAnthropic
<1>5. CASE Waiting(s, calls)
  <2>1. PICK f \in Seq(Sent), x \in Sent :
          /\ s = Append(f, x) /\ AllAnswered(f) /\ x.role = "assistant"
          /\ Len(Calls(x.body)) = Cardinality(calls) /\ Ids(Calls(x.body)) = OpenIds(calls)
    BY <1>5 DEF Waiting
  <2>2. Last(s) = x
    BY <2>1 DEF Last
  <2>3. ~ Merges(s)
    BY <2>1, <2>2 DEF Merges
  <2> DEFINE y == [role |-> "user", list |-> TRUE, body |-> <<q>>]
  <2>4. y \in Sent /\ y.role = "user" /\ y.list /\ y.body = <<q>>
    BY <1>3 DEF Sent
  <2>5. AddToAnthropic(s, m) = Append(Append(f, x), y)
    BY <1>4, <2>1, <2>3
  <2> HIDE DEF y
  <2>6. y.body \in Seq(Results) /\ Len(y.body) = 1 /\ Ids(y.body) = {q.id}
    BY <2>4 DEF Ids
  <2>7. Len(y.body) + Cardinality(calls \ {c}) = Len(Calls(x.body))
    BY <1>2, <2>1, <2>6
  <2>8. Ids(y.body) \cup OpenIds(calls \ {c}) = Ids(Calls(x.body))
    BY <1>2, <2>1, <2>6
  <2> QED
    BY <1>2, <2>1, <2>4, <2>5, <2>6, <2>7, <2>8, OneMoreResult
<1>6. CASE Partly(s, calls)
  <2>1. PICK f \in Seq(Sent), x \in Sent, y \in Sent :
          /\ s = Append(Append(f, x), y) /\ AllAnswered(f)
          /\ y.role = "user" /\ y.list /\ y.body \in Seq(Results)
          /\ Len(y.body) + Cardinality(calls) = Len(Calls(x.body))
          /\ Ids(y.body) \cup OpenIds(calls) = Ids(Calls(x.body))
    BY <1>6 DEF Partly
  <2> DEFINE g == Append(f, x)
  <2>2. g \in Seq(Sent) /\ s = Append(g, y)
    BY <2>1
  <2> HIDE DEF g
  <2>3. Last(s) = y /\ s # <<>>
    BY <2>2 DEF Last
  <2>4. Merges(s)
    BY <2>1, <2>3 DEF Merges
  <2>5. PICK h \in Seq(Sent), v \in Sent, w \in Sent :
          /\ s = Append(h, v) /\ AddToAnthropic(s, m) = Append(h, w)
          /\ w.role = "user" /\ w.list /\ w.body = Append(v.body, q)
    <3>1. ToolResult(m) = <<q>> /\ q \in Items
      BY <1>1, <1>3
    <3>2. Joins(s, AddToAnthropic(s, m), q)
      BY <2>4, <3>1, MergeOne
    <3> QED
      BY <3>2 DEF Joins
  <2>6. h = g /\ v = y
    <3>1. Append(h, v) = Append(g, y)
      BY <2>2, <2>5
    <3> QED
      BY <2>2, <3>1, AppendInjective
  <2>7. y.body \in Seq(Items) /\ w.body = Append(y.body, q)
    BY <2>1, <2>5, <2>6 DEF Sent
  <2>8. /\ w.body \in Seq(Results) /\ Len(w.body) = Len(y.body) + 1
        /\ Ids(w.body) = Ids(y.body) \cup {q.id} /\ Len(y.body) \in Nat
    BY <1>3, <2>1, <2>7, IdsAppend
  <2>9. /\ Len(w.body) + Cardinality(calls \ {c}) = Len(Calls(x.body))
        /\ Ids(w.body) \cup OpenIds(calls \ {c}) = Ids(Calls(x.body))
    <3>1. \A a, b, d \in Nat : b + 1 = d => (a + 1) + b = a + d
      OBVIOUS
    <3>2. Len(Calls(x.body)) = Len(y.body) + Cardinality(calls)
      BY <2>1
    <3>3. Len(w.body) + Cardinality(calls \ {c}) = Len(Calls(x.body))
      <4>1. PICK a, b, d : /\ a = Len(y.body) /\ b = Cardinality(calls \ {c})
                           /\ d = Cardinality(calls)
        OBVIOUS
      <4>2. a \in Nat /\ b \in Nat /\ d \in Nat /\ b + 1 = d /\ Len(w.body) = a + 1
        BY <1>2, <2>8, <4>1
      <4>3. (a + 1) + b = a + d
        BY <3>1, <4>2
      <4>4. Len(w.body) + b = a + d /\ Len(Calls(x.body)) = a + d
        BY <3>2, <4>1, <4>2, <4>3
      <4> QED
        BY <4>1, <4>4, Zenon
    <3>4. Ids(w.body) \cup OpenIds(calls \ {c}) = Ids(y.body) \cup OpenIds(calls)
      BY <1>2, <2>8
    <3> QED
      BY <2>1, <3>3, <3>4
  <2>10. AddToAnthropic(s, m) = Append(Append(f, x), w)
    BY <2>5, <2>6 DEF g
  <2> QED
    BY <1>2, <2>1, <2>5, <2>8, <2>9, <2>10, OneMoreResult
<1> QED
  BY <1>5, <1>6 DEF AnswerInv

\* Every message keeps calls and results together.
LEMMA AddAnswers ==
  ASSUME NEW s \in Seq(Sent), NEW m, NEW u, Told(m, u), Opens(m), AnswerInv(s, open)
  PROVE  AnswerInv(AddToAnthropic(s, m), open')
<1>1. m.role \in Roles /\ m.list \in BOOLEAN
  BY DEF Told, Messages
<1>2. Converted(m) \in Seq(Items) /\ ContentBlocks(m) \in Seq(Items)
  BY PiecesTyped
<1>3. open = {} => AllAnswered(s)
  BY DEF AnswerInv
<1>4. CASE m.role = "system"
  <2>1. AddToAnthropic(s, m) = s /\ open' = open
    BY <1>4 DEF AddToAnthropic, Opens
  <2> QED
    BY <2>1
<1>5. CASE m.role = "user"
  <2> DEFINE x == [role |-> "user", list |-> m.list, body |-> Converted(m)]
  <2>1. x \in Sent /\ x.body = Converted(m) /\ AddToAnthropic(s, m) = Append(s, x)
    BY <1>1, <1>2, <1>5 DEF Sent, AddToAnthropic
  <2> HIDE DEF x
  <2>2. open = {} /\ open' = {} /\ m.content \in Seq(Says)
    BY <1>5 DEF Opens
  <2>3. Calls(x.body) = <<>>
    BY <2>1, <2>2, UserHasNoCalls
  <2>4. AllAnswered(Append(s, x))
    BY <1>3, <2>1, <2>2, <2>3, AnsweredStays
  <2> QED
    BY <2>1, <2>2, <2>4, FS_EmptySet DEF AnswerInv
<1>6. CASE m.role = "assistant"
  <2> DEFINE x == [role |-> "assistant", list |-> TRUE, body |-> ContentBlocks(m)]
  <2>1. /\ x \in Sent /\ x.role = "assistant" /\ x.body = ContentBlocks(m)
        /\ AddToAnthropic(s, m) = Append(s, x)
    BY <1>2, <1>6 DEF Sent, AddToAnthropic
  <2> HIDE DEF x
  <2>2. /\ open = {} /\ open' = ToSet(m.calls)
        /\ IsFiniteSet(open') /\ Cardinality(open') = Len(m.calls)
    BY <1>6 DEF Opens
  <2>3. Len(Calls(x.body)) = Cardinality(open') /\ Ids(Calls(x.body)) = OpenIds(open')
    BY <1>6, <2>1, <2>2, CallsOfBlocks
  <2>4. CASE open' = {}
    <3>1. Calls(x.body) \in Seq(ToolCalls)
      BY <2>1, <1>2, SelectionTypes
    <3>2. Calls(x.body) = <<>>
      BY <2>3, <2>4, <3>1, FS_EmptySet
    <3>3. AllAnswered(Append(s, x))
      BY <1>3, <2>1, <2>2, <3>2, AnsweredStays
    <3> QED
      BY <2>1, <2>2, <2>4, <3>3 DEF AnswerInv
  <2>5. CASE open' # {}
    <3>1. Waiting(Append(s, x), open')
      BY <1>3, <2>1, <2>2, <2>3 DEF Waiting
    <3> QED
      BY <2>1, <2>2, <2>5, <3>1 DEF AnswerInv
  <2> QED
    BY <2>4, <2>5
<1>7. CASE m.role = "tool"
  <2>1. PICK c \in open, r \in Results :
          open' = open \ {c} /\ m.content = <<r>> /\ r.id = c.id
    BY <1>7 DEF Opens
  <2> QED
    BY <1>7, <2>1, ResultAnswers
<1> QED
  BY <1>1, <1>4, <1>5, <1>6, <1>7 DEF Roles

-----------------------------------------------------------------------------
(* The theorems.                                                           *)

\* The inductive invariant.
Inv == TypeInv /\ AnswerInv(AnthropicMessages(history), open)

\* The invariant holds of the empty conversation.
LEMMA InitInv == Init => Inv
<1> SUFFICES ASSUME Init PROVE Inv
  OBVIOUS
<1>1. spoken = <<>> /\ history = <<>> /\ open = {}
  BY DEF Init
<1>2. TypeInv
  <2>1. DOMAIN <<>> = {} /\ <<>> \in Seq(Utterances) /\ <<>> \in Seq(Messages)
    OBVIOUS
  <2> QED
    BY <1>1, <2>1 DEF TypeInv
<1>3. AnswerInv(AnthropicMessages(history), open)
  BY <1>1, SentEmpty, NoneAnswered
<1> QED
  BY <1>2, <1>3 DEF Inv

\* Every step keeps it.
LEMMA StepInv == Inv /\ [Next]_vars => Inv'
<1> SUFFICES ASSUME Inv, [Next]_vars PROVE Inv'
  OBVIOUS
<1>1. CASE Next
  <2>1. PICK m, u : Told(m, u) /\ Adds(m, u) /\ Opens(m) /\ open' \subseteq ToolCalls
    BY <1>1, Tells DEF Inv
  <2>2. TypeInv'
    BY <2>1, ToldAppend DEF Inv
  <2>3. AnthropicMessages(history) \in Seq(Sent)
    BY LogIs, MessagesHear DEF Inv
  <2>4. AnthropicMessages(Append(history, m)) = AddToAnthropic(AnthropicMessages(history), m)
    <3>1. history \in Seq(Messages) /\ m \in Messages
      BY <2>1 DEF Inv, TypeInv, Told
    <3> QED
      BY <3>1, SentAppend
  <2>5. AnswerInv(AddToAnthropic(AnthropicMessages(history), m), open')
    BY <2>1, <2>3, AddAnswers DEF Inv
  <2>6. AnswerInv(AnthropicMessages(history'), open')
    BY <2>1, <2>4, <2>5 DEF Adds
  <2> QED
    BY <2>2, <2>6 DEF Inv
<1>2. CASE UNCHANGED vars
  <2>1. spoken' = spoken /\ history' = history /\ open' = open
    BY <1>2 DEF vars
  <2>2. TypeInv'
    BY <2>1 DEF Inv, TypeInv
  <2>3. AnswerInv(AnthropicMessages(history'), open')
    BY <2>1 DEF Inv
  <2> QED
    BY <2>2, <2>3 DEF Inv
<1> QED
  BY <1>1, <1>2

\* So it always holds.
LEMMA AlwaysInv == Spec => []Inv
<1> QED
  BY InitInv, StepInv, PTL DEF Spec

\* And it implies that calls are next to their results.
LEMMA InvImpliesCallsAreAnswered == Inv => CallsAreAnswered
<1> SUFFICES ASSUME Inv, open = {} PROVE AllAnswered(AnthropicMessages(history))
  BY DEF CallsAreAnswered, AllAnswered, Answered
<1> QED
  BY DEF Inv, AnswerInv

\* The client remembers what was said, each utterance in a message of its role:
\* content and tool_calls are what the schema of the request says they are
\* (schemas/openai.py:5), and only calls that were made can be open.
THEOREM TypeCorrect == Spec => []TypeInv
<1>1. Inv => TypeInv
  BY DEF Inv
<1> QED
  BY <1>1, AlwaysInv, PTL

\* Whatever is said, in whatever order and of whatever length, a request to
\* Anthropic says all of it but the losses that ToAnthropic names
\* (anthropic.py:48-107).
THEOREM AnthropicIsToldAll == Spec => []AnthropicHearsAll
<1>1. Inv => AnthropicHearsAll
  BY TypeInvImpliesAnthropicHearsAll DEF Inv
<1> QED
  BY <1>1, AlwaysInv, PTL

\* In every request to Anthropic that is sent when no tool is running, the
\* message after one with tool calls opens with the results of exactly these
\* (anthropic.py:96).
THEOREM CallsHaveResults == Spec => []CallsAreAnswered
<1> QED
  BY InvImpliesCallsAreAnswered, AlwaysInv, PTL

\* A request has no more empty messages than there are utterances of which
\* nothing can be told (anthropic.py:61, 165).
THEOREM EmptyIsRare == Spec => []EmptyOnlyIfMute
<1>1. Inv => EmptyOnlyIfMute
  BY TypeInvImpliesEmptyOnlyIfMute DEF Inv
<1> QED
  BY <1>1, AlwaysInv, PTL

=============================================================================
