------------------------ MODULE ProviderStreamProofs ------------------------
(***************************************************************************)
(* Proofs about ProviderStream, for answers of any length and shape and    *)
(* any adapters.                                                           *)
(***************************************************************************)
EXTENDS ProviderStream, WellFoundedInduction, TLAPS

-----------------------------------------------------------------------------
(* Induction over the naturals and over sequences, with the property as a  *)
(* set.                                                                    *)

\* A set that holds 0 and the successor of each of its numbers holds all.
LEMMA NatInd ==
  ASSUME NEW T, 0 \in T, \A n \in Nat : n \in T => n + 1 \in T
  PROVE  \A n \in Nat : n \in T
<1> SUFFICES ASSUME \E n \in Nat : n \notin T PROVE FALSE
  OBVIOUS
<1> DEFINE Less == {p \in Nat \X Nat : p[1] < p[2]}
<1>1. Less = OpToRel(<, Nat)
  BY DEF OpToRel
<1>2. IsWellFoundedOn(Less, Nat)
  BY <1>1, NatLessThanWellFounded, Zenon
<1> HIDE DEF Less
<1>3. PICK m \in Nat \ T : \A n \in Nat \ T : ~ (<<n, m>> \in Less)
  BY <1>2, WFMin, Zenon
<1>4. m - 1 \in Nat \ T
  BY <1>3
<1>5. <<m - 1, m>> \in Less
  BY <1>4 DEF Less
<1> QED
  BY <1>3, <1>4, <1>5

\* A set that holds <<>> and, of each sequence in it, its extensions.
LEMMA SeqInd ==
  ASSUME NEW S, NEW T, <<>> \in T, \A s \in Seq(S), x \in S : s \in T => Append(s, x) \in T
  PROVE  \A s \in Seq(S) : s \in T
<1> DEFINE N == {n \in Nat : \A s \in Seq(S) : Len(s) = n => s \in T}
<1>1. 0 \in N
  OBVIOUS
<1>2. ASSUME NEW n \in Nat, n \in N PROVE n + 1 \in N
  <2> SUFFICES ASSUME NEW s \in Seq(S), Len(s) = n + 1 PROVE s \in T
    OBVIOUS
  <2> DEFINE f == SubSeq(s, 1, n)
  <2>1. f \in Seq(S) /\ Len(f) = n /\ s[n + 1] \in S /\ s = Append(f, s[n + 1])
    OBVIOUS
  <2>2. f \in T
    BY <1>2, <2>1
  <2> QED
    BY <2>1, <2>2
<1> HIDE DEF N
<1>3. \A n \in Nat : n \in N
  BY <1>1, <1>2, NatInd
<1> QED
  BY <1>3 DEF N

-----------------------------------------------------------------------------
(* Folding a sequence: what a recursive function on its prefixes returns.   *)

Steps(A, S) == [A \X S -> A]
FoldRule(s, base, G, f) ==
  /\ f[0] = base
  /\ \A k \in 0..(Len(s) - 1) : f[k + 1] = G[<<f[k], s[k + 1]>>]

\* There is such a function, for any sequence.
LEMMA FoldDefined ==
  ASSUME NEW A, NEW S, NEW base \in A, NEW G \in Steps(A, S)
  PROVE  \A s \in Seq(S) : \E f \in [0..Len(s) -> A] : FoldRule(s, base, G, f)
<1> DEFINE T == {s \in Seq(S) : \E f \in [0..Len(s) -> A] : FoldRule(s, base, G, f)}
<1>1. <<>> \in T
  <2> DEFINE f == [k \in 0..0 |-> base]
  <2>1. Len(<<>>) = 0 /\ <<>> \in Seq(S) /\ f \in [0..Len(<<>>) -> A]
    OBVIOUS
  <2>2. FoldRule(<<>>, base, G, f)
    BY <2>1 DEF FoldRule
  <2> QED
    BY <2>1, <2>2
<1>2. ASSUME NEW s \in Seq(S), NEW x \in S, s \in T PROVE Append(s, x) \in T
  <2> DEFINE n == Len(s)
             t == Append(s, x)
  <2>0. n \in Nat /\ Len(t) = n + 1 /\ t \in Seq(S) /\ t[n + 1] = x /\ \A i \in 1..n : t[i] = s[i]
    OBVIOUS
  <2>1. PICK f \in [0..n -> A] : FoldRule(s, base, G, f)
    BY <1>2
  <2> DEFINE last == G[<<f[n], x>>]
             g == [k \in 0..(n + 1) |-> IF k <= n THEN f[k] ELSE last]
  <2>2. last \in A
    BY <2>0 DEF Steps
  <2> HIDE DEF last
  <2>3. g \in [0..(n + 1) -> A]
    BY <2>0, <2>2
  <2>4. g[n + 1] = last /\ \A k \in 0..n : g[k] = f[k]
    BY <2>0
  <2> HIDE DEF g, t, n
  <2>5. g[0] = base
    BY <2>0, <2>1, <2>4 DEF FoldRule, n
  <2>6. ASSUME NEW k \in 0..n PROVE g[k + 1] = G[<<g[k], t[k + 1]>>]
    <3>1. CASE k = n
      BY <2>0, <2>4, <3>1 DEF last
    <3>2. CASE k # n
      <4>1. k \in 0..(Len(s) - 1) /\ k + 1 \in 1..n /\ k + 1 \in 0..n
        BY <2>0, <3>2 DEF n
      <4>2. f[k + 1] = G[<<f[k], s[k + 1]>>]
        BY <2>1, <4>1 DEF FoldRule
      <4> QED
        BY <2>0, <2>4, <4>1, <4>2
    <3> QED
      BY <3>1, <3>2
  <2>7. FoldRule(t, base, G, g)
    BY <2>0, <2>5, <2>6 DEF FoldRule
  <2> QED
    BY <2>0, <2>3, <2>7 DEF t
<1> HIDE DEF T
<1>3. \A s \in Seq(S) : s \in T
  BY <1>1, <1>2, SeqInd
<1> QED
  BY <1>3 DEF T

FoldOf(A, s, base, G) == (CHOOSE f \in [0..Len(s) -> A] : FoldRule(s, base, G, f))[Len(s)]

\* FoldRule, as far as f stays in A.
PartRule(A, s, base, G, f) ==
  /\ f[0] = base
  /\ \A k \in 0..(Len(s) - 1) : f[k] \in A => f[k + 1] = G[<<f[k], s[k + 1]>>]

\* Sequences that begin alike are folded alike.
LEMMA FoldAgrees ==
  ASSUME NEW A, NEW S, NEW base \in A, NEW G \in Steps(A, S),
         NEW s \in Seq(S), NEW t \in Seq(S),
         NEW f, PartRule(A, s, base, G, f), NEW g, PartRule(A, t, base, G, g),
         NEW n \in Nat, n <= Len(s), n <= Len(t), \A i \in 1..n : s[i] = t[i]
  PROVE  f[n] = g[n] /\ f[n] \in A
<1> DEFINE T == {k \in Nat : k <= n => f[k] = g[k] /\ f[k] \in A}
<1>1. 0 \in T
  BY DEF PartRule
<1>2. ASSUME NEW k \in Nat, k \in T PROVE k + 1 \in T
  <2> SUFFICES ASSUME k + 1 <= n PROVE f[k + 1] = g[k + 1] /\ f[k + 1] \in A
    OBVIOUS
  <2>1. k \in 0..(Len(s) - 1) /\ k \in 0..(Len(t) - 1) /\ s[k + 1] = t[k + 1] /\ k <= n
        /\ s[k + 1] \in S
    OBVIOUS
  <2>2. f[k] = g[k] /\ f[k] \in A
    BY <1>2, <2>1
  <2>3. f[k + 1] = G[<<f[k], s[k + 1]>>] /\ g[k + 1] = G[<<g[k], t[k + 1]>>]
    BY <2>1, <2>2 DEF PartRule
  <2>4. G[<<f[k], s[k + 1]>>] \in A
    BY <2>1, <2>2 DEF Steps
  <2> QED
    BY <2>1, <2>2, <2>3, <2>4
<1> HIDE DEF T
<1>3. n \in T
  BY <1>1, <1>2, NatInd
<1> QED
  BY <1>3 DEF T

\* The fold is the last value of such a function.
LEMMA FoldIs ==
  ASSUME NEW A, NEW S, NEW base \in A, NEW G \in Steps(A, S),
         NEW s \in Seq(S), NEW f, PartRule(A, s, base, G, f)
  PROVE  f[Len(s)] = FoldOf(A, s, base, G) /\ FoldOf(A, s, base, G) \in A
<1> DEFINE g == CHOOSE g \in [0..Len(s) -> A] : FoldRule(s, base, G, g)
<1>1. \E h \in [0..Len(s) -> A] : FoldRule(s, base, G, h)
  BY FoldDefined
<1>2. FoldRule(s, base, G, g)
  BY <1>1, Zenon
<1>3. FoldOf(A, s, base, G) = g[Len(s)]
  BY DEF FoldOf
<1> HIDE DEF g
<1>4. PartRule(A, s, base, G, g)
  BY <1>2 DEF FoldRule, PartRule
<1>5. Len(s) \in Nat
  OBVIOUS
<1> QED
  BY <1>3, <1>4, <1>5, FoldAgrees

\* A longer sequence is folded one step further.
LEMMA FoldSteps ==
  ASSUME NEW A, NEW S, NEW base \in A, NEW G \in Steps(A, S)
  PROVE  /\ FoldOf(A, <<>>, base, G) = base
         /\ \A s \in Seq(S) : FoldOf(A, s, base, G) \in A
         /\ \A s \in Seq(S), x \in S :
              FoldOf(A, Append(s, x), base, G) = G[<<FoldOf(A, s, base, G), x>>]
<1>0. \A s \in Seq(S) : \E f : FoldRule(s, base, G, f) /\ PartRule(A, s, base, G, f)
  BY FoldDefined DEF FoldRule, PartRule
<1>1. FoldOf(A, <<>>, base, G) = base
  <2>1. <<>> \in Seq(S) /\ Len(<<>>) = 0
    OBVIOUS
  <2>2. PICK f : FoldRule(<<>>, base, G, f) /\ PartRule(A, <<>>, base, G, f)
    BY <1>0, <2>1
  <2>3. f[Len(<<>>)] = FoldOf(A, <<>>, base, G)
    BY <2>1, <2>2, FoldIs
  <2> QED
    BY <2>1, <2>2, <2>3 DEF FoldRule
<1>2. ASSUME NEW s \in Seq(S) PROVE FoldOf(A, s, base, G) \in A
  BY <1>0, FoldIs
<1>3. ASSUME NEW s \in Seq(S), NEW x \in S
      PROVE  FoldOf(A, Append(s, x), base, G) = G[<<FoldOf(A, s, base, G), x>>]
  <2> DEFINE n == Len(s)
             t == Append(s, x)
  <2>1. n \in Nat /\ t \in Seq(S) /\ Len(t) = n + 1 /\ t[n + 1] = x /\ \A i \in 1..n : s[i] = t[i]
    OBVIOUS
  <2> HIDE DEF t
  <2>2. PICK f : FoldRule(s, base, G, f) /\ PartRule(A, s, base, G, f)
    BY <1>0
  <2>3. PICK g : FoldRule(t, base, G, g) /\ PartRule(A, t, base, G, g)
    BY <1>0, <2>1
  <2>4. n <= Len(s) /\ n <= Len(t) /\ n \in 0..(Len(t) - 1)
    BY <2>1
  <2>5. f[n] = g[n]
    BY <2>1, <2>2, <2>3, <2>4, FoldAgrees
  <2>6. g[n + 1] = G[<<g[n], t[n + 1]>>]
    BY <2>3, <2>4 DEF FoldRule
  <2>7. FoldOf(A, s, base, G) = f[n]
    BY <2>2, FoldIs
  <2>8. FoldOf(A, t, base, G) = g[n + 1]
    BY <2>1, <2>3, FoldIs
  <2> QED
    BY <2>1, <2>5, <2>6, <2>7, <2>8 DEF t
<1> QED
  BY <1>1, <1>2, <1>3

-----------------------------------------------------------------------------
(* What the folds of the model return.                                     *)

Piece == Nat \X Nat
Pieces == Seq(Piece)
Block == [type : BlockTypes, body : Pieces]

\* Sequences of pieces, longer.
LEMMA PiecesGrow ==
  /\ <<>> \in Pieces
  /\ \A a, b \in Pieces : a \o b \in Pieces /\ Len(a \o b) = Len(a) + Len(b)
  /\ \A a \in Pieces, p \in Piece :
       Append(a, p) \in Pieces /\ Len(Append(a, p)) = Len(a) + 1 /\ a \o <<p>> = Append(a, p)
  /\ \A a \in Pieces : Len(a) \in Nat /\ a \o <<>> = a /\ <<>> \o a = a
BY DEF Pieces

\* Bodies, block by block.
BodyStep(type) ==
  [p \in Pieces \X Block |-> IF p[2].type = type THEN p[1] \o p[2].body ELSE p[1]]

BodyRule(bs, type, f) ==
  f = [n \in 0..Len(bs) |->
         IF n = 0 THEN <<>> ELSE IF bs[n].type = type THEN f[n - 1] \o bs[n].body ELSE f[n - 1]]

\* BodyStep, evaluated.
LEMMA BodyStepIs ==
  ASSUME NEW type
  PROVE  /\ BodyStep(type) \in Steps(Pieces, Block)
         /\ \A a \in Pieces, b \in Block :
              BodyStep(type)[<<a, b>>] = IF b.type = type THEN a \o b.body ELSE a
<1>1. ASSUME NEW p \in Pieces \X Block
      PROVE  (IF p[2].type = type THEN p[1] \o p[2].body ELSE p[1]) \in Pieces
  <2>1. p[1] \in Pieces /\ p[2] \in Block
    OBVIOUS
  <2>2. p[2].body \in Pieces
    BY <2>1 DEF Block
  <2>3. p[1] \o p[2].body \in Pieces
    BY <2>1, <2>2, PiecesGrow
  <2> QED
    BY <2>1, <2>3
<1>2. BodyStep(type) \in Steps(Pieces, Block)
  BY <1>1, Zenon DEF Steps, BodyStep
<1>3. ASSUME NEW a \in Pieces, NEW b \in Block
      PROVE  BodyStep(type)[<<a, b>>] = IF b.type = type THEN a \o b.body ELSE a
  <2>1. <<a, b>> \in Pieces \X Block /\ <<a, b>>[1] = a /\ <<a, b>>[2] = b
    OBVIOUS
  <2> QED
    BY <2>1 DEF BodyStep
<1> QED
  BY <1>2, <1>3

\* Bodies is the fold of its step.
LEMMA BodiesAre ==
  ASSUME NEW type, NEW bs \in Seq(Block)
  PROVE  Bodies(bs, type) = FoldOf(Pieces, bs, <<>>, BodyStep(type))
<1> DEFINE G == BodyStep(type)
           f == CHOOSE f : BodyRule(bs, type, f)
<1>1. <<>> \in Pieces /\ G \in Steps(Pieces, Block)
  BY PiecesGrow, BodyStepIs
<1>2. \E h : BodyRule(bs, type, h)
  <2>1. PICK h \in [0..Len(bs) -> Pieces] : FoldRule(bs, <<>>, G, h)
    BY <1>1, FoldDefined
  <2>2. ASSUME NEW n \in 0..Len(bs)
        PROVE  h[n] = IF n = 0 THEN <<>>
                      ELSE IF bs[n].type = type THEN h[n - 1] \o bs[n].body ELSE h[n - 1]
    <3>1. CASE n = 0
      BY <2>1, <3>1 DEF FoldRule
    <3>2. CASE n # 0
      <4>1. n - 1 \in 0..(Len(bs) - 1) /\ n - 1 \in 0..Len(bs) /\ (n - 1) + 1 = n /\ bs[n] \in Block
        BY <3>2
      <4>2. h[n] = G[<<h[n - 1], bs[n]>>] /\ h[n - 1] \in Pieces
        BY <2>1, <4>1 DEF FoldRule
      <4> QED
        BY <3>2, <4>1, <4>2, BodyStepIs
    <3> QED
      BY <3>1, <3>2
  <2>3. h = [n \in 0..Len(bs) |->
               IF n = 0 THEN <<>>
               ELSE IF bs[n].type = type THEN h[n - 1] \o bs[n].body ELSE h[n - 1]]
    BY <2>2
  <2> QED
    BY <2>3, Zenon DEF BodyRule
<1>3. BodyRule(bs, type, f)
  BY <1>2, Zenon
<1>4. Bodies(bs, type) = f[Len(bs)]
  BY Zenon DEF Bodies, BodyRule
<1> HIDE DEF f
<1>5. PartRule(Pieces, bs, <<>>, G, f)
  <2>1. \A n \in 0..Len(bs) :
          f[n] = IF n = 0 THEN <<>>
                 ELSE IF bs[n].type = type THEN f[n - 1] \o bs[n].body ELSE f[n - 1]
    BY <1>3, Zenon DEF BodyRule
  <2>2. Len(bs) \in Nat
    OBVIOUS
  <2>3. f[0] = <<>>
    BY <2>1, <2>2
  <2>4. ASSUME NEW k \in 0..(Len(bs) - 1), f[k] \in Pieces
        PROVE  f[k + 1] = G[<<f[k], bs[k + 1]>>]
    <3>1. k + 1 \in 0..Len(bs) /\ k + 1 # 0 /\ (k + 1) - 1 = k /\ bs[k + 1] \in Block
      BY <2>2
    <3> QED
      BY <2>1, <2>4, <3>1, BodyStepIs
  <2> QED
    BY <2>3, <2>4 DEF PartRule
<1> QED
  BY <1>1, <1>4, <1>5, FoldIs

\* One more block adds its body, if it has the type.
LEMMA BodiesGrow ==
  ASSUME NEW type
  PROVE  /\ Bodies(<<>>, type) = <<>>
         /\ \A bs \in Seq(Block) : Bodies(bs, type) \in Pieces
         /\ \A bs \in Seq(Block), b \in Block :
              Bodies(Append(bs, b), type) =
                IF b.type = type THEN Bodies(bs, type) \o b.body ELSE Bodies(bs, type)
<1> DEFINE G == BodyStep(type)
<1>1. <<>> \in Pieces /\ G \in Steps(Pieces, Block)
  BY PiecesGrow, BodyStepIs
<1>2. <<>> \in Seq(Block) /\ \A bs \in Seq(Block), b \in Block : Append(bs, b) \in Seq(Block)
  OBVIOUS
<1>3. \A bs \in Seq(Block) : Bodies(bs, type) = FoldOf(Pieces, bs, <<>>, G)
  BY BodiesAre
<1> HIDE DEF G
<1>4. /\ FoldOf(Pieces, <<>>, <<>>, G) = <<>>
      /\ \A bs \in Seq(Block) : FoldOf(Pieces, bs, <<>>, G) \in Pieces
      /\ \A bs \in Seq(Block), b \in Block :
           FoldOf(Pieces, Append(bs, b), <<>>, G) = G[<<FoldOf(Pieces, bs, <<>>, G), b>>]
  BY <1>1, FoldSteps
<1>5. Bodies(<<>>, type) = <<>> /\ \A bs \in Seq(Block) : Bodies(bs, type) \in Pieces
  BY <1>2, <1>3, <1>4
<1>6. ASSUME NEW bs \in Seq(Block), NEW b \in Block
      PROVE  Bodies(Append(bs, b), type) =
               IF b.type = type THEN Bodies(bs, type) \o b.body ELSE Bodies(bs, type)
  <2>1. Bodies(Append(bs, b), type) = G[<<Bodies(bs, type), b>>]
    BY <1>2, <1>3, <1>4
  <2> QED
    BY <1>5, <2>1, BodyStepIs DEF G
<1> QED
  BY <1>5, <1>6

\* The calls among them.
Blocks == Seq(Block)
ToolStep == [p \in Blocks \X Block |-> IF IsTool(p[2]) THEN Append(p[1], p[2]) ELSE p[1]]
ToolRule(bs, f) ==
  f = [n \in 0..Len(bs) |->
         IF n = 0 THEN <<>> ELSE IF IsTool(bs[n]) THEN Append(f[n - 1], bs[n]) ELSE f[n - 1]]

\* Sequences of blocks, longer.
LEMMA BlocksGrow ==
  /\ <<>> \in Blocks
  /\ \A bs \in Blocks, b \in Block :
       /\ Append(bs, b) \in Blocks
       /\ Len(Append(bs, b)) = Len(bs) + 1
       /\ Append(bs, b)[Len(bs) + 1] = b
       /\ \A i \in 1..Len(bs) : Append(bs, b)[i] = bs[i]
BY DEF Blocks

\* ToolStep, evaluated.
LEMMA ToolStepIs ==
  /\ ToolStep \in Steps(Blocks, Block)
  /\ \A a \in Blocks, b \in Block :
       ToolStep[<<a, b>>] = IF IsTool(b) THEN Append(a, b) ELSE a
<1>1. ASSUME NEW p \in Blocks \X Block
      PROVE  (IF IsTool(p[2]) THEN Append(p[1], p[2]) ELSE p[1]) \in Blocks
  <2>1. p[1] \in Blocks /\ p[2] \in Block
    OBVIOUS
  <2> QED
    BY <2>1, BlocksGrow
<1>2. ToolStep \in Steps(Blocks, Block)
  BY <1>1, Zenon DEF Steps, ToolStep
<1>3. ASSUME NEW a \in Blocks, NEW b \in Block
      PROVE  ToolStep[<<a, b>>] = IF IsTool(b) THEN Append(a, b) ELSE a
  <2>1. <<a, b>> \in Blocks \X Block /\ <<a, b>>[1] = a /\ <<a, b>>[2] = b
    OBVIOUS
  <2> QED
    BY <2>1 DEF ToolStep
<1> QED
  BY <1>2, <1>3

\* ToolsOf is the fold of its step.
LEMMA ToolsAre ==
  ASSUME NEW bs \in Seq(Block)
  PROVE  ToolsOf(bs) = FoldOf(Blocks, bs, <<>>, ToolStep)
<1> DEFINE G == ToolStep
           f == CHOOSE f : ToolRule(bs, f)
<1>1. <<>> \in Blocks /\ G \in Steps(Blocks, Block)
  BY BlocksGrow, ToolStepIs
<1>2. \E h : ToolRule(bs, h)
  <2>1. PICK h \in [0..Len(bs) -> Blocks] : FoldRule(bs, <<>>, G, h)
    BY <1>1, FoldDefined
  <2>2. ASSUME NEW n \in 0..Len(bs)
        PROVE  h[n] = IF n = 0 THEN <<>>
                      ELSE IF IsTool(bs[n]) THEN Append(h[n - 1], bs[n]) ELSE h[n - 1]
    <3>1. CASE n = 0
      BY <2>1, <3>1 DEF FoldRule
    <3>2. CASE n # 0
      <4>1. n - 1 \in 0..(Len(bs) - 1) /\ n - 1 \in 0..Len(bs) /\ (n - 1) + 1 = n /\ bs[n] \in Block
        BY <3>2
      <4>2. h[n] = G[<<h[n - 1], bs[n]>>] /\ h[n - 1] \in Blocks
        BY <2>1, <4>1 DEF FoldRule
      <4> QED
        BY <3>2, <4>1, <4>2, ToolStepIs
    <3> QED
      BY <3>1, <3>2
  <2>3. h = [n \in 0..Len(bs) |->
               IF n = 0 THEN <<>>
               ELSE IF IsTool(bs[n]) THEN Append(h[n - 1], bs[n]) ELSE h[n - 1]]
    BY <2>2
  <2> QED
    BY <2>3, Zenon DEF ToolRule
<1>3. ToolRule(bs, f)
  BY <1>2, Zenon
<1>4. ToolsOf(bs) = f[Len(bs)]
  BY Zenon DEF ToolsOf, ToolRule
<1> HIDE DEF f
<1>5. PartRule(Blocks, bs, <<>>, G, f)
  <2>1. \A n \in 0..Len(bs) :
          f[n] = IF n = 0 THEN <<>>
                 ELSE IF IsTool(bs[n]) THEN Append(f[n - 1], bs[n]) ELSE f[n - 1]
    BY <1>3, Zenon DEF ToolRule
  <2>2. Len(bs) \in Nat
    OBVIOUS
  <2>3. f[0] = <<>>
    BY <2>1, <2>2
  <2>4. ASSUME NEW k \in 0..(Len(bs) - 1), f[k] \in Blocks
        PROVE  f[k + 1] = G[<<f[k], bs[k + 1]>>]
    <3>1. k + 1 \in 0..Len(bs) /\ k + 1 # 0 /\ (k + 1) - 1 = k /\ bs[k + 1] \in Block
      BY <2>2
    <3> QED
      BY <2>1, <2>4, <3>1, ToolStepIs
  <2> QED
    BY <2>3, <2>4 DEF PartRule
<1> QED
  BY <1>1, <1>4, <1>5, FoldIs

\* One more block is one more call, if it is one.
LEMMA ToolsGrow ==
  /\ ToolsOf(<<>>) = <<>>
  /\ \A bs \in Blocks : ToolsOf(bs) \in Blocks
  /\ \A bs \in Blocks, b \in Block :
       ToolsOf(Append(bs, b)) = IF IsTool(b) THEN Append(ToolsOf(bs), b) ELSE ToolsOf(bs)
<1> DEFINE G == ToolStep
<1>1. <<>> \in Blocks /\ G \in Steps(Blocks, Block)
  BY BlocksGrow, ToolStepIs
<1>3. \A bs \in Blocks : ToolsOf(bs) = FoldOf(Blocks, bs, <<>>, G)
  BY ToolsAre DEF Blocks
<1> HIDE DEF G
<1>4. /\ FoldOf(Blocks, <<>>, <<>>, G) = <<>>
      /\ \A bs \in Blocks : FoldOf(Blocks, bs, <<>>, G) \in Blocks
      /\ \A bs \in Blocks, b \in Block :
           FoldOf(Blocks, Append(bs, b), <<>>, G) = G[<<FoldOf(Blocks, bs, <<>>, G), b>>]
  <2>1. \A bs \in Blocks : bs \in Seq(Block)
    BY DEF Blocks
  <2> QED
    BY <1>1, <2>1, FoldSteps
<1>5. ToolsOf(<<>>) = <<>> /\ \A bs \in Blocks : ToolsOf(bs) \in Blocks
  BY <1>1, <1>3, <1>4
<1>6. ASSUME NEW bs \in Blocks, NEW b \in Block
      PROVE  ToolsOf(Append(bs, b)) = IF IsTool(b) THEN Append(ToolsOf(bs), b) ELSE ToolsOf(bs)
  <2>1. ToolsOf(Append(bs, b)) = G[<<ToolsOf(bs), b>>]
    BY <1>3, <1>4, BlocksGrow
  <2> QED
    BY <1>5, <2>1, ToolStepIs DEF G
<1> QED
  BY <1>5, <1>6

-----------------------------------------------------------------------------
(* What a client assembles.                                                *)

Reasons == StopReasons \cup {"length", "tool_calls", "stop"} \cup {None}
Call == [index : Nat, id : Nat \cup {None}, args : Pieces]
CallList == Seq(Call)
Client == [text : Pieces, tools : CallList, finish : Reasons, usage : Nat \cup {None}]

Plain == [kind : {"role", "error"}]
TextChunk == [kind : {"text"}, piece : Piece, finish : Reasons]
ToolChunk ==
  [kind : {"tool"}, index : Nat, id : Nat \cup {None}, args : Pieces, finish : Reasons]
FinishChunk == [kind : {"finish"}, finish : Reasons]
UsageChunk == [kind : {"usage"}, count : Nat]
Chunk == Plain \cup TextChunk \cup ToolChunk \cup FinishChunk \cup UsageChunk
Chunks == Seq(Chunk)

\* A call of the list with this index is gone on with: there is just one.
LEMMA CallGoesOn ==
  ASSUME NEW tools \in CallList, NEW chunk \in ToolChunk, NEW m \in DOMAIN tools,
         \A i \in DOMAIN tools : tools[i].index = chunk.index <=> i = m
  PROVE  LET new == AddTool(tools, chunk) IN
           /\ new \in CallList
           /\ Len(new) = Len(tools)
           /\ \A i \in DOMAIN tools : i # m => new[i] = tools[i]
           /\ new[m].index = chunk.index
           /\ new[m].args = tools[m].args \o chunk.args
<1> DEFINE new == AddTool(tools, chunk)
           rec == [index |-> chunk.index,
                   id |-> IF chunk.id = None THEN tools[m].id ELSE chunk.id,
                   args |-> tools[m].args \o chunk.args]
<1>1. PlaceOf(tools, chunk.index) = m
  BY DEF PlaceOf
<1>2. new = [j \in DOMAIN tools \cup {m} |-> IF j = m THEN rec ELSE tools[j]]
  BY <1>1, Zenon DEF AddTool
<1>3. DOMAIN tools \cup {m} = 1..Len(tools) /\ Len(tools) \in Nat /\ m \in 1..Len(tools)
      /\ \A j \in 1..Len(tools) : tools[j] \in Call
  BY DEF CallList
<1>4. tools[m].args \o chunk.args \in Pieces
  BY <1>3, PiecesGrow DEF Call, ToolChunk
<1>5. rec \in Call
  BY <1>3, <1>4 DEF Call, ToolChunk
<1>6. rec.index = chunk.index /\ rec.args = tools[m].args \o chunk.args
  OBVIOUS
<1> HIDE DEF rec, new
<1>7. new = [j \in 1..Len(tools) |-> IF j = m THEN rec ELSE tools[j]]
  BY <1>2, <1>3, Zenon
<1>8. new \in [1..Len(tools) -> Call]
  BY <1>3, <1>5, <1>7
<1>9. new \in CallList /\ Len(new) = Len(tools)
  BY <1>3, <1>8 DEF CallList
<1>10. new[m] = rec /\ \A i \in DOMAIN tools : i # m => new[i] = tools[i]
  BY <1>3, <1>7
<1> QED
  BY <1>6, <1>9, <1>10 DEF new

\* A call with a new index is added at the end.
LEMMA CallOpens ==
  ASSUME NEW tools \in CallList, NEW chunk \in ToolChunk,
         \A i \in DOMAIN tools : tools[i].index # chunk.index
  PROVE  LET new == AddTool(tools, chunk) IN
           /\ new \in CallList
           /\ Len(new) = Len(tools) + 1
           /\ \A i \in DOMAIN tools : new[i] = tools[i]
           /\ new[Len(tools) + 1].index = chunk.index
           /\ new[Len(tools) + 1].args = chunk.args
<1> DEFINE new == AddTool(tools, chunk)
           m == Len(tools) + 1
           rec == [index |-> chunk.index,
                   id |-> IF chunk.id = None THEN None ELSE chunk.id,
                   args |-> <<>> \o chunk.args]
<1>1. PlaceOf(tools, chunk.index) = m
  BY DEF PlaceOf
<1>2. DOMAIN tools \cup {m} = 1..m /\ m \in Nat /\ m \in 1..m /\ m \notin DOMAIN tools
      /\ DOMAIN tools \subseteq 1..m
      /\ \A j \in 1..m : j # m => j \in DOMAIN tools /\ tools[j] \in Call
  BY DEF CallList
<1>3. new = [j \in DOMAIN tools \cup {m} |-> IF j = m THEN rec ELSE tools[j]]
  <2>1. [index |-> chunk.index, id |-> None, args |-> <<>>].id = None
        /\ [index |-> chunk.index, id |-> None, args |-> <<>>].args = <<>>
    OBVIOUS
  <2> QED
    BY <1>1, <1>2, <2>1, Zenon DEF AddTool
<1>4. <<>> \o chunk.args = chunk.args /\ chunk.args \in Pieces
  BY PiecesGrow DEF ToolChunk
<1>5. rec \in Call
  BY <1>4 DEF Call, ToolChunk
<1>6. rec.index = chunk.index /\ rec.args = chunk.args
  BY <1>4
<1> HIDE DEF rec, new, m
<1>7. new = [j \in 1..m |-> IF j = m THEN rec ELSE tools[j]]
  BY <1>2, <1>3, Zenon
<1>8. new \in [1..m -> Call]
  BY <1>2, <1>5, <1>7
<1>9. new \in CallList /\ Len(new) = m
  BY <1>2, <1>8 DEF CallList
<1>10. new[m] = rec /\ \A i \in DOMAIN tools : new[i] = tools[i]
  BY <1>2, <1>7
<1> QED
  BY <1>6, <1>9, <1>10 DEF new, m

\* Whatever the index, the result is a list of calls.
LEMMA CallsStayCalls ==
  ASSUME NEW tools \in CallList, NEW chunk \in ToolChunk
  PROVE  AddTool(tools, chunk) \in CallList
<1> DEFINE m == PlaceOf(tools, chunk.index)
           old == IF m \in DOMAIN tools THEN tools[m]
                  ELSE [index |-> chunk.index, id |-> None, args |-> <<>>]
           rec == [index |-> chunk.index,
                   id |-> IF chunk.id = None THEN old.id ELSE chunk.id,
                   args |-> old.args \o chunk.args]
           n == IF m \in DOMAIN tools THEN Len(tools) ELSE Len(tools) + 1
<1>1. m \in DOMAIN tools \/ m = Len(tools) + 1
  BY DEF PlaceOf
<1>2. [index |-> chunk.index, id |-> None, args |-> <<>>] \in Call
  BY PiecesGrow DEF Call, ToolChunk
<1>3. old \in Call
  BY <1>2 DEF CallList
<1> HIDE DEF old
<1>4. old.args \o chunk.args \in Pieces
  BY <1>3, PiecesGrow DEF Call, ToolChunk
<1>5. rec \in Call
  BY <1>3, <1>4 DEF Call, ToolChunk
<1>6. n \in Nat /\ DOMAIN tools \cup {m} = 1..n /\ \A j \in 1..n : j # m => tools[j] \in Call
  BY <1>1 DEF CallList
<1>7. AddTool(tools, chunk) = [j \in DOMAIN tools \cup {m} |-> IF j = m THEN rec ELSE tools[j]]
  BY Zenon DEF AddTool, old
<1> HIDE DEF rec, n, m
<1>8. AddTool(tools, chunk) \in [1..n -> Call]
  BY <1>5, <1>6, <1>7
<1> QED
  BY <1>6, <1>8 DEF CallList

\* A chunk keeps the type of what is assembled.
LEMMA AbsorbStays ==
  ASSUME NEW a \in Client, NEW chunk \in Chunk
  PROVE  Absorb(a, chunk) \in Client
<1>1. (IF chunk.kind = "text" THEN Append(a.text, chunk.piece) ELSE a.text) \in Pieces
  <2>1. a.text \in Pieces
    BY DEF Client
  <2>2. chunk.kind = "text" => chunk.piece \in Piece
    BY DEF Chunk, Plain, TextChunk, ToolChunk, FinishChunk, UsageChunk
  <2> QED
    BY <2>1, <2>2, PiecesGrow
<1>2. (IF chunk.kind = "tool" THEN AddTool(a.tools, chunk) ELSE a.tools) \in CallList
  <2>1. a.tools \in CallList
    BY DEF Client
  <2>2. chunk.kind = "tool" => chunk \in ToolChunk
    BY DEF Chunk, Plain, TextChunk, ToolChunk, FinishChunk, UsageChunk
  <2> QED
    BY <2>1, <2>2, CallsStayCalls
<1>3. NewFinish(a.finish, chunk) \in Reasons
  <2>1. a.finish \in Reasons
    BY DEF Client
  <2>2. chunk.kind \in {"finish", "text", "tool"} => chunk.finish \in Reasons
    BY DEF Chunk, Plain, TextChunk, ToolChunk, FinishChunk, UsageChunk
  <2> QED
    BY <2>1, <2>2 DEF NewFinish
<1>4. (IF chunk.kind = "usage" THEN chunk.count ELSE a.usage) \in Nat \cup {None}
  <2>1. a.usage \in Nat \cup {None}
    BY DEF Client
  <2>2. chunk.kind = "usage" => chunk.count \in Nat
    BY DEF Chunk, Plain, TextChunk, ToolChunk, FinishChunk, UsageChunk
  <2> QED
    BY <2>1, <2>2
<1> QED
  BY <1>1, <1>2, <1>3, <1>4, Zenon DEF Absorb, Client

\* Assembled, chunk by chunk.
ChunkStep == [p \in Client \X Chunk |-> Absorb(p[1], p[2])]
ChunkRule(chunks, f) ==
  f = [n \in 0..Len(chunks) |-> IF n = 0 THEN Nothing ELSE Absorb(f[n - 1], chunks[n])]

\* ChunkStep, evaluated.
LEMMA ChunkStepIs ==
  /\ Nothing \in Client
  /\ ChunkStep \in Steps(Client, Chunk)
  /\ \A a \in Client, c \in Chunk : ChunkStep[<<a, c>>] = Absorb(a, c)
<1>1. ASSUME NEW p \in Client \X Chunk PROVE Absorb(p[1], p[2]) \in Client
  <2>1. p[1] \in Client /\ p[2] \in Chunk
    OBVIOUS
  <2> QED
    BY <2>1, AbsorbStays
<1>2. ChunkStep \in Steps(Client, Chunk)
  BY <1>1, Zenon DEF Steps, ChunkStep
<1>3. ASSUME NEW a \in Client, NEW c \in Chunk PROVE ChunkStep[<<a, c>>] = Absorb(a, c)
  <2>1. <<a, c>> \in Client \X Chunk /\ <<a, c>>[1] = a /\ <<a, c>>[2] = c
    OBVIOUS
  <2> QED
    BY <2>1 DEF ChunkStep
<1>4. Nothing \in Client
  <2>1. <<>> \in Pieces /\ <<>> \in CallList /\ None \in Reasons /\ None \in Nat \cup {None}
    BY PiecesGrow DEF CallList, Reasons
  <2> QED
    BY <2>1 DEF Nothing, Client
<1> QED
  BY <1>2, <1>3, <1>4

\* Assembled is the fold of its step.
LEMMA AssembledIs ==
  ASSUME NEW c \in Chunks
  PROVE  Assembled(c) = FoldOf(Client, c, Nothing, ChunkStep)
<1> DEFINE G == ChunkStep
           f == CHOOSE f : ChunkRule(c, f)
<1>1. Nothing \in Client /\ G \in Steps(Client, Chunk) /\ c \in Seq(Chunk)
  BY ChunkStepIs DEF Chunks
<1>2. \E h : ChunkRule(c, h)
  <2>1. PICK h \in [0..Len(c) -> Client] : FoldRule(c, Nothing, G, h)
    BY <1>1, FoldDefined
  <2>2. ASSUME NEW n \in 0..Len(c)
        PROVE  h[n] = IF n = 0 THEN Nothing ELSE Absorb(h[n - 1], c[n])
    <3>1. CASE n = 0
      BY <2>1, <3>1 DEF FoldRule
    <3>2. CASE n # 0
      <4>1. n - 1 \in 0..(Len(c) - 1) /\ n - 1 \in 0..Len(c) /\ (n - 1) + 1 = n /\ c[n] \in Chunk
        BY <1>1, <3>2
      <4>2. h[n] = G[<<h[n - 1], c[n]>>] /\ h[n - 1] \in Client
        BY <2>1, <4>1 DEF FoldRule
      <4> QED
        BY <3>2, <4>1, <4>2, ChunkStepIs
    <3> QED
      BY <3>1, <3>2
  <2>3. h = [n \in 0..Len(c) |-> IF n = 0 THEN Nothing ELSE Absorb(h[n - 1], c[n])]
    BY <2>2
  <2> QED
    BY <2>3, Zenon DEF ChunkRule
<1>3. ChunkRule(c, f)
  BY <1>2, Zenon
<1>4. Assembled(c) = f[Len(c)]
  BY Zenon DEF Assembled, ChunkRule
<1> HIDE DEF f
<1>5. PartRule(Client, c, Nothing, G, f)
  <2>1. \A n \in 0..Len(c) : f[n] = IF n = 0 THEN Nothing ELSE Absorb(f[n - 1], c[n])
    BY <1>3, Zenon DEF ChunkRule
  <2>2. Len(c) \in Nat
    BY <1>1
  <2>3. f[0] = Nothing
    BY <2>1, <2>2
  <2>4. ASSUME NEW k \in 0..(Len(c) - 1), f[k] \in Client
        PROVE  f[k + 1] = G[<<f[k], c[k + 1]>>]
    <3>1. k + 1 \in 0..Len(c) /\ k + 1 # 0 /\ (k + 1) - 1 = k /\ c[k + 1] \in Chunk
      BY <1>1, <2>2
    <3> QED
      BY <2>1, <2>4, <3>1, ChunkStepIs
  <2> QED
    BY <2>3, <2>4 DEF PartRule
<1> QED
  BY <1>1, <1>4, <1>5, FoldIs

\* One more chunk is absorbed.
LEMMA AssembledGrows ==
  /\ Assembled(<<>>) = Nothing
  /\ \A c \in Chunks : Assembled(c) \in Client
  /\ \A c \in Chunks, x \in Chunk : Assembled(Append(c, x)) = Absorb(Assembled(c), x)
<1> DEFINE G == ChunkStep
<1>1. Nothing \in Client /\ G \in Steps(Client, Chunk)
  BY ChunkStepIs
<1>2. <<>> \in Chunks /\ \A c \in Chunks : c \in Seq(Chunk) /\ \A x \in Chunk : Append(c, x) \in Chunks
  BY DEF Chunks
<1>3. \A c \in Chunks : Assembled(c) = FoldOf(Client, c, Nothing, G)
  BY AssembledIs
<1> HIDE DEF G
<1>4. /\ FoldOf(Client, <<>>, Nothing, G) = Nothing
      /\ \A c \in Chunks : FoldOf(Client, c, Nothing, G) \in Client
      /\ \A c \in Chunks, x \in Chunk :
           FoldOf(Client, Append(c, x), Nothing, G) = G[<<FoldOf(Client, c, Nothing, G), x>>]
  BY <1>1, <1>2, FoldSteps
<1>5. Assembled(<<>>) = Nothing /\ \A c \in Chunks : Assembled(c) \in Client
  BY <1>2, <1>3, <1>4
<1>6. ASSUME NEW c \in Chunks, NEW x \in Chunk
      PROVE  Assembled(Append(c, x)) = Absorb(Assembled(c), x)
  <2>1. Assembled(Append(c, x)) = G[<<Assembled(c), x>>]
    BY <1>2, <1>3, <1>4
  <2> QED
    BY <1>5, <2>1, ChunkStepIs DEF G
<1> QED
  BY <1>5, <1>6

-----------------------------------------------------------------------------
(* What the client knows of the answer, while nothing is garbled.          *)

\* The index that the next call would get, and the one of the last block.
NextIndex(bs) == IF provider = "openai" THEN Len(ToolsOf(bs)) ELSE Len(bs)
LastIndex(bs) == NextIndex(SubSeq(bs, 1, Len(bs) - 1))

\* The arguments of the calls, in order.
SameCalls(tools, calls) ==
  /\ Len(tools) = Len(calls)
  /\ \A i \in DOMAIN calls : tools[i].args = calls[i].body

\* Gemini's client has one call at most.
OneCall(tools) == Len(tools) <= 1 /\ \A i \in DOMAIN tools : tools[i].index = 0

\* The last block, if it calls a tool, is the client's last call, and no other.
LastIsLast(tools, bs, c) ==
  IF bs # <<>> /\ IsTool(bs[Len(bs)])
  THEN /\ \A i \in DOMAIN tools : tools[i].index = LastIndex(bs) <=> i = Len(tools)
       /\ LastIndex(bs) \in Opened(c)
  ELSE TRUE

Known(bs, c) ==
  LET a == Assembled(c)
      calls == ToolsOf(bs) IN
    /\ a.text = Bodies(bs, "text")
    /\ (provider # "gemini" \/ Len(calls) <= 1) => SameCalls(a.tools, calls)
    /\ provider = "gemini" => OneCall(a.tools)
    /\ provider # "gemini" =>
         /\ \A i \in DOMAIN a.tools : a.tools[i].index < NextIndex(bs)
         /\ LastIsLast(a.tools, bs, c)

\* A chunk that is neither text nor a call changes neither.
LEMMA PlainAbsorbs ==
  ASSUME NEW c \in Chunks, NEW x \in Chunk, x.kind \notin {"text", "tool"}
  PROVE  LET a == Assembled(c)
             b == Assembled(Append(c, x)) IN
           b.text = a.text /\ b.tools = a.tools
BY AssembledGrows DEF Absorb

\* One more chunk closes no call.
LEMMA OpenedStays ==
  ASSUME NEW c \in Chunks, NEW x \in Chunk
  PROVE  Opened(c) \subseteq Opened(Append(c, x))
<1>1. ASSUME NEW j \in DOMAIN c
      PROVE  j \in DOMAIN Append(c, x) /\ Append(c, x)[j] = c[j]
  BY DEF Chunks
<1> QED
  BY <1>1, Zenon DEF Opened

\* So what the client knows stays true.
LEMMA PlainIsKnown ==
  ASSUME NEW bs \in Blocks, NEW c \in Chunks, Known(bs, c),
         NEW x \in Chunk, x.kind \notin {"text", "tool"}
  PROVE  Known(bs, Append(c, x))
BY PlainAbsorbs, OpenedStays DEF Known, LastIsLast

\* One more block leaves the next index where it was or raises it.
LEMMA IndexGrows ==
  ASSUME NEW bs \in Blocks, NEW b \in Block
  PROVE  /\ NextIndex(bs) \in Nat
         /\ NextIndex(bs) <= NextIndex(Append(bs, b))
         /\ IsTool(b) => NextIndex(Append(bs, b)) = NextIndex(bs) + 1
         /\ LastIndex(Append(bs, b)) = NextIndex(bs)
<1>1. SubSeq(Append(bs, b), 1, Len(Append(bs, b)) - 1) = bs /\ Len(bs) \in Nat
  BY DEF Blocks
<1>2. LastIndex(Append(bs, b)) = NextIndex(bs)
  BY <1>1 DEF LastIndex
<1>3. Len(ToolsOf(bs)) \in Nat
  BY ToolsGrow DEF Blocks
<1>4. ToolsOf(bs) \in Blocks
        /\ ToolsOf(Append(bs, b)) = IF IsTool(b) THEN Append(ToolsOf(bs), b) ELSE ToolsOf(bs)
  BY ToolsGrow
<1>5. Len(Append(ToolsOf(bs), b)) = Len(ToolsOf(bs)) + 1 /\ Len(Append(bs, b)) = Len(bs) + 1
  BY <1>4, BlocksGrow
<1> QED
  BY <1>1, <1>2, <1>3, <1>4, <1>5 DEF NextIndex

\* A client's calls have indices.
LEMMA CallsHaveIndices ==
  ASSUME NEW c \in Chunks
  PROVE  LET tools == Assembled(c).tools IN
           /\ tools \in CallList
           /\ Len(tools) \in Nat
           /\ DOMAIN tools = 1..Len(tools)
           /\ \A i \in DOMAIN tools : tools[i].index \in Nat
<1> DEFINE tools == Assembled(c).tools
<1>1. tools \in CallList
  BY AssembledGrows DEF Client
<1> HIDE DEF tools
<1>2. \A i \in DOMAIN tools : tools[i] \in Call
  BY <1>1 DEF CallList
<1>3. \A i \in DOMAIN tools : tools[i].index \in Nat
  BY <1>2 DEF Call
<1>4. Len(tools) \in Nat /\ DOMAIN tools = 1..Len(tools)
  BY <1>1 DEF CallList
<1> QED
  BY <1>1, <1>3, <1>4 DEF tools

\* A text, begun: nothing to be told.
LEMMA TextBegins ==
  ASSUME NEW bs \in Blocks, NEW c \in Chunks, Known(bs, c), provider # "gemini",
         NEW b \in Block, b.type = "text", b.body = <<>>
  PROVE  Known(Append(bs, b), c)
<1> DEFINE bs2 == Append(bs, b)
           a == Assembled(c)
<1>1. Bodies(bs2, "text") = Bodies(bs, "text")
  <2>1. bs \in Seq(Block) /\ Bodies(bs, "text") \in Pieces
    BY BodiesGrow DEF Blocks
  <2>2. Bodies(bs2, "text") = Bodies(bs, "text") \o b.body
    BY <2>1, BodiesGrow
  <2> QED
    BY <2>1, <2>2, PiecesGrow
<1>2. ~IsTool(b)
  BY DEF IsTool
<1>3. ToolsOf(bs2) = ToolsOf(bs)
  BY <1>2, ToolsGrow
<1>4. ~(bs2 # <<>> /\ IsTool(bs2[Len(bs2)]))
  BY <1>2, BlocksGrow
<1>5. \A i \in DOMAIN a.tools : a.tools[i].index \in Nat
  BY CallsHaveIndices
<1>6. \A i \in DOMAIN a.tools : a.tools[i].index < NextIndex(bs2)
  <2>1. \A i \in DOMAIN a.tools : a.tools[i].index < NextIndex(bs)
    BY DEF Known
  <2>2. NextIndex(bs) \in Nat /\ NextIndex(bs2) \in Nat /\ NextIndex(bs) <= NextIndex(bs2)
    BY IndexGrows, BlocksGrow
  <2> HIDE DEF a, bs2
  <2> QED
    BY <1>5, <2>1, <2>2
<1> HIDE DEF bs2
<1> QED
  BY <1>1, <1>3, <1>4, <1>6 DEF Known, LastIsLast, bs2

\* A call, begun, and told under the next index.
LEMMA CallBegins ==
  ASSUME NEW bs \in Blocks, NEW c \in Chunks, Known(bs, c), provider # "gemini",
         NEW b \in Block, IsTool(b), b.body = <<>>,
         NEW x \in ToolChunk, x.index = NextIndex(bs), x.id # None, x.args = <<>>
  PROVE  Known(Append(bs, b), Append(c, x))
<1> DEFINE bs2 == Append(bs, b)
           c2 == Append(c, x)
           a == Assembled(c)
           a2 == Assembled(c2)
           n == Len(a.tools)
<1>1. a \in Client /\ a.tools \in CallList /\ x.kind = "tool" /\ x \in Chunk
  BY AssembledGrows DEF Client, ToolChunk, Chunk
<1>2. a2.text = a.text /\ a2.tools = AddTool(a.tools, x)
  BY <1>1, AssembledGrows DEF Absorb
<1>3. n \in Nat /\ DOMAIN a.tools = 1..n /\ \A i \in DOMAIN a.tools : a.tools[i].index \in Nat
  BY CallsHaveIndices
<1>4. NextIndex(bs) \in Nat /\ NextIndex(bs2) = NextIndex(bs) + 1 /\ LastIndex(bs2) = NextIndex(bs)
  BY IndexGrows
<1>5. \A i \in DOMAIN a.tools : a.tools[i].index < NextIndex(bs)
  BY DEF Known
<1>6. \A i \in DOMAIN a.tools : a.tools[i].index # x.index
  BY <1>3, <1>4, <1>5
<1>7. /\ a2.tools \in CallList
      /\ Len(a2.tools) = n + 1
      /\ \A i \in DOMAIN a.tools : a2.tools[i] = a.tools[i]
      /\ a2.tools[n + 1].index = x.index
      /\ a2.tools[n + 1].args = <<>>
  BY <1>1, <1>2, <1>6, CallOpens
<1>8. DOMAIN a2.tools = 1..(n + 1)
  BY <1>7 DEF CallList
<1>9. Bodies(bs2, "text") = Bodies(bs, "text")
  BY BodiesGrow DEF Blocks, IsTool
<1>10. a2.text = Bodies(bs2, "text")
  BY <1>2, <1>9 DEF Known
<1>11. SameCalls(a2.tools, ToolsOf(bs2))
  <2> DEFINE calls == ToolsOf(bs)
  <2>1. calls \in Blocks /\ ToolsOf(bs2) = Append(calls, b)
    BY ToolsGrow
  <2>2. SameCalls(a.tools, calls)
    BY DEF Known
  <2> HIDE DEF calls, a, a2
  <2>3. Len(calls) = n /\ \A i \in 1..n : a.tools[i].args = calls[i].body
    BY <1>3, <2>1, <2>2 DEF SameCalls, Blocks
  <2>4. Len(Append(calls, b)) = n + 1 /\ DOMAIN Append(calls, b) = 1..(n + 1)
        /\ Append(calls, b)[n + 1] = b /\ \A i \in 1..n : Append(calls, b)[i] = calls[i]
    BY <2>1, <2>3 DEF Blocks
  <2>5. ASSUME NEW i \in 1..(n + 1) PROVE a2.tools[i].args = Append(calls, b)[i].body
    <3>1. CASE i = n + 1
      BY <1>7, <2>4, <3>1
    <3>2. CASE i # n + 1
      <4>1. i \in 1..n
        BY <1>3, <3>2
      <4> QED
        BY <1>3, <1>7, <2>3, <2>4, <4>1
    <3> QED
      BY <3>1, <3>2
  <2> QED
    BY <1>7, <2>1, <2>4, <2>5 DEF SameCalls
<1>12. \A i \in DOMAIN a2.tools :
         /\ a2.tools[i].index < NextIndex(bs2)
         /\ a2.tools[i].index = LastIndex(bs2) <=> i = Len(a2.tools)
  <2> SUFFICES ASSUME NEW i \in 1..(n + 1)
               PROVE  /\ a2.tools[i].index < NextIndex(bs2)
                      /\ a2.tools[i].index = LastIndex(bs2) <=> i = n + 1
    BY <1>7, <1>8
  <2> HIDE DEF a, a2
  <2>1. CASE i = n + 1
    BY <1>4, <1>7, <2>1
  <2>2. CASE i # n + 1
    <3>1. i \in DOMAIN a.tools
      BY <1>3, <2>2
    <3>2. a2.tools[i] = a.tools[i] /\ a.tools[i].index \in Nat /\ a.tools[i].index < NextIndex(bs)
      BY <1>3, <1>5, <1>7, <3>1
    <3> QED
      BY <1>4, <2>2, <3>2
  <2> QED
    BY <2>1, <2>2
<1>13. LastIndex(bs2) \in Opened(c2)
  <2>1. Len(c2) \in DOMAIN c2 /\ c2[Len(c2)] = x
    BY DEF Chunks
  <2> QED
    BY <1>1, <1>4, <2>1 DEF Opened
<1> HIDE DEF bs2, c2
<1> QED
  BY <1>10, <1>11, <1>12, <1>13 DEF Known, LastIsLast, bs2, c2

\* A text goes on by a piece, and so does the client's.
LEMMA TextGoesOn ==
  ASSUME NEW bs, NEW bs2, NEW c \in Chunks, Known(bs, c),
         NEW x \in TextChunk,
         Bodies(bs2, "text") = Append(Bodies(bs, "text"), x.piece),
         ToolsOf(bs2) = ToolsOf(bs),
         provider # "gemini" =>
           NextIndex(bs2) = NextIndex(bs) /\ ~(bs2 # <<>> /\ IsTool(bs2[Len(bs2)]))
  PROVE  Known(bs2, Append(c, x))
<1> DEFINE c2 == Append(c, x)
           a == Assembled(c)
           a2 == Assembled(c2)
<1>1. x.kind = "text" /\ x \in Chunk
  BY DEF TextChunk, Chunk
<1>2. a2.text = Append(a.text, x.piece) /\ a2.tools = a.tools
  BY <1>1, AssembledGrows DEF Absorb
<1> HIDE DEF c2
<1> QED
  BY <1>2 DEF Known, LastIsLast, c2

\* A text block goes on, and a text chunk says so.
LEMMA TextDelta ==
  ASSUME NEW front \in Blocks, NEW b \in Block, NEW c \in Chunks, Known(Append(front, b), c),
         b.type = "text", NEW x \in TextChunk,
         NEW b2 \in Block, b2.type = "text", b2.body = Append(b.body, x.piece),
         provider # "gemini"
  PROVE  Known(Append(front, b2), Append(c, x))
<1>1. front \in Seq(Block) /\ Bodies(front, "text") \in Pieces /\ b.body \in Pieces
  BY BodiesGrow DEF Blocks, Block
<1>2. /\ Bodies(Append(front, b), "text") = Bodies(front, "text") \o b.body
      /\ Bodies(Append(front, b2), "text") = Bodies(front, "text") \o Append(b.body, x.piece)
  <2>1. Bodies(Append(front, b), "text") = Bodies(front, "text") \o b.body
    BY <1>1, BodiesGrow
  <2>2. Bodies(Append(front, b2), "text") = Bodies(front, "text") \o b2.body
    BY <1>1, BodiesGrow
  <2> QED
    BY <2>1, <2>2
<1>3. Bodies(front, "text") \o Append(b.body, x.piece) =
      Append(Bodies(front, "text") \o b.body, x.piece)
  BY <1>1 DEF Pieces, TextChunk
<1>4. ~IsTool(b) /\ ~IsTool(b2)
  BY DEF IsTool
<1>5. ToolsOf(Append(front, b2)) = ToolsOf(Append(front, b))
  BY <1>4, ToolsGrow
<1>6. Len(Append(front, b)) = Len(Append(front, b2))
      /\ Append(front, b2)[Len(Append(front, b2))] = b2
  BY BlocksGrow
<1>7. NextIndex(Append(front, b2)) = NextIndex(Append(front, b))
  BY <1>5, <1>6 DEF NextIndex
<1> QED
  BY <1>2, <1>3, <1>4, <1>5, <1>6, <1>7, TextGoesOn

\* The arguments of the last call go on by a piece.
LEMMA ArgsDelta ==
  ASSUME NEW front \in Blocks, NEW b \in Block, NEW c \in Chunks, Known(Append(front, b), c),
         IsTool(b), NEW p \in Piece,
         NEW x \in ToolChunk, x.index = NextIndex(front), x.id = None, x.args = <<p>>,
         NEW b2 \in Block, IsTool(b2), b2.body = Append(b.body, p),
         provider # "gemini"
  PROVE  Known(Append(front, b2), Append(c, x))
<1> DEFINE bs == Append(front, b)
           bs2 == Append(front, b2)
           c2 == Append(c, x)
           a == Assembled(c)
           a2 == Assembled(c2)
           n == Len(a.tools)
           calls == ToolsOf(front)
<1>1. a \in Client /\ a.tools \in CallList /\ x.kind = "tool" /\ x \in Chunk
  BY AssembledGrows DEF Client, ToolChunk, Chunk
<1>2. a2.text = a.text /\ a2.tools = AddTool(a.tools, x)
  BY <1>1, AssembledGrows DEF Absorb
<1>3. n \in Nat /\ DOMAIN a.tools = 1..n /\ \A i \in DOMAIN a.tools : a.tools[i].index \in Nat
  BY CallsHaveIndices
<1>4. /\ NextIndex(front) \in Nat
      /\ LastIndex(bs) = NextIndex(front) /\ NextIndex(bs) = NextIndex(front) + 1
      /\ LastIndex(bs2) = NextIndex(front) /\ NextIndex(bs2) = NextIndex(front) + 1
  BY IndexGrows
<1>5. bs # <<>> /\ bs[Len(bs)] = b /\ bs2 # <<>> /\ bs2[Len(bs2)] = b2
  BY DEF Blocks
<1>6. /\ calls \in Blocks
      /\ ToolsOf(bs) = Append(calls, b)
      /\ ToolsOf(bs2) = Append(calls, b2)
  BY ToolsGrow
<1>7. /\ SameCalls(a.tools, ToolsOf(bs))
      /\ \A i \in DOMAIN a.tools : a.tools[i].index < NextIndex(bs)
      /\ \A i \in DOMAIN a.tools : a.tools[i].index = LastIndex(bs) <=> i = n
      /\ LastIndex(bs) \in Opened(c)
  BY <1>5 DEF Known, LastIsLast
<1> HIDE DEF calls, a, a2, bs, bs2
<1>8. /\ Len(calls) \in Nat
      /\ n = Len(calls) + 1
      /\ \A i \in 1..Len(calls) : a.tools[i].args = calls[i].body
      /\ a.tools[n].args = b.body
  <2>1. Len(calls) \in Nat /\ DOMAIN Append(calls, b) = 1..(Len(calls) + 1)
        /\ Len(Append(calls, b)) = Len(calls) + 1
        /\ Append(calls, b)[Len(calls) + 1] = b
        /\ \A i \in 1..Len(calls) : Append(calls, b)[i] = calls[i]
    BY <1>6 DEF Blocks
  <2> QED
    BY <1>6, <1>7, <2>1 DEF SameCalls
<1>9. n \in DOMAIN a.tools /\ \A i \in DOMAIN a.tools : a.tools[i].index = x.index <=> i = n
  BY <1>3, <1>4, <1>7, <1>8
<1>10. /\ a2.tools \in CallList
       /\ Len(a2.tools) = n
       /\ \A i \in DOMAIN a.tools : i # n => a2.tools[i] = a.tools[i]
       /\ a2.tools[n].index = x.index
       /\ a2.tools[n].args = a.tools[n].args \o x.args
  <2> DEFINE t == a.tools
             new == AddTool(t, x)
  <2>1. t \in CallList /\ n \in DOMAIN t /\ \A i \in DOMAIN t : t[i].index = x.index <=> i = n
    BY <1>1, <1>9
  <2>2. n = Len(t) /\ a2.tools = new
    BY <1>2 DEF n
  <2> HIDE DEF t, n
  <2>3. /\ new \in CallList
        /\ Len(new) = Len(t)
        /\ \A i \in DOMAIN t : i # n => new[i] = t[i]
        /\ new[n].index = x.index
        /\ new[n].args = t[n].args \o x.args
    BY <2>1, CallGoesOn
  <2> QED
    BY <2>2, <2>3 DEF t
<1>11. DOMAIN a2.tools = 1..n
  BY <1>10 DEF CallList
<1>12. a2.tools[n].args = b2.body
  <2>1. b.body \in Pieces
    BY DEF Block
  <2> QED
    BY <1>8, <1>10, <2>1, PiecesGrow
<1>13. a2.text = Bodies(bs2, "text")
  <2>1. b.type # "text" /\ b2.type # "text" /\ front \in Seq(Block)
    BY DEF IsTool, Blocks
  <2>2. Bodies(bs, "text") = Bodies(front, "text") /\ Bodies(bs2, "text") = Bodies(front, "text")
    BY <2>1, BodiesGrow DEF bs, bs2
  <2> QED
    BY <1>2, <2>2 DEF Known, bs, a
<1>14. SameCalls(a2.tools, ToolsOf(bs2))
  <2>1. Len(Append(calls, b2)) = n /\ DOMAIN Append(calls, b2) = 1..n
        /\ Append(calls, b2)[n] = b2
        /\ \A i \in 1..Len(calls) : Append(calls, b2)[i] = calls[i]
    BY <1>6, <1>8 DEF Blocks
  <2>2. ASSUME NEW i \in 1..n PROVE a2.tools[i].args = Append(calls, b2)[i].body
    <3>1. CASE i = n
      BY <1>12, <2>1, <3>1
    <3>2. CASE i # n
      <4>1. i \in 1..Len(calls) /\ i \in DOMAIN a.tools
        BY <1>3, <1>8, <3>2
      <4> QED
        BY <1>8, <1>10, <2>1, <3>2, <4>1
    <3> QED
      BY <3>1, <3>2
  <2> QED
    BY <1>6, <1>10, <2>1, <2>2 DEF SameCalls
<1>15. \A i \in DOMAIN a2.tools :
         /\ a2.tools[i].index < NextIndex(bs2)
         /\ a2.tools[i].index = LastIndex(bs2) <=> i = Len(a2.tools)
  <2> SUFFICES ASSUME NEW i \in 1..n
               PROVE  /\ a2.tools[i].index < NextIndex(bs2)
                      /\ a2.tools[i].index = LastIndex(bs2) <=> i = n
    BY <1>10, <1>11
  <2>1. CASE i = n
    BY <1>4, <1>10, <2>1
  <2>2. CASE i # n
    BY <1>3, <1>4, <1>7, <1>10, <2>2
  <2> QED
    BY <2>1, <2>2
<1>16. LastIndex(bs2) \in Opened(c2)
  BY <1>1, <1>4, <1>7, OpenedStays
<1> HIDE DEF c2
<1> QED
  BY <1>13, <1>14, <1>15, <1>16 DEF Known, LastIsLast, a2, bs2, c2

\* A call under index 0 is the only one, or joins it.
LEMMA OneCallStays ==
  ASSUME NEW tools \in CallList, OneCall(tools), NEW x \in ToolChunk, x.index = 0
  PROVE  OneCall(AddTool(tools, x))
<1> DEFINE new == AddTool(tools, x)
<1>1. Len(tools) \in {0, 1} /\ DOMAIN tools = 1..Len(tools)
  <2>1. Len(tools) \in Nat /\ DOMAIN tools = 1..Len(tools)
    BY DEF CallList
  <2>2. Len(tools) <= 1
    BY DEF OneCall
  <2> QED
    BY <2>1, <2>2
<1>2. CASE Len(tools) = 0
  <2>1. \A i \in DOMAIN tools : tools[i].index # x.index
    BY <1>1, <1>2
  <2>2. new \in CallList /\ Len(new) = 1 /\ new[1].index = 0
    <3>1. new \in CallList /\ Len(new) = Len(tools) + 1 /\ new[Len(tools) + 1].index = x.index
      BY <2>1, CallOpens
    <3> HIDE DEF new
    <3> QED
      BY <1>2, <3>1
  <2> HIDE DEF new
  <2> QED
    BY <2>2 DEF OneCall, CallList, new
<1>3. CASE Len(tools) = 1
  <2>1. 1 \in DOMAIN tools /\ \A i \in DOMAIN tools : tools[i].index = x.index <=> i = 1
    BY <1>1, <1>3 DEF OneCall
  <2>2. new \in CallList /\ Len(new) = 1 /\ new[1].index = 0
    BY <1>3, <2>1, CallGoesOn
  <2> HIDE DEF new
  <2> QED
    BY <2>2 DEF OneCall, CallList, new
<1> QED
  BY <1>1, <1>2, <1>3

\* Gemini: a whole block at a time; only a first call is known to the client.
LEMMA PartIsKnown ==
  ASSUME provider = "gemini",
         NEW bs \in Blocks, NEW c \in Chunks, Known(bs, c), NEW p \in Piece,
         NEW b \in Block, b.body = <<p>>,
         NEW x \in Chunk,
         b.type = "text" => x \in TextChunk /\ x.piece = p,
         IsTool(b) => x \in ToolChunk /\ x.args = <<p>> /\ x.index = 0
  PROVE  Known(Append(bs, b), Append(c, x))
<1> DEFINE bs2 == Append(bs, b)
           c2 == Append(c, x)
           a == Assembled(c)
           a2 == Assembled(c2)
<1>0. bs \in Seq(Block) /\ Bodies(bs, "text") \in Pieces
  BY BodiesGrow DEF Blocks
<1>1. CASE b.type = "text"
  <2>1. ~IsTool(b)
    BY <1>1 DEF IsTool
  <2>2. ToolsOf(bs2) = ToolsOf(bs)
    BY <2>1, ToolsGrow
  <2>3. Bodies(bs2, "text") = Append(Bodies(bs, "text"), x.piece)
    <3>1. Bodies(bs2, "text") = Bodies(bs, "text") \o b.body
      BY <1>0, <1>1, BodiesGrow
    <3> QED
      BY <1>0, <1>1, <3>1, PiecesGrow
  <2> QED
    BY <1>1, <2>2, <2>3, TextGoesOn
<1>2. CASE IsTool(b)
  <2>1. x.kind = "tool" /\ x \in ToolChunk
    BY <1>2 DEF ToolChunk
  <2>2. a2.text = a.text /\ a2.tools = AddTool(a.tools, x)
    BY <2>1, AssembledGrows DEF Absorb
  <2>3. Bodies(bs2, "text") = Bodies(bs, "text")
    BY <1>0, <1>2, BodiesGrow DEF IsTool
  <2>4. ToolsOf(bs) \in Blocks /\ ToolsOf(bs2) = Append(ToolsOf(bs), b)
    BY <1>2, ToolsGrow
  <2> HIDE DEF a, a2, bs2, c2
  <2>5. ASSUME Len(ToolsOf(bs2)) <= 1 PROVE SameCalls(a2.tools, ToolsOf(bs2))
    <3>1. Len(ToolsOf(bs)) = 0 /\ Len(ToolsOf(bs2)) = 1 /\ ToolsOf(bs2)[1] = b
          /\ DOMAIN ToolsOf(bs2) = 1..1
      BY <2>4, <2>5 DEF Blocks
    <3>2. SameCalls(a.tools, ToolsOf(bs))
      BY <3>1 DEF Known, a
    <3>3. Len(a.tools) = 0 /\ a.tools \in CallList
      BY <3>1, <3>2, CallsHaveIndices DEF SameCalls, a
    <3>4. \A i \in DOMAIN a.tools : a.tools[i].index # x.index
      BY <3>3 DEF CallList
    <3>5. Len(a2.tools) = 1 /\ a2.tools[1].args = x.args
      <4> DEFINE t == a.tools
                 new == AddTool(t, x)
      <4>1. t \in CallList /\ \A i \in DOMAIN t : t[i].index # x.index
        BY <3>3, <3>4
      <4>2. Len(t) = 0 /\ a2.tools = new
        BY <2>2, <3>3
      <4> HIDE DEF t
      <4>3. Len(new) = Len(t) + 1 /\ new[Len(t) + 1].args = x.args
        BY <2>1, <4>1, CallOpens
      <4> QED
        BY <4>2, <4>3
    <3> QED
      BY <1>2, <3>1, <3>5 DEF SameCalls
  <2>6. a2.text = Bodies(bs2, "text")
    BY <2>2, <2>3 DEF Known, a
  <2>7. OneCall(a2.tools)
    <3>1. OneCall(a.tools) /\ a.tools \in CallList
      BY CallsHaveIndices DEF Known, a
    <3> QED
      BY <1>2, <2>1, <2>2, <3>1, OneCallStays
  <2> QED
    BY <2>5, <2>6, <2>7 DEF Known, a2, bs2, c2
<1> QED
  BY <1>1, <1>2 DEF Block, BlockTypes, IsTool

-----------------------------------------------------------------------------
(* The chunks that are yielded, and what they do to the blocks.            *)

\* The chunks that carry no content.
LEMMA ChunksAreChunks ==
  /\ Role \in Chunk /\ Role.kind = "role"
  /\ Error \in Chunk /\ Error.kind = "error"
  /\ \A r \in Reasons :
       Finish(r) \in Chunk /\ Finish(r).kind = "finish" /\ Finish(r).finish = r
  /\ \A n \in Nat : Usage(n) \in Chunk /\ Usage(n).kind = "usage" /\ Usage(n).count = n
<1>1. Role \in Plain /\ Role.kind = "role"
  BY DEF Role, Plain
<1>2. Error \in Plain /\ Error.kind = "error"
  BY DEF Error, Plain
<1>3. \A r \in Reasons :
        Finish(r) \in FinishChunk /\ Finish(r).kind = "finish" /\ Finish(r).finish = r
  BY DEF Finish, FinishChunk
<1>4. \A n \in Nat : Usage(n) \in UsageChunk /\ Usage(n).kind = "usage" /\ Usage(n).count = n
  BY DEF Usage, UsageChunk
<1> QED
  BY <1>1, <1>2, <1>3, <1>4, Zenon DEF Chunk

\* The chunks that carry content.
LEMMA ContentIsChunks ==
  /\ \A p \in Piece, r \in Reasons :
       LET x == Text(p, r) IN
         x \in TextChunk /\ x \in Chunk /\ x.kind = "text" /\ x.piece = p
  /\ \A n \in Nat, id \in Nat \cup {None}, a \in Pieces, r \in Reasons :
       LET x == Tool(n, id, a, r) IN
         /\ x \in ToolChunk /\ x \in Chunk /\ x.kind = "tool"
         /\ x.index = n /\ x.id = id /\ x.args = a
<1>1. \A p \in Piece, r \in Reasons :
        LET x == Text(p, r) IN x \in TextChunk /\ x.kind = "text" /\ x.piece = p
  BY DEF Text, TextChunk
<1>2. \A n \in Nat, id \in Nat \cup {None}, a \in Pieces, r \in Reasons :
        LET x == Tool(n, id, a, r) IN
          x \in ToolChunk /\ x.kind = "tool" /\ x.index = n /\ x.id = id /\ x.args = a
  BY DEF Tool, ToolChunk
<1>3. TextChunk \subseteq Chunk /\ ToolChunk \subseteq Chunk
  BY DEF Chunk
<1> QED
  BY <1>1, <1>2, <1>3

\* ToolArgsFollowStart, of any chunks: arguments follow the call they are of.
ArgsFollow(chunks) ==
  \A i \in DOMAIN chunks :
    (chunks[i].kind = "tool" /\ chunks[i].id = None) =>
      chunks[i].index \in Opened(SubSeq(chunks, 1, i - 1))

\* One more chunk follows its call if its call was opened.
LEMMA MoreFollows ==
  ASSUME NEW c \in Chunks, ArgsFollow(c),
         NEW x \in Chunk, (x.kind = "tool" /\ x.id = None) => x.index \in Opened(c)
  PROVE  ArgsFollow(Append(c, x))
<1> DEFINE c2 == Append(c, x)
<1>1. SUFFICES ASSUME NEW i \in DOMAIN c2, c2[i].kind = "tool", c2[i].id = None
               PROVE  c2[i].index \in Opened(SubSeq(c2, 1, i - 1))
  BY DEF ArgsFollow
<1>2. CASE i = Len(c) + 1
  <2>1. c2[i] = x /\ SubSeq(c2, 1, i - 1) = c
    BY <1>2 DEF Chunks
  <2> HIDE DEF c2
  <2> QED
    BY <1>1, <2>1
<1>3. CASE i # Len(c) + 1
  <2>1. i \in DOMAIN c /\ c2[i] = c[i] /\ SubSeq(c2, 1, i - 1) = SubSeq(c, 1, i - 1)
    BY <1>3 DEF Chunks
  <2> HIDE DEF c2
  <2> QED
    BY <1>1, <2>1 DEF ArgsFollow
<1> QED
  BY <1>2, <1>3

\* Sequences of chunks, longer.
LEMMA ChunksGrow ==
  /\ <<>> \in Chunks
  /\ \A c \in Chunks :
       /\ c \o <<>> = c
       /\ \A x \in Chunk : Append(c, x) \in Chunks /\ c \o <<x>> = Append(c, x)
       /\ \A x, y \in Chunk : c \o (<<x>> \o <<y>>) = Append(Append(c, x), y)
       /\ \A x \in Chunk : c \o (<<x>> \o <<>>) = Append(c, x)
BY DEF Chunks

\* An event's chunks arrive, or the answer is garbled.
LEMMA YieldNone ==
  ASSUME out \in Chunks, garbled \in BOOLEAN, Yield(<<>>)
  PROVE  /\ out' \in Chunks /\ garbled' \in BOOLEAN /\ out' = out
         /\ ~garbled' => ~garbled
BY ChunksGrow DEF Yield

\* An event of one chunk.
LEMMA YieldOne ==
  ASSUME out \in Chunks, garbled \in BOOLEAN, NEW x \in Chunk, Yield(<<x>>)
  PROVE  /\ out' \in Chunks /\ garbled' \in BOOLEAN /\ out' \in {out, Append(out, x)}
         /\ ~garbled' => ~garbled /\ out' = Append(out, x)
<1>1. out \o <<x>> = Append(out, x) /\ Append(out, x) \in Chunks
  BY ChunksGrow
<1> QED
  BY <1>1, Zenon DEF Yield

\* The same, joined to none.
LEMMA YieldOneMore ==
  ASSUME out \in Chunks, garbled \in BOOLEAN, NEW x \in Chunk, Yield(<<x>> \o <<>>)
  PROVE  /\ out' \in Chunks /\ garbled' \in BOOLEAN /\ out' \in {out, Append(out, x)}
         /\ ~garbled' => ~garbled /\ out' = Append(out, x)
<1>1. out \o (<<x>> \o <<>>) = Append(out, x) /\ Append(out, x) \in Chunks
  BY ChunksGrow
<1> QED
  BY <1>1, Zenon DEF Yield

\* An event of two.
LEMMA YieldTwo ==
  ASSUME out \in Chunks, garbled \in BOOLEAN, NEW x \in Chunk, NEW y \in Chunk,
         Yield(<<x>> \o <<y>>)
  PROVE  /\ out' \in Chunks /\ garbled' \in BOOLEAN
         /\ out' \in {out, Append(Append(out, x), y)}
         /\ ~garbled' => ~garbled /\ out' = Append(Append(out, x), y)
<1>1. /\ out \o (<<x>> \o <<y>>) = Append(Append(out, x), y)
      /\ Append(Append(out, x), y) \in Chunks
  BY ChunksGrow
<1> QED
  BY <1>1, Zenon DEF Yield

\* What a chunk leaves alone.
LEMMA UsageStays ==
  ASSUME NEW c \in Chunks, NEW x \in Chunk, x.kind # "usage"
  PROVE  Assembled(Append(c, x)).usage = Assembled(c).usage
BY AssembledGrows DEF Absorb

\* A usage chunk's count is the client's.
LEMMA UsageCounts ==
  ASSUME NEW c \in Chunks, NEW x \in Chunk, x.kind = "usage"
  PROVE  Assembled(Append(c, x)).usage = x.count
BY AssembledGrows DEF Absorb

\* These chunks give no finish reason.
LEMMA FinishStays ==
  ASSUME NEW c \in Chunks, NEW x \in Chunk, x.kind \in {"role", "usage", "error"}
  PROVE  Assembled(Append(c, x)).finish = Assembled(c).finish
BY AssembledGrows DEF Absorb, NewFinish

\* A finish chunk's reason is the client's.
LEMMA FinishCounts ==
  ASSUME NEW c \in Chunks, NEW x \in Chunk, x.kind = "finish"
  PROVE  Assembled(Append(c, x)).finish = x.finish
BY AssembledGrows DEF Absorb, NewFinish

\* One more block adds the tokens of its body.
LEMMA TokensGrow ==
  /\ TokensOf(<<>>) = 0
  /\ \A bs \in Blocks : TokensOf(bs) \in Nat
  /\ \A bs \in Blocks, b \in Block : TokensOf(Append(bs, b)) = TokensOf(bs) + Len(b.body)
<1>1. TokensOf(<<>>) = 0
  BY BodiesGrow DEF TokensOf
<1>2. ASSUME NEW bs \in Blocks PROVE TokensOf(bs) \in Nat
  BY BodiesGrow, PiecesGrow DEF TokensOf, Blocks
<1>3. ASSUME NEW bs \in Blocks, NEW b \in Block
      PROVE  TokensOf(Append(bs, b)) = TokensOf(bs) + Len(b.body)
  <2> DEFINE t == Bodies(bs, "text")
             u == Bodies(bs, "tool_use")
             bs2 == Append(bs, b)
             t2 == Bodies(bs2, "text")
             u2 == Bodies(bs2, "tool_use")
  <2>1. bs \in Seq(Block) /\ t \in Pieces /\ u \in Pieces
    BY BodiesGrow DEF Blocks
  <2> SUFFICES TokensOf(bs2) = TokensOf(bs) + Len(b.body)
    OBVIOUS
  <2>2. t2 = (IF b.type = "text" THEN t \o b.body ELSE t)
        /\ u2 = (IF b.type = "tool_use" THEN u \o b.body ELSE u)
    BY <2>1, BodiesGrow
  <2>3. b.body \in Pieces /\ (b.type = "text" \/ b.type = "tool_use")
    BY DEF Block, BlockTypes
  <2>4. TokensOf(bs) = Len(t) + Len(u) /\ TokensOf(bs2) = Len(t2) + Len(u2)
    BY DEF TokensOf
  <2> HIDE DEF t, u, t2, u2, bs2
  <2>5. /\ Len(t) \in Nat /\ Len(u) \in Nat /\ Len(b.body) \in Nat
        /\ Len(t \o b.body) = Len(t) + Len(b.body)
        /\ Len(u \o b.body) = Len(u) + Len(b.body)
    BY <2>1, <2>3, PiecesGrow
  <2>6. CASE b.type = "text"
    <3>1. t2 = t \o b.body /\ u2 = u
      BY <2>2, <2>6
    <3>2. Len(t2) = Len(t) + Len(b.body) /\ Len(u2) = Len(u)
      BY <2>5, <3>1
    <3>3. \A i, j, k \in Nat : (i + k) + j = (i + j) + k
      OBVIOUS
    <3>4. TokensOf(bs2) = Len(t2) + Len(u2)
      BY <2>4
    <3>5. TokensOf(bs2) = (Len(t) + Len(b.body)) + Len(u)
      BY <3>2, <3>4
    <3>6. (Len(t) + Len(b.body)) + Len(u) = (Len(t) + Len(u)) + Len(b.body)
      BY <2>5, <3>3
    <3>7. TokensOf(bs) = Len(t) + Len(u)
      BY <2>4
    <3> QED
      BY <3>5, <3>6, <3>7
  <2>7. CASE b.type = "tool_use"
    <3>1. t2 = t /\ u2 = u \o b.body
      BY <2>2, <2>7
    <3>2. Len(t2) = Len(t) /\ Len(u2) = Len(u) + Len(b.body)
      BY <2>5, <3>1
    <3>3. \A i, j, k \in Nat : i + (j + k) = (i + j) + k
      OBVIOUS
    <3>4. TokensOf(bs2) = Len(t2) + Len(u2)
      BY <2>4
    <3>5. TokensOf(bs2) = Len(t) + (Len(u) + Len(b.body))
      BY <3>2, <3>4
    <3>6. Len(t) + (Len(u) + Len(b.body)) = (Len(t) + Len(u)) + Len(b.body)
      BY <2>5, <3>3
    <3>7. TokensOf(bs) = Len(t) + Len(u)
      BY <2>4
    <3> QED
      BY <3>5, <3>6, <3>7
  <2> QED
    BY <2>3, <2>6, <2>7
<1> QED
  BY <1>1, <1>2, <1>3

-----------------------------------------------------------------------------
(* The types, and what each event tells the client.                        *)

StreamType ==
  /\ keyed \in BOOLEAN
  /\ provider \in Providers
  /\ reports \in BOOLEAN
  /\ pc \in {"opening", "streaming", "stopped", "told", "closed", "gone"}
  /\ pc = "opening" => out = <<>>
  /\ blocks \in Blocks
  /\ stop \in StopReasons \cup {None}
  /\ tokens \in Nat
  /\ garbled \in BOOLEAN
  /\ out \in Chunks
  /\ metered \in Records \cup {None}
  /\ metered # None => pc = "closed"

\* An event keeps the types of the answer, and what the client knows.
Tells ==
  /\ blocks' \in Blocks /\ out' \in Chunks /\ garbled' \in BOOLEAN
  /\ ~garbled' => ~garbled /\ (Known(blocks, out) => Known(blocks', out'))
  /\ provider = "anthropic" /\ ArgsFollow(out) => ArgsFollow(out')
KeepsUsage == ~garbled' => Assembled(out').usage = Assembled(out).usage

\* Begin tells the role.
LEMMA BeginTells ==
  ASSUME StreamType, Begin
  PROVE  Tells /\ KeepsUsage
<1>1. out = <<>> /\ out \in Chunks /\ blocks \in Blocks /\ garbled \in BOOLEAN /\ blocks' = blocks
  BY DEF StreamType, Begin, answerVars
<1>2. Role \in Chunk /\ Role.kind = "role" /\ <<Role>> = Append(out, Role)
  <2>1. <<>> \o <<Role>> = <<Role>>
    OBVIOUS
  <2> QED
    BY <1>1, <2>1, ChunksAreChunks, ChunksGrow
<1>3. /\ out' \in Chunks /\ garbled' \in BOOLEAN /\ out' \in {out, Append(out, Role)}
      /\ ~garbled' => ~garbled /\ out' = Append(out, Role)
  <2>1. CASE provider = "gemini"
    BY <1>1, <1>2, <2>1, ChunksGrow DEF Begin
  <2>2. CASE provider # "gemini"
    BY <1>1, <1>2, <2>2, YieldOne DEF Begin
  <2> QED
    BY <2>1, <2>2
<1>4. Known(blocks, out) => Known(blocks, Append(out, Role))
  BY <1>1, <1>2, PlainIsKnown
<1>5. Assembled(Append(out, Role)).usage = Assembled(out).usage
  BY <1>1, <1>2, UsageStays
<1>6. ArgsFollow(out) => ArgsFollow(Append(out, Role))
  BY <1>1, <1>2, MoreFollows
<1> QED
  BY <1>1, <1>3, <1>4, <1>5, <1>6, Zenon DEF Tells, KeepsUsage

\* A block is begun: a call is opened under the next index.
LEMMA StartBlockTells ==
  ASSUME StreamType, NEW type \in BlockTypes, StartBlock(type)
  PROVE  Tells /\ KeepsUsage
<1> DEFINE n == Len(blocks) + 1
           b == [type |-> type, body |-> <<>>]
           x == Tool(IndexOf(n), n, <<>>, None)
<1>1. out \in Chunks /\ blocks \in Blocks /\ garbled \in BOOLEAN /\ provider # "gemini"
      /\ blocks' = Append(blocks, b)
      /\ Yield(IF type = "tool_use" THEN <<x>> ELSE <<>>)
  BY DEF StreamType, StartBlock
<1>2. <<>> \in Pieces
  BY PiecesGrow
<1>3. b \in Block /\ b.type = type /\ b.body = <<>>
  BY <1>2 DEF Block
<1>4. IndexOf(n) = NextIndex(blocks) /\ NextIndex(blocks) \in Nat /\ n \in Nat
  <2>1. n \in Nat /\ n - 1 = Len(blocks) /\ SubSeq(blocks, 1, n - 1) = blocks
    BY <1>1 DEF Blocks
  <2> HIDE DEF n
  <2>2. IndexOf(n) = NextIndex(blocks)
    BY <2>1 DEF IndexOf, NextIndex
  <2> QED
    BY <1>1, <1>3, <2>1, <2>2, IndexGrows
<1>5. None \in Reasons /\ n \in Nat \cup {None} /\ n # None
  BY <1>4, ConstantsAssumption DEF Reasons
<1>6. x \in ToolChunk /\ x \in Chunk /\ x.kind = "tool" /\ x.index = NextIndex(blocks)
      /\ x.id # None /\ x.args = <<>>
  <2> HIDE DEF n
  <2>1. /\ x \in ToolChunk /\ x \in Chunk /\ x.kind = "tool"
        /\ x.index = IndexOf(n) /\ x.id = n /\ x.args = <<>>
    BY <1>2, <1>4, <1>5, ContentIsChunks
  <2> QED
    BY <1>4, <1>5, <2>1
<1> HIDE DEF x, b, n
<1>7. Append(blocks, b) \in Blocks
  BY <1>1, <1>3, BlocksGrow
<1>8. CASE type = "text"
  <2>1. Yield(<<>>)
    BY <1>1, <1>8
  <2>2. /\ out' \in Chunks /\ garbled' \in BOOLEAN /\ out' = out
        /\ ~garbled' => ~garbled
    BY <1>1, <2>1, YieldNone
  <2>3. Known(blocks, out) => Known(Append(blocks, b), out)
    BY <1>1, <1>3, <1>8, TextBegins
  <2> QED
    BY <1>1, <1>7, <2>2, <2>3, Zenon DEF Tells, KeepsUsage
<1>9. CASE type = "tool_use"
  <2>1. Yield(<<x>>)
    BY <1>1, <1>9
  <2>2. /\ out' \in Chunks /\ garbled' \in BOOLEAN /\ out' \in {out, Append(out, x)}
        /\ ~garbled' => ~garbled /\ out' = Append(out, x)
    BY <1>1, <1>6, <2>1, YieldOne
  <2>3. IsTool(b)
    BY <1>3, <1>9 DEF IsTool
  <2>4. Known(blocks, out) => Known(Append(blocks, b), Append(out, x))
    BY <1>1, <1>3, <1>6, <2>3, CallBegins
  <2>5. Assembled(Append(out, x)).usage = Assembled(out).usage
    BY <1>1, <1>6, UsageStays
  <2>6. ArgsFollow(out) => ArgsFollow(Append(out, x))
    BY <1>1, <1>6, MoreFollows
  <2> QED
    BY <1>1, <1>7, <2>2, <2>4, <2>5, <2>6, Zenon DEF Tells, KeepsUsage
<1> QED
  BY <1>8, <1>9 DEF BlockTypes

\* A block with another body.
LEMMA NewBody ==
  ASSUME NEW b \in Block, NEW v
  PROVE  [b EXCEPT !.body = v] = [type |-> b.type, body |-> v]
BY DEF Block

\* The last block, taken off and put back with a longer body.
LEMMA LastBlock ==
  ASSUME NEW bs \in Blocks, Len(bs) > 0, NEW p \in Piece
  PROVE  LET n == Len(bs)
             b2 == [type |-> bs[n].type, body |-> Append(bs[n].body, p)] IN
           \E front \in Blocks :
             /\ bs = Append(front, bs[n])
             /\ bs[n] \in Block /\ b2 \in Block
             /\ [bs EXCEPT ![n].body = Append(@, p)] = Append(front, b2)
             /\ front = SubSeq(bs, 1, n - 1)
             /\ Len(front) = n - 1
<1> DEFINE n == Len(bs)
           b2 == [type |-> bs[n].type, body |-> Append(bs[n].body, p)]
           front == SubSeq(bs, 1, n - 1)
           new == [bs EXCEPT ![n].body = Append(@, p)]
<1>1. n \in Nat /\ n \in DOMAIN bs /\ DOMAIN bs = 1..n /\ bs[n] \in Block
  BY DEF Blocks
<1>2. bs[n].body \in Pieces /\ bs[n].type \in BlockTypes
  BY <1>1 DEF Block
<1>3. Append(bs[n].body, p) \in Pieces
  BY <1>2, PiecesGrow
<1>4. b2 \in Block
  BY <1>2, <1>3 DEF Block
<1>5. [bs[n] EXCEPT !.body = Append(@, p)] = b2
  BY <1>1, NewBody
<1>6. new = [bs EXCEPT ![n] = b2]
  BY <1>5, Zenon
<1>7. front \in Blocks /\ Len(front) = n - 1 /\ bs = Append(front, bs[n])
  BY <1>1 DEF Blocks
<1>8. new = Append(front, b2)
  <2> HIDE DEF b2, new
  <2>1. [bs EXCEPT ![n] = b2] = Append(front, b2)
    BY <1>1, <1>4 DEF Blocks
  <2> QED
    BY <1>6, <2>1
<1> QED
  BY <1>1, <1>4, <1>7, <1>8

\* The last block goes on, in the client's text or in its last call.
LEMMA DeltaTells ==
  ASSUME StreamType, Delta
  PROVE  Tells /\ KeepsUsage
<1> DEFINE n == Len(blocks)
           piece == <<n, Len(blocks[n].body) + 1>>
           b == blocks[n]
           b2 == [type |-> b.type, body |-> Append(b.body, piece)]
           x == Text(piece, None)
           y == Tool(IndexOf(n), None, <<piece>>, None)
<1>1. out \in Chunks /\ blocks \in Blocks /\ garbled \in BOOLEAN /\ provider # "gemini" /\ n > 0
      /\ blocks' = [blocks EXCEPT ![n].body = Append(@, piece)]
      /\ Yield(PieceChunk(n, piece))
  BY DEF StreamType, Delta
<1>2. n \in Nat /\ b \in Block
  BY <1>1 DEF Blocks
<1>3. piece \in Piece
  BY <1>2 DEF Block, Pieces, Piece
<1> HIDE DEF piece
<1>4. PICK front \in Blocks :
        /\ blocks = Append(front, b)
        /\ b \in Block /\ b2 \in Block
        /\ blocks' = Append(front, b2)
        /\ front = SubSeq(blocks, 1, n - 1)
        /\ Len(front) = n - 1
  BY <1>1, <1>3, LastBlock
<1>5. IndexOf(n) = NextIndex(front) /\ NextIndex(front) \in Nat
  <2> HIDE DEF n
  <2>1. IndexOf(n) = NextIndex(front)
    BY <1>4 DEF IndexOf, NextIndex
  <2> QED
    BY <1>4, <2>1, IndexGrows
<1>6. b2.type = b.type /\ b2.body = Append(b.body, piece)
  OBVIOUS
<1>7. None \in Reasons /\ None \in Nat \cup {None} /\ <<piece>> \in Pieces
  BY <1>3 DEF Reasons, Pieces
<1>8. x \in TextChunk /\ x \in Chunk /\ x.kind = "text" /\ x.piece = piece
  BY <1>3, <1>7, ContentIsChunks
<1>9. /\ y \in ToolChunk /\ y \in Chunk /\ y.kind = "tool"
      /\ y.index = NextIndex(front) /\ y.id = None /\ y.args = <<piece>>
  <2> HIDE DEF n
  <2> QED
    BY <1>5, <1>7, ContentIsChunks
<1> HIDE DEF x, y, b2, b
<1>10. blocks' \in Blocks
  BY <1>4, BlocksGrow
<1>11. CASE b.type = "text"
  <2>1. Yield(<<x>>)
    BY <1>1, <1>11 DEF PieceChunk, x, b
  <2>2. /\ out' \in Chunks /\ garbled' \in BOOLEAN /\ out' \in {out, Append(out, x)}
        /\ ~garbled' => ~garbled /\ out' = Append(out, x)
    BY <1>1, <1>8, <2>1, YieldOne
  <2>3. Known(blocks, out) => Known(blocks', Append(out, x))
    <3>1. Known(Append(front, b), out) => Known(Append(front, b2), Append(out, x))
      BY <1>1, <1>4, <1>6, <1>8, <1>11, TextDelta
    <3> QED
      BY <1>4, <3>1, Zenon
  <2>4. Assembled(Append(out, x)).usage = Assembled(out).usage
    BY <1>1, <1>8, UsageStays
  <2>5. ArgsFollow(out) => ArgsFollow(Append(out, x))
    BY <1>1, <1>8, MoreFollows
  <2> QED
    BY <1>10, <2>2, <2>3, <2>4, <2>5, Zenon DEF Tells, KeepsUsage
<1>12. CASE b.type # "text"
  <2>1. IsTool(b) /\ IsTool(b2)
    BY <1>2, <1>6, <1>12 DEF IsTool, Block, BlockTypes
  <2>2. Yield(Args(IndexOf(n), piece))
    BY <1>1, <1>12 DEF PieceChunk, b
  <2>3. CASE Yield(<<y>>) /\ (provider = "openai" \/ IndexOf(n) \in Opened(out))
    <3>1. /\ out' \in Chunks /\ garbled' \in BOOLEAN /\ out' \in {out, Append(out, y)}
          /\ ~garbled' => ~garbled /\ out' = Append(out, y)
      BY <1>1, <1>9, <2>3, YieldOne
    <3>2. Known(blocks, out) => Known(blocks', Append(out, y))
      <4>1. Known(Append(front, b), out) => Known(Append(front, b2), Append(out, y))
        BY <1>1, <1>3, <1>4, <1>6, <1>9, <2>1, ArgsDelta
      <4> QED
        BY <1>4, <4>1, Zenon
    <3>3. Assembled(Append(out, y)).usage = Assembled(out).usage
      BY <1>1, <1>9, UsageStays
    <3>4. provider = "anthropic" /\ ArgsFollow(out) => ArgsFollow(Append(out, y))
      BY <1>1, <1>5, <1>9, <2>3, MoreFollows
    <3> QED
      BY <1>10, <3>1, <3>2, <3>3, <3>4, Zenon DEF Tells, KeepsUsage
  <2>4. CASE ~(provider = "openai" \/ IndexOf(n) \in Opened(out))
    <3>1. Yield(<<>>) /\ IndexOf(n) \notin Opened(out)
      BY <2>2, <2>4 DEF Args
    <3>2. /\ out' \in Chunks /\ garbled' \in BOOLEAN /\ out' = out
          /\ ~garbled' => ~garbled
      BY <1>1, <3>1, YieldNone
    <3>3. ~Known(blocks, out)
      <4>1. LastIndex(blocks) = NextIndex(front)
        BY <1>4, IndexGrows
      <4>2. blocks # <<>> /\ IsTool(blocks[Len(blocks)])
        BY <1>1, <2>1 DEF Blocks, b
      <4> QED
        BY <1>1, <1>5, <3>1, <4>1, <4>2 DEF Known, LastIsLast
    <3> QED
      BY <1>10, <3>2, <3>3, Zenon DEF Tells, KeepsUsage
  <2> QED
    BY <2>2, <2>3, <2>4 DEF Args, y
<1> QED
  BY <1>11, <1>12

\* A function on 1..n, appended, is its values, appended one by one.
LEMMA OneMore ==
  ASSUME NEW S, NEW c \in Seq(S), NEW f, f = [i \in 1..1 |-> f[i]], f[1] \in S
  PROVE  c \o f = Append(c, f[1])
<1>1. f \in Seq(S) /\ Len(f) = 1
  OBVIOUS
<1> QED
  BY <1>1

\* The same for two values.
LEMMA TwoMore ==
  ASSUME NEW S, NEW c \in Seq(S), NEW f, f = [i \in 1..2 |-> f[i]], f[1] \in S, f[2] \in S
  PROVE  c \o f = Append(Append(c, f[1]), f[2])
<1>1. f \in [1..2 -> S]
  OBVIOUS
<1>2. f \in Seq(S) /\ Len(f) = 2
  BY <1>1
<1> QED
  BY <1>2

\* And for none.
LEMMA NoneMore ==
  ASSUME NEW S, NEW c \in Seq(S), NEW f, f = [i \in {} |-> f[i]]
  PROVE  c \o f = c
<1>1. f = <<>>
  OBVIOUS
<1> QED
  BY <1>1

\* A part of Gemini's is a block of one piece, and a chunk that carries it.
LEMMA PartIsChunk ==
  ASSUME NEW type \in BlockTypes, NEW p \in Piece, NEW reason \in GeminiReasons \cup {None}
  PROVE  LET b == [type |-> type, body |-> <<p>>]
             x == PartChunk(type, p, reason) IN
           /\ b \in Block /\ b.body = <<p>> /\ Len(b.body) = 1
           /\ x \in Chunk
           /\ b.type = "text" => x \in TextChunk /\ x.piece = p
           /\ IsTool(b) => x \in ToolChunk /\ x.args = <<p>> /\ x.index = 0
<1> DEFINE b == [type |-> type, body |-> <<p>>]
           x == PartChunk(type, p, reason)
<1>1. <<p>> \in Pieces /\ Len(<<p>>) = 1 /\ p[1] \in Nat
  BY DEF Pieces, Piece
<1>2. b \in Block /\ b.body = <<p>> /\ b.type = type
  BY <1>1 DEF Block
<1>3. GeminiFinish(reason) \in Reasons /\ "tool_calls" \in Reasons
  BY DEF GeminiFinish, Reasons
<1>4. CASE type = "text"
  <2>1. x = Text(p, GeminiFinish(reason))
    BY <1>4 DEF PartChunk
  <2>2. x \in Chunk /\ x \in TextChunk /\ x.piece = p
    BY <1>3, <2>1, ContentIsChunks
  <2> QED
    BY <1>1, <1>2, <1>4, <2>2 DEF IsTool
<1>5. CASE type = "tool_use"
  <2>1. x = Tool(0, p[1], <<p>>, "tool_calls")
    BY <1>5 DEF PartChunk
  <2>2. x \in Chunk /\ x \in ToolChunk /\ x.args = <<p>> /\ x.index = 0
    BY <1>1, <1>3, <2>1, ContentIsChunks
  <2> QED
    BY <1>1, <1>2, <1>5, <2>2
<1> QED
  BY <1>4, <1>5 DEF BlockTypes

\* A candidate's parts are told one by one.
LEMMA CandidateTells ==
  ASSUME StreamType, NEW parts \in PartLists, NEW reason \in GeminiReasons \cup {None},
         Candidate(parts, reason)
  PROVE  Tells /\ TokensOf(blocks') = TokensOf(blocks) + Len(parts)
<1> DEFINE piece(i) == <<Len(blocks) + i, 1>>
           b(i) == [type |-> parts[i], body |-> <<piece(i)>>]
           x(i) == PartChunk(parts[i], piece(i), reason)
           bs == [i \in DOMAIN parts |-> b(i)]
           xs == [i \in DOMAIN parts |-> x(i)]
<1>1. /\ out \in Chunks /\ blocks \in Blocks /\ garbled \in BOOLEAN /\ provider = "gemini"
      /\ blocks' = blocks \o bs
      /\ (out' = out \o xs /\ garbled' = garbled) \/ (garbled' = TRUE /\ out' = out)
  BY DEF StreamType, Candidate
<1>2. \A i \in Nat : piece(i) \in Piece
  BY <1>1 DEF Blocks, Piece
<1>3. ASSUME NEW i \in Nat, parts[i] \in BlockTypes
      PROVE  /\ b(i) \in Block /\ b(i).body = <<piece(i)>> /\ Len(b(i).body) = 1
             /\ x(i) \in Chunk
             /\ b(i).type = "text" => x(i) \in TextChunk /\ x(i).piece = piece(i)
             /\ IsTool(b(i)) => x(i) \in ToolChunk /\ x(i).args = <<piece(i)>> /\ x(i).index = 0
  BY <1>2, <1>3, PartIsChunk
<1>4. blocks \in Seq(Block) /\ out \in Seq(Chunk)
  BY <1>1 DEF Blocks, Chunks
<1> HIDE DEF piece, b, x
<1>5. ASSUME NEW cs \in Blocks, NEW c \in Chunks, Known(cs, c),
             NEW i \in Nat, parts[i] \in BlockTypes
      PROVE  Known(Append(cs, b(i)), Append(c, x(i)))
  BY <1>1, <1>2, <1>3, <1>5, PartIsKnown
<1>6. CASE parts = <<>>
  <2>1. bs = [i \in {} |-> bs[i]] /\ xs = [i \in {} |-> xs[i]] /\ Len(parts) = 0
    BY <1>6
  <2>2. blocks \o bs = blocks /\ out \o xs = out
    BY <1>4, <2>1, NoneMore
  <2>3. TokensOf(blocks) \in Nat
    BY <1>1, TokensGrow
  <2> HIDE DEF bs, xs
  <2>4. blocks' = blocks /\ out' = out
    BY <1>1, <2>2
  <2>5. Tells
    BY <1>1, <2>4 DEF Tells
  <2> QED
    BY <2>1, <2>3, <2>4, <2>5
<1>7. CASE \E t \in BlockTypes : parts = <<t>>
  <2>1. Len(parts) = 1 /\ DOMAIN parts = 1..1 /\ parts[1] \in BlockTypes
    BY <1>7
  <2>2. bs = [i \in 1..1 |-> bs[i]] /\ bs[1] = b(1) /\ xs = [i \in 1..1 |-> xs[i]] /\ xs[1] = x(1)
    BY <2>1
  <2>3. b(1) \in Block /\ x(1) \in Chunk /\ Len(b(1).body) = 1
    BY <1>3, <2>1
  <2> HIDE DEF bs, xs
  <2>4. blocks \o bs = Append(blocks, b(1)) /\ out \o xs = Append(out, x(1))
    BY <1>4, <2>2, <2>3, OneMore
  <2>5. Append(blocks, b(1)) \in Blocks /\ Append(out, x(1)) \in Chunks
    BY <1>1, <2>3, BlocksGrow, ChunksGrow
  <2>6. Known(blocks, out) => Known(Append(blocks, b(1)), Append(out, x(1)))
    BY <1>1, <1>5, <2>1
  <2>7. TokensOf(Append(blocks, b(1))) = TokensOf(blocks) + 1
    BY <1>1, <2>3, TokensGrow
  <2> QED
    BY <1>1, <2>1, <2>4, <2>5, <2>6, <2>7 DEF Tells
<1>8. CASE parts \in BlockTypes \X BlockTypes
  <2>1. Len(parts) = 2 /\ DOMAIN parts = 1..2 /\ parts[1] \in BlockTypes /\ parts[2] \in BlockTypes
    BY <1>8
  <2>2. /\ bs = [i \in 1..2 |-> bs[i]] /\ bs[1] = b(1) /\ bs[2] = b(2)
        /\ xs = [i \in 1..2 |-> xs[i]] /\ xs[1] = x(1) /\ xs[2] = x(2)
    BY <2>1
  <2>3. /\ b(1) \in Block /\ x(1) \in Chunk /\ Len(b(1).body) = 1
        /\ b(2) \in Block /\ x(2) \in Chunk /\ Len(b(2).body) = 1
    BY <1>3, <2>1
  <2> HIDE DEF bs, xs
  <2> DEFINE bs1 == Append(blocks, b(1))
             bs2 == Append(bs1, b(2))
             c1 == Append(out, x(1))
             c2 == Append(c1, x(2))
  <2>4. blocks \o bs = bs2 /\ out \o xs = c2
    BY <1>4, <2>2, <2>3, TwoMore
  <2>5. bs1 \in Blocks /\ c1 \in Chunks
    BY <1>1, <2>3, BlocksGrow, ChunksGrow
  <2>6. Known(blocks, out) => Known(bs1, c1)
    BY <1>1, <1>5, <2>1
  <2>7. TokensOf(bs1) = TokensOf(blocks) + 1 /\ TokensOf(blocks) \in Nat
    BY <1>1, <2>3, TokensGrow
  <2> HIDE DEF bs1, c1
  <2>8. bs2 \in Blocks /\ c2 \in Chunks
    BY <2>3, <2>5, BlocksGrow, ChunksGrow
  <2>9. Known(bs1, c1) => Known(bs2, c2)
    BY <1>5, <2>1, <2>5
  <2>10. TokensOf(bs2) = TokensOf(bs1) + 1
    BY <2>3, <2>5, TokensGrow
  <2> HIDE DEF bs2, c2
  <2>11. TokensOf(bs2) = TokensOf(blocks) + 2
    BY <2>7, <2>10
  <2>12. /\ blocks' = bs2
         /\ (out' = c2 /\ garbled' = garbled) \/ (garbled' = TRUE /\ out' = out)
    BY <1>1, <2>4
  <2>13. Tells
    BY <1>1, <2>6, <2>8, <2>9, <2>12 DEF Tells
  <2> QED
    BY <1>1, <2>1, <2>4, <2>11, <2>13
<1> QED
  BY <1>6, <1>7, <1>8 DEF PartLists

\* What a stop reason is translated to.
LEMMA FinishIsReason ==
  \A r \in StopReasons : FinishOf(r) \in Reasons
BY DEF FinishOf, Reasons, StopReasons

\* The stop event tells the reason and, if the upstream does, the tokens.
LEMMA StopTells ==
  ASSUME StreamType, NEW reason \in StopReasons, Stop(reason)
  PROVE  /\ Tells
         /\ ~garbled' => /\ Assembled(out').finish = FinishOf(reason)
                         /\ Assembled(out').usage = IF provider = "anthropic" \/ reports
                                                    THEN Produced ELSE Assembled(out).usage
<1> DEFINE x == Finish(FinishOf(reason))
           y == Usage(Produced)
           c1 == Append(out, x)
           told == provider = "anthropic" \/ reports
<1>1. /\ out \in Chunks /\ blocks \in Blocks /\ garbled \in BOOLEAN /\ blocks' = blocks
      /\ Yield(<<x>> \o (IF told THEN <<y>> ELSE <<>>))
  BY DEF StreamType, Stop
<1>2. x \in Chunk /\ x.kind = "finish" /\ x.finish = FinishOf(reason)
  BY FinishIsReason, ChunksAreChunks
<1>3. y \in Chunk /\ y.kind = "usage" /\ y.count = Produced
  BY <1>1, TokensGrow, ChunksAreChunks DEF Produced
<1> HIDE DEF x, y
<1>4. c1 \in Chunks
  BY <1>1, <1>2, ChunksGrow
<1>5. Known(blocks, out) => Known(blocks, c1)
  BY <1>1, <1>2, PlainIsKnown
<1>6. /\ Assembled(c1).finish = FinishOf(reason)
      /\ Assembled(c1).usage = Assembled(out).usage
  BY <1>1, <1>2, FinishCounts, UsageStays
<1>7. ArgsFollow(out) => ArgsFollow(c1)
  BY <1>1, <1>2, MoreFollows
<1>8. CASE told
  <2>1. Yield(<<x>> \o <<y>>)
    BY <1>1, <1>8
  <2>2. /\ out' \in Chunks /\ garbled' \in BOOLEAN /\ out' \in {out, Append(c1, y)}
        /\ ~garbled' => ~garbled /\ out' = Append(c1, y)
    BY <1>1, <1>2, <1>3, <2>1, YieldTwo
  <2>3. Known(blocks, c1) => Known(blocks, Append(c1, y))
    <3> HIDE DEF c1
    <3> QED
      BY <1>1, <1>3, <1>4, PlainIsKnown
  <2>4. /\ Assembled(Append(c1, y)).finish = FinishOf(reason)
        /\ Assembled(Append(c1, y)).usage = Produced
    <3> HIDE DEF c1
    <3> QED
      BY <1>3, <1>4, <1>6, FinishStays, UsageCounts
  <2> HIDE DEF c1
  <2>5. ArgsFollow(out) => ArgsFollow(Append(c1, y))
    BY <1>3, <1>4, <1>7, MoreFollows
  <2>6. Tells
    BY <1>1, <1>5, <2>2, <2>3, <2>5, Zenon DEF Tells
  <2> QED
    BY <1>8, <2>2, <2>4, <2>6
<1>9. CASE ~told
  <2>1. Yield(<<x>> \o <<>>)
    BY <1>1, <1>9
  <2>2. /\ out' \in Chunks /\ garbled' \in BOOLEAN /\ out' \in {out, c1}
        /\ ~garbled' => ~garbled /\ out' = c1
    BY <1>1, <1>2, <2>1, YieldOneMore
  <2> HIDE DEF c1
  <2>3. Tells
    BY <1>1, <1>5, <1>7, <2>2, Zenon DEF Tells
  <2> QED
    BY <1>6, <1>9, <2>2, <2>3
<1> QED
  BY <1>8, <1>9

\* The chunks that the ends add are neither text nor calls.
LEMMA FailTells ==
  ASSUME StreamType, Fail
  PROVE  /\ Tells /\ KeepsUsage
         /\ Assembled(out').finish = Assembled(out).finish
<1>1. /\ out \in Chunks /\ blocks \in Blocks /\ garbled \in BOOLEAN
      /\ blocks' = blocks /\ garbled' = garbled /\ out' = Append(out, Error)
  BY DEF StreamType, Fail, answerVars
<1>2. Error \in Chunk /\ Error.kind = "error"
  BY ChunksAreChunks
<1>3. Append(out, Error) \in Chunks
  BY <1>1, <1>2, ChunksGrow
<1>4. Known(blocks, out) => Known(blocks, Append(out, Error))
  BY <1>1, <1>2, PlainIsKnown
<1>5. /\ Assembled(Append(out, Error)).usage = Assembled(out).usage
      /\ Assembled(Append(out, Error)).finish = Assembled(out).finish
  BY <1>1, <1>2, UsageStays, FinishStays
<1>6. ArgsFollow(out) => ArgsFollow(Append(out, Error))
  BY <1>1, <1>2, MoreFollows
<1> QED
  BY <1>1, <1>3, <1>4, <1>5, <1>6, Zenon DEF Tells, KeepsUsage

\* Gemini's last chunk tells what its adapter knows of the tokens.
LEMMA CloseTells ==
  ASSUME StreamType, Close
  PROVE  /\ Tells /\ garbled' = garbled
         /\ provider # "gemini" => out' = out
         /\ provider = "gemini" => Assembled(out').usage = tokens
<1>1. /\ out \in Chunks /\ blocks \in Blocks /\ garbled \in BOOLEAN /\ tokens \in Nat
      /\ blocks' = blocks /\ garbled' = garbled
      /\ out' = out \o (IF provider = "gemini" THEN <<Usage(tokens)>> ELSE <<>>)
  BY DEF StreamType, Close, answerVars
<1>2. CASE provider = "gemini"
  <2> DEFINE x == Usage(tokens)
  <2>1. x \in Chunk /\ x.kind = "usage" /\ x.count = tokens
    BY <1>1, ChunksAreChunks
  <2>2. out' = out \o <<x>>
    BY <1>1, <1>2
  <2> HIDE DEF x
  <2>3. out' = Append(out, x) /\ Append(out, x) \in Chunks
    BY <1>1, <2>1, <2>2, ChunksGrow
  <2>4. Known(blocks, out) => Known(blocks, Append(out, x))
    BY <1>1, <2>1, PlainIsKnown
  <2>5. Assembled(Append(out, x)).usage = tokens
    BY <1>1, <2>1, UsageCounts
  <2> QED
    BY <1>1, <1>2, <2>3, <2>4, <2>5 DEF Tells
<1>3. CASE provider # "gemini"
  <2>1. out' = out
    BY <1>1, <1>3, ChunksGrow
  <2> QED
    BY <1>1, <1>3, <2>1, Zenon DEF Tells
<1> QED
  BY <1>2, <1>3

\* What is metered is a record, of tokens.
LEMMA TokensAreCounted ==
  ASSUME NEW c \in Chunks
  PROVE  CompletionTokens(c) \in Nat
<1> DEFINE a == Assembled(c)
<1>1. a \in Client
  BY AssembledGrows
<1> HIDE DEF a
<1>2. a.usage \in Nat \cup {None} /\ a.text \in Pieces
  BY <1>1 DEF Client
<1>3. Len(a.text) \in Nat
  BY <1>2, PiecesGrow
<1>4. CompletionTokens(c) = IF a.usage # None THEN a.usage ELSE Len(a.text)
  BY DEF CompletionTokens, a
<1> QED
  BY <1>2, <1>3, <1>4

\* The types, at first.
LEMMA TypeInit ==
  ASSUME Init
  PROVE  StreamType
<1>1. <<>> \in Blocks /\ <<>> \in Chunks
  BY BlocksGrow, ChunksGrow
<1> QED
  BY <1>1 DEF Init, StreamType

\* Every step keeps the types.
LEMMA TypeStep ==
  ASSUME StreamType, [Next]_vars
  PROVE  StreamType'
<1>0. UNCHANGED callVars
  BY DEF Next, vars, Begin, StartBlock, Delta, Stop, Candidate, Close, Record, Fail, HangUp
<1>1. CASE Begin
  <2>1. Tells
    BY <1>1, BeginTells
  <2> QED
    BY <1>0, <1>1, <2>1 DEF StreamType, Tells, Begin, callVars, answerVars
<1>2. ASSUME NEW type \in BlockTypes, StartBlock(type) PROVE StreamType'
  <2>1. Tells
    BY <1>2, StartBlockTells
  <2> QED
    BY <1>0, <1>2, <2>1 DEF StreamType, Tells, StartBlock, callVars
<1>3. CASE Delta
  <2>1. Tells
    BY <1>3, DeltaTells
  <2>2. pc = "streaming" /\ UNCHANGED <<callVars, pc, stop, tokens, metered>>
    BY <1>3 DEF Delta
  <2> QED
    BY <1>0, <2>1, <2>2 DEF StreamType, Tells, callVars
<1>4. ASSUME NEW reason \in StopReasons, Stop(reason) PROVE StreamType'
  <2>1. Tells
    BY <1>4, StopTells
  <2>2. pc = "streaming" /\ pc' = "stopped" /\ stop' = reason /\ UNCHANGED <<tokens, metered>>
    BY <1>4 DEF Stop
  <2> QED
    BY <1>0, <2>1, <2>2 DEF StreamType, Tells, callVars
<1>5. ASSUME NEW parts \in PartLists, NEW reason \in GeminiReasons \cup {None},
             Candidate(parts, reason)
      PROVE  StreamType'
  <2>1. Tells /\ TokensOf(blocks') = TokensOf(blocks) + Len(parts)
    BY <1>5, CandidateTells
  <2>2. /\ pc = "streaming" /\ pc' = (IF reason = None THEN pc ELSE "stopped")
        /\ stop' = reason /\ metered' = metered
        /\ tokens' = (IF reports THEN Produced + Len(parts) ELSE tokens) \/ tokens' = tokens
    BY <1>5 DEF Candidate
  <2>3. tokens' \in Nat
    <3>1. blocks' \in Blocks /\ tokens \in Nat
      BY <2>1 DEF Tells, StreamType
    <3>2. TokensOf(blocks') \in Nat /\ Produced + Len(parts) = TokensOf(blocks')
      BY <2>1, <3>1, TokensGrow DEF Produced
    <3> QED
      BY <2>2, <3>1, <3>2
  <2>4. reason \in StopReasons \cup {None}
    BY DEF GeminiReasons
  <2> QED
    BY <1>0, <2>1, <2>2, <2>3, <2>4 DEF StreamType, Tells, callVars
<1>6. CASE Close
  <2>1. Tells
    BY <1>6, CloseTells
  <2>2. pc \in {"streaming", "stopped"} /\ pc' = "told" /\ UNCHANGED <<answerVars, metered>>
    BY <1>6 DEF Close
  <2> QED
    BY <1>0, <2>1, <2>2 DEF StreamType, Tells, callVars, answerVars
<1>7. CASE Fail
  <2>1. Tells
    BY <1>7, FailTells
  <2> DEFINE record == [ok |-> FALSE, completion |-> 0]
  <2>2. record \in Records
    BY DEF Records
  <2>3. /\ pc' = "closed" /\ UNCHANGED answerVars
        /\ metered' = IF keyed THEN record ELSE None
    BY <1>7, Zenon DEF Fail, Meter
  <2> HIDE DEF record
  <2> QED
    BY <1>0, <2>1, <2>2, <2>3 DEF StreamType, Tells, callVars, answerVars
<1>9. CASE Record
  <2> DEFINE record == [ok |-> TRUE, completion |-> CompletionTokens(out)]
  <2>1. CompletionTokens(out) \in Nat
    BY TokensAreCounted DEF StreamType
  <2>2. record \in Records
    BY <2>1 DEF Records
  <2>3. /\ pc' = "closed" /\ UNCHANGED <<answerVars, garbled, out>>
        /\ metered' = IF keyed THEN record ELSE None
    BY <1>9, Zenon DEF Record, Meter
  <2> HIDE DEF record
  <2> QED
    BY <1>0, <2>2, <2>3 DEF StreamType, callVars, answerVars
<1>10. CASE HangUp
  <2>1. pc # "closed" /\ pc' = "gone" /\ UNCHANGED <<answerVars, garbled, out, metered>>
    BY <1>10 DEF HangUp
  <2> QED
    BY <1>0, <2>1 DEF StreamType, callVars, answerVars
<1>8. CASE UNCHANGED vars
  BY <1>8 DEF vars, StreamType, callVars, answerVars
<1> QED
  BY <1>1, <1>2, <1>3, <1>4, <1>5, <1>6, <1>7, <1>8, <1>9, <1>10 DEF Next

(* The state has its type, for any answer and however it is cut off.       *)
THEOREM TypeCorrect == Spec => []TypeOK
<1>1. Spec => []StreamType
  <2>1. Init => StreamType
    BY TypeInit
  <2>2. StreamType /\ [Next]_vars => StreamType'
    BY TypeStep
  <2> QED
    BY <2>1, <2>2, PTL DEF Spec
<1>2. ASSUME StreamType PROVE TypeOK
  <2>1. blocks \in Blocks
    BY <1>2 DEF StreamType
  <2>2. \A n \in DOMAIN blocks : blocks[n] \in Block
    BY <2>1 DEF Blocks
  <2>3. \A n \in DOMAIN blocks : blocks[n].type \in BlockTypes
    BY <2>2 DEF Block
  <2> QED
    BY <1>2, <2>3 DEF StreamType, TypeOK
<1>3. StreamType => TypeOK
  BY <1>2
<1> QED
  BY <1>1, <1>3, PTL

-----------------------------------------------------------------------------
(* The invariant: the client knows the answer so far, how it ended and, as *)
(* it was told or as Gemini's adapter knows, its tokens.                   *)
Ended == provider # "gemini" /\ stop # None => Assembled(out).finish = FinishOf(stop)

Reported == stop # None /\ (provider = "anthropic" \/ reports)

Counted ==
  IF provider = "gemini" THEN tokens = IF reports THEN Produced ELSE 0
  ELSE Assembled(out).usage = IF Reported THEN Produced ELSE None

AnswerInv ==
  /\ stop # None => pc \notin {"opening", "streaming"}
  /\ ~garbled => Known(blocks, out) /\ Ended /\ Counted

\* What the next state's formulas say, with the provider that stays.
LEMMA KnownNext ==
  ASSUME UNCHANGED callVars
  PROVE  /\ Known(blocks, out)' <=> Known(blocks', out')
         /\ Ended' <=> (provider # "gemini" /\ stop' # None =>
                          Assembled(out').finish = FinishOf(stop'))
         /\ Reported' <=> stop' # None /\ (provider = "anthropic" \/ reports)
         /\ Counted' <=> IF provider = "gemini"
                         THEN tokens' = IF reports THEN TokensOf(blocks') ELSE 0
                         ELSE Assembled(out').usage = IF Reported' THEN TokensOf(blocks') ELSE None
<1>1. provider' = provider /\ reports' = reports
  BY DEF callVars
<1>2. Known(blocks, out)' <=> Known(blocks', out')
  BY <1>1 DEF Known, LastIsLast, LastIndex, NextIndex
<1>3. FinishOf(stop)' = FinishOf(stop')
  BY <1>1 DEF FinishOf
<1> QED
  BY <1>1, <1>2, <1>3 DEF Ended, Reported, Counted, Produced

\* The invariant, at first.
LEMMA AnswerInit ==
  ASSUME Init
  PROVE  AnswerInv
<1>1. blocks = <<>> /\ out = <<>> /\ stop = None /\ tokens = 0
  BY DEF Init
<1>2. /\ Assembled(<<>>).text = <<>> /\ Assembled(<<>>).tools = <<>>
      /\ Assembled(<<>>).usage = None
  BY AssembledGrows DEF Nothing
<1>3. Bodies(<<>>, "text") = <<>> /\ ToolsOf(<<>>) = <<>> /\ TokensOf(<<>>) = 0
  BY BodiesGrow, ToolsGrow, TokensGrow
<1>4. SameCalls(<<>>, <<>>)
  BY DEF SameCalls
<1>5. Known(<<>>, <<>>)
  BY <1>2, <1>3, <1>4 DEF Known, LastIsLast, OneCall
<1>6. Ended /\ Counted
  BY <1>1, <1>2, <1>3 DEF Ended, Counted, Reported, Produced
<1> QED
  BY <1>1, <1>5, <1>6 DEF AnswerInv

\* Every step keeps the invariant.
LEMMA AnswerStep ==
  ASSUME StreamType, AnswerInv, [Next]_vars
  PROVE  AnswerInv'
<1>0. UNCHANGED callVars /\ blocks \in Blocks /\ out \in Chunks
  BY DEF Next, vars, Begin, StartBlock, Delta, Stop, Candidate, Close, Record, Fail, HangUp, StreamType
\* A step that tells the client of no end.
<1>1. ASSUME provider # "gemini", stop = None, stop' = None, Tells, KeepsUsage
      PROVE  AnswerInv'
  <2>1. ~garbled' => Known(blocks', out') /\ Assembled(out').usage = None
    BY <1>1 DEF Tells, KeepsUsage, AnswerInv, Counted, Reported
  <2> QED
    BY <1>0, <1>1, <2>1, KnownNext DEF AnswerInv
<1>2. CASE Begin
  <2>1. Tells /\ KeepsUsage
    BY <1>2, BeginTells
  <2>2. pc = "opening" /\ UNCHANGED <<blocks, stop, tokens>>
    BY <1>2 DEF Begin, answerVars
  <2>3. stop = None
    BY <2>2 DEF AnswerInv
  <2>4. CASE provider = "gemini"
    <3>1. ~garbled' => Known(blocks', out') /\ Counted
      BY <2>1 DEF Tells, AnswerInv
    <3> QED
      BY <1>0, <2>2, <2>3, <2>4, <3>1, KnownNext DEF AnswerInv, Counted, Produced
  <2> QED
    BY <1>1, <2>1, <2>2, <2>3, <2>4
<1>3. ASSUME NEW type \in BlockTypes, StartBlock(type) PROVE AnswerInv'
  <2>1. Tells /\ KeepsUsage
    BY <1>3, StartBlockTells
  <2>2. pc = "streaming" /\ provider # "gemini" /\ stop' = stop
    BY <1>3 DEF StartBlock
  <2>3. stop = None
    BY <2>2 DEF AnswerInv
  <2> QED
    BY <1>1, <2>1, <2>2, <2>3
<1>4. CASE Delta
  <2>1. Tells /\ KeepsUsage
    BY <1>4, DeltaTells
  <2>2. pc = "streaming" /\ provider # "gemini" /\ stop' = stop
    BY <1>4 DEF Delta
  <2>3. stop = None
    BY <2>2 DEF AnswerInv
  <2> QED
    BY <1>1, <2>1, <2>2, <2>3
<1>5. ASSUME NEW reason \in StopReasons, Stop(reason) PROVE AnswerInv'
  <2>1. /\ Tells
        /\ ~garbled' => /\ Assembled(out').finish = FinishOf(reason)
                        /\ Assembled(out').usage = IF provider = "anthropic" \/ reports
                                                   THEN Produced ELSE Assembled(out).usage
    BY <1>5, StopTells
  <2>2. /\ pc = "streaming" /\ pc' = "stopped" /\ provider # "gemini"
        /\ stop' = reason /\ blocks' = blocks /\ reason # None
    BY <1>5, ConstantsAssumption DEF Stop
  <2>3. stop = None
    BY <2>2 DEF AnswerInv
  <2>4. ~garbled' => Known(blocks', out') /\ Assembled(out).usage = None
    BY <2>1, <2>2, <2>3 DEF Tells, AnswerInv, Counted, Reported
  <2>5. Produced = TokensOf(blocks')
    BY <2>2 DEF Produced
  <2> QED
    BY <1>0, <2>1, <2>2, <2>4, <2>5, KnownNext DEF AnswerInv
<1>6. ASSUME NEW parts \in PartLists, NEW reason \in GeminiReasons \cup {None},
             Candidate(parts, reason)
      PROVE  AnswerInv'
  <2>1. Tells /\ TokensOf(blocks') = TokensOf(blocks) + Len(parts)
    BY <1>6, CandidateTells
  <2>2. /\ pc = "streaming" /\ provider = "gemini" /\ stop' = reason
        /\ pc' = (IF reason = None THEN pc ELSE "stopped")
        /\ garbled' \/ tokens' = (IF reports THEN Produced + Len(parts) ELSE tokens)
    BY <1>6 DEF Candidate
  <2>3. ~garbled' => Known(blocks', out') /\ Counted
    BY <2>1 DEF Tells, AnswerInv
  <2>4. ~garbled' => tokens' = IF reports THEN TokensOf(blocks') ELSE 0
    BY <2>1, <2>2, <2>3 DEF Counted, Produced
  <2> QED
    BY <1>0, <2>2, <2>3, <2>4, KnownNext DEF AnswerInv
<1>7. CASE Close
  <2>1. /\ Tells /\ garbled' = garbled
        /\ provider # "gemini" => out' = out
        /\ provider = "gemini" => Assembled(out').usage = tokens
    BY <1>7, CloseTells
  <2>2. pc' = "told" /\ UNCHANGED <<blocks, stop, tokens>>
    BY <1>7 DEF Close, answerVars
  <2>3. ~garbled' => Known(blocks', out') /\ Ended /\ Counted
    BY <2>1 DEF Tells, AnswerInv
  <2>4. ~garbled' => Ended' /\ Counted'
    BY <1>0, <2>1, <2>2, <2>3, KnownNext DEF Ended, Counted, Reported, Produced
  <2> QED
    BY <1>0, <2>2, <2>3, <2>4, KnownNext DEF AnswerInv
<1>8. CASE Fail
  <2>1. Tells /\ KeepsUsage /\ Assembled(out').finish = Assembled(out).finish
    BY <1>8, FailTells
  <2>2. pc' = "closed" /\ UNCHANGED <<blocks, stop, tokens>>
    BY <1>8 DEF Fail, answerVars
  <2>3. ~garbled' => Known(blocks', out') /\ Ended /\ Counted
    BY <2>1 DEF Tells, AnswerInv
  <2>4. ~garbled' => Ended' /\ Counted'
    BY <1>0, <2>1, <2>2, <2>3, KnownNext DEF KeepsUsage, Ended, Counted, Reported, Produced
  <2> QED
    BY <1>0, <2>2, <2>3, <2>4, KnownNext DEF AnswerInv
<1>9. CASE Record \/ HangUp \/ UNCHANGED vars
  <2>1. /\ UNCHANGED <<blocks, stop, tokens, garbled, out>>
        /\ pc' = pc \/ pc' \in {"closed", "gone"}
    BY <1>9 DEF Record, HangUp, vars, answerVars
  <2> QED
    BY <1>0, <2>1, KnownNext DEF AnswerInv, Ended, Counted, Reported, Produced
<1> QED
  BY <1>2, <1>3, <1>4, <1>5, <1>6, <1>7, <1>8, <1>9 DEF Next

(* What a client has assembled is the translation of what was produced.    *)
THEOREM ClientFollows == Spec => []StreamFollowsAnswer
<1>1. Spec => [](StreamType /\ AnswerInv)
  <2>1. Init => StreamType /\ AnswerInv
    BY TypeInit, AnswerInit
  <2>2. StreamType /\ AnswerInv /\ [Next]_vars => (StreamType /\ AnswerInv)'
    BY TypeStep, AnswerStep
  <2> QED
    BY <2>1, <2>2, PTL DEF Spec
<1>2. ASSUME StreamType, AnswerInv, ~garbled
      PROVE  LET a == Assembled(out) IN
               /\ a.text = Whole.text
               /\ [i \in DOMAIN a.tools |-> a.tools[i].args] = Whole.tools
                    <=> ~Merged /\ ~Unwritten
               /\ stop # None /\ provider # "gemini" => a.finish = Whole.finish
  <2> DEFINE a == Assembled(out)
             calls == ToolsOf(blocks)
             streamed == [i \in DOMAIN a.tools |-> a.tools[i].args]
  <2>1. Known(blocks, out) /\ Ended
    BY <1>2 DEF AnswerInv
  <2>2. /\ Whole.text = Bodies(blocks, "text")
        /\ Whole.tools = [i \in DOMAIN calls |-> Dumped(calls[i].body)]
        /\ Whole.finish = WholeFinish
        /\ Tools = calls
    BY DEF Whole, Tools
  <2>3. out \in Chunks /\ blocks \in Blocks /\ provider \in Providers
    BY <1>2 DEF StreamType
  <2>4. a.text = Whole.text
    BY <2>1, <2>2 DEF Known
  <2>5. /\ DOMAIN a.tools = 1..Len(a.tools) /\ Len(a.tools) \in Nat
        /\ DOMAIN calls = 1..Len(calls) /\ Len(calls) \in Nat
    <3>1. DOMAIN a.tools = 1..Len(a.tools) /\ Len(a.tools) \in Nat
      BY <2>3, CallsHaveIndices
    <3> QED
      BY <2>3, <3>1, ToolsGrow DEF Blocks
  <2>6. Merged => Len(a.tools) <= 1 /\ Len(calls) > 1
    BY <2>1, <2>2 DEF Known, OneCall, Merged
  <2>7. ~Merged => SameCalls(a.tools, calls)
    BY <2>1, <2>2, <2>5 DEF Known, Merged
  <2>8. Unwritten <=> provider = "anthropic" /\ \E i \in DOMAIN calls : calls[i].body = <<>>
    BY <2>2 DEF Unwritten
  <2> HIDE DEF calls
  <2>9. streamed = Whole.tools <=> ~Merged /\ ~Unwritten
    <3> HIDE DEF a
    <3>1. CASE Merged
      <4>1. DOMAIN streamed # DOMAIN Whole.tools
        BY <2>2, <2>5, <2>6, <3>1
      <4> QED
        BY <3>1, <4>1
    <3>2. CASE ~Merged /\ ~Unwritten
      <4>1. DOMAIN a.tools = DOMAIN calls /\ \A i \in DOMAIN calls : a.tools[i].args = calls[i].body
        BY <2>5, <2>7, <3>2 DEF SameCalls
      <4>2. \A i \in DOMAIN calls : Dumped(calls[i].body) = calls[i].body
        BY <2>8, <3>2 DEF Dumped
      <4>3. streamed = Whole.tools
        BY <2>2, <4>1, <4>2
      <4> QED
        BY <3>2, <4>3
    <3>3. CASE ~Merged /\ Unwritten
      <4>1. PICK i \in DOMAIN calls : calls[i].body = <<>>
        BY <2>8, <3>3
      <4>2. i \in DOMAIN a.tools /\ a.tools[i].args = <<>>
        BY <2>5, <2>7, <3>3, <4>1 DEF SameCalls
      <4>3. Dumped(calls[i].body) = <<Braces>> /\ <<Braces>> # <<>>
        BY <2>8, <3>3, <4>1 DEF Dumped
      <4>4. streamed[i] # Whole.tools[i]
        BY <2>2, <4>1, <4>2, <4>3
      <4> QED
        BY <3>3, <4>4
    <3> QED
      BY <3>1, <3>2, <3>3
  <2>10. ASSUME stop # None, provider # "gemini" PROVE a.finish = Whole.finish
    <3>1. a.finish = FinishOf(stop)
      BY <2>1, <2>10 DEF Ended
    <3>2. FinishOf(stop) = WholeFinish
      BY <2>10 DEF FinishOf, WholeFinish
    <3> QED
      BY <2>2, <3>1, <3>2
  <2> QED
    BY <2>4, <2>9, <2>10
<1>3. StreamType /\ AnswerInv => StreamFollowsAnswer
  BY <1>2 DEF StreamFollowsAnswer
<1> QED
  BY <1>1, <1>3, PTL

-----------------------------------------------------------------------------
(* Metering.                                                               *)

\* Once [DONE] is sent, the chunks say what is owed.
SaysOwed == pc = "told" /\ ~garbled => CompletionTokens(out) = Owed

MeterInv == SaysOwed /\ MeteredAsProduced

\* What is owed depends on the answer alone.
LEMMA OwedStays ==
  ASSUME UNCHANGED <<callVars, answerVars>>
  PROVE  Owed' = Owed
BY DEF Owed, Produced, callVars, answerVars

\* Every step keeps MeteredAsProduced: Close makes the chunks say what is owed.
LEMMA MeteredStep ==
  ASSUME StreamType, AnswerInv, MeterInv, [Next]_vars
  PROVE  MeterInv'
<1>0. UNCHANGED callVars /\ blocks \in Blocks /\ out \in Chunks
  BY DEF Next, vars, Begin, StartBlock, Delta, Stop, Candidate, Close, Record, Fail, HangUp,
         StreamType
<1>1. CASE Close
  <2>1. /\ Tells /\ garbled' = garbled
        /\ provider # "gemini" => out' = out
        /\ provider = "gemini" => Assembled(out').usage = tokens
    BY <1>1, CloseTells
  <2>2. pc # "closed" /\ UNCHANGED <<answerVars, metered>>
    BY <1>1 DEF Close
  <2>3. Owed' = Owed
    BY <1>0, <2>2, OwedStays
  <2>4. MeteredAsProduced'
    BY <2>2 DEF StreamType, MeteredAsProduced
  <2>5. CompletionTokens(out)' = CompletionTokens(out')
    OBVIOUS
  <2> SUFFICES ASSUME ~garbled PROVE CompletionTokens(out') = Owed
    BY <2>1, <2>3, <2>4, <2>5 DEF MeterInv, SaysOwed
  <2>6. Known(blocks, out) /\ Counted
    BY DEF AnswerInv
  <2>7. tokens # None /\ Produced # None
    <3>1. Produced \in Nat /\ tokens \in Nat
      BY <1>0, TokensGrow DEF StreamType, Produced
    <3> QED
      BY <3>1, ConstantsAssumption
  <2>8. CASE provider = "gemini"
    <3>1. CompletionTokens(out') = tokens
      BY <2>1, <2>7, <2>8 DEF CompletionTokens
    <3> QED
      BY <2>6, <2>8, <3>1 DEF Counted, Owed
  <2>9. CASE provider # "gemini" /\ Reported
    <3>1. CompletionTokens(out') = Produced
      BY <2>1, <2>6, <2>7, <2>9 DEF CompletionTokens, Counted
    <3> QED
      BY <2>9, <3>1 DEF Reported, Owed
  <2>10. CASE provider # "gemini" /\ ~Reported
    <3>1. CompletionTokens(out') = Len(Bodies(blocks, "text"))
      BY <2>1, <2>6, <2>10 DEF CompletionTokens, Counted, Known
    <3> QED
      BY <2>10, <3>1 DEF Reported, Owed
  <2> QED
    BY <2>8, <2>9, <2>10
<1>2. CASE Record
  <2> DEFINE record == [ok |-> TRUE, completion |-> CompletionTokens(out)]
  <2>1. /\ pc = "told" /\ pc' = "closed" /\ UNCHANGED <<answerVars, garbled>>
        /\ metered' = IF keyed THEN record ELSE None
    BY <1>2, Zenon DEF Record, Meter
  <2>2. record.completion = CompletionTokens(out)
    OBVIOUS
  <2> HIDE DEF record
  <2>3. Owed' = Owed
    BY <1>0, <2>1, OwedStays
  <2>4. metered' # None => metered'.completion = CompletionTokens(out)
    BY <2>1, <2>2
  <2> QED
    BY <2>1, <2>3, <2>4 DEF MeterInv, SaysOwed, MeteredAsProduced
<1>3. CASE Fail
  <2>1. pc' = "closed" /\ metered' = IF keyed THEN [ok |-> FALSE, completion |-> 0] ELSE None
    BY <1>3, Zenon DEF Fail, Meter
  <2>2. metered' = None \/ ~metered'.ok
    BY <2>1
  <2> QED
    BY <2>1, <2>2 DEF MeterInv, SaysOwed, MeteredAsProduced
<1>4. CASE UNCHANGED vars
  <2>1. Owed' = Owed /\ UNCHANGED <<pc, garbled, out, metered>>
    BY <1>4, OwedStays DEF vars
  <2>2. CompletionTokens(out)' = CompletionTokens(out)
    BY <2>1
  <2> QED
    BY <2>1, <2>2 DEF MeterInv, SaysOwed, MeteredAsProduced
<1>5. CASE ~(Close \/ Record \/ Fail \/ UNCHANGED vars)
  <2>1. pc # "closed" /\ metered' = metered /\ pc' # "told"
    BY <1>5 DEF Next, Begin, StartBlock, Delta, Stop, Candidate, HangUp
  <2>2. metered' = None
    BY <2>1 DEF StreamType
  <2> QED
    BY <2>1, <2>2 DEF MeterInv, SaysOwed, MeteredAsProduced
<1> QED
  BY <1>1, <1>2, <1>3, <1>4, <1>5

(* A streamed call is metered for what its upstream produced.              *)
THEOREM MeteringFollows == Spec => []MeteredAsProduced
<1>1. Init => StreamType /\ AnswerInv /\ MeterInv
  <2>1. Init => MeterInv
    BY DEF Init, MeterInv, SaysOwed, MeteredAsProduced
  <2> QED
    BY <2>1, TypeInit, AnswerInit
<1>2. StreamType /\ AnswerInv /\ MeterInv /\ [Next]_vars
        => (StreamType /\ AnswerInv /\ MeterInv)'
  BY TypeStep, AnswerStep, MeteredStep
<1>3. MeterInv => MeteredAsProduced
  BY DEF MeterInv
<1> QED
  BY <1>1, <1>2, <1>3, PTL DEF Spec

-----------------------------------------------------------------------------
(* The arguments of tool calls.                                            *)

\* Every step keeps ToolArgsFollowStart.
LEMMA FollowStep ==
  ASSUME StreamType, ToolArgsFollowStart, [Next]_vars
  PROVE  ToolArgsFollowStart'
<1>1. UNCHANGED callVars
  BY DEF Next, vars, Begin, StartBlock, Delta, Stop, Candidate, Close, Record, Fail, HangUp
<1>2. Tells \/ out' = out
  BY BeginTells, StartBlockTells, DeltaTells, StopTells, CandidateTells, CloseTells, FailTells
     DEF Next, Record, HangUp, vars
<1>3. provider = "anthropic" /\ ArgsFollow(out) => ArgsFollow(out')
  BY <1>2 DEF Tells, vars
<1> QED
  BY <1>1, <1>3 DEF ToolArgsFollowStart, ArgsFollow, callVars

(* Whatever the upstream sends and whatever of it does not parse, no       *)
(* client of Anthropic's adapter is sent arguments of a call that it was   *)
(* not told of (anthropic.py:367).                                         *)
THEOREM ArgsFollowStart == Spec => []ToolArgsFollowStart
<1>1. Init => StreamType /\ ToolArgsFollowStart
  <2>1. Init => ToolArgsFollowStart
    BY DEF Init, ToolArgsFollowStart
  <2> QED
    BY <2>1, TypeInit
<1>2. StreamType /\ ToolArgsFollowStart /\ [Next]_vars => (StreamType /\ ToolArgsFollowStart)'
  BY TypeStep, FollowStep
<1> QED
  BY <1>1, <1>2, PTL DEF Spec

=============================================================================
