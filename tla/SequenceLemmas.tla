--------------------------- MODULE SequenceLemmas ---------------------------
(***************************************************************************)
(* What the proofs need of loops and vectors: induction and iteration up   *)
(* to a number, the elements of sequences, sequences that are joined block *)
(* after block, and the elements, the least, the greatest and the products *)
(* of numbers in finite sets.                                              *)
(***************************************************************************)
EXTENDS Integers, Sequences, FiniteSets, SequencesExt, FiniteSetTheorems,
        SequenceTheorems, WellFoundedInduction, TLAPS

-----------------------------------------------------------------------------
(* Induction and iteration.                                                *)

\* A set of natural numbers that is not empty has a least element.
LEMMA LeastNumber ==
  ASSUME NEW T, T \subseteq Nat, T # {}
  PROVE  \E x \in T : \A y \in T : x <= y
<1> DEFINE R == OpToRel(<, Nat)
<1>1. IsWellFoundedOn(R, Nat)
  BY NatLessThanWellFounded
<1>2. \A a, b \in Nat : a < b => <<a, b>> \in R
  BY DEF OpToRel
<1> HIDE DEF R
<1>3. PICK x \in T : \A y \in T : ~(<<y, x>> \in R)
  BY <1>1, WFMin
<1>4. ASSUME NEW y \in T PROVE x <= y
  <2>1. x \in Nat /\ y \in Nat
    OBVIOUS
  <2>2. ~(y < x)
    BY <1>2, <1>3, <2>1
  <2> QED
    BY <2>1, <2>2
<1> QED
  BY <1>4

\* Induction up to N.
LEMMA InductionUpTo ==
  ASSUME NEW N \in Nat, NEW S, 0 \in S, \A n \in 1..N : n - 1 \in S => n \in S
  PROVE  0..N \subseteq S
<1> SUFFICES ASSUME (0..N) \ S # {} PROVE FALSE
  OBVIOUS
<1>1. PICK x \in (0..N) \ S : \A y \in (0..N) \ S : x <= y
  <2>1. (0..N) \ S \subseteq Nat
    OBVIOUS
  <2> QED
    BY <2>1, LeastNumber
<1>2. x \in 1..N /\ x - 1 \in 0..N
  BY <1>1
<1>3. x - 1 \in S
  BY <1>1, <1>2
<1> QED
  BY <1>1, <1>2, <1>3

\* f holds the results of the steps F, which keep to X, from x0 on.
IsIteration(f, N, X, x0, F) ==
  f \in [0..N -> X] /\ f[0] = x0 /\ \A n \in 1..N : f[n] = F[<<n, f[n - 1]>>]
IsStep(F, N, X) == \A n \in 1..N, x \in X : F[<<n, x>>] \in X

\* The steps F from x0 on, N of them, make a sequence of values.
LEMMA Iterates ==
  ASSUME NEW N \in Nat, NEW X, NEW x0 \in X, NEW F, IsStep(F, N, X)
  PROVE  \E f : IsIteration(f, N, X, x0, F)
<1> DEFINE Good(n, f) == f \in [0..n -> X] /\ f[0] = x0 /\ \A i \in 1..n : f[i] = F[<<i, f[i - 1]>>]
           S == {n \in 0..N : \E f : Good(n, f)}
<1>1. 0 \in S
  <2>1. Good(0, [i \in 0..0 |-> x0])
    OBVIOUS
  <2>2. 0 \in 0..N
    OBVIOUS
  <2> HIDE DEF Good
  <2> QED
    BY <2>1, <2>2
<1>2. ASSUME NEW m \in 1..N, m - 1 \in S PROVE m \in S
  <2> DEFINE n == m - 1
  <2>0. n \in Nat /\ m = n + 1
    OBVIOUS
  <2>1. PICK f : Good(n, f)
    BY <1>2
  <2> HIDE DEF n
  <2> DEFINE g == [i \in 0..(n + 1) |-> IF i <= n THEN f[i] ELSE F[<<n + 1, f[n]>>]]
  <2>2. f[n] \in X /\ F[<<n + 1, f[n]>>] \in X
    BY <2>0, <2>1 DEF IsStep
  <2>3. g \in [0..(n + 1) -> X] /\ g[0] = x0
    BY <2>0, <2>1, <2>2
  <2>4. ASSUME NEW i \in 1..(n + 1) PROVE g[i] = F[<<i, g[i - 1]>>]
    <3>1. CASE i <= n
      <4>1. i \in 1..n /\ i - 1 \in 0..n /\ i \in 0..(n + 1) /\ i - 1 \in 0..(n + 1) /\ i - 1 <= n
        BY <2>0, <3>1
      <4>2. g[i] = f[i] /\ g[i - 1] = f[i - 1]
        BY <3>1, <4>1
      <4> QED
        BY <2>1, <4>1, <4>2
    <3>2. CASE i = n + 1
      <4>1. g[i] = F[<<n + 1, f[n]>>] /\ g[n] = f[n] /\ i - 1 = n
        BY <2>0, <3>2
      <4> QED
        BY <3>2, <4>1
    <3> QED
      BY <2>0, <3>1, <3>2
  <2> HIDE DEF g
  <2>5. Good(n + 1, g)
    BY <2>3, <2>4
  <2> QED
    BY <2>0, <2>5
<1> HIDE DEF S
<1>3. N \in S
  BY <1>1, <1>2, InductionUpTo
<1>4. PICK f : Good(N, f)
  BY <1>3 DEF S
<1> QED
  BY <1>4 DEF IsIteration

\* Induction over sequences, with a set for the predicate.
LEMMA SeqInduction ==
  ASSUME NEW X, NEW S, <<>> \in S, \A s \in Seq(X), x \in X : s \in S => Append(s, x) \in S
  PROVE  Seq(X) \subseteq S
<1> SUFFICES ASSUME NEW t \in Seq(X), t \notin S PROVE FALSE
  OBVIOUS
<1> DEFINE L == {Len(s) : s \in Seq(X) \ S}
<1>1. L \subseteq Nat /\ L # {}
  BY LenProperties
<1>2. PICK n \in L : \A k \in L : n <= k
  BY <1>1, LeastNumber
<1>3. PICK s \in Seq(X) \ S : Len(s) = n
  BY <1>2
<1>4. PICK u \in Seq(X), x \in X : s = Append(u, x)
  <2>1. s # <<>>
    BY <1>3
  <2> QED
    BY <1>3, <2>1, SequenceEmptyOrAppend
<1>5. Len(s) = Len(u) + 1 /\ Len(u) \in Nat
  BY <1>4, AppendProperties, LenProperties
<1>6. u \notin S
  BY <1>3, <1>4
<1> QED
  BY <1>1, <1>2, <1>3, <1>5, <1>6

-----------------------------------------------------------------------------
(* Sets of elements.                                                       *)

\* The elements of an extended sequence, and whether they are distinct.
LEMMA AppendSet ==
  ASSUME NEW X, NEW s \in Seq(X), NEW x \in X
  PROVE  /\ ToSet(Append(s, x)) = ToSet(s) \cup {x}
         /\ IsInjective(Append(s, x)) <=> IsInjective(s) /\ x \notin ToSet(s)
<1> DEFINE t == Append(s, x)
<1>1. /\ t \in Seq(X) /\ Len(s) \in Nat /\ Len(t) = Len(s) + 1 /\ t[Len(s) + 1] = x
      /\ \A n \in 1..Len(s) : t[n] = s[n]
  BY AppendProperties, LenProperties
<1>2. DOMAIN s = 1..Len(s) /\ DOMAIN t = 1..(Len(s) + 1)
  BY <1>1, LenProperties
<1> HIDE DEF t
<1>3. \A n \in DOMAIN t : n \in DOMAIN s \/ n = Len(s) + 1
  BY <1>1, <1>2
<1>4. DOMAIN s \subseteq DOMAIN t /\ Len(s) + 1 \in DOMAIN t /\ Len(s) + 1 \notin DOMAIN s
  BY <1>1, <1>2
<1>5. ToSet(t) = ToSet(s) \cup {x}
  BY <1>1, <1>2, <1>3, <1>4 DEF ToSet
<1>6. IsInjective(t) => IsInjective(s) /\ x \notin ToSet(s)
  BY <1>1, <1>2, <1>3, <1>4 DEF ToSet, IsInjective
<1>7. IsInjective(s) /\ x \notin ToSet(s) => IsInjective(t)
  BY <1>1, <1>2, <1>3, <1>4 DEF ToSet, IsInjective
<1> QED
  BY <1>5, <1>6, <1>7 DEF t

\* The same for two sequences in a row.
LEMMA ConcatSet ==
  ASSUME NEW X, NEW s \in Seq(X), NEW t \in Seq(X)
  PROVE  /\ ToSet(s \o t) = ToSet(s) \cup ToSet(t)
         /\ IsInjective(s) /\ IsInjective(t) /\ ToSet(s) \cap ToSet(t) = {} => IsInjective(s \o t)
<1> DEFINE u == s \o t
           m == Len(s)
           n == Len(t)
<1>1. /\ u \in Seq(X) /\ m \in Nat /\ n \in Nat /\ Len(u) = m + n
      /\ \A i \in 1..(m + n) : u[i] = IF i <= m THEN s[i] ELSE t[i - m]
  BY ConcatProperties, LenProperties
<1>2. DOMAIN s = 1..m /\ DOMAIN t = 1..n /\ DOMAIN u = 1..(m + n)
  BY <1>1, LenProperties
<1> HIDE DEF u, m, n
<1>3. /\ \A i \in DOMAIN u : IF i <= m THEN i \in DOMAIN s /\ u[i] = s[i]
                                       ELSE i - m \in DOMAIN t /\ u[i] = t[i - m]
      /\ \A i \in DOMAIN s : i \in DOMAIN u /\ u[i] = s[i]
      /\ \A i \in DOMAIN t : i + m \in DOMAIN u /\ u[i + m] = t[i]
  BY <1>1, <1>2
<1>4. ToSet(u) = ToSet(s) \cup ToSet(t)
  BY <1>3 DEF ToSet
<1>5. ASSUME IsInjective(s), IsInjective(t), ToSet(s) \cap ToSet(t) = {},
             NEW i \in DOMAIN u, NEW j \in DOMAIN u, u[i] = u[j]
      PROVE  i = j
  <2>1. CASE i <= m /\ j <= m
    BY <1>3, <1>5, <2>1 DEF IsInjective
  <2>2. CASE ~(i <= m) /\ ~(j <= m)
    <3>1. i - m = j - m
      BY <1>3, <1>5, <2>2 DEF IsInjective
    <3> QED
      BY <1>1, <1>2, <3>1
  <2>3. CASE i <= m /\ ~(j <= m)
    BY <1>3, <1>5, <2>3 DEF ToSet
  <2>4. CASE ~(i <= m) /\ j <= m
    BY <1>3, <1>5, <2>4 DEF ToSet
  <2> QED
    BY <2>1, <2>2, <2>3, <2>4
<1> QED
  BY <1>4, <1>5 DEF IsInjective, u

-----------------------------------------------------------------------------
(* Vectors that are filled block after block.                              *)

JoinStep(B, n, t) == IF n = 1 THEN B[n] ELSE t \o B[n]
IsJoining(f, B, X) ==
  f \in [1..Len(B) -> Seq(X)] /\ \A n \in 1..Len(B) : f[n] = JoinStep(B, n, f[n - 1])

\* The recursive function of FlattenSeq is defined.
LEMMA FlattenFunction ==
  ASSUME NEW X, NEW B \in Seq(Seq(X)), B # <<>>
  PROVE  \E f : IsJoining(f, B, X) /\ FlattenSeq(B) = f[Len(B)]
<1> DEFINE N == Len(B)
           body(g) == [i \in 1..N |-> IF i = 1 THEN B[i] ELSE g[i - 1] \o B[i]]
           after == CHOOSE g : g = body(g)
<1>1. N \in Nat /\ N # 0 /\ \A n \in 1..N : B[n] \in Seq(X)
  OBVIOUS
<1>2. FlattenSeq(B) = after[N]
  BY <1>1 DEF FlattenSeq
<1>3. \A n \in 1..N, t \in Seq(X) : JoinStep(B, n, t) \in Seq(X)
  BY <1>1 DEF JoinStep
<1>4. \E g : g = body(g)
  <2> DEFINE F == [p \in (1..N) \X Seq(X) |-> JoinStep(B, p[1], p[2])]
  <2>1. \A n \in 1..N, t \in Seq(X) : F[<<n, t>>] = JoinStep(B, n, t)
    OBVIOUS
  <2>2. IsStep(F, N, Seq(X))
    BY <1>3, <2>1 DEF IsStep
  <2>3. <<>> \in Seq(X)
    OBVIOUS
  <2> HIDE DEF F, N
  <2>4. PICK f : IsIteration(f, N, Seq(X), <<>>, F)
    BY <1>1, <2>2, <2>3, Iterates
  <2>5. \A n \in 1..N : f[n - 1] \in Seq(X) /\ f[n] = JoinStep(B, n, f[n - 1])
    <3>1. \A n \in 1..N : f[n - 1] \in Seq(X) /\ f[n] = F[<<n, f[n - 1]>>]
      BY <1>1, <2>4 DEF IsIteration
    <3> QED
      BY <2>1, <3>1
  <2> DEFINE g == [n \in 1..N |-> f[n]]
  <2>6. ASSUME NEW n \in 1..N PROVE g[n] = IF n = 1 THEN B[n] ELSE g[n - 1] \o B[n]
    <3>1. CASE n = 1
      BY <2>5, <3>1 DEF JoinStep
    <3>2. CASE n # 1
      <4>1. n - 1 \in 1..N
        BY <1>1, <3>2
      <4> QED
        BY <2>5, <3>2, <4>1 DEF JoinStep
    <3> QED
      BY <3>1, <3>2
  <2>7. g = body(g)
    BY <2>6
  <2> QED
    BY <2>7
<1>5. after = body(after)
  <2> HIDE DEF body
  <2> QED
    BY <1>4
<1> HIDE DEF after
<1>6. \A n \in 1..N : after[n] = JoinStep(B, n, after[n - 1])
  <2>1. after = [n \in 1..N |-> JoinStep(B, n, after[n - 1])]
    BY <1>5 DEF JoinStep
  <2> HIDE DEF N, body
  <2> QED
    BY <1>1, <2>1
<1> DEFINE T == {n \in 0..N : n # 0 => after[n] \in Seq(X)}
<1> HIDE DEF N
<1>7. 0..N \subseteq T
  <2>1. 0 \in T
    BY <1>1
  <2>2. ASSUME NEW n \in 1..N, n - 1 \in T PROVE n \in T
    <3>1. CASE n = 1
      BY <1>1, <1>6, <3>1 DEF JoinStep
    <3>2. CASE n # 1
      <4>1. n - 1 # 0 /\ n \in 0..N
        BY <1>1, <3>2
      <4>2. after[n - 1] \in Seq(X)
        BY <2>2, <4>1
      <4> QED
        BY <1>3, <1>6, <4>1, <4>2
    <3> QED
      BY <3>1, <3>2
  <2> HIDE DEF T
  <2> QED
    BY <1>1, <2>1, <2>2, InductionUpTo
<1>8. after \in [1..N -> Seq(X)]
  <2>1. after = [n \in 1..N |-> JoinStep(B, n, after[n - 1])]
    BY <1>5 DEF JoinStep
  <2>2. \A n \in 1..N : after[n] \in Seq(X)
    BY <1>1, <1>7
  <2> QED
    BY <2>1, <2>2
<1> QED
  BY <1>2, <1>6, <1>8 DEF IsJoining, N

\* Joining no blocks.
LEMMA FlattenEmpty == FlattenSeq(<<>>) = <<>> /\ ToSet(<<>>) = {} /\ IsInjective(<<>>)
  BY DEF FlattenSeq, ToSet, IsInjective

\* Joined blocks of elements of a set are a sequence over it.
LEMMA FlattenType ==
  ASSUME NEW X, NEW B \in Seq(Seq(X))
  PROVE  FlattenSeq(B) \in Seq(X)
<1>1. FlattenSeq(<<>>) = <<>>
  BY FlattenEmpty
<1>2. CASE B = <<>>
  <2>1. <<>> \in Seq(X)
    OBVIOUS
  <2> QED
    BY <1>1, <1>2, <2>1
<1>3. CASE B # <<>>
  <2>1. PICK f : IsJoining(f, B, X) /\ FlattenSeq(B) = f[Len(B)]
    BY <1>3, FlattenFunction
  <2>2. Len(B) \in 1..Len(B)
    BY <1>3
  <2> QED
    BY <1>1, <2>1, <2>2 DEF IsJoining
<1> QED
  BY <1>2, <1>3

\* One more block.
LEMMA FlattenAppend ==
  ASSUME NEW X, NEW B \in Seq(Seq(X)), NEW b \in Seq(X)
  PROVE  FlattenSeq(Append(B, b)) = FlattenSeq(B) \o b
<1> DEFINE C == Append(B, b)
           N == Len(B)
<1>1. /\ C \in Seq(Seq(X)) /\ C # <<>> /\ N \in Nat /\ Len(C) = N + 1 /\ C[N + 1] = b
      /\ \A n \in 1..N : C[n] = B[n]
  BY AppendProperties, LenProperties
<1> HIDE DEF C
<1>2. PICK g : IsJoining(g, C, X) /\ FlattenSeq(C) = g[Len(C)]
  BY <1>1, FlattenFunction
<1>3. g[N + 1] = JoinStep(C, N + 1, g[N])
  <2>1. N + 1 \in 1..Len(C) /\ (N + 1) - 1 = N
    BY <1>1
  <2> QED
    BY <1>2, <2>1 DEF IsJoining
<1>4. CASE B = <<>>
  <2>1. N = 0 /\ FlattenSeq(B) = <<>> /\ <<>> \o b = b
    BY <1>4, FlattenEmpty, ConcatEmptySeq
  <2> HIDE DEF N
  <2> QED
    BY <1>1, <1>2, <1>3, <2>1 DEF JoinStep, C
<1>5. CASE B # <<>>
  <2>1. PICK f : IsJoining(f, B, X) /\ FlattenSeq(B) = f[Len(B)]
    BY <1>5, FlattenFunction
  <2>2. N # 0
    BY <1>5
  <2> HIDE DEF N
  <2> DEFINE T == {n \in 0..N : n # 0 => f[n] = g[n]}
  <2>3. 0..N \subseteq T
    <3>1. 0 \in T
      BY <1>1
    <3>2. ASSUME NEW n \in 1..N, n - 1 \in T PROVE n \in T
      <4>1. n \in 1..Len(B) /\ n \in 1..Len(C) /\ n \in 0..N
        BY <1>1 DEF N
      <4>2. f[n] = JoinStep(B, n, f[n - 1]) /\ g[n] = JoinStep(C, n, g[n - 1])
        BY <1>2, <2>1, <4>1 DEF IsJoining
      <4> QED
        BY <1>1, <3>2, <4>1, <4>2 DEF JoinStep
    <3> HIDE DEF T
    <3> QED
      BY <1>1, <3>1, <3>2, InductionUpTo
  <2>4. f[N] = g[N]
    BY <1>1, <2>2, <2>3
  <2> QED
    BY <1>1, <1>2, <1>3, <2>1, <2>2, <2>4 DEF JoinStep, C, N
<1> QED
  BY <1>4, <1>5

\* The blocks of an extended vector of blocks.
LEMMA BlocksAppend ==
  ASSUME NEW Y, NEW B \in Seq(Y), NEW b \in Y
  PROVE  LET C == Append(B, b)
         IN  /\ C \in Seq(Y) /\ DOMAIN C = DOMAIN B \cup {Len(B) + 1} /\ Len(B) + 1 \notin DOMAIN B
             /\ C[Len(B) + 1] = b /\ \A i \in DOMAIN B : C[i] = B[i]
<1>1. /\ Append(B, b) \in Seq(Y) /\ Len(B) \in Nat /\ Len(Append(B, b)) = Len(B) + 1
      /\ Append(B, b)[Len(B) + 1] = b /\ \A n \in 1..Len(B) : Append(B, b)[n] = B[n]
  BY AppendProperties, LenProperties
<1>2. DOMAIN B = 1..Len(B) /\ DOMAIN Append(B, b) = 1..(Len(B) + 1)
  BY <1>1, LenProperties
<1> QED
  BY <1>1, <1>2

\* The elements of the blocks.
LEMMA FlattenElements ==
  ASSUME NEW X
  PROVE  \A B \in Seq(Seq(X)) : \A x : x \in ToSet(FlattenSeq(B)) <=> \E i \in DOMAIN B : x \in ToSet(B[i])
<1> DEFINE Good(B) == \A x : x \in ToSet(FlattenSeq(B)) <=> \E i \in DOMAIN B : x \in ToSet(B[i])
           S == {B \in Seq(Seq(X)) : Good(B)}
<1>1. <<>> \in S
  <2>1. <<>> \in Seq(Seq(X)) /\ FlattenSeq(<<>>) = <<>> /\ ToSet(<<>>) = {} /\ DOMAIN <<>> = {}
    BY FlattenEmpty
  <2> QED
    BY <2>1
<1>2. ASSUME NEW B \in Seq(Seq(X)), NEW b \in Seq(X), B \in S PROVE Append(B, b) \in S
  <2> DEFINE C == Append(B, b)
  <2>1. /\ C \in Seq(Seq(X)) /\ DOMAIN C = DOMAIN B \cup {Len(B) + 1}
        /\ C[Len(B) + 1] = b /\ \A i \in DOMAIN B : C[i] = B[i]
    BY BlocksAppend
  <2>2. FlattenSeq(C) = FlattenSeq(B) \o b /\ FlattenSeq(B) \in Seq(X)
    BY FlattenAppend, FlattenType
  <2>3. ToSet(FlattenSeq(C)) = ToSet(FlattenSeq(B)) \cup ToSet(b)
    BY <2>2, ConcatSet
  <2> HIDE DEF C
  <2>4. Good(C)
    BY <1>2, <2>1, <2>3
  <2> QED
    BY <2>1, <2>4 DEF C
<1> HIDE DEF S
<1>3. Seq(Seq(X)) \subseteq S
  BY <1>1, <1>2, SeqInduction
<1> QED
  BY <1>3 DEF S

\* The head of a sequence and the rest.
LEMMA TodoFacts ==
  ASSUME NEW X, NEW todo \in Seq(X), todo # <<>>
  PROVE  /\ Head(todo) \in X /\ Tail(todo) \in Seq(X) /\ Head(todo) = todo[1] /\ 1 \in DOMAIN todo
         /\ \A n \in DOMAIN Tail(todo) : n + 1 \in DOMAIN todo /\ Tail(todo)[n] = todo[n + 1]
         /\ \A n \in DOMAIN todo : n = 1 \/ (n - 1 \in DOMAIN Tail(todo) /\ Tail(todo)[n - 1] = todo[n])
<1>1. /\ Len(todo) \in Nat /\ Len(todo) # 0 /\ DOMAIN todo = 1..Len(todo) /\ Tail(todo) \in Seq(X)
      /\ DOMAIN Tail(todo) = 1..(Len(todo) - 1) /\ \A n \in 1..(Len(todo) - 1) : Tail(todo)[n] = todo[n + 1]
  OBVIOUS
<1>2. Head(todo) = todo[1] /\ todo[1] \in X
  BY <1>1
<1> QED
  BY <1>1, <1>2

-----------------------------------------------------------------------------
(* Finite sets, in a row and of numbers.                                   *)

\* The elements of a finite set in a row.
LEMMA RowFacts ==
  ASSUME NEW S, IsFiniteSet(S)
  PROVE  Cardinality(S) \in Nat /\ SetToSeq(S) \in [1..Cardinality(S) -> S]
<1>1. Cardinality(S) \in Nat /\ ExistsBijection(1..Cardinality(S), S)
  BY FS_CardinalityType
<1>2. PICK f : f \in Bijection(1..Cardinality(S), S)
  BY <1>1 DEF ExistsBijection
<1>3. f \in [1..Cardinality(S) -> S] /\ IsInjective(f)
  BY <1>2 DEF Bijection, Injection, IsInjective
<1> QED
  BY <1>1, <1>3 DEF SetToSeq

\* A sequence for each element of a finite set.
LEMMA EachFacts ==
  ASSUME NEW X, NEW S, IsFiniteSet(S), NEW f, \A x \in S : f[x] \in Seq(X)
  PROVE  FlattenSeq([i \in 1..Cardinality(S) |-> f[SetToSeq(S)[i]]]) \in Seq(X)
<1>1. [i \in 1..Cardinality(S) |-> f[SetToSeq(S)[i]]] \in Seq(Seq(X))
  BY RowFacts
<1> QED
  BY <1>1, FlattenType

\* Finitely many numbers have a least and a greatest.
LEMMA MinMax ==
  ASSUME NEW S, S \subseteq Nat, IsFiniteSet(S), S # {}
  PROVE  Min(S) \in S /\ Max(S) \in S /\ \A x \in S : Min(S) <= x /\ x <= Max(S)
<1>1. Min(S) \in S /\ \A x \in S : Min(S) <= x
  <2>1. \E x \in S : \A y \in S : x <= y
    BY LeastNumber
  <2> QED
    BY <2>1 DEF Min
<1>2. PICK f : f \in Bijection(1..Cardinality(S), S)
  BY FS_CardinalityType DEF ExistsBijection
<1> DEFINE N == Cardinality(S)
           P == {n \in 0..N : n = 0 \/ \E m \in 1..n : \A i \in 1..n : f[m] >= f[i]}
<1>3. N \in Nat /\ f \in [1..N -> S] /\ \A y \in S : \E i \in 1..N : f[i] = y
  BY <1>2, FS_CardinalityType DEF Bijection, Surjection, Injection
<1> HIDE DEF N
<1>4. 0 \in P
  BY <1>3
<1>5. ASSUME NEW n \in 1..N, n - 1 \in P PROVE n \in P
  <2>0. 1..n \subseteq 1..N
    BY <1>3
  <2>1. \A i \in 1..n : f[i] \in Nat
    <3>1. \A i \in 1..N : f[i] \in S
      BY <1>3
    <3> QED
      BY <2>0, <3>1
  <2>2. CASE n = 1
    BY <1>3, <2>1, <2>2
  <2>3. CASE n # 1
    <3>1. PICK m \in 1..(n - 1) : \A i \in 1..(n - 1) : f[m] >= f[i]
      BY <1>3, <1>5, <2>3
    <3>2. CASE f[m] >= f[n]
      <4>1. m \in 1..n /\ \A i \in 1..n : f[m] >= f[i]
        BY <1>3, <3>1, <3>2
      <4> QED
        BY <1>3, <4>1
    <3>3. CASE ~(f[m] >= f[n])
      <4>1. n \in 1..n /\ \A i \in 1..n : f[n] >= f[i]
        <5>1. n \in 1..n
          BY <1>3
        <5>2. ASSUME NEW i \in 1..n PROVE f[n] >= f[i]
          <6>1. f[n] \in Nat /\ f[i] \in Nat /\ f[m] \in Nat
            BY <1>3, <2>1, <3>1
          <6>2. i = n \/ i \in 1..(n - 1)
            BY <1>3
          <6> QED
            BY <3>1, <3>3, <6>1, <6>2
        <5> QED
          BY <5>1, <5>2
      <4> QED
        BY <1>3, <4>1
    <3> QED
      BY <3>2, <3>3
  <2> QED
    BY <2>2, <2>3
<1>6. N \in P
  <2>1. 0..N \subseteq P
    <3> HIDE DEF P
    <3> QED
      BY <1>3, <1>4, <1>5, InductionUpTo
  <2>2. N \in 0..N
    BY <1>3
  <2> HIDE DEF P
  <2> QED
    BY <2>1, <2>2
<1>7. N # 0
  <2>1. PICK y : y \in S
    OBVIOUS
  <2>2. PICK i \in 1..N : f[i] = y
    BY <1>3, <2>1
  <2> QED
    BY <1>3, <2>2
<1>8. PICK m \in 1..N : \A i \in 1..N : f[m] >= f[i]
  BY <1>6, <1>7
<1>9. f[m] \in S /\ \A y \in S : f[m] >= y
  BY <1>3, <1>8
<1>10. Max(S) \in S /\ \A x \in S : Max(S) >= x
  BY <1>9 DEF Max
<1>11. \A x \in S : x \in Nat
  OBVIOUS
<1> QED
  BY <1>1, <1>10, <1>11

\* Numbers lie between the least and the greatest of them, and more numbers only
\* widen the range.
LEMMA MoreSeen ==
  ASSUME NEW S, S \subseteq Nat, IsFiniteSet(S), S # {}, NEW T, T \subseteq Nat, IsFiniteSet(T), S \subseteq T
  PROVE  /\ Min(S) \in Nat /\ Max(S) \in Nat /\ \A x \in S : Min(S) <= x /\ x <= Max(S)
         /\ Min(T) \in Nat /\ Max(T) \in Nat /\ Min(T) <= Min(S) /\ Max(S) <= Max(T)
<1>1. Min(S) \in S /\ Max(S) \in S /\ \A x \in S : Min(S) <= x /\ x <= Max(S)
  BY MinMax
<1>2. Min(T) \in T /\ Max(T) \in T /\ \A x \in T : Min(T) <= x /\ x <= Max(T)
  BY MinMax
<1> QED
  BY <1>1, <1>2

-----------------------------------------------------------------------------
(* Products.                                                               *)

\* Products by the same number are in the order of what is multiplied.
LEMMA Products ==
  ASSUME NEW p \in Nat, NEW q \in Nat, p <= q, NEW d \in Nat
  PROVE  p * d \in Nat /\ p * d <= q * d
<1>1. PICK r \in Nat : q = p + r
  <2>1. q - p \in Nat /\ q = p + (q - p)
    OBVIOUS
  <2> QED
    BY <2>1
<1>2. q * d = p * d + r * d /\ p * d \in Nat /\ r * d \in Nat
  BY <1>1
<1> QED
  BY <1>2

\* A product of a sum.
LEMMA ProductOfSum ==
  ASSUME NEW p \in Int, NEW d \in Int, NEW e \in Int
  PROVE  p * (d + e) = p * d + p * e /\ p * (d - e) = p * d - p * e /\ p * d \in Int /\ p * e \in Int
OBVIOUS

\* A product of an inequality.
LEMMA Scaled ==
  ASSUME NEW s \in Nat, NEW p \in Int, NEW q \in Int, p <= q
  PROVE  s * p \in Int /\ s * q \in Int /\ s * p <= s * q
<1>1. PICK r \in Nat : q = p + r
  <2>1. q - p \in Nat /\ q = p + (q - p)
    OBVIOUS
  <2> QED
    BY <2>1
<1>2. s * (p + r) = s * p + s * r /\ s * p \in Int /\ s * r \in Nat
  OBVIOUS
<1> QED
  BY <1>1, <1>2

\* What one more term adds to the bounds of a sum.
LEMMA SumStep ==
  ASSUME NEW t \in Nat, NEW u \in Nat, NEW low \in Int, NEW high \in Int, low <= high, NEW acc \in Int, t * low <= acc, acc <= t * high
  PROVE  acc + u * high \in Int /\ (t + u) * low <= acc + u * high /\ acc + u * high <= (t + u) * high
<1>1. u * low <= u * high /\ u * low \in Int /\ u * high \in Int /\ t * low \in Int /\ t * high \in Int
  BY Scaled
<1>2. (t + u) * low = t * low + u * low /\ (t + u) * high = t * high + u * high
  OBVIOUS
<1> QED
  BY <1>1, <1>2
=============================================================================
