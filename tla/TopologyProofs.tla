--------------------------- MODULE TopologyProofs ---------------------------
(***************************************************************************)
(* Proofs about Topology, for machines of any size and any placement of    *)
(* their cores: the hierarchy that is built is the one of the hardware and *)
(* a client builds the same, cores report the modulation set on them, and  *)
(* rollbacks restore cores.                                                *)
(***************************************************************************)
EXTENDS Topology, SequenceLemmas

-----------------------------------------------------------------------------
(* Kept: a loop that keeps some of the elements of a vector.               *)

KeepStep(s, I, n, t) == IF n \in I THEN Append(t, s[n]) ELSE t
IsKeeping(f, s, I, X) ==
  /\ f \in [0..Len(s) -> Seq(X)] /\ f[0] = <<>>
  /\ \A n \in 1..Len(s) : f[n] = KeepStep(s, I, n, f[n - 1])

\* The loop is defined, and builds a sequence step by step.
LEMMA KeptFunction ==
  ASSUME NEW X, NEW s \in Seq(X), NEW I
  PROVE  \E f : IsKeeping(f, s, I, X) /\ Kept(s, I) = f[Len(s)]
<1> DEFINE N == Len(s)
           body(g) == [n \in 0..N |-> IF n = 0 THEN <<>> ELSE IF n \in I THEN Append(g[n - 1], s[n]) ELSE g[n - 1]]
           after == CHOOSE g : g = body(g)
<1>1. N \in Nat /\ \A n \in 1..N : s[n] \in X
  OBVIOUS
<1>2. Kept(s, I) = after[N]
  BY DEF Kept
<1>3. \A n \in 1..N, t \in Seq(X) : KeepStep(s, I, n, t) \in Seq(X)
  BY <1>1 DEF KeepStep
<1>4. \E g : g = body(g) /\ g \in [0..N -> Seq(X)]
  <2> DEFINE F == [p \in (1..N) \X Seq(X) |-> KeepStep(s, I, p[1], p[2])]
  <2>1. \A n \in 1..N, t \in Seq(X) : F[<<n, t>>] = KeepStep(s, I, n, t)
    OBVIOUS
  <2>2. IsStep(F, N, Seq(X))
    BY <1>3, <2>1 DEF IsStep
  <2>3. <<>> \in Seq(X)
    OBVIOUS
  <2> HIDE DEF F, N
  <2>4. PICK f : IsIteration(f, N, Seq(X), <<>>, F)
    BY <1>1, <2>2, <2>3, Iterates
  <2>5. \A n \in 1..N : f[n - 1] \in Seq(X) /\ f[n] = F[<<n, f[n - 1]>>]
    BY <1>1, <2>4 DEF IsIteration
  <2>6. ASSUME NEW n \in 0..N PROVE f[n] = IF n = 0 THEN <<>> ELSE KeepStep(s, I, n, f[n - 1])
    <3>1. CASE n = 0
      BY <2>4, <3>1 DEF IsIteration
    <3>2. CASE n # 0
      <4>1. n \in 1..N
        BY <1>1, <3>2
      <4> QED
        BY <2>1, <2>5, <3>2, <4>1
    <3> QED
      BY <3>1, <3>2
  <2>7. f = [n \in 0..N |-> IF n = 0 THEN <<>> ELSE KeepStep(s, I, n, f[n - 1])]
    BY <2>4, <2>6 DEF IsIteration
  <2> QED
    BY <2>4, <2>7 DEF KeepStep, IsIteration
<1>5. after = body(after)
  <2> HIDE DEF body
  <2> QED
    BY <1>4
<1> HIDE DEF after
<1>6. after[0] = <<>> /\ \A n \in 1..N : after[n] = KeepStep(s, I, n, after[n - 1])
  <2>1. after = [n \in 0..N |-> IF n = 0 THEN <<>> ELSE KeepStep(s, I, n, after[n - 1])]
    BY <1>5 DEF KeepStep
  <2> HIDE DEF N, body
  <2> QED
    BY <1>1, <2>1
<1> DEFINE T == {n \in 0..N : after[n] \in Seq(X)}
<1> HIDE DEF N
<1>7. 0..N \subseteq T
  <2>1. 0 \in T
    <3>1. 0 \in 0..N /\ <<>> \in Seq(X)
      BY <1>1
    <3> QED
      BY <1>6, <3>1
  <2>2. ASSUME NEW n \in 1..N, n - 1 \in T PROVE n \in T
    BY <1>1, <1>3, <1>6, <2>2
  <2> HIDE DEF T
  <2> QED
    BY <1>1, <2>1, <2>2, InductionUpTo
<1>8. after \in [0..N -> Seq(X)]
  <2>1. after = [n \in 0..N |-> IF n = 0 THEN <<>> ELSE KeepStep(s, I, n, after[n - 1])]
    BY <1>5 DEF KeepStep
  <2> QED
    BY <1>7, <2>1
<1> QED
  BY <1>2, <1>6, <1>8 DEF IsKeeping, N

\* Nothing is kept of an empty vector.
LEMMA KeptEmpty == \A I : Kept(<<>>, I) = <<>>
<1> TAKE I
<1>1. <<>> \in Seq({}) /\ Len(<<>>) = 0
  OBVIOUS
<1>2. PICK f : IsKeeping(f, <<>>, I, {}) /\ Kept(<<>>, I) = f[Len(<<>>)]
  BY <1>1, KeptFunction
<1> QED
  BY <1>1, <1>2 DEF IsKeeping

\* What is kept are elements of the vector's set.
LEMMA KeptType ==
  ASSUME NEW X, NEW s \in Seq(X), NEW I
  PROVE  Kept(s, I) \in Seq(X)
<1>1. PICK f : IsKeeping(f, s, I, X) /\ Kept(s, I) = f[Len(s)]
  BY KeptFunction
<1>2. Len(s) \in 0..Len(s)
  OBVIOUS
<1> QED
  BY <1>1, <1>2 DEF IsKeeping

\* The last round of the loop; only the positions below matter for the others.
LEMMA KeptAppend ==
  ASSUME NEW X, NEW s \in Seq(X), NEW x \in X, NEW I, NEW J,
         \A n \in 1..Len(s) : n \in I <=> n \in J
  PROVE  Kept(Append(s, x), I) = IF Len(s) + 1 \in I THEN Append(Kept(s, J), x) ELSE Kept(s, J)
<1> DEFINE t == Append(s, x)
           N == Len(s)
<1>1. /\ t \in Seq(X) /\ N \in Nat /\ Len(t) = N + 1 /\ t[N + 1] = x
      /\ \A n \in 1..N : t[n] = s[n]
  BY AppendProperties, LenProperties
<1> HIDE DEF t
<1>2. PICK f : IsKeeping(f, s, J, X) /\ Kept(s, J) = f[Len(s)]
  BY KeptFunction
<1>3. PICK g : IsKeeping(g, t, I, X) /\ Kept(t, I) = g[Len(t)]
  BY <1>1, KeptFunction
<1> HIDE DEF N
<1> DEFINE T == {n \in 0..N : f[n] = g[n]}
<1>4. 0..N \subseteq T
  <2>1. 0 \in T
    BY <1>1, <1>2, <1>3 DEF IsKeeping
  <2>2. ASSUME NEW n \in 1..N, n - 1 \in T PROVE n \in T
    <3>1. n \in 1..Len(s) /\ n \in 1..Len(t) /\ n \in 0..N
      BY <1>1 DEF N
    <3>2. f[n] = KeepStep(s, J, n, f[n - 1]) /\ g[n] = KeepStep(t, I, n, g[n - 1])
      BY <1>2, <1>3, <3>1 DEF IsKeeping
    <3> QED
      BY <1>1, <2>2, <3>1, <3>2 DEF KeepStep
  <2> HIDE DEF T
  <2> QED
    BY <1>1, <2>1, <2>2, InductionUpTo
<1>5. f[N] = g[N]
  BY <1>1, <1>4
<1>6. g[N + 1] = KeepStep(t, I, N + 1, g[N])
  <2>1. N + 1 \in 1..Len(t) /\ (N + 1) - 1 = N
    BY <1>1
  <2> QED
    BY <1>3, <2>1 DEF IsKeeping
<1> QED
  BY <1>1, <1>2, <1>3, <1>5, <1>6 DEF KeepStep, t, N

\* How many elements are kept depends on the length of the vector only.
LEMMA KeptLen ==
  ASSUME NEW X, NEW s \in Seq(X), NEW Y, NEW t \in Seq(Y), Len(s) = Len(t), NEW I
  PROVE  Len(Kept(s, I)) = Len(Kept(t, I))
<1> DEFINE N == Len(s)
<1>1. /\ N \in Nat /\ N = Len(t)
      /\ \A n \in 1..N : s[n] \in X /\ t[n] \in Y
  OBVIOUS
<1>2. PICK f : IsKeeping(f, s, I, X) /\ Kept(s, I) = f[Len(s)]
  BY KeptFunction
<1>3. PICK g : IsKeeping(g, t, I, Y) /\ Kept(t, I) = g[Len(t)]
  BY KeptFunction
<1>4. /\ f[0] = <<>> /\ g[0] = <<>>
      /\ \A n \in 1..N : f[n] = KeepStep(s, I, n, f[n - 1]) /\ g[n] = KeepStep(t, I, n, g[n - 1])
      /\ \A n \in 0..N : f[n] \in Seq(X) /\ g[n] \in Seq(Y)
  BY <1>1, <1>2, <1>3 DEF IsKeeping
<1> HIDE DEF N
<1> DEFINE T == {n \in 0..N : Len(f[n]) = Len(g[n])}
<1>5. 0..N \subseteq T
  <2>1. 0 \in T
    BY <1>1, <1>4
  <2>2. ASSUME NEW n \in 1..N, n - 1 \in T PROVE n \in T
    <3>1. n - 1 \in 0..N /\ n \in 0..N
      BY <1>1
    <3>2. Len(Append(f[n - 1], s[n])) = Len(f[n - 1]) + 1 /\ Len(Append(g[n - 1], t[n])) = Len(g[n - 1]) + 1
      BY <1>1, <1>4, <3>1
    <3> QED
      BY <1>4, <2>2, <3>1, <3>2 DEF KeepStep
  <2> HIDE DEF T
  <2> QED
    BY <1>1, <2>1, <2>2, InductionUpTo
<1> QED
  BY <1>1, <1>2, <1>3, <1>5 DEF N

-----------------------------------------------------------------------------
(* The elements in a set, and the distinct ones.                           *)

\* A loop that keeps the elements in the set P.
Sel(s, P) == Kept(s, {i \in DOMAIN s : s[i] \in P})

\* Selecting from nothing.
LEMMA SelEmpty == \A P : Sel(<<>>, P) = <<>>
  BY KeptEmpty DEF Sel

\* What is selected from a sequence is a sequence over the same set.
LEMMA SelType ==
  ASSUME NEW X, NEW s \in Seq(X), NEW P
  PROVE  Sel(s, P) \in Seq(X)
  BY KeptType DEF Sel

\* An element that is appended is selected if it is in the set.
LEMMA SelAppend ==
  ASSUME NEW X, NEW s \in Seq(X), NEW x \in X, NEW P
  PROVE  Sel(Append(s, x), P) = IF x \in P THEN Append(Sel(s, P), x) ELSE Sel(s, P)
<1> DEFINE t == Append(s, x)
           I == {i \in DOMAIN t : t[i] \in P}
           J == {i \in DOMAIN s : s[i] \in P}
<1>1. /\ t \in Seq(X) /\ Len(s) \in Nat /\ Len(t) = Len(s) + 1 /\ t[Len(s) + 1] = x
      /\ \A n \in 1..Len(s) : t[n] = s[n]
  BY AppendProperties, LenProperties
<1>2. DOMAIN s = 1..Len(s) /\ DOMAIN t = 1..(Len(s) + 1)
  BY <1>1, LenProperties
<1>3. \A n \in 1..Len(s) : n \in I <=> n \in J
  <2> HIDE DEF t
  <2> QED
    BY <1>1, <1>2
<1>4. Len(s) + 1 \in I <=> x \in P
  <2> HIDE DEF t
  <2> QED
    BY <1>1, <1>2
<1> HIDE DEF I, J
<1>5. Kept(Append(s, x), I) = IF Len(s) + 1 \in I THEN Append(Kept(s, J), x) ELSE Kept(s, J)
  BY <1>3, KeptAppend
<1> QED
  BY <1>4, <1>5 DEF Sel, I, J

\* Exactly the elements in P are kept, each as often as it was there.
LEMMA SelSet ==
  ASSUME NEW X, NEW P
  PROVE  \A s \in Seq(X) : /\ ToSet(Sel(s, P)) = ToSet(s) \cap P
                           /\ IsInjective(s) => IsInjective(Sel(s, P))
                           /\ ToSet(s) \subseteq P => Sel(s, P) = s
                           /\ ToSet(s) \cap P = {} => Sel(s, P) = <<>>
<1> DEFINE Good(s) == /\ ToSet(Sel(s, P)) = ToSet(s) \cap P
                      /\ IsInjective(s) => IsInjective(Sel(s, P))
                      /\ ToSet(s) \subseteq P => Sel(s, P) = s
                      /\ ToSet(s) \cap P = {} => Sel(s, P) = <<>>
           S == {s \in Seq(X) : Good(s)}
<1>1. <<>> \in S
  <2>1. <<>> \in Seq(X) /\ Sel(<<>>, P) = <<>> /\ ToSet(<<>>) = {}
    BY SelEmpty DEF ToSet
  <2> QED
    BY <2>1
<1>2. ASSUME NEW s \in Seq(X), NEW x \in X, s \in S PROVE Append(s, x) \in S
  <2> DEFINE t == Append(s, x)
  <2>1. t \in Seq(X) /\ Good(s) /\ Sel(s, P) \in Seq(X)
    BY <1>2, SelType
  <2>2. Sel(t, P) = IF x \in P THEN Append(Sel(s, P), x) ELSE Sel(s, P)
    BY SelAppend
  <2>3. /\ ToSet(t) = ToSet(s) \cup {x}
        /\ IsInjective(t) <=> IsInjective(s) /\ x \notin ToSet(s)
    BY AppendSet
  <2>4. /\ ToSet(Append(Sel(s, P), x)) = ToSet(Sel(s, P)) \cup {x}
        /\ IsInjective(Append(Sel(s, P), x)) <=> IsInjective(Sel(s, P)) /\ x \notin ToSet(Sel(s, P))
    BY <2>1, AppendSet
  <2>5. Good(t)
    <3>1. CASE x \in P
      <4>1. Sel(t, P) = Append(Sel(s, P), x)
        BY <2>2, <3>1
      <4>2. ToSet(t) \subseteq P => Sel(t, P) = t
        BY <2>1, <2>3, <4>1
      <4> HIDE DEF t
      <4> QED
        BY <2>1, <2>3, <2>4, <3>1, <4>1, <4>2
    <3>2. CASE x \notin P
      <4>1. Sel(t, P) = Sel(s, P)
        BY <2>2, <3>2
      <4> HIDE DEF t
      <4> QED
        BY <2>1, <2>3, <3>2, <4>1
    <3> QED
      BY <3>1, <3>2
  <2> QED
    BY <2>1, <2>5
<1> HIDE DEF S
<1>3. Seq(X) \subseteq S
  BY <1>1, <1>2, SeqInduction
<1> QED
  BY <1>3 DEF S

\* The loop over two vectors in a row.
LEMMA SelConcat ==
  ASSUME NEW X, NEW P, NEW s \in Seq(X)
  PROVE  \A t \in Seq(X) : Sel(s \o t, P) = Sel(s, P) \o Sel(t, P)
<1> DEFINE S == {t \in Seq(X) : Sel(s \o t, P) = Sel(s, P) \o Sel(t, P)}
<1>0. Sel(s, P) \in Seq(X)
  BY SelType
<1>1. <<>> \in S
  <2>1. s \o <<>> = s /\ Sel(s, P) \o <<>> = Sel(s, P) /\ <<>> \in Seq(X)
    BY <1>0, ConcatEmptySeq
  <2> QED
    BY <2>1, SelEmpty
<1>2. ASSUME NEW t \in Seq(X), NEW x \in X, t \in S PROVE Append(t, x) \in S
  <2>1. s \o t \in Seq(X) /\ Sel(t, P) \in Seq(X) /\ Append(t, x) \in Seq(X)
    BY SelType
  <2>2. s \o Append(t, x) = Append(s \o t, x) /\ Sel(s, P) \o Append(Sel(t, P), x) = Append(Sel(s, P) \o Sel(t, P), x)
    BY <1>0, <2>1
  <2>3. Sel(Append(s \o t, x), P) = IF x \in P THEN Append(Sel(s \o t, P), x) ELSE Sel(s \o t, P)
    BY <2>1, SelAppend
  <2>4. Sel(Append(t, x), P) = IF x \in P THEN Append(Sel(t, P), x) ELSE Sel(t, P)
    BY SelAppend
  <2> QED
    BY <1>2, <2>1, <2>2, <2>3, <2>4
<1> HIDE DEF S
<1>3. Seq(X) \subseteq S
  BY <1>1, <1>2, SeqInduction
<1> QED
  BY <1>3 DEF S

\* A vector that is extended under !contains().
LEMMA DistinctAppend ==
  ASSUME NEW X, NEW s \in Seq(X), NEW x \in X
  PROVE  Distinct(Append(s, x)) = IF x \in ToSet(s) THEN Distinct(s) ELSE Append(Distinct(s), x)
<1> DEFINE t == Append(s, x)
           I == {i \in DOMAIN t : \A j \in 1..(i - 1) : t[j] # t[i]}
           J == {i \in DOMAIN s : \A j \in 1..(i - 1) : s[j] # s[i]}
<1>1. /\ t \in Seq(X) /\ Len(s) \in Nat /\ Len(t) = Len(s) + 1 /\ t[Len(s) + 1] = x
      /\ \A n \in 1..Len(s) : t[n] = s[n]
  BY AppendProperties, LenProperties
<1>2. DOMAIN s = 1..Len(s) /\ DOMAIN t = 1..(Len(s) + 1)
  BY <1>1, LenProperties
<1>3. ASSUME NEW n \in 1..Len(s) PROVE n \in I <=> n \in J
  <2>1. n \in DOMAIN s /\ n \in DOMAIN t /\ \A j \in 1..(n - 1) : j \in 1..Len(s)
    BY <1>1, <1>2
  <2> HIDE DEF t
  <2> QED
    BY <1>1, <2>1
<1>4. Len(s) + 1 \in I <=> x \notin ToSet(s)
  <2>1. Len(s) + 1 \in DOMAIN t /\ (Len(s) + 1) - 1 = Len(s)
    BY <1>1, <1>2
  <2> HIDE DEF t
  <2> QED
    BY <1>1, <1>2, <2>1 DEF ToSet
<1> HIDE DEF I, J
<1>5. Kept(Append(s, x), I) = IF Len(s) + 1 \in I THEN Append(Kept(s, J), x) ELSE Kept(s, J)
  BY <1>3, KeptAppend
<1> QED
  BY <1>4, <1>5 DEF Distinct, I, J

\* Nothing has no repetitions.
LEMMA DistinctEmpty == Distinct(<<>>) = <<>>
  BY KeptEmpty DEF Distinct

\* Removing repetitions keeps the type of a sequence.
LEMMA DistinctType ==
  ASSUME NEW X, NEW s \in Seq(X)
  PROVE  Distinct(s) \in Seq(X)
  BY KeptType DEF Distinct

\* It has the elements of the vector, each once.
LEMMA DistinctSet ==
  ASSUME NEW X
  PROVE  \A s \in Seq(X) : ToSet(Distinct(s)) = ToSet(s) /\ IsInjective(Distinct(s))
<1> DEFINE Good(s) == ToSet(Distinct(s)) = ToSet(s) /\ IsInjective(Distinct(s))
           S == {s \in Seq(X) : Good(s)}
<1>1. <<>> \in S
  BY DistinctEmpty DEF IsInjective
<1>2. ASSUME NEW s \in Seq(X), NEW x \in X, s \in S PROVE Append(s, x) \in S
  <2> DEFINE t == Append(s, x)
  <2>1. t \in Seq(X) /\ Good(s) /\ Distinct(s) \in Seq(X)
    BY <1>2, DistinctType
  <2>2. Distinct(t) = IF x \in ToSet(s) THEN Distinct(s) ELSE Append(Distinct(s), x)
    BY DistinctAppend
  <2>3. ToSet(t) = ToSet(s) \cup {x}
    BY AppendSet
  <2>4. /\ ToSet(Append(Distinct(s), x)) = ToSet(Distinct(s)) \cup {x}
        /\ IsInjective(Append(Distinct(s), x)) <=> IsInjective(Distinct(s)) /\ x \notin ToSet(Distinct(s))
    BY <2>1, AppendSet
  <2> HIDE DEF t
  <2>5. Good(t)
    BY <2>1, <2>2, <2>3, <2>4
  <2> QED
    BY <2>1, <2>5 DEF t
<1> HIDE DEF S
<1>3. Seq(X) \subseteq S
  BY <1>1, <1>2, SeqInduction
<1> QED
  BY <1>3 DEF S

\* A run of the same new element adds it once.
LEMMA DistinctRun ==
  ASSUME NEW X, NEW s \in Seq(X), NEW x \in X, x \notin ToSet(s)
  PROVE  \A t \in Seq({x}) : t # <<>> => Distinct(s \o t) = Append(Distinct(s), x)
<1> DEFINE S == {t \in Seq({x}) : t # <<>> => Distinct(s \o t) = Append(Distinct(s), x)}
<1>1. <<>> \in S
  OBVIOUS
<1>2. ASSUME NEW t \in Seq({x}), NEW y \in {x}, t \in S PROVE Append(t, y) \in S
  <2>1. t \in Seq(X) /\ s \o t \in Seq(X) /\ Append(t, x) \in Seq({x}) /\ y = x
    BY SeqMonotonic, ConcatProperties
  <2>2. s \o Append(t, x) = Append(s \o t, x)
    BY <2>1
  <2>3. Distinct(Append(s \o t, x)) = IF x \in ToSet(s \o t) THEN Distinct(s \o t) ELSE Append(Distinct(s \o t), x)
    BY <2>1, DistinctAppend
  <2>4. ToSet(s \o t) = ToSet(s) \cup ToSet(t)
    BY <2>1, ConcatSet
  <2>5. CASE t = <<>>
    <3>1. s \o t = s
      BY <2>5, ConcatEmptySeq
    <3> QED
      BY <2>1, <2>2, <2>3, <3>1
  <2>6. CASE t # <<>>
    <3>1. t[1] = x /\ 1 \in DOMAIN t
      BY <2>6
    <3>2. x \in ToSet(t)
      BY <3>1 DEF ToSet
    <3> QED
      BY <1>2, <2>1, <2>2, <2>3, <2>4, <2>6, <3>2
  <2> QED
    BY <2>5, <2>6
<1> HIDE DEF S
<1>3. Seq({x}) \subseteq S
  BY <1>1, <1>2, SeqInduction
<1> QED
  BY <1>3 DEF S

-----------------------------------------------------------------------------
(* Vectors that are filled block after block.                              *)

\* Blocks without repetitions that have no element in common.
LEMMA AllFlattenInjective ==
  ASSUME NEW X
  PROVE  \A B \in Seq(Seq(X)) :
           /\ \A i \in DOMAIN B : IsInjective(B[i])
           /\ \A i, j \in DOMAIN B : i # j => ToSet(B[i]) \cap ToSet(B[j]) = {}
           => IsInjective(FlattenSeq(B))
<1> DEFINE Apart(B) == /\ \A i \in DOMAIN B : IsInjective(B[i])
                       /\ \A i, j \in DOMAIN B : i # j => ToSet(B[i]) \cap ToSet(B[j]) = {}
           S == {B \in Seq(Seq(X)) : Apart(B) => IsInjective(FlattenSeq(B))}
<1>1. <<>> \in S
  <2>1. <<>> \in Seq(Seq(X)) /\ FlattenSeq(<<>>) = <<>> /\ IsInjective(<<>>)
    BY FlattenEmpty
  <2> QED
    BY <2>1
<1>2. ASSUME NEW B \in Seq(Seq(X)), NEW b \in Seq(X), B \in S PROVE Append(B, b) \in S
  <2> DEFINE C == Append(B, b)
  <2>1. /\ C \in Seq(Seq(X)) /\ DOMAIN C = DOMAIN B \cup {Len(B) + 1} /\ Len(B) + 1 \notin DOMAIN B
        /\ C[Len(B) + 1] = b /\ \A i \in DOMAIN B : C[i] = B[i]
    BY BlocksAppend
  <2>2. FlattenSeq(C) = FlattenSeq(B) \o b /\ FlattenSeq(B) \in Seq(X)
    BY FlattenAppend, FlattenType
  <2> HIDE DEF C
  <2>3. ASSUME Apart(C) PROVE IsInjective(FlattenSeq(C))
    <3>1. Apart(B) /\ IsInjective(b) /\ \A i \in DOMAIN B : ToSet(B[i]) \cap ToSet(b) = {}
      BY <2>1, <2>3
    <3>2. ToSet(FlattenSeq(B)) \cap ToSet(b) = {}
      BY <3>1, FlattenElements
    <3>3. IsInjective(FlattenSeq(B))
      BY <1>2, <3>1
    <3> QED
      BY <2>2, <3>1, <3>2, <3>3, ConcatSet
  <2> QED
    BY <2>1, <2>3 DEF C
<1> HIDE DEF S
<1>3. Seq(Seq(X)) \subseteq S
  BY <1>1, <1>2, SeqInduction
<1> QED
  BY <1>3 DEF S

\* The same for one sequence of blocks.
LEMMA FlattenInjective ==
  ASSUME NEW X, NEW blocks \in Seq(Seq(X)),
         \A i \in DOMAIN blocks : IsInjective(blocks[i]),
         \A i, j \in DOMAIN blocks : i # j => ToSet(blocks[i]) \cap ToSet(blocks[j]) = {}
  PROVE  IsInjective(FlattenSeq(blocks))
  BY AllFlattenInjective

\* A loop that keeps elements of one block only.
LEMMA AllFlattenSel ==
  ASSUME NEW X, NEW P
  PROVE  \A B \in Seq(Seq(X)) : \A i \in DOMAIN B :
           (\A j \in DOMAIN B : j # i => ToSet(B[j]) \cap P = {})
           => Sel(FlattenSeq(B), P) = Sel(B[i], P)
<1> DEFINE Only(B, i) == \A j \in DOMAIN B : j # i => ToSet(B[j]) \cap P = {}
           S == {B \in Seq(Seq(X)) : \A i \in DOMAIN B : Only(B, i) => Sel(FlattenSeq(B), P) = Sel(B[i], P)}
<1>1. <<>> \in S
  <2>1. <<>> \in Seq(Seq(X)) /\ DOMAIN <<>> = {}
    OBVIOUS
  <2> QED
    BY <2>1
<1>2. ASSUME NEW B \in Seq(Seq(X)), NEW b \in Seq(X), B \in S PROVE Append(B, b) \in S
  <2> DEFINE C == Append(B, b)
  <2>1. /\ C \in Seq(Seq(X)) /\ DOMAIN C = DOMAIN B \cup {Len(B) + 1} /\ Len(B) + 1 \notin DOMAIN B
        /\ C[Len(B) + 1] = b /\ \A i \in DOMAIN B : C[i] = B[i]
    BY BlocksAppend
  <2>2. FlattenSeq(C) = FlattenSeq(B) \o b /\ FlattenSeq(B) \in Seq(X)
    BY FlattenAppend, FlattenType
  <2>3. Sel(FlattenSeq(C), P) = Sel(FlattenSeq(B), P) \o Sel(b, P)
    BY <2>2, SelConcat
  <2> HIDE DEF C
  <2>4. ASSUME NEW i \in DOMAIN C, Only(C, i) PROVE Sel(FlattenSeq(C), P) = Sel(C[i], P)
    <3>1. CASE i = Len(B) + 1
      <4>1. \A j \in DOMAIN B : ToSet(B[j]) \cap P = {}
        BY <2>1, <2>4, <3>1
      <4>2. ToSet(FlattenSeq(B)) \cap P = {}
        BY <4>1, FlattenElements
      <4>3. Sel(FlattenSeq(B), P) = <<>>
        BY <2>2, <4>2, SelSet
      <4>4. <<>> \o Sel(b, P) = Sel(b, P)
        BY SelType, ConcatEmptySeq
      <4> QED
        BY <2>1, <2>3, <3>1, <4>3, <4>4
    <3>2. CASE i \in DOMAIN B
      <4>1. Only(B, i) /\ ToSet(b) \cap P = {}
        BY <2>1, <2>4, <3>2
      <4>2. Sel(b, P) = <<>> /\ Sel(FlattenSeq(B), P) = Sel(B[i], P) /\ B[i] \in Seq(X)
        BY <1>2, <3>2, <4>1, SelSet
      <4>3. Sel(B[i], P) \o <<>> = Sel(B[i], P)
        BY <4>2, SelType, ConcatEmptySeq
      <4> QED
        BY <2>1, <2>3, <3>2, <4>2, <4>3
    <3> QED
      BY <2>1, <3>1, <3>2
  <2> QED
    BY <2>1, <2>4 DEF C
<1> HIDE DEF S
<1>3. Seq(Seq(X)) \subseteq S
  BY <1>1, <1>2, SeqInduction
<1> QED
  BY <1>3 DEF S

\* The same for one sequence of blocks.
LEMMA FlattenSel ==
  ASSUME NEW X, NEW P, NEW blocks \in Seq(Seq(X)), NEW k \in DOMAIN blocks,
         \A j \in DOMAIN blocks : j # k => ToSet(blocks[j]) \cap P = {}
  PROVE  Sel(FlattenSeq(blocks), P) = Sel(blocks[k], P)
  BY AllFlattenSel

\* The keys of the elements of a vector.
Keys(s, key) == [i \in DOMAIN s |-> key[s[i]]]

\* The keys of the elements of a sequence, position by position.
LEMMA KeysFacts ==
  ASSUME NEW X, NEW K, NEW key \in [X -> K], NEW s \in Seq(X)
  PROVE  /\ Keys(s, key) \in Seq(K) /\ Len(Keys(s, key)) = Len(s)
         /\ ToSet(Keys(s, key)) = {key[x] : x \in ToSet(s)}
<1>1. Keys(s, key) \in Seq(K) /\ Len(Keys(s, key)) = Len(s)
  BY DEF Keys
<1>2. ToSet(Keys(s, key)) = {key[x] : x \in ToSet(s)}
  BY DEF Keys, ToSet
<1> QED
  BY <1>1, <1>2

\* The keys of two sequences that are joined.
LEMMA KeysConcat ==
  ASSUME NEW X, NEW K, NEW key \in [X -> K], NEW s \in Seq(X), NEW t \in Seq(X)
  PROVE  Keys(s \o t, key) = Keys(s, key) \o Keys(t, key)
<1> DEFINE u == s \o t
           a == Keys(s, key)
           b == Keys(t, key)
<1>1. /\ u \in Seq(X) /\ Len(u) = Len(s) + Len(t) /\ Len(s) \in Nat /\ Len(t) \in Nat
      /\ \A i \in 1..(Len(s) + Len(t)) : u[i] = IF i <= Len(s) THEN s[i] ELSE t[i - Len(s)]
  BY ConcatProperties, LenProperties
<1> HIDE DEF u
<1>2. a \in Seq(K) /\ b \in Seq(K)
  <2>1. a \in Seq(K)
    BY DEF Keys
  <2>2. b \in Seq(K)
    BY DEF Keys
  <2> QED
    BY <2>1, <2>2
<1>7. Len(a) = Len(s) /\ Len(b) = Len(t)
  <2>1. Len(a) = Len(s)
    BY DEF Keys
  <2>2. Len(b) = Len(t)
    BY DEF Keys
  <2> QED
    BY <2>1, <2>2
<1>8. Keys(u, key) \in Seq(K) /\ Len(Keys(u, key)) = Len(u)
  BY <1>1 DEF Keys
<1>3. ASSUME NEW i \in 1..(Len(s) + Len(t))
      PROVE  Keys(u, key)[i] = IF i <= Len(s) THEN a[i] ELSE b[i - Len(s)]
  <2>1. Keys(u, key)[i] = key[u[i]]
    BY <1>1, LenProperties DEF Keys
  <2>2. CASE i <= Len(s)
    <3>1. i \in DOMAIN s
      BY <1>1, <2>2, LenProperties
    <3> QED
      BY <1>1, <2>1, <2>2, <3>1 DEF Keys
  <2>3. CASE ~(i <= Len(s))
    <3>1. i - Len(s) \in DOMAIN t
      BY <1>1, <2>3, LenProperties
    <3> QED
      BY <1>1, <2>1, <2>3, <3>1 DEF Keys
  <2> QED
    BY <2>2, <2>3
<1> HIDE DEF a, b
<1>4. /\ a \o b \in Seq(K) /\ Len(a \o b) = Len(a) + Len(b)
      /\ \A i \in 1..(Len(a) + Len(b)) : (a \o b)[i] = IF i <= Len(a) THEN a[i] ELSE b[i - Len(a)]
  BY <1>2, ConcatProperties
<1>5. \A i \in 1..Len(Keys(u, key)) : Keys(u, key)[i] = (a \o b)[i]
  BY <1>1, <1>3, <1>4, <1>7, <1>8
<1>6. Keys(u, key) = a \o b
  <2>1. Len(Keys(u, key)) = Len(a \o b)
    BY <1>1, <1>4, <1>7, <1>8
  <2> QED
    BY <1>4, <1>5, <1>8, <2>1, SeqEqual
<1> QED
  BY <1>6 DEF u, a, b

AreKeyed(B, ids, key) ==
  /\ Len(ids) = Len(B) /\ IsInjective(ids)
  /\ \A i \in DOMAIN B : B[i] # <<>> /\ \A x \in ToSet(B[i]) : key[x] = ids[i]

\* Blocks whose elements have one key each, all keys different: the keys in the
\* order in which they first appear are the ones of the blocks.
LEMMA FlattenDistinct ==
  ASSUME NEW X, NEW K, NEW key \in [X -> K]
  PROVE  \A B \in Seq(Seq(X)) : \A ids \in Seq(K) : AreKeyed(B, ids, key) => Distinct(Keys(FlattenSeq(B), key)) = ids
<1> USE DEF AreKeyed
<1> DEFINE Keyed(B, ids) == AreKeyed(B, ids, key)
           S == {B \in Seq(Seq(X)) : \A ids \in Seq(K) : Keyed(B, ids) => Distinct(Keys(FlattenSeq(B), key)) = ids}
<1>1. <<>> \in S
  <2>1. <<>> \in Seq(Seq(X)) /\ FlattenSeq(<<>>) = <<>> /\ Keys(<<>>, key) = <<>> /\ Len(<<>>) = 0
    BY FlattenEmpty DEF Keys
  <2>2. \A ids \in Seq(K) : Len(ids) = 0 => ids = <<>>
    OBVIOUS
  <2> QED
    BY <2>1, <2>2, DistinctEmpty
<1>2. ASSUME NEW B \in Seq(Seq(X)), NEW b \in Seq(X), B \in S PROVE Append(B, b) \in S
  <2> DEFINE C == Append(B, b)
  <2>1. /\ C \in Seq(Seq(X)) /\ DOMAIN C = DOMAIN B \cup {Len(B) + 1} /\ Len(B) + 1 \notin DOMAIN B
        /\ C[Len(B) + 1] = b /\ \A i \in DOMAIN B : C[i] = B[i]
    BY BlocksAppend
  <2>2. FlattenSeq(C) = FlattenSeq(B) \o b /\ FlattenSeq(B) \in Seq(X)
    BY FlattenAppend, FlattenType
  <2>3. Len(C) = Len(B) + 1 /\ Len(B) \in Nat /\ DOMAIN B = 1..Len(B)
    BY AppendProperties, LenProperties
  <2> HIDE DEF C
  <2>4. ASSUME NEW ids \in Seq(K), Keyed(C, ids) PROVE Distinct(Keys(FlattenSeq(C), key)) = ids
    <3>1. ids # <<>>
      BY <2>3, <2>4
    <3>2. PICK js \in Seq(K), k \in K : ids = Append(js, k)
      BY <3>1, SequenceEmptyOrAppend
    <3>3. Len(js) = Len(B) /\ ids[Len(B) + 1] = k /\ \A i \in DOMAIN B : ids[i] = js[i]
      BY <2>3, <2>4, <3>2, AppendProperties, LenProperties
    <3>4. IsInjective(js) /\ k \notin ToSet(js)
      BY <2>4, <3>2, AppendSet
    <3>5. Keyed(B, js)
      BY <2>1, <2>4, <3>3, <3>4
    <3>6. b # <<>> /\ \A x \in ToSet(b) : key[x] = k
      BY <2>1, <2>4, <3>3
    <3>7. Distinct(Keys(FlattenSeq(B), key)) = js
      BY <1>2, <3>5
    <3>8. k \notin ToSet(Keys(FlattenSeq(B), key))
      <4>1. Keys(FlattenSeq(B), key) \in Seq(K)
        BY <2>2, KeysFacts
      <4> QED
        BY <3>4, <3>7, <4>1, DistinctSet
    <3>9. Keys(b, key) \in Seq({k}) /\ Keys(b, key) # <<>>
      <4>1. \A i \in 1..Len(b) : key[b[i]] = k
        BY <3>6 DEF ToSet
      <4> QED
        BY <3>6, <4>1 DEF Keys
    <3>10. Keys(FlattenSeq(C), key) = Keys(FlattenSeq(B), key) \o Keys(b, key)
      BY <2>2, KeysConcat
    <3>11. Keys(FlattenSeq(B), key) \in Seq(K)
      BY <2>2, KeysFacts
    <3> QED
      BY <3>2, <3>7, <3>8, <3>9, <3>10, <3>11, DistinctRun
  <2> QED
    BY <2>1, <2>4 DEF C
<1> HIDE DEF S
<1>3. Seq(Seq(X)) \subseteq S
  BY <1>1, <1>2, SeqInduction
<1> QED
  BY <1>3 DEF S

\* Two vectors without repetitions and with the same elements have the same
\* length.
LEMMA SameLength ==
  ASSUME NEW X, NEW s \in Seq(X), NEW t \in Seq(X), IsInjective(s), IsInjective(t), ToSet(s) = ToSet(t)
  PROVE  Len(s) = Len(t)
<1>1. ASSUME NEW u \in Seq(X), IsInjective(u) PROVE Cardinality(ToSet(u)) = Len(u)
  <2>1. u \in Bijection(1..Len(u), ToSet(u))
    <3>1. DOMAIN u = 1..Len(u) /\ u \in [1..Len(u) -> ToSet(u)]
      BY LenProperties DEF ToSet
    <3>2. u \in Surjection(1..Len(u), ToSet(u))
      BY <3>1 DEF Surjection, ToSet
    <3>3. u \in Injection(1..Len(u), ToSet(u))
      BY <1>1, <3>1 DEF Injection
    <3> QED
      BY <3>2, <3>3 DEF Bijection
  <2>2. ExistsBijection(1..Len(u), ToSet(u))
    BY <2>1 DEF ExistsBijection
  <2> QED
    BY <2>2, FS_CountingElements, LenProperties
<1> QED
  BY <1>1

-----------------------------------------------------------------------------
(* The hierarchy that is built from any vector of coordinates.             *)

InCpu(X, a)     == {x \in X : x.cpuId = a}
InCore(X, a, p) == {x \in X : x.cpuId = a /\ x.physicalCoreId = p}

\* The physical cores of a CPU: their identifiers, and the virtual cores of each.
CoreIdsOf(c, a) == Distinct(PhysicalCoreIds(Kept(c, {i \in DOMAIN c : c[i].cpuId = a})))
Blocks(c, a)    == [j \in DOMAIN CoreIdsOf(c, a) |-> BuildVirtualCoresVector(c, a, CoreIdsOf(c, a)[j])]

\* The loops of the build functions keep the elements in these sets.
LEMMA CpuSel ==
  ASSUME NEW X, NEW c \in Seq(X), NEW a
  PROVE  Kept(c, {i \in DOMAIN c : c[i].cpuId = a}) = Sel(c, InCpu(X, a))
<1>1. \A i \in DOMAIN c : c[i] \in X
  BY LenProperties
<1>2. {i \in DOMAIN c : c[i].cpuId = a} = {i \in DOMAIN c : c[i] \in InCpu(X, a)}
  BY <1>1 DEF InCpu
<1> QED
  BY <1>2 DEF Sel

\* buildVirtualCoresVector() selects the virtual cores of a physical core.
LEMMA CoreSel ==
  ASSUME NEW X, NEW c \in Seq(X), NEW a, NEW p
  PROVE  BuildVirtualCoresVector(c, a, p) = Sel(c, InCore(X, a, p))
<1>1. \A i \in DOMAIN c : c[i] \in X
  BY LenProperties
<1>2. {i \in DOMAIN c : c[i].cpuId = a /\ c[i].physicalCoreId = p} = {i \in DOMAIN c : c[i] \in InCore(X, a, p)}
  BY <1>1 DEF InCore
<1> QED
  BY <1>2 DEF Sel, BuildVirtualCoresVector

\* Vectors of identifiers.
LEMMA PhysicalIdsFacts ==
  ASSUME NEW X, NEW s \in Seq(X)
  PROVE  LET K   == {x.physicalCoreId : x \in X}
             key == [x \in X |-> x.physicalCoreId]
         IN  /\ key \in [X -> K] /\ PhysicalCoreIds(s) = Keys(s, key)
             /\ PhysicalCoreIds(s) \in Seq(K) /\ Len(PhysicalCoreIds(s)) = Len(s)
             /\ ToSet(PhysicalCoreIds(s)) = {x.physicalCoreId : x \in ToSet(s)}
<1> DEFINE K   == {x.physicalCoreId : x \in X}
           key == [x \in X |-> x.physicalCoreId]
<1>1. key \in [X -> K] /\ \A x \in X : key[x] = x.physicalCoreId
  OBVIOUS
<1> HIDE DEF key, K
<1>2. \A i \in DOMAIN s : s[i] \in X
  BY LenProperties
<1>3. PhysicalCoreIds(s) = Keys(s, key)
  BY <1>1, <1>2 DEF PhysicalCoreIds, Keys
<1>4. Keys(s, key) \in Seq(K) /\ Len(Keys(s, key)) = Len(s)
  BY <1>1, KeysFacts
<1>5. ToSet(PhysicalCoreIds(s)) = {x.physicalCoreId : x \in ToSet(s)}
  BY DEF ToSet, PhysicalCoreIds
<1> QED
  BY <1>1, <1>3, <1>4, <1>5 DEF key, K

\* The identifiers of CPUs that buildCpuVector() collects.
LEMMA CpuIdsFacts ==
  ASSUME NEW X, NEW s \in Seq(X)
  PROVE  LET K   == {x.cpuId : x \in X}
             key == [x \in X |-> x.cpuId]
         IN  /\ key \in [X -> K] /\ CpuIds(s) = Keys(s, key)
             /\ CpuIds(s) \in Seq(K) /\ Len(CpuIds(s)) = Len(s)
             /\ ToSet(CpuIds(s)) = {x.cpuId : x \in ToSet(s)}
<1> DEFINE K   == {x.cpuId : x \in X}
           key == [x \in X |-> x.cpuId]
<1>1. key \in [X -> K] /\ \A x \in X : key[x] = x.cpuId
  OBVIOUS
<1> HIDE DEF key, K
<1>2. \A i \in DOMAIN s : s[i] \in X
  BY LenProperties
<1>3. CpuIds(s) = Keys(s, key)
  BY <1>1, <1>2 DEF CpuIds, Keys
<1>4. Keys(s, key) \in Seq(K) /\ Len(Keys(s, key)) = Len(s)
  BY <1>1, KeysFacts
<1>5. ToSet(CpuIds(s)) = {x.cpuId : x \in ToSet(s)}
  BY DEF ToSet, CpuIds
<1> QED
  BY <1>1, <1>3, <1>4, <1>5 DEF key, K

\* The physical cores of a CPU partition its virtual cores.
LEMMA CpuFacts ==
  ASSUME NEW X, NEW c \in Seq(X), NEW a
  PROVE  LET K    == {x.physicalCoreId : x \in X}
             ids  == CoreIdsOf(c, a)
             B    == Blocks(c, a)
             mine == ToSet(c) \cap InCpu(X, a)
         IN  /\ ids \in Seq(K) /\ IsInjective(ids) /\ ToSet(ids) = {x.physicalCoreId : x \in mine}
             /\ B \in Seq(Seq(X)) /\ Len(B) = Len(ids) /\ DOMAIN B = DOMAIN ids
             /\ \A j \in DOMAIN B : /\ B[j] # <<>> /\ B[j] \in Seq(X)
                                    /\ B[j] = Sel(c, InCore(X, a, ids[j]))
                                    /\ ToSet(B[j]) = ToSet(c) \cap InCore(X, a, ids[j])
             /\ FlattenSeq(B) \in Seq(X) /\ ToSet(FlattenSeq(B)) = mine
<1> DEFINE K    == {x.physicalCoreId : x \in X}
           ids  == CoreIdsOf(c, a)
           B    == Blocks(c, a)
           mine == ToSet(c) \cap InCpu(X, a)
           here == Sel(c, InCpu(X, a))
<1>0. ToSet(c) \subseteq X
  BY LenProperties DEF ToSet
<1>1. here \in Seq(X) /\ ToSet(here) = mine /\ ids = Distinct(PhysicalCoreIds(here))
  <2>1. here \in Seq(X)
    BY SelType
  <2>2. ToSet(here) = mine
    BY SelSet
  <2>3. ids = Distinct(PhysicalCoreIds(here))
    BY CpuSel DEF CoreIdsOf
  <2> QED
    BY <2>1, <2>2, <2>3
<1> HIDE DEF here, ids
<1>2. PhysicalCoreIds(here) \in Seq(K) /\ ToSet(PhysicalCoreIds(here)) = {x.physicalCoreId : x \in ToSet(here)}
  BY <1>1, PhysicalIdsFacts
<1> HIDE DEF K, mine
<1>3. ids \in Seq(K) /\ IsInjective(ids) /\ ToSet(ids) = {x.physicalCoreId : x \in mine}
  BY <1>1, <1>2, DistinctType, DistinctSet
<1>4. B = [j \in 1..Len(ids) |-> Sel(c, InCore(X, a, ids[j]))] /\ DOMAIN ids = 1..Len(ids) /\ Len(ids) \in Nat
  BY <1>3, CoreSel, LenProperties DEF Blocks, ids
<1> HIDE DEF B
<1>5. B \in Seq(Seq(X)) /\ Len(B) = Len(ids) /\ DOMAIN B = DOMAIN ids
  <2>1. \A j \in 1..Len(ids) : Sel(c, InCore(X, a, ids[j])) \in Seq(X)
    BY SelType
  <2> QED
    BY <1>4, <2>1
<1>6. ASSUME NEW j \in DOMAIN B
      PROVE  /\ B[j] # <<>> /\ B[j] \in Seq(X)
             /\ B[j] = Sel(c, InCore(X, a, ids[j]))
             /\ ToSet(B[j]) = ToSet(c) \cap InCore(X, a, ids[j])
  <2>1. B[j] = Sel(c, InCore(X, a, ids[j])) /\ B[j] \in Seq(X)
    BY <1>4, <1>5, SelType
  <2>2. ToSet(B[j]) = ToSet(c) \cap InCore(X, a, ids[j])
    BY <2>1, SelSet
  <2>3. ids[j] \in ToSet(ids)
    BY <1>5 DEF ToSet
  <2>4. PICK x \in mine : x.physicalCoreId = ids[j]
    BY <1>3, <2>3
  <2>5. x \in ToSet(B[j])
    BY <2>2, <2>4 DEF mine, InCpu, InCore
  <2> QED
    BY <2>1, <2>2, <2>5, FlattenEmpty
<1>7. FlattenSeq(B) \in Seq(X)
  BY <1>5, FlattenType
<1>8. ToSet(FlattenSeq(B)) = mine
  <2>1. \A x : x \in ToSet(FlattenSeq(B)) <=> \E j \in DOMAIN B : x \in ToSet(B[j])
    BY <1>5, FlattenElements
  <2>2. \A j \in DOMAIN B : ToSet(B[j]) \subseteq mine
    BY <1>6 DEF mine, InCpu, InCore
  <2>3. ASSUME NEW x \in mine PROVE \E j \in DOMAIN B : x \in ToSet(B[j])
    <3>1. x.physicalCoreId \in ToSet(ids)
      BY <1>3
    <3>2. PICK j \in DOMAIN ids : ids[j] = x.physicalCoreId
      BY <3>1 DEF ToSet
    <3>3. j \in DOMAIN B /\ ToSet(B[j]) = ToSet(c) \cap InCore(X, a, ids[j])
      BY <1>5, <1>6
    <3> QED
      BY <3>2, <3>3 DEF mine, InCpu, InCore
  <2> QED
    BY <2>1, <2>2, <2>3
<1> QED
  BY <1>3, <1>5, <1>6, <1>7, <1>8 DEF K, mine, ids, B

\* Reading the virtual cores of a CPU core by core gives its physical cores
\* again, and repeats none.
LEMMA CpuReread ==
  ASSUME NEW X, NEW c \in Seq(X), NEW a
  PROVE  LET ids == CoreIdsOf(c, a)
             F   == FlattenSeq(Blocks(c, a))
         IN  /\ Distinct(PhysicalCoreIds(F)) = ids
             /\ \A j \in DOMAIN ids : Sel(F, InCore(X, a, ids[j])) = Blocks(c, a)[j]
             /\ IsInjective(c) => IsInjective(F)
<1> DEFINE K    == {x.physicalCoreId : x \in X}
           key  == [x \in X |-> x.physicalCoreId]
           ids  == CoreIdsOf(c, a)
           B    == Blocks(c, a)
           mine == ToSet(c) \cap InCpu(X, a)
           F    == FlattenSeq(B)
<1>1. /\ ids \in Seq(K) /\ IsInjective(ids) /\ ToSet(ids) = {x.physicalCoreId : x \in mine}
      /\ B \in Seq(Seq(X)) /\ Len(B) = Len(ids) /\ DOMAIN B = DOMAIN ids
      /\ \A j \in DOMAIN B : /\ B[j] # <<>> /\ B[j] \in Seq(X)
                             /\ B[j] = Sel(c, InCore(X, a, ids[j]))
                             /\ ToSet(B[j]) = ToSet(c) \cap InCore(X, a, ids[j])
      /\ F \in Seq(X) /\ ToSet(F) = mine
  BY CpuFacts
<1>2. key \in [X -> K] /\ PhysicalCoreIds(F) = Keys(F, key) /\ \A x \in X : key[x] = x.physicalCoreId
  BY <1>1, PhysicalIdsFacts
<1> HIDE DEF K, key, ids, B, mine
<1>3. \A j \in DOMAIN B : \A x \in ToSet(B[j]) : key[x] = ids[j]
  BY <1>1, <1>2 DEF InCore
<1>4. Distinct(Keys(F, key)) = ids
  <2>1. ids \in Seq(K) /\ IsInjective(ids) /\ B \in Seq(Seq(X)) /\ Len(ids) = Len(B) /\ key \in [X -> K]
    BY <1>1, <1>2
  <2>2. AreKeyed(B, ids, key)
    BY <1>1, <1>3 DEF AreKeyed
  <2> QED
    BY <2>1, <2>2, FlattenDistinct
<1>5. ASSUME NEW i \in DOMAIN B, NEW j \in DOMAIN B, i # j
      PROVE  ToSet(B[i]) \cap InCore(X, a, ids[j]) = {}
  <2>1. ids[i] # ids[j]
    BY <1>1, <1>5 DEF IsInjective
  <2>2. ToSet(B[i]) \subseteq InCore(X, a, ids[i])
    BY <1>1
  <2> QED
    BY <2>1, <2>2 DEF InCore
<1>6. ASSUME NEW j \in DOMAIN ids PROVE Sel(F, InCore(X, a, ids[j])) = B[j]
  <2> DEFINE P == InCore(X, a, ids[j])
  <2>0. B \in Seq(Seq(X)) /\ j \in DOMAIN B /\ \A i \in DOMAIN B : i # j => ToSet(B[i]) \cap P = {}
    BY <1>1, <1>5
  <2> HIDE DEF P
  <2>1. Sel(F, P) = Sel(B[j], P)
    BY <2>0, FlattenSel
  <2>2. Sel(B[j], P) = B[j]
    BY <1>1, SelSet DEF P
  <2> QED
    BY <2>1, <2>2 DEF P
<1>7. ASSUME IsInjective(c) PROVE IsInjective(F)
  <2>1. \A j \in DOMAIN B : IsInjective(B[j])
    BY <1>1, <1>7, SelSet
  <2>2. \A i, j \in DOMAIN B : i # j => ToSet(B[i]) \cap ToSet(B[j]) = {}
    BY <1>1, <1>5
  <2> QED
    BY <1>1, <2>1, <2>2, FlattenInjective
<1> QED
  BY <1>2, <1>4, <1>6, <1>7 DEF ids, B

\* The CPUs, and the virtual cores of each.
CpusOf(c) == Distinct(CpuIds(c))
Lists(c)  == [i \in DOMAIN CpusOf(c) |-> FlattenSeq(Blocks(c, CpusOf(c)[i]))]

\* What buildCpuVector() and buildPhysicalCoresVector() put where.
LEMMA PhysicalCoresShape ==
  ASSUME NEW c, NEW a
  PROVE  LET pv == BuildPhysicalCoresVector(c, a)
         IN  /\ pv = [j \in DOMAIN CoreIdsOf(c, a) |->
                        [physicalCoreId |-> CoreIdsOf(c, a)[j], virtualCores |-> Blocks(c, a)[j]]]
             /\ [j \in DOMAIN pv |-> pv[j].virtualCores] = Blocks(c, a)
<1> DEFINE pv == BuildPhysicalCoresVector(c, a)
<1>1. pv = [j \in DOMAIN CoreIdsOf(c, a) |->
              [physicalCoreId |-> CoreIdsOf(c, a)[j], virtualCores |-> BuildVirtualCoresVector(c, a, CoreIdsOf(c, a)[j])]]
  BY DEF BuildPhysicalCoresVector, CoreIdsOf
<1> HIDE DEF pv
<1>2. pv = [j \in DOMAIN CoreIdsOf(c, a) |->
              [physicalCoreId |-> CoreIdsOf(c, a)[j], virtualCores |-> Blocks(c, a)[j]]]
  BY <1>1 DEF Blocks
<1>3. [j \in DOMAIN pv |-> pv[j].virtualCores] = Blocks(c, a)
  BY <1>1 DEF Blocks
<1> QED
  BY <1>2, <1>3 DEF pv

\* The CPUs that are built, and the virtual cores of each.
LEMMA CpuVectorShape ==
  ASSUME NEW c
  PROVE  LET v == BuildCpuVector(c)
         IN  /\ v = [i \in DOMAIN CpusOf(c) |->
                       [cpuId |-> CpusOf(c)[i], physicalCores |-> BuildPhysicalCoresVector(c, CpusOf(c)[i])]]
             /\ \A i \in DOMAIN v : VirtualCoresFromPhysicalCores(v[i]) = Lists(c)[i]
             /\ VirtualCores(v) = FlattenSeq(Lists(c))
<1> DEFINE v == BuildCpuVector(c)
<1>1. v = [i \in DOMAIN CpusOf(c) |->
             [cpuId |-> CpusOf(c)[i], physicalCores |-> BuildPhysicalCoresVector(c, CpusOf(c)[i])]]
  BY DEF BuildCpuVector, CpusOf
<1> HIDE DEF v
<1>2. ASSUME NEW i \in DOMAIN v PROVE VirtualCoresFromPhysicalCores(v[i]) = Lists(c)[i]
  <2> DEFINE pv == BuildPhysicalCoresVector(c, CpusOf(c)[i])
  <2>1. v[i].physicalCores = pv /\ i \in DOMAIN CpusOf(c)
    BY <1>1
  <2>2. [j \in DOMAIN pv |-> pv[j].virtualCores] = Blocks(c, CpusOf(c)[i])
    BY PhysicalCoresShape
  <2> HIDE DEF pv
  <2>3. VirtualCoresFromPhysicalCores(v[i]) = FlattenSeq(Blocks(c, CpusOf(c)[i]))
    BY <2>1, <2>2 DEF VirtualCoresFromPhysicalCores
  <2> QED
    BY <2>1, <2>3 DEF Lists
<1>3. [i \in DOMAIN v |-> VirtualCoresFromPhysicalCores(v[i])] = Lists(c)
  <2>1. DOMAIN v = DOMAIN CpusOf(c)
    BY <1>1
  <2> QED
    BY <1>2, <2>1 DEF Lists
<1> QED
  BY <1>1, <1>2, <1>3 DEF VirtualCores, v

\* The CPUs partition the virtual cores.
LEMMA CpuVectorFacts ==
  ASSUME NEW X, NEW c \in Seq(X)
  PROVE  LET K   == {x.cpuId : x \in X}
             ids == CpusOf(c)
             L   == Lists(c)
             F   == FlattenSeq(L)
         IN  /\ ids \in Seq(K) /\ IsInjective(ids) /\ ToSet(ids) = {x.cpuId : x \in ToSet(c)}
             /\ L \in Seq(Seq(X)) /\ Len(L) = Len(ids) /\ DOMAIN L = DOMAIN ids
             /\ \A i \in DOMAIN L : /\ L[i] # <<>> /\ L[i] \in Seq(X)
                                    /\ L[i] = FlattenSeq(Blocks(c, ids[i]))
                                    /\ ToSet(L[i]) = ToSet(c) \cap InCpu(X, ids[i])
             /\ F \in Seq(X) /\ ToSet(F) = ToSet(c)
<1> DEFINE K   == {x.cpuId : x \in X}
           ids == CpusOf(c)
           L   == Lists(c)
           F   == FlattenSeq(L)
<1>0. ToSet(c) \subseteq X
  BY LenProperties DEF ToSet
<1>1. CpuIds(c) \in Seq(K) /\ ToSet(CpuIds(c)) = {x.cpuId : x \in ToSet(c)}
  BY CpuIdsFacts
<1> HIDE DEF K
<1>2. ids \in Seq(K) /\ IsInjective(ids) /\ ToSet(ids) = {x.cpuId : x \in ToSet(c)}
  BY <1>1, DistinctType, DistinctSet DEF CpusOf
<1>3. L = [i \in 1..Len(ids) |-> FlattenSeq(Blocks(c, ids[i]))] /\ DOMAIN ids = 1..Len(ids) /\ Len(ids) \in Nat
  BY <1>2, LenProperties DEF Lists
<1> HIDE DEF ids, L
<1>4. \A a : FlattenSeq(Blocks(c, a)) \in Seq(X) /\ ToSet(FlattenSeq(Blocks(c, a))) = ToSet(c) \cap InCpu(X, a)
  BY CpuFacts
<1>5. L \in Seq(Seq(X)) /\ Len(L) = Len(ids) /\ DOMAIN L = DOMAIN ids
  BY <1>3, <1>4
<1>6. ASSUME NEW i \in DOMAIN L
      PROVE  /\ L[i] # <<>> /\ L[i] \in Seq(X) /\ L[i] = FlattenSeq(Blocks(c, ids[i]))
             /\ ToSet(L[i]) = ToSet(c) \cap InCpu(X, ids[i])
  <2>1. L[i] = FlattenSeq(Blocks(c, ids[i])) /\ L[i] \in Seq(X) /\ ToSet(L[i]) = ToSet(c) \cap InCpu(X, ids[i])
    BY <1>3, <1>4, <1>5
  <2>2. ids[i] \in ToSet(ids)
    BY <1>5 DEF ToSet
  <2>3. PICK x \in ToSet(c) : x.cpuId = ids[i]
    BY <1>2, <2>2
  <2>4. x \in ToSet(L[i])
    BY <1>0, <2>1, <2>3 DEF InCpu
  <2> QED
    BY <2>1, <2>4, FlattenEmpty
<1>7. F \in Seq(X)
  BY <1>5, FlattenType
<1>8. ToSet(F) = ToSet(c)
  <2>1. \A x : x \in ToSet(F) <=> \E i \in DOMAIN L : x \in ToSet(L[i])
    BY <1>5, FlattenElements
  <2>2. \A i \in DOMAIN L : ToSet(L[i]) \subseteq ToSet(c)
    BY <1>6
  <2>3. ASSUME NEW x \in ToSet(c) PROVE \E i \in DOMAIN L : x \in ToSet(L[i])
    <3>1. x.cpuId \in ToSet(ids)
      BY <1>2
    <3>2. PICK i \in DOMAIN ids : ids[i] = x.cpuId
      BY <3>1 DEF ToSet
    <3>3. i \in DOMAIN L /\ ToSet(L[i]) = ToSet(c) \cap InCpu(X, ids[i])
      BY <1>5, <1>6
    <3> QED
      BY <1>0, <3>2, <3>3 DEF InCpu
  <2> HIDE DEF F
  <2> QED
    BY <2>1, <2>2, <2>3
<1> QED
  BY <1>2, <1>5, <1>6, <1>7, <1>8 DEF K, ids, L

\* The virtual cores of a CPU, and that there are some.
LEMMA ListFacts ==
  ASSUME NEW X, NEW c \in Seq(X), NEW i \in DOMAIN Lists(c)
  PROVE  Lists(c)[i] \in Seq(X) /\ Lists(c)[i] # <<>> /\ ToSet(Lists(c)[i]) = ToSet(c) \cap InCpu(X, CpusOf(c)[i])
<1> DEFINE K   == {x.cpuId : x \in X}
           ids == CpusOf(c)
           L   == Lists(c)
           F   == FlattenSeq(L)
<1>1. /\ ids \in Seq(K) /\ IsInjective(ids) /\ ToSet(ids) = {x.cpuId : x \in ToSet(c)}
      /\ L \in Seq(Seq(X)) /\ Len(L) = Len(ids) /\ DOMAIN L = DOMAIN ids
      /\ \A j \in DOMAIN L : /\ L[j] # <<>> /\ L[j] \in Seq(X)
                             /\ L[j] = FlattenSeq(Blocks(c, ids[j]))
                             /\ ToSet(L[j]) = ToSet(c) \cap InCpu(X, ids[j])
      /\ F \in Seq(X) /\ ToSet(F) = ToSet(c)
  BY CpuVectorFacts
<1> QED
  BY <1>1

\* Reading all virtual cores CPU by CPU gives the CPUs again, and repeats none.
LEMMA CpuVectorReread ==
  ASSUME NEW X, NEW c \in Seq(X)
  PROVE  LET ids == CpusOf(c)
             F   == FlattenSeq(Lists(c))
         IN  /\ CpusOf(F) = ids
             /\ \A i \in DOMAIN ids : /\ Sel(F, InCpu(X, ids[i])) = Lists(c)[i]
                                      /\ \A p : Sel(F, InCore(X, ids[i], p)) = Sel(Lists(c)[i], InCore(X, ids[i], p))
             /\ IsInjective(c) => IsInjective(F)
<1> DEFINE K   == {x.cpuId : x \in X}
           key == [x \in X |-> x.cpuId]
           ids == CpusOf(c)
           L   == Lists(c)
           F   == FlattenSeq(L)
<1>1. /\ ids \in Seq(K) /\ IsInjective(ids) /\ ToSet(ids) = {x.cpuId : x \in ToSet(c)}
      /\ L \in Seq(Seq(X)) /\ Len(L) = Len(ids) /\ DOMAIN L = DOMAIN ids
      /\ \A i \in DOMAIN L : /\ L[i] # <<>> /\ L[i] \in Seq(X)
                             /\ L[i] = FlattenSeq(Blocks(c, ids[i]))
                             /\ ToSet(L[i]) = ToSet(c) \cap InCpu(X, ids[i])
      /\ F \in Seq(X) /\ ToSet(F) = ToSet(c)
  BY CpuVectorFacts
<1>2. key \in [X -> K] /\ CpuIds(F) = Keys(F, key) /\ \A x \in X : key[x] = x.cpuId
  BY <1>1, CpuIdsFacts
<1> HIDE DEF K, key, ids, L
<1>3. \A i \in DOMAIN L : \A x \in ToSet(L[i]) : key[x] = ids[i]
  BY <1>1, <1>2 DEF InCpu
<1>4. Distinct(Keys(F, key)) = ids
  <2>1. ids \in Seq(K) /\ L \in Seq(Seq(X)) /\ key \in [X -> K]
    BY <1>1, <1>2
  <2>2. AreKeyed(L, ids, key)
    BY <1>1, <1>3 DEF AreKeyed
  <2> QED
    BY <2>1, <2>2, FlattenDistinct
<1>5. ASSUME NEW i \in DOMAIN L, NEW j \in DOMAIN L, i # j
      PROVE  ToSet(L[i]) \cap InCpu(X, ids[j]) = {}
  <2>1. ids[i] # ids[j]
    BY <1>1, <1>5 DEF IsInjective
  <2>2. ToSet(L[i]) \subseteq InCpu(X, ids[i])
    BY <1>1
  <2> QED
    BY <2>1, <2>2 DEF InCpu
<1>6. ASSUME NEW j \in DOMAIN ids, NEW P, P \subseteq InCpu(X, ids[j]) PROVE Sel(F, P) = Sel(L[j], P)
  <2>1. L \in Seq(Seq(X)) /\ j \in DOMAIN L /\ \A i \in DOMAIN L : i # j => ToSet(L[i]) \cap P = {}
    BY <1>1, <1>5, <1>6
  <2> QED
    BY <2>1, FlattenSel
<1>7. ASSUME NEW j \in DOMAIN ids
      PROVE  /\ Sel(F, InCpu(X, ids[j])) = L[j]
             /\ \A p : Sel(F, InCore(X, ids[j], p)) = Sel(L[j], InCore(X, ids[j], p))
  <2>1. \A p : InCore(X, ids[j], p) \subseteq InCpu(X, ids[j])
    BY DEF InCore, InCpu
  <2>2. Sel(L[j], InCpu(X, ids[j])) = L[j]
    BY <1>1, SelSet
  <2> QED
    BY <1>6, <2>1, <2>2
<1>8. ASSUME IsInjective(c) PROVE IsInjective(F)
  <2>1. \A j \in DOMAIN L : IsInjective(L[j])
    BY <1>1, <1>8, CpuReread
  <2>2. \A i, j \in DOMAIN L : i # j => ToSet(L[i]) \cap ToSet(L[j]) = {}
    BY <1>1, <1>5
  <2> QED
    BY <1>1, <2>1, <2>2, FlattenInjective
<1> QED
  BY <1>2, <1>4, <1>7, <1>8 DEF CpusOf, ids, L

\* A topology built from the virtual cores of a topology is the same.
LEMMA RebuildsTheSame ==
  ASSUME NEW X, NEW c \in Seq(X)
  PROVE  BuildCpuVector(VirtualCores(BuildCpuVector(c))) = BuildCpuVector(c)
<1> DEFINE ids == CpusOf(c)
           F   == FlattenSeq(Lists(c))
<1>1. /\ CpusOf(F) = ids
      /\ \A i \in DOMAIN ids : /\ Sel(F, InCpu(X, ids[i])) = Lists(c)[i]
                               /\ \A p : Sel(F, InCore(X, ids[i], p)) = Sel(Lists(c)[i], InCore(X, ids[i], p))
  BY CpuVectorReread
<1>2. F \in Seq(X) /\ \A i \in DOMAIN ids : Lists(c)[i] = FlattenSeq(Blocks(c, ids[i]))
  BY CpuVectorFacts
<1>3. VirtualCores(BuildCpuVector(c)) = F
  BY CpuVectorShape
<1> HIDE DEF F, ids
<1>4. ASSUME NEW i \in DOMAIN ids PROVE BuildPhysicalCoresVector(F, ids[i]) = BuildPhysicalCoresVector(c, ids[i])
  <2> DEFINE a == ids[i]
             l == FlattenSeq(Blocks(c, a))
             pids == CoreIdsOf(c, a)
  <2>1. Distinct(PhysicalCoreIds(l)) = pids /\ \A j \in DOMAIN pids : Sel(l, InCore(X, a, pids[j])) = Blocks(c, a)[j]
    BY CpuReread
  <2>2. Kept(F, {k \in DOMAIN F : F[k].cpuId = a}) = Sel(F, InCpu(X, a))
    BY <1>2, CpuSel
  <2>3. Sel(F, InCpu(X, a)) = l
    BY <1>1, <1>2
  <2>4. CoreIdsOf(F, a) = pids
    BY <2>1, <2>2, <2>3 DEF CoreIdsOf
  <2>5. ASSUME NEW j \in DOMAIN pids PROVE BuildVirtualCoresVector(F, a, pids[j]) = Blocks(c, a)[j]
    BY <1>1, <1>2, <2>1, CoreSel
  <2>6. DOMAIN Blocks(c, a) = DOMAIN pids
    BY DEF Blocks
  <2>7. Blocks(F, a) = Blocks(c, a)
    <3>1. Blocks(F, a) = [j \in DOMAIN pids |-> BuildVirtualCoresVector(F, a, pids[j])]
      BY <2>4 DEF Blocks
    <3>2. Blocks(c, a) = [j \in DOMAIN pids |-> BuildVirtualCoresVector(c, a, pids[j])]
      BY DEF Blocks
    <3>3. \A j \in DOMAIN pids : BuildVirtualCoresVector(c, a, pids[j]) = Blocks(c, a)[j]
      BY <3>2
    <3> HIDE DEF pids, a
    <3> QED
      BY <2>5, <3>1, <3>2, <3>3
  <2> QED
    BY <2>4, <2>7, PhysicalCoresShape
<1>5. BuildCpuVector(F) = [i \in DOMAIN ids |-> [cpuId |-> ids[i], physicalCores |-> BuildPhysicalCoresVector(F, ids[i])]]
  BY <1>1, CpuVectorShape
<1>6. BuildCpuVector(c) = [i \in DOMAIN ids |-> [cpuId |-> ids[i], physicalCores |-> BuildPhysicalCoresVector(c, ids[i])]]
  BY CpuVectorShape DEF ids
<1> QED
  BY <1>3, <1>4, <1>5, <1>6

-----------------------------------------------------------------------------
(* The physical cores of a topology.                                       *)

\* The physical core to which a virtual core belongs.
CoreOf(X, c, x) == [physicalCoreId |-> x.physicalCoreId,
                    virtualCores   |-> Sel(c, InCore(X, x.cpuId, x.physicalCoreId))]

\* The identifiers of physical cores tell the CPU.
IdsTellCpu(c) == \A x, y \in ToSet(c) : x.physicalCoreId = y.physicalCoreId => x.cpuId = y.cpuId

\* The physical cores of one CPU are the ones of its virtual cores, each once.
LEMMA CoresOfCpu ==
  ASSUME NEW X, NEW c \in Seq(X), NEW a
  PROVE  LET Y  == {CoreOf(X, c, x) : x \in ToSet(c)}
             pv == BuildPhysicalCoresVector(c, a)
         IN  /\ pv \in Seq(Y) /\ IsInjective(pv)
             /\ ToSet(pv) = {CoreOf(X, c, x) : x \in ToSet(c) \cap InCpu(X, a)}
<1> DEFINE Y    == {CoreOf(X, c, x) : x \in ToSet(c)}
           pv   == BuildPhysicalCoresVector(c, a)
           ids  == CoreIdsOf(c, a)
           B    == Blocks(c, a)
           mine == ToSet(c) \cap InCpu(X, a)
           K    == {x.physicalCoreId : x \in X}
<1>1. /\ ids \in Seq(K) /\ IsInjective(ids) /\ ToSet(ids) = {x.physicalCoreId : x \in mine}
      /\ B \in Seq(Seq(X)) /\ Len(B) = Len(ids) /\ DOMAIN B = DOMAIN ids
      /\ \A j \in DOMAIN B : /\ B[j] # <<>> /\ B[j] \in Seq(X)
                             /\ B[j] = Sel(c, InCore(X, a, ids[j]))
                             /\ ToSet(B[j]) = ToSet(c) \cap InCore(X, a, ids[j])
      /\ FlattenSeq(B) \in Seq(X) /\ ToSet(FlattenSeq(B)) = mine
  BY CpuFacts
<1>2. pv = [j \in DOMAIN ids |-> [physicalCoreId |-> ids[j], virtualCores |-> B[j]]]
  BY PhysicalCoresShape
<1> HIDE DEF pv, ids, B, K
<1>3. DOMAIN pv = DOMAIN ids /\ \A j \in DOMAIN ids : pv[j] = [physicalCoreId |-> ids[j], virtualCores |-> Sel(c, InCore(X, a, ids[j]))]
  BY <1>1, <1>2
<1>4. ASSUME NEW j \in DOMAIN ids PROVE \E x \in mine : pv[j] = CoreOf(X, c, x)
  <2>1. ids[j] \in ToSet(ids)
    BY DEF ToSet
  <2>2. PICK x \in mine : x.physicalCoreId = ids[j]
    BY <1>1, <2>1
  <2>3. x.cpuId = a
    BY DEF InCpu
  <2> QED
    BY <1>3, <2>2, <2>3 DEF CoreOf
<1>5. ASSUME NEW x \in mine PROVE \E j \in DOMAIN ids : pv[j] = CoreOf(X, c, x)
  <2>1. x.physicalCoreId \in ToSet(ids)
    BY <1>1
  <2>2. PICK j \in DOMAIN ids : ids[j] = x.physicalCoreId
    BY <2>1 DEF ToSet
  <2>3. x.cpuId = a
    BY DEF InCpu
  <2> QED
    BY <1>3, <2>2, <2>3 DEF CoreOf
<1>6. ToSet(pv) = {CoreOf(X, c, x) : x \in mine}
  BY <1>3, <1>4, <1>5 DEF ToSet
<1>7. IsInjective(pv)
  <2>1. ASSUME NEW i \in DOMAIN pv, NEW j \in DOMAIN pv, pv[i] = pv[j] PROVE i = j
    <3>1. ids[i] = ids[j]
      <4>1. pv[i].physicalCoreId = ids[i] /\ pv[j].physicalCoreId = ids[j]
        BY <1>3
      <4> QED
        BY <2>1, <4>1
    <3> QED
      BY <1>1, <1>3, <3>1 DEF IsInjective
  <2> QED
    BY <2>1 DEF IsInjective
<1>8. pv \in Seq(Y)
  <2>1. DOMAIN pv = 1..Len(ids) /\ Len(ids) \in Nat
    BY <1>1, <1>3, LenProperties
  <2>2. \A j \in 1..Len(ids) : pv[j] \in Y
    BY <1>3, <1>4, <2>1
  <2>3. pv = [j \in 1..Len(ids) |-> pv[j]]
    BY <1>2, <2>1
  <2> HIDE DEF Y
  <2> QED
    BY <2>1, <2>2, <2>3
<1> QED
  BY <1>6, <1>7, <1>8 DEF pv

\* A virtual core is in its physical core.
LEMMA CoreHasCore ==
  ASSUME NEW X, NEW c \in Seq(X), NEW x \in ToSet(c)
  PROVE  /\ x \in X /\ CoreOf(X, c, x).virtualCores \in Seq(X)
         /\ ToSet(CoreOf(X, c, x).virtualCores) = ToSet(c) \cap InCore(X, x.cpuId, x.physicalCoreId)
         /\ x \in ToSet(CoreOf(X, c, x).virtualCores)
<1>1. x \in X
  BY LenProperties DEF ToSet
<1>2. CoreOf(X, c, x).virtualCores = Sel(c, InCore(X, x.cpuId, x.physicalCoreId))
  BY DEF CoreOf
<1>3. ToSet(Sel(c, InCore(X, x.cpuId, x.physicalCoreId))) = ToSet(c) \cap InCore(X, x.cpuId, x.physicalCoreId)
  BY SelSet
<1>4. Sel(c, InCore(X, x.cpuId, x.physicalCoreId)) \in Seq(X)
  BY SelType
<1> QED
  BY <1>1, <1>2, <1>3, <1>4 DEF InCore

\* The physical cores of all CPUs.
LEMMA PhysicalCoresFacts ==
  ASSUME NEW X, NEW c \in Seq(X)
  PROVE  LET Y    == {CoreOf(X, c, x) : x \in ToSet(c)}
             phys == PhysicalCores(BuildCpuVector(c))
         IN  phys \in Seq(Y) /\ ToSet(phys) = Y /\ IsInjective(phys)
<1> DEFINE Y   == {CoreOf(X, c, x) : x \in ToSet(c)}
           K   == {x.cpuId : x \in X}
           v   == BuildCpuVector(c)
           ids == CpusOf(c)
           C   == [i \in DOMAIN v |-> v[i].physicalCores]
           phys == PhysicalCores(v)
<1>1. ids \in Seq(K) /\ IsInjective(ids) /\ ToSet(ids) = {x.cpuId : x \in ToSet(c)}
  BY CpuVectorFacts
<1>2. v = [i \in DOMAIN ids |-> [cpuId |-> ids[i], physicalCores |-> BuildPhysicalCoresVector(c, ids[i])]]
  BY CpuVectorShape
<1>3. DOMAIN ids = 1..Len(ids) /\ Len(ids) \in Nat
  BY <1>1, LenProperties
<1>4. phys = FlattenSeq(C)
  BY DEF PhysicalCores
<1> HIDE DEF v, phys, ids, K
<1>5. C = [i \in 1..Len(ids) |-> BuildPhysicalCoresVector(c, ids[i])]
  BY <1>2, <1>3
<1> HIDE DEF C
<1>6. ASSUME NEW a
      PROVE  /\ BuildPhysicalCoresVector(c, a) \in Seq(Y) /\ IsInjective(BuildPhysicalCoresVector(c, a))
             /\ ToSet(BuildPhysicalCoresVector(c, a)) = {CoreOf(X, c, x) : x \in ToSet(c) \cap InCpu(X, a)}
  BY CoresOfCpu
<1>7. C \in Seq(Seq(Y)) /\ DOMAIN C = DOMAIN ids
  <2> HIDE DEF Y
  <2> QED
    BY <1>3, <1>5, <1>6
<1>8. \A i \in DOMAIN C : IsInjective(C[i]) /\ ToSet(C[i]) = {CoreOf(X, c, x) : x \in ToSet(c) \cap InCpu(X, ids[i])}
  BY <1>3, <1>5, <1>6, <1>7
<1>9. ASSUME NEW i \in DOMAIN C, NEW j \in DOMAIN C, i # j PROVE ToSet(C[i]) \cap ToSet(C[j]) = {}
  <2>1. ids[i] # ids[j]
    BY <1>1, <1>7, <1>9 DEF IsInjective
  <2>2. ASSUME NEW x \in ToSet(c) \cap InCpu(X, ids[i]), NEW y \in ToSet(c) \cap InCpu(X, ids[j]),
               CoreOf(X, c, x) = CoreOf(X, c, y)
        PROVE  FALSE
    <3>1. x \in ToSet(CoreOf(X, c, x).virtualCores)
      BY CoreHasCore
    <3>2. ToSet(CoreOf(X, c, y).virtualCores) = ToSet(c) \cap InCore(X, y.cpuId, y.physicalCoreId)
      BY CoreHasCore
    <3>3. x.cpuId = y.cpuId
      BY <2>2, <3>1, <3>2 DEF InCore
    <3> QED
      BY <2>1, <3>3 DEF InCpu
  <2> QED
    BY <1>8, <2>2
<1>10. IsInjective(phys)
  BY <1>4, <1>7, <1>8, <1>9, FlattenInjective
<1>11. phys \in Seq(Y)
  BY <1>4, <1>7, FlattenType
<1>12. ToSet(phys) = Y
  <2>1. \A q : q \in ToSet(phys) <=> \E i \in DOMAIN C : q \in ToSet(C[i])
    BY <1>4, <1>7, FlattenElements
  <2>2. ASSUME NEW x \in ToSet(c) PROVE CoreOf(X, c, x) \in ToSet(phys)
    <3>1. x.cpuId \in ToSet(ids) /\ x \in X
      BY <1>1, CoreHasCore
    <3>2. PICK i \in DOMAIN ids : ids[i] = x.cpuId
      BY <3>1 DEF ToSet
    <3>3. x \in ToSet(c) \cap InCpu(X, ids[i])
      BY <3>1, <3>2 DEF InCpu
    <3> QED
      BY <1>7, <1>8, <2>1, <3>3
  <2>3. ToSet(phys) \subseteq Y
    BY <1>8, <2>1
  <2> QED
    BY <2>2, <2>3
<1> QED
  BY <1>10, <1>11, <1>12 DEF phys, v

\* Physical cores are found by their identifiers.
LEMMA PhysicalCoreFound ==
  ASSUME NEW X, NEW c \in Seq(X), IdsTellCpu(c)
  PROVE  LET v    == BuildCpuVector(c)
             phys == PhysicalCores(v)
         IN  /\ IsInjective(PhysicalCoreIds(phys))
             /\ \A x \in ToSet(c) : GetPhysicalCore(v, x.physicalCoreId) = CoreOf(X, c, x)
<1> DEFINE Y    == {CoreOf(X, c, x) : x \in ToSet(c)}
           v    == BuildCpuVector(c)
           phys == PhysicalCores(v)
<1>1. phys \in Seq(Y) /\ ToSet(phys) = Y /\ IsInjective(phys)
  BY PhysicalCoresFacts
<1>2. DOMAIN phys = 1..Len(phys) /\ Len(phys) \in Nat
  BY <1>1, LenProperties
<1> HIDE DEF v
<1>3. ASSUME NEW x \in ToSet(c), NEW y \in ToSet(c), x.physicalCoreId = y.physicalCoreId
      PROVE  CoreOf(X, c, x) = CoreOf(X, c, y)
  BY <1>3 DEF IdsTellCpu, CoreOf
<1>4. \A x \in ToSet(c) : CoreOf(X, c, x).physicalCoreId = x.physicalCoreId
  BY DEF CoreOf
<1>5. \A q, r \in Y : q.physicalCoreId = r.physicalCoreId => q = r
  BY <1>3, <1>4
<1>6. \A i \in DOMAIN phys : phys[i] \in Y
  BY <1>1 DEF ToSet
<1> HIDE DEF phys
<1>7. IsInjective(PhysicalCoreIds(phys))
  <2>1. DOMAIN PhysicalCoreIds(phys) = DOMAIN phys /\ \A i \in DOMAIN phys : PhysicalCoreIds(phys)[i] = phys[i].physicalCoreId
    BY DEF PhysicalCoreIds
  <2> QED
    BY <1>1, <1>5, <1>6, <2>1 DEF IsInjective
<1>8. ASSUME NEW x \in ToSet(c) PROVE GetPhysicalCore(v, x.physicalCoreId) = CoreOf(X, c, x)
  <2> DEFINE p == x.physicalCoreId
             T == {i \in DOMAIN phys : phys[i].physicalCoreId = p}
             First(i) == phys[i].physicalCoreId = p /\ \A j \in 1..(i - 1) : phys[j].physicalCoreId # p
  <2>1. CoreOf(X, c, x) \in ToSet(phys)
    BY <1>1
  <2>2. T # {} /\ T \subseteq Nat
    BY <1>2, <1>4, <2>1 DEF ToSet
  <2>3. PICK k \in T : \A j \in T : k <= j
    BY <2>2, LeastNumber
  <2>4. k \in DOMAIN phys /\ First(k)
    BY <1>2, <2>3
  <2> DEFINE k0 == CHOOSE i \in DOMAIN phys : First(i)
  <2>5. k0 \in DOMAIN phys /\ First(k0)
    <3> HIDE DEF First
    <3> QED
      BY <2>4
  <2>6. GetPhysicalCore(v, p) = phys[k0]
    BY DEF GetPhysicalCore, phys
  <2> HIDE DEF k0
  <2> QED
    BY <1>1, <1>4, <1>5, <1>6, <2>5, <2>6
<1> QED
  BY <1>7, <1>8 DEF v, phys

\* The helpers that count physical cores.
LEMMA CountsPhysicalCores ==
  ASSUME NEW X, NEW c \in Seq(X), IdsTellCpu(c)
  PROVE  LET v   == BuildCpuVector(c)
             all == VirtualCores(v)
         IN  /\ ToSet(VirtualToPhysical(v, all)) = ToSet(PhysicalCores(v))
             /\ Len(GetOneVirtualPerPhysical(all)) = Len(PhysicalCores(v))
<1> DEFINE Y    == {CoreOf(X, c, x) : x \in ToSet(c)}
           K    == {x.physicalCoreId : x \in X}
           v    == BuildCpuVector(c)
           all  == VirtualCores(v)
           phys == PhysicalCores(v)
<1>1. all \in Seq(X) /\ ToSet(all) = ToSet(c)
  BY CpuVectorShape, CpuVectorFacts
<1>2. phys \in Seq(Y) /\ ToSet(phys) = Y /\ IsInjective(phys)
  BY PhysicalCoresFacts
<1>3. IsInjective(PhysicalCoreIds(phys)) /\ \A x \in ToSet(c) : GetPhysicalCore(v, x.physicalCoreId) = CoreOf(X, c, x)
  BY PhysicalCoreFound
<1> HIDE DEF v, all, phys
<1>4. DOMAIN all = 1..Len(all) /\ Len(all) \in Nat /\ \A i \in DOMAIN all : all[i] \in ToSet(c)
  BY <1>1, LenProperties DEF ToSet
<1>5. ToSet(VirtualToPhysical(v, all)) = Y
  <2> DEFINE g == [i \in DOMAIN all |-> GetPhysicalCore(v, all[i].physicalCoreId)]
  <2>1. g = [i \in 1..Len(all) |-> CoreOf(X, c, all[i])]
    BY <1>3, <1>4
  <2>2. VirtualToPhysical(v, all) = Distinct(g)
    BY DEF VirtualToPhysical
  <2> HIDE DEF g
  <2>3. g \in Seq(Y)
    <3>1. \A i \in 1..Len(all) : CoreOf(X, c, all[i]) \in Y
      BY <1>4
    <3> HIDE DEF Y
    <3> QED
      BY <1>4, <2>1, <3>1
  <2>4. ToSet(g) = Y
    <3>1. DOMAIN g = DOMAIN all /\ \A i \in DOMAIN all : g[i] = CoreOf(X, c, all[i])
      BY <1>4, <2>1
    <3>2. \A x \in ToSet(c) : \E i \in DOMAIN all : all[i] = x
      BY <1>1 DEF ToSet
    <3>3. \A i \in DOMAIN g : g[i] \in Y
      BY <1>4, <3>1
    <3>4. \A x \in ToSet(c) : \E i \in DOMAIN g : g[i] = CoreOf(X, c, x)
      BY <3>1, <3>2
    <3>5. \A q \in Y : \E i \in DOMAIN g : g[i] = q
      BY <3>4
    <3> HIDE DEF Y
    <3> QED
      BY <3>3, <3>5 DEF ToSet
  <2> QED
    BY <2>2, <2>3, <2>4, DistinctSet
<1>6. Len(GetOneVirtualPerPhysical(all)) = Len(Distinct(PhysicalCoreIds(all)))
  <2> DEFINE f == PhysicalCoreIds(all)
             I == {i \in DOMAIN all : \A j \in 1..(i - 1) : all[j].physicalCoreId # all[i].physicalCoreId}
             J == {i \in DOMAIN f : \A j \in 1..(i - 1) : f[j] # f[i]}
  <2>1. f \in Seq(K) /\ Len(f) = Len(all)
    BY <1>1, PhysicalIdsFacts
  <2>2. DOMAIN f = DOMAIN all /\ \A i \in DOMAIN all : f[i] = all[i].physicalCoreId
    BY DEF PhysicalCoreIds
  <2>3. \A i \in DOMAIN all : \A j \in 1..(i - 1) : j \in DOMAIN all
    BY <1>4
  <2> HIDE DEF f, K
  <2>4. I = J
    BY <2>2, <2>3
  <2>5. GetOneVirtualPerPhysical(all) = Kept(all, I) /\ Distinct(f) = Kept(f, J)
    BY DEF GetOneVirtualPerPhysical, Distinct
  <2> HIDE DEF I, J
  <2> QED
    BY <1>1, <2>1, <2>4, <2>5, KeptLen DEF f
<1>7. Len(Distinct(PhysicalCoreIds(all))) = Len(PhysicalCoreIds(phys))
  <2> DEFINE s == Distinct(PhysicalCoreIds(all))
             t == PhysicalCoreIds(phys)
             Q == {q.physicalCoreId : q \in Y}
  <2>0. \A x \in ToSet(c) : CoreOf(X, c, x).physicalCoreId = x.physicalCoreId
    BY DEF CoreOf
  <2>1. PhysicalCoreIds(all) \in Seq(K) /\ ToSet(PhysicalCoreIds(all)) = {x.physicalCoreId : x \in ToSet(all)}
    BY <1>1, PhysicalIdsFacts
  <2>2. Q = {x.physicalCoreId : x \in ToSet(c)} /\ Q \subseteq K
    <3>1. ToSet(c) \subseteq X
      BY CoreHasCore
    <3> QED
      BY <2>0, <3>1
  <2>3. t \in Seq(Q) /\ ToSet(t) = {q.physicalCoreId : q \in ToSet(phys)}
    BY <1>2, PhysicalIdsFacts
  <2> HIDE DEF K, Q, Y, t
  <2>4. s \in Seq(K) /\ ToSet(s) = ToSet(PhysicalCoreIds(all)) /\ IsInjective(s)
    BY <2>1, DistinctType, DistinctSet
  <2> HIDE DEF s
  <2>5. t \in Seq(K) /\ ToSet(s) = ToSet(t) /\ IsInjective(t)
    <3>1. t \in Seq(K)
      BY <2>2, <2>3, SeqMonotonic
    <3>2. ToSet(s) = Q /\ ToSet(t) = Q
      BY <1>1, <1>2, <2>1, <2>2, <2>3, <2>4 DEF Q
    <3> QED
      BY <1>3, <3>1, <3>2 DEF t
  <2>6. Len(s) = Len(t)
    BY <2>4, <2>5, SameLength
  <2> QED
    BY <2>6 DEF s, t
<1>8. Len(PhysicalCoreIds(phys)) = Len(phys)
  BY <1>2, PhysicalIdsFacts
<1> QED
  BY <1>2, <1>5, <1>6, <1>7, <1>8 DEF all, phys, v

-----------------------------------------------------------------------------
(* The coordinates of a machine.                                           *)

\* The coordinates of one core, and of all.
Coordinate(m, v) == [cpuId |-> m.package[v], physicalCoreId |-> UniqueCoreId(m, v), virtualCoreId |-> v]
CoordinateSet(m) == {Coordinate(m, v) : v \in m.present}

\* The cores that are online are met in some order, each once.
LEMMA OnlineIdsFacts ==
  ASSUME NEW m, IsMachine(m)
  PROVE  OnlineIds(m) \in Seq(m.present) /\ ToSet(OnlineIds(m)) = m.present /\ IsInjective(OnlineIds(m))
<1> DEFINE possible == [i \in 1..(m.highest - m.lowest + 1) |-> m.lowest + i - 1]
           n == m.highest - m.lowest + 1
<1>1. m.lowest \in Nat /\ m.highest \in Nat /\ m.present \subseteq m.lowest..m.highest /\ n \in Nat
  BY DEF IsMachine
<1>2. possible \in Seq(Nat) /\ DOMAIN possible = 1..n /\ \A i \in 1..n : possible[i] = m.lowest + i - 1
  BY <1>1
<1>3. IsInjective(possible)
  BY <1>1, <1>2 DEF IsInjective
<1>4. m.present \subseteq ToSet(possible)
  <2>1. ASSUME NEW v \in m.present PROVE v \in ToSet(possible)
    <3>1. v \in Nat /\ (v - m.lowest + 1) \in 1..n
      BY <1>1
    <3>2. possible[v - m.lowest + 1] = v
      BY <1>1, <1>2, <3>1
    <3> QED
      BY <1>2, <3>1, <3>2 DEF ToSet
  <2> QED
    BY <2>1
<1>5. OnlineIds(m) = Sel(possible, m.present)
  BY DEF OnlineIds, Sel
<1> HIDE DEF possible
<1>6. OnlineIds(m) \in Seq(Nat)
  BY <1>2, <1>5, SelType
<1>7. ToSet(OnlineIds(m)) = m.present /\ IsInjective(OnlineIds(m))
  <2>1. possible \in Seq(Nat)
    BY <1>2
  <2>2. /\ ToSet(Sel(possible, m.present)) = ToSet(possible) \cap m.present
        /\ IsInjective(possible) => IsInjective(Sel(possible, m.present))
    BY <2>1, SelSet
  <2> QED
    BY <1>3, <1>4, <1>5, <2>2
<1>8. OnlineIds(m) \in Seq(m.present)
  <2>1. OnlineIds(m) \in Seq(Range(OnlineIds(m)))
    BY <1>6, SeqOfRange
  <2>2. Range(OnlineIds(m)) = ToSet(OnlineIds(m))
    BY DEF Range, ToSet
  <2> QED
    BY <1>7, <2>1, <2>2
<1> QED
  BY <1>7, <1>8

\* The identifiers of physical cores are the numbers of the pairs.
LEMMA UniqueCoreIdFacts ==
  ASSUME NEW m, IsMachine(m)
  PROVE  \A v, w \in m.present : UniqueCoreId(m, v) = UniqueCoreId(m, w) <=> CorePair(m, v) = CorePair(m, w)
<1> DEFINE ids   == OnlineIds(m)
           S     == {CorePair(m, v) : v \in m.present}
           met   == [i \in DOMAIN ids |-> CorePair(m, ids[i])]
           pairs == CorePairs(m)
<1>1. ids \in Seq(m.present) /\ ToSet(ids) = m.present
  BY OnlineIdsFacts
<1>2. pairs = Distinct(met)
  BY DEF CorePairs
<1> HIDE DEF ids, pairs
<1>3. met \in Seq(S) /\ ToSet(met) = S
  <2>1. met \in Seq(S)
    <3>1. DOMAIN ids = 1..Len(ids) /\ Len(ids) \in Nat /\ \A i \in 1..Len(ids) : CorePair(m, ids[i]) \in S
      BY <1>1, LenProperties DEF ToSet
    <3> HIDE DEF S
    <3> QED
      BY <3>1
  <2>2. ToSet(met) = S
    BY <1>1 DEF ToSet
  <2> QED
    BY <2>1, <2>2
<1> HIDE DEF met
<1>4. pairs \in Seq(S) /\ ToSet(pairs) = S
  BY <1>2, <1>3, DistinctType, DistinctSet
<1>5. ASSUME NEW v \in m.present
      PROVE  UniqueCoreId(m, v) + 1 \in DOMAIN pairs /\ pairs[UniqueCoreId(m, v) + 1] = CorePair(m, v)
  <2> DEFINE k == CHOOSE i \in DOMAIN pairs : pairs[i] = CorePair(m, v)
  <2>1. CorePair(m, v) \in ToSet(pairs)
    BY <1>4
  <2>2. k \in DOMAIN pairs /\ pairs[k] = CorePair(m, v)
    BY <2>1 DEF ToSet
  <2>3. UniqueCoreId(m, v) = k - 1
    BY DEF UniqueCoreId, pairs
  <2> HIDE DEF k
  <2>4. k \in Int
    BY <1>4, <2>2, LenProperties
  <2> QED
    BY <2>2, <2>3, <2>4
<1>6. ASSUME NEW v \in m.present, NEW w \in m.present, CorePair(m, v) = CorePair(m, w)
      PROVE  UniqueCoreId(m, v) = UniqueCoreId(m, w)
  BY <1>6 DEF UniqueCoreId
<1> QED
  BY <1>5, <1>6

\* Each core has its coordinates, which name it and its CPU; the identifier of
\* a physical core stands for the pair of package and core_id.
LEMMA CoordinatesFacts ==
  ASSUME NEW m, IsMachine(m)
  PROVE  LET c == Coordinates(m)
         IN  /\ c \in Seq(CoordinateSet(m)) /\ ToSet(c) = CoordinateSet(m) /\ IsInjective(c)
             /\ IdsTellCpu(c)
             /\ \A v, w \in m.present : (Coordinate(m, v).physicalCoreId = Coordinate(m, w).physicalCoreId)
                                          <=> (m.package[v] = m.package[w] /\ m.core[v] = m.core[w])
<1> DEFINE c   == Coordinates(m)
           ids == OnlineIds(m)
           S   == CoordinateSet(m)
<1>1. ids \in Seq(m.present) /\ ToSet(ids) = m.present /\ IsInjective(ids)
  BY OnlineIdsFacts
<1>2. c = [i \in DOMAIN ids |-> Coordinate(m, ids[i])]
  BY DEF Coordinates, Coordinate
<1>3. \A v \in m.present : Coordinate(m, v).virtualCoreId = v /\ Coordinate(m, v).cpuId = m.package[v]
                           /\ Coordinate(m, v).physicalCoreId = UniqueCoreId(m, v)
  BY DEF Coordinate
<1> HIDE DEF ids, c
<1>4. DOMAIN ids = 1..Len(ids) /\ Len(ids) \in Nat /\ \A i \in DOMAIN ids : ids[i] \in m.present
  BY <1>1, LenProperties
<1>5. c \in Seq(S)
  <2>1. \A i \in DOMAIN ids : Coordinate(m, ids[i]) \in S
    BY <1>4 DEF CoordinateSet
  <2> HIDE DEF S
  <2> QED
    BY <1>2, <1>4, <2>1
<1>6. ToSet(c) = S
  <2>1. DOMAIN c = DOMAIN ids /\ \A i \in DOMAIN ids : c[i] = Coordinate(m, ids[i])
    BY <1>2
  <2> QED
    BY <1>1, <2>1 DEF ToSet, CoordinateSet
<1>7. IsInjective(c)
  <2>1. DOMAIN c = DOMAIN ids /\ \A i \in DOMAIN ids : c[i] = Coordinate(m, ids[i]) /\ c[i].virtualCoreId = ids[i]
    BY <1>2, <1>3, <1>4
  <2> QED
    BY <1>1, <2>1 DEF IsInjective
<1>8. ASSUME NEW v \in m.present, NEW w \in m.present
      PROVE  Coordinate(m, v).physicalCoreId = Coordinate(m, w).physicalCoreId
               <=> (m.package[v] = m.package[w] /\ m.core[v] = m.core[w])
  <2>1. UniqueCoreId(m, v) = UniqueCoreId(m, w) <=> CorePair(m, v) = CorePair(m, w)
    BY UniqueCoreIdFacts
  <2>2. CorePair(m, v) = CorePair(m, w) <=> (m.package[v] = m.package[w] /\ m.core[v] = m.core[w])
    BY DEF CorePair
  <2> QED
    BY <1>3, <2>1, <2>2
<1>9. IdsTellCpu(c)
  BY <1>3, <1>6, <1>8 DEF IdsTellCpu, CoordinateSet
<1> QED
  BY <1>5, <1>6, <1>7, <1>8, <1>9 DEF c

\* What is built of a machine.
Built == machine \in Machines /\ cpus = BuildCpuVector(Coordinates(machine))

\* The virtual cores of the topology are the coordinates of the machine.
LEMMA BuiltCores ==
  ASSUME Built
  PROVE  LET X   == CoordinateSet(machine)
             all == VirtualCores(cpus)
         IN  /\ all \in Seq(X) /\ ToSet(all) = X /\ IsInjective(all)
             /\ \A x \in X : /\ x.virtualCoreId \in Cores /\ x = Coordinate(machine, x.virtualCoreId)
                             /\ x.cpuId = machine.package[x.virtualCoreId]
             /\ \A v \in Cores : Coordinate(machine, v) \in X /\ Coordinate(machine, v).virtualCoreId = v
<1> DEFINE X   == CoordinateSet(machine)
           c   == Coordinates(machine)
           all == VirtualCores(cpus)
<1>0. IsMachine(machine)
  BY TopologyAssumption DEF Built
<1>1. c \in Seq(X) /\ ToSet(c) = X /\ IsInjective(c)
  BY <1>0, CoordinatesFacts
<1> HIDE DEF X, c
<1>2. all = FlattenSeq(Lists(c))
  BY CpuVectorShape DEF Built, c
<1>3. all \in Seq(X) /\ ToSet(all) = ToSet(c)
  BY <1>1, <1>2, CpuVectorFacts
<1>4. IsInjective(all)
  BY <1>1, <1>2, CpuVectorReread
<1>5. \A v \in Cores : /\ Coordinate(machine, v) \in X /\ Coordinate(machine, v).virtualCoreId = v
                       /\ Coordinate(machine, v).cpuId = machine.package[v]
  BY DEF Cores, X, CoordinateSet, Coordinate
<1>6. \A x \in X : \E v \in Cores : x = Coordinate(machine, v)
  BY DEF Cores, X, CoordinateSet
<1> QED
  BY <1>1, <1>3, <1>4, <1>5, <1>6 DEF X

\* The identifiers of the virtual cores.
LEMMA IdsFacts ==
  ASSUME Built
  PROVE  /\ Ids \in Seq(Cores) /\ IsInjective(Ids) /\ ToSet(Ids) = Cores
         /\ Len(Ids) \in Nat /\ Len(Ids) >= 1 /\ DOMAIN Ids = 1..Len(Ids)
<1> DEFINE X   == CoordinateSet(machine)
           all == VirtualCores(cpus)
<1>1. /\ all \in Seq(X) /\ ToSet(all) = X /\ IsInjective(all)
      /\ \A x \in X : /\ x.virtualCoreId \in Cores /\ x = Coordinate(machine, x.virtualCoreId)
                      /\ x.cpuId = machine.package[x.virtualCoreId]
      /\ \A v \in Cores : Coordinate(machine, v) \in X /\ Coordinate(machine, v).virtualCoreId = v
  BY BuiltCores
<1> HIDE DEF X, all
<1>2. DOMAIN all = 1..Len(all) /\ Len(all) \in Nat /\ \A i \in DOMAIN all : all[i] \in X
  BY <1>1, LenProperties
<1>3. Ids = [i \in 1..Len(all) |-> all[i].virtualCoreId]
  BY <1>2 DEF Ids, VirtualCoreIds, all
<1>4. DOMAIN Ids = 1..Len(all) /\ \A i \in 1..Len(all) : Ids[i] = all[i].virtualCoreId /\ Ids[i] \in Cores
  BY <1>1, <1>2, <1>3
<1>5. Ids \in Seq(Cores) /\ Len(Ids) = Len(all)
  BY <1>2, <1>3, <1>4
<1>6. IsInjective(Ids)
  <2>1. ASSUME NEW i \in DOMAIN all, NEW j \in DOMAIN all, all[i].virtualCoreId = all[j].virtualCoreId
        PROVE  i = j
    <3>1. all[i] = all[j]
      BY <1>1, <1>2, <2>1
    <3> QED
      BY <1>1, <3>1 DEF IsInjective
  <2> QED
    BY <1>2, <1>4, <2>1 DEF IsInjective
<1>7. ToSet(Ids) = Cores
  <2>1. ASSUME NEW v \in Cores PROVE \E i \in DOMAIN Ids : Ids[i] = v
    <3>1. Coordinate(machine, v) \in ToSet(all) /\ Coordinate(machine, v).virtualCoreId = v
      BY <1>1
    <3> QED
      BY <1>2, <1>4, <3>1 DEF ToSet
  <2> QED
    BY <1>4, <2>1 DEF ToSet
<1>8. Len(Ids) >= 1
  <2>1. Cores # {}
    BY TopologyAssumption DEF Built, Cores, IsMachine
  <2>2. Len(Ids) # 0
    BY <1>2, <1>4, <1>5, <1>7, <2>1 DEF ToSet
  <2> QED
    BY <1>2, <1>5, <2>2
<1> QED
  BY <1>2, <1>4, <1>5, <1>6, <1>7, <1>8

\* The hierarchy of a machine is the one of its hardware.
LEMMA GroupsHold ==
  ASSUME Built
  PROVE  GroupsFollowHardware
<1> DEFINE X    == CoordinateSet(machine)
           c    == Coordinates(machine)
           all  == VirtualCores(cpus)
           phys == PhysicalCores(cpus)
           Same(v, w) == machine.package[v] = machine.package[w] /\ machine.core[v] = machine.core[w]
           Members(p) == {v.virtualCoreId : v \in ToSet(p.virtualCores)}
<1>0. IsMachine(machine) /\ cpus = BuildCpuVector(c)
  BY TopologyAssumption DEF Built
<1>1. /\ c \in Seq(X) /\ ToSet(c) = X /\ IsInjective(c) /\ IdsTellCpu(c)
      /\ \A v, w \in machine.present : (Coordinate(machine, v).physicalCoreId = Coordinate(machine, w).physicalCoreId)
                                          <=> (machine.package[v] = machine.package[w] /\ machine.core[v] = machine.core[w])
  BY <1>0, CoordinatesFacts
<1>2. /\ all \in Seq(X) /\ ToSet(all) = X
      /\ \A x \in X : /\ x.virtualCoreId \in Cores /\ x = Coordinate(machine, x.virtualCoreId)
                      /\ x.cpuId = machine.package[x.virtualCoreId]
      /\ \A v \in Cores : Coordinate(machine, v) \in X /\ Coordinate(machine, v).virtualCoreId = v
  BY BuiltCores
<1> HIDE DEF X, c
<1>3. IsInjective(Ids) /\ ToSet(Ids) = Cores
  BY IdsFacts
<1>4. ASSUME NEW i \in DOMAIN cpus
      PROVE  {v.virtualCoreId : v \in ToSet(VirtualCoresFromPhysicalCores(cpus[i]))}
               = {w \in Cores : machine.package[w] = cpus[i].cpuId}
  <2> DEFINE a == CpusOf(c)[i]
             l == VirtualCoresFromPhysicalCores(cpus[i])
  <2>1. i \in DOMAIN CpusOf(c) /\ cpus[i].cpuId = a /\ l = Lists(c)[i]
    BY <1>0, CpuVectorShape
  <2>2. i \in DOMAIN Lists(c) /\ ToSet(Lists(c)[i]) = ToSet(c) \cap InCpu(X, CpusOf(c)[i])
    <3>1. DOMAIN Lists(c) = DOMAIN CpusOf(c)
      BY DEF Lists
    <3> QED
      BY <1>1, <2>1, <3>1, ListFacts
  <2>3. ToSet(l) = {x \in X : x.cpuId = a}
    BY <1>1, <2>1, <2>2 DEF InCpu
  <2> HIDE DEF a, l
  <2>4. ASSUME NEW w \in Cores, machine.package[w] = a PROVE \E x \in ToSet(l) : x.virtualCoreId = w
    <3>1. Coordinate(machine, w) \in X /\ Coordinate(machine, w).virtualCoreId = w
      BY <1>2
    <3>2. Coordinate(machine, w).cpuId = machine.package[w]
      BY <1>2, <3>1
    <3> QED
      BY <2>3, <2>4, <3>1, <3>2
  <2>5. \A x \in ToSet(l) : x.virtualCoreId \in Cores /\ machine.package[x.virtualCoreId] = a
    BY <1>2, <2>3
  <2>6. {x.virtualCoreId : x \in ToSet(l)} = {w \in Cores : machine.package[w] = a}
    BY <2>4, <2>5
  <2> QED
    BY <2>1, <2>6 DEF l
<1>5. ASSUME NEW i \in DOMAIN all
      PROVE  Members(GetPhysicalCore(cpus, all[i].physicalCoreId)) = {w \in Cores : Same(all[i].virtualCoreId, w)}
  <2> DEFINE x == all[i]
             p == CoreOf(X, c, x)
  <2>1. x \in X
    BY <1>2 DEF ToSet
  <2>2. GetPhysicalCore(cpus, x.physicalCoreId) = p
    BY <1>0, <1>1, <2>1, PhysicalCoreFound
  <2>3. ToSet(p.virtualCores) = ToSet(c) \cap InCore(X, x.cpuId, x.physicalCoreId)
    BY <1>1, <2>1, CoreHasCore
  <2> HIDE DEF p, x
  <2>4. ToSet(p.virtualCores) = {y \in X : y.cpuId = x.cpuId /\ y.physicalCoreId = x.physicalCoreId}
    BY <1>1, <2>3 DEF InCore
  <2>5. \A y \in X : y.cpuId = x.cpuId /\ y.physicalCoreId = x.physicalCoreId <=> Same(x.virtualCoreId, y.virtualCoreId)
    BY <1>1, <1>2, <2>1 DEF Cores
  <2>6. Members(p) = {w \in Cores : Same(x.virtualCoreId, w)}
    <3> HIDE DEF Same
    <3>1. ASSUME NEW w \in Cores, Same(x.virtualCoreId, w) PROVE w \in Members(p)
      <4>1. Coordinate(machine, w) \in X /\ Coordinate(machine, w).virtualCoreId = w
        BY <1>2
      <4> QED
        BY <2>4, <2>5, <3>1, <4>1
    <3>2. ASSUME NEW y \in ToSet(p.virtualCores)
          PROVE  y.virtualCoreId \in Cores /\ Same(x.virtualCoreId, y.virtualCoreId)
      BY <1>2, <2>4, <2>5
    <3> QED
      BY <3>1, <3>2
  <2> QED
    BY <2>2, <2>6 DEF x
<1>6. /\ ToSet(VirtualToPhysical(cpus, all)) = ToSet(phys)
      /\ Len(GetOneVirtualPerPhysical(all)) = Len(phys)
  BY <1>0, <1>1, CountsPhysicalCores
<1> HIDE DEF all, phys, Same, Members
<1> QED
  BY <1>3, <1>4, <1>5, <1>6 DEF GroupsFollowHardware, all, phys, Same, Members

\* The cores of units: some cores of the machine.
LEMMA UnitsFacts ==
  ASSUME Built, NEW u \in Units(cpus)
  PROVE  u \in Seq(Cores) /\ u # <<>>
<1> DEFINE X    == CoordinateSet(machine)
           c    == Coordinates(machine)
           all  == VirtualCores(cpus)
           phys == PhysicalCores(cpus)
<1>0. IsMachine(machine) /\ cpus = BuildCpuVector(c)
  BY TopologyAssumption DEF Built
<1>1. c \in Seq(X) /\ ToSet(c) = X
  BY <1>0, CoordinatesFacts
<1>2. all \in Seq(X) /\ \A x \in X : x.virtualCoreId \in Cores
  BY BuiltCores
<1> HIDE DEF X, c
<1>3. ASSUME NEW s \in Seq(X), s # <<>> PROVE VirtualCoreIds(s) \in Seq(Cores) /\ VirtualCoreIds(s) # <<>>
  <2>1. DOMAIN s = 1..Len(s) /\ Len(s) \in Nat /\ Len(s) # 0 /\ \A i \in 1..Len(s) : s[i].virtualCoreId \in Cores
    BY <1>2, <1>3
  <2>2. VirtualCoreIds(s) = [i \in 1..Len(s) |-> s[i].virtualCoreId]
    BY <2>1 DEF VirtualCoreIds
  <2> QED
    BY <2>1, <2>2
<1>4. CASE \E i \in DOMAIN cpus : u = VirtualCoreIds(VirtualCoresFromPhysicalCores(cpus[i]))
  <2>1. PICK i \in DOMAIN cpus : u = VirtualCoreIds(VirtualCoresFromPhysicalCores(cpus[i]))
    BY <1>4
  <2>2. i \in DOMAIN Lists(c) /\ VirtualCoresFromPhysicalCores(cpus[i]) = Lists(c)[i]
    <3>1. i \in DOMAIN CpusOf(c) /\ VirtualCoresFromPhysicalCores(cpus[i]) = Lists(c)[i]
      BY <1>0, CpuVectorShape
    <3> QED
      BY <3>1 DEF Lists
  <2>3. Lists(c)[i] \in Seq(X) /\ Lists(c)[i] # <<>>
    BY <1>1, <2>2, ListFacts
  <2> QED
    BY <1>3, <2>1, <2>2, <2>3
<1>5. CASE \E i \in DOMAIN phys : u = VirtualCoreIds(phys[i].virtualCores)
  <2>1. PICK i \in DOMAIN phys : u = VirtualCoreIds(phys[i].virtualCores)
    BY <1>5
  <2>2. phys[i] \in ToSet(phys)
    BY DEF ToSet
  <2>3. PICK x \in ToSet(c) : phys[i] = CoreOf(X, c, x)
    <3>0. c \in Seq(X)
      BY <1>1
    <3>1. ToSet(PhysicalCores(BuildCpuVector(c))) = {CoreOf(X, c, x) : x \in ToSet(c)}
      BY <3>0, PhysicalCoresFacts
    <3>2. ToSet(phys) = {CoreOf(X, c, x) : x \in ToSet(c)}
      BY <1>0, <3>1
    <3> HIDE DEF phys
    <3> QED
      BY <2>2, <3>2
  <2>4. phys[i].virtualCores \in Seq(X) /\ phys[i].virtualCores # <<>>
    BY <1>1, <2>3, CoreHasCore, FlattenEmpty
  <2> QED
    BY <1>3, <2>1, <2>4
<1>6. CASE \E i \in DOMAIN all : u = <<all[i].virtualCoreId>>
  <2>1. PICK i \in DOMAIN all : u = <<all[i].virtualCoreId>>
    BY <1>6
  <2>2. all[i].virtualCoreId \in Cores
    BY <1>2, LenProperties
  <2> QED
    BY <2>1, <2>2
<1> QED
  BY <1>4, <1>5, <1>6 DEF Units

-----------------------------------------------------------------------------
(* The hierarchy, here and at a client.                                    *)

\* The topology is never changed, and a client has none or the same.
HierarchyInv == Built /\ remote \in {<<>>, cpus}

\* No operation touches the hierarchy.
LEMMA MachineStays ==
  ASSUME [Next]_vars
  PROVE  machine' = machine /\ cpus' = cpus /\ (remote' = remote \/ GetTopology)
<1> SUFFICES ASSUME Next PROVE UNCHANGED machineVars /\ (remote' = remote \/ GetTopology)
  BY DEF machineVars, vars
<1>1. ASSUME NEW op, NEW todo, NEW value, NEW step, Begin(op, todo, value, step)
      PROVE  UNCHANGED machineVars /\ remote' = remote
  BY <1>1 DEF Begin
<1>2. ASSUME NEW u \in Units(cpus),
             HotPlug(u) \/ HotUnplug(u) \/ (\E value \in CallValues : SetClockModulation(u, value))
      PROVE  UNCHANGED machineVars /\ remote' = remote
  BY <1>1, <1>2 DEF HotPlug, HotUnplug, SetClockModulation
<1>3. CASE GetRollbackPoint \/ Rollback
  BY <1>1, <1>3 DEF GetRollbackPoint, Rollback
<1>4. CASE Plug \/ Check \/ ReadOld \/ WriteNew
  BY <1>4 DEF Plug, Check, ReadOld, WriteNew
<1>5. CASE SavePlugged \/ SaveEnabled \/ SaveDuty \/ RestorePlugged
  BY <1>5 DEF SavePlugged, SaveEnabled, SaveDuty, RestorePlugged
<1>6. ASSUME NEW v \in Cores, Toggle(v) PROVE UNCHANGED machineVars /\ remote' = remote
  BY <1>6 DEF Toggle
<1>7. CASE GetTopology
  BY <1>7 DEF GetTopology
<1> QED
  BY <1>2, <1>3, <1>4, <1>5, <1>6, <1>7 DEF Next

\* A client builds the hierarchy of the server again.
LEMMA ClientBuildsTheSame ==
  ASSUME Built, GetTopology
  PROVE  remote' = cpus
<1> DEFINE X == CoordinateSet(machine)
           c == Coordinates(machine)
<1>1. IsMachine(machine) /\ cpus = BuildCpuVector(c)
  BY TopologyAssumption DEF Built
<1>2. c \in Seq(X)
  BY <1>1, CoordinatesFacts
<1> HIDE DEF X, c
<1>3. BuildCpuVector(VirtualCores(BuildCpuVector(c))) = BuildCpuVector(c)
  BY <1>2, RebuildsTheSame
<1> QED
  BY <1>1, <1>3 DEF GetTopology, RemoteTopology, GetTopologyRes

\* The hierarchy is the one that was built, at the server and at a client.
LEMMA HierarchyInvariant == Spec => []HierarchyInv
<1>1. Init => HierarchyInv
  BY DEF Init, HierarchyInv, Built
<1>2. HierarchyInv /\ [Next]_vars => HierarchyInv'
  BY MachineStays, ClientBuildsTheSame DEF HierarchyInv, Built
<1> QED
  BY <1>1, <1>2, PTL DEF Spec

\* On every machine, however its cores are numbered and whichever of them are
\* missing, the constructor groups virtual cores as the hardware does.
THEOREM GroupsAlwaysFollowHardware == Spec => []GroupsFollowHardware
<1>1. HierarchyInv => GroupsFollowHardware
  BY GroupsHold DEF HierarchyInv
<1> QED
  BY <1>1, HierarchyInvariant, PTL

\* The client that rebuilds the hierarchy from the list of the server gets
\* the same CPUs, physical and virtual cores in the same order.
THEOREM RemoteAlwaysMirrorsServer == Spec => []RemoteMirrorsServer
<1>1. HierarchyInv => RemoteMirrorsServer
  BY DEF HierarchyInv, RemoteMirrorsServer
<1> QED
  BY <1>1, HierarchyInvariant, PTL

-----------------------------------------------------------------------------
(* The inductive invariant.                                                *)

Ops   == {"none", "hotPlug", "hotUnplug", "set", "point", "rollback", "thrown"}
Steps == {"idle", "plug", "check", "read", "write", "save", "enabled", "duty", "restore"}
Registers == 0..31
WriteBits == [high : 0..4, low : 0..4, value : 0..Full]

Types ==
  /\ Built
  /\ online \in [Cores -> BOOLEAN] /\ reg \in [Cores -> Registers] /\ asked \in [Cores -> ClkModValues]
  /\ \A v \in Cores : v \notin machine.hotpluggable => online[v] = TRUE
  /\ point \in [plugged : Seq(BOOLEAN), clockModulation : Seq(0..Full), inPeace : BOOLEAN]

\* The steps of each operation; an operation that is under way has cores to visit.
CallShape ==
  /\ call \in [op : Ops, todo : Seq(Cores), writes : Seq(WriteBits), value : 0..Full,
               old : Registers, step : Steps]
  /\ call.step # "idle" => call.todo # <<>>
  /\ call.step = "plug" => call.op \in {"hotPlug", "hotUnplug"}
  /\ call.step \in {"check", "read", "write"} => call.op \in {"set", "rollback"}
  /\ call.step \in {"save", "enabled", "duty"} => call.op = "point"
  /\ call.step = "restore" => call.op = "rollback"

\* The writes that are left of setClockModulation().
ClearWrite  == [high |-> 4, low |-> ClkModLowBit, value |-> 0]
EnableWrite == [high |-> 4, low |-> 4, value |-> 1]
DutyWrite(value) == [high |-> 3, low |-> ClkModLowBit, value |-> value]
Accessing == call.step \in {"read", "write"}
WritesLeft ==
  Accessing => /\ call.value \in ClkModValues
               /\ IF call.value = Full THEN call.writes = <<ClearWrite>>
                  ELSE call.writes \in {<<EnableWrite, DutyWrite(call.value)>>, <<DutyWrite(call.value)>>}

\* What getClockModulation() makes of a register, and what holds of one between
\* accesses to it, unless others toggle its core meanwhile.
Reported(r) == IF Field(r, 4, 4) = 1 THEN Field(r, 3, ClkModLowBit) ELSE Full
Current(v)  == Accessing /\ Head(call.todo) = v
Midway(v)   == Current(v) /\ call.value # Full /\ Len(call.writes) = 1
RegistersHold ==
  \A v \in Cores :
    /\ v \notin machine.modulated => asked[v] = Full
    /\ v \in machine.modulated \ garbled /\ ~(Midway(v) /\ Accessible(v)) => Reported(reg[v]) = asked[v]
    /\ (v \notin garbled \/ v \notin disturbed) /\ Current(v) /\ Accessible(v) =>
         /\ call.step = "write" => call.old = reg[v]
         /\ Midway(v) => Field(reg[v], 4, 4) = 1

\* A rollback point, and the operations that walk all cores.
Pos == Len(Ids) - Len(call.todo)
Walking == call.op \in {"point", "rollback"} /\ call.step # "idle"
WalkShape ==
  Walking => Pos \in 0..(Len(Ids) - 1) /\ \A k \in 1..Len(call.todo) : call.todo[k] = Ids[Pos + k]
PointLengths ==
  /\ Len(point.clockModulation) \in 0..Len(Ids)
  /\ IF call.op = "point" /\ call.step # "idle"
     THEN /\ Len(point.clockModulation) = Pos
          /\ Len(point.plugged) = IF call.step = "save" THEN Pos ELSE Pos + 1
     ELSE Len(point.plugged) = Len(point.clockModulation)
PointHolds ==
  /\ \A i \in 1..Len(point.plugged) : Ids[i] \notin machine.hotpluggable => point.plugged[i] = TRUE
  /\ \A i \in 1..Len(point.clockModulation) :
       /\ point.inPeace /\ Ids[i] \notin machine.modulated => point.clockModulation[i] = Full
       /\ point.inPeace /\ point.plugged[i] = FALSE => point.clockModulation[i] = Full
       /\ point.inPeace /\ garbled = {} => point.clockModulation[i] \in ClkModValues
  /\ point.inPeace /\ call.step \in {"enabled", "duty"} =>
       /\ point.plugged[Pos + 1] = online[Head(call.todo)]
       /\ call.step = "duty" => /\ Accessible(Head(call.todo))
                                /\ Field(reg[Head(call.todo)], 4, 4) = 1

\* What a rollback has done so far.
Restored(i) ==
  /\ online[Ids[i]] = point.plugged[i]
  /\ (IF Accessible(Ids[i]) THEN Reported(reg[Ids[i]]) ELSE Full) = point.clockModulation[i]
Undisturbed == point.inPeace /\ disturbed = {} /\ refused = {}
RollbackWalk ==
  call.op = "rollback" =>
    /\ Len(point.clockModulation) = Len(Ids)
    /\ call.step # "idle" /\ Undisturbed => \A i \in 1..Pos : Restored(i)
    /\ call.step = "idle" /\ Undisturbed => \A i \in 1..Len(Ids) : Restored(i)
    /\ call.step \in {"check", "read", "write"} =>
         /\ call.value = point.clockModulation[Pos + 1] /\ HasClockModulation(Ids[Pos + 1])
         /\ Undisturbed => online[Ids[Pos + 1]] = point.plugged[Pos + 1]
SetValue == call.op = "set" /\ call.step # "idle" => call.value \in ClkModValues
ThrownForAReason == call.op = "thrown" => call.step = "idle" /\ (point.inPeace = FALSE \/ garbled # {})

\* The invariant.
TopologyInv ==
  /\ Types /\ CallShape /\ WritesLeft /\ RegistersHold
  /\ WalkShape /\ PointLengths /\ PointHolds /\ RollbackWalk /\ SetValue /\ ThrownForAReason

-----------------------------------------------------------------------------
(* The register.                                                           *)

\* The steps that make 100%.
LEMMA FullFacts == ClkModLowBit \in {0, 1} /\ (ClkModLowBit = 0 => Full = 16) /\ (ClkModLowBit = 1 => Full = 8)
<1>1. ASSUME ClkModLowBit = 0 PROVE Full = 16
  BY <1>1 DEF Full
<1>2. ASSUME ClkModLowBit = 1 PROVE Full = 8
  BY <1>2 DEF Full
<1> QED
  BY <1>1, <1>2, TopologyAssumption

\* The values that the fields of the register can have.
LEMMA FieldFacts ==
  ASSUME NEW r \in Registers
  PROVE  /\ Field(r, 4, 4) \in {0, 1} /\ Field(r, 3, ClkModLowBit) \in 0..(Full - 1)
         /\ Reported(r) \in 0..Full
<1>1. CASE ClkModLowBit = 0
  BY <1>1, FullFacts DEF Field, Registers, Reported
<1>2. CASE ClkModLowBit = 1
  BY <1>2, FullFacts DEF Field, Registers, Reported
<1> QED
  BY <1>1, <1>2, FullFacts

\* 100% clears the enable bit and the duty cycle.
LEMMA ClearFacts ==
  ASSUME NEW r \in Registers
  PROVE  WithBits(r, 4, ClkModLowBit, 0) \in Registers /\ Reported(WithBits(r, 4, ClkModLowBit, 0)) = Full
<1>1. CASE ClkModLowBit = 0
  BY <1>1, FullFacts DEF Field, Registers, Reported, WithBits
<1>2. CASE ClkModLowBit = 1
  BY <1>2, FullFacts DEF Field, Registers, Reported, WithBits
<1> QED
  BY <1>1, <1>2, FullFacts

\* Writing the enable bit sets it.
LEMMA EnableFacts ==
  ASSUME NEW r \in Registers
  PROVE  WithBits(r, 4, 4, 1) \in Registers /\ Field(WithBits(r, 4, 4, 1), 4, 4) = 1
  BY DEF Field, Registers, WithBits

\* The duty cycle leaves the enable bit alone.
LEMMA DutyFacts ==
  ASSUME NEW r \in Registers, NEW value \in ClkModValues, value # Full
  PROVE  /\ WithBits(r, 3, ClkModLowBit, value) \in Registers
         /\ Field(r, 4, 4) = 1 => Reported(WithBits(r, 3, ClkModLowBit, value)) = value
<1>1. CASE ClkModLowBit = 0
  BY <1>1, FullFacts DEF Field, Registers, Reported, WithBits, ClkModValues
<1>2. CASE ClkModLowBit = 1
  BY <1>2, FullFacts DEF Field, Registers, Reported, WithBits, ClkModValues
<1> QED
  BY <1>1, <1>2, FullFacts

\* The writes of setClockModulation().
LEMMA WritesFacts ==
  ASSUME NEW value \in ClkModValues
  PROVE  /\ Writes(value) \in Seq(WriteBits)
         /\ Writes(value) = IF value = Full THEN <<ClearWrite>> ELSE <<EnableWrite, DutyWrite(value)>>
         /\ ClearWrite \in WriteBits /\ EnableWrite \in WriteBits /\ DutyWrite(value) \in WriteBits
<1>1. Full \in Nat /\ value \in 0..Full /\ 1 \in 0..Full
  BY FullFacts DEF ClkModValues
<1>2. ClearWrite \in WriteBits /\ EnableWrite \in WriteBits /\ DutyWrite(value) \in WriteBits
  BY <1>1, FullFacts DEF ClearWrite, EnableWrite, DutyWrite, WriteBits
<1>3. Writes(value) = IF value = Full THEN <<ClearWrite>> ELSE <<EnableWrite, DutyWrite(value)>>
  BY DEF Writes, ClearWrite, EnableWrite, DutyWrite
<1> QED
  BY <1>2, <1>3

-----------------------------------------------------------------------------
(* Steps.                                                                  *)

\* The machine and its hierarchy stay.
LEMMA Frame ==
  ASSUME Built, UNCHANGED machineVars
  PROVE  Built' /\ Ids' = Ids /\ Cores' = Cores /\ machine' = machine /\ cpus' = cpus
<1>1. machine' = machine /\ cpus' = cpus
  BY DEF machineVars
<1> QED
  BY <1>1 DEF Built, Ids, Cores

\* The tail of a sequence of cores.
LEMMA TailFacts ==
  ASSUME NEW S, NEW s \in Seq(S), s # <<>>
  PROVE  /\ Len(s) \in Nat /\ Len(s) >= 1 /\ Tail(s) \in Seq(S)
         /\ Len(Tail(s)) = Len(s) - 1
         /\ \A k \in 1..Len(Tail(s)) : Tail(s)[k] = s[k + 1]
         /\ Tail(s) = <<>> <=> Len(s) = 1
<1>1. Len(s) \in Nat /\ Len(s) # 0
  OBVIOUS
<1>2. Tail(s) \in Seq(S) /\ Len(Tail(s)) = Len(s) - 1
  BY <1>1
<1>3. \A k \in 1..Len(Tail(s)) : Tail(s)[k] = s[k + 1]
  BY <1>1, <1>2
<1>4. ASSUME NEW t \in Seq(S), Len(t) = Len(s) - 1 PROVE t = <<>> <=> Len(s) = 1
  BY <1>1, <1>4
<1>5. Tail(s) = <<>> <=> Len(s) = 1
  BY <1>2, <1>4
<1> QED
  BY <1>1, <1>2, <1>3, <1>5

\* The operation comes to its next core, or returns.
LEMMA VisitedFacts ==
  ASSUME CallShape, call.step # "idle"
  PROVE  /\ Visited \in [op : Ops, todo : Seq(Cores), writes : Seq(WriteBits), value : 0..Full,
                         old : Registers, step : Steps]
         /\ Visited.op = call.op
         /\ Len(call.todo) \in Nat /\ Len(call.todo) >= 1
         /\ Len(call.todo) = 1 => Visited.step = "idle" /\ Visited.todo = <<>>
         /\ Len(call.todo) # 1 => /\ Visited.step = FirstStep[call.op] /\ Visited.todo = Tail(call.todo)
                                  /\ Visited.value = call.value /\ Visited.todo # <<>>
                                  /\ Len(Visited.todo) = Len(call.todo) - 1
                                  /\ \A k \in 1..Len(Visited.todo) : Visited.todo[k] = call.todo[k + 1]
<1> DEFINE C == [op : Ops, todo : Seq(Cores), writes : Seq(WriteBits), value : 0..Full,
                 old : Registers, step : Steps]
<1>1. /\ call \in C /\ call.todo \in Seq(Cores) /\ call.todo # <<>>
      /\ call.op \in {"hotPlug", "hotUnplug", "set", "point", "rollback"}
  BY DEF CallShape, Steps
<1>2. /\ Len(call.todo) \in Nat /\ Len(call.todo) >= 1 /\ Tail(call.todo) \in Seq(Cores)
      /\ Len(Tail(call.todo)) = Len(call.todo) - 1
      /\ \A k \in 1..Len(Tail(call.todo)) : Tail(call.todo)[k] = call.todo[k + 1]
      /\ Tail(call.todo) = <<>> <=> Len(call.todo) = 1
  BY <1>1, TailFacts
<1>3. Tail(call.todo) = <<>> <=> Len(call.todo) = 1
  BY <1>2
<1>4. FirstStep[call.op] \in Steps
  BY <1>1 DEF FirstStep, Steps
<1>5. Idle \in C
  BY FullFacts DEF Idle, Ops, Steps, Registers
<1>6. CASE Len(call.todo) = 1
  <2>1. Visited = [Idle EXCEPT !.op = call.op]
    BY <1>3, <1>6 DEF Visited
  <2>2. Visited \in C /\ Visited.op = call.op
    BY <1>1, <1>5, <2>1
  <2>3. Visited.step = "idle" /\ Visited.todo = <<>>
    BY <2>1 DEF Idle
  <2> QED
    BY <1>2, <1>6, <2>2, <2>3
<1>7. CASE Len(call.todo) # 1
  <2>1. Visited = [call EXCEPT !.todo = Tail(call.todo), !.writes = <<>>, !.step = FirstStep[call.op]]
    BY <1>3, <1>7 DEF Visited
  <2>2. Tail(call.todo) \in Seq(Cores) /\ <<>> \in Seq(WriteBits) /\ FirstStep[call.op] \in Steps
    BY <1>2, <1>4
  <2>3. ASSUME NEW t \in Seq(Cores), NEW w \in Seq(WriteBits), NEW st \in Steps
        PROVE  LET r == [call EXCEPT !.todo = t, !.writes = w, !.step = st]
               IN  r \in C /\ r.op = call.op /\ r.step = st /\ r.todo = t /\ r.value = call.value
    BY <1>1
  <2>4. /\ Visited \in C /\ Visited.op = call.op /\ Visited.step = FirstStep[call.op]
        /\ Visited.todo = Tail(call.todo) /\ Visited.value = call.value
    BY <2>1, <2>2, <2>3
  <2> QED
    BY <1>2, <1>3, <1>7, <2>4
<1> QED
  BY <1>6, <1>7

\* The core that is visited; a walk through all cores visits them in order.
LEMMA CurrentCore ==
  ASSUME Types, CallShape, WalkShape, call.step # "idle"
  PROVE  /\ Head(call.todo) \in Cores
         /\ Walking => /\ Pos \in Nat /\ Pos + 1 \in 1..Len(Ids) /\ Len(Ids) \in Nat
                       /\ Head(call.todo) = Ids[Pos + 1]
<1>1. call.todo \in Seq(Cores) /\ call.todo # <<>>
  BY DEF CallShape
<1>2. Len(call.todo) \in Nat /\ Len(call.todo) >= 1
  BY <1>1, TailFacts
<1>3. Head(call.todo) = call.todo[1] /\ call.todo[1] \in Cores
  BY <1>1, <1>2
<1>4. Len(Ids) \in Nat
  BY IdsFacts DEF Types
<1>5. ASSUME Walking PROVE Pos \in 0..(Len(Ids) - 1) /\ \A k \in 1..Len(call.todo) : call.todo[k] = Ids[Pos + k]
  BY <1>5 DEF WalkShape
<1> HIDE DEF Pos
<1>6. ASSUME Walking PROVE Pos \in Nat /\ Pos + 1 \in 1..Len(Ids) /\ call.todo[1] = Ids[Pos + 1]
  BY <1>2, <1>4, <1>5, <1>6
<1> QED
  BY <1>3, <1>4, <1>6

\* What holds of the control of an operation that has visited a core.
LEMMA VisitedStep ==
  ASSUME Types, CallShape, WalkShape, SetValue, call.step # "idle",
         UNCHANGED machineVars, call' = Visited
  PROVE  /\ CallShape' /\ WritesLeft' /\ WalkShape' /\ SetValue' /\ ThrownForAReason'
         /\ Accessing' = FALSE /\ call'.op = call.op /\ call'.step \in {"idle", FirstStep[call.op]}
         /\ Walking => Pos' = Pos + 1 /\ (call'.step = "idle" => Pos' = Len(Ids))
<1> DEFINE C == [op : Ops, todo : Seq(Cores), writes : Seq(WriteBits), value : 0..Full,
                 old : Registers, step : Steps]
<1>1. /\ Built /\ Ids' = Ids /\ Cores' = Cores
      /\ Len(Ids) \in Nat
  BY Frame, IdsFacts DEF Types
<1>2. /\ call' \in C
      /\ call'.op = call.op
      /\ Len(call.todo) \in Nat /\ Len(call.todo) >= 1
      /\ Len(call.todo) = 1 => call'.step = "idle" /\ call'.todo = <<>>
      /\ Len(call.todo) # 1 => /\ call'.step = FirstStep[call.op] /\ call'.todo = Tail(call.todo)
                               /\ call'.value = call.value /\ call'.todo # <<>>
                               /\ Len(call'.todo) = Len(call.todo) - 1
                               /\ \A k \in 1..Len(call'.todo) : call'.todo[k] = call.todo[k + 1]
  BY VisitedFacts
<1>3. call.op \in {"hotPlug", "hotUnplug", "set", "point", "rollback"}
  BY DEF CallShape, Steps
<1>4. call' \in C'
  BY <1>1, <1>2
<1> HIDE DEF C
<1>5. /\ call'.op = call.op /\ call'.step \in {"idle", FirstStep[call.op]}
      /\ call'.step # "idle" => /\ call'.todo # <<>> /\ call'.value = call.value
                                /\ Len(call.todo) # 1
  BY <1>2
<1>6. /\ FirstStep["hotPlug"] = "plug" /\ FirstStep["hotUnplug"] = "plug" /\ FirstStep["set"] = "check"
      /\ FirstStep["point"] = "save" /\ FirstStep["rollback"] = "restore"
  BY DEF FirstStep
<1>7. CallShape' /\ ~Accessing'
  BY <1>3, <1>4, <1>5, <1>6 DEF CallShape, Accessing, C
<1>8. WritesLeft' /\ SetValue' /\ ThrownForAReason'
  BY <1>3, <1>5, <1>7 DEF WritesLeft, SetValue, ThrownForAReason
<1>9. Len(call'.todo) = Len(call.todo) - 1
  <2>1. CASE Len(call.todo) = 1
    <3>1. call'.todo = <<>>
      BY <1>2, <2>1
    <3>2. Len(call'.todo) = 0
      BY <3>1
    <3> QED
      BY <2>1, <3>2
  <2>2. CASE Len(call.todo) # 1
    BY <1>2, <2>2
  <2> QED
    BY <2>1, <2>2
<1>10. Pos' = Pos + 1 /\ (call'.step = "idle" => Pos' = Len(Ids))
  <2>1. Len(call.todo) # 1 => call'.step # "idle"
    BY <1>2, <1>3, <1>6
  <2> QED
    BY <1>1, <1>2, <1>9, <2>1 DEF Pos
<1>11. WalkShape'
  <2> SUFFICES ASSUME Walking'
               PROVE  Pos' \in 0..(Len(Ids) - 1) /\ \A k \in 1..Len(call'.todo) : call'.todo[k] = Ids[Pos' + k]
    BY <1>1 DEF WalkShape
  <2>1. Walking /\ Len(call.todo) # 1
    BY <1>5 DEF Walking
  <2>2. Pos \in 0..(Len(Ids) - 1) /\ \A k \in 1..Len(call.todo) : call.todo[k] = Ids[Pos + k]
    BY <2>1 DEF WalkShape
  <2>3. Pos' \in 0..(Len(Ids) - 1)
    BY <1>1, <1>2, <1>9, <1>10, <2>1, <2>2 DEF Pos
  <2>4. \A k \in 1..Len(call'.todo) : call'.todo[k] = call.todo[k + 1]
    BY <1>2, <2>1
  <2> SUFFICES ASSUME NEW k \in 1..Len(call'.todo) PROVE call'.todo[k] = Ids[Pos' + k]
    BY <2>3
  <2>5. k \in Nat /\ k + 1 \in 1..Len(call.todo)
    BY <1>2, <1>9
  <2>6. call.todo[k + 1] = Ids[Pos + (k + 1)]
    BY <2>2, <2>5
  <2>7. Pos' + k = Pos + (k + 1)
    BY <1>10, <2>2, <2>5
  <2> QED
    BY <2>4, <2>6, <2>7
<1> QED
  BY <1>5, <1>7, <1>8, <1>10, <1>11


\* The registers, while no register is accessed or an access only begins.
LEMMA RegistersKept ==
  ASSUME RegistersHold, Cores' = Cores, machine' = machine, UNCHANGED <<reg, asked, garbled>>,
         Accessing = FALSE, call'.step # "write", \A v \in Cores : Midway(v)' = FALSE
  PROVE  RegistersHold'
<1> SUFFICES ASSUME NEW v \in Cores
             PROVE  /\ v \notin machine.modulated => asked[v] = Full
                    /\ v \in machine.modulated \ garbled => Reported(reg[v]) = asked[v]
  BY DEF RegistersHold, Accessible, HasClockModulation, Reported
<1>1. ~(Midway(v) /\ Accessible(v))
  BY DEF Midway, Current
<1> QED
  BY <1>1 DEF RegistersHold

\* The rollback point, while it is not being taken.
LEMMA PointKept ==
  ASSUME PointLengths, PointHolds, CallShape', Ids' = Ids, machine' = machine, UNCHANGED <<point, garbled>>,
         ~(call.op = "point" /\ call.step # "idle"), ~(call'.op = "point" /\ call'.step # "idle")
  PROVE  PointLengths' /\ PointHolds'
<1>1. call'.step \notin {"enabled", "duty"}
  BY DEF CallShape
<1>2. PointLengths'
  BY DEF PointLengths
<1> QED
  BY <1>1, <1>2 DEF PointHolds

\* The operations and the steps with which they begin.
Beginnings == {<<"hotPlug", "plug">>, <<"hotUnplug", "plug">>, <<"set", "check">>,
               <<"point", "save">>, <<"rollback", "restore">>}
EmptyPoint == [plugged |-> <<>>, clockModulation |-> <<>>, inPeace |-> TRUE]

\* An operation begins.
LEMMA BeginStep ==
  ASSUME TopologyInv,
         NEW op, NEW todo \in Seq(Cores), NEW value \in 0..Full, NEW step,
         Begin(op, todo, value, step), <<op, step>> \in Beginnings, todo # <<>>,
         op = "set" => value \in ClkModValues,
         op \in {"point", "rollback"} => todo = Ids,
         op = "rollback" => Len(point.clockModulation) = Len(Ids),
         IF op = "point" THEN point' = EmptyPoint ELSE point' = point
  PROVE  TopologyInv'
<1>1. /\ Types /\ CallShape /\ WritesLeft /\ RegistersHold
      /\ WalkShape /\ PointLengths /\ PointHolds /\ RollbackWalk /\ SetValue /\ ThrownForAReason
  BY DEF TopologyInv
<1>2. Built' /\ Ids' = Ids /\ Cores' = Cores /\ machine' = machine
  BY <1>1, Frame DEF Begin, Types
<1>3. Len(Ids) \in Nat /\ Len(Ids) >= 1
  BY <1>1, IdsFacts DEF Types
<1>4. /\ op \in {"hotPlug", "hotUnplug", "set", "point", "rollback"}
      /\ step \in {"plug", "check", "save", "restore"}
      /\ step = "plug" => op \in {"hotPlug", "hotUnplug"}
      /\ step = "check" => op = "set"
      /\ step = "save" <=> op = "point"
      /\ step = "restore" <=> op = "rollback"
  BY DEF Beginnings
<1>5. /\ call.step = "idle" /\ UNCHANGED <<online, reg, garbled, asked>>
      /\ call' = [Idle EXCEPT !.op = op, !.todo = todo, !.value = value, !.step = step]
  BY DEF Begin
<1>6. /\ call'.op = op /\ call'.todo = todo /\ call'.writes = <<>> /\ call'.value = value /\ call'.old = 0
      /\ call'.step = step
      /\ call' \in [op : Ops, todo : Seq(Cores), writes : Seq(WriteBits), value : 0..Full,
                    old : Registers, step : Steps]
  <2>1. call' = [op |-> op, todo |-> todo, writes |-> <<>>, value |-> value, old |-> 0, step |-> step]
    BY <1>5 DEF Idle
  <2>2. op \in Ops /\ step \in Steps /\ 0 \in Registers /\ <<>> \in Seq(WriteBits)
    BY <1>4 DEF Ops, Steps, Registers
  <2> QED
    BY <2>1, <2>2
<1>7. Accessing = FALSE /\ Accessing' = FALSE /\ \A v \in Cores : Midway(v)' = FALSE
  BY <1>4, <1>5, <1>6 DEF Accessing, Midway, Current
<1>8. CallShape'
  BY <1>2, <1>4, <1>6 DEF CallShape
<1>9. WritesLeft' /\ SetValue' /\ ThrownForAReason'
  BY <1>4, <1>6, <1>7 DEF WritesLeft, SetValue, ThrownForAReason
<1>10. RegistersHold'
  BY <1>1, <1>2, <1>4, <1>5, <1>6, <1>7, RegistersKept
<1>11. EmptyPoint \in [plugged : Seq(BOOLEAN), clockModulation : Seq(0..Full), inPeace : BOOLEAN]
  BY DEF EmptyPoint
<1>12. Types'
  BY <1>1, <1>2, <1>5, <1>11 DEF Types
<1>13. op \in {"point", "rollback"} => Pos' = 0
  BY <1>2, <1>3, <1>6 DEF Pos
<1>14. WalkShape'
  <2> SUFFICES ASSUME Walking'
               PROVE  Pos' \in 0..(Len(Ids) - 1) /\ \A k \in 1..Len(call'.todo) : call'.todo[k] = Ids[Pos' + k]
    BY <1>2 DEF WalkShape
  <2>1. op \in {"point", "rollback"} /\ todo = Ids /\ Pos' = 0
    BY <1>6, <1>13 DEF Walking
  <2> QED
    BY <1>3, <1>6, <2>1
<1>15. PointLengths' /\ PointHolds'
  <2>1. CASE op = "point"
    <3>1. Len(point'.clockModulation) = 0 /\ Len(point'.plugged) = 0
      BY <2>1 DEF EmptyPoint
    <3>2. Pos' = 0 /\ step = "save"
      BY <1>4, <1>13, <2>1
    <3>3. PointLengths'
      BY <1>2, <1>3, <1>6, <2>1, <3>1, <3>2 DEF PointLengths
    <3> QED
      BY <1>6, <3>1, <3>2, <3>3 DEF PointHolds
  <2>2. CASE op # "point"
    BY <1>1, <1>2, <1>5, <1>6, <1>8, <2>2, PointKept
  <2> QED
    BY <2>1, <2>2
<1>16. RollbackWalk'
  <2> SUFFICES ASSUME op = "rollback"
               PROVE  /\ Len(point'.clockModulation) = Len(Ids) /\ call'.step = "restore"
                      /\ \A i \in 1..Pos' : Restored(i)'
    BY <1>2, <1>6 DEF RollbackWalk
  <2> QED
    BY <1>4, <1>6, <1>13
<1> QED
  BY <1>8, <1>9, <1>10, <1>12, <1>14, <1>15, <1>16 DEF TopologyInv


\* Writing to the file "online" of a core.
LEMMA WriteOnlineFacts ==
  ASSUME NEW v \in Cores, NEW b \in BOOLEAN, online \in [Cores -> BOOLEAN], WriteOnline(v, b)
  PROVE  /\ online' \in [Cores -> BOOLEAN] /\ \A w \in Cores \ {v} : online'[w] = online[w]
         /\ refused' = {} => refused = {} /\ online'[v] = b
         /\ ~online'[v] => ~b
<1>1. LastOnline(v) \in BOOLEAN
  BY DEF LastOnline
<1>2. online' = [online EXCEPT ![v] = b \/ (online[v] /\ LastOnline(v))]
  BY DEF WriteOnline
<1>3. refused' = IF ~b /\ online[v] /\ LastOnline(v) THEN refused \cup {v} ELSE refused
  BY DEF WriteOnline
<1>4. online' \in [Cores -> BOOLEAN] /\ \A w \in Cores \ {v} : online'[w] = online[w]
  BY <1>1, <1>2
<1>5. online'[v] = (b \/ (online[v] /\ LastOnline(v)))
  BY <1>2
<1>6. refused' = {} => refused = {} /\ ~(~b /\ online[v] /\ LastOnline(v))
  BY <1>3
<1> QED
  BY <1>1, <1>4, <1>5, <1>6

\* hotPlug() and hotUnplug() of a core.
LEMMA PlugStep ==
  ASSUME TopologyInv, Plug
  PROVE  TopologyInv'
<1>1. /\ Types /\ CallShape /\ WritesLeft /\ RegistersHold
      /\ WalkShape /\ PointLengths /\ PointHolds /\ RollbackWalk /\ SetValue /\ ThrownForAReason
  BY DEF TopologyInv
<1>2. Built' /\ Ids' = Ids /\ Cores' = Cores /\ machine' = machine
  BY <1>1, Frame DEF Plug, Types
<1>3. /\ call.step = "plug" /\ call' = Visited /\ UNCHANGED machineVars
      /\ UNCHANGED <<reg, point, disturbed, garbled, asked>>
  BY DEF Plug
<1>4. call.op \in {"hotPlug", "hotUnplug"} /\ call.step # "idle"
  BY <1>1, <1>3 DEF CallShape
<1>5. /\ CallShape' /\ WritesLeft' /\ WalkShape' /\ SetValue' /\ ThrownForAReason'
      /\ Accessing' = FALSE /\ call'.op = call.op /\ call'.step \in {"idle", FirstStep[call.op]}
      /\ Walking => Pos' = Pos + 1 /\ (call'.step = "idle" => Pos' = Len(Ids))
  BY <1>1, <1>3, <1>4, VisitedStep
<1>6. RegistersHold'
  <2>1. Accessing = FALSE /\ call'.step # "write" /\ \A v \in Cores : Midway(v)' = FALSE
    BY <1>3, <1>5 DEF Accessing, Midway, Current
  <2> QED
    BY <1>1, <1>2, <1>3, <2>1, RegistersKept
<1>7. PointLengths' /\ PointHolds'
  BY <1>1, <1>2, <1>3, <1>4, <1>5, PointKept
<1>8. RollbackWalk'
  BY <1>4, <1>5 DEF RollbackWalk
<1>9. online' \in [Cores -> BOOLEAN] /\ \A v \in Cores \ machine.hotpluggable : online'[v] = online[v]
  <2>1. online \in [Cores -> BOOLEAN] /\ Head(call.todo) \in Cores
    BY <1>1, <1>4, CurrentCore DEF Types
  <2> QED
    BY <2>1, WriteOnlineFacts DEF Plug, IsHotPluggable
<1>10. Types'
  BY <1>1, <1>2, <1>3, <1>9 DEF Types
<1> QED
  BY <1>5, <1>6, <1>7, <1>8, <1>10 DEF TopologyInv


\* The operation stays at its core.
LEMMA StillVisiting ==
  ASSUME WalkShape, Ids' = Ids, call.step # "idle", call'.step # "idle",
         call'.op = call.op, call'.todo = call.todo
  PROVE  WalkShape' /\ Pos' = Pos
<1>1. Pos' = Pos /\ Walking' = Walking
  BY DEF Pos, Walking
<1> QED
  BY <1>1 DEF WalkShape

\* The cores that a rollback has visited differ from the one it visits.
LEMMA VisitedDiffer ==
  ASSUME Types, CallShape, WalkShape, Walking, NEW i \in 1..Pos
  PROVE  Ids[i] \in Cores /\ Ids[i] # Head(call.todo) /\ i \in 1..Len(Ids)
<1>1. call.step # "idle"
  BY DEF Walking
<1>2. /\ Pos \in Nat /\ Pos + 1 \in 1..Len(Ids) /\ Len(Ids) \in Nat
      /\ Head(call.todo) = Ids[Pos + 1]
  BY <1>1, CurrentCore
<1>3. Ids \in Seq(Cores) /\ IsInjective(Ids) /\ DOMAIN Ids = 1..Len(Ids)
  BY IdsFacts DEF Types
<1> HIDE DEF Pos
<1>4. i \in 1..Len(Ids) /\ i # Pos + 1
  BY <1>2
<1>5. Ids[i] \in Cores
  BY <1>3, <1>4
<1>6. Ids[i] # Ids[Pos + 1]
  BY <1>2, <1>3, <1>4 DEF IsInjective
<1> QED
  BY <1>2, <1>4, <1>5, <1>6

\* What a rollback has done, while it sets the modulation of a core.
LEMMA RollbackKept ==
  ASSUME Types, CallShape, WalkShape, RollbackWalk,
         Ids' = Ids, machine' = machine, Cores' = Cores, UNCHANGED <<point, online, disturbed, refused>>,
         call'.op = call.op, call'.todo = call.todo, call'.value = call.value,
         call.step \in {"check", "read", "write"}, call'.step \in {"check", "read", "write"},
         \A w \in Cores \ {Head(call.todo)} : reg'[w] = reg[w]
  PROVE  RollbackWalk'
<1> SUFFICES ASSUME call.op = "rollback" PROVE RollbackWalk'
  BY DEF RollbackWalk
<1>1. Walking /\ Pos' = Pos
  BY DEF Walking, Pos
<1>2. /\ Len(point.clockModulation) = Len(Ids)
      /\ Undisturbed => \A i \in 1..Pos : Restored(i)
      /\ call.value = point.clockModulation[Pos + 1] /\ HasClockModulation(Ids[Pos + 1])
      /\ Undisturbed => online[Ids[Pos + 1]] = point.plugged[Pos + 1]
  BY DEF RollbackWalk
<1>3. Undisturbed' = Undisturbed
  BY DEF Undisturbed
<1>4. \A i \in 1..Pos : Restored(i)' = Restored(i)
  <2> TAKE i \in 1..Pos
  <2>1. Ids[i] \in Cores /\ Ids[i] # Head(call.todo)
    BY <1>1, VisitedDiffer
  <2>2. reg'[Ids[i]] = reg[Ids[i]]
    BY <2>1
  <2> QED
    BY <2>2 DEF Restored, Accessible, HasClockModulation, Reported
<1>5. Undisturbed' => \A i \in 1..Pos' : Restored(i)'
  BY <1>1, <1>2, <1>3, <1>4
<1>6. /\ call'.value = point'.clockModulation[Pos' + 1] /\ HasClockModulation(Ids[Pos + 1])'
      /\ Undisturbed' => online'[Ids'[Pos' + 1]] = point'.plugged[Pos' + 1]
  BY <1>1, <1>2, <1>3 DEF HasClockModulation
<1> HIDE DEF Pos
<1> QED
  BY <1>1, <1>2, <1>5, <1>6 DEF RollbackWalk

\* The test of setClockModulation().
LEMMA CheckStep ==
  ASSUME TopologyInv, Check
  PROVE  TopologyInv'
<1>1. /\ Types /\ CallShape /\ WritesLeft /\ RegistersHold
      /\ WalkShape /\ PointLengths /\ PointHolds /\ RollbackWalk /\ SetValue /\ ThrownForAReason
  BY DEF TopologyInv
<1>2. Built' /\ Ids' = Ids /\ Cores' = Cores /\ machine' = machine
  BY <1>1, Frame DEF Check, Types
<1>3. /\ call.step = "check"
      /\ UNCHANGED <<online, reg, point, disturbed, garbled, refused, asked>>
  BY DEF Check, ghosts
<1>4. call.op \in {"set", "rollback"} /\ call.step # "idle" /\ Accessing = FALSE
  BY <1>1, <1>3 DEF CallShape, Accessing
<1>5. Types'
  BY <1>1, <1>2, <1>3 DEF Types
<1>6. /\ call \in [op : Ops, todo : Seq(Cores), writes : Seq(WriteBits), value : 0..Full,
                   old : Registers, step : Steps]
      /\ call.todo # <<>>
  BY <1>1, <1>4 DEF CallShape
<1>7. CASE call.value \in ClkModValues
  <2>1. call' = [call EXCEPT !.writes = Writes(call.value), !.step = "read"]
    BY <1>7 DEF Check
  <2>2. /\ Writes(call.value) \in Seq(WriteBits)
        /\ Writes(call.value) = IF call.value = Full THEN <<ClearWrite>> ELSE <<EnableWrite, DutyWrite(call.value)>>
    BY <1>7, WritesFacts
  <2>3. /\ call'.op = call.op /\ call'.todo = call.todo /\ call'.value = call.value /\ call'.step = "read"
        /\ call'.writes = IF call.value = Full THEN <<ClearWrite>> ELSE <<EnableWrite, DutyWrite(call.value)>>
    BY <1>6, <2>1, <2>2
  <2>4. call' \in [op : Ops, todo : Seq(Cores), writes : Seq(WriteBits), value : 0..Full,
                   old : Registers, step : Steps]
    BY <1>6, <2>1, <2>2 DEF Steps
  <2>5. CallShape'
    BY <1>2, <1>4, <1>6, <2>3, <2>4 DEF CallShape
  <2>6. WritesLeft'
    BY <1>7, <2>3 DEF WritesLeft, ClearWrite, EnableWrite, DutyWrite
  <2>7. RegistersHold'
    <3>1. ASSUME call.value # Full PROVE Len(call'.writes) = 2
      BY <2>3, <3>1
    <3>2. \A v \in Cores : Midway(v)' = FALSE
      BY <2>3, <3>1 DEF Midway
    <3> QED
      BY <1>1, <1>2, <1>3, <1>4, <2>3, <3>2, RegistersKept
  <2>8. WalkShape'
    BY <1>1, <1>2, <1>4, <2>3, StillVisiting
  <2>9. PointLengths' /\ PointHolds'
    BY <1>1, <1>2, <1>3, <1>4, <2>3, <2>5, PointKept
  <2>10. RollbackWalk'
    BY <1>1, <1>2, <1>3, <2>3, RollbackKept
  <2>11. SetValue' /\ ThrownForAReason'
    BY <1>1, <1>4, <1>7, <2>3 DEF SetValue, ThrownForAReason
  <2> QED
    BY <1>5, <2>5, <2>6, <2>7, <2>8, <2>9, <2>10, <2>11 DEF TopologyInv
<1>8. CASE call.value \notin ClkModValues
  <2>1. call' = [op |-> "thrown", todo |-> <<>>, writes |-> <<>>, value |-> 0, old |-> 0, step |-> "idle"]
    BY <1>8 DEF Check, Idle
  <2>2. CallShape'
    BY <2>1, FullFacts DEF CallShape, Ops, Steps, Registers
  <2>3. WritesLeft' /\ WalkShape' /\ RollbackWalk' /\ SetValue' /\ Accessing' = FALSE
    BY <2>1 DEF WritesLeft, Accessing, WalkShape, Walking, RollbackWalk, SetValue
  <2>4. RegistersHold'
    <3>1. call'.step # "write" /\ \A v \in Cores : Midway(v)' = FALSE
      BY <2>1, <2>3 DEF Midway, Current
    <3> QED
      BY <1>1, <1>2, <1>3, <1>4, <3>1, RegistersKept
  <2>5. PointLengths' /\ PointHolds'
    <3>1. ~(call'.op = "point" /\ call'.step # "idle") /\ ~(call.op = "point" /\ call.step # "idle")
      BY <1>4, <2>1
    <3> QED
      BY <1>1, <1>2, <1>3, <2>2, <3>1, PointKept
  <2>6. point.inPeace = FALSE \/ garbled # {}
    <3>1. call.op = "rollback" /\ Walking
      BY <1>1, <1>4, <1>8 DEF SetValue, Walking
    <3>2. call.value = point.clockModulation[Pos + 1] /\ Len(point.clockModulation) = Len(Ids)
      BY <1>1, <1>3, <3>1 DEF RollbackWalk
    <3>3. Pos + 1 \in 1..Len(Ids)
      BY <1>1, <1>4, <3>1, CurrentCore
    <3>4. Pos + 1 \in 1..Len(point.clockModulation)
      BY <3>2, <3>3
    <3>5. ~(point.inPeace /\ garbled = {})
      BY <1>1, <1>8, <3>2, <3>4 DEF PointHolds
    <3>6. point.inPeace \in BOOLEAN
      BY <1>1 DEF Types
    <3> QED
      BY <3>5, <3>6
  <2>7. ThrownForAReason'
    BY <1>3, <2>1, <2>6 DEF ThrownForAReason
  <2> QED
    BY <1>5, <2>2, <2>3, <2>4, <2>5, <2>7 DEF TopologyInv
<1> QED
  BY <1>7, <1>8


\* writeBits() reads the register.
LEMMA ReadOldStep ==
  ASSUME TopologyInv, ReadOld
  PROVE  TopologyInv'
<1>1. /\ Types /\ CallShape /\ WritesLeft /\ RegistersHold
      /\ WalkShape /\ PointLengths /\ PointHolds /\ RollbackWalk /\ SetValue /\ ThrownForAReason
  BY DEF TopologyInv
<1>2. Built' /\ Ids' = Ids /\ Cores' = Cores /\ machine' = machine
  BY <1>1, Frame DEF ReadOld, Types
<1>3. /\ call.step = "read"
      /\ UNCHANGED <<online, reg, point, disturbed, garbled, refused, asked>>
  BY DEF ReadOld, ghosts
<1>4. call.op \in {"set", "rollback"} /\ call.step # "idle" /\ Accessing
  BY <1>1, <1>3 DEF CallShape, Accessing
<1> DEFINE v == Head(call.todo)
<1>5. v \in Cores /\ reg[v] \in Registers /\ Garbage \subseteq Registers
  BY <1>1, <1>4, CurrentCore, TopologyAssumption DEF Types, Registers
<1>6. PICK old \in Registers : /\ call' = [call EXCEPT !.old = old, !.step = "write"]
                               /\ Accessible(v) => old = reg[v]
  BY <1>5 DEF ReadOld
<1>7. /\ call \in [op : Ops, todo : Seq(Cores), writes : Seq(WriteBits), value : 0..Full,
                   old : Registers, step : Steps]
      /\ call.todo # <<>>
  BY <1>1, <1>4 DEF CallShape
<1>8. /\ call'.op = call.op /\ call'.todo = call.todo /\ call'.value = call.value /\ call'.step = "write"
      /\ call'.writes = call.writes /\ call'.old = old
  BY <1>6, <1>7
<1>9. call' \in [op : Ops, todo : Seq(Cores), writes : Seq(WriteBits), value : 0..Full,
                 old : Registers, step : Steps]
  BY <1>6, <1>7 DEF Steps
<1>10. Types'
  BY <1>1, <1>2, <1>3 DEF Types
<1>11. CallShape'
  BY <1>2, <1>4, <1>7, <1>8, <1>9 DEF CallShape
<1>12. WritesLeft'
  BY <1>1, <1>4, <1>8 DEF WritesLeft, ClearWrite, EnableWrite, DutyWrite
<1>13. RegistersHold'
  <2> SUFFICES ASSUME NEW u \in Cores
               PROVE  /\ u \notin machine.modulated => asked[u] = Full
                      /\ u \in machine.modulated \ garbled /\ ~(Midway(u) /\ Accessible(u)) => Reported(reg[u]) = asked[u]
                      /\ (u \notin garbled \/ u \notin disturbed) /\ Current(u) /\ Accessible(u) =>
                           /\ old = reg[u]
                           /\ Midway(u) => Field(reg[u], 4, 4) = 1
    <3>1. \A u \in Cores : Current(u)' = Current(u) /\ Midway(u)' = Midway(u) /\ Accessible(u)' = Accessible(u)
      BY <1>2, <1>3, <1>4, <1>8 DEF Current, Midway, Accessing, Accessible, HasClockModulation
    <3> HIDE DEF Current, Midway, Accessible
    <3> QED
      BY <1>2, <1>3, <1>8, <3>1 DEF RegistersHold, Reported
  <2>1. Current(u) => u = v
    BY DEF Current
  <2> QED
    BY <1>1, <1>6, <2>1 DEF RegistersHold
<1>14. WalkShape'
  BY <1>1, <1>2, <1>4, <1>8, StillVisiting
<1>15. PointLengths' /\ PointHolds'
  BY <1>1, <1>2, <1>3, <1>4, <1>8, <1>11, PointKept
<1>16. RollbackWalk'
  BY <1>1, <1>2, <1>3, <1>8, RollbackKept
<1>17. SetValue' /\ ThrownForAReason'
  BY <1>1, <1>4, <1>8 DEF SetValue, ThrownForAReason
<1> QED
  BY <1>10, <1>11, <1>12, <1>13, <1>14, <1>15, <1>16, <1>17 DEF TopologyInv

\* What a rollback has done, when it is done with a core.
LEMMA RollbackAdvances ==
  ASSUME Types, CallShape, WalkShape, SetValue, RollbackWalk, call.op = "rollback", call.step # "idle",
         UNCHANGED machineVars, UNCHANGED point, call' = Visited,
         Undisturbed' => /\ Undisturbed /\ \A k \in {Pos + 1} : Restored(k)'
                         /\ \A w \in Cores \ {Head(call.todo)} : online'[w] = online[w] /\ reg'[w] = reg[w]
  PROVE  RollbackWalk'
<1>1. Walking
  BY DEF Walking
<1>2. Ids' = Ids /\ Cores' = Cores /\ machine' = machine
  BY Frame DEF Types
<1>3. Pos \in Nat /\ Pos + 1 \in 1..Len(Ids) /\ Len(Ids) \in Nat
  BY <1>1, CurrentCore
<1>4. /\ Pos' = Pos + 1 /\ (call'.step = "idle" => Pos' = Len(Ids))
      /\ call'.op = call.op /\ call'.step \in {"idle", FirstStep[call.op]}
  BY <1>1, VisitedStep
<1>5. call'.step \in {"idle", "restore"}
  BY <1>4 DEF FirstStep
<1>6. /\ Len(point.clockModulation) = Len(Ids)
      /\ Undisturbed => \A i \in 1..Pos : Restored(i)
  BY DEF RollbackWalk
<1>7. ASSUME Undisturbed', NEW i \in 1..Pos' PROVE Restored(i)'
  <2>1. CASE i = Pos + 1
    BY <1>7, <2>1
  <2>2. CASE i # Pos + 1
    <3>1. i \in 1..Pos
      BY <1>3, <1>4, <2>2
    <3>2. Ids[i] \in Cores /\ Ids[i] # Head(call.todo)
      BY <1>1, <3>1, VisitedDiffer
    <3>3. online'[Ids[i]] = online[Ids[i]] /\ reg'[Ids[i]] = reg[Ids[i]] /\ Restored(i)
      BY <1>6, <1>7, <3>1, <3>2
    <3> QED
      BY <1>2, <3>3 DEF Restored, Accessible, HasClockModulation, Reported
  <2> QED
    BY <2>1, <2>2
<1> QED
  BY <1>2, <1>4, <1>5, <1>6, <1>7 DEF RollbackWalk


\* The values that writeBits() writes.
LEMMA WrittenFacts ==
  ASSUME Types, CallShape, WritesLeft, RegistersHold, WalkShape, call.step = "write"
  PROVE  LET v    == Head(call.todo)
             w    == Head(call.writes)
             new  == WithBits(call.old, w.high, w.low, w.value)
             more == Len(call.writes) > 1
         IN  /\ v \in Cores /\ new \in Registers /\ call.value \in ClkModValues
             /\ more => /\ call.value # Full /\ call.writes = <<EnableWrite, DutyWrite(call.value)>>
                        /\ Tail(call.writes) = <<DutyWrite(call.value)>>
                        /\ Field(new, 4, 4) = 1
             /\ ~more /\ (v \notin garbled \/ v \notin disturbed) /\ Accessible(v) => Reported(new) = call.value
<1> DEFINE v    == Head(call.todo)
           w    == Head(call.writes)
           new  == WithBits(call.old, w.high, w.low, w.value)
           more == Len(call.writes) > 1
<1>1. v \in Cores /\ call.old \in Registers
  BY CurrentCore DEF CallShape
<1>2. /\ call.value \in ClkModValues /\ Accessing
      /\ \/ call.value = Full /\ call.writes = <<ClearWrite>>
         \/ call.value # Full /\ call.writes = <<EnableWrite, DutyWrite(call.value)>>
         \/ call.value # Full /\ call.writes = <<DutyWrite(call.value)>>
  BY DEF WritesLeft, Accessing
<1>3. ASSUME v \notin garbled \/ v \notin disturbed, Accessible(v)
      PROVE  call.old = reg[v] /\ (Midway(v) => Field(reg[v], 4, 4) = 1)
  BY <1>1, <1>2, <1>3 DEF RegistersHold, Current
<1>4. CASE call.value = Full /\ call.writes = <<ClearWrite>>
  <2>1. w = ClearWrite /\ Len(call.writes) = 1
    BY <1>4
  <2>2. new = WithBits(call.old, 4, ClkModLowBit, 0)
    BY <2>1 DEF ClearWrite
  <2>3. new \in Registers /\ Reported(new) = Full
    BY <1>1, <2>2, ClearFacts
  <2> HIDE DEF new, w
  <2> QED
    BY <1>1, <1>2, <1>4, <2>1, <2>3 DEF new, w
<1>5. CASE call.value # Full /\ call.writes = <<EnableWrite, DutyWrite(call.value)>>
  <2>1. w = EnableWrite /\ Len(call.writes) = 2 /\ Tail(call.writes) = <<DutyWrite(call.value)>>
    BY <1>5
  <2>2. new = WithBits(call.old, 4, 4, 1)
    BY <2>1 DEF EnableWrite
  <2>3. new \in Registers /\ Field(new, 4, 4) = 1
    BY <1>1, <2>2, EnableFacts
  <2> HIDE DEF new, w
  <2> QED
    BY <1>1, <1>2, <1>5, <2>1, <2>3 DEF new, w
<1>6. CASE call.value # Full /\ call.writes = <<DutyWrite(call.value)>>
  <2>1. w = DutyWrite(call.value) /\ Len(call.writes) = 1
    BY <1>6
  <2>2. new = WithBits(call.old, 3, ClkModLowBit, call.value)
    BY <2>1 DEF DutyWrite
  <2>3. new \in Registers /\ (Field(call.old, 4, 4) = 1 => Reported(new) = call.value)
    BY <1>1, <1>2, <1>6, <2>2, DutyFacts
  <2>4. Midway(v)
    BY <1>2, <1>6, <2>1 DEF Midway, Current
  <2> HIDE DEF new, w
  <2> QED
    BY <1>1, <1>2, <1>3, <1>6, <2>1, <2>3, <2>4 DEF new, w
<1> QED
  BY <1>2, <1>4, <1>5, <1>6

\* writeBits() writes the register.
LEMMA WriteNewStep ==
  ASSUME TopologyInv, WriteNew
  PROVE  TopologyInv'
<1>1. /\ Types /\ CallShape /\ WritesLeft /\ RegistersHold
      /\ WalkShape /\ PointLengths /\ PointHolds /\ RollbackWalk /\ SetValue /\ ThrownForAReason
  BY DEF TopologyInv
<1>2. Built' /\ Ids' = Ids /\ Cores' = Cores /\ machine' = machine
  BY <1>1, Frame DEF WriteNew, Types
<1>3. /\ call.step = "write" /\ UNCHANGED machineVars
      /\ UNCHANGED <<online, point, disturbed, garbled, refused>>
  BY DEF WriteNew
<1>4. call.op \in {"set", "rollback"} /\ call.step # "idle" /\ Accessing
  BY <1>1, <1>3 DEF CallShape, Accessing
<1> DEFINE v    == Head(call.todo)
           w    == Head(call.writes)
           new  == WithBits(call.old, w.high, w.low, w.value)
           more == Len(call.writes) > 1
<1>5. /\ v \in Cores /\ new \in Registers /\ call.value \in ClkModValues
      /\ more => /\ call.value # Full /\ call.writes = <<EnableWrite, DutyWrite(call.value)>>
                 /\ Tail(call.writes) = <<DutyWrite(call.value)>>
                 /\ Field(new, 4, 4) = 1
      /\ ~more /\ (v \notin garbled \/ v \notin disturbed) /\ Accessible(v) => Reported(new) = call.value
  BY <1>1, <1>3, WrittenFacts
<1>6. /\ reg' = IF Accessible(v) THEN [reg EXCEPT ![v] = new] ELSE reg
      /\ asked' = IF Accessible(v) /\ ~more THEN [asked EXCEPT ![v] = call.value] ELSE asked
      /\ call' = IF more THEN [call EXCEPT !.writes = Tail(call.writes), !.step = "read"] ELSE Visited
  BY DEF WriteNew
<1> HIDE DEF v, w, new, more
<1>7. reg \in [Cores -> Registers] /\ asked \in [Cores -> ClkModValues]
  BY <1>1 DEF Types
<1>8. /\ reg' \in [Cores -> Registers] /\ asked' \in [Cores -> ClkModValues]
      /\ \A u \in Cores \ {v} : reg'[u] = reg[u] /\ asked'[u] = asked[u]
      /\ Accessible(v) => reg'[v] = new
      /\ Accessible(v) /\ ~more => asked'[v] = call.value
      /\ ~Accessible(v) => reg'[v] = reg[v]
      /\ ~Accessible(v) \/ more => asked'[v] = asked[v]
  BY <1>5, <1>6, <1>7
<1>9. Types'
  BY <1>1, <1>2, <1>3, <1>8 DEF Types
<1>10. \A u \in Cores : Accessible(u)' = Accessible(u)
  BY <1>2, <1>3 DEF Accessible, HasClockModulation
<1>11. \A u \in Cores \ {v} : ~Current(u) /\ ~Midway(u)
  BY DEF Current, Midway, v
<1>12. CASE more
  <2>1. call' = [call EXCEPT !.writes = Tail(call.writes), !.step = "read"]
    BY <1>6, <1>12
  <2>2. /\ call \in [op : Ops, todo : Seq(Cores), writes : Seq(WriteBits), value : 0..Full,
                     old : Registers, step : Steps]
        /\ call.todo # <<>>
    BY <1>1, <1>4 DEF CallShape
  <2>3. Tail(call.writes) = <<DutyWrite(call.value)>> /\ DutyWrite(call.value) \in WriteBits /\ call.value # Full
    BY <1>5, <1>12, WritesFacts
  <2>4. /\ call'.op = call.op /\ call'.todo = call.todo /\ call'.value = call.value /\ call'.step = "read"
        /\ call'.writes = <<DutyWrite(call.value)>>
    BY <2>1, <2>2, <2>3
  <2>5. <<DutyWrite(call.value)>> \in Seq(WriteBits)
    BY <2>3
  <2>6. call' \in [op : Ops, todo : Seq(Cores), writes : Seq(WriteBits), value : 0..Full,
                   old : Registers, step : Steps]
    BY <2>1, <2>2, <2>3, <2>5 DEF Steps
  <2>7. CallShape'
    BY <1>2, <1>4, <2>2, <2>4, <2>6 DEF CallShape
  <2>8. WritesLeft'
    BY <1>5, <2>3, <2>4 DEF WritesLeft, DutyWrite
  <2>9. RegistersHold'
    <3>1. /\ \A u \in {v} : Current(u)' /\ Midway(u)'
          /\ \A u \in Cores \ {v} : ~Current(u)'
      BY <2>3, <2>4 DEF Current, Midway, Accessing, v
    <3>2. ASSUME NEW u \in Cores \ {v}
          PROVE  /\ u \notin machine.modulated => asked'[u] = Full
                 /\ u \in machine.modulated \ garbled => Reported(reg'[u]) = asked'[u]
      BY <1>1, <1>8, <1>11 DEF RegistersHold
    <3>3. /\ v \notin machine.modulated => asked'[v] = Full
          /\ v \in machine.modulated \ garbled /\ ~Accessible(v) => Reported(reg'[v]) = asked'[v]
          /\ Accessible(v) => Field(reg'[v], 4, 4) = 1
      BY <1>1, <1>5, <1>8, <1>12 DEF RegistersHold
    <3> HIDE DEF Current, Midway, Accessible, Reported
    <3> SUFFICES ASSUME NEW u \in Cores
                 PROVE  /\ u \notin machine.modulated => asked'[u] = Full
                        /\ u \in machine.modulated \ garbled /\ ~(Midway(u)' /\ Accessible(u)) => Reported(reg'[u]) = asked'[u]
                        /\ Current(u)' /\ Accessible(u) => Field(reg'[u], 4, 4) = 1
      BY <1>2, <1>3, <1>10, <2>4 DEF RegistersHold
    <3> QED
      BY <3>1, <3>2, <3>3
  <2>10. WalkShape'
    BY <1>1, <1>2, <1>4, <2>4, StillVisiting
  <2>11. PointLengths' /\ PointHolds'
    BY <1>1, <1>2, <1>3, <1>4, <2>4, <2>7, PointKept
  <2>12. RollbackWalk'
    BY <1>1, <1>2, <1>3, <1>8, <2>4, RollbackKept DEF v
  <2>13. SetValue' /\ ThrownForAReason'
    BY <1>1, <1>4, <2>4 DEF SetValue, ThrownForAReason
  <2> QED
    BY <1>9, <2>7, <2>8, <2>9, <2>10, <2>11, <2>12, <2>13 DEF TopologyInv
<1>13. CASE ~more
  <2>1. call' = Visited
    BY <1>6, <1>13
  <2>2. /\ CallShape' /\ WritesLeft' /\ WalkShape' /\ SetValue' /\ ThrownForAReason'
        /\ Accessing' = FALSE /\ call'.op = call.op /\ call'.step \in {"idle", FirstStep[call.op]}
        /\ Walking => Pos' = Pos + 1 /\ (call'.step = "idle" => Pos' = Len(Ids))
    BY <1>1, <1>3, <1>4, <2>1, VisitedStep
  <2>3. RegistersHold'
    <3>1. ASSUME NEW u \in Cores \ {v}
          PROVE  /\ u \notin machine.modulated => asked'[u] = Full
                 /\ u \in machine.modulated \ garbled => Reported(reg'[u]) = asked'[u]
      BY <1>1, <1>8, <1>11 DEF RegistersHold
    <3>2. v \notin machine.modulated => asked'[v] = Full
      BY <1>1, <1>5, <1>8 DEF RegistersHold, Accessible, HasClockModulation
    <3>3. v \in machine.modulated \ garbled => Reported(reg'[v]) = asked'[v]
      <4>1. CASE Accessible(v)
        BY <1>5, <1>8, <1>13, <4>1
      <4>2. CASE ~Accessible(v)
        BY <1>1, <1>5, <1>8, <4>2 DEF RegistersHold
      <4> QED
        BY <4>1, <4>2
    <3>4. \A u \in Cores : ~Current(u)'
      BY <2>2 DEF Current
    <3> HIDE DEF Current, Midway, Accessible, Reported
    <3> SUFFICES ASSUME NEW u \in Cores
                 PROVE  /\ u \notin machine.modulated => asked'[u] = Full
                        /\ u \in machine.modulated \ garbled => Reported(reg'[u]) = asked'[u]
      BY <1>2, <1>3, <3>4 DEF RegistersHold
    <3> QED
      BY <3>1, <3>2, <3>3
  <2>4. PointLengths' /\ PointHolds'
    BY <1>1, <1>2, <1>3, <1>4, <2>2, PointKept
  <2>5. RollbackWalk'
    <3>1. CASE call.op # "rollback"
      BY <2>2, <3>1 DEF RollbackWalk
    <3>2. CASE call.op = "rollback"
      <4>1. Walking
        BY <1>4, <3>2 DEF Walking
      <4>2. v = Ids[Pos + 1] /\ Pos + 1 \in 1..Len(Ids)
        BY <1>1, <1>4, <4>1, CurrentCore DEF v
      <4>3. /\ Len(point.clockModulation) = Len(Ids)
            /\ call.value = point.clockModulation[Pos + 1] /\ HasClockModulation(v)
            /\ Undisturbed => online[v] = point.plugged[Pos + 1]
        BY <1>1, <1>3, <3>2, <4>2 DEF RollbackWalk
      <4>4. Undisturbed' = Undisturbed
        BY <1>3 DEF Undisturbed
      <4>5. ASSUME Undisturbed
            PROVE  (IF Accessible(v) THEN Reported(reg'[v]) ELSE Full) = point.clockModulation[Pos + 1]
        <5>1. CASE Accessible(v)
          BY <1>5, <1>8, <1>13, <4>3, <4>5, <5>1 DEF Undisturbed
        <5>2. CASE ~Accessible(v)
          <6>1. ~online[v] /\ online[v] \in BOOLEAN
            BY <1>1, <1>5, <4>3, <5>2 DEF Accessible, Types
          <6>2. point.inPeace /\ point.plugged[Pos + 1] = FALSE
            BY <4>3, <4>5, <6>1 DEF Undisturbed
          <6>3. point.clockModulation[Pos + 1] = Full
            BY <1>1, <4>2, <4>3, <6>2 DEF PointHolds
          <6> QED
            BY <5>2, <6>3
        <5> QED
          BY <5>1, <5>2
      <4>6. ASSUME Undisturbed', NEW k \in {Pos + 1} PROVE Restored(k)'
        <5>1. /\ (IF Accessible(v) THEN Reported(reg'[v]) ELSE Full) = point.clockModulation[Pos + 1]
              /\ online[v] = point.plugged[Pos + 1]
          BY <4>3, <4>4, <4>5, <4>6
        <5>2. k = Pos + 1 /\ Ids'[k] = v
          BY <1>2, <4>2
        <5> HIDE DEF Pos
        <5> QED
          BY <1>2, <1>3, <5>1, <5>2 DEF Restored, Accessible, HasClockModulation, Reported
      <4> QED
        BY <1>1, <1>3, <1>4, <1>8, <2>1, <3>2, <4>4, <4>6, RollbackAdvances DEF v
    <3> QED
      BY <3>1, <3>2
  <2> QED
    BY <1>9, <2>2, <2>3, <2>4, <2>5 DEF TopologyInv
<1> QED
  BY <1>12, <1>13


\* A value is appended to a sequence.
LEMMA AppendedFacts ==
  ASSUME NEW S, NEW s \in Seq(S), NEW e \in S
  PROVE  /\ Append(s, e) \in Seq(S) /\ Len(s) \in Nat /\ Len(Append(s, e)) = Len(s) + 1
         /\ Append(s, e)[Len(s) + 1] = e
         /\ \A i \in 1..Len(s) : Append(s, e)[i] = s[i]
<1>1. Len(s) \in Nat
  OBVIOUS
<1> QED
  BY <1>1, AppendProperties

\* getRollbackPoint() stores whether a core is online.
LEMMA SavePluggedStep ==
  ASSUME TopologyInv, SavePlugged
  PROVE  TopologyInv'
<1>1. /\ Types /\ CallShape /\ WritesLeft /\ RegistersHold
      /\ WalkShape /\ PointLengths /\ PointHolds /\ RollbackWalk /\ SetValue /\ ThrownForAReason
  BY DEF TopologyInv
<1>2. Built' /\ Ids' = Ids /\ Cores' = Cores /\ machine' = machine
  BY <1>1, Frame DEF SavePlugged, Types
<1> DEFINE v == Head(call.todo)
           b == IsHotPlugged(v)
<1>3. /\ call.step = "save"
      /\ point' = [point EXCEPT !.plugged = Append(point.plugged, b)]
      /\ call' = [call EXCEPT !.step = "enabled"]
      /\ UNCHANGED <<online, reg, disturbed, garbled, refused, asked>>
  BY DEF SavePlugged, ghosts
<1>4. call.op = "point" /\ call.step # "idle" /\ Accessing = FALSE /\ Walking
  BY <1>1, <1>3 DEF CallShape, Accessing, Walking
<1>5. v \in Cores /\ Pos \in Nat /\ Pos + 1 \in 1..Len(Ids) /\ Len(Ids) \in Nat /\ v = Ids[Pos + 1]
  BY <1>1, <1>4, CurrentCore
<1>6. online[v] \in BOOLEAN /\ (v \notin machine.hotpluggable => online[v] = TRUE)
  BY <1>1, <1>5 DEF Types
<1>7. b \in BOOLEAN /\ b = online[v]
  BY <1>6 DEF IsHotPlugged, IsHotPluggable
<1>8. point \in [plugged : Seq(BOOLEAN), clockModulation : Seq(0..Full), inPeace : BOOLEAN]
  BY <1>1 DEF Types
<1> HIDE DEF b, v
<1>9. /\ Append(point.plugged, b) \in Seq(BOOLEAN) /\ Len(point.plugged) \in Nat
      /\ Len(Append(point.plugged, b)) = Len(point.plugged) + 1
      /\ Append(point.plugged, b)[Len(point.plugged) + 1] = b
      /\ \A i \in 1..Len(point.plugged) : Append(point.plugged, b)[i] = point.plugged[i]
  BY <1>7, <1>8, AppendedFacts
<1>10. /\ point' \in [plugged : Seq(BOOLEAN), clockModulation : Seq(0..Full), inPeace : BOOLEAN]
       /\ point'.plugged = Append(point.plugged, b)
       /\ point'.clockModulation = point.clockModulation /\ point'.inPeace = point.inPeace
  BY <1>3, <1>8, <1>9
<1>11. /\ call \in [op : Ops, todo : Seq(Cores), writes : Seq(WriteBits), value : 0..Full,
                    old : Registers, step : Steps]
       /\ call.todo # <<>>
  BY <1>1, <1>4 DEF CallShape
<1>12. /\ call'.op = call.op /\ call'.todo = call.todo /\ call'.value = call.value /\ call'.step = "enabled"
       /\ call' \in [op : Ops, todo : Seq(Cores), writes : Seq(WriteBits), value : 0..Full,
                     old : Registers, step : Steps]
  BY <1>3, <1>11 DEF Steps
<1>13. Types'
  BY <1>1, <1>2, <1>3, <1>10 DEF Types
<1>14. CallShape'
  BY <1>2, <1>4, <1>11, <1>12 DEF CallShape
<1>15. WritesLeft' /\ SetValue' /\ ThrownForAReason' /\ RollbackWalk'
  BY <1>4, <1>12 DEF WritesLeft, Accessing, SetValue, ThrownForAReason, RollbackWalk
<1>16. RegistersHold'
  <2>1. \A u \in Cores : Midway(u)' = FALSE
    BY <1>12 DEF Midway, Current, Accessing
  <2> QED
    BY <1>1, <1>2, <1>3, <1>4, <1>12, <2>1, RegistersKept
<1>17. WalkShape' /\ Pos' = Pos
  BY <1>1, <1>2, <1>4, <1>12, StillVisiting
<1>18. Len(point.clockModulation) = Pos /\ Len(point.plugged) = Pos
  BY <1>1, <1>3, <1>4 DEF PointLengths
<1> HIDE DEF Pos
<1>19. PointLengths'
  BY <1>2, <1>4, <1>5, <1>9, <1>10, <1>12, <1>17, <1>18 DEF PointLengths
<1>20. PointHolds'
  <2> DEFINE p == point'.plugged
  <2>1. /\ Len(p) = Pos + 1 /\ p[Pos + 1] = online[v]
        /\ \A i \in 1..Pos : p[i] = point.plugged[i]
    BY <1>7, <1>9, <1>10, <1>18
  <2> HIDE DEF p
  <2>2. ASSUME NEW i \in 1..Len(p), Ids[i] \notin machine.hotpluggable PROVE p[i] = TRUE
    <3>1. CASE i = Pos + 1
      BY <1>5, <1>6, <2>1, <2>2, <3>1
    <3>2. CASE i # Pos + 1
      <4>1. i \in 1..Pos
        BY <1>5, <2>1, <3>2
      <4> QED
        BY <1>1, <1>18, <2>1, <2>2, <4>1 DEF PointHolds
    <3> QED
      BY <3>1, <3>2
  <2>3. ASSUME NEW i \in 1..Pos
        PROVE  /\ point.inPeace /\ Ids[i] \notin machine.modulated => point.clockModulation[i] = Full
               /\ point.inPeace /\ p[i] = FALSE => point.clockModulation[i] = Full
               /\ point.inPeace /\ garbled = {} => point.clockModulation[i] \in ClkModValues
    BY <1>1, <1>18, <2>1 DEF PointHolds
  <2>4. Head(call'.todo) = v
    BY <1>12 DEF v
  <2> QED
    BY <1>2, <1>3, <1>10, <1>12, <1>17, <1>18, <2>1, <2>2, <2>3, <2>4 DEF PointHolds, p
<1> QED
  BY <1>13, <1>14, <1>15, <1>16, <1>17, <1>19, <1>20 DEF TopologyInv

\* getRollbackPoint() stores the modulation of a core and goes on.
LEMMA SavedClockStep ==
  ASSUME TopologyInv, call.step \in {"enabled", "duty"}, NEW x \in 0..Full,
         point' = [point EXCEPT !.clockModulation = Append(point.clockModulation, x)],
         call' = Visited, UNCHANGED <<machineVars, online, reg, ghosts>>,
         point.inPeace => /\ Head(call.todo) \notin machine.modulated => x = Full
                          /\ online[Head(call.todo)] = FALSE => x = Full
                          /\ garbled = {} => x \in ClkModValues
  PROVE  TopologyInv'
<1>1. /\ Types /\ CallShape /\ WritesLeft /\ RegistersHold
      /\ WalkShape /\ PointLengths /\ PointHolds /\ RollbackWalk /\ SetValue /\ ThrownForAReason
  BY DEF TopologyInv
<1>2. Built' /\ Ids' = Ids /\ Cores' = Cores /\ machine' = machine
  BY <1>1, Frame DEF Types
<1> DEFINE v == Head(call.todo)
<1>3. UNCHANGED machineVars /\ UNCHANGED <<online, reg, disturbed, garbled, refused, asked>>
  BY DEF ghosts
<1>4. call.op = "point" /\ call.step # "idle" /\ Accessing = FALSE /\ Walking
  BY <1>1 DEF CallShape, Accessing, Walking
<1>5. v \in Cores /\ Pos \in Nat /\ Pos + 1 \in 1..Len(Ids) /\ Len(Ids) \in Nat /\ v = Ids[Pos + 1]
  BY <1>1, <1>4, CurrentCore
<1>6. point \in [plugged : Seq(BOOLEAN), clockModulation : Seq(0..Full), inPeace : BOOLEAN]
  BY <1>1 DEF Types
<1> HIDE DEF v
<1>7. /\ Append(point.clockModulation, x) \in Seq(0..Full) /\ Len(point.clockModulation) \in Nat
      /\ Len(Append(point.clockModulation, x)) = Len(point.clockModulation) + 1
      /\ Append(point.clockModulation, x)[Len(point.clockModulation) + 1] = x
      /\ \A i \in 1..Len(point.clockModulation) : Append(point.clockModulation, x)[i] = point.clockModulation[i]
  BY <1>6, AppendedFacts
<1>8. /\ point' \in [plugged : Seq(BOOLEAN), clockModulation : Seq(0..Full), inPeace : BOOLEAN]
      /\ point'.clockModulation = Append(point.clockModulation, x)
      /\ point'.plugged = point.plugged /\ point'.inPeace = point.inPeace
  BY <1>6, <1>7
<1>9. /\ CallShape' /\ WritesLeft' /\ WalkShape' /\ SetValue' /\ ThrownForAReason'
      /\ Accessing' = FALSE /\ call'.op = call.op /\ call'.step \in {"idle", FirstStep[call.op]}
      /\ Walking => Pos' = Pos + 1 /\ (call'.step = "idle" => Pos' = Len(Ids))
  BY <1>1, <1>4, VisitedStep
<1>10. call'.step \in {"idle", "save"} /\ call'.op = "point" /\ Pos' = Pos + 1
  BY <1>4, <1>9 DEF FirstStep
<1>11. Types'
  BY <1>1, <1>2, <1>3, <1>8 DEF Types
<1>12. RollbackWalk'
  BY <1>10 DEF RollbackWalk
<1>13. RegistersHold'
  <2>1. call'.step # "write" /\ \A u \in Cores : Midway(u)' = FALSE
    BY <1>9, <1>10 DEF Midway, Current
  <2> QED
    BY <1>1, <1>2, <1>3, <1>4, <2>1, RegistersKept
<1>14. Len(point.clockModulation) = Pos /\ Len(point.plugged) = Pos + 1
  BY <1>1, <1>4 DEF PointLengths
<1> HIDE DEF Pos
<1>15. PointLengths'
  BY <1>2, <1>5, <1>7, <1>8, <1>10, <1>14 DEF PointLengths
<1>16. PointHolds'
  <2> DEFINE m == point'.clockModulation
  <2>1. /\ Len(m) = Pos + 1 /\ m[Pos + 1] = x
        /\ \A i \in 1..Pos : m[i] = point.clockModulation[i]
    BY <1>7, <1>8, <1>14
  <2> HIDE DEF m
  <2>2. \A i \in 1..Len(point.plugged) : Ids[i] \notin machine.hotpluggable => point.plugged[i] = TRUE
    BY <1>1 DEF PointHolds
  <2>3. point.inPeace => point.plugged[Pos + 1] = online[v]
    BY <1>1 DEF PointHolds, v
  <2>4. ASSUME NEW i \in 1..Len(m)
        PROVE  /\ point.inPeace /\ Ids[i] \notin machine.modulated => m[i] = Full
               /\ point.inPeace /\ point.plugged[i] = FALSE => m[i] = Full
               /\ point.inPeace /\ garbled = {} => m[i] \in ClkModValues
    <3>1. CASE i = Pos + 1
      BY <1>5, <2>1, <2>3, <3>1 DEF v
    <3>2. CASE i # Pos + 1
      <4>1. i \in 1..Pos
        BY <1>5, <2>1, <3>2
      <4> QED
        BY <1>1, <1>14, <2>1, <4>1 DEF PointHolds
    <3> QED
      BY <3>1, <3>2
  <2> QED
    BY <1>2, <1>3, <1>8, <1>10, <2>2, <2>4 DEF PointHolds, m
<1> QED
  BY <1>9, <1>11, <1>12, <1>13, <1>15, <1>16 DEF TopologyInv


\* The first read of getClockModulation().
LEMMA SaveEnabledStep ==
  ASSUME TopologyInv, SaveEnabled
  PROVE  TopologyInv'
<1>1. /\ Types /\ CallShape /\ WritesLeft /\ RegistersHold
      /\ WalkShape /\ PointLengths /\ PointHolds /\ RollbackWalk /\ SetValue /\ ThrownForAReason
  BY DEF TopologyInv
<1>2. Built' /\ Ids' = Ids /\ Cores' = Cores /\ machine' = machine
  BY <1>1, Frame DEF SaveEnabled, Types
<1> DEFINE v == Head(call.todo)
<1>3. call.step = "enabled" /\ UNCHANGED <<machineVars, online, reg, ghosts>>
  BY DEF SaveEnabled
<1>4. call.op = "point" /\ call.step # "idle" /\ Accessing = FALSE
  BY <1>1, <1>3 DEF CallShape, Accessing
<1>5. CASE Accessible(v) /\ Field(reg[v], 4, 4) = 1
  <2>1. call' = [call EXCEPT !.step = "duty"] /\ point' = point
    BY <1>5 DEF SaveEnabled
  <2>2. UNCHANGED <<online, reg, disturbed, garbled, refused, asked>>
    BY <1>3 DEF ghosts
  <2>3. /\ call \in [op : Ops, todo : Seq(Cores), writes : Seq(WriteBits), value : 0..Full,
                     old : Registers, step : Steps]
        /\ call.todo # <<>>
    BY <1>1, <1>4 DEF CallShape
  <2>4. /\ call'.op = call.op /\ call'.todo = call.todo /\ call'.value = call.value /\ call'.step = "duty"
        /\ call' \in [op : Ops, todo : Seq(Cores), writes : Seq(WriteBits), value : 0..Full,
                      old : Registers, step : Steps]
    BY <2>1, <2>3 DEF Steps
  <2>5. Types'
    BY <1>1, <1>2, <2>1, <2>2 DEF Types
  <2>6. CallShape'
    BY <1>2, <1>4, <2>3, <2>4 DEF CallShape
  <2>7. WritesLeft' /\ SetValue' /\ ThrownForAReason' /\ RollbackWalk'
    BY <1>4, <2>4 DEF WritesLeft, Accessing, SetValue, ThrownForAReason, RollbackWalk
  <2>8. RegistersHold'
    <3>1. \A u \in Cores : Midway(u)' = FALSE
      BY <2>4 DEF Midway, Current, Accessing
    <3> QED
      BY <1>1, <1>2, <1>4, <2>2, <2>4, <3>1, RegistersKept
  <2>9. WalkShape' /\ Pos' = Pos
    BY <1>1, <1>2, <1>4, <2>4, StillVisiting
  <2> HIDE DEF Pos
  <2>10. PointLengths'
    BY <1>1, <1>2, <1>3, <1>4, <2>1, <2>4, <2>9 DEF PointLengths
  <2>11. Accessible(v)'
    BY <1>2, <1>5, <2>2, <2>4 DEF Accessible, HasClockModulation
  <2>12. PointHolds'
    BY <1>1, <1>2, <1>3, <1>5, <2>1, <2>2, <2>4, <2>9, <2>11 DEF PointHolds
  <2> QED
    BY <2>5, <2>6, <2>7, <2>8, <2>9, <2>10, <2>12 DEF TopologyInv
<1>6. CASE ~(Accessible(v) /\ Field(reg[v], 4, 4) = 1)
  <2>1. call' = Visited /\ point' = [point EXCEPT !.clockModulation = Append(point.clockModulation, Full)]
    BY <1>6 DEF SaveEnabled
  <2>2. Full \in 0..Full /\ Full \in ClkModValues
    BY FullFacts DEF ClkModValues
  <2> QED
    BY <1>3, <2>1, <2>2, SavedClockStep
<1> QED
  BY <1>5, <1>6

\* The second read of getClockModulation().
LEMMA SaveDutyStep ==
  ASSUME TopologyInv, SaveDuty
  PROVE  TopologyInv'
<1>1. Types /\ CallShape /\ RegistersHold /\ WalkShape /\ PointHolds
  BY DEF TopologyInv
<1> DEFINE v == Head(call.todo)
           x == IF Accessible(v) THEN Field(reg[v], 3, ClkModLowBit) ELSE 0
<1>2. /\ call.step = "duty" /\ UNCHANGED <<machineVars, online, reg, ghosts>>
      /\ call' = Visited /\ point' = [point EXCEPT !.clockModulation = Append(point.clockModulation, x)]
  BY DEF SaveDuty
<1>3. v \in Cores /\ reg[v] \in Registers /\ asked[v] \in ClkModValues
  BY <1>1, <1>2, CurrentCore DEF Types
<1>4. Field(reg[v], 3, ClkModLowBit) \in 0..(Full - 1)
  BY <1>3, FieldFacts
<1>5. x \in 0..Full
  BY <1>4, FullFacts
<1>6. ASSUME point.inPeace
      PROVE  /\ v \in machine.modulated /\ online[v] = TRUE
             /\ garbled = {} => x \in ClkModValues
  <2>1. Accessible(v) /\ Field(reg[v], 4, 4) = 1
    BY <1>1, <1>2, <1>6 DEF PointHolds
  <2>2. v \in machine.modulated /\ online[v] /\ online[v] \in BOOLEAN
    BY <1>1, <1>3, <2>1 DEF Accessible, HasClockModulation, Types
  <2>3. x = Reported(reg[v])
    BY <2>1 DEF Reported
  <2>4. ~Midway(v)
    BY <1>2 DEF Midway, Current, Accessing
  <2>5. garbled = {} => Reported(reg[v]) = asked[v]
    BY <1>1, <1>3, <2>2, <2>4 DEF RegistersHold
  <2> HIDE DEF x
  <2> QED
    BY <1>3, <2>2, <2>3, <2>5
<1> HIDE DEF x
<1> QED
  BY <1>2, <1>5, <1>6, SavedClockStep

\* rollback() plugs or unplugs a core.
LEMMA RestorePluggedStep ==
  ASSUME TopologyInv, RestorePlugged
  PROVE  TopologyInv'
<1>1. /\ Types /\ CallShape /\ WritesLeft /\ RegistersHold
      /\ WalkShape /\ PointLengths /\ PointHolds /\ RollbackWalk /\ SetValue /\ ThrownForAReason
  BY DEF TopologyInv
<1>2. Built' /\ Ids' = Ids /\ Cores' = Cores /\ machine' = machine
  BY <1>1, Frame DEF RestorePlugged, Types
<1> DEFINE v == Head(call.todo)
           i == Pos + 1
<1>3. /\ call.step = "restore" /\ UNCHANGED machineVars
      /\ UNCHANGED <<reg, point, disturbed, garbled, asked>>
  BY DEF RestorePlugged
<1>4. call.op = "rollback" /\ call.step # "idle" /\ Accessing = FALSE /\ Walking
  BY <1>1, <1>3 DEF CallShape, Accessing, Walking
<1>5. v \in Cores /\ Pos \in Nat /\ i \in 1..Len(Ids) /\ Len(Ids) \in Nat /\ v = Ids[i]
  BY <1>1, <1>4, CurrentCore
<1>6. /\ IF IsHotPluggable(v) /\ IsHotPlugged(v) # point.plugged[i]
         THEN WriteOnline(v, point.plugged[i])
         ELSE UNCHANGED <<online, refused>>
      /\ call' = IF HasClockModulation(v)
                 THEN [call EXCEPT !.value = point.clockModulation[i], !.step = "check"]
                 ELSE Visited
  BY DEF RestorePlugged, Pos
<1>7. /\ Len(point.clockModulation) = Len(Ids) /\ Len(point.plugged) = Len(Ids)
      /\ Undisturbed => \A k \in 1..Pos : Restored(k)
  BY <1>1, <1>4 DEF RollbackWalk, PointLengths
<1> HIDE DEF Pos, v
<1>8. point.plugged[i] \in BOOLEAN /\ point.clockModulation[i] \in 0..Full
  <2>1. point.plugged \in Seq(BOOLEAN) /\ point.clockModulation \in Seq(0..Full)
    BY <1>1 DEF Types
  <2>2. i \in 1..Len(point.plugged) /\ i \in 1..Len(point.clockModulation)
    BY <1>5, <1>7
  <2> HIDE DEF i
  <2> QED
    BY <2>1, <2>2, ElementOfSeq
<1>9. /\ v \notin machine.hotpluggable => point.plugged[i] = TRUE
      /\ point.inPeace /\ v \notin machine.modulated => point.clockModulation[i] = Full
  BY <1>1, <1>5, <1>7 DEF PointHolds
<1> HIDE DEF i
<1>10. online \in [Cores -> BOOLEAN] /\ (v \notin machine.hotpluggable => online[v] = TRUE)
  BY <1>1, <1>5 DEF Types
<1>11. /\ online' \in [Cores -> BOOLEAN] /\ \A w \in Cores \ {v} : online'[w] = online[w]
       /\ v \notin machine.hotpluggable => online'[v] = TRUE
       /\ refused' = {} => refused = {} /\ online'[v] = point.plugged[i]
  <2>1. CASE IsHotPluggable(v) /\ IsHotPlugged(v) # point.plugged[i]
    <3>1. WriteOnline(v, point.plugged[i]) /\ v \in machine.hotpluggable
      BY <1>6, <2>1 DEF IsHotPluggable
    <3> QED
      BY <1>5, <1>8, <1>10, <3>1, WriteOnlineFacts
  <2>2. CASE ~(IsHotPluggable(v) /\ IsHotPlugged(v) # point.plugged[i])
    <3>1. online' = online /\ refused' = refused
      BY <1>6, <2>2
    <3>2. online[v] = point.plugged[i]
      <4>1. online[v] \in BOOLEAN
        BY <1>5, <1>10
      <4> QED
        BY <1>8, <1>9, <1>10, <2>2, <4>1 DEF IsHotPluggable, IsHotPlugged
    <3> QED
      BY <1>10, <3>1, <3>2
  <2> QED
    BY <2>1, <2>2
<1>12. Types'
  BY <1>1, <1>2, <1>3, <1>11 DEF Types
<1>13. Undisturbed' => Undisturbed /\ online'[v] = point.plugged[i]
  BY <1>3, <1>11 DEF Undisturbed
<1>14. CASE HasClockModulation(v)
  <2>1. call' = [call EXCEPT !.value = point.clockModulation[i], !.step = "check"]
    BY <1>6, <1>14
  <2>2. /\ call \in [op : Ops, todo : Seq(Cores), writes : Seq(WriteBits), value : 0..Full,
                     old : Registers, step : Steps]
        /\ call.todo # <<>>
    BY <1>1, <1>4 DEF CallShape
  <2>3. /\ call'.op = call.op /\ call'.todo = call.todo /\ call'.step = "check"
        /\ call'.value = point.clockModulation[i]
        /\ call' \in [op : Ops, todo : Seq(Cores), writes : Seq(WriteBits), value : 0..Full,
                      old : Registers, step : Steps]
    BY <1>8, <2>1, <2>2 DEF Steps
  <2>4. CallShape'
    BY <1>2, <1>4, <2>2, <2>3 DEF CallShape
  <2>5. WritesLeft' /\ SetValue' /\ ThrownForAReason'
    BY <1>4, <2>3 DEF WritesLeft, Accessing, SetValue, ThrownForAReason
  <2>6. RegistersHold'
    <3>1. \A u \in Cores : Midway(u)' = FALSE
      BY <2>3 DEF Midway, Current, Accessing
    <3> QED
      BY <1>1, <1>2, <1>3, <1>4, <2>3, <3>1, RegistersKept
  <2>7. WalkShape' /\ Pos' = Pos
    BY <1>1, <1>2, <1>4, <2>3, StillVisiting
  <2>8. PointLengths' /\ PointHolds'
    BY <1>1, <1>2, <1>3, <1>4, <2>3, <2>4, PointKept
  <2>9. ASSUME Undisturbed', NEW k \in 1..Pos PROVE Restored(k)'
    <3>1. Ids[k] \in Cores /\ Ids[k] # v
      BY <1>1, <1>4, VisitedDiffer DEF v
    <3>2. online'[Ids[k]] = online[Ids[k]] /\ Restored(k)
      BY <1>7, <1>11, <1>13, <2>9, <3>1
    <3> QED
      BY <1>2, <1>3, <3>2 DEF Restored, Accessible, HasClockModulation, Reported
  <2>10. \A k \in {i} : HasClockModulation(Ids[k])'
    BY <1>2, <1>5, <1>14 DEF HasClockModulation
  <2>11. i = Pos + 1
    BY DEF i
  <2>12. RollbackWalk'
    <3> SUFFICES /\ Len(point.clockModulation) = Len(Ids)
                 /\ Undisturbed' => \A k \in 1..Pos : Restored(k)'
                 /\ call'.value = point.clockModulation[i] /\ \A k \in {i} : HasClockModulation(Ids[k])'
                 /\ Undisturbed' => online'[Ids[i]] = point.plugged[i]
      BY <1>2, <1>3, <1>4, <2>3, <2>7, <2>11 DEF RollbackWalk
    <3> QED
      BY <1>5, <1>7, <1>13, <2>3, <2>9, <2>10
  <2> QED
    BY <1>12, <2>4, <2>5, <2>6, <2>7, <2>8, <2>12 DEF TopologyInv
<1>15. CASE ~HasClockModulation(v)
  <2>1. call' = Visited
    BY <1>6, <1>15
  <2>2. /\ CallShape' /\ WritesLeft' /\ WalkShape' /\ SetValue' /\ ThrownForAReason'
        /\ Accessing' = FALSE /\ call'.op = call.op /\ call'.step \in {"idle", FirstStep[call.op]}
        /\ Walking => Pos' = Pos + 1 /\ (call'.step = "idle" => Pos' = Len(Ids))
    BY <1>1, <1>3, <1>4, <2>1, VisitedStep
  <2>3. RegistersHold'
    <3>1. call'.step # "write" /\ \A u \in Cores : Midway(u)' = FALSE
      BY <2>2 DEF Midway, Current, Accessing
    <3> QED
      BY <1>1, <1>2, <1>3, <1>4, <3>1, RegistersKept
  <2>4. PointLengths' /\ PointHolds'
    BY <1>1, <1>2, <1>3, <1>4, <2>2, PointKept
  <2>5. ASSUME Undisturbed', NEW k \in {Pos + 1} PROVE Restored(k)'
    <3>1. k = i /\ Ids'[k] = v /\ online'[v] = point.plugged[i]
      BY <1>2, <1>5, <1>13, <2>5 DEF i
    <3>2. point.clockModulation[i] = Full
      BY <1>9, <1>13, <1>15, <2>5 DEF Undisturbed, HasClockModulation
    <3>3. v \notin machine'.modulated
      BY <1>2, <1>15 DEF HasClockModulation
    <3> QED
      BY <1>3, <3>1, <3>2, <3>3 DEF Restored, Accessible, HasClockModulation
  <2>6. RollbackWalk'
    BY <1>1, <1>3, <1>4, <1>11, <1>13, <2>1, <2>5, RollbackAdvances DEF v
  <2> QED
    BY <1>12, <2>2, <2>3, <2>4, <2>6 DEF TopologyInv
<1> QED
  BY <1>14, <1>15


\* Another program plugs or unplugs a core.
LEMMA ToggleStep ==
  ASSUME TopologyInv, NEW v \in Cores, Toggle(v)
  PROVE  TopologyInv'
<1>1. /\ Types /\ CallShape /\ WritesLeft /\ RegistersHold
      /\ WalkShape /\ PointLengths /\ PointHolds /\ RollbackWalk /\ SetValue /\ ThrownForAReason
  BY DEF TopologyInv
<1>2. Built' /\ Ids' = Ids /\ Cores' = Cores /\ machine' = machine
  BY <1>1, Frame DEF Toggle, Types
<1>3. /\ v \in machine.hotpluggable
      /\ online' = [online EXCEPT ![v] = ~online[v]]
      /\ disturbed' = disturbed \cup {v}
      /\ garbled' = IF Accessing /\ Head(call.todo) = v THEN garbled \cup {v} ELSE garbled
      /\ point' = IF call.op = "point" /\ call.step # "idle" THEN [point EXCEPT !.inPeace = FALSE] ELSE point
      /\ UNCHANGED <<reg, call, refused, asked>>
  BY DEF Toggle, IsHotPluggable, Accessing
<1>4. /\ online' \in [Cores -> BOOLEAN] /\ \A u \in Cores \ {v} : online'[u] = online[u]
      /\ point' \in [plugged : Seq(BOOLEAN), clockModulation : Seq(0..Full), inPeace : BOOLEAN]
      /\ point'.plugged = point.plugged /\ point'.clockModulation = point.clockModulation
      /\ point'.inPeace => point.inPeace
      /\ call.op = "point" /\ call.step # "idle" => ~point'.inPeace
      /\ ~(call.op = "point" /\ call.step # "idle") => point' = point
  BY <1>1, <1>3 DEF Types
<1>5. Types'
  BY <1>1, <1>2, <1>3, <1>4 DEF Types
<1>6. CallShape' /\ WritesLeft' /\ WalkShape' /\ SetValue' /\ Pos' = Pos
  BY <1>1, <1>2, <1>3 DEF CallShape, WritesLeft, Accessing, WalkShape, Walking, Pos, SetValue
<1>7. RegistersHold'
  <2>1. \A u \in Cores : Current(u)' = Current(u) /\ Midway(u)' = Midway(u)
    BY <1>3 DEF Current, Midway, Accessing
  <2>2. \A u \in Cores \ {v} : Accessible(u)' = Accessible(u)
    BY <1>2, <1>4 DEF Accessible, HasClockModulation
  <2>3. Midway(v) => Current(v)
    BY DEF Midway
  <2>4. Current(v) => v \in garbled'
    BY <1>3 DEF Current
  <2>5. v \in disturbed' /\ \A u \in Cores \ {v} : (u \in garbled' <=> u \in garbled) /\ (u \in disturbed' <=> u \in disturbed)
    BY <1>3
  <2>6. v \in garbled => v \in garbled'
    BY <1>3
  <2> HIDE DEF Current, Midway, Accessible, Reported
  <2> SUFFICES ASSUME NEW u \in Cores
               PROVE  /\ u \notin machine.modulated => asked[u] = Full
                      /\ u \in machine.modulated \ garbled' /\ ~(Midway(u) /\ Accessible(u)') => Reported(reg[u]) = asked[u]
                      /\ (u \notin garbled' \/ u \notin disturbed') /\ Current(u) /\ Accessible(u)' =>
                           /\ call.step = "write" => call.old = reg[u]
                           /\ Midway(u) => Field(reg[u], 4, 4) = 1
    BY <1>2, <1>3, <2>1 DEF RegistersHold, Reported
  <2>7. /\ u \notin machine.modulated => asked[u] = Full
        /\ u \in machine.modulated \ garbled /\ ~(Midway(u) /\ Accessible(u)) => Reported(reg[u]) = asked[u]
        /\ (u \notin garbled \/ u \notin disturbed) /\ Current(u) /\ Accessible(u) =>
             /\ call.step = "write" => call.old = reg[u]
             /\ Midway(u) => Field(reg[u], 4, 4) = 1
    BY <1>1 DEF RegistersHold
  <2>8. CASE u = v
    BY <2>3, <2>4, <2>5, <2>6, <2>7, <2>8
  <2>9. CASE u # v
    BY <2>2, <2>5, <2>7, <2>9
  <2> QED
    BY <2>8, <2>9
<1> HIDE DEF Pos
<1>8. PointLengths'
  BY <1>1, <1>2, <1>3, <1>4, <1>6 DEF PointLengths
<1>9. PointHolds'
  <2>1. garbled' = {} => garbled = {}
    BY <1>3
  <2>2. call.step \in {"enabled", "duty"} => ~point'.inPeace
    BY <1>1, <1>4 DEF CallShape
  <2>3. \A i \in 1..Len(point.plugged) : Ids[i] \notin machine.hotpluggable => point.plugged[i] = TRUE
    BY <1>1 DEF PointHolds
  <2>4. ASSUME NEW i \in 1..Len(point.clockModulation)
        PROVE  /\ point'.inPeace /\ Ids[i] \notin machine.modulated => point.clockModulation[i] = Full
               /\ point'.inPeace /\ point.plugged[i] = FALSE => point.clockModulation[i] = Full
               /\ point'.inPeace /\ garbled' = {} => point.clockModulation[i] \in ClkModValues
    BY <1>1, <1>4, <2>1 DEF PointHolds
  <2> QED
    BY <1>2, <1>3, <1>4, <2>2, <2>3, <2>4 DEF PointHolds
<1>10. RollbackWalk'
  <2>1. ~Undisturbed'
    BY <1>3 DEF Undisturbed
  <2>2. \A i \in {Pos + 1} : HasClockModulation(Ids[i])' = HasClockModulation(Ids[i])
    BY <1>2 DEF HasClockModulation
  <2> QED
    BY <1>1, <1>2, <1>3, <1>4, <1>6, <2>1, <2>2 DEF RollbackWalk
<1>11. ThrownForAReason'
  BY <1>1, <1>3, <1>4 DEF ThrownForAReason
<1> QED
  BY <1>5, <1>6, <1>7, <1>8, <1>9, <1>10, <1>11 DEF TopologyInv

\* Steps that leave the cores and the operation alone.
LEMMA NothingStep ==
  ASSUME TopologyInv, UNCHANGED <<machineVars, online, reg, call, point, ghosts>>
  PROVE  TopologyInv'
<1>1. /\ Types /\ CallShape /\ WritesLeft /\ RegistersHold
      /\ WalkShape /\ PointLengths /\ PointHolds /\ RollbackWalk /\ SetValue /\ ThrownForAReason
  BY DEF TopologyInv
<1>2. /\ Built' /\ Ids' = Ids /\ Cores' = Cores /\ machine' = machine
      /\ UNCHANGED <<online, reg, call, point, disturbed, garbled, refused, asked>>
  BY <1>1, Frame DEF Types, ghosts
<1>3. Types' /\ CallShape' /\ WritesLeft' /\ SetValue' /\ ThrownForAReason' /\ Pos' = Pos
  BY <1>1, <1>2 DEF Types, CallShape, WritesLeft, Accessing, SetValue, ThrownForAReason, Pos
<1>4. RegistersHold'
  <2>1. \A u \in Cores : /\ Current(u)' = Current(u) /\ Midway(u)' = Midway(u)
                         /\ Accessible(u)' = Accessible(u)
    BY <1>2 DEF Current, Midway, Accessing, Accessible, HasClockModulation
  <2> HIDE DEF Current, Midway, Accessible
  <2> QED
    BY <1>1, <1>2, <2>1 DEF RegistersHold, Reported
<1>5. WalkShape' /\ PointLengths'
  BY <1>1, <1>2, <1>3 DEF WalkShape, Walking, PointLengths
<1>6. PointHolds'
  BY <1>1, <1>2, <1>3 DEF PointHolds, Accessible, HasClockModulation
<1>7. RollbackWalk'
  BY <1>1, <1>2, <1>3 DEF RollbackWalk, Restored, Undisturbed, Accessible, HasClockModulation, Reported
<1> QED
  BY <1>3, <1>4, <1>5, <1>6, <1>7 DEF TopologyInv


-----------------------------------------------------------------------------
(* The theorems.                                                           *)

\* At the start, every core is online and modulated as it was found.
LEMMA TopologyInvInit ==
  ASSUME Init
  PROVE  TopologyInv
<1>1. Built /\ Len(Ids) \in Nat /\ Len(Ids) >= 1
  BY IdsFacts DEF Init, Built
<1>2. /\ call = Idle /\ point = EmptyPoint /\ disturbed = {} /\ garbled = {} /\ refused = {}
      /\ online = [v \in Cores |-> TRUE] /\ reg = machine.found
      /\ asked = [v \in Cores |-> GetClockModulation(v)]
  BY DEF Init, EmptyPoint
<1>3. /\ call.op = "none" /\ call.todo = <<>> /\ call.writes = <<>> /\ call.value = 0 /\ call.old = 0
      /\ call.step = "idle"
  BY <1>2 DEF Idle
<1>4. /\ point \in [plugged : Seq(BOOLEAN), clockModulation : Seq(0..Full), inPeace : BOOLEAN]
      /\ Len(point.plugged) = 0 /\ Len(point.clockModulation) = 0
  BY <1>2 DEF EmptyPoint
<1>11. reg \in [Cores -> Registers] /\ \A v \in Cores : Field(reg[v], 4, 4) = 1 => Field(reg[v], 3, ClkModLowBit) # 0
  <2>1. IsMachine(machine)
    BY TopologyAssumption DEF Init
  <2> QED
    BY <1>2, <2>1 DEF IsMachine, Cores, Registers
<1>12. ASSUME NEW v \in Cores
       PROVE  /\ asked[v] \in ClkModValues /\ (v \notin machine.modulated => asked[v] = Full)
              /\ v \in machine.modulated => Reported(reg[v]) = asked[v]
  <2>1. asked[v] = IF v \in machine.modulated /\ Field(reg[v], 4, 4) = 1 THEN Field(reg[v], 3, ClkModLowBit) ELSE Full
    BY <1>2 DEF GetClockModulation, Accessible, HasClockModulation
  <2>2. Full \in ClkModValues
    BY FullFacts DEF ClkModValues
  <2>3. Field(reg[v], 4, 4) = 1 => Field(reg[v], 3, ClkModLowBit) \in ClkModValues
    <3>1. reg[v] \in Registers
      BY <1>11
    <3>2. Field(reg[v], 3, ClkModLowBit) \in 0..(Full - 1)
      <4>1. CASE ClkModLowBit = 0
        BY <3>1, <4>1, FullFacts DEF Field, Registers
      <4>2. CASE ClkModLowBit = 1
        BY <3>1, <4>2, FullFacts DEF Field, Registers
      <4> QED
        BY <4>1, <4>2, TopologyAssumption
    <3> QED
      BY <1>11, <3>2, FullFacts DEF ClkModValues
  <2> QED
    BY <2>1, <2>2, <2>3 DEF Reported
<1>5. Types
  <2>1. asked \in [Cores -> ClkModValues]
    BY <1>2, <1>12
  <2> QED
    BY <1>1, <1>2, <1>4, <1>11, <2>1 DEF Types
<1>6. CallShape
  <2>1. call \in [op : Ops, todo : Seq(Cores), writes : Seq(WriteBits), value : 0..Full,
                  old : Registers, step : Steps]
    BY <1>2, FullFacts DEF Idle, Ops, Steps, Registers
  <2> QED
    BY <1>3, <2>1 DEF CallShape
<1>7. WritesLeft /\ WalkShape /\ RollbackWalk /\ SetValue /\ ThrownForAReason
  BY <1>3 DEF WritesLeft, Accessing, WalkShape, Walking, RollbackWalk, SetValue, ThrownForAReason
<1>8. PointLengths /\ PointHolds
  BY <1>1, <1>3, <1>4 DEF PointLengths, PointHolds
<1>9. RegistersHold
  <2>1. \A v \in Cores : ~Current(v)
    BY <1>2, <1>3 DEF Current, Accessing
  <2> HIDE DEF Current, Reported
  <2> QED
    BY <1>12, <2>1 DEF RegistersHold
<1> QED
  BY <1>5, <1>6, <1>7, <1>8, <1>9 DEF TopologyInv

\* Every step keeps the invariant.
LEMMA TopologyInvStep ==
  ASSUME TopologyInv, [Next]_vars
  PROVE  TopologyInv'
<1>0. Built /\ 0 \in 0..Full /\ Full \in Nat
  BY FullFacts DEF TopologyInv, Types
<1>1. ASSUME NEW u \in Units(cpus), HotPlug(u) PROVE TopologyInv'
  <2>1. u \in Seq(Cores) /\ u # <<>>
    BY <1>0, UnitsFacts
  <2>2. Begin("hotPlug", u, 0, "plug") /\ point' = point /\ <<"hotPlug", "plug">> \in Beginnings
    BY <1>1 DEF HotPlug, Beginnings
  <2> QED
    BY <1>0, <2>1, <2>2, BeginStep
<1>2. ASSUME NEW u \in Units(cpus), HotUnplug(u) PROVE TopologyInv'
  <2>1. u \in Seq(Cores) /\ u # <<>>
    BY <1>0, UnitsFacts
  <2>2. Begin("hotUnplug", u, 0, "plug") /\ point' = point /\ <<"hotUnplug", "plug">> \in Beginnings
    BY <1>2 DEF HotUnplug, Beginnings
  <2> QED
    BY <1>0, <2>1, <2>2, BeginStep
<1>3. ASSUME NEW u \in Units(cpus), NEW value \in CallValues, SetClockModulation(u, value) PROVE TopologyInv'
  <2>1. u \in Seq(Cores) /\ u # <<>>
    BY <1>0, UnitsFacts
  <2>2. Begin("set", u, value, "check") /\ point' = point /\ <<"set", "check">> \in Beginnings
    BY <1>3 DEF SetClockModulation, Beginnings
  <2>3. value \in ClkModValues
    BY TopologyAssumption
  <2>4. value \in 0..Full
    BY <1>0, <2>3 DEF ClkModValues
  <2> QED
    BY <2>1, <2>2, <2>3, <2>4, BeginStep
<1>4. Ids \in Seq(Cores) /\ Ids # <<>>
  <2>1. Ids \in Seq(Cores) /\ Len(Ids) >= 1
    BY <1>0, IdsFacts
  <2>2. Ids = <<>> => Len(Ids) = 0
    OBVIOUS
  <2> HIDE DEF Ids
  <2> QED
    BY <2>1, <2>2
<1>5. CASE GetRollbackPoint
  <2>1. Begin("point", Ids, 0, "save") /\ point' = EmptyPoint /\ <<"point", "save">> \in Beginnings
    BY <1>5 DEF GetRollbackPoint, EmptyPoint, Beginnings
  <2> HIDE DEF Ids
  <2> QED
    BY <1>0, <1>4, <2>1, BeginStep
<1>6. CASE Rollback
  <2>1. /\ Begin("rollback", Ids, 0, "restore") /\ point' = point /\ <<"rollback", "restore">> \in Beginnings
        /\ Len(point.clockModulation) = Len(Ids)
    BY <1>6 DEF Rollback, Beginnings
  <2> HIDE DEF Ids
  <2> QED
    BY <1>0, <1>4, <2>1, BeginStep
<1>7. CASE GetTopology
  BY <1>7, NothingStep DEF GetTopology
<1>8. CASE UNCHANGED vars
  <2>1. UNCHANGED <<machineVars, online, reg, call, point, ghosts>>
    BY <1>8 DEF vars, machineVars, ghosts
  <2> QED
    BY <2>1, NothingStep
<1> QED
  BY <1>1, <1>2, <1>3, <1>5, <1>6, <1>7, <1>8, PlugStep, CheckStep, ReadOldStep, WriteNewStep,
     SavePluggedStep, SaveEnabledStep, SaveDutyStep, RestorePluggedStep, ToggleStep DEF Next

\* The invariant holds throughout, whatever operations are called on whatever
\* units and whenever other programs plug and unplug cores.
THEOREM TopologyInvariant == Spec => []TopologyInv
<1>1. Init => TopologyInv
  BY TopologyInvInit
<1>2. TopologyInv /\ [Next]_vars => TopologyInv'
  BY TopologyInvStep
<1> QED
  BY <1>1, <1>2, PTL DEF Spec

\* Between operations setClockModulation() has left in the register of each
\* core what getClockModulation() reports as the value that was set: writing
\* the enable bit and the duty cycle one after the other loses neither.
THEOREM AlwaysReportsWhatWasSet == Spec => []ReportsWhatWasSet
<1>1. TopologyInv => ReportsWhatWasSet
  <2> SUFFICES ASSUME TopologyInv, call.step = "idle", NEW v \in Cores \ garbled, online[v]
               PROVE  GetClockModulation(v) = asked[v]
    BY DEF ReportsWhatWasSet
  <2>1. ~Midway(v)
    BY DEF Midway, Current, Accessing
  <2>2. /\ v \notin machine.modulated => asked[v] = Full
        /\ v \in machine.modulated => Reported(reg[v]) = asked[v]
    BY <2>1 DEF TopologyInv, RegistersHold
  <2> QED
    BY <2>2 DEF GetClockModulation, Reported, Accessible, HasClockModulation
<1> QED
  BY <1>1, TopologyInvariant, PTL

\* rollback() brings every core back to where getRollbackPoint() found it, and
\* throws only if cores were toggled at the wrong time.
THEOREM RollbackAlwaysRestoresCores == Spec => []RollbackRestoresCores
<1>1. TopologyInv => RollbackRestoresCores
  <2> SUFFICES ASSUME TopologyInv PROVE RollbackRestoresCores
    OBVIOUS
  <2>1. Types /\ RollbackWalk /\ ThrownForAReason
    BY DEF TopologyInv
  <2>2. Ids \in Seq(Cores) /\ DOMAIN Ids = 1..Len(Ids)
    BY <2>1, IdsFacts DEF Types
  <2>3. ASSUME call = [Idle EXCEPT !.op = "rollback"], point.inPeace, disturbed = {}, refused = {},
               NEW i \in DOMAIN Ids
        PROVE  /\ IsHotPlugged(Ids[i]) = point.plugged[i]
               /\ GetClockModulation(Ids[i]) = point.clockModulation[i]
    <3>1. call.op = "rollback" /\ call.step = "idle"
      BY <2>3 DEF Idle
    <3>2. i \in 1..Len(Ids) /\ Ids[i] \in Cores
      BY <2>2, ElementOfSeq
    <3>3. Restored(i)
      BY <2>1, <2>3, <3>1, <3>2 DEF RollbackWalk, Undisturbed
    <3>4. online[Ids[i]] \in BOOLEAN /\ (Ids[i] \notin machine.hotpluggable => online[Ids[i]] = TRUE)
      BY <2>1, <3>2 DEF Types
    <3>5. IsHotPlugged(Ids[i]) = online[Ids[i]]
      BY <3>4 DEF IsHotPlugged, IsHotPluggable
    <3>6. GetClockModulation(Ids[i]) = IF Accessible(Ids[i]) THEN Reported(reg[Ids[i]]) ELSE Full
      BY DEF GetClockModulation, Reported
    <3> QED
      BY <3>3, <3>5, <3>6 DEF Restored
  <2>4. call.op = "thrown" => ~point.inPeace \/ garbled # {}
    BY <2>1 DEF ThrownForAReason
  <2> QED
    BY <2>3, <2>4 DEF RollbackRestoresCores
<1> QED
  BY <1>1, TopologyInvariant, PTL
=============================================================================
