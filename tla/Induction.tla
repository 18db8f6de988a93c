------------------------------- MODULE Induction -------------------------------
(***************************************************************************)
(* Induction over the naturals as facts about sets, which the provers can  *)
(* instantiate, and the recursive functions that the properties are        *)
(* written with.                                                           *)
(***************************************************************************)
EXTENDS WellFoundedInduction, SequenceTheorems, FiniteSetTheorems, Functions, TLAPS

\* A set of naturals has a least element.
LEMMA LeastElement ==
  ASSUME NEW T, T \subseteq Nat, T # {}
  PROVE  \E n \in T : \A m \in T : n <= m
<1> DEFINE R == OpToRel(<, Nat)
<1>1. IsWellFoundedOn(R, Nat)
  BY NatLessThanWellFounded
<1>2. \A x, y \in Nat : x < y => <<x, y>> \in R
  BY DEF OpToRel
<1> HIDE DEF R
<1>3. PICK n \in T : \A m \in T : ~ (<<m, n>> \in R)
  BY <1>1, WFMin
<1>4. \A m \in T : m \in Nat /\ n \in Nat /\ ~(m < n)
  BY <1>2, <1>3
<1>5. \A m \in T : n <= m
  BY <1>4
<1> QED BY <1>5

\* A set that holds 0 and the successors of its naturals holds them all.
LEMMA InductionOnNat ==
  ASSUME NEW S, 0 \in S, \A n \in Nat : n \in S => n + 1 \in S
  PROVE  Nat \subseteq S
<1> DEFINE T == {n \in Nat : n \notin S}
<1>1. SUFFICES ASSUME T # {} PROVE FALSE
  OBVIOUS
<1>2. PICK n \in T : \A m \in T : n <= m
  BY <1>1, LeastElement
<1>3. n - 1 \in Nat /\ n - 1 \notin T
  BY <1>2
<1> QED BY <1>2, <1>3

\* The same up to a bound.
LEMMA InductionUpTo ==
  ASSUME NEW N \in Nat, NEW S, 0 \in S,
         \A n \in 0..(N - 1) : n \in S => n + 1 \in S
  PROVE  0..N \subseteq S
<1> DEFINE T == {n \in 0..N : n \notin S}
<1>1. SUFFICES ASSUME T # {} PROVE FALSE
  OBVIOUS
<1>2. PICK n \in T : \A m \in T : n <= m
  <2>1. T \subseteq Nat
    OBVIOUS
  <2> QED BY <1>1, <2>1, LeastElement
<1>3. n - 1 \in 0..(N - 1) /\ n - 1 \notin T
  BY <1>2
<1> QED BY <1>2, <1>3

\* A set that holds the empty sequence, and a sequence with an element put in
\* front whenever it holds the sequence, holds them all.
LEMMA SequenceInduction ==
  ASSUME NEW S, NEW T, <<>> \in T,
         \A t \in Seq(S), c \in S : t \in T => <<c>> \o t \in T
  PROVE  Seq(S) \subseteq T
<1> DEFINE N == {n \in Nat : \A s \in Seq(S) : Len(s) = n => s \in T}
<1>1. 0 \in N
  <2>1. \A s \in Seq(S) : Len(s) = 0 => s = <<>>
    OBVIOUS
  <2> QED BY <2>1
<1>2. \A n \in Nat : n \in N => n + 1 \in N
  <2>1. SUFFICES ASSUME NEW n \in Nat, n \in N, NEW s \in Seq(S), Len(s) = n + 1
                 PROVE  s \in T
    OBVIOUS
  <2>2. s # <<>>
    BY <2>1
  <2>3. /\ Head(s) \in S /\ Tail(s) \in Seq(S) /\ Len(Tail(s)) = n
        /\ s = <<Head(s)>> \o Tail(s)
    <3>1. s = <<Head(s)>> \o Tail(s)
      BY <2>2, HeadTailProperties
    <3> QED BY <2>1, <2>2, <3>1
  <2>4. Tail(s) \in T
    BY <2>1, <2>3
  <2> QED BY <2>3, <2>4
<1>3. Nat \subseteq N
  <2> HIDE DEF N
  <2> QED BY <1>1, <1>2, InductionOnNat
<1>4. \A s \in Seq(S) : Len(s) \in N
  BY <1>3
<1> QED BY <1>4


-----------------------------------------------------------------------------
(* Sums over finite sets, in whatever order they are taken.                *)

\* F gives, for each subset of S, what the fold makes of it.
Sums(w, S, F) ==
  F = [s \in SUBSET S |->
         IF s = {} THEN 0 ELSE LET x == CHOOSE x \in s : TRUE IN w[x] + F[s \ {x}]]

LEMMA SumUnfolded ==
  ASSUME NEW w, NEW S
  PROVE  SumFunctionOnSet(w, S) = (CHOOSE F : Sums(w, S, F))[S]
BY DEF SumFunctionOnSet, FoldFunctionOnSet, MapThenFoldSet, Sums

\* Induction over the subsets of a finite set, from each to those with one more.
LEMMA SubsetInduction ==
  ASSUME NEW S, IsFiniteSet(S), NEW T, {} \in T,
         \A s \in SUBSET S : s # {} /\ (\A x \in s : s \ {x} \in T) => s \in T
  PROVE  SUBSET S \subseteq T
<1> DEFINE N == {n \in Nat : \A s \in SUBSET S : Cardinality(s) = n => s \in T}
<1>1. \A s \in SUBSET S : IsFiniteSet(s) /\ Cardinality(s) \in Nat
  BY FS_Subset, FS_CardinalityType
<1>2. 0 \in N
  BY <1>1, FS_EmptySet
<1>3. \A n \in Nat : n \in N => n + 1 \in N
  <2>1. SUFFICES ASSUME NEW n \in Nat, n \in N,
                        NEW s \in SUBSET S, Cardinality(s) = n + 1
                 PROVE  s \in T
    OBVIOUS
  <2>2. s # {}
    BY <2>1, FS_EmptySet
  <2>3. ASSUME NEW x \in s PROVE s \ {x} \in T
    <3>1. Cardinality(s \ {x}) = n
      BY <1>1, <2>1, FS_RemoveElement
    <3>2. s \ {x} \in SUBSET S
      OBVIOUS
    <3> QED BY <2>1, <3>1, <3>2
  <2> QED BY <2>2, <2>3
<1>4. Nat \subseteq N
  <2> HIDE DEF N
  <2> QED BY <1>2, <1>3, InductionOnNat
<1> QED BY <1>1, <1>4

\* There is such a function: the fold is well defined.
LEMMA SumsExist ==
  ASSUME NEW w, NEW S, IsFiniteSet(S)
  PROVE  \E F : Sums(w, S, F)
<1> DEFINE c(s) == CHOOSE x \in s : TRUE
           D(n) == {s \in SUBSET S : Cardinality(s) <= n}
           Step(n, G) == [s \in D(n) |-> IF s = {} THEN 0 ELSE w[c(s)] + G[s \ {c(s)}]]
           N == {n \in Nat : \E G : G = Step(n, G)}
<1>1. \A s \in SUBSET S : IsFiniteSet(s) /\ Cardinality(s) \in Nat
  BY FS_Subset, FS_CardinalityType
<1>2. \A n \in Nat : \A s \in D(n + 1) : s # {} => s \ {c(s)} \in D(n)
  <2>1. SUFFICES ASSUME NEW n \in Nat, NEW s \in D(n + 1), s # {}
                 PROVE  s \ {c(s)} \in D(n)
    OBVIOUS
  <2>2. c(s) \in s
    BY <2>1
  <2>3. Cardinality(s \ {c(s)}) = Cardinality(s) - 1
    BY <1>1, <2>2, FS_RemoveElement
  <2> QED BY <1>1, <2>3
<1>3. D(0) = {{}}
  BY <1>1, FS_EmptySet
<1> HIDE DEF c
<1>4. 0 \in N
  <2> DEFINE G == [s \in D(0) |-> 0]
  <2>1. G = Step(0, G)
    BY <1>3
  <2> QED BY <2>1
<1>5. \A n \in Nat : n \in N => n + 1 \in N
  <2>1. SUFFICES ASSUME NEW n \in Nat, n \in N PROVE n + 1 \in N
    OBVIOUS
  <2>2. PICK G : G = Step(n, G)
    BY <2>1
  <2> DEFINE H == Step(n + 1, G)
  <2>3. D(n) \subseteq D(n + 1)
    BY <1>1
  <2> HIDE DEF D
  <2>4. \A s \in D(n) : H[s] = G[s]
    BY <2>2, <2>3
  <2>5. H = Step(n + 1, H)
    BY <1>2, <2>4
  <2> HIDE DEF H, Step
  <2> QED BY <2>5
<1>6. Nat \subseteq N
  <2> HIDE DEF N
  <2> QED BY <1>4, <1>5, InductionOnNat
<1>7. D(Cardinality(S)) = SUBSET S
  BY FS_Subset
<1>8. Cardinality(S) \in Nat
  BY FS_CardinalityType
<1>9. PICK G : G = Step(Cardinality(S), G)
  BY <1>6, <1>8
<1>10. Sums(w, S, G)
  BY <1>7, <1>9 DEF Sums, c
<1> QED BY <1>10

\* The sum of a set is that of the set without any one of its elements, and it.
LEMMA SumsAnyOrder ==
  ASSUME NEW w, NEW S, IsFiniteSet(S), \A a \in S : w[a] \in Int,
         NEW F, Sums(w, S, F)
  PROVE  /\ F[{}] = 0
         /\ \A s \in SUBSET S : F[s] \in Int
         /\ \A s \in SUBSET S : \A x \in s : F[s] = w[x] + F[s \ {x}]
<1> DEFINE c(s) == CHOOSE x \in s : TRUE
           I == {s \in SUBSET S : F[s] \in Int}
           T == {s \in SUBSET S : \A x \in s : F[s] = w[x] + F[s \ {x}]}
<1>1. F[{}] = 0
  BY DEF Sums
<1>2. \A s \in SUBSET S : s # {} => c(s) \in s /\ F[s] = w[c(s)] + F[s \ {c(s)}]
  BY DEF Sums
<1> HIDE DEF c
<1>3. \A s \in SUBSET S : F[s] \in Int
  <2>1. {} \in I
    BY <1>1
  <2>2. ASSUME NEW s \in SUBSET S, s # {}, \A x \in s : s \ {x} \in I
        PROVE  s \in I
    <3>1. c(s) \in S /\ s \ {c(s)} \in I
      BY <1>2, <2>2
    <3>2. w[c(s)] \in Int /\ F[s \ {c(s)}] \in Int
      BY <3>1
    <3>3. F[s] = w[c(s)] + F[s \ {c(s)}]
      BY <1>2, <2>2
    <3>4. F[s] \in Int
      BY <3>2, <3>3
    <3> QED BY <3>4
  <2>3. SUBSET S \subseteq I
    <3> HIDE DEF I
    <3> QED BY <2>1, <2>2, SubsetInduction
  <2> QED BY <2>3
<1>4. {} \in T
  OBVIOUS
<1>5. ASSUME NEW s \in SUBSET S, s # {}, \A x \in s : s \ {x} \in T
      PROVE  s \in T
  <2>1. PICK y \in s : F[s] = w[y] + F[s \ {y}]
    BY <1>2, <1>5
  <2>2. ASSUME NEW x \in s PROVE F[s] = w[x] + F[s \ {x}]
    <3>1. CASE x = y
      BY <2>1, <3>1
    <3>2. CASE x # y
      <4>1. s \ {x} \in T /\ s \ {y} \in T /\ y \in s \ {x} /\ x \in s \ {y}
        BY <1>5, <3>2
      <4>2. (s \ {x}) \ {y} = (s \ {y}) \ {x}
        OBVIOUS
      <4>3. F[s \ {x}] = w[y] + F[(s \ {x}) \ {y}]
        BY <4>1
      <4>4. F[s \ {y}] = w[x] + F[(s \ {x}) \ {y}]
        BY <4>1, <4>2
      <4>5. F[(s \ {x}) \ {y}] \in Int /\ w[x] \in Int /\ w[y] \in Int
        BY <1>3
      <4> HIDE DEF T
      <4> QED BY <2>1, <4>3, <4>4, <4>5
    <3> QED BY <3>1, <3>2
  <2> QED BY <2>2
<1>6. SUBSET S \subseteq T
  <2> HIDE DEF T
  <2> QED BY <1>4, <1>5, SubsetInduction
<1> QED BY <1>1, <1>3, <1>6

\* Two such functions agree on the subsets they share.
LEMMA SumsAgree ==
  ASSUME NEW w, NEW v, NEW S, IsFiniteSet(S), NEW R \in SUBSET S,
         \A a \in R : w[a] = v[a],
         NEW F, Sums(w, S, F), NEW G, Sums(v, R, G)
  PROVE  F[R] = G[R]
<1> DEFINE c(s) == CHOOSE x \in s : TRUE
           T == {s \in SUBSET R : F[s] = G[s]}
<1>1. F[{}] = 0 /\ G[{}] = 0
  BY DEF Sums
<1>2. \A s \in SUBSET R : s # {} => /\ c(s) \in s
                                     /\ F[s] = w[c(s)] + F[s \ {c(s)}]
                                     /\ G[s] = v[c(s)] + G[s \ {c(s)}]
  <2>1. SUBSET R \subseteq SUBSET S
    OBVIOUS
  <2>2. \A s \in SUBSET R : s # {} => c(s) \in s
    OBVIOUS
  <2>3. \A s \in SUBSET R : s # {} => F[s] = w[c(s)] + F[s \ {c(s)}]
    BY <2>1 DEF Sums
  <2>4. \A s \in SUBSET R : s # {} => G[s] = v[c(s)] + G[s \ {c(s)}]
    BY DEF Sums
  <2> QED BY <2>2, <2>3, <2>4
<1> HIDE DEF c
<1>3. {} \in T
  BY <1>1
<1>4. ASSUME NEW s \in SUBSET R, s # {}, \A x \in s : s \ {x} \in T
      PROVE  s \in T
  <2>1. c(s) \in R /\ s \ {c(s)} \in T
    BY <1>2, <1>4
  <2> QED BY <1>2, <1>4, <2>1
<1>5. IsFiniteSet(R)
  BY FS_Subset
<1>6. SUBSET R \subseteq T
  <2> HIDE DEF T
  <2> QED BY <1>3, <1>4, <1>5, SubsetInduction
<1> QED BY <1>6

\* What a sum over a finite set is, in terms of its elements.
LEMMA SumFacts ==
  ASSUME NEW w, NEW S, IsFiniteSet(S), \A a \in S : w[a] \in Int
  PROVE  /\ SumFunctionOnSet(w, S) \in Int
         /\ S = {} => SumFunctionOnSet(w, S) = 0
         /\ \A x \in S : SumFunctionOnSet(w, S)
                         = w[x] + SumFunctionOnSet(w, S \ {x})
<1> DEFINE F == CHOOSE F : Sums(w, S, F)
<1>1. Sums(w, S, F) /\ SumFunctionOnSet(w, S) = F[S]
  BY SumsExist, SumUnfolded
<1> HIDE DEF F
<1>2. SumFunctionOnSet(w, S) \in Int /\ (S = {} => SumFunctionOnSet(w, S) = 0)
  <2>1. F[{}] = 0 /\ F[S] \in Int
    <3>1. F[{}] = 0 /\ \A s \in SUBSET S : F[s] \in Int
      BY <1>1, SumsAnyOrder
    <3> QED BY <3>1
  <2> QED BY <1>1, <2>1
<1>3. ASSUME NEW x \in S
      PROVE  SumFunctionOnSet(w, S) = w[x] + SumFunctionOnSet(w, S \ {x})
  <2> DEFINE R == S \ {x}
             G == CHOOSE G : Sums(w, R, G)
  <2>1. R \in SUBSET S /\ IsFiniteSet(R)
    BY FS_Subset
  <2>2. F[S] = w[x] + F[R]
    BY <1>1, SumsAnyOrder
  <2>3. Sums(w, R, G) /\ SumFunctionOnSet(w, R) = G[R]
    BY <2>1, SumsExist, SumUnfolded
  <2> HIDE DEF R, G
  <2>4. F[R] = G[R]
    BY <1>1, <2>1, <2>3, SumsAgree
  <2> QED BY <1>1, <2>2, <2>3, <2>4 DEF R
<1> QED BY <1>2, <1>3

\* A sum depends on what is summed only.
LEMMA SumOfSame ==
  ASSUME NEW w, NEW v, NEW S, IsFiniteSet(S), \A a \in S : w[a] = v[a]
  PROVE  SumFunctionOnSet(w, S) = SumFunctionOnSet(v, S)
<1> DEFINE F == CHOOSE F : Sums(w, S, F)
           G == CHOOSE G : Sums(v, S, G)
<1>1. Sums(w, S, F) /\ SumFunctionOnSet(w, S) = F[S]
  BY SumsExist, SumUnfolded
<1>2. Sums(v, S, G) /\ SumFunctionOnSet(v, S) = G[S]
  BY SumsExist, SumUnfolded
<1> HIDE DEF F, G
<1> QED BY <1>1, <1>2, SumsAgree

\* One more element adds its term.
LEMMA SumWithOneMore ==
  ASSUME NEW w, NEW S, IsFiniteSet(S), NEW x, x \notin S,
         \A a \in S \cup {x} : w[a] \in Int
  PROVE  SumFunctionOnSet(w, S \cup {x}) = w[x] + SumFunctionOnSet(w, S)
<1>1. IsFiniteSet(S \cup {x}) /\ (S \cup {x}) \ {x} = S
  BY FS_AddElement
<1>2. \A y \in S \cup {x} : SumFunctionOnSet(w, S \cup {x})
                              = w[y] + SumFunctionOnSet(w, (S \cup {x}) \ {y})
  BY <1>1, SumFacts
<1> QED BY <1>1, <1>2

\* The sum over a part is at most the sum of terms that are not negative.
LEMMA SumOfPart ==
  ASSUME NEW w, NEW S, IsFiniteSet(S), NEW R \in SUBSET S, \A a \in S : w[a] \in Nat
  PROVE  SumFunctionOnSet(w, R) <= SumFunctionOnSet(w, S)
<1> DEFINE Sum(s) == SumFunctionOnSet(w, s)
           T == {s \in SUBSET S : \A r \in SUBSET s : Sum(r) <= Sum(s)}
<1>1. \A s \in SUBSET S : IsFiniteSet(s) /\ \A a \in s : w[a] \in Int
  BY FS_Subset
<1>2. \A s \in SUBSET S : Sum(s) \in Int /\ \A x \in s : Sum(s) = w[x] + Sum(s \ {x})
  BY <1>1, SumFacts
<1> HIDE DEF Sum
<1>3. {} \in T
  <2>1. {} \in SUBSET S /\ Sum({}) <= Sum({})
    BY <1>2
  <2> QED BY <2>1
<1>4. ASSUME NEW s \in SUBSET S, s # {}, \A x \in s : s \ {x} \in T
      PROVE  s \in T
  <2>1. SUFFICES ASSUME NEW r \in SUBSET s PROVE Sum(r) <= Sum(s)
    OBVIOUS
  <2>2. CASE r = s
    BY <1>2, <2>2
  <2>3. CASE r # s
    <3>1. PICK x \in s : x \notin r
      BY <2>3
    <3>2. Sum(r) <= Sum(s \ {x})
      BY <1>4, <3>1
    <3>3. Sum(s) = w[x] + Sum(s \ {x}) /\ w[x] \in Nat
      BY <1>2, <3>1
    <3>4. Sum(r) \in Int /\ Sum(s \ {x}) \in Int
      BY <1>2
    <3> QED BY <3>2, <3>3, <3>4
  <2> QED BY <2>2, <2>3
<1>5. SUBSET S \subseteq T
  <2> HIDE DEF T
  <2> QED BY <1>3, <1>4, SubsetInduction
<1> QED BY <1>5 DEF Sum


-----------------------------------------------------------------------------
(* Functions that are defined from one natural to the next.                *)

\* step makes each value of f from the natural and the value before it.
Steps(f, N, a, step) == f = [n \in 0..N |-> IF n = 0 THEN a ELSE step[<<n, f[n - 1]>>]]

\* There is such a function, and its values are in the set that step keeps.
LEMMA StepsExist ==
  ASSUME NEW N \in Nat, NEW V, NEW a \in V, NEW step \in [(1..N) \X V -> V]
  PROVE  \E f \in [0..N -> V] : Steps(f, N, a, step)
<1> DEFINE G(n) == \E f \in [0..n -> V] : Steps(f, n, a, step)
           S == {n \in 0..N : G(n)}
<1>1. 0 \in S
  <2> DEFINE f == [n \in 0..0 |-> a]
  <2>1. f \in [0..0 -> V] /\ Steps(f, 0, a, step)
    BY DEF Steps
  <2> QED BY <2>1
<1>2. \A n \in 0..(N - 1) : n \in S => n + 1 \in S
  <2>1. SUFFICES ASSUME NEW n \in 0..(N - 1), n \in S
                 PROVE  n + 1 \in S
    OBVIOUS
  <2>2. PICK f \in [0..n -> V] : Steps(f, n, a, step)
    BY <2>1
  <2> DEFINE v == step[<<n + 1, f[n]>>]
             g == [i \in 0..(n + 1) |-> IF i = n + 1 THEN v ELSE f[i]]
  <2>3. v \in V
    BY <2>1
  <2>4. g \in [0..(n + 1) -> V]
    <3> HIDE DEF v
    <3> QED BY <2>1, <2>3
  <2>5. \A i \in 0..(n + 1) : g[i] = IF i = 0 THEN a ELSE step[<<i, g[i - 1]>>]
    <3>1. SUFFICES ASSUME NEW i \in 0..(n + 1)
                   PROVE  g[i] = IF i = 0 THEN a ELSE step[<<i, g[i - 1]>>]
      OBVIOUS
    <3>2. CASE i = n + 1
      <4>1. i # 0 /\ i - 1 = n /\ g[i - 1] = f[n] /\ g[i] = v
        BY <2>1, <3>2
      <4> QED BY <3>2, <4>1
    <3>3. CASE i # n + 1
      <4>1. i \in 0..n /\ g[i] = f[i]
        BY <2>1, <3>1, <3>3
      <4>2. f[i] = IF i = 0 THEN a ELSE step[<<i, f[i - 1]>>]
        BY <2>2, <4>1 DEF Steps
      <4>3. i # 0 => g[i - 1] = f[i - 1]
        BY <2>1, <4>1
      <4> QED BY <4>1, <4>2, <4>3
    <3> QED BY <3>2, <3>3
  <2>6. Steps(g, n + 1, a, step)
    <3>1. g = [i \in 0..(n + 1) |-> g[i]]
      OBVIOUS
    <3> HIDE DEF g
    <3> QED BY <2>5, <3>1 DEF Steps
  <2>7. n + 1 \in 0..N
    BY <2>1
  <2> HIDE DEF g
  <2> QED BY <2>4, <2>6, <2>7
<1>3. 0..N \subseteq S
  <2> HIDE DEF S
  <2> QED BY <1>1, <1>2, InductionUpTo
<1>4. N \in S
  BY <1>3
<1> QED BY <1>4
=============================================================================
