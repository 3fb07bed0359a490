----------------------------- MODULE DataLemmas -----------------------------
(***************************************************************************)
(* Facts about numbers, sequences and finite sets that the proofs of       *)
(* several components need.                                                *)
(***************************************************************************)
EXTENDS Integers, Sequences, FiniteSets, FiniteSetsExt, FiniteSetTheorems,
        SequenceTheorems, WellFoundedInduction, TLAPS

(***************************************************************************)
(* Induction over the naturals, for sets: every set of naturals that has 0 *)
(* and the successors of its members has all of them.                      *)
(***************************************************************************)

\* A set of naturals has a least member.
LEMMA Least ==
    ASSUME NEW T \in SUBSET Nat, T # {}
    PROVE  \E x \in T : \A y \in T : x <= y
<1> DEFINE R == OpToRel(<, Nat)
<1>1. IsWellFoundedOn(R, Nat)
  BY NatLessThanWellFounded
<1>2. \A x, y \in Nat : <<y, x>> \in R <=> y < x
  BY DEF OpToRel
<1> HIDE DEF R
<1>3. PICK x \in T : \A y \in T : ~ (<<y, x>> \in R)
  BY <1>1, WFMin
<1>4. \A y \in T : y \in Nat /\ x \in Nat /\ ~ (y < x)
  BY <1>2, <1>3
<1> QED BY <1>4

LEMMA AllNaturals ==
    ASSUME NEW T \in SUBSET Nat, 0 \in T, \A n \in T : n + 1 \in T
    PROVE  T = Nat
<1> SUFFICES ASSUME Nat \ T # {} PROVE FALSE
  OBVIOUS
<1>1. PICK x \in Nat \ T : \A y \in Nat \ T : x <= y
  BY Least
<1>2. x # 0 /\ x - 1 \in Nat
  BY <1>1
<1>3. x - 1 \in T
  BY <1>1, <1>2
<1> QED BY <1>2, <1>3

\* f starts with a and goes on as G says, through N.
Follows(f, a, G, N) ==
    /\ DOMAIN f = 0 .. N /\ f[0] = a
    /\ \A n \in 1 .. N : f[n] = G[n][f[n - 1]]

\* A recursion has a solution.
LEMMA Recursion ==
    ASSUME NEW S, NEW a \in S, NEW N \in Nat, NEW G,
           \A n \in 1 .. N : \A v \in S : G[n][v] \in S
    PROVE  \E f \in [0 .. N -> S] : Follows(f, a, G, N)
<1> DEFINE T == {n \in Nat : n <= N => \E f \in [0 .. n -> S] : Follows(f, a, G, n)}
<1>1. 0 \in T
  <2>1. [k \in 0 .. 0 |-> a] \in [0 .. 0 -> S] /\ Follows([k \in 0 .. 0 |-> a], a, G, 0)
    BY DEF Follows
  <2> QED BY <2>1
<1>2. \A n \in T : n + 1 \in T
  <2> SUFFICES ASSUME NEW n \in T, n + 1 <= N
               PROVE  \E f \in [0 .. n + 1 -> S] : Follows(f, a, G, n + 1)
    OBVIOUS
  <2>1. n \in Nat /\ n <= N
    OBVIOUS
  <2>2. PICK f \in [0 .. n -> S] : Follows(f, a, G, n)
    BY <2>1
  <2> DEFINE h == [k \in 0 .. n + 1 |-> IF k <= n THEN f[k] ELSE G[n + 1][f[n]]]
  <2>3. f[n] \in S /\ n + 1 \in 1 .. N
    BY <2>1
  <2>4. G[n + 1][f[n]] \in S
    BY <2>3
  <2>5. h \in [0 .. n + 1 -> S]
    BY <2>1, <2>4
  <2>6. DOMAIN h = 0 .. n + 1 /\ h[0] = a
    BY <2>1, <2>2 DEF Follows
  <2>7. ASSUME NEW k \in 1 .. n + 1 PROVE h[k] = G[k][h[k - 1]]
    <3>1. CASE k = n + 1
      BY <2>1, <3>1
    <3>2. CASE k <= n
      <4>1. f[k] = G[k][f[k - 1]]
        BY <2>1, <2>2, <3>2 DEF Follows
      <4>2. h[k] = f[k] /\ h[k - 1] = f[k - 1]
        BY <2>1, <3>2
      <4> QED BY <4>1, <4>2
    <3> QED BY <2>1, <3>1, <3>2
  <2> HIDE DEF h
  <2> QED BY <2>5, <2>6, <2>7 DEF Follows
<1>3. T = Nat
  <2> HIDE DEF T
  <2>1. T \in SUBSET Nat
    BY DEF T
  <2> QED BY <1>1, <1>2, <2>1, AllNaturals
<1> QED BY <1>3

(***************************************************************************)
(* Sequences of whatever they hold.                                        *)
(***************************************************************************)
IsSeq(l) == l \in Seq({l[n] : n \in DOMAIN l})

LEMMA SeqIs == ASSUME NEW l, IsSeq(l) PROVE Len(l) \in Nat /\ DOMAIN l = 1 .. Len(l)
<1> DEFINE S == {l[n] : n \in DOMAIN l}
<1>1. l \in Seq(S)
  BY DEF IsSeq
<1> HIDE DEF S
<1> QED BY <1>1

LEMMA SeqOf == ASSUME NEW S, NEW l \in Seq(S) PROVE IsSeq(l)
<1> DEFINE R == {l[n] : n \in DOMAIN l}
<1>1. Len(l) \in Nat /\ DOMAIN l = 1 .. Len(l) /\ \A n \in 1 .. Len(l) : l[n] \in R
  OBVIOUS
<1>2. l = [n \in 1 .. Len(l) |-> l[n]]
  OBVIOUS
<1> HIDE DEF R
<1>3. [n \in 1 .. Len(l) |-> l[n]] \in Seq(R)
  BY <1>1, IsASeq
<1> QED BY <1>2, <1>3 DEF IsSeq, R

LEMMA EmptyIs == IsSeq(<<>>) /\ Len(<<>>) = 0
<1>1. <<>> \in Seq({}) /\ Len(<<>>) = 0
  OBVIOUS
<1> QED BY <1>1, SeqOf

LEMMA SingleIs == ASSUME NEW e PROVE IsSeq(<<e>>) /\ Len(<<e>>) = 1 /\ <<e>>[1] = e
<1>1. <<e>> \in Seq({e}) /\ Len(<<e>>) = 1 /\ <<e>>[1] = e
  OBVIOUS
<1> QED BY <1>1, SeqOf

LEMMA AppendIs ==
    ASSUME NEW l, IsSeq(l), NEW e
    PROVE  /\ IsSeq(Append(l, e)) /\ Len(Append(l, e)) = Len(l) + 1
           /\ \A n \in 1 .. Len(l) : Append(l, e)[n] = l[n]
           /\ Append(l, e)[Len(l) + 1] = e
<1> DEFINE S == {l[n] : n \in DOMAIN l} \cup {e}
<1>1. l \in Seq(S) /\ e \in S
  <2>1. l \in Seq({l[n] : n \in DOMAIN l})
    BY DEF IsSeq
  <2>2. Len(l) \in Nat /\ DOMAIN l = 1 .. Len(l) /\ \A n \in 1 .. Len(l) : l[n] \in S
    BY <2>1
  <2> HIDE DEF S
  <2>3. l = [n \in 1 .. Len(l) |-> l[n]] /\ [n \in 1 .. Len(l) |-> l[n]] \in Seq(S)
    BY <2>1, <2>2, IsASeq
  <2> QED BY <2>3 DEF S
<1> HIDE DEF S
<1>2. Append(l, e) \in Seq(S)
  BY <1>1
<1>3. /\ Len(Append(l, e)) = Len(l) + 1 /\ Append(l, e)[Len(l) + 1] = e
      /\ \A n \in 1 .. Len(l) : Append(l, e)[n] = l[n]
  BY <1>1
<1>4. IsSeq(Append(l, e))
  BY <1>2, SeqOf
<1> QED BY <1>3, <1>4

LEMMA SubSeqIs ==
    ASSUME NEW l, IsSeq(l), NEW m \in 0 .. Len(l)
    PROVE  /\ IsSeq(SubSeq(l, 1, m)) /\ Len(SubSeq(l, 1, m)) = m
           /\ \A n \in 1 .. m : SubSeq(l, 1, m)[n] = l[n]
<1> DEFINE S == {l[n] : n \in DOMAIN l}
<1>1. l \in Seq(S)
  BY DEF IsSeq
<1> HIDE DEF S
<1>2. SubSeq(l, 1, m) \in Seq(S) /\ Len(SubSeq(l, 1, m)) = m
  BY <1>1
<1>3. \A n \in 1 .. m : SubSeq(l, 1, m)[n] = l[n]
  BY <1>1
<1> QED BY <1>2, <1>3, SeqOf

(***************************************************************************)
(* Finite sets of numbers.                                                 *)
(***************************************************************************)

\* A finite set of integers has a greatest member.
LEMMA Greatest ==
    ASSUME NEW S \in SUBSET Int, IsFiniteSet(S), S # {}
    PROVE  \E x \in S : \A y \in S : x >= y
<1> DEFINE T == {n \in Nat : \A A \in SUBSET Int :
                    IsFiniteSet(A) /\ Cardinality(A) = n /\ A # {} => \E x \in A : \A y \in A : x >= y}
<1>1. 0 \in T
  BY FS_EmptySet
<1>2. \A n \in T : n + 1 \in T
  <2> SUFFICES ASSUME NEW n \in T, NEW A \in SUBSET Int,
                      IsFiniteSet(A), Cardinality(A) = n + 1, A # {}
               PROVE  \E x \in A : \A y \in A : x >= y
    OBVIOUS
  <2>1. PICK a \in A : TRUE
    OBVIOUS
  <2>2. IsFiniteSet(A \ {a}) /\ Cardinality(A \ {a}) = n
    <3>1. IsFiniteSet(A \ {a}) /\ Cardinality(A \ {a}) = Cardinality(A) - 1
      BY FS_RemoveElement
    <3> QED BY <3>1
  <2>3. CASE A \ {a} = {}
    BY <2>3
  <2>4. CASE A \ {a} # {}
    <3>1. A \ {a} \in SUBSET Int
      OBVIOUS
    <3>2. PICK x \in A \ {a} : \A y \in A \ {a} : x >= y
      BY <2>2, <2>4, <3>1
    <3> QED BY <3>2
  <2> QED BY <2>3, <2>4
<1>3. T = Nat
  <2> HIDE DEF T
  <2>1. T \in SUBSET Nat
    BY DEF T
  <2> QED BY <1>1, <1>2, <2>1, AllNaturals
<1>4. Cardinality(S) \in Nat
  BY FS_CardinalityType
<1> QED BY <1>3, <1>4

\* ... and a least one.
LEMMA Lowest ==
    ASSUME NEW S \in SUBSET Int, IsFiniteSet(S), S # {}
    PROVE  \E x \in S : \A y \in S : x <= y
<1> DEFINE f == [x \in S |-> 0 - x]
           N == {f[x] : x \in S}
<1>1. f \in Surjection(S, N)
  BY DEF Surjection
<1>2. IsFiniteSet(N)
  BY <1>1, FS_Surjection
<1>0. \A x \in S : x \in Int /\ f[x] = 0 - x
  OBVIOUS
<1>3. N \in SUBSET Int /\ N # {}
  <2>1. \A x \in S : f[x] \in Int
    BY <1>0
  <2> HIDE DEF f
  <2> QED BY <2>1
<1>4. PICK n \in N : \A m \in N : n >= m
  <2> HIDE DEF N
  <2> QED BY <1>2, <1>3, Greatest
<1>5. PICK x \in S : n = 0 - x
  BY <1>0
<1>6. \A y \in S : 0 - y \in N
  BY <1>0
<1> HIDE DEF N
<1> QED BY <1>0, <1>4, <1>5, <1>6

\* For every k below the size of a set, k members come before some member.
LEMMA RankReached ==
    ASSUME NEW S \in SUBSET Int, IsFiniteSet(S), NEW k \in Nat, k < Cardinality(S)
    PROVE  \E g \in S : Cardinality({h \in S : h < g}) = k
<1> DEFINE T == {n \in Nat : n < Cardinality(S) => \E g \in S : Cardinality({h \in S : h < g}) = n}
<1>0. Cardinality(S) \in Nat /\ \A x \in S : x \in Int
  BY FS_CardinalityType
<1>1. 0 \in T
  <2> SUFFICES ASSUME 0 < Cardinality(S) PROVE \E g \in S : Cardinality({h \in S : h < g}) = 0
    OBVIOUS
  <2>1. PICK g \in S : \A y \in S : g <= y
    BY FS_EmptySet, Lowest
  <2>2. {h \in S : h < g} = {}
    <3>1. \A x \in S : ~(x < g)
      BY <1>0, <2>1
    <3> QED BY <3>1
  <2> QED BY <2>2, FS_EmptySet
<1>2. \A n \in T : n + 1 \in T
  <2> SUFFICES ASSUME NEW n \in T, n + 1 < Cardinality(S)
               PROVE  \E g \in S : Cardinality({h \in S : h < g}) = n + 1
    OBVIOUS
  <2>1. PICK g \in S : Cardinality({h \in S : h < g}) = n
    BY <1>0
  <2> DEFINE B == {h \in S : h < g}
             A == {h \in S : h > g}
  <2>2. IsFiniteSet(B) /\ IsFiniteSet(A)
    BY FS_Subset
  <2>3. IsFiniteSet(B \cup {g}) /\ Cardinality(B \cup {g}) = n + 1
    <3>1. g \notin B
      OBVIOUS
    <3> QED BY <2>1, <2>2, <3>1, FS_AddElement
  <2>4. A # {}
    <3>1. A = {} => S = B \cup {g}
      <4> SUFFICES ASSUME A = {} PROVE \A x \in S : x \in B \cup {g}
        OBVIOUS
      <4> QED BY <1>0
    <3> QED BY <1>0, <2>3, <3>1
  <2>5. PICK a \in A : \A y \in A : a <= y
    <3>1. A \in SUBSET Int
      OBVIOUS
    <3> QED BY <2>2, <2>4, <3>1, Lowest
  <2>6. {h \in S : h < a} = B \cup {g}
    <3>1. \A x \in S : x < a <=> x \in B \cup {g}
      BY <1>0, <2>5
    <3> QED BY <3>1
  <2> QED BY <2>3, <2>5, <2>6
<1>3. T = Nat
  <2> HIDE DEF T
  <2>1. T \in SUBSET Nat
    BY DEF T
  <2> QED BY <1>1, <1>2, <2>1, AllNaturals
<1> QED BY <1>3

(***************************************************************************)
(* Induction over the subsets of a finite set: a family that has the empty *)
(* set, and each set with one element more, has the whole.                 *)
(***************************************************************************)
LEMMA BySubsets ==
    ASSUME NEW S, IsFiniteSet(S), NEW T \in SUBSET SUBSET S, {} \in T,
           \A A \in T : \A x \in S \ A : A \cup {x} \in T
    PROVE  S \in T
<1> DEFINE M == {n \in Nat : \A A \in SUBSET S : Cardinality(A) = n => A \in T}
<1>1. \A A \in SUBSET S : IsFiniteSet(A) /\ Cardinality(A) \in Nat
  BY FS_Subset, FS_CardinalityType
<1>2. 0 \in M
  BY <1>1, FS_EmptySet
<1>3. ASSUME NEW n \in M PROVE n + 1 \in M
  <2> SUFFICES ASSUME NEW A \in SUBSET S, Cardinality(A) = n + 1 PROVE A \in T
    OBVIOUS
  <2>1. A # {}
    <3>1. n + 1 # 0
      OBVIOUS
    <3> QED BY <3>1, FS_EmptySet
  <2>2. PICK x \in A : TRUE
    BY <2>1
  <2>3. IsFiniteSet(A \ {x}) /\ Cardinality(A \ {x}) = n
    <3>1. Cardinality(A \ {x}) = Cardinality(A) - 1
      BY <1>1, <2>2, FS_RemoveElement
    <3> QED BY <1>1, <3>1
  <2>4. A \ {x} \in T
    BY <2>3
  <2>5. (A \ {x}) \cup {x} = A
    BY <2>2
  <2> QED BY <2>2, <2>4, <2>5
<1>4. M = Nat
  <2> HIDE DEF M
  <2>1. M \in SUBSET Nat
    BY DEF M
  <2> QED BY <1>2, <1>3, <2>1, AllNaturals
<1> QED BY <1>1, <1>4

(***************************************************************************)
(* Sums of a function over a finite set.                                   *)
(***************************************************************************)
SumOf(f, S) == MapThenSumSet(LAMBDA x : f[x], S)

\* The recursion in MapThenFoldSet.
Picked(s) == CHOOSE x \in s : TRUE
IsSums(h, f, S) ==
    h = [s \in SUBSET S |-> IF s = {} THEN 0 ELSE f[Picked(s)] + h[s \ {Picked(s)}]]
Sums(f, S) == CHOOSE h : IsSums(h, f, S)

LEMMA SumOfIs == \A f, S : SumOf(f, S) = Sums(f, S)[S]
BY DEF SumOf, MapThenSumSet, MapThenFoldSet, Sums, IsSums, Picked

\* A recursion gives a set the same sum as another that has the set.
LEMMA SumsAgree ==
    ASSUME NEW f, NEW T, IsFiniteSet(T), NEW S1, T \subseteq S1, NEW S2, T \subseteq S2,
           NEW h1, IsSums(h1, f, S1), NEW h2, IsSums(h2, f, S2)
    PROVE  h1[T] = h2[T]
<1> DEFINE M == {n \in Nat : \A A \in SUBSET T : Cardinality(A) = n => h1[A] = h2[A]}
<1>1. \A A \in SUBSET T : IsFiniteSet(A) /\ Cardinality(A) \in Nat
  BY FS_Subset, FS_CardinalityType
<1>2. ASSUME NEW A \in SUBSET T
      PROVE  /\ h1[A] = IF A = {} THEN 0 ELSE f[Picked(A)] + h1[A \ {Picked(A)}]
             /\ h2[A] = IF A = {} THEN 0 ELSE f[Picked(A)] + h2[A \ {Picked(A)}]
  BY DEF IsSums
<1>3. 0 \in M
  <2> SUFFICES ASSUME NEW A \in SUBSET T, Cardinality(A) = 0 PROVE h1[A] = h2[A]
    OBVIOUS
  <2>1. A = {}
    BY <1>1, FS_EmptySet
  <2> QED BY <1>2, <2>1
<1>4. ASSUME NEW n \in M PROVE n + 1 \in M
  <2> SUFFICES ASSUME NEW A \in SUBSET T, Cardinality(A) = n + 1 PROVE h1[A] = h2[A]
    OBVIOUS
  <2>1. A # {}
    <3>1. n + 1 # 0
      OBVIOUS
    <3> QED BY <3>1, FS_EmptySet
  <2>2. Picked(A) \in A
    BY <2>1 DEF Picked
  <2>3. IsFiniteSet(A \ {Picked(A)}) /\ Cardinality(A \ {Picked(A)}) = n
    <3>1. Cardinality(A \ {Picked(A)}) = Cardinality(A) - 1
      BY <1>1, <2>2, FS_RemoveElement
    <3> QED BY <1>1, <3>1
  <2>4. h1[A \ {Picked(A)}] = h2[A \ {Picked(A)}]
    BY <2>3
  <2> QED BY <1>2, <2>1, <2>4
<1>5. M = Nat
  <2> HIDE DEF M
  <2>1. M \in SUBSET Nat
    BY DEF M
  <2> QED BY <1>3, <1>4, <2>1, AllNaturals
<1> QED BY <1>1, <1>5

LEMMA SumsExist ==
    ASSUME NEW f, NEW S, IsFiniteSet(S)
    PROVE  \A A \in SUBSET S : IsSums(Sums(f, A), f, A)
<1> DEFINE M == {n \in Nat : \A A \in SUBSET S : Cardinality(A) <= n => IsSums(Sums(f, A), f, A)}
<1>1. \A A \in SUBSET S : IsFiniteSet(A) /\ Cardinality(A) \in Nat
  BY FS_Subset, FS_CardinalityType
<1>2. 0 \in M
  <2> SUFFICES ASSUME NEW A \in SUBSET S, Cardinality(A) <= 0 PROVE \E h : IsSums(h, f, A)
    BY DEF Sums
  <2>1. A = {}
    <3>1. Cardinality(A) = 0
      BY <1>1
    <3> QED BY <1>1, <3>1, FS_EmptySet
  <2> DEFINE h == [s \in SUBSET A |-> 0]
  <2>2. IsSums(h, f, A)
    BY <2>1 DEF IsSums
  <2> QED BY <2>2
<1>3. ASSUME NEW n \in M PROVE n + 1 \in M
  <2> SUFFICES ASSUME NEW A \in SUBSET S, Cardinality(A) <= n + 1 PROVE IsSums(Sums(f, A), f, A)
    OBVIOUS
  <2>0. IsFiniteSet(A) /\ Cardinality(A) \in Nat
    BY <1>1
  <2>1. CASE Cardinality(A) <= n
    BY <2>1
  <2>2. CASE Cardinality(A) = n + 1
    <3>1. ASSUME NEW B \in SUBSET A, B # A PROVE IsSums(Sums(f, B), f, B)
      <4>1. IsFiniteSet(B) /\ Cardinality(B) \in Nat /\ B \in SUBSET S
        BY <1>1
      <4>2. Cardinality(B) <= Cardinality(A) /\ Cardinality(B) # Cardinality(A)
        BY <2>0, <3>1, FS_Subset
      <4>3. Cardinality(B) <= n
        BY <2>2, <4>1, <4>2
      <4> QED BY <4>1, <4>3
    <3> DEFINE p == Picked(A)
               h == [s \in SUBSET A |-> IF s = A THEN f[p] + Sums(f, A \ {p})[A \ {p}]
                                        ELSE Sums(f, s)[s]]
    <3>2. A # {} /\ p \in A
      <4>1. A # {}
        <5>1. n + 1 # 0
          OBVIOUS
        <5> QED BY <2>2, <5>1, FS_EmptySet
      <4> QED BY <4>1 DEF Picked
    <3>3. ASSUME NEW s \in SUBSET A
          PROVE  h[s] = IF s = {} THEN 0 ELSE f[Picked(s)] + h[s \ {Picked(s)}]
      <4>1. CASE s = A
        <5>1. h[A] = f[p] + Sums(f, A \ {p})[A \ {p}]
          OBVIOUS
        <5>2. A \ {p} # A /\ A \ {p} \in SUBSET A
          BY <3>2
        <5>3. h[A \ {p}] = Sums(f, A \ {p})[A \ {p}]
          BY <5>2
        <5> HIDE DEF h
        <5> QED BY <3>2, <4>1, <5>1, <5>3
      <4>2. CASE s # A
        <5>1. h[s] = Sums(f, s)[s] /\ IsSums(Sums(f, s), f, s)
          BY <3>1, <4>2
        <5>2. Sums(f, s)[s] = IF s = {} THEN 0 ELSE f[Picked(s)] + Sums(f, s)[s \ {Picked(s)}]
          BY <5>1 DEF IsSums
        <5> DEFINE t == s \ {Picked(s)}
        <5>3. CASE s # {}
          <6>1. Picked(s) \in s
            BY <5>3 DEF Picked
          <6>2. t # A /\ t \in SUBSET A /\ t \in SUBSET s /\ IsFiniteSet(t)
            BY <2>0, <6>1, FS_Subset
          <6>3. h[t] = Sums(f, t)[t]
            BY <6>2
          <6>4. IsSums(Sums(f, t), f, t)
            BY <3>1, <6>2
          <6> HIDE DEF t
          <6>5. Sums(f, t)[t] = Sums(f, s)[t]
            BY <5>1, <6>2, <6>4, SumsAgree
          <6> HIDE DEF h
          <6> QED BY <5>1, <5>2, <5>3, <6>3, <6>5 DEF t
        <5> HIDE DEF h
        <5> QED BY <5>1, <5>2, <5>3
      <4> QED BY <4>1, <4>2
    <3>4. h = [s \in SUBSET A |-> h[s]]
      OBVIOUS
    <3> HIDE DEF h
    <3>5. IsSums(h, f, A)
      BY <3>3, <3>4 DEF IsSums
    <3> QED BY <3>5 DEF Sums
  <2> QED BY <2>0, <2>1, <2>2
<1>4. M = Nat
  <2> HIDE DEF M
  <2>1. M \in SUBSET Nat
    BY DEF M
  <2> QED BY <1>2, <1>3, <2>1, AllNaturals
<1> QED BY <1>1, <1>4

LEMMA SumPicked ==
    ASSUME NEW f, NEW S, IsFiniteSet(S)
    PROVE  SumOf(f, S) = IF S = {} THEN 0 ELSE f[Picked(S)] + SumOf(f, S \ {Picked(S)})
<1>1. IsSums(Sums(f, S), f, S)
  BY SumsExist
<1>2. Sums(f, S)[S] = IF S = {} THEN 0 ELSE f[Picked(S)] + Sums(f, S)[S \ {Picked(S)}]
  BY <1>1 DEF IsSums
<1> DEFINE t == S \ {Picked(S)}
<1>3. IsFiniteSet(t) /\ t \subseteq t /\ t \subseteq S
  BY FS_Subset
<1>4. IsSums(Sums(f, t), f, t)
  BY SumsExist
<1> DEFINE h1 == Sums(f, S)
           h2 == Sums(f, t)
<1>5. IsSums(h1, f, S) /\ IsSums(h2, f, t)
  BY <1>1, <1>4
<1> HIDE DEF t, h1, h2
<1>6. h1[t] = h2[t]
  BY <1>3, <1>5, SumsAgree
<1> QED BY <1>2, <1>6, SumOfIs DEF t, h1, h2

LEMMA SumType ==
    ASSUME NEW f, NEW S, IsFiniteSet(S), \A x \in S : f[x] \in Nat
    PROVE  \A A \in SUBSET S : SumOf(f, A) \in Nat
<1> DEFINE M == {n \in Nat : \A A \in SUBSET S : Cardinality(A) = n => SumOf(f, A) \in Nat}
<1>1. \A A \in SUBSET S : IsFiniteSet(A) /\ Cardinality(A) \in Nat
  BY FS_Subset, FS_CardinalityType
<1>2. ASSUME NEW A \in SUBSET S
      PROVE  SumOf(f, A) = IF A = {} THEN 0 ELSE f[Picked(A)] + SumOf(f, A \ {Picked(A)})
  BY <1>1, SumPicked
<1>3. 0 \in M
  <2> SUFFICES ASSUME NEW A \in SUBSET S, Cardinality(A) = 0 PROVE SumOf(f, A) \in Nat
    OBVIOUS
  <2>1. A = {}
    BY <1>1, FS_EmptySet
  <2>2. SumOf(f, A) = 0
    BY <1>2, <2>1
  <2> QED BY <2>2
<1>4. ASSUME NEW n \in M PROVE n + 1 \in M
  <2> SUFFICES ASSUME NEW A \in SUBSET S, Cardinality(A) = n + 1 PROVE SumOf(f, A) \in Nat
    OBVIOUS
  <2>1. A # {}
    <3>1. n + 1 # 0
      OBVIOUS
    <3> QED BY <3>1, FS_EmptySet
  <2>2. Picked(A) \in A
    BY <2>1 DEF Picked
  <2>3. IsFiniteSet(A \ {Picked(A)}) /\ Cardinality(A \ {Picked(A)}) = n
    <3>1. Cardinality(A \ {Picked(A)}) = Cardinality(A) - 1
      BY <1>1, <2>2, FS_RemoveElement
    <3> QED BY <1>1, <3>1
  <2>4. SumOf(f, A \ {Picked(A)}) \in Nat /\ f[Picked(A)] \in Nat
    BY <2>2, <2>3
  <2> QED BY <1>2, <2>1, <2>4
<1>5. M = Nat
  <2> HIDE DEF M
  <2>1. M \in SUBSET Nat
    BY DEF M
  <2> QED BY <1>3, <1>4, <2>1, AllNaturals
<1> QED BY <1>1, <1>5

\* The order in which the elements are taken does not matter.
LEMMA SumRemove ==
    ASSUME NEW f, NEW S, IsFiniteSet(S), \A x \in S : f[x] \in Nat,
           NEW B \in SUBSET S, NEW z \in B
    PROVE  SumOf(f, B) = f[z] + SumOf(f, B \ {z})
<1> DEFINE Fine(A) == \A x \in A : SumOf(f, A) = f[x] + SumOf(f, A \ {x})
           M == {n \in Nat : \A A \in SUBSET S : Cardinality(A) = n => Fine(A)}
<1>1. \A A \in SUBSET S : IsFiniteSet(A) /\ Cardinality(A) \in Nat /\ SumOf(f, A) \in Nat
  BY FS_Subset, FS_CardinalityType, SumType
<1>2. ASSUME NEW A \in SUBSET S
      PROVE  SumOf(f, A) = IF A = {} THEN 0 ELSE f[Picked(A)] + SumOf(f, A \ {Picked(A)})
  BY <1>1, SumPicked
<1>3. 0 \in M
  <2> SUFFICES ASSUME NEW A \in SUBSET S, Cardinality(A) = 0 PROVE Fine(A)
    OBVIOUS
  <2>1. A = {}
    BY <1>1, FS_EmptySet
  <2> QED BY <2>1
<1>4. ASSUME NEW n \in M PROVE n + 1 \in M
  <2> SUFFICES ASSUME NEW A \in SUBSET S, Cardinality(A) = n + 1, NEW x \in A
               PROVE  SumOf(f, A) = f[x] + SumOf(f, A \ {x})
    OBVIOUS
  <2>1. A # {}
    OBVIOUS
  <2>2. Picked(A) \in A
    BY <2>1 DEF Picked
  <2> DEFINE p == Picked(A)
  <2>3. ASSUME NEW y \in A PROVE Fine(A \ {y})
    <3>1. Cardinality(A \ {y}) = Cardinality(A) - 1
      BY <1>1, FS_RemoveElement
    <3>2. Cardinality(A \ {y}) = n /\ A \ {y} \in SUBSET S
      BY <1>1, <3>1
    <3> HIDE DEF Fine
    <3> QED BY <3>2
  <2>4. CASE x = p
    BY <1>2, <2>1, <2>4
  <2>5. CASE x # p
    <3>1. SumOf(f, A \ {p}) = f[x] + SumOf(f, (A \ {p}) \ {x})
      BY <2>2, <2>3, <2>5
    <3>2. SumOf(f, A \ {x}) = f[p] + SumOf(f, (A \ {x}) \ {p})
      BY <2>2, <2>3, <2>5
    <3>3. (A \ {p}) \ {x} = (A \ {x}) \ {p} /\ (A \ {x}) \ {p} \in SUBSET S
      OBVIOUS
    <3>4. SumOf(f, A) = f[p] + SumOf(f, A \ {p})
      BY <1>2, <2>1
    <3> DEFINE c == SumOf(f, (A \ {x}) \ {p})
               a == f[p]
               b == f[x]
    <3>5. a \in Nat /\ b \in Nat /\ c \in Nat
      BY <1>1, <2>2, <3>3
    <3>6. SumOf(f, A) = a + (b + c) /\ SumOf(f, A \ {x}) = a + c
      BY <3>1, <3>2, <3>3, <3>4
    <3> HIDE DEF a, b, c
    <3>7. a + (b + c) = b + (a + c)
      BY <3>5
    <3> QED BY <3>6, <3>7 DEF b
  <2> QED BY <2>4, <2>5
<1>5. M = Nat
  <2> HIDE DEF M
  <2>1. M \in SUBSET Nat
    BY DEF M
  <2> QED BY <1>3, <1>4, <2>1, AllNaturals
<1> HIDE DEF Fine
<1>6. \A A \in SUBSET S : Fine(A)
  BY <1>1, <1>5
<1>7. Fine(B)
  BY <1>6
<1> QED BY <1>7 DEF Fine

\* What the proofs use of a sum.
LEMMA SumAdd ==
    ASSUME NEW f, NEW S, IsFiniteSet(S), \A x \in S : f[x] \in Nat
    PROVE  /\ SumOf(f, {}) = 0
           /\ \A A \in SUBSET S : SumOf(f, A) \in Nat
           /\ \A A \in SUBSET S : \A x \in S \ A : SumOf(f, A \cup {x}) = f[x] + SumOf(f, A)
<1>1. SumOf(f, {}) = 0
  BY SumPicked, FS_EmptySet
<1>2. ASSUME NEW A \in SUBSET S, NEW x \in S \ A PROVE SumOf(f, A \cup {x}) = f[x] + SumOf(f, A)
  <2>1. (A \cup {x}) \ {x} = A /\ A \cup {x} \in SUBSET S /\ x \in A \cup {x}
    OBVIOUS
  <2> QED BY <2>1, SumRemove
<1> QED BY <1>1, <1>2, SumType

LEMMA SumPlus ==
    ASSUME NEW f, NEW g, NEW h, NEW S, IsFiniteSet(S),
           \A x \in S : f[x] \in Nat /\ g[x] \in Nat /\ h[x] = f[x] + g[x]
    PROVE  SumOf(h, S) = SumOf(f, S) + SumOf(g, S)
<1> DEFINE T == {A \in SUBSET S : SumOf(h, A) = SumOf(f, A) + SumOf(g, A)}
<1>0. \A x \in S : h[x] \in Nat
  OBVIOUS
<1>1. {} \in T
  <2>1. SumOf(f, {}) = 0 /\ SumOf(g, {}) = 0 /\ SumOf(h, {}) = 0
    BY <1>0, SumAdd
  <2> QED BY <2>1
<1>2. ASSUME NEW A \in T, NEW x \in S \ A PROVE A \cup {x} \in T
  <2>1. /\ SumOf(h, A \cup {x}) = h[x] + SumOf(h, A)
        /\ SumOf(f, A \cup {x}) = f[x] + SumOf(f, A)
        /\ SumOf(g, A \cup {x}) = g[x] + SumOf(g, A)
        /\ SumOf(h, A) \in Nat /\ SumOf(f, A) \in Nat /\ SumOf(g, A) \in Nat
    BY <1>0, SumAdd
  <2>2. SumOf(h, A) = SumOf(f, A) + SumOf(g, A)
    OBVIOUS
  <2>3. SumOf(h, A \cup {x}) = SumOf(f, A \cup {x}) + SumOf(g, A \cup {x})
    BY <1>0, <2>1, <2>2
  <2> QED BY <2>3
<1> HIDE DEF T
<1>3. S \in T
  <2>1. T \in SUBSET SUBSET S
    BY DEF T
  <2> QED BY <1>1, <1>2, <2>1, BySubsets
<1> QED BY <1>3 DEF T

LEMMA SumAtMost ==
    ASSUME NEW f, NEW g, NEW S, IsFiniteSet(S),
           \A x \in S : f[x] \in Nat /\ g[x] \in Nat /\ f[x] <= g[x]
    PROVE  SumOf(f, S) <= SumOf(g, S)
<1> DEFINE h == [x \in S |-> g[x] - f[x]]
<1>1. \A x \in S : f[x] \in Nat /\ h[x] \in Nat /\ g[x] = f[x] + h[x]
  OBVIOUS
<1> HIDE DEF h
<1>2. SumOf(g, S) = SumOf(f, S) + SumOf(h, S)
  BY <1>1, SumPlus
<1>3. SumOf(f, S) \in Nat /\ SumOf(h, S) \in Nat
  BY <1>1, SumAdd
<1> QED BY <1>2, <1>3

LEMMA SumOfPart ==
    ASSUME NEW f, NEW S, IsFiniteSet(S), \A x \in S : f[x] \in Nat, NEW B \in SUBSET S
    PROVE  SumOf(f, B) <= SumOf(f, S)
<1> DEFINE T == {A \in SUBSET (S \ B) : SumOf(f, B) <= SumOf(f, B \cup A)}
<1>0. \A A \in SUBSET S : SumOf(f, A) \in Nat
  BY SumAdd
<1>1. {} \in T
  <2>1. SumOf(f, B) \in Nat /\ B \cup {} = B
    BY <1>0
  <2> QED BY <2>1
<1>2. ASSUME NEW A \in T, NEW x \in (S \ B) \ A PROVE A \cup {x} \in T
  <2>1. SumOf(f, (B \cup A) \cup {x}) = f[x] + SumOf(f, B \cup A)
    BY SumAdd
  <2>2. (B \cup A) \cup {x} = B \cup (A \cup {x}) /\ A \cup {x} \in SUBSET (S \ B)
    OBVIOUS
  <2>3. SumOf(f, B) \in Nat /\ SumOf(f, B \cup A) \in Nat /\ f[x] \in Nat
    BY <1>0
  <2>4. SumOf(f, B) <= SumOf(f, B \cup A)
    OBVIOUS
  <2> DEFINE a == SumOf(f, B)
             b == SumOf(f, B \cup A)
             c == f[x]
  <2>5. a \in Nat /\ b \in Nat /\ c \in Nat /\ a <= b /\ SumOf(f, B \cup (A \cup {x})) = c + b
    BY <2>1, <2>2, <2>3, <2>4
  <2> HIDE DEF a, b, c
  <2>6. a <= SumOf(f, B \cup (A \cup {x}))
    BY <2>5
  <2>7. A \cup {x} \in SUBSET (S \ B) /\ SumOf(f, B) <= SumOf(f, B \cup (A \cup {x}))
    BY <2>2, <2>6 DEF a
  <2> QED BY <2>7
<1>3. S \ B \in T
  <2> HIDE DEF T
  <2>1. T \in SUBSET SUBSET (S \ B) /\ IsFiniteSet(S \ B)
    BY FS_Subset DEF T
  <2> QED BY <1>1, <1>2, <2>1, BySubsets
<1>4. B \cup (S \ B) = S
  OBVIOUS
<1> QED BY <1>3, <1>4

\* Each element counts for q, those of B for one more.
LEMMA SumShares ==
    ASSUME NEW f, NEW S, IsFiniteSet(S), NEW B \in SUBSET S, NEW q \in Nat,
           \A x \in S : f[x] = q + (IF x \in B THEN 1 ELSE 0)
    PROVE  SumOf(f, S) = q * Cardinality(S) + Cardinality(B)
<1> DEFINE T == {A \in SUBSET S : SumOf(f, A) = q * Cardinality(A) + Cardinality(A \cap B)}
<1>0. (\A x \in S : f[x] \in Nat)
      /\ \A A \in SUBSET S : /\ IsFiniteSet(A) /\ Cardinality(A) \in Nat
                             /\ IsFiniteSet(A \cap B) /\ Cardinality(A \cap B) \in Nat
  BY FS_Subset, FS_CardinalityType
<1>1. {} \in T
  <2>1. SumOf(f, {}) = 0 /\ Cardinality({}) = 0 /\ {} \cap B = {}
    BY <1>0, SumAdd, FS_EmptySet
  <2> QED BY <2>1
<1>2. ASSUME NEW A \in T, NEW x \in S \ A PROVE A \cup {x} \in T
  <2>1. SumOf(f, A \cup {x}) = f[x] + SumOf(f, A)
    BY <1>0, SumAdd
  <2>2. Cardinality(A \cup {x}) = Cardinality(A) + 1
    BY <1>0, FS_AddElement
  <2> DEFINE a == Cardinality(A)
             b == Cardinality(A \cap B)
  <2>3. a \in Nat /\ b \in Nat /\ SumOf(f, A) = q * a + b
    BY <1>0
  <2>4. Cardinality((A \cup {x}) \cap B) = b + (IF x \in B THEN 1 ELSE 0)
    <3>1. CASE x \in B
      <4>1. (A \cup {x}) \cap B = (A \cap B) \cup {x} /\ x \notin A \cap B
        BY <3>1
      <4>2. Cardinality((A \cap B) \cup {x}) = b + 1
        BY <1>0, <4>1, FS_AddElement
      <4> QED BY <3>1, <4>1, <4>2
    <3>2. CASE x \notin B
      <4>1. (A \cup {x}) \cap B = A \cap B
        BY <3>2
      <4>2. Cardinality((A \cup {x}) \cap B) = b /\ b \in Nat
        BY <2>3, <4>1
      <4> HIDE DEF b
      <4> QED BY <3>2, <4>2
    <3> QED BY <3>1, <3>2
  <2> DEFINE i == IF x \in B THEN 1 ELSE 0
  <2>5. f[x] = q + i /\ i \in Nat
    OBVIOUS
  <2> HIDE DEF a, b, i
  <2>6. (q + i) + (q * a + b) = q * (a + 1) + (b + i)
    BY <2>3, <2>5
  <2>7. SumOf(f, A \cup {x}) = q * Cardinality(A \cup {x}) + Cardinality((A \cup {x}) \cap B)
    BY <2>1, <2>2, <2>3, <2>4, <2>5, <2>6 DEF a, i
  <2> QED BY <2>7
<1>3. S \in T
  <2> HIDE DEF T
  <2>1. T \in SUBSET SUBSET S
    BY DEF T
  <2> QED BY <1>1, <1>2, <2>1, BySubsets
<1>4. S \cap B = B
  OBVIOUS
<1> QED BY <1>3, <1>4

\* Counting D by what h makes of its members.
AllAt(h, D, x) == {d \in D : h[d] = x}
AllIn(h, D, S) == {d \in D : h[d] \in S}

LEMMA SumCounts ==
    ASSUME NEW D, IsFiniteSet(D), NEW h, NEW S, IsFiniteSet(S), NEW f,
           \A x \in S : f[x] = Cardinality(AllAt(h, D, x))
    PROVE  SumOf(f, S) = Cardinality(AllIn(h, D, S))
<1> USE DEF AllAt, AllIn
<1> DEFINE In(A) == {d \in D : h[d] \in A}
           Of(x) == {d \in D : h[d] = x}
           T == {A \in SUBSET S : SumOf(f, A) = Cardinality(In(A))}
<1>0. (\A A : IsFiniteSet(In(A))) /\ (\A x : IsFiniteSet(Of(x)))
  BY FS_Subset
<1>1. \A x \in S : f[x] = Cardinality(Of(x)) /\ f[x] \in Nat
  BY <1>0, FS_CardinalityType
<1>2. {} \in T
  <2>1. SumOf(f, {}) = 0 /\ Cardinality({}) = 0
    BY <1>1, SumAdd, FS_EmptySet
  <2>2. In({}) = {}
    OBVIOUS
  <2> QED BY <2>1, <2>2
<1>3. ASSUME NEW A \in T, NEW x \in S \ A PROVE A \cup {x} \in T
  <2>1. SumOf(f, A \cup {x}) = f[x] + SumOf(f, A) /\ SumOf(f, A) = Cardinality(In(A))
    BY <1>1, SumAdd
  <2>2. In(A \cup {x}) = In(A) \cup Of(x) /\ In(A) \cap Of(x) = {}
    OBVIOUS
  <2> HIDE DEF In, Of
  <2>3. Cardinality(In(A) \cup Of(x)) = Cardinality(In(A)) + Cardinality(Of(x))
    <3>1. Cardinality(In(A) \cup Of(x)) =
            Cardinality(In(A)) + Cardinality(Of(x)) - Cardinality(In(A) \cap Of(x))
      BY <1>0, FS_Union
    <3> DEFINE a == Cardinality(In(A))
               b == Cardinality(Of(x))
    <3>2. a \in Nat /\ b \in Nat
      BY <1>0, FS_CardinalityType
    <3>3. Cardinality(In(A) \cap Of(x)) = 0
      BY <2>2, FS_EmptySet
    <3>4. Cardinality(In(A) \cup Of(x)) = a + b - 0
      BY <3>1, <3>3
    <3> HIDE DEF a, b
    <3>5. Cardinality(In(A) \cup Of(x)) = a + b
      BY <3>2, <3>4
    <3> QED BY <3>5 DEF a, b
  <2> DEFINE a == Cardinality(In(A))
             b == Cardinality(Of(x))
  <2>4. a \in Nat /\ b \in Nat /\ f[x] = b /\ SumOf(f, A) = a
    BY <1>0, <1>1, <2>1, FS_CardinalityType
  <2>5. SumOf(f, A \cup {x}) = b + a /\ Cardinality(In(A \cup {x})) = a + b
    BY <2>1, <2>2, <2>3, <2>4
  <2> HIDE DEF a, b
  <2>6. SumOf(f, A \cup {x}) = Cardinality(In(A \cup {x}))
    BY <2>4, <2>5
  <2> QED BY <2>6
<1>4. S \in T
  <2> HIDE DEF T
  <2>1. T \in SUBSET SUBSET S
    BY DEF T
  <2> QED BY <1>2, <1>3, <2>1, BySubsets
<1> QED BY <1>4

\* Elements in ascending order take f[x] numbers each, the first ones from 0 on:
\* the intervals lie one after the other, and every number below the sum is in
\* one.
LEMMA Slots ==
    ASSUME NEW f, NEW G \in SUBSET Int, IsFiniteSet(G), \A g \in G : f[g] \in Nat
    PROVE  LET from(g) == SumOf(f, {h \in G : h < g})
           IN  /\ \A g \in G : from(g) \in Nat /\ from(g) + f[g] <= SumOf(f, G)
               /\ \A g, h \in G : g < h => from(g) + f[g] <= from(h)
               /\ \A r \in Nat : r < SumOf(f, G) => \E g \in G : from(g) <= r /\ r < from(g) + f[g]
<1> DEFINE from(g) == SumOf(f, {h \in G : h < g})
           to(g) == SumOf(f, {h \in G : h < g} \cup {g})
<1>1. \A A \in SUBSET G : IsFiniteSet(A) /\ SumOf(f, A) \in Nat
  BY SumAdd, FS_Subset
<1>2. ASSUME NEW g \in G PROVE to(g) = f[g] + from(g) /\ from(g) \in Nat /\ to(g) \in Nat
  <2>1. g \in G \ {h \in G : h < g}
    OBVIOUS
  <2>2. to(g) = f[g] + from(g)
    BY <2>1, SumAdd
  <2>3. {h \in G : h < g} \cup {g} \in SUBSET G
    OBVIOUS
  <2> QED BY <1>1, <2>2, <2>3
<1>3. ASSUME NEW g \in G PROVE to(g) <= SumOf(f, G)
  <2>1. {h \in G : h < g} \cup {g} \in SUBSET G
    OBVIOUS
  <2> QED BY <2>1, SumOfPart
<1>4. ASSUME NEW g \in G, NEW h \in G, g < h PROVE to(g) <= from(h)
  <2> DEFINE B == {x \in G : x < h}
             A == {x \in G : x < g} \cup {g}
  <2>0. \A x \in G : x \in Int
    OBVIOUS
  <2>1. A \in SUBSET B
    <3>1. \A x \in G : x < g => x < h
      BY <1>4, <2>0
    <3> QED BY <1>4, <3>1
  <2>2. IsFiniteSet(B) /\ \A x \in B : f[x] \in Nat
    BY <1>1
  <2> HIDE DEF A, B
  <2>3. SumOf(f, A) <= SumOf(f, B)
    BY <2>1, <2>2, SumOfPart
  <2> QED BY <2>3 DEF A, B
<1>5. ASSUME NEW r \in Nat, r < SumOf(f, G) PROVE \E g \in G : from(g) <= r /\ r < to(g)
  <2>1. G # {}
    <3>1. SumOf(f, {}) = 0
      BY SumAdd
    <3> QED BY <1>5, <3>1
  <2>2. PICK a \in G : \A x \in G : a <= x
    BY <2>1, Lowest
  <2>3. from(a) = 0
    <3>1. \A x \in G : ~(x < a)
      <4> SUFFICES ASSUME NEW x \in G PROVE ~(x < a)
        OBVIOUS
      <4> QED BY <2>2
    <3>2. {h \in G : h < a} = {}
      BY <3>1
    <3> QED BY <3>2, SumAdd
  <2> DEFINE R == {g \in G : from(g) <= r}
  <2>4. R # {} /\ IsFiniteSet(R) /\ R \in SUBSET Int
    <3>1. from(a) <= r
      BY <2>3
    <3> HIDE DEF from
    <3>2. a \in R /\ R \in SUBSET G
      BY <3>1
    <3> HIDE DEF R
    <3> QED BY <3>2, FS_Subset
  <2> HIDE DEF R
  <2>5. PICK g \in R : \A x \in R : g >= x
    BY <2>4, Greatest
  <2>6. g \in G /\ from(g) <= r
    BY <2>5 DEF R
  <2>7. r < to(g)
    <3> SUFFICES ASSUME ~(r < to(g)) PROVE FALSE
      OBVIOUS
    <3>0. to(g) <= r
      BY <1>2, <2>6
    <3> DEFINE H == {h \in G : h > g}
    <3>1. \A x \in G : x \in Int
      OBVIOUS
    <3>2. CASE H = {}
      <4>0. \A x \in G : x < g \/ x = g
        <5> SUFFICES ASSUME NEW x \in G PROVE x < g \/ x = g
          OBVIOUS
        <5>1. ~(x > g)
          BY <3>2
        <5> QED BY <2>6, <3>1, <5>1
      <4>1. {h \in G : h < g} \cup {g} = G
        BY <2>6, <4>0
      <4>2. to(g) = SumOf(f, G) /\ SumOf(f, G) \in Nat
        BY <1>1, <4>1
      <4> QED BY <1>5, <3>0, <4>2
    <3>3. CASE H # {}
      <4>1. H \in SUBSET Int /\ IsFiniteSet(H)
        BY FS_Subset
      <4> HIDE DEF H
      <4>2. PICK b \in H : \A x \in H : b <= x
        BY <3>3, <4>1, Lowest
      <4>3. b \in G /\ b > g /\ \A x \in G : x > g => b <= x
        BY <4>2 DEF H
      <4>4. {h \in G : h < b} = {h \in G : h < g} \cup {g}
        <5>1. \A x \in G : x < b <=> x < g \/ x = g
          BY <2>6, <3>1, <4>3
        <5> QED BY <2>6, <5>1
      <4>5. from(b) = to(g)
        BY <4>4
      <4>6. b \in R
        BY <3>0, <4>3, <4>5 DEF R
      <4> QED BY <2>5, <2>6, <3>1, <4>3, <4>6
    <3> QED BY <3>2, <3>3
  <2> QED BY <2>6, <2>7
<1> HIDE DEF to
<1>6. ASSUME NEW g \in G PROVE from(g) + f[g] = to(g)
  BY <1>2
<1> HIDE DEF from
<1>7. /\ \A g \in G : from(g) \in Nat /\ from(g) + f[g] <= SumOf(f, G)
      /\ \A g, h \in G : g < h => from(g) + f[g] <= from(h)
      /\ \A r \in Nat : r < SumOf(f, G) => \E g \in G : from(g) <= r /\ r < from(g) + f[g]
  BY <1>2, <1>3, <1>4, <1>5, <1>6
<1> QED BY <1>7 DEF from

\* The members of a set that have fewer than k members before them.
LEMMA FirstMembers ==
    ASSUME NEW S \in SUBSET Int, IsFiniteSet(S), NEW k \in Nat
    PROVE  /\ \A s \in S : Cardinality({x \in S : x < s}) \in 0 .. Cardinality(S) - 1
           /\ Cardinality({s \in S : Cardinality({x \in S : x < s}) < k}) =
                  IF k <= Cardinality(S) THEN k ELSE Cardinality(S)
<1> DEFINE rank(s) == Cardinality({x \in S : x < s})
           First(n) == {s \in S : rank(s) < n}
<1>0. /\ \A A \in SUBSET S : IsFiniteSet(A) /\ Cardinality(A) \in Nat
      /\ \A s \in S : s \in Int
      /\ S \in SUBSET S
  BY FS_Subset, FS_CardinalityType
<1>1. ASSUME NEW s \in S, NEW t \in S, s < t PROVE rank(s) < rank(t)
  <2>1. {x \in S : x < s} \cup {s} \in SUBSET {x \in S : x < t} /\ s \notin {x \in S : x < s}
    <3>1. (\A x \in S : x < s => x < t) /\ ~(s < s)
      BY <1>0, <1>1
    <3> QED BY <1>1, <3>1
  <2>2. Cardinality({x \in S : x < s} \cup {s}) = rank(s) + 1
    BY <1>0, <2>1, FS_AddElement
  <2>3. IsFiniteSet({x \in S : x < t})
    BY <1>0
  <2>4. Cardinality({x \in S : x < s} \cup {s}) <= rank(t)
    BY <2>1, <2>3, FS_Subset
  <2> HIDE DEF rank
  <2>5. rank(s) \in Nat /\ rank(t) \in Nat
    BY <1>0 DEF rank
  <2> QED BY <2>2, <2>4, <2>5
<1>2. ASSUME NEW s \in S PROVE rank(s) \in Nat /\ rank(s) < Cardinality(S)
  <2>1. s \notin {x \in S : x < s} /\ {x \in S : x < s} \in SUBSET S
    BY <1>0
  <2>2. Cardinality({x \in S : x < s}) <= Cardinality(S) /\
        (Cardinality(S) = Cardinality({x \in S : x < s}) => S = {x \in S : x < s})
    BY <2>1, FS_Subset
  <2> HIDE DEF rank
  <2>3. rank(s) <= Cardinality(S) /\ rank(s) # Cardinality(S)
    BY <2>1, <2>2 DEF rank
  <2>4. rank(s) \in Nat /\ Cardinality(S) \in Nat
    BY <1>0 DEF rank
  <2> QED BY <2>3, <2>4
<1> HIDE DEF rank
<1> DEFINE T == {n \in Nat : n <= Cardinality(S) => Cardinality(First(n)) = n}
<1>3. 0 \in T
  <2>1. \A s \in S : ~(rank(s) < 0)
    BY <1>2
  <2>2. First(0) = {}
    BY <2>1
  <2>3. Cardinality(First(0)) = 0
    BY <2>2, FS_EmptySet
  <2> QED BY <2>3
<1>4. ASSUME NEW n \in T PROVE n + 1 \in T
  <2> SUFFICES ASSUME n + 1 <= Cardinality(S) PROVE Cardinality(First(n + 1)) = n + 1
    OBVIOUS
  <2>1. n \in Nat /\ n < Cardinality(S) /\ Cardinality(First(n)) = n
    BY <1>0
  <2>2. PICK g \in S : rank(g) = n
    BY <2>1, RankReached DEF rank
  <2>3. \A s \in S : rank(s) = n => s = g
    BY <1>0, <1>1, <1>2, <2>2
  <2>4. First(n + 1) = First(n) \cup {g} /\ g \notin First(n)
    <3>1. ASSUME NEW s \in S PROVE rank(s) < n + 1 <=> rank(s) < n \/ s = g
      BY <1>2, <2>1, <2>2, <2>3
    <3>2. ~(rank(g) < n)
      BY <2>1, <2>2
    <3> QED BY <3>1, <3>2
  <2>5. Cardinality(First(n) \cup {g}) = Cardinality(First(n)) + 1
    BY <1>0, <2>4, FS_AddElement
  <2> HIDE DEF First
  <2> QED BY <2>1, <2>4, <2>5
<1>5. T = Nat
  <2> HIDE DEF T
  <2>1. T \in SUBSET Nat
    BY DEF T
  <2> QED BY <1>3, <1>4, <2>1, AllNaturals
<1>6. CASE k <= Cardinality(S)
  <2>1. Cardinality(First(k)) = k
    BY <1>5, <1>6
  <2> QED BY <1>0, <1>2, <1>6, <2>1 DEF rank
<1>7. CASE ~(k <= Cardinality(S))
  <2>1. First(k) = S
    <3>1. ASSUME NEW s \in S PROVE rank(s) < k
      BY <1>0, <1>2, <1>7
    <3> QED BY <3>1
  <2>2. Cardinality(First(k)) = Cardinality(S)
    BY <2>1
  <2> QED BY <1>0, <1>2, <1>7, <2>2 DEF rank
<1> QED BY <1>6, <1>7
=============================================================================
