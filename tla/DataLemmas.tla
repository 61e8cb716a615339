----------------------------- MODULE DataLemmas -----------------------------
(***************************************************************************)
(* Facts about data that the proofs of several components rest on:         *)
(* induction over the numbers, the functions that recursion over an        *)
(* initial stretch of them defines, and what the folds of the community    *)
(* modules compute.                                                        *)
(*                                                                         *)
(* The induction theorems of the library take a predicate as parameter;    *)
(* here the predicate is the set of the numbers that satisfy it, and the   *)
(* function that a recursion applies is a function of the logic.           *)
(***************************************************************************)
EXTENDS Integers, Sequences, FiniteSets, FiniteSetsExt, SequencesExt, TLAPS,
        SequenceTheorems, FiniteSetTheorems, WellFoundedInduction

\* Every set of numbers that has a member has a least one.
LEMMA LeastOf ==
    ASSUME NEW S \in SUBSET Nat, S # {}
    PROVE  \E x \in S : \A y \in S : x <= y
  <1> DEFINE R == OpToRel(<, Nat)
  <1>1. \A x, y \in Nat : <<y, x>> \in R <=> y < x
    BY SMT DEF OpToRel
  <1>2. IsWellFoundedOn(R, Nat)
    BY NatLessThanWellFounded
  <1> HIDE DEF R
  <1>3. PICK x \in S : \A y \in S : ~ (<<y, x>> \in R)
    BY <1>2, WFMin
  <1>4. \A y \in S : ~ (y < x)
    BY <1>1, <1>3
  <1> QED
    BY <1>4

\* Induction: a set of numbers that holds 0 and with each number the next one
\* holds all of them; and the same up to a bound.
LEMMA Induct ==
    ASSUME NEW S \in SUBSET Nat, 0 \in S, \A k \in S : k + 1 \in S
    PROVE  S = Nat
  <1> SUFFICES ASSUME Nat \ S # {}
               PROVE  FALSE
    OBVIOUS
  <1>1. PICK x \in Nat \ S : \A y \in Nat \ S : x <= y
    BY LeastOf
  <1>2. x - 1 \in Nat /\ x - 1 \in S
    BY <1>1
  <1> QED
    BY <1>1, <1>2

LEMMA InductUpTo ==
    ASSUME NEW n \in Nat, NEW S \in SUBSET (0 .. n), 0 \in S,
           \A k \in S : k < n => k + 1 \in S
    PROVE  S = 0 .. n
  <1> DEFINE U == S \cup {k \in Nat : k > n}
  <1>1. U \in SUBSET Nat /\ 0 \in U
    <2>1. S \in SUBSET Nat
      OBVIOUS
    <2>2. 0 \in U
      OBVIOUS
    <2> QED
      BY <2>1, <2>2, Zenon
  <1>2. \A k \in U : k + 1 \in U
    <2>1. \A k \in U : k \in S \/ k > n
      OBVIOUS
    <2>2. \A k \in Nat : k > n => k + 1 \in U
      OBVIOUS
    <2>3. \A k \in S : k + 1 \in U
      OBVIOUS
    <2> QED
      BY <1>1, <2>1, <2>2, <2>3
  <1>3. U = Nat
    <2> HIDE DEF U
    <2> QED
      BY <1>1, <1>2, Induct
  <1>4. \A k \in 0 .. n : k \in S
    <2>1. \A k \in 0 .. n : k \in U
      BY <1>3
    <2> QED
      BY <2>1
  <1> QED
    BY <1>4

\* The largest number of a set, and of a stretch.
LEMMA MaxIs ==
    ASSUME NEW S \in SUBSET Int, NEW m \in S, \A x \in S : x <= m
    PROVE  Max(S) = m
  <1>1. \A x \in S : (\A y \in S : x >= y) => x = m
    OBVIOUS
  <1>2. \A y \in S : m >= y
    OBVIOUS
  <1> QED
    BY <1>1, <1>2 DEF Max

LEMMA MaxOfStretch ==
    ASSUME NEW k \in Nat, k > 0
    PROVE  Max(1 .. k) = k /\ (1 .. k) \ {k} = 1 .. k - 1
  <1>1. Max(1 .. k) = k
    <2>1. 1 .. k \in SUBSET Int /\ k \in 1 .. k /\ \A x \in 1 .. k : x <= k
      OBVIOUS
    <2> QED
      BY <2>1, MaxIs
  <1> QED
    BY <1>1

\* The largest member of a set of numbers up to n is a member.
LEMMA MaxFrom0 ==
    ASSUME NEW n \in Nat, NEW S \in SUBSET (0 .. n), S # {}
    PROVE  Max(S) \in S /\ \A x \in S : x <= Max(S)
  <1> DEFINE D == {n - x : x \in S}
  <1>1. D \in SUBSET Nat /\ D # {}
    <2>1. \A x \in S : n - x \in Nat
      OBVIOUS
    <2> QED
      BY <2>1, Zenon
  <1>2. PICK d \in D : \A y \in D : d <= y
    BY <1>1, LeastOf
  <1>3. PICK m \in S : d = n - m
    BY <1>2
  <1>4. \A x \in S : n - x \in D /\ x \in Int
    OBVIOUS
  <1>5. \A x \in S : x <= m
    BY <1>2, <1>3, <1>4
  <1>6. Max(S) = m
    BY <1>5, MaxIs
  <1> QED
    BY <1>5, <1>6

LEMMA MaxInSet ==
    ASSUME NEW n \in Nat, NEW S \in SUBSET (1 .. n), S # {}
    PROVE  Max(S) \in S /\ \A x \in S : x <= Max(S)
  <1>1. S \in SUBSET (0 .. n)
    OBVIOUS
  <1> QED
    BY <1>1, MaxFrom0

-----------------------------------------------------------------------------
\* What f does that starts with a value and applies G once for each number.
Recurs(f, n, T, base, G) ==
    /\ f \in [0 .. n -> T] /\ f[0] = base
    /\ \A k \in 1 .. n : f[k] = G[<<f[k - 1], k>>]

\* Such a recursion over 0 .. n has a solution.
LEMMA RecursionSolved ==
    ASSUME NEW n \in Nat, NEW T, NEW base \in T, NEW G \in [T \X (1 .. n) -> T]
    PROVE  \E f : Recurs(f, n, T, base, G)
  <1> DEFINE Solves(f, m) == f \in [0 .. m -> T] /\ f[0] = base
                             /\ \A k \in 1 .. m : f[k] = G[<<f[k - 1], k>>]
             S == {m \in 0 .. n : \E f : Solves(f, m)}
  <1>1. \E f : Solves(f, 0)
    <2>1. Solves([k \in 0 .. 0 |-> base], 0)
      OBVIOUS
    <2> QED
      BY <2>1
  <1>2. ASSUME NEW m \in 0 .. n, m < n, NEW f, Solves(f, m)
        PROVE  \E g : Solves(g, m + 1)
    <2> DEFINE g == [k \in 0 .. m + 1 |-> IF k <= m THEN f[k] ELSE G[<<f[m], m + 1>>]]
    <2>1. G[<<f[m], m + 1>>] \in T
      BY <1>2
    <2>2. g \in [0 .. m + 1 -> T] /\ g[0] = base
      BY <1>2, <2>1
    <2>3. ASSUME NEW k \in 1 .. m + 1
          PROVE  g[k] = G[<<g[k - 1], k>>]
      <3>1. CASE k <= m
        BY <1>2, <3>1
      <3>2. CASE k = m + 1
        BY <1>2, <3>2
      <3> QED
        BY <3>1, <3>2
    <2> QED
      BY <2>2, <2>3
  <1> HIDE DEF Solves
  <1>3. 0 \in S /\ S \in SUBSET (0 .. n) /\ \A m \in S : m < n => m + 1 \in S
    BY <1>1, <1>2
  <1> HIDE DEF S
  <1>4. n \in S
    BY <1>3, InductUpTo
  <1> QED
    BY <1>4 DEF S, Solves, Recurs

\* The recursion by which a fold walks over the subsets of 1 .. n, the largest
\* member last.
FoldsBy(f, n, T, base, G) ==
    /\ f \in [SUBSET (1 .. n) -> T]
    /\ \A s \in SUBSET (1 .. n) :
         f[s] = IF s = {} THEN base ELSE G[<<f[s \ {Max(s)}], Max(s)>>]

\* It has a solution too.
LEMMA FoldSolved ==
    ASSUME NEW n \in Nat, NEW T, NEW base \in T, NEW G \in [T \X (1 .. n) -> T]
    PROVE  \E f : FoldsBy(f, n, T, base, G)
  <1> DEFINE Solves(f, m) == f \in [SUBSET (1 .. m) -> T]
                             /\ \A s \in SUBSET (1 .. m) :
                                  f[s] = IF s = {} THEN base ELSE G[<<f[s \ {Max(s)}], Max(s)>>]
             S == {m \in 0 .. n : \E f : Solves(f, m)}
  <1>1. \E f : Solves(f, 0)
    <2>1. Solves([s \in SUBSET (1 .. 0) |-> base], 0)
      OBVIOUS
    <2> QED
      BY <2>1, Zenon
  <1>2. ASSUME NEW m \in 0 .. n, m < n, NEW f, Solves(f, m)
        PROVE  \E g : Solves(g, m + 1)
    <2> DEFINE g == [s \in SUBSET (1 .. m + 1) |->
                       IF m + 1 \in s THEN G[<<f[s \ {m + 1}], m + 1>>] ELSE f[s]]
    <2>1. ASSUME NEW s \in SUBSET (1 .. m + 1), m + 1 \in s
          PROVE  /\ Max(s) = m + 1 /\ s # {}
                 /\ s \ {m + 1} \in SUBSET (1 .. m + 1) /\ m + 1 \notin s \ {m + 1}
                 /\ G[<<f[s \ {m + 1}], m + 1>>] \in T
      <3>1. s \ {m + 1} \in SUBSET (1 .. m) /\ s \in SUBSET Int /\ \A x \in s : x <= m + 1
        OBVIOUS
      <3>2. Max(s) = m + 1
        BY <2>1, <3>1, MaxIs
      <3>3. f[s \ {m + 1}] \in T
        BY <1>2, <3>1
      <3>4. G[<<f[s \ {m + 1}], m + 1>>] \in T
        BY <1>2, <3>3
      <3> QED
        BY <2>1, <3>1, <3>2, <3>4
    <2>2. ASSUME NEW s \in SUBSET (1 .. m + 1), m + 1 \notin s
          PROVE  /\ s \in SUBSET (1 .. m) /\ f[s] \in T
                 /\ m + 1 \notin s \ {Max(s)} /\ s \ {Max(s)} \in SUBSET (1 .. m + 1)
      <3>1. s \in SUBSET (1 .. m)
        BY <2>2
      <3> QED
        BY <1>2, <2>2, <3>1
    <2>3. \A s \in SUBSET (1 .. m + 1) :
            g[s] = IF m + 1 \in s THEN G[<<f[s \ {m + 1}], m + 1>>] ELSE f[s]
      BY Zenon
    <2>4. g \in [SUBSET (1 .. m + 1) -> T]
      <3>1. \A s \in SUBSET (1 .. m + 1) :
              (IF m + 1 \in s THEN G[<<f[s \ {m + 1}], m + 1>>] ELSE f[s]) \in T
        BY <2>1, <2>2
      <3> QED
        BY <3>1, Zenon
    <2> HIDE DEF g
    <2>5. ASSUME NEW s \in SUBSET (1 .. m + 1)
          PROVE  g[s] = IF s = {} THEN base ELSE G[<<g[s \ {Max(s)}], Max(s)>>]
      <3>1. CASE m + 1 \in s
        <4>1. g[s \ {m + 1}] = f[s \ {m + 1}]
          BY <2>1, <2>3, <3>1, Zenon
        <4> QED
          BY <2>1, <2>3, <3>1, <4>1, Zenon
      <3>2. CASE m + 1 \notin s
        <4>1. g[s \ {Max(s)}] = f[s \ {Max(s)}]
          BY <2>2, <2>3, <3>2, Zenon
        <4>2. f[s] = IF s = {} THEN base ELSE G[<<f[s \ {Max(s)}], Max(s)>>]
          BY <1>2, <2>2, <3>2, Zenon
        <4> QED
          BY <2>3, <3>2, <4>1, <4>2, Zenon
      <3> QED
        BY <3>1, <3>2
    <2>6. Solves(g, m + 1)
      BY <2>4, <2>5, Zenon
    <2> QED
      BY <2>6, Zenon
  <1> HIDE DEF Solves
  <1>3. 0 \in S /\ S \in SUBSET (0 .. n) /\ \A m \in S : m < n => m + 1 \in S
    BY <1>1, <1>2
  <1> HIDE DEF S
  <1>4. n \in S
    BY <1>3, InductUpTo
  <1> QED
    BY <1>4 DEF S, Solves, FoldsBy

-----------------------------------------------------------------------------
\* A longer beginning of a sequence is a shorter one and the next element.
LEMMA NextPrefix ==
    ASSUME NEW T, NEW s \in Seq(T), NEW k \in Nat, k < Len(s)
    PROVE  /\ SubSeq(s, 1, k) \in Seq(T) /\ Len(SubSeq(s, 1, k)) = k
           /\ SubSeq(s, 1, k + 1) = Append(SubSeq(s, 1, k), s[k + 1]) /\ s[k + 1] \in T
  <1>1. \A i \in 1 .. Len(s) : s[i] \in T
    BY ElementOfSeq
  <1>2. Len(s) \in Nat
    BY LenProperties
  <1>3. SubSeq(s, 1, k) \in Seq(T) /\ Len(SubSeq(s, 1, k)) = k /\ s[k + 1] \in T
    BY <1>1, <1>2, SubSeqProperties
  <1>4. SubSeq(s, 1, k + 1) = SubSeq(s, 1, k) \o <<s[k + 1]>>
    BY <1>2, SubSeqRecursiveSecond
  <1> QED
    BY <1>3, <1>4, AppendIsConcat

\* Two sequences back to back: cutting within the first, and the second.
LEMMA FirstOfConcat ==
    ASSUME NEW T, NEW s \in Seq(T), NEW t \in Seq(T), NEW m \in Nat, NEW n \in Nat, n <= Len(s)
    PROVE  SubSeq(s \o t, m + 1, n) = SubSeq(s, m + 1, n)
  <1>1. CASE m + 1 > n
    BY <1>1, SubSeqEmpty
  <1>2. CASE m + 1 <= n
    BY <1>2, SubSeqOfConcat1
  <1> QED
    BY <1>1, <1>2

LEMMA LastOfConcat ==
    ASSUME NEW T, NEW s \in Seq(T), NEW t \in Seq(T)
    PROVE  SubSeq(s \o t, Len(s) + 1, Len(s) + Len(t)) = t
  <1>1. CASE Len(t) = 0
    <2>1. t = <<>>
      BY <1>1, EmptySeq
    <2> QED
      BY <1>1, <2>1, SubSeqEmpty
  <1>2. CASE Len(t) > 0
    <2>1. SubSeq(s \o t, Len(s) + 1, Len(s) + Len(t)) = SubSeq(t, 1, Len(t))
      BY <1>2, SubSeqOfConcat2
    <2> QED
      BY <2>1, SubSeqFull
  <1> QED
    BY <1>1, <1>2

\* What a recursion goes through stays where its steps keep it.
LEMMA StaysIn ==
    ASSUME NEW n \in Nat, NEW T, NEW f, f[0] \in T, \A k \in 1 .. n : f[k - 1] \in T => f[k] \in T
    PROVE  f[n] \in T
  <1> DEFINE S == {k \in 0 .. n : f[k] \in T}
  <1>1. S \in SUBSET (0 .. n) /\ 0 \in S
    OBVIOUS
  <1>2. \A k \in S : k < n => k + 1 \in S
    <2> SUFFICES ASSUME NEW k \in S, k < n
                 PROVE  k + 1 \in S
      OBVIOUS
    <2>1. k + 1 \in 1 .. n /\ k + 1 - 1 = k
      OBVIOUS
    <2> QED
      BY <2>1
  <1>3. S = 0 .. n
    <2> HIDE DEF S
    <2> QED
      BY <1>1, <1>2, InductUpTo
  <1> QED
    BY <1>3

-----------------------------------------------------------------------------
\* Induction over finite sets by their number of members: what is said of the
\* sets up to size k, for every k, is said of them all.
Chosen(s) == CHOOSE x \in s : TRUE

\* A sum over each subset of S, one chosen member at a time: the recursion of
\* MapThenSumSet.
AddsUp(g, S, w) ==
    /\ g \in [SUBSET S -> Nat]
    /\ \A s \in SUBSET S : g[s] = IF s = {} THEN 0 ELSE w[Chosen(s)] + g[s \ {Chosen(s)}]

LEMMA ChosenIs ==
    ASSUME NEW S, NEW s \in SUBSET S, s # {}, IsFiniteSet(S)
    PROVE  /\ Chosen(s) \in s /\ Chosen(s) \in S /\ s \ {Chosen(s)} \in SUBSET S
           /\ Cardinality(s) \in Nat /\ Cardinality(s) > 0
           /\ Cardinality(s \ {Chosen(s)}) = Cardinality(s) - 1
  <1>1. Chosen(s) \in s
    BY DEF Chosen
  <1>2. IsFiniteSet(s)
    BY FS_Subset
  <1>3. Cardinality(s) \in Nat /\ Cardinality(s) # 0
    BY <1>2, FS_CardinalityType, FS_EmptySet
  <1>4. Cardinality(s \ {Chosen(s)}) = Cardinality(s) - 1
    BY <1>1, <1>2, FS_RemoveElement
  <1> QED
    BY <1>1, <1>3, <1>4

LEMMA SubsetCard ==
    ASSUME NEW S, IsFiniteSet(S), NEW s \in SUBSET S
    PROVE  IsFiniteSet(s) /\ Cardinality(s) \in Nat /\ Cardinality(s) <= Cardinality(S)
           /\ (Cardinality(s) = 0 <=> s = {})
  <1>1. IsFiniteSet(s) /\ Cardinality(s) <= Cardinality(S)
    BY FS_Subset
  <1> QED
    BY <1>1, FS_CardinalityType, FS_EmptySet

\* What a fold over a set computes: the value for a set from that for the set
\* without the member FoldSet takes of it.
SetFolds(g, S, T, base, G) ==
    /\ g \in [SUBSET S -> T]
    /\ \A s \in SUBSET S : g[s] = IF s = {} THEN base ELSE G[<<g[s \ {Chosen(s)}], Chosen(s)>>]

\* There is such a value for every finite set.
LEMMA SetFoldSolved ==
    ASSUME NEW S, IsFiniteSet(S), NEW T, NEW base \in T, NEW G \in [T \X S -> T]
    PROVE  \E g : SetFolds(g, S, T, base, G)
  <1> DEFINE Small(k) == {s \in SUBSET S : Cardinality(s) <= k}
             Folded(g, k) == /\ g \in [Small(k) -> T]
                           /\ \A s \in Small(k) :
                                g[s] = IF s = {} THEN base ELSE G[<<g[s \ {Chosen(s)}], Chosen(s)>>]
             K == {k \in Nat : \E g : Folded(g, k)}
  <1>0. \A s \in SUBSET S : Cardinality(s) \in Nat /\ (Cardinality(s) = 0 <=> s = {})
    BY SubsetCard
  <1>1. 0 \in K
    <2> DEFINE g == [s \in Small(0) |-> base]
    <2>1. \A s \in Small(0) : s = {}
      BY <1>0
    <2>2. g \in [Small(0) -> T] /\ \A s \in Small(0) : g[s] = base
      OBVIOUS
    <2>3. Folded(g, 0)
      BY <2>1, <2>2
    <2> QED
      BY <2>3
  <1>2. ASSUME NEW k \in K
        PROVE  k + 1 \in K
    <2>1. PICK g : Folded(g, k)
      OBVIOUS
    <2> DEFINE h == [s \in Small(k + 1) |-> IF Cardinality(s) <= k THEN g[s]
                                            ELSE G[<<g[s \ {Chosen(s)}], Chosen(s)>>]]
    <2>2. ASSUME NEW s \in Small(k + 1), s # {}
          PROVE  /\ s \ {Chosen(s)} \in Small(k) /\ s \ {Chosen(s)} \in Small(k + 1)
                 /\ Cardinality(s \ {Chosen(s)}) <= k /\ Chosen(s) \in S
                 /\ Cardinality(s) \in Nat
      <3> DEFINE t == s \ {Chosen(s)}
      <3>1. s \in SUBSET S /\ Cardinality(s) <= k + 1 /\ k \in Nat
        OBVIOUS
      <3>2. /\ Chosen(s) \in s /\ t \in SUBSET S /\ Cardinality(s) \in Nat
            /\ Cardinality(t) \in Nat /\ Cardinality(s) = Cardinality(t) + 1
        <4> HIDE DEF Small, K
        <4>1. /\ Chosen(s) \in s /\ s \ {Chosen(s)} \in SUBSET S
              /\ Cardinality(s) \in Nat /\ Cardinality(s) > 0
              /\ Cardinality(s \ {Chosen(s)}) = Cardinality(s) - 1
          BY <2>2, <3>1, ChosenIs, Zenon
        <4> QED
          BY <4>1
      <3> HIDE DEF t
      <3>3. Cardinality(t) <= k /\ Cardinality(t) <= k + 1 /\ Chosen(s) \in S
        BY <3>1, <3>2
      <3> QED
        BY <3>2, <3>3 DEF t
    <2>3. ASSUME NEW s \in Small(k + 1), Cardinality(s) <= k
          PROVE  s \in Small(k)
      BY <2>3
    <2>4. ASSUME NEW s \in Small(k + 1)
          PROVE  (IF Cardinality(s) <= k THEN g[s] ELSE G[<<g[s \ {Chosen(s)}], Chosen(s)>>]) \in T
      <3>1. CASE Cardinality(s) <= k
        <4>1. g[s] \in T
          BY <2>1, <2>3, <3>1
        <4> QED
          BY <3>1, <4>1
      <3>2. CASE ~(Cardinality(s) <= k)
        <4>1. s # {}
          BY <1>0, <3>2
        <4>2. Chosen(s) \in S /\ g[s \ {Chosen(s)}] \in T
          BY <2>1, <2>2, <4>1
        <4>3. G[<<g[s \ {Chosen(s)}], Chosen(s)>>] \in T
          BY <4>2
        <4> QED
          BY <3>2, <4>3
      <3> QED
        BY <3>1, <3>2
    <2>5. h \in [Small(k + 1) -> T]
      BY <2>4, Zenon
    <2>6. \A s \in Small(k + 1) : h[s] = IF Cardinality(s) <= k THEN g[s]
                                         ELSE G[<<g[s \ {Chosen(s)}], Chosen(s)>>]
      BY Zenon
    <2> HIDE DEF h
    <2>7. ASSUME NEW s \in Small(k + 1)
          PROVE  h[s] = IF s = {} THEN base ELSE G[<<h[s \ {Chosen(s)}], Chosen(s)>>]
      <3>1. CASE Cardinality(s) <= k
        <4>1. h[s] = g[s] /\ g[s] = IF s = {} THEN base ELSE G[<<g[s \ {Chosen(s)}], Chosen(s)>>]
          BY <2>1, <2>3, <2>6, <3>1, Zenon
        <4>2. s # {} => h[s \ {Chosen(s)}] = g[s \ {Chosen(s)}]
          BY <2>2, <2>6, Zenon
        <4> QED
          BY <4>1, <4>2, Zenon
      <3>2. CASE ~(Cardinality(s) <= k)
        <4>1. s # {}
          BY <1>0, <3>2
        <4>2. h[s] = G[<<g[s \ {Chosen(s)}], Chosen(s)>>]
          BY <2>6, <3>2, Zenon
        <4>3. h[s \ {Chosen(s)}] = g[s \ {Chosen(s)}]
          BY <2>2, <2>6, <4>1, Zenon
        <4> QED
          BY <4>1, <4>2, <4>3, Zenon
      <3> QED
        BY <3>1, <3>2
    <2>8. Folded(h, k + 1)
      BY <2>5, <2>7, Zenon
    <2>9. k + 1 \in Nat
      OBVIOUS
    <2> HIDE DEF Folded
    <2> QED
      BY <2>8, <2>9
  <1>3. K = Nat
    <2>1. K \in SUBSET Nat
      OBVIOUS
    <2> HIDE DEF K
    <2> QED
      BY <1>1, <1>2, <2>1, Induct
  <1>4. Cardinality(S) \in K
    BY <1>3, FS_CardinalityType
  <1>5. PICK g : Folded(g, Cardinality(S))
    BY <1>4
  <1>6. Small(Cardinality(S)) = SUBSET S
    BY SubsetCard
  <1>7. SetFolds(g, S, T, base, G)
    BY <1>5, <1>6 DEF SetFolds
  <1> QED
    BY <1>7

\* So a sum exists for every finite set.
LEMMA SumsExist ==
    ASSUME NEW S, IsFiniteSet(S), NEW w \in [S -> Nat]
    PROVE  \E g : AddsUp(g, S, w)
  <1> DEFINE G == [p \in Nat \X S |-> w[p[2]] + p[1]]
  <1>1. G \in [Nat \X S -> Nat]
    OBVIOUS
  <1>2. PICK g : SetFolds(g, S, Nat, 0, G)
    <2> HIDE DEF G
    <2> QED
      BY <1>1, SetFoldSolved
  <1>3. ASSUME NEW s \in SUBSET S, s # {}
        PROVE  G[<<g[s \ {Chosen(s)}], Chosen(s)>>] = w[Chosen(s)] + g[s \ {Chosen(s)}]
    <2>1. Chosen(s) \in S /\ s \ {Chosen(s)} \in SUBSET S
      BY <1>3, ChosenIs
    <2>2. g[s \ {Chosen(s)}] \in Nat
      BY <1>2, <2>1 DEF SetFolds
    <2> QED
      BY <2>1, <2>2
  <1> HIDE DEF G
  <1> QED
    BY <1>2, <1>3 DEF SetFolds, AddsUp

\* Induction over the subsets of a finite set: the set of those a fact holds of
\* has the empty one, and each one whose smaller ones it has.
LEMMA SubsetInduct ==
    ASSUME NEW S, IsFiniteSet(S), NEW P,
           \A s \in SUBSET S :
             (\A t \in SUBSET S : Cardinality(t) < Cardinality(s) => t \in P) => s \in P
    PROVE  \A s \in SUBSET S : s \in P
  <1> SUFFICES ASSUME NEW u \in SUBSET S, u \notin P
               PROVE  FALSE
    OBVIOUS
  <1> DEFINE N == {Cardinality(s) : s \in (SUBSET S) \ P}
  <1>1. \A s \in SUBSET S : Cardinality(s) \in Nat
    BY SubsetCard
  <1>2. N \in SUBSET Nat /\ N # {}
    BY <1>1
  <1>3. PICK n \in N : \A m \in N : n <= m
    BY <1>2, LeastOf
  <1>4. PICK s \in (SUBSET S) \ P : n = Cardinality(s)
    OBVIOUS
  <1>5. \A t \in SUBSET S : Cardinality(t) < Cardinality(s) => t \in P
    <2> SUFFICES ASSUME NEW t \in SUBSET S, Cardinality(t) < Cardinality(s), t \notin P
                 PROVE  FALSE
      OBVIOUS
    <2>1. Cardinality(t) \in N /\ Cardinality(t) \in Nat /\ n \in Nat
      BY <1>1, <1>4
    <2> QED
      BY <1>3, <1>4, <2>1
  <1> QED
    BY <1>4, <1>5

\* The recursion of MapThenSumSet computes the sum.
AddsTo(it, S, w) ==
    \A s \in SUBSET S : it[s] = IF s = {} THEN 0 ELSE w[Chosen(s)] + it[s \ {Chosen(s)}]

LEMMA SumIs ==
    ASSUME NEW S, IsFiniteSet(S), NEW w, NEW g, AddsUp(g, S, w), NEW it, AddsTo(it, S, w)
    PROVE  it[S] = g[S]
  <1> DEFINE P == {s \in SUBSET S : it[s] = g[s]}
  <1>1. ASSUME NEW s \in SUBSET S, \A t \in SUBSET S : Cardinality(t) < Cardinality(s) => t \in P
        PROVE  s \in P
    <2>1. it[s] = IF s = {} THEN 0 ELSE w[Chosen(s)] + it[s \ {Chosen(s)}]
      BY Zenon DEF AddsTo
    <2>2. g[s] = IF s = {} THEN 0 ELSE w[Chosen(s)] + g[s \ {Chosen(s)}]
      BY Zenon DEF AddsUp
    <2>3. ASSUME s # {}
          PROVE  s \ {Chosen(s)} \in P
      <3>1. /\ s \ {Chosen(s)} \in SUBSET S /\ Cardinality(s) \in Nat
            /\ Cardinality(s \ {Chosen(s)}) = Cardinality(s) - 1
        BY <2>3, ChosenIs
      <3>2. Cardinality(s \ {Chosen(s)}) < Cardinality(s)
        BY <3>1
      <3> HIDE DEF P
      <3> QED
        BY <1>1, <3>1, <3>2
    <2> QED
      BY <2>1, <2>2, <2>3, Zenon
  <1> HIDE DEF P
  <1>2. S \in P
    BY <1>1, SubsetInduct
  <1> QED
    BY <1>2 DEF P

\* Whichever member is taken first, the sum is the same.
LEMMA SumTakes ==
    ASSUME NEW S, IsFiniteSet(S), NEW w \in [S -> Nat], NEW g, AddsUp(g, S, w)
    PROVE  \A s \in SUBSET S : \A x \in s : g[s] = w[x] + g[s \ {x}]
  <1> DEFINE P == {s \in SUBSET S : \A x \in s : g[s] = w[x] + g[s \ {x}]}
  <1>0. \A s \in SUBSET S : g[s] \in Nat
    BY DEF AddsUp
  <1>1. ASSUME NEW s \in SUBSET S, \A t \in SUBSET S : Cardinality(t) < Cardinality(s) => t \in P
        PROVE  s \in P
    <2> SUFFICES ASSUME NEW x \in s
                 PROVE  g[s] = w[x] + g[s \ {x}]
      OBVIOUS
    <2> DEFINE c == Chosen(s)
    <2>1. s # {} /\ c \in s /\ Cardinality(s) \in Nat /\ IsFiniteSet(s)
      BY ChosenIs, SubsetCard
    <2>2. g[s] = w[c] + g[s \ {c}]
      BY <2>1, Zenon DEF AddsUp
    <2> HIDE DEF c
    <2>3. CASE x = c
      BY <2>2, <2>3
    <2>4. CASE x # c
      <3>1. s \ {c} \in SUBSET S /\ s \ {x} \in SUBSET S /\ s \ {c, x} \in SUBSET S
            /\ (s \ {c}) \ {x} = s \ {c, x} /\ (s \ {x}) \ {c} = s \ {c, x}
            /\ x \in s \ {c} /\ c \in s \ {x} /\ c \in S /\ x \in S
        BY <2>1, <2>4
      <3>2. Cardinality(s \ {c}) = Cardinality(s) - 1 /\ Cardinality(s \ {x}) = Cardinality(s) - 1
        BY <2>1, FS_RemoveElement
      <3>3. s \ {c} \in P /\ s \ {x} \in P
        BY <1>1, <2>1, <3>1, <3>2
      <3>4. g[s \ {c}] = w[x] + g[s \ {c, x}] /\ g[s \ {x}] = w[c] + g[s \ {c, x}]
        BY <3>1, <3>3
      <3>5. g[s \ {c, x}] \in Nat /\ w[c] \in Nat /\ w[x] \in Nat
        BY <1>0, <3>1
      <3> QED
        BY <2>2, <3>4, <3>5
    <2> QED
      BY <2>3, <2>4
  <1> HIDE DEF P
  <1>2. \A s \in SUBSET S : s \in P
    BY <1>1, SubsetInduct
  <1> QED
    BY <1>2 DEF P

\* A part sums up to no more than the whole.
LEMMA SumOfPart ==
    ASSUME NEW S, IsFiniteSet(S), NEW w \in [S -> Nat], NEW g, AddsUp(g, S, w),
           NEW t \in SUBSET S
    PROVE  g[t] <= g[S]
  <1> DEFINE P == {s \in SUBSET S : t \subseteq s => g[t] <= g[s]}
  <1>0. \A s \in SUBSET S : g[s] \in Nat
    BY DEF AddsUp
  <1>1. ASSUME NEW s \in SUBSET S, \A u \in SUBSET S : Cardinality(u) < Cardinality(s) => u \in P
        PROVE  s \in P
    <2> SUFFICES ASSUME t \subseteq s, t # s
                 PROVE  g[t] <= g[s]
      BY <1>0
    <2>1. PICK x \in s : x \notin t
      OBVIOUS
    <2>2. s \ {x} \in SUBSET S /\ t \subseteq s \ {x} /\ IsFiniteSet(s) /\ Cardinality(s) \in Nat
      BY <2>1, SubsetCard
    <2>3. Cardinality(s \ {x}) = Cardinality(s) - 1
      BY <2>2, FS_RemoveElement
    <2>4. g[t] <= g[s \ {x}]
      BY <1>1, <2>2, <2>3
    <2>5. g[s] = w[x] + g[s \ {x}]
      BY SumTakes
    <2>6. w[x] \in Nat
      OBVIOUS
    <2> QED
      BY <1>0, <2>2, <2>4, <2>5, <2>6
  <1> HIDE DEF P
  <1>2. S \in P
    BY <1>1, SubsetInduct
  <1> QED
    BY <1>2 DEF P

\* The sum over a part is the one its own recursion computes.
LEMMA SumWithin ==
    ASSUME NEW S, NEW w \in [S -> Nat], NEW g, AddsUp(g, S, w), NEW t \in SUBSET S
    PROVE  AddsUp([s \in SUBSET t |-> g[s]], t, [x \in t |-> w[x]])
  <1> DEFINE h == [s \in SUBSET t |-> g[s]]
             v == [x \in t |-> w[x]]
  <1>1. \A s \in SUBSET t : s \in SUBSET S
    OBVIOUS
  <1>2. h \in [SUBSET t -> Nat]
    BY <1>1 DEF AddsUp
  <1>3. ASSUME NEW s \in SUBSET t
        PROVE  h[s] = IF s = {} THEN 0 ELSE v[Chosen(s)] + h[s \ {Chosen(s)}]
    <2>1. g[s] = IF s = {} THEN 0 ELSE w[Chosen(s)] + g[s \ {Chosen(s)}]
      BY <1>1, Zenon DEF AddsUp
    <2>2. s # {} => Chosen(s) \in t /\ s \ {Chosen(s)} \in SUBSET t
      BY DEF Chosen
    <2>3. h[s] = g[s] /\ (s # {} => h[s \ {Chosen(s)}] = g[s \ {Chosen(s)}] /\ v[Chosen(s)] = w[Chosen(s)])
      BY <2>2, Zenon
    <2> QED
      BY <2>1, <2>3, Zenon
  <1> QED
    BY <1>2, <1>3, Zenon DEF AddsUp

\* The sum over two sets apart is the sum of their sums.
LEMMA SumJoins ==
    ASSUME NEW S, IsFiniteSet(S), NEW w \in [S -> Nat], NEW g, AddsUp(g, S, w),
           NEW A \in SUBSET S, NEW B \in SUBSET S, A \cap B = {}
    PROVE  g[A \cup B] = g[A] + g[B]
  <1>a. ASSUME NEW u \in SUBSET S, NEW y \in u
        PROVE  g[u] = w[y] + g[u \ {y}]
    BY SumTakes
  <1> DEFINE P == {s \in SUBSET S : s \cap B = {} => g[s \cup B] = g[s] + g[B]}
  <1>0. (\A s \in SUBSET S : g[s] \in Nat) /\ g[{}] = 0
    BY DEF AddsUp
  <1>1. ASSUME NEW s \in SUBSET S, \A u \in SUBSET S : Cardinality(u) < Cardinality(s) => u \in P
        PROVE  s \in P
    <2> SUFFICES ASSUME s \cap B = {}
                 PROVE  g[s \cup B] = g[s] + g[B]
      OBVIOUS
    <2>1. CASE s = {}
      <3>1. s \cup B = B
        BY <2>1
      <3> QED
        BY <1>0, <2>1, <3>1
    <2>2. CASE s # {}
      <3>1. PICK x \in s : TRUE
        BY <2>2
      <3> DEFINE t == s \ {x}
      <3>2. t \in SUBSET S /\ Cardinality(t) < Cardinality(s)
        <4>1. IsFiniteSet(s) /\ Cardinality(s) \in Nat
          BY SubsetCard
        <4>2. Cardinality(t) = Cardinality(s) - 1
          BY <4>1, FS_RemoveElement
        <4> QED
          BY <4>1, <4>2
      <3>3. t \in P
        <4> HIDE DEF P, t
        <4> QED
          BY <1>1, <3>2
      <3>4. t \cap B = {} /\ (s \cup B) \ {x} = t \cup B /\ x \in S /\ w[x] \in Nat
            /\ s \cup B \in SUBSET S /\ t \cup B \in SUBSET S
        OBVIOUS
      <3>5. g[t \cup B] = g[t] + g[B]
        BY <3>3, <3>4
      <3>6. g[s] = w[x] + g[t] /\ g[s \cup B] = w[x] + g[t \cup B]
        <4>2. g[s] = w[x] + g[t]
          BY <1>a
        <4>3. g[s \cup B] = w[x] + g[(s \cup B) \ {x}]
          BY <1>a, <3>4
        <4> QED
          BY <3>4, <4>2, <4>3
      <3> HIDE DEF t
      <3>7. g[t] \in Nat /\ g[B] \in Nat
        BY <1>0, <3>2
      <3> QED
        BY <3>4, <3>5, <3>6, <3>7
    <2> QED
      BY <2>1, <2>2
  <1> HIDE DEF P
  <1>2. A \in P
    BY <1>1, SubsetInduct
  <1> QED
    BY <1>2 DEF P

\* The sum over a set rests on the weights of its members.
LEMMA SumAgrees ==
    ASSUME NEW S, IsFiniteSet(S), NEW w \in [S -> Nat], NEW g, AddsUp(g, S, w),
           NEW v \in [S -> Nat], NEW h, AddsUp(h, S, v),
           NEW A \in SUBSET S, \A x \in A : v[x] = w[x]
    PROVE  h[A] = g[A]
  <1>a. ASSUME NEW u \in SUBSET S, NEW y \in u
        PROVE  g[u] = w[y] + g[u \ {y}]
    BY SumTakes
  <1>b. ASSUME NEW u \in SUBSET S, NEW y \in u
        PROVE  h[u] = v[y] + h[u \ {y}]
    BY SumTakes
  <1> DEFINE P == {s \in SUBSET S : s \subseteq A => h[s] = g[s]}
  <1>1. ASSUME NEW s \in SUBSET S, \A u \in SUBSET S : Cardinality(u) < Cardinality(s) => u \in P
        PROVE  s \in P
    <2> SUFFICES ASSUME s \subseteq A
                 PROVE  h[s] = g[s]
      OBVIOUS
    <2>1. CASE s = {}
      BY <2>1 DEF AddsUp
    <2>2. CASE s # {}
      <3>1. PICK x \in s : TRUE
        BY <2>2
      <3> DEFINE t == s \ {x}
      <3>2. t \in SUBSET S /\ Cardinality(t) < Cardinality(s) /\ t \subseteq A
        <4>1. IsFiniteSet(s) /\ Cardinality(s) \in Nat
          BY SubsetCard
        <4>2. Cardinality(t) = Cardinality(s) - 1
          BY <4>1, FS_RemoveElement
        <4> QED
          BY <4>1, <4>2
      <3>3. t \in P
        <4> HIDE DEF P, t
        <4> QED
          BY <1>1, <3>2
      <3>4. g[s] = w[x] + g[t] /\ h[s] = v[x] + h[t]
        BY <1>a, <1>b
      <3> QED
        BY <3>2, <3>3, <3>4
    <2> QED
      BY <2>1, <2>2
  <1> HIDE DEF P
  <1>2. A \in P
    BY <1>1, SubsetInduct
  <1> QED
    BY <1>2 DEF P

\* The sum over sets apart, one for each member of an index set, is the sum of
\* their sums.
Apartly(F, J, S) ==
    /\ F \in [J -> SUBSET S]
    /\ \A x, y \in J : x # y => F[x] \cap F[y] = {}

LEMMA SumFamily ==
    ASSUME NEW S, IsFiniteSet(S), NEW w \in [S -> Nat], NEW g, AddsUp(g, S, w),
           NEW J \in SUBSET S, NEW F, Apartly(F, J, S),
           NEW v \in [S -> Nat], NEW h, AddsUp(h, S, v), \A x \in J : v[x] = g[F[x]]
    PROVE  h[J] = g[UNION {F[x] : x \in J}]
  <1> DEFINE U(s) == UNION {F[x] : x \in s}
             P == {s \in SUBSET S : s \subseteq J => h[s] = g[U(s)]}
  <1>0. h[{}] = 0 /\ g[{}] = 0 /\ U({}) = {}
    BY DEF AddsUp
  <1>a. ASSUME NEW A \in SUBSET S, NEW B \in SUBSET S, A \cap B = {}
        PROVE  g[A \cup B] = g[A] + g[B]
    BY <1>a, SumJoins
  <1>1. ASSUME NEW s \in SUBSET S, \A u \in SUBSET S : Cardinality(u) < Cardinality(s) => u \in P
        PROVE  s \in P
    <2> SUFFICES ASSUME s \subseteq J
                 PROVE  h[s] = g[U(s)]
      OBVIOUS
    <2>1. CASE s = {}
      BY <1>0, <2>1
    <2>2. CASE s # {}
      <3> DEFINE x == Chosen(s)
                 t == s \ {x}
      <3>1. /\ x \in s /\ x \in S /\ t \in SUBSET S
            /\ Cardinality(s) \in Nat /\ Cardinality(t) = Cardinality(s) - 1
        BY <2>2, ChosenIs
      <3>2. h[s] = v[x] + h[t]
        BY <2>2, Zenon DEF AddsUp
      <3> HIDE DEF x
      <3>3. h[t] = g[U(t)]
        <4>1. t \in P
          <5> HIDE DEF P, t
          <5>1. Cardinality(t) < Cardinality(s)
            BY <3>1
          <5> QED
            BY <1>1, <3>1, <5>1
        <4> QED
          BY <4>1
      <3>4. v[x] = g[F[x]]
        BY <3>1
      <3>5. /\ F[x] \in SUBSET S /\ U(t) \in SUBSET S /\ F[x] \cap U(t) = {}
            /\ U(s) = F[x] \cup U(t)
        <4>1. \A y \in J : F[y] \in SUBSET S
          BY DEF Apartly
        <4>2. \A y \in t : y \in J /\ F[x] \cap F[y] = {}
          BY <3>1 DEF Apartly
        <4> QED
          BY <3>1, <4>1, <4>2
      <3> HIDE DEF U, t
      <3>6. g[F[x] \cup U(t)] = g[F[x]] + g[U(t)]
        BY <1>a, <3>5
      <3> QED
        BY <3>2, <3>3, <3>4, <3>5, <3>6
    <2> QED
      BY <2>1, <2>2
  <1> HIDE DEF P
  <1>2. J \in P
    BY <1>1, SubsetInduct
  <1> QED
    BY <1>2 DEF P

\* The members that weigh nothing do not count.
LEMMA SumOfNothing ==
    ASSUME NEW S, IsFiniteSet(S), NEW w \in [S -> Nat], NEW g, AddsUp(g, S, w),
           NEW A \in SUBSET S, \A x \in A : w[x] = 0
    PROVE  g[A] = 0
  <1> DEFINE P == {s \in SUBSET S : s \subseteq A => g[s] = 0}
  <1>1. ASSUME NEW s \in SUBSET S, \A u \in SUBSET S : Cardinality(u) < Cardinality(s) => u \in P
        PROVE  s \in P
    <2> SUFFICES ASSUME s \subseteq A
                 PROVE  g[s] = 0
      OBVIOUS
    <2>1. CASE s = {}
      BY <2>1 DEF AddsUp
    <2>2. CASE s # {}
      <3> DEFINE x == Chosen(s)
                 t == s \ {x}
      <3>1. /\ x \in s /\ x \in S /\ t \in SUBSET S
            /\ Cardinality(s) \in Nat /\ Cardinality(t) = Cardinality(s) - 1
        BY <2>2, ChosenIs
      <3>2. g[s] = w[x] + g[t]
        BY <2>2, Zenon DEF AddsUp
      <3> HIDE DEF x
      <3>3. g[t] = 0
        <4>1. t \in P
          <5> HIDE DEF P, t
          <5>1. Cardinality(t) < Cardinality(s)
            BY <3>1
          <5> QED
            BY <1>1, <3>1, <5>1
        <4> QED
          BY <4>1
      <3>4. w[x] = 0
        BY <3>1
      <3> QED
        BY <3>2, <3>3, <3>4
    <2> QED
      BY <2>1, <2>2
  <1> HIDE DEF P
  <1>2. A \in P
    BY <1>1, SubsetInduct
  <1> QED
    BY <1>2 DEF P

\* Where each member weighs one, the sum is their number.
LEMMA SumOfOnes ==
    ASSUME NEW S, IsFiniteSet(S), NEW w \in [S -> Nat], NEW g, AddsUp(g, S, w),
           NEW A \in SUBSET S, \A x \in A : w[x] = 1
    PROVE  g[A] = Cardinality(A)
  <1> DEFINE P == {s \in SUBSET S : s \subseteq A => g[s] = Cardinality(s)}
  <1>1. ASSUME NEW s \in SUBSET S, \A u \in SUBSET S : Cardinality(u) < Cardinality(s) => u \in P
        PROVE  s \in P
    <2> SUFFICES ASSUME s \subseteq A
                 PROVE  g[s] = Cardinality(s)
      OBVIOUS
    <2>1. CASE s = {}
      BY <2>1, FS_EmptySet DEF AddsUp
    <2>2. CASE s # {}
      <3> DEFINE x == Chosen(s)
                 t == s \ {x}
      <3>1. /\ x \in s /\ x \in S /\ t \in SUBSET S
            /\ Cardinality(s) \in Nat /\ Cardinality(t) = Cardinality(s) - 1
        BY <2>2, ChosenIs
      <3>2. g[s] = w[x] + g[t]
        BY <2>2, Zenon DEF AddsUp
      <3> HIDE DEF x
      <3>3. g[t] = Cardinality(t)
        <4>1. t \in P
          <5> HIDE DEF P, t
          <5>1. Cardinality(t) < Cardinality(s)
            BY <3>1
          <5> QED
            BY <1>1, <3>1, <5>1
        <4> QED
          BY <4>1
      <3>4. w[x] = 1
        BY <3>1
      <3> QED
        BY <3>1, <3>2, <3>3, <3>4
    <2> QED
      BY <2>1, <2>2
  <1> HIDE DEF P
  <1>2. A \in P
    BY <1>1, SubsetInduct
  <1> QED
    BY <1>2 DEF P

\* MapThenSumSet is such a sum.
SumOf(w, T) == MapThenSumSet(LAMBDA f : w[f], T)

LEMMA SumOver ==
    ASSUME NEW S, IsFiniteSet(S), NEW w \in [S -> Nat], NEW g, AddsUp(g, S, w),
           NEW T \in SUBSET S
    PROVE  SumOf(w, T) = g[T]
  <1> DEFINE Def(it) == it = [s \in SUBSET T |-> IF s = {} THEN 0
                               ELSE w[Chosen(s)] + it[s \ {Chosen(s)}]]
             it == CHOOSE it : Def(it)
             h == [s \in SUBSET T |-> g[s]]
             v == [x \in T |-> w[x]]
  <1>1. SumOf(w, T) = it[T]
    BY Zenon DEF SumOf, MapThenSumSet, MapThenFoldSet, Chosen
  <1>2. AddsUp(h, T, v) /\ IsFiniteSet(T)
    <2>1. AddsUp(h, T, v)
      BY SumWithin, Zenon
    <2> QED
      BY <2>1, FS_Subset
  <1>3. \A s \in SUBSET T : s # {} => v[Chosen(s)] = w[Chosen(s)]
    BY DEF Chosen
  <1> HIDE DEF v
  <1>4. Def(h)
    <2>1. ASSUME NEW s \in SUBSET T
          PROVE  h[s] = IF s = {} THEN 0 ELSE w[Chosen(s)] + h[s \ {Chosen(s)}]
      BY <1>2, <1>3, Zenon DEF AddsUp
    <2>2. h = [s \in SUBSET T |-> h[s]]
      BY Zenon
    <2> QED
      BY <2>1, <2>2, Zenon
  <1>5. h[T] = g[T]
    OBVIOUS
  <1> HIDE DEF h
  <1>6. Def(it)
    BY <1>4, Zenon
  <1> HIDE DEF it
  <1>7. AddsTo(it, T, v)
    BY <1>3, <1>6, Zenon DEF AddsTo
  <1> HIDE DEF Def
  <1>8. it[T] = h[T]
    BY <1>2, <1>7, SumIs
  <1> QED
    BY <1>1, <1>5, <1>8

-----------------------------------------------------------------------------
\* Two members make a finite set larger than one.
LEMMA TwoMembers ==
    ASSUME NEW S, IsFiniteSet(S), NEW x \in S, NEW y \in S, x # y
    PROVE  Cardinality(S) > 1
  <1>1. Cardinality(S \ {x}) = Cardinality(S) - 1 /\ IsFiniteSet(S \ {x}) /\ y \in S \ {x}
    BY FS_RemoveElement
  <1>2. Cardinality(S \ {x}) \in Nat /\ Cardinality(S \ {x}) # 0 /\ Cardinality(S) \in Nat
    BY <1>1, FS_CardinalityType, FS_EmptySet
  <1> QED
    BY <1>1, <1>2

\* In a finite set with a strict order, each member has as its place the number
\* of those before it and one; no place is empty and none is taken twice.
InOrder(S, R) ==
    /\ \A x \in S : <<x, x>> \notin R
    /\ \A x, y, z \in S : <<x, y>> \in R /\ <<y, z>> \in R => <<x, z>> \in R
    /\ \A x, y \in S : x = y \/ <<x, y>> \in R \/ <<y, x>> \in R
PlacesIn(place, S, R) ==
    \A x \in S : place[x] = Cardinality({y \in S : <<y, x>> \in R}) + 1

LEMMA PlacesTaken ==
    ASSUME NEW S, IsFiniteSet(S), NEW R, InOrder(S, R), NEW place, PlacesIn(place, S, R)
    PROVE  /\ \A x \in S : place[x] \in 1 .. Cardinality(S)
           /\ \A x, y \in S : place[x] = place[y] => x = y
           /\ \A x, y \in S : <<x, y>> \in R => place[x] < place[y]
           /\ \A i \in 1 .. Cardinality(S) : \E x \in S : place[x] = i
  <1> USE DEF InOrder, PlacesIn
  <1> DEFINE Before(x) == {y \in S : <<y, x>> \in R}
  <1>1. \A x \in S : /\ Before(x) \in SUBSET S /\ x \notin Before(x)
                     /\ IsFiniteSet(Before(x)) /\ Cardinality(Before(x)) \in Nat
    BY FS_Subset, FS_CardinalityType
  <1>2. Cardinality(S) \in Nat
    BY FS_CardinalityType
  <1>3. ASSUME NEW x \in S
        PROVE  place[x] \in 1 .. Cardinality(S)
    <2>1. Before(x) # S /\ Cardinality(Before(x)) <= Cardinality(S)
          /\ Cardinality(Before(x)) # Cardinality(S)
      BY <1>1, FS_Subset
    <2>2. place[x] = Cardinality(Before(x)) + 1
      OBVIOUS
    <2> HIDE DEF Before
    <2> QED
      BY <1>1, <1>2, <2>1, <2>2
  <1>4. ASSUME NEW x \in S, NEW y \in S, <<x, y>> \in R
        PROVE  place[x] < place[y]
    <2>1. Before(x) \in SUBSET Before(y) /\ x \in Before(y) /\ x \notin Before(x)
      BY <1>4
    <2>2. Cardinality(Before(x)) <= Cardinality(Before(y)) /\ Cardinality(Before(x)) # Cardinality(Before(y))
      <3> HIDE DEF Before
      <3> QED
        BY <1>1, <2>1, FS_Subset
    <2>3. place[x] = Cardinality(Before(x)) + 1 /\ place[y] = Cardinality(Before(y)) + 1
      OBVIOUS
    <2> HIDE DEF Before
    <2> QED
      BY <1>1, <2>2, <2>3
  <1>5. ASSUME NEW x \in S, NEW y \in S, place[x] = place[y]
        PROVE  x = y
    <2>1. place[x] \in Nat
      BY <1>3
    <2>2. <<x, y>> \notin R /\ <<y, x>> \notin R
      BY <1>4, <1>5, <2>1
    <2> QED
      BY <2>2, Zenon
  <1>6. ASSUME NEW i \in 1 .. Cardinality(S)
        PROVE  \E x \in S : place[x] = i
    <2> DEFINE f == [x \in S |-> place[x]]
    <2>1. f \in Injection(S, 1 .. Cardinality(S))
      <3>1. f \in [S -> 1 .. Cardinality(S)]
        BY <1>3
      <3>2. \A x, y \in S : f[x] = f[y] => x = y
        BY <1>5
      <3> HIDE DEF f
      <3> QED
        BY <3>1, <3>2 DEF Injection, IsInjective
    <2>2. IsFiniteSet(1 .. Cardinality(S)) /\ Cardinality(1 .. Cardinality(S)) = Cardinality(S)
      <3>1. Cardinality(S) = 0 \/ ~(1 > Cardinality(S))
        BY <1>2
      <3> QED
        BY <1>2, <3>1, FS_Interval
    <2> HIDE DEF f
    <2>3. f \in Surjection(S, 1 .. Cardinality(S))
      BY <2>1, <2>2, FS_Injection
    <2>4. PICK x \in S : f[x] = i
      BY <2>3 DEF Surjection
    <2> QED
      BY <2>4 DEF f
  <1> QED
    BY <1>3, <1>4, <1>5, <1>6

=============================================================================
