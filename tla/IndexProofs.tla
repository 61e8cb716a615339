---------------------------- MODULE IndexProofs ----------------------------
(***************************************************************************)
(* What the operations on an index do, whatever they are applied to: the   *)
(* lemmas that IndexTableProofs and LiveIndexProofs rest on.               *)
(*                                                                         *)
(* The table.  Every operation is shown to be Good: it keeps the types,    *)
(* only adds nodes and tombstones, hands a record over only when a         *)
(* tombstone stays behind, and keeps the table sound.  Good is transitive, *)
(* so the changes follow from the few primitive updates they are made of.  *)
(*                                                                         *)
(* The totals.  The climb from a node that reaches a root is a chain that  *)
(* meets each ancestor once, so propagate adds its deltas once to each     *)
(* (PropagateAdds).  Hanging one node elsewhere changes the ancestors of   *)
(* what hangs below it and of nothing else (Along, Aside, BelowMoved).     *)
(* Then the sum over the files below each folder changes by what was       *)
(* propagated: when a node goes (TotalsRemoved), when its size changes     *)
(* (TotalsResized), when one comes (TotalsAdded) and when one is hung      *)
(* elsewhere with all below it (TotalsMoved).  Each change is one of these.*)
(***************************************************************************)
EXTENDS IndexBuild, DataLemmas

\* A change with anything in it.
AnyChange ==
    [kind : {"created", "deleted", "resized", "renamed"},
     rec : Rec, seq : Nat, parent : Rec, name : Name, dir : BOOLEAN, size : Nat]

-----------------------------------------------------------------------------
(***************************************************************************)
(* Climbs.  A climb goes from each node to its parent by the function Up,  *)
(* until it has stood on a root.                                           *)
(***************************************************************************)
Stands == Node \cup {NoNode}

Up(ix) == [a \in Stands |-> IF a = NoNode THEN NoNode
                            ELSE IF ix.parent[a] = a THEN NoNode ELSE ix.parent[a]]

Chain(at, ix) ==
    /\ at \in [0 .. ClimbGuard -> Stands]
    /\ \A k \in 1 .. ClimbGuard : at[k] = Up(ix)[at[k - 1]]

LEMMA UpType ==
    ASSUME NEW ix \in IndexType
    PROVE  Up(ix) \in [Stands -> Stands]
  <1>1. \A a \in Node : ix.parent[a] \in Stands
    BY DEF IndexType, Stands
  <1>2. NoNode \in Stands
    BY DEF Stands
  <1>3. \A a \in Stands : a = NoNode \/ a \in Node
    BY DEF Stands
  <1> QED
    BY <1>1, <1>2, <1>3 DEF Up

LEMMA ClimbIs ==
    ASSUME NEW ix \in IndexType, NEW m \in Node
    PROVE  Chain(Climb(ix, m), ix) /\ Climb(ix, m)[0] = ix.parent[m]
  <1> DEFINE n == ClimbGuard
             T == Stands
             b == ix.parent[m]
             More(t) == IF t = NoNode THEN NoNode
                        ELSE IF ix.parent[t] = t THEN NoNode ELSE ix.parent[t]
             G == [p \in T \X (1 .. n) |-> More(p[1])]
             Def(f) == f = [k \in 0 .. n |-> IF k = 0 THEN b ELSE More(f[k - 1])]
             f == CHOOSE f : Def(f)
  <1>1. n \in Nat
    BY IndexAssumption
  <1>2. \A t \in T : More(t) \in T /\ More(t) = Up(ix)[t]
    BY UpType DEF Up
  <1>3. b \in T
    BY DEF IndexType, Stands
  <1>4. Climb(ix, m) = f
    BY Zenon DEF Climb
  <1> HIDE DEF More, T, n, b
  <1>5. G \in [T \X (1 .. n) -> T]
    BY <1>2
  <1>6. \E g : Def(g)
    <2>1. PICK g : Recurs(g, n, T, b, G)
      <3> HIDE DEF G
      <3> QED
        BY <1>1, <1>3, <1>5, RecursionSolved
    <2>2. ASSUME NEW i \in 1 .. n
          PROVE  g[i] = More(g[i - 1])
      <3>1. i - 1 \in 0 .. n
        BY <1>1
      <3>2. g[i - 1] \in T /\ g[i] = G[<<g[i - 1], i>>]
        <4> HIDE DEF G
        <4> QED
          BY <2>1, <3>1 DEF Recurs
      <3> QED
        BY <3>2
    <2>3. g[0] = b /\ g = [i \in 0 .. n |-> g[i]]
      <3> HIDE DEF G
      <3> QED
        BY <2>1 DEF Recurs
    <2> HIDE DEF G
    <2>4. Def(g)
      <3>1. ASSUME NEW i \in 0 .. n
            PROVE  g[i] = IF i = 0 THEN b ELSE More(g[i - 1])
        <4>1. i = 0 \/ (i # 0 /\ i \in 1 .. n)
          BY <1>1
        <4> QED
          BY <2>2, <2>3, <4>1, Zenon
      <3> QED
        BY <2>3, <3>1
    <2> QED
      BY <2>4
  <1>7. Def(f)
    <2> HIDE DEF Def
    <2> QED
      BY <1>6
  <1> HIDE DEF f, G
  <1>8. f[0] = b /\ \A i \in 1 .. n : f[i] = More(f[i - 1])
    BY <1>1, <1>7
  <1>9. \A k \in 0 .. n : f[k] \in T
    <2> DEFINE S == {k \in 0 .. n : f[k] \in T}
    <2>1. S \in SUBSET (0 .. n) /\ 0 \in S
      BY <1>1, <1>3, <1>8
    <2>2. \A k \in S : k < n => k + 1 \in S
      <3> SUFFICES ASSUME NEW k \in S, k < n
                   PROVE  k + 1 \in S
        OBVIOUS
      <3>1. k + 1 \in 1 .. n /\ k + 1 - 1 = k
        BY <1>1
      <3>2. f[k + 1] = More(f[k])
        BY <1>8, <3>1
      <3> QED
        BY <1>2, <3>1, <3>2
    <2> HIDE DEF S
    <2>3. S = 0 .. n
      BY <1>1, <2>1, <2>2, InductUpTo
    <2> QED
      BY <2>3 DEF S
  <1>10. f \in [0 .. n -> T]
    BY <1>7, <1>9
  <1>11. \A k \in 1 .. n : f[k] = Up(ix)[f[k - 1]]
    <2> SUFFICES ASSUME NEW k \in 1 .. n
                 PROVE  f[k] = Up(ix)[f[k - 1]]
      OBVIOUS
    <2>1. k - 1 \in 0 .. n
      BY <1>1
    <2> QED
      BY <1>2, <1>8, <1>9, <2>1
  <1> QED
    BY <1>4, <1>8, <1>10, <1>11 DEF Chain, n, T, b

\* Two chains that meet go on together, as long as the parents are the same.
UpAlike(ix, jx, at, i, n) == \A t \in 0 .. n - 1 : Up(ix)[at[i + t]] = Up(jx)[at[i + t]]

GoAlike(at, bt, i, j, n) == \A t \in 0 .. n : at[i + t] = bt[j + t]

LEMMA Together ==
    ASSUME NEW ix \in IndexType, NEW jx \in IndexType, NEW at, NEW bt,
           Chain(at, ix), Chain(bt, jx),
           NEW i \in Nat, NEW j \in Nat, at[i] = bt[j],
           NEW n \in Nat, i + n <= ClimbGuard, j + n <= ClimbGuard,
           UpAlike(ix, jx, at, i, n)
    PROVE  GoAlike(at, bt, i, j, n)
  <1> DEFINE S == {t \in 0 .. n : at[i + t] = bt[j + t]}
  <1>1. S \in SUBSET (0 .. n) /\ 0 \in S
    OBVIOUS
  <1>2. \A t \in S : t < n => t + 1 \in S
    <2> SUFFICES ASSUME NEW t \in S, t < n
                 PROVE  t + 1 \in S
      OBVIOUS
    <2>1. /\ t \in Nat /\ t \in 0 .. n - 1 /\ t + 1 \in 0 .. n
          /\ i + (t + 1) \in 1 .. ClimbGuard /\ i + (t + 1) - 1 = i + t
          /\ j + (t + 1) \in 1 .. ClimbGuard /\ j + (t + 1) - 1 = j + t
      BY IndexAssumption
    <2>2. at[i + (t + 1)] = Up(ix)[at[i + t]] /\ bt[j + (t + 1)] = Up(jx)[bt[j + t]]
      BY <2>1 DEF Chain
    <2>3. at[i + t] = bt[j + t] /\ Up(ix)[at[i + t]] = Up(jx)[at[i + t]]
      BY <2>1 DEF UpAlike
    <2> QED
      BY <2>1, <2>2, <2>3
  <1>3. S = 0 .. n
    <2> HIDE DEF S
    <2> QED
      BY <1>1, <1>2, InductUpTo
  <1> QED
    BY <1>3 DEF GoAlike

\* A chain that has stood on a root, or ended, stands nowhere any more.
LEMMA Stops ==
    ASSUME NEW ix \in IndexType, NEW at, Chain(at, ix), NEW i \in 0 .. ClimbGuard,
           at[i] = NoNode \/ ix.parent[at[i]] = at[i],
           NEW j \in 0 .. ClimbGuard, i < j
    PROVE  at[j] = NoNode
  <1> DEFINE n == j - i - 1
             S == {t \in 0 .. n : at[i + 1 + t] = NoNode}
  <1>1. n \in Nat /\ ClimbGuard \in Nat /\ i \in Nat /\ j \in Nat
    BY IndexAssumption
  <1>2. at[i] \in Stands /\ NoNode \in Stands
    BY DEF Chain, Stands
  <1>3. i + 1 \in 1 .. ClimbGuard /\ i + 1 - 1 = i
    BY <1>1
  <1>4. at[i + 1] = NoNode
    <2>1. at[i + 1] = Up(ix)[at[i]]
      BY <1>3 DEF Chain
    <2>2. Up(ix)[at[i]] = NoNode
      BY <1>2 DEF Up
    <2> QED
      BY <2>1, <2>2
  <1>5. S \in SUBSET (0 .. n) /\ 0 \in S
    BY <1>1, <1>4
  <1>6. \A t \in S : t < n => t + 1 \in S
    <2> SUFFICES ASSUME NEW t \in S, t < n
                 PROVE  t + 1 \in S
      OBVIOUS
    <2>1. /\ t \in Nat /\ t + 1 \in 0 .. n /\ i + 1 + (t + 1) \in 1 .. ClimbGuard
          /\ i + 1 + (t + 1) - 1 = i + 1 + t
      BY <1>1
    <2>2. at[i + 1 + (t + 1)] = Up(ix)[NoNode]
      BY <2>1 DEF Chain
    <2> QED
      BY <1>2, <2>1, <2>2 DEF Up
  <1>7. S = 0 .. n
    <2> HIDE DEF S, n
    <2> QED
      BY <1>1, <1>5, <1>6, InductUpTo
  <1>8. n \in 0 .. n /\ i + 1 + n = j
    BY <1>1
  <1>9. at[i + 1 + n] = NoNode
    <2> HIDE DEF n
    <2> QED
      BY <1>7, <1>8
  <1> QED
    BY <1>8, <1>9

\* A chain that reaches a root stands on no node twice.
LEMMA Once ==
    ASSUME NEW ix \in IndexType, NEW at, Chain(at, ix), NEW z \in 0 .. ClimbGuard,
           at[z] # NoNode, ix.parent[at[z]] = at[z],
           NEW i \in 0 .. ClimbGuard, NEW j \in 0 .. ClimbGuard, i < j, at[i] = at[j]
    PROVE  at[i] = NoNode
  <1> SUFFICES ASSUME at[i] # NoNode
               PROVE  FALSE
    OBVIOUS
  <1>1. ClimbGuard \in Nat /\ i \in Nat /\ j \in Nat /\ z \in Nat
    BY IndexAssumption
  <1>2. j <= z
    BY <1>1, Stops
  <1> DEFINE n == z - j
  <1>3. n \in Nat /\ i + n <= ClimbGuard /\ j + n <= ClimbGuard /\ j + n = z
        /\ i + n \in 0 .. ClimbGuard /\ i + n < z
    BY <1>1, <1>2
  <1> HIDE DEF n
  <1>4. at[i + n] = at[j + n]
    <2>1. UpAlike(ix, ix, at, i, n)
      BY DEF UpAlike
    <2>2. GoAlike(at, at, i, j, n)
      BY <1>1, <1>3, <2>1, Together
    <2> QED
      BY <1>3, <2>2 DEF GoAlike
  <1>5. at[i + n] = at[z]
    BY <1>3, <1>4
  <1> QED
    BY <1>1, <1>3, <1>5, Stops

\* The climb from a node goes on as the climb from each node it stands on.
LEMMA GoesOn ==
    ASSUME NEW ix \in IndexType, NEW m \in Node, NEW i \in 0 .. ClimbGuard,
           NEW a \in Node, Climb(ix, m)[i] = a, ix.parent[a] # a,
           NEW j \in 0 .. ClimbGuard, i < j
    PROVE  Climb(ix, m)[j] = Climb(ix, a)[j - i - 1]
  <1> DEFINE at == Climb(ix, m)
             bt == Climb(ix, a)
             n  == j - i - 1
  <1>1. ClimbGuard \in Nat /\ i \in Nat /\ j \in Nat /\ n \in Nat /\ 0 \in Nat
    BY IndexAssumption
  <1>2. Chain(at, ix) /\ Chain(bt, ix) /\ bt[0] = ix.parent[a]
    BY ClimbIs
  <1> HIDE DEF at, bt
  <1>3. at[i + 1] = bt[0]
    <2>1. i + 1 \in 1 .. ClimbGuard /\ i + 1 - 1 = i
      BY <1>1
    <2>2. at[i + 1] = Up(ix)[a]
      BY <2>1, <1>2 DEF Chain, at
    <2>3. a # NoNode /\ a \in Stands
      BY IndexAssumption DEF Stands, Node
    <2> QED
      BY <1>2, <2>2, <2>3 DEF Up
  <1> DEFINE h == i + 1
  <1>4. /\ h \in Nat /\ h + n = j /\ h + n <= ClimbGuard /\ 0 + n <= ClimbGuard
        /\ 0 + n = n /\ n \in 0 .. n /\ at[h] = bt[0]
    BY <1>1, <1>3
  <1> HIDE DEF n, h
  <1>5. \A t \in 0 .. n : at[h + t] = bt[0 + t]
    <2>1. UpAlike(ix, ix, at, h, n)
      BY DEF UpAlike
    <2>2. GoAlike(at, bt, h, 0, n)
      BY <1>1, <1>2, <1>4, <2>1, Together
    <2> QED
      BY <2>2 DEF GoAlike
  <1> QED
    BY <1>4, <1>5 DEF at, bt, n

-----------------------------------------------------------------------------
(***************************************************************************)
(* Ancestors of a node whose climb reaches a root.                         *)
(***************************************************************************)
Reaches(ix, m, root) == root \in Ancestors(ix, m) /\ IsRoot(ix, root)

LEMMA AncestorIs ==
    ASSUME NEW ix \in IndexType, NEW m \in Node
    PROVE  /\ Ancestors(ix, m) \subseteq Node
           /\ \A a : a \in Ancestors(ix, m) <=>
                       a # NoNode /\ \E k \in 0 .. ClimbGuard : Climb(ix, m)[k] = a
  <1>1. Ancestors(ix, m) = {Climb(ix, m)[k] : k \in 0 .. ClimbGuard} \ {NoNode}
    BY DEF Ancestors
  <1>2. \A k \in 0 .. ClimbGuard : Climb(ix, m)[k] \in Stands
    BY ClimbIs DEF Chain
  <1> QED
    BY <1>1, <1>2 DEF Stands

\* A root is its own and only ancestor.
LEMMA RootAlone ==
    ASSUME NEW ix \in IndexType, NEW root \in Node, IsRoot(ix, root)
    PROVE  Ancestors(ix, root) = {root}
  <1> DEFINE at == Climb(ix, root)
  <1>1. Chain(at, ix) /\ at[0] = root
    BY ClimbIs DEF IsRoot
  <1>2. 0 \in 0 .. ClimbGuard /\ root # NoNode
    BY IndexAssumption DEF Node
  <1>3. \A k \in 0 .. ClimbGuard : 0 < k => at[k] = NoNode
    <2> HIDE DEF at
    <2> QED
      BY <1>1, <1>2, Stops DEF IsRoot
  <1>4. \A k \in 0 .. ClimbGuard : k = 0 \/ 0 < k
    BY IndexAssumption
  <1> QED
    BY <1>1, <1>2, <1>3, <1>4, AncestorIs

\* What is above an ancestor is above the node, and an ancestor is not above
\* itself unless it is the root.
LEMMA FromAbove ==
    ASSUME NEW ix \in IndexType, NEW m \in Node, NEW root, Reaches(ix, m, root),
           NEW a \in Ancestors(ix, m), a # root
    PROVE  /\ Reaches(ix, a, root)
           /\ Ancestors(ix, a) \subseteq Ancestors(ix, m)
           /\ a \notin Ancestors(ix, a)
           /\ ~IsRoot(ix, a)
  <1> DEFINE at == Climb(ix, m)
             bt == Climb(ix, a)
  <1>1. a \in Node /\ root \in Node /\ a # NoNode /\ root # NoNode
    BY AncestorIs DEF Reaches
  <1>2. Chain(at, ix) /\ Chain(bt, ix)
    BY <1>1, ClimbIs
  <1>3. PICK z \in 0 .. ClimbGuard : at[z] = root
    BY AncestorIs DEF Reaches
  <1>4. PICK i \in 0 .. ClimbGuard : at[i] = a
    BY AncestorIs
  <1>5. ix.parent[root] = root
    BY DEF Reaches, IsRoot
  <1>6. ClimbGuard \in Nat /\ i \in Nat /\ z \in Nat
    BY IndexAssumption
  <1>7. i < z
    <2>1. ~(z < i)
      <3> HIDE DEF at
      <3> QED
        BY <1>1, <1>2, <1>3, <1>4, <1>5, Stops
    <2> QED
      BY <1>3, <1>4, <1>6, <2>1
  <1>8. ix.parent[a] # a
    <2> HIDE DEF at
    <2> QED
      BY <1>1, <1>2, <1>3, <1>4, <1>7, Stops
  <1>9. \A j \in 0 .. ClimbGuard : i < j => at[j] = bt[j - i - 1]
    BY <1>1, <1>4, <1>8, GoesOn
  <1> HIDE DEF at, bt
  <1>10. z - i - 1 \in 0 .. ClimbGuard /\ bt[z - i - 1] = root
    BY <1>3, <1>6, <1>7, <1>9
  <1>11. root \in Ancestors(ix, a)
    BY <1>1, <1>10, AncestorIs DEF bt
  <1>12. ASSUME NEW b \in Ancestors(ix, a)
         PROVE  b # NoNode /\ \E j \in 0 .. ClimbGuard : i < j /\ at[j] = b
    <2>1. b # NoNode /\ \E t \in 0 .. ClimbGuard : bt[t] = b
      BY <1>1, AncestorIs DEF bt
    <2>2. PICK t \in 0 .. ClimbGuard : bt[t] = b
      BY <2>1
    <2>3. ~(z - i - 1 < t)
      BY <1>1, <1>2, <1>5, <1>10, <2>1, <2>2, Stops
    <2> DEFINE j == t + i + 1
    <2>4. j \in 0 .. ClimbGuard /\ i < j /\ j - i - 1 = t
      BY <1>6, <2>3
    <2> HIDE DEF j
    <2>5. at[j] = b
      BY <1>9, <2>2, <2>4
    <2> QED
      BY <2>1, <2>4, <2>5
  <1>13. Ancestors(ix, a) \subseteq Ancestors(ix, m)
    BY <1>12, AncestorIs DEF at
  <1>14. a \notin Ancestors(ix, a)
    <2> SUFFICES ASSUME a \in Ancestors(ix, a)
                 PROVE  FALSE
      OBVIOUS
    <2>1. PICK j \in 0 .. ClimbGuard : i < j /\ at[j] = a
      BY <1>12
    <2> QED
      BY <1>1, <1>2, <1>3, <1>4, <1>5, <2>1, Once
  <1> QED
    BY <1>8, <1>11, <1>13, <1>14 DEF Reaches, IsRoot

\* No node but the root is above itself.
LEMMA SelfApart ==
    ASSUME NEW ix \in IndexType, NEW m \in Node, NEW root, Reaches(ix, m, root), m # root
    PROVE  m \notin Ancestors(ix, m) /\ ~IsRoot(ix, m)
  <1>1. m \notin Ancestors(ix, m)
    BY FromAbove
  <1>2. ASSUME IsRoot(ix, m)
        PROVE  FALSE
    BY <1>2, RootAlone DEF Reaches
  <1> QED
    BY <1>1, <1>2

\* Of two ancestors of a node one is above the other.
LEMMA InLine ==
    ASSUME NEW ix \in IndexType, NEW m \in Node, NEW root, Reaches(ix, m, root),
           NEW a \in Ancestors(ix, m), NEW b \in Ancestors(ix, m), a # b
    PROVE  a \in Ancestors(ix, b) \/ b \in Ancestors(ix, a)
  <1> DEFINE at == Climb(ix, m)
  <1>1. /\ a \in Node /\ b \in Node /\ a # NoNode /\ b # NoNode
        /\ ClimbGuard \in Nat /\ Chain(at, ix)
    BY AncestorIs, ClimbIs, IndexAssumption
  <1>2. PICK i \in 0 .. ClimbGuard : at[i] = a
    BY AncestorIs
  <1>3. PICK j \in 0 .. ClimbGuard : at[j] = b
    BY AncestorIs
  <1>4. ASSUME NEW c \in Node, NEW d \in Node, NEW k \in 0 .. ClimbGuard,
               NEW l \in 0 .. ClimbGuard, at[k] = c, at[l] = d, k < l
        PROVE  d \in Ancestors(ix, c)
    <2>1. d # NoNode /\ l - k - 1 \in 0 .. ClimbGuard
      BY <1>1, <1>4, IndexAssumption DEF Node
    <2>2. ix.parent[c] # c
      <3> HIDE DEF at
      <3> QED
        BY <1>1, <1>4, <2>1, Stops
    <2>3. Climb(ix, c)[l - k - 1] = d
      BY <1>4, <2>2, GoesOn
    <2> QED
      BY <2>1, <2>3, AncestorIs
  <1>5. i < j \/ j < i
    BY <1>1, <1>2, <1>3
  <1> HIDE DEF at
  <1> QED
    BY <1>1, <1>2, <1>3, <1>4, <1>5

\* The climb of propagate meets each ancestor exactly once.
LEMMA MetOnce ==
    ASSUME NEW ix \in IndexType, NEW m \in Node, NEW root, Reaches(ix, m, root),
           NEW a \in Node
    PROVE  Cardinality({k \in 0 .. ClimbGuard : Climb(ix, m)[k] = a})
             = IF a \in Ancestors(ix, m) THEN 1 ELSE 0
  <1> DEFINE at == Climb(ix, m)
             K  == {k \in 0 .. ClimbGuard : at[k] = a}
  <1>1. a # NoNode /\ ClimbGuard \in Nat /\ Chain(at, ix)
    BY ClimbIs, IndexAssumption DEF Node
  <1>2. CASE a \notin Ancestors(ix, m)
    <2>1. K = {}
      BY <1>1, <1>2, AncestorIs
    <2> QED
      BY <1>2, <2>1, FS_EmptySet
  <1>3. CASE a \in Ancestors(ix, m)
    <2>1. PICK i \in 0 .. ClimbGuard : at[i] = a
      BY <1>3, AncestorIs
    <2>2. PICK z \in 0 .. ClimbGuard : at[z] = root
      BY AncestorIs DEF Reaches
    <2>3. root # NoNode /\ ix.parent[root] = root
      BY AncestorIs DEF Reaches, IsRoot
    <2>4. \A j \in 0 .. ClimbGuard : at[j] = a => j = i
      <3> SUFFICES ASSUME NEW j \in 0 .. ClimbGuard, at[j] = a, j # i
                   PROVE  FALSE
        OBVIOUS
      <3>1. i < j \/ j < i
        BY <1>1
      <3> HIDE DEF at
      <3> QED
        BY <1>1, <2>1, <2>2, <2>3, <3>1, Once
    <2>5. K = {i}
      BY <2>1, <2>4
    <2> HIDE DEF K
    <2> QED
      BY <1>3, <2>5, FS_Singleton DEF K
  <1> QED
    BY <1>2, <1>3

-----------------------------------------------------------------------------
(***************************************************************************)
(* One node gets another parent.                                           *)
(***************************************************************************)
Hung(ix, jx, m) == \A a \in Node : a # m => jx.parent[a] = ix.parent[a]

LEMMA SameUp ==
    ASSUME NEW ix \in IndexType, NEW jx \in IndexType, NEW m, Hung(ix, jx, m),
           NEW a \in Stands, a # m
    PROVE  Up(ix)[a] = Up(jx)[a]
  <1>1. a = NoNode \/ (a \in Node /\ a # NoNode)
    BY IndexAssumption DEF Stands
  <1> QED
    BY <1>1 DEF Up, Hung

\* Nodes that are not below it keep their ancestors.
LEMMA Aside ==
    ASSUME NEW ix \in IndexType, NEW jx \in IndexType, NEW m, Hung(ix, jx, m),
           NEW x \in Node, x # m, m \notin Ancestors(ix, x), m # NoNode
    PROVE  Ancestors(jx, x) = Ancestors(ix, x)
  <1> DEFINE at == Climb(ix, x)
             ct == Climb(jx, x)
  <1>1. ClimbGuard \in Nat /\ Chain(at, ix) /\ Chain(ct, jx) /\ at[0] = ct[0]
    BY ClimbIs, IndexAssumption DEF Hung
  <1>2. \A k \in 0 .. ClimbGuard : at[k] # m
    BY AncestorIs
  <1> HIDE DEF at, ct
  <1>3. \A k \in 0 .. ClimbGuard - 1 : Up(ix)[at[0 + k]] = Up(jx)[at[0 + k]]
    <2> TAKE k \in 0 .. ClimbGuard - 1
    <2>1. k \in 0 .. ClimbGuard /\ 0 + k = k
      BY <1>1
    <2>2. at[k] \in Stands
      BY <1>1, <2>1 DEF Chain
    <2> QED
      BY <1>2, <2>1, <2>2, SameUp
  <1> DEFINE n == ClimbGuard
             o == 0
  <1>4. o \in Nat /\ n \in Nat /\ o + n <= ClimbGuard /\ at[o] = ct[o]
    BY <1>1
  <1>5. UpAlike(ix, jx, at, o, n)
    BY <1>3 DEF UpAlike
  <1>6. GoAlike(at, ct, o, o, n)
    <2> HIDE DEF n, o
    <2> QED
      BY <1>1, <1>4, <1>5, Together
  <1>7. \A k \in 0 .. ClimbGuard : at[k] = ct[k]
    BY <1>1, <1>6 DEF GoAlike
  <1>8. \A a : a \in Ancestors(jx, x) <=> a \in Ancestors(ix, x)
    <2> TAKE a
    <2>1. a \in Ancestors(jx, x) <=> a # NoNode /\ \E k \in 0 .. ClimbGuard : ct[k] = a
      BY AncestorIs DEF ct
    <2>2. a \in Ancestors(ix, x) <=> a # NoNode /\ \E k \in 0 .. ClimbGuard : at[k] = a
      BY AncestorIs DEF at
    <2> QED
      BY <1>7, <2>1, <2>2
  <1> QED
    BY <1>8

\* Nodes below it keep those up to it and get the ancestors it now has.
LEMMA Along ==
    ASSUME NEW ix \in IndexType, NEW jx \in IndexType, NEW m, Hung(ix, jx, m),
           NEW x \in Node, x # m, NEW root, m # root,
           Reaches(ix, x, root), Reaches(jx, x, root), m \in Ancestors(ix, x)
    PROVE  /\ m \in Ancestors(jx, x)
           /\ \A a : a \in Ancestors(jx, x) <=>
                \/ a \in Ancestors(jx, m)
                \/ a \in Ancestors(ix, x) /\ a \notin Ancestors(ix, m)
  <1> DEFINE at == Climb(ix, x)
             ct == Climb(jx, x)
  <1>1. ClimbGuard \in Nat /\ Chain(at, ix) /\ Chain(ct, jx) /\ at[0] = ct[0]
    BY ClimbIs, IndexAssumption DEF Hung
  <1>2. m \in Node /\ m # NoNode /\ root # NoNode /\ ix.parent[root] = root
    BY AncestorIs, IndexAssumption DEF Reaches, IsRoot, Node
  <1>3. PICK i \in 0 .. ClimbGuard : at[i] = m
    BY AncestorIs
  <1>4. PICK z \in 0 .. ClimbGuard : at[z] = root
    BY AncestorIs DEF Reaches
  <1>5. \A j \in 0 .. ClimbGuard : \A k \in 0 .. ClimbGuard :
           at[j] = at[k] /\ at[j] # NoNode => j = k
    <2> SUFFICES ASSUME NEW j \in 0 .. ClimbGuard, NEW k \in 0 .. ClimbGuard,
                        at[j] = at[k], at[j] # NoNode, j # k
                 PROVE  FALSE
      OBVIOUS
    <2>1. j < k \/ k < j
      BY <1>1
    <2> HIDE DEF at
    <2> QED
      BY <1>1, <1>2, <1>4, <2>1, Once
  <1> HIDE DEF at, ct
  <1>6. \A k \in 0 .. i : at[k] = ct[k]
    <2>1. \A k \in 0 .. i - 1 : Up(ix)[at[0 + k]] = Up(jx)[at[0 + k]]
      <3> TAKE k \in 0 .. i - 1
      <3>1. k \in 0 .. ClimbGuard /\ 0 + k = k /\ k # i
        BY <1>1
      <3>2. at[k] \in Stands /\ at[k] # m
        BY <1>1, <1>2, <1>3, <1>5, <3>1 DEF Chain
      <3> QED
        BY <3>1, <3>2, SameUp
    <2>2. 0 \in Nat /\ i \in Nat /\ 0 + i <= ClimbGuard
      BY <1>1
    <2>3. \A k \in 0 .. i : at[0 + k] = ct[0 + k]
      <3>1. UpAlike(ix, jx, at, 0, i)
        BY <2>1 DEF UpAlike
      <3>2. GoAlike(at, ct, 0, 0, i)
        BY <1>1, <2>2, <3>1, Together
      <3> QED
        BY <3>2 DEF GoAlike
    <2> QED
      BY <1>1, <2>3
  <1>7. ct[i] = m /\ m \in Ancestors(jx, x)
    <2>1. ct[i] = m
      BY <1>1, <1>3, <1>6
    <2> QED
      BY <1>2, <2>1, AncestorIs DEF ct
  <1>8. ix.parent[m] # m /\ jx.parent[m] # m /\ Ancestors(jx, m) \subseteq Ancestors(jx, x)
    BY <1>7, FromAbove DEF IsRoot
  <1>9. \A j \in 0 .. ClimbGuard : i < j => at[j] = Climb(ix, m)[j - i - 1]
    BY <1>2, <1>3, <1>8, GoesOn DEF at
  <1>10. \A j \in 0 .. ClimbGuard : i < j => ct[j] = Climb(jx, m)[j - i - 1]
    BY <1>2, <1>7, <1>8, GoesOn DEF ct
  <1>11. ASSUME NEW k \in 0 .. ClimbGuard, k <= i, at[k] # NoNode
         PROVE  at[k] \notin Ancestors(ix, m)
    <2> SUFFICES ASSUME at[k] \in Ancestors(ix, m)
                 PROVE  FALSE
      OBVIOUS
    <2>1. i < z
      <3>1. ~(z < i)
        BY <1>1, <1>2, <1>3, <1>4, Stops
      <3> QED
        BY <1>1, <1>3, <1>4, <3>1
    <2>2. PICK s \in 0 .. ClimbGuard : Climb(ix, m)[s] = at[k]
      BY <1>2, AncestorIs
    <2>3. z - i - 1 \in 0 .. ClimbGuard /\ Climb(ix, m)[z - i - 1] = root
      BY <1>1, <1>4, <1>9, <2>1
    <2>4. ~(z - i - 1 < s)
      BY <1>2, <1>11, <2>2, <2>3, ClimbIs, Stops
    <2> DEFINE j == s + i + 1
    <2>5. j \in 0 .. ClimbGuard /\ i < j /\ j - i - 1 = s /\ j # k
      BY <1>1, <1>11, <2>1, <2>4
    <2> HIDE DEF j
    <2> QED
      BY <1>5, <1>9, <1>11, <2>2, <2>5
  <1>12. ASSUME NEW a \in Ancestors(jx, x), a \notin Ancestors(jx, m)
         PROVE  a \in Ancestors(ix, x) /\ a \notin Ancestors(ix, m)
    <2>1. a # NoNode
      BY AncestorIs
    <2>2. PICK k \in 0 .. ClimbGuard : ct[k] = a
      BY AncestorIs DEF ct
    <2>3. k <= i
      <3> SUFFICES ASSUME i < k
                   PROVE  FALSE
        BY <1>1
      <3>1. k - i - 1 \in 0 .. ClimbGuard /\ Climb(jx, m)[k - i - 1] = a
        BY <1>1, <1>10, <2>2
      <3> QED
        BY <1>2, <1>12, <2>1, <3>1, AncestorIs
    <2>4. at[k] = a
      BY <1>1, <1>6, <2>2, <2>3
    <2> QED
      BY <1>11, <2>1, <2>3, <2>4, AncestorIs DEF at
  <1>13. ASSUME NEW a \in Ancestors(ix, x), a \notin Ancestors(ix, m)
         PROVE  a \in Ancestors(jx, x)
    <2>1. a # NoNode
      BY AncestorIs
    <2>2. PICK k \in 0 .. ClimbGuard : at[k] = a
      BY AncestorIs DEF at
    <2>3. k <= i
      <3> SUFFICES ASSUME i < k
                   PROVE  FALSE
        BY <1>1
      <3>1. k - i - 1 \in 0 .. ClimbGuard /\ Climb(ix, m)[k - i - 1] = a
        BY <1>1, <1>9, <2>2
      <3> QED
        BY <1>2, <1>13, <2>1, <3>1, AncestorIs
    <2>4. ct[k] = a
      BY <1>1, <1>6, <2>2, <2>3
    <2> QED
      BY <2>1, <2>4, AncestorIs DEF ct
  <1> QED
    BY <1>7, <1>8, <1>12, <1>13

-----------------------------------------------------------------------------
(***************************************************************************)
(* Totals.                                                                 *)
(***************************************************************************)
\* Recounted with the sums as a function of sets of nodes.
Told(ix, g) ==
    \A d \in ShownFolders(ix) :
        ix.size[d] = g[FilesBelow(ix, d)] /\ ix.files[d] = Cardinality(FilesBelow(ix, d))

LEMMA LiveNodes ==
    ASSUME NEW ix \in IndexType
    PROVE  /\ Live(ix) \subseteq Node /\ IsFiniteSet(Node) /\ ix.n \in Nat
           /\ \A d : FilesBelow(ix, d) \in SUBSET Node
  <1>1. ix.n \in 0 .. MaxNodes /\ MaxNodes \in Nat
    BY IndexAssumption DEF IndexType
  <1>2. Live(ix) \subseteq Node
    BY <1>1 DEF Live, Node
  <1>3. IsFiniteSet(Node)
    BY <1>1, FS_Interval DEF Node
  <1> QED
    BY <1>1, <1>2, <1>3 DEF FilesBelow

LEMMA ToldIs ==
    ASSUME NEW ix \in IndexType
    PROVE  \E g : AddsUp(g, Node, ix.size) /\ (Recounted(ix) <=> Told(ix, g))
  <1> DEFINE w == ix.size
  <1>1. w \in [Node -> Nat] /\ IsFiniteSet(Node)
    BY LiveNodes DEF IndexType
  <1>2. PICK g : AddsUp(g, Node, w)
    <2> HIDE DEF w
    <2> QED
      BY <1>1, SumsExist
  <1>3. ASSUME NEW d
        PROVE  SumOf(w, FilesBelow(ix, d)) = g[FilesBelow(ix, d)]
    <2>1. FilesBelow(ix, d) \in SUBSET Node
      BY LiveNodes
    <2> HIDE DEF w
    <2> QED
      BY <1>1, <1>2, <2>1, SumOver
  <1>4. Recounted(ix) <=> Told(ix, g)
    <2>1. Recounted(ix) <=>
            \A d \in ShownFolders(ix) :
                /\ ix.size[d] = SumOf(ix.size, FilesBelow(ix, d))
                /\ ix.files[d] = Cardinality(FilesBelow(ix, d))
      BY Zenon DEF Recounted, SumOf
    <2> QED
      BY <1>3, <2>1, Zenon DEF Told
  <1> QED
    BY <1>2, <1>4

\* A rooted tree: what is above a live node.
LEMMA RootedIs ==
    ASSUME NEW ix \in IndexType, Rooted(ix), NEW m \in Live(ix)
    PROVE  /\ Reaches(ix, m, ix.rec[RootRec])
           /\ Ancestors(ix, m) \subseteq Live(ix) \cap ix.dir
           /\ \A a \in Ancestors(ix, m) : a \in Node /\ a \in Live(ix) /\ a \in ix.dir
  <1>1. Ancestors(ix, m) \subseteq Node
    BY LiveNodes, AncestorIs
  <1> QED
    BY <1>1 DEF Rooted, Reaches

\* jx has the totals of ix with ds and df added over A, but for node k.
Carried(ix, jx, A, ds, df, k) ==
    \A a \in Node : a # k =>
        /\ jx.size[a]  = IF a \in A THEN SatAdd(ix.size[a], ds) ELSE ix.size[a]
        /\ jx.files[a] = IF a \in A THEN SatAdd(ix.files[a], df) ELSE ix.files[a]

\* propagate adds to each ancestor once.
LEMMA PropagateAdds ==
    ASSUME NEW ix \in IndexType, NEW m \in Node, NEW root, Reaches(ix, m, root),
           NEW ds \in Int, NEW da \in Int, NEW df \in Int
    PROVE  Carried(ix, Propagate(ix, m, ds, da, df), Ancestors(ix, m), ds, df, NoNode)
  <1> DEFINE at == Climb(ix, m)
             turns(a) == Cardinality({k \in 0 .. ClimbGuard : at[k] = a})
             jx == Propagate(ix, m, ds, da, df)
  <1>1. \A a \in Node : /\ jx.size[a] = SatAdd(ix.size[a], turns(a) * ds)
                        /\ jx.files[a] = SatAdd(ix.files[a], turns(a) * df)
    BY DEF Propagate, IndexType
  <1>2. \A a \in Node : turns(a) = IF a \in Ancestors(ix, m) THEN 1 ELSE 0
    BY MetOnce
  <1>3. \A a \in Node : ix.size[a] \in Nat /\ ix.files[a] \in Nat
    BY DEF IndexType
  <1> HIDE DEF jx, turns
  <1>4. ASSUME NEW a \in Node, NEW x \in Nat, NEW d \in Int
        PROVE  SatAdd(x, turns(a) * d) = IF a \in Ancestors(ix, m) THEN SatAdd(x, d) ELSE x
    <2>1. CASE a \in Ancestors(ix, m)
      <3>1. turns(a) = 1 /\ 1 * d = d
        BY <1>2, <2>1
      <3> QED
        BY <2>1, <3>1
    <2>2. CASE a \notin Ancestors(ix, m)
      <3>1. turns(a) = 0 /\ 0 * d = 0 /\ x + 0 = x
        BY <1>2, <2>2
      <3> QED
        BY <2>2, <3>1 DEF SatAdd
    <2> QED
      BY <2>1, <2>2
  <1> QED
    BY <1>1, <1>3, <1>4 DEF Carried, jx

\* The same tree: nodes, parents, kinds and marks.
SameTree(ix, jx) ==
    jx.n = ix.n /\ jx.parent = ix.parent /\ jx.dir = ix.dir /\ jx.excl = ix.excl

LEMMA SameAncestors ==
    ASSUME NEW ix \in IndexType, NEW jx \in IndexType, jx.parent = ix.parent, NEW x \in Node
    PROVE  Ancestors(jx, x) = Ancestors(ix, x)
  <1> DEFINE m == MaxNodes
  <1>1. m \notin Node /\ m # NoNode
    BY IndexAssumption DEF Node
  <1>2. m \notin Ancestors(ix, x) /\ x # m
    BY <1>1, AncestorIs
  <1> HIDE DEF m
  <1>3. Hung(ix, jx, m)
    BY DEF Hung
  <1> QED
    BY <1>1, <1>2, <1>3, Aside

-----------------------------------------------------------------------------
\* A live node goes: its weight is taken off, unless it is pruned.
LEMMA TotalsRemoved ==
    ASSUME NEW ix \in IndexType, NEW jx \in IndexType, Rooted(ix), Rooted(jx), Recounted(ix),
           NEW m \in Live(ix), SameTree(ix, jx), jx.del = ix.del \cup {m},
           Carried(ix, jx, IF m \in ix.excl THEN {} ELSE Ancestors(ix, m),
                   - ix.size[m], - FilesOf(ix, m), m)
    PROVE  Recounted(jx)
  <1>1. PICK g : AddsUp(g, Node, ix.size) /\ Told(ix, g)
    BY ToldIs
  <1>2. PICK h : AddsUp(h, Node, jx.size) /\ (Recounted(jx) <=> Told(jx, h))
    BY ToldIs
  <1>3. /\ ix.size \in [Node -> Nat] /\ jx.size \in [Node -> Nat] /\ IsFiniteSet(Node)
        /\ ix.files \in [Node -> Nat] /\ m \in Node /\ Live(jx) = Live(ix) \ {m}
        /\ Live(ix) \subseteq Node
    BY LiveNodes DEF IndexType, SameTree, Live
  <1>4. \A x \in Node : Ancestors(jx, x) = Ancestors(ix, x)
    BY SameAncestors DEF SameTree
  <1>5. \A x \in Live(jx) : m \notin Ancestors(ix, x)
    BY <1>3, <1>4, RootedIs
  <1>6. \A a \in Ancestors(ix, m) : a \in ix.dir /\ a \in Node
    BY RootedIs
  <1>7. ASSUME NEW d \in ShownFolders(jx)
        PROVE  jx.size[d] = h[FilesBelow(jx, d)] /\ jx.files[d] = Cardinality(FilesBelow(jx, d))
    <2> DEFINE F == FilesBelow(ix, d)
               G == FilesBelow(jx, d)
    <2>1. d \in ShownFolders(ix) /\ d # m /\ d \in Node
      BY <1>3 DEF ShownFolders, SameTree
    <2>2. G = F \ {m}
      BY <1>3, <1>4 DEF FilesBelow, SameTree
    <2>3. F \in SUBSET Node /\ G \in SUBSET Node /\ IsFiniteSet(F)
      <3>1. F \in SUBSET Node /\ G \in SUBSET Node
        BY LiveNodes
      <3> QED
        BY <1>3, <3>1, FS_Subset
    <2>4. ix.size[d] = g[F] /\ ix.files[d] = Cardinality(F) /\ g[F] \in Nat /\ g[G] \in Nat
      BY <1>1, <2>1, <2>3 DEF Told, AddsUp
    <2>5. \A f \in G : jx.size[f] = ix.size[f]
      <3> SUFFICES ASSUME NEW f \in G
                   PROVE  jx.size[f] = ix.size[f]
        OBVIOUS
      <3>1. f \in Node /\ f # m /\ f \notin ix.dir
        BY <2>2, <2>3 DEF FilesBelow
      <3> QED
        BY <1>6, <3>1 DEF Carried
    <2>6. h[G] = g[G]
      <3> HIDE DEF G
      <3> QED
        BY <1>1, <1>2, <1>3, <2>3, <2>5, SumAgrees
    <2>7. m \in F <=> m \notin ix.dir \cup ix.excl /\ d \in Ancestors(ix, m)
      BY DEF FilesBelow
    <2>8. CASE m \in F
      <3>1. g[F] = ix.size[m] + g[F \ {m}]
        <4> HIDE DEF F, G
        <4> QED
          BY <1>1, <1>3, <2>3, <2>8, SumTakes
      <3>2. Cardinality(F \ {m}) = Cardinality(F) - 1 /\ Cardinality(F) \in Nat
        <4> HIDE DEF F, G
        <4> QED
          BY <2>3, <2>8, FS_RemoveElement, FS_CardinalityType
      <3>3. Cardinality(F \ {m}) \in Nat
        <4> HIDE DEF F, G
        <4> QED
          BY <2>3, FS_Subset, FS_CardinalityType
      <3>4. FilesOf(ix, m) = 1
        BY <2>7, <2>8 DEF FilesOf
      <3>5. jx.size[d] = SatAdd(ix.size[d], - ix.size[m]) /\ jx.files[d] = SatAdd(ix.files[d], - 1)
        BY <2>1, <2>7, <2>8, <3>4 DEF Carried
      <3> HIDE DEF F, G
      <3>6. ix.size[m] \in Nat
        BY <1>3
      <3>7. SatAdd(ix.size[d], - ix.size[m]) = g[G]
        BY <2>2, <2>4, <3>1, <3>6 DEF SatAdd
      <3>8. SatAdd(ix.files[d], - 1) = Cardinality(G)
        BY <2>2, <2>4, <3>2, <3>3 DEF SatAdd
      <3> QED
        BY <2>6, <3>5, <3>7, <3>8 DEF G
    <2>9. CASE m \notin F
      <3>1. G = F
        BY <2>2, <2>9
      <3>2. jx.size[d] = ix.size[d] /\ jx.files[d] = ix.files[d]
        <4>1. CASE m \in ix.excl \/ d \notin Ancestors(ix, m)
          BY <2>1, <4>1 DEF Carried
        <4>2. CASE m \notin ix.excl /\ d \in Ancestors(ix, m)
          <5>1. m \in ShownFolders(ix)
            BY <2>7, <2>9, <4>2 DEF ShownFolders
          <5>2. FilesBelow(ix, m) = {}
            BY <1>3, <1>5, <5>1 DEF FilesBelow, ShownFolders
          <5>3. ix.size[m] = 0 /\ ix.files[m] = 0
            BY <1>1, <5>1, <5>2, FS_EmptySet DEF Told, AddsUp
          <5>4. FilesOf(ix, m) = 0
            BY <5>1, <5>3 DEF FilesOf, ShownFolders
          <5>5. /\ jx.size[d] = SatAdd(ix.size[d], - 0)
                /\ jx.files[d] = SatAdd(ix.files[d], - 0)
            BY <2>1, <4>2, <5>3, <5>4 DEF Carried
          <5>6. ix.size[d] \in Nat /\ ix.files[d] \in Nat
            BY <1>3, <2>1
          <5> QED
            BY <5>5, <5>6 DEF SatAdd
        <4> QED
          BY <4>1, <4>2
      <3> QED
        BY <2>4, <2>6, <3>1, <3>2
    <2> QED
      BY <2>8, <2>9
  <1> QED
    BY <1>2, <1>7 DEF Told

\* A live file gets another size: the growth goes up, unless it is pruned.
LEMMA TotalsResized ==
    ASSUME NEW ix \in IndexType, NEW jx \in IndexType, Rooted(ix), Recounted(ix),
           NEW m \in Live(ix), m \notin ix.dir, SameTree(ix, jx), jx.del = ix.del,
           Carried(ix, jx, IF m \in ix.excl THEN {} ELSE Ancestors(ix, m),
                   jx.size[m] - ix.size[m], 0, m)
    PROVE  Recounted(jx)
  <1>1. PICK g : AddsUp(g, Node, ix.size) /\ Told(ix, g)
    BY ToldIs
  <1>2. PICK h : AddsUp(h, Node, jx.size) /\ (Recounted(jx) <=> Told(jx, h))
    BY ToldIs
  <1>3. /\ ix.size \in [Node -> Nat] /\ jx.size \in [Node -> Nat] /\ IsFiniteSet(Node)
        /\ ix.files \in [Node -> Nat] /\ m \in Node /\ Live(jx) = Live(ix)
        /\ Live(ix) \subseteq Node
    BY LiveNodes DEF IndexType, SameTree, Live
  <1>4. \A x \in Node : Ancestors(jx, x) = Ancestors(ix, x)
    BY SameAncestors DEF SameTree
  <1>6. \A a \in Ancestors(ix, m) : a \in ix.dir /\ a \in Node
    BY RootedIs
  <1>7. ASSUME NEW d \in ShownFolders(jx)
        PROVE  jx.size[d] = h[FilesBelow(jx, d)] /\ jx.files[d] = Cardinality(FilesBelow(jx, d))
    <2> DEFINE F == FilesBelow(ix, d)
               G == F \ {m}
    <2>1. d \in ShownFolders(ix) /\ d # m /\ d \in Node
      BY <1>3 DEF ShownFolders, SameTree
    <2>2. FilesBelow(jx, d) = F
      BY <1>3, <1>4 DEF FilesBelow, SameTree
    <2>3. F \in SUBSET Node /\ G \in SUBSET Node
      BY LiveNodes
    <2>4. ix.size[d] = g[F] /\ ix.files[d] = Cardinality(F) /\ g[F] \in Nat /\ g[G] \in Nat
      BY <1>1, <2>1, <2>3 DEF Told, AddsUp
    <2>5. \A f \in G : jx.size[f] = ix.size[f]
      <3> SUFFICES ASSUME NEW f \in G
                   PROVE  jx.size[f] = ix.size[f]
        OBVIOUS
      <3>1. f \in Node /\ f # m /\ f \notin ix.dir
        BY <2>3 DEF FilesBelow
      <3> QED
        BY <1>6, <3>1 DEF Carried
    <2>6. h[G] = g[G]
      <3> HIDE DEF G
      <3> QED
        BY <1>1, <1>2, <1>3, <2>3, <2>5, SumAgrees
    <2>7. m \in F <=> m \notin ix.excl /\ d \in Ancestors(ix, m)
      BY DEF FilesBelow
    <2>8. jx.files[d] = ix.files[d]
      <3>1. ix.files[d] \in Nat
        BY <1>3, <2>1
      <3>2. SatAdd(ix.files[d], 0) = ix.files[d]
        BY <3>1 DEF SatAdd
      <3> QED
        BY <2>1, <3>2 DEF Carried
    <2>9. CASE m \in F
      <3>1. g[F] = ix.size[m] + g[G] /\ h[F] = jx.size[m] + h[G]
        <4>1. g[F] = ix.size[m] + g[F \ {m}]
          <5> HIDE DEF F
          <5> QED
            BY <1>1, <1>3, <2>3, <2>9, SumTakes
        <4>2. h[F] = jx.size[m] + h[F \ {m}]
          <5> HIDE DEF F
          <5> QED
            BY <1>2, <1>3, <2>3, <2>9, SumTakes
        <4> QED
          BY <4>1, <4>2
      <3>2. jx.size[d] = SatAdd(ix.size[d], jx.size[m] - ix.size[m])
        BY <2>1, <2>7, <2>9 DEF Carried
      <3> HIDE DEF F, G
      <3>3. ix.size[m] \in Nat /\ jx.size[m] \in Nat
        BY <1>3
      <3>4. SatAdd(ix.size[d], jx.size[m] - ix.size[m]) = h[F]
        BY <2>4, <2>6, <3>1, <3>3 DEF SatAdd
      <3> QED
        BY <2>2, <2>4, <2>8, <3>2, <3>4
    <2>10. CASE m \notin F
      <3>1. G = F
        BY <2>10
      <3>2. jx.size[d] = ix.size[d]
        BY <2>1, <2>7, <2>10 DEF Carried
      <3> QED
        BY <2>2, <2>4, <2>6, <2>8, <3>1, <3>2
    <2> QED
      BY <2>9, <2>10
  <1> QED
    BY <1>2, <1>7 DEF Told

\* A node comes in: a file with its size and one for the count, a folder empty.
LEMMA TotalsAdded ==
    ASSUME NEW ix \in IndexType, NEW jx \in IndexType, Rooted(ix), Rooted(jx), Recounted(ix),
           FlagsSound(ix), NEW m \in Node, m = ix.n, jx.n = m + 1, Hung(ix, jx, m),
           jx.excl = ix.excl, jx.del = ix.del,
           \/ /\ jx.dir = ix.dir \cup {m} /\ jx.size[m] = 0 /\ jx.files[m] = 0
              /\ Carried(ix, jx, {}, 0, 0, m)
           \/ /\ jx.dir = ix.dir
              /\ Carried(ix, jx, Ancestors(jx, m), jx.size[m], 1, m)
    PROVE  Recounted(jx)
  <1>1. PICK g : AddsUp(g, Node, ix.size) /\ Told(ix, g)
    BY ToldIs
  <1>2. PICK h : AddsUp(h, Node, jx.size) /\ (Recounted(jx) <=> Told(jx, h))
    BY ToldIs
  <1>3. /\ ix.size \in [Node -> Nat] /\ jx.size \in [Node -> Nat] /\ IsFiniteSet(Node)
        /\ ix.files \in [Node -> Nat] /\ Live(ix) \subseteq Node /\ Live(jx) \subseteq Node
    BY LiveNodes DEF IndexType
  <1>4. /\ Live(jx) = Live(ix) \cup {m} /\ m \notin Live(ix)
        /\ m \notin ix.dir /\ m \notin ix.excl /\ m # NoNode
    <2>1. m \in Nat /\ m \notin 0 .. m - 1 /\ 0 .. m = (0 .. m - 1) \cup {m} /\ m + 1 - 1 = m
      BY DEF Node
    <2>2. m \notin ix.dir /\ m \notin ix.excl /\ m \notin ix.del
      BY <2>1 DEF FlagsSound
    <2> QED
      BY <2>1, <2>2, IndexAssumption DEF Live
  <1>5. \A x \in Live(ix) : Ancestors(jx, x) = Ancestors(ix, x) /\ m \notin Ancestors(ix, x)
    <2> SUFFICES ASSUME NEW x \in Live(ix)
                 PROVE  Ancestors(jx, x) = Ancestors(ix, x) /\ m \notin Ancestors(ix, x)
      OBVIOUS
    <2>1. x \in Node /\ x # m /\ m \notin Ancestors(ix, x)
      BY <1>3, <1>4, RootedIs
    <2> QED
      BY <1>4, <2>1, Aside
  <1>6. \A a \in Ancestors(jx, m) : a \in jx.dir /\ a \in Node
    BY <1>4, RootedIs
  <1>7. ASSUME NEW d \in ShownFolders(jx)
        PROVE  jx.size[d] = h[FilesBelow(jx, d)] /\ jx.files[d] = Cardinality(FilesBelow(jx, d))
    <2> DEFINE F == FilesBelow(ix, d)
               G == FilesBelow(jx, d)
    <2>0. d \in Node
      BY <1>3 DEF ShownFolders
    <2>1. F \in SUBSET Node /\ G \in SUBSET Node /\ IsFiniteSet(F) /\ m \notin F
      <3>1. F \in SUBSET Node /\ G \in SUBSET Node
        BY LiveNodes
      <3>2. m \notin F
        BY <1>4 DEF FilesBelow
      <3> QED
        BY <1>3, <3>1, <3>2, FS_Subset
    <2>2. \A f \in F : jx.size[f] = ix.size[f]
      <3> SUFFICES ASSUME NEW f \in F
                   PROVE  jx.size[f] = ix.size[f]
        OBVIOUS
      <3>1. f \in Node /\ f # m /\ f \notin ix.dir
        BY <2>1 DEF FilesBelow
      <3> QED
        BY <1>6, <3>1 DEF Carried
    <2>3. h[F] = g[F] /\ g[F] \in Nat
      <3>1. g[F] \in Nat
        BY <1>1, <2>1 DEF AddsUp
      <3> HIDE DEF F
      <3> QED
        BY <1>1, <1>2, <1>3, <2>1, <2>2, <3>1, SumAgrees
    <2>4. CASE d = m
      <3>1. jx.dir = ix.dir \cup {m} /\ jx.size[m] = 0 /\ jx.files[m] = 0
        BY <1>4, <2>4 DEF ShownFolders
      <3>2. G = {}
        BY <1>4, <1>5, <2>4, <3>1 DEF FilesBelow
      <3>3. h[{}] = 0
        BY <1>2 DEF AddsUp
      <3> QED
        BY <2>4, <3>1, <3>2, <3>3, FS_EmptySet
    <2>5. CASE d # m
      <3>1. d \in ShownFolders(ix)
        BY <1>4, <2>5 DEF ShownFolders
      <3>2. ix.size[d] = g[F] /\ ix.files[d] = Cardinality(F)
        BY <1>1, <3>1 DEF Told
      <3>3. CASE jx.dir = ix.dir /\ d \in Ancestors(jx, m)
        <4>1. G = F \cup {m}
          BY <1>4, <1>5, <3>3 DEF FilesBelow
        <4>2. h[G] = jx.size[m] + h[F]
          <5>1. m \in G /\ G \ {m} = F
            BY <2>1, <4>1
          <5>2. h[G] = jx.size[m] + h[G \ {m}]
            <6> HIDE DEF F, G
            <6> QED
              BY <1>2, <1>3, <2>1, <5>1, SumTakes
          <5> QED
            BY <5>1, <5>2
        <4>3. Cardinality(G) = Cardinality(F) + 1 /\ Cardinality(F) \in Nat
          <5> HIDE DEF F, G
          <5> QED
            BY <2>1, <4>1, FS_AddElement, FS_CardinalityType
        <4>4. jx.size[d] = SatAdd(ix.size[d], jx.size[m]) /\ jx.files[d] = SatAdd(ix.files[d], 1)
          <5>1. Carried(ix, jx, Ancestors(jx, m), jx.size[m], 1, m)
            BY <1>4, <3>3
          <5> QED
            BY <2>0, <2>5, <3>3, <5>1 DEF Carried
        <4> HIDE DEF F, G
        <4>5. jx.size[m] \in Nat
          BY <1>3
        <4>6. SatAdd(ix.size[d], jx.size[m]) = h[G]
          BY <2>3, <3>2, <4>2, <4>5 DEF SatAdd
        <4>7. SatAdd(ix.files[d], 1) = Cardinality(G)
          BY <3>2, <4>3 DEF SatAdd
        <4> QED
          BY <4>4, <4>6, <4>7 DEF G
      <3>4. CASE ~(jx.dir = ix.dir /\ d \in Ancestors(jx, m))
        <4>1. G = F
          BY <1>4, <1>5, <3>4 DEF FilesBelow
        <4>2. jx.size[d] = ix.size[d] /\ jx.files[d] = ix.files[d]
          BY <2>0, <2>5, <3>4 DEF Carried
        <4> QED
          BY <2>3, <3>2, <4>1, <4>2
      <3> QED
        BY <3>3, <3>4
    <2> QED
      BY <2>4, <2>5
  <1> QED
    BY <1>2, <1>7 DEF Told

\* What is below a node that moves, and below a folder before and after.
BothReach(ix, jx, L, root) ==
    \A x \in L : Reaches(ix, x, root) /\ Reaches(jx, x, root)

NowBelow(ix, jx, m, L, d) ==
    /\ \A x \in L : x # m /\ m \notin Ancestors(ix, x) =>
          (d \in Ancestors(jx, x) <=> d \in Ancestors(ix, x))
    /\ \A x \in L : x = m \/ m \in Ancestors(ix, x) =>
          /\ d \in Ancestors(jx, x) <=>
               \/ d \in Ancestors(jx, m)
               \/ d \in Ancestors(ix, x) /\ d \notin Ancestors(ix, m)
          /\ d \in Ancestors(ix, m) => d \in Ancestors(ix, x)
          /\ d \in Ancestors(jx, m) /\ d \notin Ancestors(ix, m)
               => d \notin Ancestors(ix, x)

LEMMA BelowMoved ==
    ASSUME NEW ix \in IndexType, NEW jx \in IndexType, NEW root,
           NEW m \in Node, m # root, Hung(ix, jx, m),
           NEW L, L \subseteq Node, m \in L, BothReach(ix, jx, L, root), NEW d \in L
    PROVE  NowBelow(ix, jx, m, L, d)
  <1> USE DEF BothReach
  <1>0. m # NoNode
    BY IndexAssumption DEF Node
  <1>1. ASSUME NEW x \in L, x # m, m \notin Ancestors(ix, x)
        PROVE  d \in Ancestors(jx, x) <=> d \in Ancestors(ix, x)
    BY <1>0, <1>1, Aside
  <1>2. ASSUME NEW x \in L, x # m, m \in Ancestors(ix, x)
        PROVE  d \in Ancestors(jx, x) <=>
                 \/ d \in Ancestors(jx, m)
                 \/ d \in Ancestors(ix, x) /\ d \notin Ancestors(ix, m)
    BY <1>2, Along
  <1>3. ASSUME NEW x \in L, x # m, m \in Ancestors(ix, x), d \in Ancestors(ix, m)
        PROVE  d \in Ancestors(ix, x)
    BY <1>3, FromAbove
  <1>4. ASSUME NEW x \in L, x # m, m \in Ancestors(ix, x),
               d \in Ancestors(jx, m), d \notin Ancestors(ix, m), d \in Ancestors(ix, x)
        PROVE  FALSE
    <2>1. m \notin Ancestors(jx, m)
      BY SelfApart
    <2>2. d # m
      BY <1>4, <2>1
    <2>3. m \in Ancestors(ix, d)
      BY <1>4, <2>2, InLine
    <2>4. m \in Ancestors(jx, d)
      BY <2>2, <2>3, Along
    <2>5. d # root
      <3> SUFFICES ASSUME d = root
                   PROVE  FALSE
        OBVIOUS
      <3>1. Ancestors(ix, root) = {root}
        BY RootAlone DEF Reaches
      <3> QED
        BY <2>3, <3>1
    <2>6. Ancestors(jx, d) \subseteq Ancestors(jx, m)
      BY <1>4, <2>5, FromAbove
    <2> QED
      BY <2>1, <2>4, <2>6
  <1>5. m \notin Ancestors(ix, m)
    BY SelfApart
  <1> QED
    BY <1>1, <1>2, <1>3, <1>4, <1>5 DEF NowBelow

\* A node gets another folder: its weight leaves the old ancestors for the new.
LEMMA TotalsMoved ==
    ASSUME NEW ix \in IndexType, NEW kx \in IndexType, NEW jx \in IndexType,
           Rooted(ix), Rooted(jx), Recounted(ix),
           NEW m \in Live(ix), m \notin ix.excl, Hung(ix, jx, m), jx.parent[m] # ix.parent[m],
           jx.n = ix.n, jx.dir = ix.dir, jx.excl = ix.excl, jx.del = ix.del, jx.rec = ix.rec,
           Carried(ix, kx, Ancestors(ix, m), - ix.size[m], - FilesOf(ix, m), NoNode),
           Carried(kx, jx, Ancestors(jx, m), ix.size[m], FilesOf(ix, m), NoNode)
    PROVE  Recounted(jx)
  <1> DEFINE root == ix.rec[RootRec]
             Seen == Live(ix) \ (ix.dir \cup ix.excl)
             S == {x \in Seen : x = m \/ m \in Ancestors(ix, x)}
  <1>1. PICK g : AddsUp(g, Node, ix.size) /\ Told(ix, g)
    BY ToldIs
  <1>2. PICK h : AddsUp(h, Node, jx.size) /\ (Recounted(jx) <=> Told(jx, h))
    BY ToldIs
  <1>3. /\ ix.size \in [Node -> Nat] /\ jx.size \in [Node -> Nat] /\ IsFiniteSet(Node)
        /\ ix.files \in [Node -> Nat] /\ m \in Node /\ Live(jx) = Live(ix)
        /\ Live(ix) \subseteq Node /\ NoNode \notin Node
    <2>1. Live(jx) = Live(ix)
      BY DEF Live
    <2>2. Live(ix) \subseteq Node /\ IsFiniteSet(Node)
      BY LiveNodes
    <2>3. NoNode \notin Node
      BY IndexAssumption DEF Node
    <2>4. ix.size \in [Node -> Nat] /\ jx.size \in [Node -> Nat] /\ ix.files \in [Node -> Nat]
      BY DEF IndexType
    <2> QED
      BY <2>1, <2>2, <2>3, <2>4
  <1>4. \A x \in Live(ix) : Reaches(ix, x, root) /\ Reaches(jx, x, root)
    BY <1>3, RootedIs
  <1>5. m # root
    BY <1>4 DEF Reaches, IsRoot
  <1>6. /\ \A x \in Live(ix) : \A a \in Ancestors(ix, x) : a \in ix.dir
        /\ \A x \in Live(ix) : \A a \in Ancestors(jx, x) : a \in ix.dir
    BY <1>3, RootedIs
  <1>7. S \in SUBSET Node /\ IsFiniteSet(S) /\ Cardinality(S) \in Nat /\ g[S] \in Nat
    <2>1. S \in SUBSET Node
      BY <1>3
    <2> HIDE DEF S
    <2> QED
      BY <1>1, <1>3, <2>1, FS_Subset, FS_CardinalityType DEF AddsUp
  <1>8. ix.size[m] = g[S] /\ FilesOf(ix, m) = Cardinality(S)
    <2>1. CASE m \notin ix.dir
      <3>1. S = {m}
        BY <1>6, <2>1
      <3>2. g[S] = ix.size[m] + g[S \ {m}] /\ S \ {m} = {}
        <4> HIDE DEF S
        <4> QED
          BY <1>1, <1>3, <1>7, <3>1, SumTakes
      <3>3. g[{}] = 0 /\ ix.size[m] \in Nat
        BY <1>1, <1>3 DEF AddsUp
      <3>4. Cardinality(S) = 1
        <4> HIDE DEF S
        <4> QED
          BY <3>1, FS_Singleton
      <3>5. FilesOf(ix, m) = 1
        BY <2>1 DEF FilesOf
      <3>6. g[S \ {m}] = 0
        BY <3>2, <3>3
      <3> HIDE DEF S
      <3> QED
        BY <3>2, <3>3, <3>4, <3>5, <3>6
    <2>2. CASE m \in ix.dir
      <3>1. S = FilesBelow(ix, m)
        BY <2>2 DEF FilesBelow
      <3>2. m \in ShownFolders(ix)
        BY <2>2 DEF ShownFolders
      <3>3. /\ ix.size[m] = g[FilesBelow(ix, m)]
            /\ ix.files[m] = Cardinality(FilesBelow(ix, m))
        BY <1>1, <3>2 DEF Told
      <3>4. FilesOf(ix, m) = ix.files[m]
        BY <2>2 DEF FilesOf
      <3> HIDE DEF S
      <3> QED
        BY <3>1, <3>3, <3>4
    <2> QED
      BY <2>1, <2>2
  <1>9. ASSUME NEW d \in ShownFolders(jx)
        PROVE  jx.size[d] = h[FilesBelow(jx, d)] /\ jx.files[d] = Cardinality(FilesBelow(jx, d))
    <2> DEFINE F == FilesBelow(ix, d)
               G == FilesBelow(jx, d)
               R == F \ S
               P == d \in Ancestors(ix, m)
               Q == d \in Ancestors(jx, m)
    <2>1. d \in ShownFolders(ix) /\ d \in Live(ix) /\ d \in Node
      BY <1>3 DEF ShownFolders
    <2>2. /\ F = {x \in Seen : d \in Ancestors(ix, x)}
          /\ G = {x \in Seen : d \in Ancestors(jx, x)}
      BY <1>3 DEF FilesBelow
    <2>3. /\ \A x \in Live(ix) : x # m /\ m \notin Ancestors(ix, x) =>
                (d \in Ancestors(jx, x) <=> d \in Ancestors(ix, x))
          /\ \A x \in Live(ix) : x = m \/ m \in Ancestors(ix, x) =>
                /\ d \in Ancestors(jx, x) <=> Q \/ (d \in Ancestors(ix, x) /\ ~P)
                /\ P => d \in Ancestors(ix, x)
                /\ Q /\ ~P => d \notin Ancestors(ix, x)
      <3> DEFINE L == Live(ix)
      <3>1. L \subseteq Node /\ m \in L /\ d \in L /\ m \in Node
        BY <1>3, <2>1
      <3>2. BothReach(ix, jx, L, root)
        BY <1>4 DEF BothReach
      <3> HIDE DEF root, L
      <3>3. NowBelow(ix, jx, m, L, d)
        BY <1>5, <3>1, <3>2, BelowMoved
      <3> QED
        BY <3>3 DEF L, NowBelow
    <2>4. /\ P => F = R \cup S
          /\ Q => G = R \cup S
          /\ P /\ ~Q => G = R
          /\ ~P /\ Q => F = R
          /\ ~P /\ ~Q => G = F
      <3>1. \A x \in Seen : x \in F <=> d \in Ancestors(ix, x)
        BY <2>2
      <3>2. \A x \in Seen : x \in G <=> d \in Ancestors(jx, x)
        BY <2>2
      <3>3. \A x \in Seen : x \in S <=> x = m \/ m \in Ancestors(ix, x)
        OBVIOUS
      <3>4. F \subseteq Seen /\ G \subseteq Seen /\ S \subseteq Seen /\ Seen \subseteq Live(ix)
        BY <2>2
      <3> HIDE DEF F, G, S, Seen, P, Q
      <3> QED
        BY <2>3, <3>1, <3>2, <3>3, <3>4
    <2>5. F \in SUBSET Node /\ G \in SUBSET Node /\ R \in SUBSET Node /\ R \cap S = {}
      BY LiveNodes
    <2>6. \A f \in G : jx.size[f] = ix.size[f]
      <3> SUFFICES ASSUME NEW f \in G
                   PROVE  jx.size[f] = ix.size[f]
        OBVIOUS
      <3>1. f \in Node /\ f # NoNode /\ f \notin ix.dir
        BY <1>3, <2>2
      <3> QED
        BY <1>6, <3>1 DEF Carried
    <2>7. h[G] = g[G]
      <3> HIDE DEF G
      <3> QED
        BY <1>1, <1>2, <1>3, <2>5, <2>6, SumAgrees
    <2>8. ix.size[d] = g[F] /\ ix.files[d] = Cardinality(F)
      BY <1>1, <2>1 DEF Told
    <2>9. g[R] \in Nat /\ g[F] \in Nat /\ Cardinality(R) \in Nat /\ Cardinality(F) \in Nat
      <3> HIDE DEF R, F
      <3> QED
        BY <1>1, <1>3, <2>5, FS_Subset, FS_CardinalityType DEF AddsUp
    <2>10. g[R \cup S] = g[R] + g[S]
      <3> HIDE DEF R, S
      <3> QED
        BY <1>1, <1>3, <1>7, <2>5, SumJoins
    <2>11. Cardinality(R \cup S) = Cardinality(R) + Cardinality(S)
      <3> HIDE DEF R, S
      <3>1. IsFiniteSet(R) /\ IsFiniteSet(S)
        BY <1>3, <1>7, <2>5, FS_Subset
      <3>2. Cardinality(R \cup S) = Cardinality(R) + Cardinality(S) - Cardinality(R \cap S)
        BY <3>1, FS_Union
      <3>3. Cardinality(R \cap S) = 0
        BY <2>5, FS_EmptySet
      <3> QED
        BY <1>7, <2>9, <3>2, <3>3
    <2>12. /\ kx.size[d] = IF P THEN SatAdd(g[F], - g[S]) ELSE g[F]
           /\ kx.files[d] = IF P THEN SatAdd(Cardinality(F), - Cardinality(S)) ELSE Cardinality(F)
      BY <1>3, <1>8, <2>1, <2>8 DEF Carried
    <2>13. /\ jx.size[d] = IF Q THEN SatAdd(kx.size[d], g[S]) ELSE kx.size[d]
           /\ jx.files[d] = IF Q THEN SatAdd(kx.files[d], Cardinality(S)) ELSE kx.files[d]
      BY <1>3, <1>8, <2>1 DEF Carried
    <2> HIDE DEF F, G, R, S, P, Q
    <2>14. CASE P /\ Q
      <3>1. g[F] = g[R] + g[S] /\ g[G] = g[F] /\ Cardinality(F) = Cardinality(R) + Cardinality(S)
            /\ Cardinality(G) = Cardinality(F)
        BY <2>4, <2>10, <2>11, <2>14
      <3> QED
        BY <1>7, <2>7, <2>9, <2>12, <2>13, <2>14, <3>1 DEF SatAdd, G
    <2>15. CASE P /\ ~Q
      <3>1. g[F] = g[R] + g[S] /\ g[G] = g[R] /\ Cardinality(F) = Cardinality(R) + Cardinality(S)
            /\ Cardinality(G) = Cardinality(R)
        BY <2>4, <2>10, <2>11, <2>15
      <3> QED
        BY <1>7, <2>7, <2>9, <2>12, <2>13, <2>15, <3>1 DEF SatAdd, G
    <2>16. CASE ~P /\ Q
      <3>1. g[G] = g[R] + g[S] /\ g[F] = g[R] /\ Cardinality(G) = Cardinality(R) + Cardinality(S)
            /\ Cardinality(F) = Cardinality(R)
        BY <2>4, <2>10, <2>11, <2>16
      <3> QED
        BY <1>7, <2>7, <2>9, <2>12, <2>13, <2>16, <3>1 DEF SatAdd, G
    <2>17. CASE ~P /\ ~Q
      <3>1. G = F
        BY <2>4, <2>17
      <3> QED
        BY <2>7, <2>12, <2>13, <2>17, <3>1 DEF G
    <2> QED
      BY <2>14, <2>15, <2>16, <2>17
  <1> QED
    BY <1>2, <1>3, <1>9 DEF Told

-----------------------------------------------------------------------------
(***************************************************************************)
(* The record table.                                                       *)
(***************************************************************************)
Good(ix, jx) ==
    /\ jx \in IndexType
    /\ ix.n <= jx.n
    /\ ix.del \subseteq jx.del
    /\ \A m \in 0 .. ix.n - 1 : jx.seq[m] = ix.seq[m] /\ (m \in jx.dir <=> m \in ix.dir)
    /\ \A r \in Rec : ix.rec[r] # NoNode /\ jx.rec[r] # ix.rec[r] => ix.rec[r] \in jx.del
    /\ RecordTableSound(ix) => RecordTableSound(jx)

\* The fields Good looks at are those of ix.
SameTable(ix, jx) ==
    /\ jx.n = ix.n /\ jx.del = ix.del /\ jx.rec = ix.rec
    /\ jx.seq = ix.seq /\ jx.dir = ix.dir

-----------------------------------------------------------------------------
\* An update that leaves the table alone is Good.
LEMMA SameTableGood ==
    ASSUME NEW ix \in IndexType, NEW jx \in IndexType, SameTable(ix, jx)
    PROVE  Good(ix, jx)
  BY DEF Good, SameTable, RecordTableSound, Live, IndexType

\* Good steps compose.
LEMMA GoodTransitive ==
    ASSUME NEW ix \in IndexType, NEW jx, NEW kx, Good(ix, jx), Good(jx, kx)
    PROVE  Good(ix, kx)
  <1>1. jx \in IndexType /\ kx \in IndexType
    BY DEF Good
  <1>2. ix.n \in Nat /\ jx.n \in Nat /\ kx.n \in Nat
    BY <1>1, IndexAssumption DEF IndexType
  <1>3. \A m \in 0 .. ix.n - 1 : m \in 0 .. jx.n - 1
    BY <1>2 DEF Good
  <1> QED
    BY <1>1, <1>2, <1>3 DEF Good

-----------------------------------------------------------------------------
\* A total stays a natural number, saturating as saturating_add_signed does.
LEMMA SatAddType ==
    ASSUME NEW a \in Nat, NEW d \in Int
    PROVE  SatAdd(a, d) \in Nat
  BY DEF SatAdd

\* The product of the turns of a climb and a delta is an integer.
LEMMA TurnsType ==
    ASSUME NEW at, NEW a, NEW d \in Int
    PROVE  Cardinality({k \in 0 .. ClimbGuard : at[k] = a}) * d \in Int
  <1>1. IsFiniteSet(0 .. ClimbGuard)
    BY FS_Interval, IndexAssumption
  <1>2. Cardinality({k \in 0 .. ClimbGuard : at[k] = a}) \in Nat
    BY <1>1, FS_Subset, FS_CardinalityType
  <1> DEFINE c == Cardinality({k \in 0 .. ClimbGuard : at[k] = a})
  <1>3. c \in Int
    BY <1>2
  <1> HIDE DEF c
  <1>4. c * d \in Int
    BY <1>3
  <1> QED
    BY <1>4 DEF c

\* propagate changes the three totals only, and keeps them natural.
LEMMA PropagateGood ==
    ASSUME NEW ix \in IndexType, NEW m, NEW ds \in Int, NEW da \in Int, NEW df \in Int
    PROVE  LET jx == Propagate(ix, m, ds, da, df)
           IN  /\ jx \in IndexType
               /\ SameTable(ix, jx)
               /\ jx.parent = ix.parent /\ jx.name = ix.name
               /\ jx.excl = ix.excl /\ jx.depth = ix.depth
  <1> DEFINE at == Climb(ix, m)
             turns(a) == Cardinality({k \in 0 .. ClimbGuard : at[k] = a})
             size == [a \in Node |-> SatAdd(ix.size[a], turns(a) * ds)]
             alloc == [a \in Node |-> SatAdd(ix.alloc[a], turns(a) * da)]
             files == [a \in Node |-> SatAdd(ix.files[a], turns(a) * df)]
  <1>1. \A a \in Node : turns(a) * ds \in Int /\ turns(a) * da \in Int /\ turns(a) * df \in Int
    BY TurnsType
  <1>2. \A a \in Node : ix.size[a] \in Nat /\ ix.alloc[a] \in Nat /\ ix.files[a] \in Nat
    BY DEF IndexType
  <1> HIDE DEF turns
  <1>3. size \in [Node -> Nat] /\ alloc \in [Node -> Nat] /\ files \in [Node -> Nat]
    BY <1>1, <1>2, SatAddType
  <1>4. Propagate(ix, m, ds, da, df) =
          [ix EXCEPT !.size = size, !.alloc = alloc, !.files = files]
    BY DEF Propagate, turns
  <1> HIDE DEF size, alloc, files
  <1> QED
    BY <1>3, <1>4 DEF IndexType, SameTable

-----------------------------------------------------------------------------
\* The primitive updates of the node table.
LEMMA FilesOfType ==
    ASSUME NEW ix \in IndexType, NEW m \in Node
    PROVE  FilesOf(ix, m) \in Nat
  BY DEF FilesOf, IndexType

LEMMA DetachGood ==
    ASSUME NEW ix \in IndexType, NEW m \in Node
    PROVE  /\ Detach(ix, m) \in IndexType
           /\ SameTable(ix, Detach(ix, m))
  <1>1. - ix.size[m] \in Int /\ - ix.alloc[m] \in Int /\ - FilesOf(ix, m) \in Int
    BY FilesOfType DEF IndexType
  <1> QED
    BY <1>1, PropagateGood DEF Detach

LEMMA AttachGood ==
    ASSUME NEW ix \in IndexType, NEW of \in IndexType, NEW m \in Node
    PROVE  /\ Attach(ix, m, of) \in IndexType
           /\ SameTable(ix, Attach(ix, m, of))
  <1>1. of.size[m] \in Int /\ of.alloc[m] \in Int /\ FilesOf(of, m) \in Int
    BY FilesOfType DEF IndexType
  <1> QED
    BY <1>1, PropagateGood DEF Attach

\* A tombstone empties the node and leaves its record slot to the caller.
LEMMA TombstoneGood ==
    ASSUME NEW ix \in IndexType, NEW m \in Node
    PROVE  /\ Good(ix, Tombstone(ix, m))
           /\ Tombstone(ix, m).rec = ix.rec
           /\ Tombstone(ix, m).n = ix.n
           /\ Tombstone(ix, m).seq = ix.seq
           /\ m \in Tombstone(ix, m).del
  <1>1. Tombstone(ix, m) \in IndexType
    BY DEF Tombstone, IndexType
  <1> QED
    BY <1>1 DEF Good, Tombstone, IndexType, RecordTableSound, Live

\* A slot may be cleared once the node it names is a tombstone.
LEMMA ClearRecordGood ==
    ASSUME NEW ix \in IndexType, NEW r \in Rec,
           ix.rec[r] = NoNode \/ ix.rec[r] \in ix.del
    PROVE  /\ Good(ix, ClearRecord(ix, r))
           /\ ClearRecord(ix, r).rec[r] = NoNode
           /\ ClearRecord(ix, r).n = ix.n
  <1>1. ClearRecord(ix, r) \in IndexType
    BY DEF ClearRecord, IndexType
  <1> DEFINE jx == ClearRecord(ix, r)
  <1>2. /\ jx.n = ix.n /\ jx.del = ix.del /\ jx.seq = ix.seq /\ jx.dir = ix.dir
        /\ jx.rec[r] = NoNode
        /\ \A q \in Rec : q # r => jx.rec[q] = ix.rec[q]
    BY DEF ClearRecord, IndexType
  <1>3. ix.n \in Nat
    BY IndexAssumption DEF IndexType
  <1> HIDE DEF jx
  <1>4. RecordTableSound(ix) => RecordTableSound(jx)
    BY <1>2 DEF RecordTableSound, Live
  <1>5. Good(ix, jx)
    BY <1>1, <1>2, <1>3, <1>4 DEF Good, jx
  <1> QED
    BY <1>2, <1>5 DEF jx

LEMMA RetireGood ==
    ASSUME NEW ix \in IndexType, NEW m \in Node
    PROVE  /\ Good(ix, Retire(ix, m))
           /\ Retire(ix, m).rec = ix.rec
           /\ Retire(ix, m).n = ix.n
           /\ m \in Retire(ix, m).del
  <1>1. CASE m \in ix.del
    BY <1>1, SameTableGood DEF Retire, SameTable
  <1>2. CASE m \notin ix.del /\ m \in ix.excl
    BY <1>2, TombstoneGood DEF Retire
  <1>3. CASE m \notin ix.del /\ m \notin ix.excl
    <2>1. Detach(ix, m) \in IndexType /\ SameTable(ix, Detach(ix, m))
      BY DetachGood
    <2>2. Good(ix, Detach(ix, m))
      BY <2>1, SameTableGood
    <2>3. Retire(ix, m) = Tombstone(Detach(ix, m), m)
      BY <1>3 DEF Retire
    <2>4. Good(Detach(ix, m), Tombstone(Detach(ix, m), m))
      BY <2>1, TombstoneGood
    <2>5. Good(ix, Retire(ix, m))
      BY <2>2, <2>3, <2>4, GoodTransitive
    <2> QED
      BY <2>1, <2>3, <2>5, TombstoneGood DEF SameTable
  <1> QED
    BY <1>1, <1>2, <1>3

\* resolve_record: it answers with the node in the slot it leaves behind, or
\* with nothing, and then that slot is free.
LEMMA ResolvedGood ==
    ASSUME NEW ix \in IndexType, NEW r \in Rec, NEW s \in Nat
    PROVE  /\ Good(ix, Resolved(ix, r, s))
           /\ Resolved(ix, r, s).n = ix.n
           /\ \/ /\ Found(ix, r, s) = NoNode
                 /\ Resolved(ix, r, s).rec[r] = NoNode
              \/ /\ Found(ix, r, s) \in Node
                 /\ Found(ix, r, s) = Resolved(ix, r, s).rec[r]
  <1> DEFINE m == ix.rec[r]
  <1>1. NodeOfRecord(ix, r) = m /\ m \in Node \cup {NoNode} /\ NoNode \notin Node
    BY IndexAssumption DEF NodeOfRecord, IndexType, Node
  <1>2. Good(ix, ix)
    BY SameTableGood DEF SameTable
  <1>3. CASE m = NoNode \/ Matches(ix, r, s)
    BY <1>1, <1>2, <1>3 DEF Resolved, Found, Matches
  <1>4. CASE m # NoNode /\ ~Matches(ix, r, s)
    <2>1. /\ Good(ix, Retire(ix, m)) /\ Retire(ix, m).rec = ix.rec
          /\ Retire(ix, m).n = ix.n /\ m \in Retire(ix, m).del
      BY <1>1, <1>4, RetireGood
    <2>2. Retire(ix, m) \in IndexType
      BY <2>1 DEF Good
    <2>3. /\ Good(Retire(ix, m), ClearRecord(Retire(ix, m), r))
          /\ ClearRecord(Retire(ix, m), r).rec[r] = NoNode
          /\ ClearRecord(Retire(ix, m), r).n = Retire(ix, m).n
      BY <2>1, <2>2, ClearRecordGood
    <2>4. Resolved(ix, r, s) = ClearRecord(Retire(ix, m), r)
      BY <1>1, <1>4 DEF Resolved
    <2>5. Good(ix, Resolved(ix, r, s))
      BY <2>1, <2>3, <2>4, GoodTransitive
    <2> QED
      BY <1>1, <1>4, <2>1, <2>3, <2>4, <2>5 DEF Found
  <1> QED
    BY <1>3, <1>4

-----------------------------------------------------------------------------
\* A new node takes a slot that is free, or whose node is a tombstone.
LEMMA AppendGood ==
    ASSUME NEW ix \in IndexType, ix.n < MaxNodes,
           NEW r \in Rec, NEW s \in Nat, NEW p \in Node, NEW nm \in Name,
           NEW isDir \in BOOLEAN, NEW sz \in Nat,
           ix.rec[r] = NoNode \/ ix.rec[r] \in ix.del
    PROVE  Good(ix, AppendNode(ix, r, s, p, nm, isDir, sz))
  <1> DEFINE m  == ix.n
             w  == IF isDir THEN 0 ELSE sz
             ds == IF isDir THEN ix.dir \cup {m} ELSE ix.dir
             dp == ix.depth[p] + 1
             kx == [ix EXCEPT !.n = m + 1,
                      !.parent[m] = p, !.name[m] = nm, !.seq[m] = s,
                      !.dir = ds,
                      !.size[m] = w, !.alloc[m] = w, !.files[m] = 0,
                      !.depth[m] = dp]
             jx == SetRecord(kx, r, m)
  <1>1. /\ m \in Node /\ m \in Nat /\ m + 1 \in 0 .. MaxNodes
        /\ w \in Nat /\ dp \in Nat /\ ds \in SUBSET Node
        /\ \A k \in 0 .. m - 1 : k \in ds <=> k \in ix.dir
    <2>1. m \in 0 .. MaxNodes /\ ix.depth[p] \in Nat /\ ix.dir \in SUBSET Node
      BY DEF IndexType
    <2>2. m \in Node /\ m \in Nat /\ m + 1 \in 0 .. MaxNodes
      BY <2>1, IndexAssumption DEF Node
    <2>3. CASE isDir
      BY <2>1, <2>2, <2>3
    <2>4. CASE ~isDir
      BY <2>1, <2>2, <2>4
    <2> QED
      BY <2>3, <2>4
  <1> HIDE DEF w, ds, dp
  <1>2. kx \in IndexType
    BY <1>1 DEF IndexType
  <1>3. /\ kx.n = m + 1 /\ kx.del = ix.del /\ kx.rec = ix.rec
        /\ \A k \in 0 .. m - 1 : kx.seq[k] = ix.seq[k] /\ (k \in kx.dir <=> k \in ix.dir)
    BY <1>1 DEF IndexType
  <1> HIDE DEF kx
  <1>4. jx \in IndexType
    BY <1>1, <1>2 DEF SetRecord, IndexType
  <1>5. /\ jx.n = m + 1 /\ jx.del = ix.del /\ jx.seq = kx.seq /\ jx.dir = kx.dir
        /\ jx.rec[r] = m
        /\ \A q \in Rec : q # r => jx.rec[q] = ix.rec[q]
    BY <1>2, <1>3 DEF SetRecord, IndexType
  <1> HIDE DEF jx
  <1>6. m # NoNode
    BY <1>1, IndexAssumption
  <1>7. RecordTableSound(ix) => RecordTableSound(jx)
    <2> SUFFICES ASSUME RecordTableSound(ix)
                 PROVE  RecordTableSound(jx)
      OBVIOUS
    <2>1. \A q \in Rec : ix.rec[q] # NoNode => ix.rec[q] \in 0 .. m - 1
      <3> TAKE q \in Rec
      <3> HAVE ix.rec[q] # NoNode
      <3>1. ix.rec[q] \in Node /\ MaxNodes \in Nat
        BY IndexAssumption DEF IndexType
      <3>2. ix.rec[q] \in Nat
        BY <3>1 DEF Node
      <3>3. ix.rec[q] < m
        BY DEF RecordTableSound
      <3> HIDE DEF m
      <3> QED
        BY <3>2, <3>3, <1>1
    <2>2. \A q, t \in Rec : jx.rec[q] # NoNode /\ jx.rec[q] = jx.rec[t] => q = t
      BY <1>1, <1>5, <2>1 DEF RecordTableSound
    <2>3. \A q \in Rec : jx.rec[q] # NoNode => jx.rec[q] < jx.n
      BY <1>1, <1>5, <2>1
    <2>4. \A k \in Live(jx) : \E q \in Rec : jx.rec[q] = k
      <3> TAKE k \in Live(jx)
      <3>1. CASE k = m
        BY <3>1, <1>5
      <3>2. CASE k # m
        <4>1. k \in Live(ix)
          BY <3>2, <1>1, <1>5 DEF Live
        <4>2. PICK q \in Rec : ix.rec[q] = k
          BY <4>1 DEF RecordTableSound
        <4>3. q # r
          BY <4>1, <4>2, <1>1, IndexAssumption DEF Live
        <4> QED
          BY <4>2, <4>3, <1>5
      <3> QED
        BY <3>1, <3>2
    <2> QED
      BY <2>2, <2>3, <2>4 DEF RecordTableSound
  <1>8. Good(ix, jx)
    BY <1>1, <1>3, <1>4, <1>5, <1>7 DEF Good
  <1>9. CASE isDir
    BY <1>8, <1>9 DEF AppendNode, jx, kx, w, ds, dp
  <1>10. CASE ~isDir
    <2>1. AppendNode(ix, r, s, p, nm, isDir, sz) = Propagate(jx, m, sz, sz, 1)
      BY <1>10 DEF AppendNode, jx, kx, w, ds, dp
    <2>2. /\ Propagate(jx, m, sz, sz, 1) \in IndexType
          /\ SameTable(jx, Propagate(jx, m, sz, sz, 1))
      BY <1>4, PropagateGood
    <2>3. Good(jx, Propagate(jx, m, sz, sz, 1))
      BY <1>4, <2>2, SameTableGood
    <2> QED
      BY <1>8, <2>1, <2>3, GoodTransitive
  <1> QED
    BY <1>9, <1>10

-----------------------------------------------------------------------------
\* The four changes.
LEMMA ResizeGood ==
    ASSUME NEW ix \in IndexType, NEW c \in AnyChange
    PROVE  Good(ix, ApplyResize(ix, c))
  <1> DEFINE jx == Resolved(ix, c.rec, c.seq)
             m  == Found(ix, c.rec, c.seq)
             d  == c.size - jx.size[m]
  <1>1. c.rec \in Rec /\ c.seq \in Nat /\ c.size \in Nat
    BY DEF AnyChange
  <1>2. /\ Good(ix, jx) /\ jx \in IndexType
        /\ m = NoNode \/ m \in Node
    BY <1>1, ResolvedGood DEF Good
  <1> DEFINE kx == [jx EXCEPT !.size[m] = c.size]
             lx == [jx EXCEPT !.size[m] = c.size, !.alloc[m] = c.size]
  <1> HIDE DEF jx, m
  <1>3. CASE m = NoNode \/ m \in jx.del \cup jx.dir
    BY <1>2, <1>3 DEF ApplyResize, jx, m
  <1>4. CASE m # NoNode /\ m \notin jx.del \cup jx.dir /\ m \in jx.excl
    <2>1. ApplyResize(ix, c) = kx
      BY <1>4 DEF ApplyResize, jx, m
    <2>2. kx \in IndexType /\ SameTable(jx, kx)
      BY <1>1, <1>2, <1>4 DEF IndexType, SameTable
    <2>3. Good(jx, kx)
      BY <1>2, <2>2, SameTableGood
    <2> QED
      BY <1>2, <2>1, <2>3, GoodTransitive
  <1>5. CASE m # NoNode /\ m \notin jx.del \cup jx.dir /\ m \notin jx.excl
    <2>1. ApplyResize(ix, c) = Propagate(lx, m, d, d, 0)
      BY <1>5 DEF ApplyResize, jx, m
    <2>2. lx \in IndexType /\ SameTable(jx, lx) /\ d \in Int
      <3>1. m \in Node /\ jx.size[m] \in Nat
        BY <1>2, <1>5 DEF IndexType
      <3>2. d \in Int
        BY <3>1, <1>1
      <3>3. lx \in IndexType
        BY <3>1, <1>1, <1>2 DEF IndexType
      <3>4. SameTable(jx, lx)
        BY <1>2 DEF IndexType, SameTable
      <3> QED
        BY <3>2, <3>3, <3>4
    <2>3. Good(jx, lx)
      BY <1>2, <2>2, SameTableGood
    <2> HIDE DEF lx, d
    <2>4. /\ Propagate(lx, m, d, d, 0) \in IndexType
          /\ SameTable(lx, Propagate(lx, m, d, d, 0))
      BY <2>2, PropagateGood
    <2>5. Good(lx, Propagate(lx, m, d, d, 0))
      BY <2>2, <2>4, SameTableGood
    <2> QED
      BY <1>2, <2>1, <2>3, <2>5, GoodTransitive
  <1> QED
    BY <1>3, <1>4, <1>5

LEMMA NodeOfRecordType ==
    ASSUME NEW ix \in IndexType, NEW r
    PROVE  NodeOfRecord(ix, r) = NoNode \/ NodeOfRecord(ix, r) \in Node
  BY DEF NodeOfRecord, IndexType

LEMMA CreateGood ==
    ASSUME NEW ix \in IndexType, ix.n < MaxNodes, NEW c \in AnyChange
    PROVE  Good(ix, ApplyCreate(ix, c))
  <1> DEFINE jx == Resolved(ix, c.rec, c.seq)
             m  == Found(ix, c.rec, c.seq)
             p  == NodeOfRecord(jx, c.parent)
             ax == AppendNode(jx, c.rec, c.seq, p, c.name, c.dir, c.size)
  <1>1. /\ c.rec \in Rec /\ c.seq \in Nat /\ c.size \in Nat
        /\ c.name \in Name /\ c.dir \in BOOLEAN
    BY DEF AnyChange
  <1>2. /\ Good(ix, jx) /\ jx \in IndexType /\ jx.n = ix.n
        /\ \/ m = NoNode /\ jx.rec[c.rec] = NoNode
           \/ m \in Node /\ m = jx.rec[c.rec]
    <2>1. /\ Good(ix, jx) /\ jx.n = ix.n
          /\ \/ m = NoNode /\ jx.rec[c.rec] = NoNode
             \/ m \in Node /\ m = jx.rec[c.rec]
      BY <1>1, ResolvedGood
    <2>2. jx \in IndexType
      BY <2>1 DEF Good
    <2> QED
      BY <2>1, <2>2
  <1>3. p = NoNode \/ p \in Node
    BY <1>2, NodeOfRecordType
  <1>4. CASE m # NoNode /\ m \notin jx.del
    BY <1>4, ResizeGood DEF ApplyCreate
  <1>5. CASE (m = NoNode \/ m \in jx.del) /\ (p = NoNode \/ p \in jx.excl)
    BY <1>2, <1>5 DEF ApplyCreate
  <1>6. CASE (m = NoNode \/ m \in jx.del) /\ p # NoNode /\ p \notin jx.excl
    <2>1. ApplyCreate(ix, c) = ax
      BY <1>6 DEF ApplyCreate
    <2>2. jx.rec[c.rec] = NoNode \/ jx.rec[c.rec] \in jx.del
      BY <1>2, <1>6
    <2> HIDE DEF jx, m, p
    <2>3. Good(jx, ax)
      BY <1>1, <1>2, <1>3, <1>6, <2>2, AppendGood
    <2> QED
      BY <1>2, <2>1, <2>3, GoodTransitive
  <1> QED
    BY <1>4, <1>5, <1>6

LEMMA DeleteGood ==
    ASSUME NEW ix \in IndexType, NEW c \in AnyChange
    PROVE  Good(ix, ApplyDelete(ix, c))
  <1> DEFINE jx == Resolved(ix, c.rec, c.seq)
             m  == Found(ix, c.rec, c.seq)
             ex == [jx EXCEPT !.del = @ \cup {m}]
             dx == Detach(jx, m)
             tx == Tombstone(dx, m)
  <1>1. c.rec \in Rec /\ c.seq \in Nat
    BY DEF AnyChange
  <1>2. /\ Good(ix, jx) /\ jx \in IndexType
        /\ m = NoNode \/ (m \in Node /\ m = jx.rec[c.rec])
    <2>1. /\ Good(ix, jx)
          /\ m = NoNode \/ (m \in Node /\ m = jx.rec[c.rec])
      BY <1>1, ResolvedGood
    <2>2. jx \in IndexType
      BY <2>1 DEF Good
    <2> QED
      BY <2>1, <2>2
  <1> HIDE DEF jx, m
  <1>3. CASE m = NoNode \/ m \in jx.del
    BY <1>2, <1>3 DEF ApplyDelete, jx, m
  <1>4. CASE m # NoNode /\ m \notin jx.del /\ m \in jx.excl
    <2>1. ApplyDelete(ix, c) = ex
      BY <1>4 DEF ApplyDelete, jx, m
    <2>2. ex \in IndexType
      BY <1>2, <1>4 DEF IndexType
    <2>3. /\ ex.n = jx.n /\ ex.rec = jx.rec /\ ex.seq = jx.seq /\ ex.dir = jx.dir
          /\ ex.del = jx.del \cup {m} /\ jx.n \in Nat
      BY <1>2, IndexAssumption DEF IndexType
    <2> HIDE DEF ex
    <2>4. RecordTableSound(jx) => RecordTableSound(ex)
      BY <2>3 DEF RecordTableSound, Live
    <2>5. Good(jx, ex)
      BY <2>2, <2>3, <2>4 DEF Good
    <2> QED
      BY <1>2, <2>1, <2>5, GoodTransitive
  <1>5. CASE m # NoNode /\ m \notin jx.del /\ m \notin jx.excl
    <2>1. ApplyDelete(ix, c) = ClearRecord(tx, c.rec)
      BY <1>5 DEF ApplyDelete, jx, m
    <2>2. dx \in IndexType /\ SameTable(jx, dx)
      BY <1>2, <1>5, DetachGood
    <2>3. Good(jx, dx)
      BY <1>2, <2>2, SameTableGood
    <2> HIDE DEF dx
    <2>4. Good(dx, tx) /\ tx.rec = dx.rec /\ m \in tx.del
      BY <1>2, <1>5, <2>2, TombstoneGood
    <2>5. tx \in IndexType /\ tx.rec[c.rec] = m
      BY <1>2, <1>5, <2>2, <2>4 DEF Good, SameTable
    <2> HIDE DEF tx
    <2>6. Good(tx, ClearRecord(tx, c.rec))
      BY <1>1, <2>4, <2>5, ClearRecordGood
    <2>7. Good(ix, dx)
      BY <1>2, <2>3, GoodTransitive
    <2>8. Good(ix, tx)
      BY <2>4, <2>7, GoodTransitive
    <2> QED
      BY <2>1, <2>6, <2>8, GoodTransitive
  <1> QED
    BY <1>3, <1>4, <1>5

LEMMA MoveGood ==
    ASSUME NEW ix \in IndexType, NEW m \in Node, NEW p \in Node
    PROVE  /\ MoveNode(ix, m, p) \in IndexType
           /\ SameTable(ix, MoveNode(ix, m, p))
  <1> DEFINE dx == Detach(ix, m)
             kx == [dx EXCEPT !.parent[m] = p, !.depth[m] = ix.depth[p] + 1]
  <1>1. CASE ix.parent[m] = p
    BY <1>1 DEF MoveNode, SameTable
  <1>2. CASE ix.parent[m] # p
    <2>1. dx \in IndexType /\ SameTable(ix, dx)
      BY DetachGood
    <2>2. ix.depth[p] + 1 \in Nat
      BY DEF IndexType
    <2> HIDE DEF dx
    <2>3. kx \in IndexType /\ SameTable(dx, kx)
      BY <2>1, <2>2 DEF IndexType, SameTable
    <2>4. MoveNode(ix, m, p) = Attach(kx, m, ix)
      BY <1>2 DEF MoveNode, dx
    <2> HIDE DEF kx
    <2>5. Attach(kx, m, ix) \in IndexType /\ SameTable(kx, Attach(kx, m, ix))
      BY <2>3, AttachGood
    <2> QED
      BY <2>1, <2>3, <2>4, <2>5 DEF SameTable
  <1> QED
    BY <1>1, <1>2

LEMMA RenameGood ==
    ASSUME NEW ix \in IndexType, NEW c \in AnyChange
    PROVE  Good(ix, ApplyRename(ix, c))
  <1> DEFINE jx == Resolved(ix, c.rec, c.seq)
             m  == Found(ix, c.rec, c.seq)
             p  == NodeOfRecord(jx, c.parent)
             vx == MoveNode(jx, m, p)
             nx == [vx EXCEPT !.name[m] = c.name]
  <1>1. c.rec \in Rec /\ c.seq \in Nat /\ c.name \in Name
    BY DEF AnyChange
  <1>2. /\ Good(ix, jx) /\ jx \in IndexType
        /\ m = NoNode \/ m \in Node
    BY <1>1, ResolvedGood DEF Good
  <1>3. p = NoNode \/ p \in Node
    BY <1>2, NodeOfRecordType
  <1> HIDE DEF jx, m, p
  <1>4. CASE m = NoNode \/ m \in jx.del \/ p = NoNode
    BY <1>2, <1>4 DEF ApplyRename, jx, m, p
  <1>5. CASE m # NoNode /\ m \notin jx.del /\ p # NoNode
    <2>1. ApplyRename(ix, c) = nx
      BY <1>5 DEF ApplyRename, jx, m, p
    <2>2. vx \in IndexType /\ SameTable(jx, vx)
      BY <1>2, <1>3, <1>5, MoveGood
    <2> HIDE DEF vx
    <2>3. nx \in IndexType /\ SameTable(vx, nx)
      BY <1>1, <1>2, <1>5, <2>2 DEF IndexType, SameTable
    <2>4. Good(jx, nx)
      BY <1>2, <2>2, <2>3, SameTableGood DEF SameTable
    <2> QED
      BY <1>2, <2>1, <2>4, GoodTransitive
  <1> QED
    BY <1>4, <1>5

\* Whatever the change, applying it to a typed index is Good.
LEMMA ApplyGood ==
    ASSUME NEW ix \in IndexType, ix.n < MaxNodes, NEW c \in AnyChange
    PROVE  Good(ix, Apply(ix, c))
  <1>1. c.kind \in {"created", "deleted", "resized", "renamed"}
    BY DEF AnyChange
  <1> QED
    BY <1>1, CreateGood, DeleteGood, ResizeGood, RenameGood DEF Apply

-----------------------------------------------------------------------------
(***************************************************************************)
(* What the operations do to the tree and to the totals.                   *)
(***************************************************************************)
\* What Recounted looks at is that of ix.
SameTotals(ix, jx) ==
    /\ SameTree(ix, jx) /\ jx.del = ix.del
    /\ jx.size = ix.size /\ jx.files = ix.files

LEMMA SameTotalsKept ==
    ASSUME NEW ix \in IndexType, NEW jx \in IndexType, SameTotals(ix, jx), Recounted(ix)
    PROVE  Recounted(jx)
  <1>1. \A x \in Node : Ancestors(jx, x) = Ancestors(ix, x)
    BY SameAncestors DEF SameTotals, SameTree
  <1>2. Live(jx) = Live(ix) /\ Live(ix) \subseteq Node
    BY LiveNodes DEF SameTotals, SameTree, Live
  <1>3. \A d : FilesBelow(jx, d) = FilesBelow(ix, d)
    BY <1>1, <1>2 DEF FilesBelow, SameTotals, SameTree
  <1>4. ShownFolders(jx) = ShownFolders(ix)
    BY <1>2 DEF ShownFolders, SameTotals, SameTree
  <1>5. jx.size = ix.size /\ jx.files = ix.files
    BY DEF SameTotals
  <1>6. ASSUME NEW w
        PROVE  \A d \in ShownFolders(ix) : SumOf(w, FilesBelow(jx, d)) = SumOf(w, FilesBelow(ix, d))
    BY <1>3, Zenon
  <1>7. \A d \in ShownFolders(ix) :
          /\ ix.size[d] = SumOf(ix.size, FilesBelow(ix, d))
          /\ ix.files[d] = Cardinality(FilesBelow(ix, d))
    BY Zenon DEF Recounted, SumOf
  <1>8. \A d \in ShownFolders(jx) :
          /\ jx.size[d] = SumOf(jx.size, FilesBelow(jx, d))
          /\ jx.files[d] = Cardinality(FilesBelow(jx, d))
    BY <1>3, <1>4, <1>5, <1>6, <1>7, Zenon
  <1> QED
    BY <1>8, Zenon DEF Recounted, SumOf

\* A live node becomes a tombstone, its weight taken off unless it is pruned.
Goes(ix, jx, m) ==
    /\ SameTree(ix, jx) /\ jx.del = ix.del \cup {m}
    /\ Carried(ix, jx, IF m \in ix.excl THEN {} ELSE Ancestors(ix, m),
               - ix.size[m], - FilesOf(ix, m), m)

LEMMA DetachedGoes ==
    ASSUME NEW ix \in IndexType, Rooted(ix), NEW m \in Live(ix), m \notin ix.excl
    PROVE  Goes(ix, Tombstone(Detach(ix, m), m), m) /\ Detach(ix, m) \in IndexType
           /\ Detach(ix, m).rec = ix.rec
  <1> DEFINE dx == Detach(ix, m)
  <1>1. m \in Node /\ NoNode \notin Node
    BY LiveNodes, IndexAssumption DEF Node
  <1>2. - ix.size[m] \in Int /\ - ix.alloc[m] \in Int /\ - FilesOf(ix, m) \in Int
    BY <1>1, FilesOfType DEF IndexType
  <1>3. /\ dx \in IndexType /\ SameTable(ix, dx)
        /\ dx.parent = ix.parent /\ dx.excl = ix.excl
    BY <1>2, PropagateGood DEF Detach
  <1>4. Carried(ix, dx, Ancestors(ix, m), - ix.size[m], - FilesOf(ix, m), NoNode)
    BY <1>1, <1>2, RootedIs, PropagateAdds DEF Detach
  <1> HIDE DEF dx
  <1>5. /\ SameTree(dx, Tombstone(dx, m)) /\ Tombstone(dx, m).del = dx.del \cup {m}
        /\ \A a \in Node : a # m => /\ Tombstone(dx, m).size[a] = dx.size[a]
                                    /\ Tombstone(dx, m).files[a] = dx.files[a]
    BY <1>1, <1>3 DEF Tombstone, SameTree, IndexType
  <1>6. Carried(ix, Tombstone(dx, m), Ancestors(ix, m), - ix.size[m], - FilesOf(ix, m), m)
    BY <1>1, <1>4, <1>5 DEF Carried
  <1> QED
    BY <1>3, <1>5, <1>6 DEF Goes, SameTable, SameTree, dx

LEMMA GoneUncounted ==
    ASSUME NEW ix \in IndexType, NEW jx \in IndexType, Rooted(ix), Rooted(jx), Recounted(ix),
           NEW m \in Live(ix), Goes(ix, jx, m)
    PROVE  Recounted(jx)
  BY TotalsRemoved DEF Goes

\* Clearing a slot of the record table.
LEMMA ClearedSame ==
    ASSUME NEW ix \in IndexType, NEW r \in Rec
    PROVE  /\ SameTotals(ix, ClearRecord(ix, r)) /\ ClearRecord(ix, r) \in IndexType
           /\ ClearRecord(ix, r).rec[r] = NoNode
           /\ \A q \in Rec : q # r => ClearRecord(ix, r).rec[q] = ix.rec[q]
  <1>1. ClearRecord(ix, r) \in IndexType
    BY DEF ClearRecord, IndexType
  <1> QED
    BY <1>1 DEF ClearRecord, IndexType, SameTotals, SameTree

\* resolve_record: the index stays, or a slot is cleared whose node is a
\* tombstone, now or all along.
Cleared(ix, jx, r) ==
    /\ jx.rec[r] = NoNode /\ \A q \in Rec : q # r => jx.rec[q] = ix.rec[q]
    /\ \/ SameTotals(ix, jx)
       \/ \E m \in Live(ix) : Goes(ix, jx, m)

LEMMA ResolvedIs ==
    ASSUME NEW ix \in IndexType, Rooted(ix), RecordTableSound(ix), NEW r \in Rec, NEW s \in Nat
    PROVE  /\ Resolved(ix, r, s) \in IndexType
           /\ \/ Resolved(ix, r, s) = ix
              \/ Found(ix, r, s) = NoNode /\ Cleared(ix, Resolved(ix, r, s), r)
           /\ Found(ix, r, s) # NoNode => /\ Found(ix, r, s) \in 0 .. ix.n - 1
                                          /\ Found(ix, r, s) = ix.rec[r]
                                          /\ Resolved(ix, r, s) = ix
  <1> DEFINE m == ix.rec[r]
  <1>1. NodeOfRecord(ix, r) = m /\ m \in Node \cup {NoNode} /\ NoNode \notin Node /\ ix.n \in Nat
    BY IndexAssumption DEF NodeOfRecord, IndexType, Node
  <1>2. m # NoNode => m \in 0 .. ix.n - 1
    BY <1>1 DEF RecordTableSound, Node
  <1>3. CASE m = NoNode \/ Matches(ix, r, s)
    BY <1>1, <1>2, <1>3 DEF Resolved, Found, Matches
  <1>4. CASE m # NoNode /\ ~Matches(ix, r, s)
    <2>1. Found(ix, r, s) = NoNode /\ Resolved(ix, r, s) = ClearRecord(Retire(ix, m), r)
      BY <1>1, <1>4 DEF Resolved, Found
    <2>2. m \in Node
      BY <1>1, <1>4
    <2>3. Retire(ix, m) \in IndexType /\ Retire(ix, m).rec = ix.rec
      BY <2>2, RetireGood DEF Good
    <2>4. SameTotals(ix, Retire(ix, m)) \/ (m \in Live(ix) /\ Goes(ix, Retire(ix, m), m))
      <3>1. CASE m \in ix.del
        BY <3>1 DEF Retire, SameTotals, SameTree
      <3>2. CASE m \notin ix.del /\ m \in ix.excl
        <4>1. m \in Live(ix)
          BY <1>2, <1>4, <3>2 DEF Live
        <4>2. /\ SameTree(ix, Tombstone(ix, m)) /\ Tombstone(ix, m).del = ix.del \cup {m}
              /\ \A a \in Node : a # m => /\ Tombstone(ix, m).size[a] = ix.size[a]
                                          /\ Tombstone(ix, m).files[a] = ix.files[a]
          BY <2>2 DEF Tombstone, SameTree, IndexType
        <4> QED
          BY <3>2, <4>1, <4>2 DEF Retire, Goes, Carried
      <3>3. CASE m \notin ix.del /\ m \notin ix.excl
        <4>1. m \in Live(ix)
          BY <1>2, <1>4, <3>3 DEF Live
        <4> QED
          BY <3>3, <4>1, DetachedGoes DEF Retire
      <3> QED
        BY <3>1, <3>2, <3>3
    <2> DEFINE tx == Retire(ix, m)
               cx == ClearRecord(tx, r)
    <2> HIDE DEF tx
    <2>5. /\ SameTotals(tx, cx) /\ cx \in IndexType /\ cx.rec[r] = NoNode
          /\ \A q \in Rec : q # r => cx.rec[q] = ix.rec[q]
      BY <2>3, ClearedSame DEF tx
    <2> HIDE DEF cx, m
    <2>6. SameTotals(ix, cx) \/ (m \in Live(ix) /\ Goes(ix, cx, m))
      BY <2>4, <2>5 DEF SameTotals, Goes, Carried, SameTree, tx
    <2> QED
      BY <2>1, <2>5, <2>6 DEF Cleared, cx, tx
  <1> QED
    BY <1>3, <1>4

LEMMA ResolvedKept ==
    ASSUME NEW ix \in IndexType, Rooted(ix), RecordTableSound(ix), NEW r \in Rec, NEW s \in Nat,
           Recounted(ix), Rooted(Resolved(ix, r, s))
    PROVE  Recounted(Resolved(ix, r, s))
  <1> DEFINE jx == Resolved(ix, r, s)
  <1>1. jx \in IndexType /\ (jx = ix \/ Cleared(ix, jx, r))
    BY ResolvedIs
  <1> HIDE DEF jx
  <1>2. CASE jx = ix
    BY <1>2 DEF jx
  <1>3. CASE Cleared(ix, jx, r)
    <2>1. SameTotals(ix, jx) \/ \E m \in Live(ix) : Goes(ix, jx, m)
      BY <1>3 DEF Cleared
    <2>2. Rooted(jx)
      BY DEF jx
    <2>3. Recounted(jx)
      BY <1>1, <2>1, <2>2, SameTotalsKept, GoneUncounted
    <2> QED
      BY <2>3 DEF jx
  <1> QED
    BY <1>1, <1>2, <1>3

-----------------------------------------------------------------------------
\* The changes.
LEMMA ResizeKept ==
    ASSUME NEW ix \in IndexType, Rooted(ix), RecordTableSound(ix), Recounted(ix),
           NEW c \in AnyChange, Rooted(ApplyResize(ix, c))
    PROVE  Recounted(ApplyResize(ix, c))
  <1> DEFINE jx == Resolved(ix, c.rec, c.seq)
             m  == Found(ix, c.rec, c.seq)
             d  == c.size - ix.size[m]
             kx == [ix EXCEPT !.size[m] = c.size]
             lx == [ix EXCEPT !.size[m] = c.size, !.alloc[m] = c.size]
             px == Propagate(lx, m, d, d, 0)
  <1>1. c.rec \in Rec /\ c.seq \in Nat /\ c.size \in Nat
    BY DEF AnyChange
  <1>2. /\ jx \in IndexType
        /\ m # NoNode => m \in 0 .. ix.n - 1 /\ jx = ix
    BY <1>1, ResolvedIs
  <1> HIDE DEF m
  <1>3. CASE m = NoNode \/ m \in jx.del \cup jx.dir
    <2>1. ApplyResize(ix, c) = jx
      BY <1>3 DEF ApplyResize, m
    <2> QED
      BY <1>1, <2>1, ResolvedKept
  <1>4. CASE m # NoNode /\ m \notin jx.del \cup jx.dir
    <2>1. jx = ix /\ m \in Live(ix) /\ m \notin ix.dir /\ m \in Node
      BY <1>2, <1>4, LiveNodes DEF Live
    <2>2. CASE m \in ix.excl
      <3>1. ApplyResize(ix, c) = kx
        BY <1>4, <2>1, <2>2 DEF ApplyResize, m
      <3>2. /\ kx \in IndexType /\ SameTree(ix, kx) /\ kx.del = ix.del
            /\ Carried(ix, kx, {}, kx.size[m] - ix.size[m], 0, m)
        BY <1>1, <2>1 DEF IndexType, SameTree, Carried
      <3> HIDE DEF kx
      <3> QED
        BY <2>1, <2>2, <3>1, <3>2, TotalsResized
    <2>3. CASE m \notin ix.excl
      <3>1. ApplyResize(ix, c) = px
        BY <1>4, <2>1, <2>3 DEF ApplyResize, m
      <3>2. d \in Int
        <4>1. ix.size[m] \in Nat
          BY <2>1 DEF IndexType
        <4> QED
          BY <1>1, <4>1
      <3>3. /\ lx \in IndexType /\ SameTree(ix, lx) /\ lx.del = ix.del /\ lx.size[m] = c.size
            /\ lx.files = ix.files
            /\ \A a \in Node : a # m => lx.size[a] = ix.size[a]
        BY <1>1, <2>1 DEF IndexType, SameTree
      <3> HIDE DEF lx
      <3>4. Ancestors(lx, m) = Ancestors(ix, m)
        BY <2>1, <3>3, SameAncestors DEF SameTree
      <3>5. Reaches(lx, m, ix.rec[RootRec]) /\ m \notin Ancestors(ix, m)
        BY <2>1, <3>3, <3>4, RootedIs DEF Reaches, IsRoot, SameTree
      <3> DEFINE e == d
      <3> HIDE DEF d
      <3>6. /\ px \in IndexType /\ SameTable(lx, px) /\ px.parent = lx.parent /\ px.excl = lx.excl
        BY <3>2, <3>3, PropagateGood
      <3>7. Carried(lx, px, Ancestors(lx, m), d, 0, NoNode)
        BY <2>1, <3>2, <3>3, <3>5, PropagateAdds
      <3> HIDE DEF px
      <3>8. SameTree(ix, px) /\ px.del = ix.del
        BY <3>3, <3>6 DEF SameTree, SameTable
      <3>9. NoNode \notin Node
        BY IndexAssumption DEF Node
      <3>10. px.size[m] = c.size
        BY <2>1, <3>3, <3>4, <3>5, <3>7, <3>9 DEF Carried
      <3>11. Carried(ix, px, Ancestors(ix, m), d, 0, m)
        BY <3>3, <3>4, <3>7, <3>9 DEF Carried
      <3>12. d = px.size[m] - ix.size[m]
        BY <3>10 DEF d
      <3> QED
        BY <2>1, <2>3, <3>1, <3>6, <3>8, <3>11, <3>12, TotalsResized
    <2> QED
      BY <2>2, <2>3
  <1> QED
    BY <1>3, <1>4

LEMMA DeleteKept ==
    ASSUME NEW ix \in IndexType, Rooted(ix), RecordTableSound(ix), Recounted(ix),
           NEW c \in AnyChange, Rooted(ApplyDelete(ix, c))
    PROVE  Recounted(ApplyDelete(ix, c))
  <1> DEFINE jx == Resolved(ix, c.rec, c.seq)
             m  == Found(ix, c.rec, c.seq)
             ex == [ix EXCEPT !.del = @ \cup {m}]
             tx == Tombstone(Detach(ix, m), m)
             cx == ClearRecord(tx, c.rec)
  <1>1. c.rec \in Rec /\ c.seq \in Nat
    BY DEF AnyChange
  <1>2. /\ jx \in IndexType
        /\ m # NoNode => m \in 0 .. ix.n - 1 /\ jx = ix
    BY <1>1, ResolvedIs
  <1> HIDE DEF m
  <1>3. CASE m = NoNode \/ m \in jx.del
    <2>1. ApplyDelete(ix, c) = jx
      BY <1>3 DEF ApplyDelete, m
    <2> QED
      BY <1>1, <2>1, ResolvedKept
  <1>4. CASE m # NoNode /\ m \notin jx.del
    <2>1. jx = ix /\ m \in Live(ix) /\ m \in Node
      BY <1>2, <1>4, LiveNodes DEF Live
    <2>2. CASE m \in ix.excl
      <3>1. ApplyDelete(ix, c) = ex
        BY <1>4, <2>1, <2>2 DEF ApplyDelete, m
      <3>2. ex \in IndexType /\ Goes(ix, ex, m)
        BY <2>1, <2>2 DEF IndexType, SameTree, Carried, Goes
      <3> HIDE DEF ex
      <3> QED
        BY <2>1, <3>1, <3>2, GoneUncounted
    <2>3. CASE m \notin ix.excl
      <3>1. ApplyDelete(ix, c) = cx
        BY <1>4, <2>1, <2>3 DEF ApplyDelete, m
      <3>2. Goes(ix, tx, m) /\ tx \in IndexType
        <4>1. Goes(ix, tx, m) /\ Detach(ix, m) \in IndexType
          BY <2>1, <2>3, DetachedGoes
        <4> QED
          BY <2>1, <4>1, TombstoneGood DEF Good
      <3> HIDE DEF tx
      <3>3. SameTotals(tx, cx) /\ cx \in IndexType
        BY <1>1, <3>2, ClearedSame
      <3> HIDE DEF cx
      <3>4. Goes(ix, cx, m)
        BY <3>2, <3>3 DEF SameTotals, Goes, Carried, SameTree
      <3> QED
        BY <2>1, <3>1, <3>3, <3>4, GoneUncounted
    <2> QED
      BY <2>2, <2>3
  <1> QED
    BY <1>3, <1>4

LEMMA RenameKept ==
    ASSUME NEW ix \in IndexType, Rooted(ix), RecordTableSound(ix), Recounted(ix),
           NEW c \in AnyChange, Rooted(ApplyRename(ix, c)), PrunedStay(ix, ApplyRename(ix, c))
    PROVE  Recounted(ApplyRename(ix, c))
  <1> DEFINE jx == Resolved(ix, c.rec, c.seq)
             m  == Found(ix, c.rec, c.seq)
             p  == NodeOfRecord(jx, c.parent)
             vx == MoveNode(ix, m, p)
             nx == [vx EXCEPT !.name[m] = c.name]
             dx == Detach(ix, m)
             dp == ix.depth[p] + 1
             lx == [dx EXCEPT !.parent[m] = p, !.depth[m] = dp]
             ax == Attach(lx, m, ix)
  <1>1. c.rec \in Rec /\ c.seq \in Nat /\ c.name \in Name
    BY DEF AnyChange
  <1>2. /\ jx \in IndexType
        /\ m # NoNode => m \in 0 .. ix.n - 1 /\ jx = ix
    BY <1>1, ResolvedIs
  <1> HIDE DEF m, p
  <1>3. CASE m = NoNode \/ m \in jx.del \/ p = NoNode
    <2>1. ApplyRename(ix, c) = jx
      BY <1>3 DEF ApplyRename, m, p
    <2> QED
      BY <1>1, <2>1, ResolvedKept
  <1>4. CASE m # NoNode /\ m \notin jx.del /\ p # NoNode
    <2>1. jx = ix /\ m \in Live(ix) /\ m \in Node /\ p \in Node
      <3>1. jx = ix /\ m \in Live(ix) /\ m \in Node
        BY <1>2, <1>4, LiveNodes DEF Live
      <3> QED
        BY <1>2, <1>4, <3>1, NodeOfRecordType DEF p
    <2>2. ApplyRename(ix, c) = nx
      BY <1>4, <2>1 DEF ApplyRename, m, p
    <2>3. vx \in IndexType
      BY <2>1, MoveGood
    <2> HIDE DEF vx
    <2>4. nx \in IndexType /\ SameTotals(vx, nx) /\ nx.rec = vx.rec
      BY <1>1, <2>1, <2>3 DEF IndexType, SameTotals, SameTree
    <2> HIDE DEF nx
    <2>5. CASE ix.parent[m] = p
      <3>1. vx = ix
        BY <2>5 DEF vx, MoveNode
      <3> QED
        BY <2>2, <2>4, <3>1, SameTotalsKept
    <2>6. CASE ix.parent[m] # p
      <3>1. - ix.size[m] \in Int /\ - ix.alloc[m] \in Int /\ - FilesOf(ix, m) \in Int
            /\ ix.size[m] \in Int /\ ix.alloc[m] \in Int /\ FilesOf(ix, m) \in Int /\ dp \in Nat
        BY <2>1, FilesOfType DEF IndexType
      <3>2. /\ dx \in IndexType /\ SameTable(ix, dx) /\ dx.parent = ix.parent /\ dx.excl = ix.excl
        BY <3>1, PropagateGood DEF Detach
      <3>3. Carried(ix, dx, Ancestors(ix, m), - ix.size[m], - FilesOf(ix, m), NoNode)
        BY <2>1, <3>1, RootedIs, PropagateAdds DEF Detach
      <3> HIDE DEF dx, dp
      <3>4. /\ lx \in IndexType /\ SameTable(dx, lx) /\ lx.excl = dx.excl
            /\ lx.size = dx.size /\ lx.files = dx.files
            /\ lx.parent = [dx.parent EXCEPT ![m] = p]
        BY <2>1, <3>1, <3>2 DEF IndexType, SameTable
      <3>5. vx = ax
        BY <2>6 DEF vx, MoveNode, dx, dp
      <3> HIDE DEF lx
      <3>6. /\ ax \in IndexType /\ SameTable(lx, ax) /\ ax.parent = lx.parent /\ ax.excl = lx.excl
        BY <3>1, <3>4, PropagateGood DEF Attach
      <3>7. /\ nx.n = ix.n /\ nx.dir = ix.dir /\ nx.excl = ix.excl /\ nx.del = ix.del
            /\ nx.rec = ix.rec /\ nx.parent = lx.parent /\ nx.size = ax.size /\ nx.files = ax.files
        BY <2>4, <3>2, <3>4, <3>5, <3>6 DEF SameTotals, SameTree, SameTable
      <3>8. Hung(ix, nx, m) /\ nx.parent[m] = p
        BY <2>1, <3>2, <3>4, <3>7 DEF Hung, IndexType
      <3>9. Ancestors(nx, m) = Ancestors(lx, m)
        BY <2>1, <2>4, <3>4, <3>7, SameAncestors
      <3>10. Reaches(lx, m, ix.rec[RootRec])
        <4>1. m \in Live(nx)
          BY <2>1, <3>7 DEF Live
        <4>2. Reaches(nx, m, nx.rec[RootRec])
          BY <2>2, <2>4, <4>1, RootedIs
        <4> QED
          BY <3>7, <3>9, <4>2 DEF Reaches, IsRoot
      <3>11. Carried(lx, ax, Ancestors(lx, m), ix.size[m], FilesOf(ix, m), NoNode)
        BY <2>1, <3>1, <3>4, <3>10, PropagateAdds DEF Attach
      <3> HIDE DEF ax
      <3>12. Carried(dx, nx, Ancestors(nx, m), ix.size[m], FilesOf(ix, m), NoNode)
        BY <3>4, <3>7, <3>9, <3>11 DEF Carried
      <3>13. m \notin ix.excl
        BY <2>1, <2>2, <2>6, <3>8 DEF PrunedStay
      <3>14. nx.parent[m] # ix.parent[m] /\ Rooted(nx)
        BY <2>2, <2>6, <3>8
      <3>15. Recounted(nx)
        BY <2>1, <2>4, <3>2, <3>3, <3>7, <3>8, <3>12, <3>13, <3>14, TotalsMoved
      <3> QED
        BY <2>2, <3>15
    <2> QED
      BY <2>5, <2>6
  <1> QED
    BY <1>3, <1>4

\* A new node m: where it hangs, what is flagged, and what it adds to the totals.
Appended(ix, jx, m, r, p, isDir) ==
    /\ jx \in IndexType /\ m \in Node /\ jx.n = m + 1
    /\ Hung(ix, jx, m) /\ jx.parent[m] = p
    /\ jx.excl = ix.excl /\ jx.del = ix.del
    /\ jx.dir = IF isDir THEN ix.dir \cup {m} ELSE ix.dir
    /\ jx.rec[r] = m /\ \A q \in Rec : q # r => jx.rec[q] = ix.rec[q]
    /\ isDir => jx.size[m] = 0 /\ jx.files[m] = 0 /\ Carried(ix, jx, {}, 0, 0, m)
    /\ ~isDir => \A root : Reaches(jx, m, root) /\ m \notin Ancestors(jx, m)
                   => Carried(ix, jx, Ancestors(jx, m), jx.size[m], 1, m)

LEMMA AppendIs ==
    ASSUME NEW ix \in IndexType, ix.n < MaxNodes,
           NEW r \in Rec, NEW s \in Nat, NEW p \in Node, NEW nm \in Name,
           NEW isDir \in BOOLEAN, NEW sz \in Nat
    PROVE  Appended(ix, AppendNode(ix, r, s, p, nm, isDir, sz), ix.n, r, p, isDir)
  <1> DEFINE m  == ix.n
             w  == IF isDir THEN 0 ELSE sz
             ds == IF isDir THEN ix.dir \cup {m} ELSE ix.dir
             dp == ix.depth[p] + 1
             kx == [ix EXCEPT !.n = m + 1,
                      !.parent[m] = p, !.name[m] = nm, !.seq[m] = s,
                      !.dir = ds,
                      !.size[m] = w, !.alloc[m] = w, !.files[m] = 0,
                      !.depth[m] = dp]
             lx == SetRecord(kx, r, m)
             jx == AppendNode(ix, r, s, p, nm, isDir, sz)
  <1>1. /\ m \in Node /\ m + 1 \in 0 .. MaxNodes
        /\ w \in Nat /\ dp \in Nat /\ ds \in SUBSET Node
    <2>1. m \in 0 .. MaxNodes /\ ix.depth[p] \in Nat /\ ix.dir \in SUBSET Node
      BY DEF IndexType
    <2>2. m \in Node /\ m + 1 \in 0 .. MaxNodes
      BY <2>1, IndexAssumption DEF Node
    <2>3. CASE isDir
      BY <2>1, <2>2, <2>3
    <2>4. CASE ~isDir
      BY <2>1, <2>2, <2>4
    <2> QED
      BY <2>3, <2>4
  <1>2. /\ isDir => jx = lx
        /\ ~isDir => jx = Propagate(lx, m, sz, sz, 1)
    BY DEF AppendNode
  <1>3. (isDir => w = 0 /\ ds = ix.dir \cup {m}) /\ (~isDir => w = sz /\ ds = ix.dir)
    OBVIOUS
  <1> HIDE DEF w, ds, dp, jx
  <1>4. kx \in IndexType
    BY <1>1 DEF IndexType
  <1>5. /\ kx.n = m + 1 /\ kx.del = ix.del /\ kx.rec = ix.rec /\ kx.excl = ix.excl /\ kx.dir = ds
        /\ kx.size[m] = w /\ kx.files[m] = 0 /\ kx.parent[m] = p
        /\ \A a \in Node : a # m => /\ kx.parent[a] = ix.parent[a] /\ kx.size[a] = ix.size[a]
                                    /\ kx.files[a] = ix.files[a]
    BY <1>1 DEF IndexType
  <1> HIDE DEF kx
  <1>6. /\ lx \in IndexType /\ lx.n = kx.n /\ lx.del = kx.del /\ lx.excl = kx.excl
        /\ lx.dir = kx.dir /\ lx.size = kx.size /\ lx.files = kx.files /\ lx.parent = kx.parent
        /\ lx.rec[r] = m /\ \A q \in Rec : q # r => lx.rec[q] = kx.rec[q]
    BY <1>1, <1>4 DEF SetRecord, IndexType
  <1> HIDE DEF lx
  <1> SUFFICES Appended(ix, jx, m, r, p, isDir)
    BY DEF jx
  <1> HIDE DEF m
  <1>7. CASE isDir
    <2>1. jx = lx
      BY <1>2, <1>7
    <2>2. Hung(ix, lx, m)
      BY <1>5, <1>6 DEF Hung
    <2>3. Carried(ix, lx, {}, 0, 0, m)
      BY <1>5, <1>6 DEF Carried
    <2>4. lx.dir = ix.dir \cup {m} /\ lx.size[m] = 0
      BY <1>3, <1>5, <1>6, <1>7
    <2> QED
      BY Zenon, <1>1, <1>3, <1>5, <1>6, <1>7, <2>1, <2>2, <2>3, <2>4 DEF Appended
  <1>8. CASE ~isDir
    <2> DEFINE px == Propagate(lx, m, sz, sz, 1)
    <2>1. jx = px
      BY <1>2, <1>8
    <2>2. /\ px \in IndexType /\ SameTable(lx, px)
          /\ px.parent = lx.parent /\ px.excl = lx.excl
      BY <1>6, PropagateGood
    <2>3. Ancestors(px, m) = Ancestors(lx, m)
      <3> HIDE DEF px
      <3> QED
        BY <1>1, <1>6, <2>2, SameAncestors
    <2>4. ASSUME NEW root, Reaches(px, m, root), m \notin Ancestors(px, m)
          PROVE  Carried(ix, px, Ancestors(px, m), px.size[m], 1, m)
      <3>1. Reaches(lx, m, root)
        <4> HIDE DEF px
        <4> QED
          BY <2>2, <2>3, <2>4 DEF Reaches, IsRoot
      <3>2. Carried(lx, px, Ancestors(lx, m), sz, 1, NoNode)
        BY <1>1, <1>6, <3>1, PropagateAdds
      <3>3. NoNode \notin Node
        BY IndexAssumption DEF Node
      <3> HIDE DEF px
      <3>4. px.size[m] = sz
        BY <1>1, <1>3, <1>5, <1>6, <1>8, <2>3, <2>4, <3>2, <3>3 DEF Carried
      <3> QED
        BY <1>5, <1>6, <2>3, <3>2, <3>3, <3>4 DEF Carried
    <2> HIDE DEF px
    <2>5. Hung(ix, px, m) /\ px.parent[m] = p
      BY <1>5, <1>6, <2>2 DEF Hung
    <2> QED
      BY <1>1, <1>3, <1>5, <1>6, <1>8, <2>1, <2>2, <2>4, <2>5 DEF SameTable, Appended
  <1> QED
    BY <1>7, <1>8

\* What is rooted with the new node was rooted without it.
LEMMA RootedBefore ==
    ASSUME NEW ix \in IndexType, NEW jx \in IndexType, NEW m \in Node, m = ix.n, jx.n = m + 1,
           Hung(ix, jx, m), jx.parent[m] # m, FlagsSound(ix), jx.del = ix.del,
           jx.dir \subseteq ix.dir \cup {m},
           NEW r \in Rec, jx.rec[r] = m, \A q \in Rec : q # r => jx.rec[q] = ix.rec[q],
           \A x \in Live(ix) : m \notin Ancestors(ix, x), Rooted(jx)
    PROVE  Rooted(ix)
  <1>1. Live(jx) = Live(ix) \cup {m} /\ m \notin Live(ix) /\ m # NoNode /\ m \notin ix.dir
    <2>1. m \in Nat /\ m \notin 0 .. m - 1 /\ 0 .. m = (0 .. m - 1) \cup {m} /\ m + 1 - 1 = m
      BY DEF Node
    <2>2. m \notin ix.del /\ m \notin ix.dir
      BY <2>1 DEF FlagsSound
    <2> QED
      BY <2>1, <2>2, IndexAssumption DEF Live
  <1>2. r # RootRec
    <2> SUFFICES ASSUME r = RootRec
                 PROVE  FALSE
      OBVIOUS
    <2> QED
      BY <1>1 DEF Rooted, IsRoot
  <1> DEFINE root == ix.rec[RootRec]
  <1>3. jx.rec[RootRec] = root
    BY <1>2, IndexAssumption
  <1>4. ASSUME NEW x \in Live(ix)
        PROVE  /\ Ancestors(ix, x) \subseteq Live(ix) \cap ix.dir
               /\ root \in Ancestors(ix, x) /\ IsRoot(ix, root)
    <2>1. x \in Node /\ x # m
      BY <1>1, LiveNodes
    <2>2. Ancestors(jx, x) = Ancestors(ix, x)
      BY <1>1, <2>1, Aside
    <2>3. /\ Ancestors(jx, x) \subseteq Live(jx) \cap jx.dir
          /\ root \in Ancestors(jx, x) /\ IsRoot(jx, root)
      BY <1>1, <1>3 DEF Rooted
    <2>4. root \in Node /\ root # m
      BY <2>1, <2>2, <2>3, AncestorIs
    <2>5. IsRoot(ix, root)
      BY <2>3, <2>4 DEF IsRoot, Hung
    <2> HIDE DEF root
    <2> QED
      BY <1>1, <2>2, <2>3, <2>5
  <1> QED
    BY <1>4 DEF Rooted

\* resolve_record leaves the tree as it is, with one tombstone more at most.
LEMMA ResolvedTree ==
    ASSUME NEW ix \in IndexType, RecordTableSound(ix), NEW r \in Rec, NEW s \in Nat
    PROVE  /\ SameTree(ix, Resolved(ix, r, s))
           /\ Live(Resolved(ix, r, s)) \subseteq Live(ix)
           /\ FlagsSound(ix) => FlagsSound(Resolved(ix, r, s))
  <1> DEFINE m == ix.rec[r]
  <1>1. NodeOfRecord(ix, r) = m /\ m \in Node \cup {NoNode} /\ NoNode \notin Node /\ ix.n \in Nat
    BY IndexAssumption DEF NodeOfRecord, IndexType, Node
  <1>2. m # NoNode => m \in 0 .. ix.n - 1
    BY <1>1 DEF RecordTableSound, Node
  <1>3. CASE m = NoNode \/ Matches(ix, r, s)
    BY <1>1, <1>3 DEF Resolved, SameTree
  <1>4. CASE m # NoNode /\ ~Matches(ix, r, s)
    <2> DEFINE tx == Retire(ix, m)
               cx == ClearRecord(tx, r)
    <2>1. Resolved(ix, r, s) = cx /\ m \in Node
      BY <1>1, <1>4 DEF Resolved
    <2>2. /\ Detach(ix, m) \in IndexType /\ SameTable(ix, Detach(ix, m))
          /\ Detach(ix, m).parent = ix.parent /\ Detach(ix, m).excl = ix.excl
      <3>1. - ix.size[m] \in Int /\ - ix.alloc[m] \in Int /\ - FilesOf(ix, m) \in Int
        BY <2>1, FilesOfType DEF IndexType
      <3> QED
        BY <3>1, PropagateGood DEF Detach
    <2>3. SameTree(ix, tx) /\ tx \in IndexType /\ (tx.del = ix.del \/ tx.del = ix.del \cup {m})
      <3>1. tx \in IndexType
        BY <2>1, RetireGood DEF Good
      <3>2. \A dx \in IndexType : /\ SameTree(dx, Tombstone(dx, m))
                                  /\ Tombstone(dx, m).del = dx.del \cup {m}
        BY DEF Tombstone, SameTree, IndexType
      <3>3. CASE m \in ix.del
        BY <3>1, <3>3 DEF Retire, SameTree
      <3>4. CASE m \notin ix.del /\ m \in ix.excl
        BY <3>1, <3>2, <3>4 DEF Retire
      <3>5. CASE m \notin ix.del /\ m \notin ix.excl
        <4>1. tx = Tombstone(Detach(ix, m), m)
          BY <3>5 DEF Retire
        <4>2. /\ SameTree(Detach(ix, m), Tombstone(Detach(ix, m), m))
              /\ Tombstone(Detach(ix, m), m).del = Detach(ix, m).del \cup {m}
          BY <2>2, <3>2
        <4> QED
          BY <2>2, <3>1, <4>1, <4>2 DEF SameTable, SameTree
      <3> QED
        BY <3>3, <3>4, <3>5
    <2> HIDE DEF tx
    <2>4. SameTotals(tx, cx)
      BY <2>3, ClearedSame
    <2> HIDE DEF cx, m
    <2> QED
      BY <1>2, <1>4, <2>1, <2>3, <2>4 DEF SameTotals, SameTree, Live, FlagsSound
  <1> QED
    BY <1>3, <1>4

LEMMA CreateKept ==
    ASSUME NEW ix \in IndexType, ix.n < MaxNodes, Rooted(ix), RecordTableSound(ix),
           FlagsSound(ix), Recounted(ix), NEW c \in AnyChange, Rooted(ApplyCreate(ix, c))
    PROVE  Recounted(ApplyCreate(ix, c))
  <1> DEFINE jx == Resolved(ix, c.rec, c.seq)
             m  == Found(ix, c.rec, c.seq)
             p  == NodeOfRecord(jx, c.parent)
             ax == AppendNode(jx, c.rec, c.seq, p, c.name, c.dir, c.size)
  <1>1. /\ c.rec \in Rec /\ c.seq \in Nat /\ c.size \in Nat
        /\ c.name \in Name /\ c.dir \in BOOLEAN
    BY DEF AnyChange
  <1>2. /\ jx \in IndexType /\ jx.n = ix.n /\ RecordTableSound(jx) /\ FlagsSound(jx)
        /\ SameTree(ix, jx) /\ Live(jx) \subseteq Live(ix)
    <2>1. Good(ix, jx) /\ jx.n = ix.n
      BY <1>1, ResolvedGood
    <2>2. SameTree(ix, jx) /\ Live(jx) \subseteq Live(ix) /\ FlagsSound(jx)
      BY <1>1, ResolvedTree
    <2> QED
      BY <2>1, <2>2 DEF Good
  <1>3. CASE m # NoNode /\ m \notin jx.del
    BY <1>3, ResizeKept DEF ApplyCreate
  <1>4. CASE (m = NoNode \/ m \in jx.del) /\ (p = NoNode \/ p \in jx.excl)
    <2>1. ApplyCreate(ix, c) = jx
      BY <1>4 DEF ApplyCreate
    <2> QED
      BY <1>1, <2>1, ResolvedKept
  <1>5. CASE (m = NoNode \/ m \in jx.del) /\ p # NoNode /\ p \notin jx.excl
    <2>1. ApplyCreate(ix, c) = ax
      BY <1>5 DEF ApplyCreate
    <2>2. p \in Node /\ p < jx.n
      <3> HIDE DEF jx
      <3>1. p \in Node
        BY <1>2, <1>5, NodeOfRecordType
      <3> QED
        BY <1>2, <1>5, <3>1 DEF NodeOfRecord, RecordTableSound
    <2> DEFINE k == ix.n
    <2>3. Rooted(ax)
      BY <2>1
    <2> HIDE DEF p, m
    <2>4. \A x \in Live(jx) : k \notin Ancestors(jx, x) /\ x \in Node
      <3> SUFFICES ASSUME NEW x \in Live(jx)
                   PROVE  k \notin Ancestors(jx, x) /\ x \in Node
        OBVIOUS
      <3>1. x \in Live(ix) /\ x \in Node
        BY <1>2, LiveNodes
      <3>2. Ancestors(jx, x) = Ancestors(ix, x)
        <4> HIDE DEF jx
        <4> QED
          BY <1>2, <3>1, SameAncestors DEF SameTree
      <3>3. k \notin Live(ix)
        <4>1. ix.n \in Nat
          BY LiveNodes
        <4> QED
          BY <4>1 DEF Live
      <3> QED
        BY <3>1, <3>2, <3>3, RootedIs
    <2> HIDE DEF jx
    <2>5. Appended(jx, ax, k, c.rec, p, c.dir)
      <3>1. k = jx.n
        BY <1>2
      <3>2. Appended(jx, ax, jx.n, c.rec, p, c.dir)
        <4>1. jx.n < MaxNodes
          BY <1>2
        <4> QED
          BY <1>1, <1>2, <2>2, <4>1, AppendIs
      <3> HIDE DEF ax, k
      <3> QED
        BY <3>1, <3>2
    <2> USE DEF Appended
    <2> HIDE DEF ax
    <2>6. p # k /\ ix.n = jx.n
      BY <1>2, <2>2 DEF Node
    <2> HIDE DEF k
    <2>7. k = jx.n
      BY <2>6 DEF k
    <2>8. Rooted(jx)
      BY <1>1, <1>2, <2>3, <2>4, <2>5, <2>6, <2>7, RootedBefore
    <2>9. Recounted(jx)
      BY <1>1, <2>8, ResolvedKept DEF jx
    <2>10. \/ /\ ax.dir = jx.dir \cup {k} /\ ax.size[k] = 0 /\ ax.files[k] = 0
              /\ Carried(jx, ax, {}, 0, 0, k)
           \/ /\ ax.dir = jx.dir
              /\ Carried(jx, ax, Ancestors(ax, k), ax.size[k], 1, k)
      <3>1. CASE c.dir
        BY <2>5, <3>1
      <3>2. CASE ~c.dir
        <4>1. k \notin jx.dir /\ k \notin jx.del
          <5>1. k \in Nat /\ k \notin 0 .. k - 1
            BY <2>5 DEF Node
          <5> QED
            BY <1>2, <2>7, <5>1 DEF FlagsSound
        <4>2. k \in Live(ax)
          <5>1. k \in Nat /\ k \in 0 .. (k + 1) - 1
            BY <2>5 DEF Node
          <5> QED
            BY <2>5, <4>1, <5>1 DEF Live
        <4>3. Reaches(ax, k, ax.rec[RootRec]) /\ k \notin Ancestors(ax, k)
          BY <2>3, <2>5, <3>2, <4>1, <4>2, RootedIs
        <4> QED
          BY <2>5, <3>2, <4>3
      <3> QED
        BY <3>1, <3>2
    <2>11. Recounted(ax)
      BY <1>2, <2>3, <2>5, <2>7, <2>8, <2>9, <2>10, TotalsAdded
    <2> QED
      BY <2>1, <2>11
  <1> QED
    BY <1>3, <1>4, <1>5

\* Whatever the change, if the tree is rooted before and after it.
LEMMA ApplyKept ==
    ASSUME NEW ix \in IndexType, ix.n < MaxNodes, RecordTableSound(ix), FlagsSound(ix),
           NEW c \in AnyChange, Rooted(ix), Rooted(Apply(ix, c)), PrunedStay(ix, Apply(ix, c)),
           Recounted(ix)
    PROVE  Recounted(Apply(ix, c))
  <1>1. c.kind \in {"created", "deleted", "resized", "renamed"}
    BY DEF AnyChange
  <1> QED
    BY <1>1, CreateKept, DeleteKept, ResizeKept, RenameKept DEF Apply

\* A move flags nothing and takes no flag away.
LEMMA MoveFlags ==
    ASSUME NEW ix \in IndexType, NEW m \in Node, NEW p \in Node
    PROVE  MoveNode(ix, m, p).excl = ix.excl
  <1> DEFINE dx == Detach(ix, m)
             kx == [dx EXCEPT !.parent[m] = p, !.depth[m] = ix.depth[p] + 1]
  <1>1. CASE ix.parent[m] = p
    BY <1>1 DEF MoveNode
  <1>2. CASE ix.parent[m] # p
    <2>1. /\ - ix.size[m] \in Int /\ - ix.alloc[m] \in Int /\ - FilesOf(ix, m) \in Int
          /\ ix.size[m] \in Int /\ ix.alloc[m] \in Int /\ FilesOf(ix, m) \in Int
          /\ ix.depth[p] + 1 \in Nat
      BY FilesOfType DEF IndexType
    <2>2. dx \in IndexType /\ dx.excl = ix.excl
      BY <2>1, PropagateGood DEF Detach
    <2> HIDE DEF dx
    <2>3. kx \in IndexType /\ kx.excl = dx.excl
      BY <2>1, <2>2 DEF IndexType
    <2>4. MoveNode(ix, m, p) = Attach(kx, m, ix)
      BY <1>2 DEF MoveNode, dx
    <2> HIDE DEF kx
    <2>5. Attach(kx, m, ix).excl = kx.excl
      BY <2>1, <2>3, PropagateGood DEF Attach
    <2> QED
      BY <2>2, <2>3, <2>4, <2>5
  <1> QED
    BY <1>1, <1>2

LEMMA ResizeFlags ==
    ASSUME NEW ix \in IndexType, RecordTableSound(ix), FlagsSound(ix), NEW c \in AnyChange
    PROVE  FlagsSound(ApplyResize(ix, c))
  <1> DEFINE jx == Resolved(ix, c.rec, c.seq)
             m  == Found(ix, c.rec, c.seq)
             d  == c.size - jx.size[m]
             kx == [jx EXCEPT !.size[m] = c.size]
             lx == [jx EXCEPT !.size[m] = c.size, !.alloc[m] = c.size]
  <1>1. c.rec \in Rec /\ c.seq \in Nat /\ c.size \in Nat
    BY DEF AnyChange
  <1>2. jx \in IndexType /\ (m = NoNode \/ m \in Node) /\ FlagsSound(jx)
    BY <1>1, ResolvedGood, ResolvedTree DEF Good
  <1> HIDE DEF jx, m
  <1>3. CASE m = NoNode \/ m \in jx.del \cup jx.dir
    BY <1>2, <1>3 DEF ApplyResize, jx, m
  <1>4. CASE m # NoNode /\ m \notin jx.del \cup jx.dir /\ m \in jx.excl
    <2>1. ApplyResize(ix, c) = kx
      BY <1>4 DEF ApplyResize, jx, m
    <2>2. FlagsSound(kx)
      BY <1>2 DEF FlagsSound, IndexType
    <2> QED
      BY <2>1, <2>2
  <1>5. CASE m # NoNode /\ m \notin jx.del \cup jx.dir /\ m \notin jx.excl
    <2>1. ApplyResize(ix, c) = Propagate(lx, m, d, d, 0)
      BY <1>5 DEF ApplyResize, jx, m
    <2>2. /\ lx \in IndexType /\ FlagsSound(lx)
      BY <1>1, <1>2, <1>5 DEF FlagsSound, IndexType
    <2>3. d \in Int
      <3>1. jx.size[m] \in Nat
        BY <1>2, <1>5 DEF IndexType
      <3> QED
        BY <1>1, <3>1
    <2> HIDE DEF lx, d
    <2>4. /\ SameTable(lx, Propagate(lx, m, d, d, 0))
          /\ Propagate(lx, m, d, d, 0).excl = lx.excl
      BY <2>2, <2>3, PropagateGood
    <2> QED
      BY <2>1, <2>2, <2>4 DEF SameTable, FlagsSound
  <1> QED
    BY <1>3, <1>4, <1>5

LEMMA CreateFlags ==
    ASSUME NEW ix \in IndexType, ix.n < MaxNodes, RecordTableSound(ix), FlagsSound(ix),
           NEW c \in AnyChange
    PROVE  FlagsSound(ApplyCreate(ix, c))
  <1> DEFINE jx == Resolved(ix, c.rec, c.seq)
             m  == Found(ix, c.rec, c.seq)
             p  == NodeOfRecord(jx, c.parent)
             ax == AppendNode(jx, c.rec, c.seq, p, c.name, c.dir, c.size)
  <1>1. /\ c.rec \in Rec /\ c.seq \in Nat /\ c.size \in Nat
        /\ c.name \in Name /\ c.dir \in BOOLEAN
    BY DEF AnyChange
  <1>2. jx \in IndexType /\ jx.n < MaxNodes /\ FlagsSound(jx)
    BY <1>1, ResolvedGood, ResolvedTree DEF Good
  <1>3. CASE m # NoNode /\ m \notin jx.del
    BY <1>3, ResizeFlags DEF ApplyCreate
  <1>4. CASE (m = NoNode \/ m \in jx.del) /\ (p = NoNode \/ p \in jx.excl)
    BY <1>2, <1>4 DEF ApplyCreate
  <1>5. CASE (m = NoNode \/ m \in jx.del) /\ p # NoNode /\ p \notin jx.excl
    <2>1. ApplyCreate(ix, c) = ax
      BY <1>5 DEF ApplyCreate
    <2> HIDE DEF jx, m
    <2>2. p \in Node
      BY <1>2, <1>5, NodeOfRecordType
    <2> HIDE DEF p
    <2>3. Appended(jx, ax, jx.n, c.rec, p, c.dir)
      BY <1>1, <1>2, <2>2, AppendIs
    <2> HIDE DEF ax
    <2>4. /\ ax.n = jx.n + 1 /\ ax.excl = jx.excl /\ ax.del = jx.del
          /\ ax.dir \subseteq jx.dir \cup {jx.n}
      BY <2>3 DEF Appended
    <2>5. 0 .. (jx.n + 1) - 1 = (0 .. jx.n - 1) \cup {jx.n}
      BY <1>2, LiveNodes
    <2> QED
      BY <1>2, <2>1, <2>4, <2>5 DEF FlagsSound
  <1> QED
    BY <1>3, <1>4, <1>5

LEMMA DeleteFlags ==
    ASSUME NEW ix \in IndexType, RecordTableSound(ix), FlagsSound(ix), NEW c \in AnyChange
    PROVE  FlagsSound(ApplyDelete(ix, c))
  <1> DEFINE jx == Resolved(ix, c.rec, c.seq)
             m  == Found(ix, c.rec, c.seq)
             ex == [jx EXCEPT !.del = @ \cup {m}]
             dx == Detach(jx, m)
             cx == ClearRecord(Tombstone(dx, m), c.rec)
  <1>1. c.rec \in Rec /\ c.seq \in Nat
    BY DEF AnyChange
  <1>2. jx \in IndexType /\ RecordTableSound(jx) /\ FlagsSound(jx)
    BY <1>1, ResolvedGood, ResolvedTree DEF Good
  <1>3. m = NoNode \/ (m \in Node /\ m \in 0 .. jx.n - 1)
    <2>1. m = NoNode \/ (m \in Node /\ m = jx.rec[c.rec])
      BY <1>1, ResolvedGood
    <2>2. jx.n \in Nat
      BY <1>2, LiveNodes
    <2> HIDE DEF jx, m
    <2>3. m # NoNode => m < jx.n
      BY <1>1, <1>2, <2>1 DEF RecordTableSound
    <2> QED
      BY <2>1, <2>2, <2>3 DEF Node
  <1> HIDE DEF jx, m
  <1>4. CASE m = NoNode \/ m \in jx.del
    BY <1>2, <1>4 DEF ApplyDelete, jx, m
  <1>5. CASE m # NoNode /\ m \notin jx.del /\ m \in jx.excl
    <2>1. ApplyDelete(ix, c) = ex
      BY <1>5 DEF ApplyDelete, jx, m
    <2>2. FlagsSound(ex)
      BY <1>2, <1>3, <1>5 DEF FlagsSound, IndexType
    <2> QED
      BY <2>1, <2>2
  <1>6. CASE m # NoNode /\ m \notin jx.del /\ m \notin jx.excl
    <2>1. ApplyDelete(ix, c) = cx
      BY <1>6 DEF ApplyDelete, jx, m
    <2>2. - jx.size[m] \in Int /\ - jx.alloc[m] \in Int /\ - FilesOf(jx, m) \in Int
      BY <1>2, <1>3, <1>6, FilesOfType DEF IndexType
    <2>3. dx \in IndexType /\ SameTable(jx, dx) /\ dx.excl = jx.excl
      BY <1>2, <2>2, PropagateGood DEF Detach
    <2> HIDE DEF dx
    <2>4. /\ cx.n = dx.n /\ cx.dir = dx.dir /\ cx.excl = dx.excl
          /\ cx.del = dx.del \cup {m}
      BY <2>3 DEF ClearRecord, Tombstone, IndexType
    <2> HIDE DEF cx
    <2> QED
      BY <1>2, <1>3, <1>6, <2>1, <2>3, <2>4 DEF SameTable, FlagsSound
  <1> QED
    BY <1>4, <1>5, <1>6

LEMMA RenameFlags ==
    ASSUME NEW ix \in IndexType, RecordTableSound(ix), FlagsSound(ix), NEW c \in AnyChange
    PROVE  FlagsSound(ApplyRename(ix, c))
  <1> DEFINE jx == Resolved(ix, c.rec, c.seq)
             m  == Found(ix, c.rec, c.seq)
             p  == NodeOfRecord(jx, c.parent)
             vx == MoveNode(jx, m, p)
             nx == [vx EXCEPT !.name[m] = c.name]
  <1>1. c.rec \in Rec /\ c.seq \in Nat
    BY DEF AnyChange
  <1>2. jx \in IndexType /\ (m = NoNode \/ m \in Node) /\ FlagsSound(jx)
    BY <1>1, ResolvedGood, ResolvedTree DEF Good
  <1>3. p = NoNode \/ p \in Node
    BY <1>2, NodeOfRecordType
  <1> HIDE DEF jx, m, p
  <1>4. CASE m = NoNode \/ m \in jx.del \/ p = NoNode
    BY <1>2, <1>4 DEF ApplyRename, jx, m, p
  <1>5. CASE m # NoNode /\ m \notin jx.del /\ p # NoNode
    <2>1. ApplyRename(ix, c) = nx
      BY <1>5 DEF ApplyRename, jx, m, p
    <2>2. vx \in IndexType /\ SameTable(jx, vx) /\ vx.excl = jx.excl
      BY <1>2, <1>3, <1>5, MoveGood, MoveFlags
    <2> HIDE DEF vx
    <2>3. /\ nx.n = vx.n /\ nx.dir = vx.dir /\ nx.excl = vx.excl /\ nx.del = vx.del
      BY <2>2 DEF IndexType
    <2> HIDE DEF nx
    <2> QED
      BY <1>2, <2>1, <2>2, <2>3 DEF SameTable, FlagsSound
  <1> QED
    BY <1>4, <1>5

\* Whatever the change, only nodes are flagged after it.
LEMMA ApplyFlags ==
    ASSUME NEW ix \in IndexType, ix.n < MaxNodes, RecordTableSound(ix), FlagsSound(ix),
           NEW c \in AnyChange
    PROVE  FlagsSound(Apply(ix, c))
  <1>1. c.kind \in {"created", "deleted", "resized", "renamed"}
    BY DEF AnyChange
  <1> QED
    BY <1>1, CreateFlags, DeleteFlags, ResizeFlags, RenameFlags DEF Apply

=============================================================================
