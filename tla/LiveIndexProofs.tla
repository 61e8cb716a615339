--------------------------- MODULE LiveIndexProofs ---------------------------
(***************************************************************************)
(* Theorems of LiveIndex, for any number of records, nodes and names, any  *)
(* excluded paths and any history of the volume:                           *)
(*                                                                         *)
(*   RecordTableLive   the record table is sound at every step;            *)
(*   MarksStayTogether a file is pruned exactly when its folder is;        *)
(*   TreeStaysSound    the live nodes are one tree below the volume root;  *)
(*   LiveTotalsExact   the totals of a folder are those of a recount;      *)
(*   IndexMirrors      an index at rest shows the volume, file for file.   *)
(*                                                                         *)
(* The last four assume Shallow: no file lies deeper than the climbs of    *)
(* the index go (the guard of 512 in ancestors and path).                  *)
(*                                                                         *)
(* None of the five is inductive.  Between the scan and the journal's end  *)
(* the index is neither the volume as it was nor the volume as it is: a    *)
(* record may have been seen by the scan and be told of again, or be gone  *)
(* from the volume and still have a node.  The invariant that holds is     *)
(* about a history h of layouts (Chronicle): h[0] is the layout told so    *)
(* far, each record still to be applied makes h[k + 1] of h[k], the last   *)
(* one is the volume's, and the scan saw h[K].  Every live node shows the  *)
(* place that its record has in h[0] or in h[K] (Mixed), and the two agree *)
(* on folders (Agree), so the climb from a node goes the way up of a       *)
(* layout and ends at the root.  A step of the volume makes the history    *)
(* longer by one, reading and folding a batch leave out layouts (Visits),  *)
(* and an applied change takes the first one away.                         *)
(*                                                                         *)
(* The totals: rollup adds level by level, the deepest first, and after    *)
(* k turns the folders of the k lowest levels hold the sum over their      *)
(* subtree; pruning takes from the folders above exactly what it hides;    *)
(* and a change that is applied to a rooted tree and leaves a rooted tree  *)
(* keeps every total (ApplyKept, in IndexProofs).                          *)
(*                                                                         *)
(* The mirror: with the journal read and every change applied, one layout  *)
(* is left of the history, and it is the volume's, so places are shown as  *)
(* they are.  Sizes are in no record of the journal: they are looked up by *)
(* the file's path in the index when a record is translated.  The size of  *)
(* a file is right in the index, or it is owed (Owed): the file is open,   *)
(* or its record, or what was made of it, is still on its way.  Where the  *)
(* daemon keeps up, the volume waits while something is on its way, so the *)
(* look at the file finds that file (StatIs) and the size it ends with.    *)
(***************************************************************************)
EXTENDS LiveIndex, IndexProofs, SequenceTheorems

------------------------------------------------------------------------------
\* Nodes of a scan: one for each record in use.

\* The nodes of a volume's records: 0 .. Count(vol) - 1, in record order.
Count(vol) == Cardinality(InUse(vol))

LEMMA CountIs ==
    ASSUME NEW vol
    PROVE  /\ IsFiniteSet(InUse(vol)) /\ Count(vol) \in 0 .. MaxNodes
           /\ 0 .. Count(vol) - 1 \subseteq Node
  <1>1. IsFiniteSet(Rec) /\ Cardinality(Rec) \in Nat /\ Cardinality(Rec) <= MaxNodes
    BY VolumeAssumption, FS_CardinalityType
  <1>2. InUse(vol) \in SUBSET Rec
    BY DEF InUse
  <1>3. IsFiniteSet(InUse(vol)) /\ Cardinality(InUse(vol)) \in Nat
        /\ Cardinality(InUse(vol)) <= Cardinality(Rec)
    BY <1>1, <1>2, SubsetCard
  <1>4. MaxNodes \in Nat
    BY IndexAssumption
  <1> QED
    BY <1>1, <1>3, <1>4 DEF Count, Node

\* Each member has a place of its own, and all places are taken.
Placed(place, S) ==
    /\ \A x \in S : place[x] \in 1 .. Cardinality(S)
    /\ \A x, y \in S : place[x] = place[y] => x = y
    /\ \A i \in 1 .. Cardinality(S) : \E x \in S : place[x] = i

LEMMA PlacedIs ==
    ASSUME NEW S, IsFiniteSet(S), NEW R, InOrder(S, R), NEW place, PlacesIn(place, S, R)
    PROVE  Placed(place, S)
  BY PlacesTaken DEF Placed

LEMMA NodeAtIs ==
    ASSUME NEW vol
    PROVE  /\ \A r \in InUse(vol) : NodeAt(vol, r) \in 0 .. Count(vol) - 1
           /\ \A r \in Rec \ InUse(vol) : NodeAt(vol, r) = NoNode
           /\ \A r, q \in InUse(vol) : NodeAt(vol, r) = NodeAt(vol, q) => r = q
           /\ \A m \in 0 .. Count(vol) - 1 : \E r \in InUse(vol) : NodeAt(vol, r) = m
  <1> DEFINE S == InUse(vol)
             R == {x \in S \X S : x[1] < x[2]}
             place == [x \in S |-> Cardinality({y \in S : <<y, x>> \in R}) + 1]
  <1>1. S \subseteq Nat /\ IsFiniteSet(S)
    BY CountIs, IndexAssumption DEF InUse
  <1>2. \A x, y \in S : <<y, x>> \in R <=> y < x
    OBVIOUS
  <1>3. InOrder(S, R)
    BY <1>1, <1>2 DEF InOrder
  <1>4. PlacesIn(place, S, R)
    BY DEF PlacesIn
  <1>5. \A r \in S : place[r] = NodeAt(vol, r) + 1
    <2> SUFFICES ASSUME NEW r \in S
                 PROVE  place[r] = NodeAt(vol, r) + 1
      OBVIOUS
    <2>1. {y \in S : <<y, r>> \in R} = {q \in S : q < r}
      BY <1>2
    <2> QED
      BY <2>1 DEF NodeAt
  <1>6. \A r \in S : NodeAt(vol, r) \in Nat
    <2> SUFFICES ASSUME NEW r \in S
                 PROVE  NodeAt(vol, r) \in Nat
      OBVIOUS
    <2>1. {q \in S : q < r} \in SUBSET S
      OBVIOUS
    <2> QED
      BY <1>1, <2>1, SubsetCard DEF NodeAt
  <1>7. /\ \A x \in S : place[x] \in 1 .. Cardinality(S)
        /\ \A x, y \in S : place[x] = place[y] => x = y
        /\ \A i \in 1 .. Cardinality(S) : \E x \in S : place[x] = i
    <2>1. IsFiniteSet(S)
      BY <1>1
    <2> HIDE DEF S, R, place
    <2>2. Placed(place, S)
      BY <2>1, <1>3, <1>4, PlacedIs
    <2> QED
      BY <2>2 DEF Placed
  <1>8. Count(vol) \in Nat /\ Count(vol) = Cardinality(S)
    BY CountIs DEF Count
  <1>9. \A r \in Rec \ InUse(vol) : NodeAt(vol, r) = NoNode
    BY DEF NodeAt
  <1> HIDE DEF place, R
  <1>10. \A r \in S : NodeAt(vol, r) \in 0 .. Count(vol) - 1
    BY <1>5, <1>6, <1>7, <1>8
  <1>11. \A m \in 0 .. Count(vol) - 1 : \E r \in S : NodeAt(vol, r) = m
    <2> SUFFICES ASSUME NEW m \in 0 .. Count(vol) - 1
                 PROVE  \E r \in S : NodeAt(vol, r) = m
      OBVIOUS
    <2>1. m + 1 \in 1 .. Cardinality(S)
      BY <1>8
    <2>2. PICK r \in S : place[r] = m + 1
      BY <1>7, <2>1
    <2> QED
      BY <1>5, <1>6, <2>2
  <1> QED
    BY <1>5, <1>7, <1>9, <1>10, <1>11

-----------------------------------------------------------------------------
\* The two passes of add_volume give each record in use a node of its own, with
\* what the record says of it.
Pass(vol, ix) ==
    /\ ix.n = Count(vol) /\ ix.excl = {} /\ ix.del = {}
    /\ ix.dir \subseteq 0 .. ix.n - 1
    /\ \A r \in Rec : ix.rec[r] = NodeAt(vol, r)
    /\ \A r \in InUse(vol) :
         LET m == ix.rec[r]
             p == NodeAt(vol, vol[r].parent)
         IN  /\ ix.seq[m] = vol[r].seq /\ ix.name[m] = vol[r].name
             /\ m \in ix.dir <=> vol[r].dir
             /\ ix.parent[m] = IF r = RootRec \/ p = NoNode THEN ix.rec[RootRec] ELSE p

OwnTotals(vol, ix) ==
    /\ \A r \in InUse(vol) : ix.size[ix.rec[r]] = IF vol[r].dir THEN 0 ELSE vol[r].size
    /\ \A m \in Node : ix.files[m] = 0

LEMMA AllocatedType ==
    ASSUME NEW b \in Nat
    PROVE  Allocated(b) \in Nat
  <1>1. Cluster \in Nat /\ Cluster > 0
    BY IndexAssumption
  <1>2. b + Cluster - 1 \in Nat
    BY <1>1
  <1>3. (b + Cluster - 1) \div Cluster \in Nat
    BY <1>1, <1>2
  <1> DEFINE d == (b + Cluster - 1) \div Cluster
  <1> HIDE DEF d
  <1>4. d \in Nat => d * Cluster \in Nat
    BY <1>1
  <1> QED
    BY <1>3, <1>4 DEF Allocated, d

LEMMA ScannedIs ==
    ASSUME NEW vol \in [Rec -> FileRecord]
    PROVE  /\ Scanned(vol) \in IndexType
           /\ Pass(vol, Scanned(vol)) /\ OwnTotals(vol, Scanned(vol))
  <1> DEFINE rec == [r \in Rec |-> NodeAt(vol, r)]
             at(m) == CHOOSE r \in InUse(vol) : rec[r] = m
             used == 0 .. Cardinality(InUse(vol)) - 1
             root == rec[RootRec]
             parentOf(r) == IF r = RootRec THEN root
                            ELSE IF NodeAt(vol, vol[r].parent) = NoNode THEN root
                            ELSE NodeAt(vol, vol[r].parent)
             own(m)  == IF m \in used /\ ~vol[at(m)].dir THEN vol[at(m)].size ELSE 0
             ix == Scanned(vol)
  <1>1. used = 0 .. Count(vol) - 1 /\ used \subseteq Node /\ Count(vol) \in 0 .. MaxNodes
        /\ InUse(vol) \subseteq Rec /\ RootRec \in Rec
    BY CountIs, IndexAssumption DEF Count, InUse
  <1>2. \A r \in Rec : rec[r] \in used \cup {NoNode}
    BY <1>1, NodeAtIs
  <1>3. \A r \in InUse(vol) : rec[r] \in used /\ at(rec[r]) = r
    BY <1>1, NodeAtIs
  <1>4. \A m \in used : at(m) \in InUse(vol) /\ at(m) \in Rec /\ rec[at(m)] = m
    <2> SUFFICES ASSUME NEW m \in used
                 PROVE  at(m) \in InUse(vol) /\ rec[at(m)] = m
      BY <1>1
    <2>1. \E r \in InUse(vol) : rec[r] = m
      BY <1>1, NodeAtIs
    <2> QED
      BY <2>1
  <1>5. \A r \in Rec : /\ vol[r].name \in Name /\ vol[r].seq \in Nat /\ vol[r].parent \in Rec
                       /\ vol[r].size \in Nat /\ vol[r].dir \in BOOLEAN
    BY DEF FileRecord
  <1>6. \A r \in Rec : parentOf(r) \in Node \cup {NoNode}
    BY <1>1, <1>2, <1>5
  <1>7. \A m \in Node : own(m) \in Nat
    BY <1>4, <1>5
  <1>8. /\ ix.n = Count(vol)
        /\ ix.parent = [m \in Node |-> IF m \in used THEN parentOf(at(m)) ELSE NoNode]
        /\ ix.name = [m \in Node |-> IF m \in used THEN vol[at(m)].name ELSE vol[RootRec].name]
        /\ ix.dir = {m \in used : vol[at(m)].dir} /\ ix.excl = {} /\ ix.del = {}
        /\ ix.seq = [m \in Node |-> IF m \in used THEN vol[at(m)].seq ELSE 0]
        /\ ix.size = [m \in Node |-> own(m)]
        /\ ix.alloc = [m \in Node |-> Allocated(own(m))]
        /\ ix.files = [m \in Node |-> 0] /\ ix.depth = [m \in Node |-> 0]
        /\ ix.rec = rec
        /\ ix = [n |-> ix.n, parent |-> ix.parent, name |-> ix.name, dir |-> ix.dir,
                 excl |-> ix.excl, del |-> ix.del, seq |-> ix.seq, size |-> ix.size,
                 alloc |-> ix.alloc, files |-> ix.files, depth |-> ix.depth, rec |-> ix.rec]
    BY DEF Scanned, Count
  <1> HIDE DEF ix
  <1>9. ix \in IndexType
    <2> HIDE DEF parentOf, own, at, used
    <2>0. \A m \in used : /\ parentOf(at(m)) \in Node \cup {NoNode}
                          /\ vol[at(m)].name \in Name /\ vol[at(m)].seq \in Nat
      BY <1>4, <1>5, <1>6
    <2>1. ix.parent \in [Node -> Node \cup {NoNode}]
      <3> HIDE DEF ix
      <3> QED
        BY <1>8, <2>0
    <2>2. ix.name \in [Node -> Name] /\ ix.seq \in [Node -> Nat]
      <3>1. vol[RootRec].name \in Name
        BY <1>1, <1>5
      <3> QED
        BY <1>8, <2>0, <3>1
    <2>3. ix.size \in [Node -> Nat] /\ ix.alloc \in [Node -> Nat]
      <3>1. \A m \in Node : Allocated(own(m)) \in Nat
        BY <1>7, AllocatedType
      <3> QED
        BY <1>7, <1>8, <3>1
    <2>4. ix.files \in [Node -> Nat] /\ ix.depth \in [Node -> Nat]
      BY <1>8
    <2>5. ix.n \in 0 .. MaxNodes /\ ix.dir \in SUBSET Node /\ ix.excl \in SUBSET Node
          /\ ix.del \in SUBSET Node
      BY <1>1, <1>8
    <2>6. ix.rec \in [Rec -> Node \cup {NoNode}]
      BY <1>1, <1>2, <1>8
    <2> QED
      BY <1>8, <2>1, <2>2, <2>3, <2>4, <2>5, <2>6 DEF IndexType
  <1>10. Pass(vol, ix)
    <2>1. \A r \in Rec : ix.rec[r] = NodeAt(vol, r)
      BY <1>8
    <2>2. ix.dir \subseteq 0 .. ix.n - 1
      BY <1>1, <1>8
    <2>3. ASSUME NEW r \in InUse(vol)
          PROVE  LET m == ix.rec[r]
                     p == NodeAt(vol, vol[r].parent)
                 IN  /\ ix.seq[m] = vol[r].seq /\ ix.name[m] = vol[r].name
                     /\ m \in ix.dir <=> vol[r].dir
                     /\ ix.parent[m] = IF r = RootRec \/ p = NoNode THEN ix.rec[RootRec] ELSE p
      <3>1. rec[r] \in used /\ at(rec[r]) = r /\ rec[r] \in Node
        BY <1>1, <1>3
      <3>2. ix.parent[rec[r]] = parentOf(r) /\ ix.seq[rec[r]] = vol[r].seq
            /\ ix.name[rec[r]] = vol[r].name /\ (rec[r] \in ix.dir <=> vol[r].dir)
        <4> HIDE DEF parentOf, used, rec, at
        <4> QED
          BY <1>8, <3>1
      <3> QED
        BY <1>8, <3>2
    <2> QED
      BY <1>8, <2>1, <2>2, <2>3 DEF Pass
  <1>11. OwnTotals(vol, ix)
    <2>1. ASSUME NEW r \in InUse(vol)
          PROVE  ix.size[ix.rec[r]] = IF vol[r].dir THEN 0 ELSE vol[r].size
      <3>1. rec[r] \in used /\ at(rec[r]) = r /\ rec[r] \in Node
        BY <1>1, <1>3
      <3>2. ix.size[rec[r]] = own(rec[r])
        <4> HIDE DEF own, used, rec
        <4> QED
          BY <1>8, <3>1
      <3> QED
        BY <1>8, <3>1, <3>2
    <2> QED
      BY <1>8, <2>1 DEF OwnTotals
  <1> QED
    BY <1>9, <1>10, <1>11 DEF ix

------------------------------------------------------------------------------
\* rollup, turn by turn.

\* What rollup, compute_depths and the totals leave alone.
SamePlaces(ix, jx) ==
    /\ jx.n = ix.n /\ jx.parent = ix.parent /\ jx.name = ix.name /\ jx.dir = ix.dir
    /\ jx.del = ix.del /\ jx.seq = ix.seq /\ jx.rec = ix.rec

Kids(ix, d, p) ==
    {m \in 0 .. ix.n - 1 : ix.depth[m] = d /\ ~IsRoot(ix, m) /\ ix.parent[m] = p}

Counts(ix) == [m \in Node |-> FilesOf(ix, m)]

\* What one turn of rollup's walk adds to each folder.
Folded(ix, d, jx) ==
    /\ SamePlaces(ix, jx) /\ jx.excl = ix.excl /\ jx.depth = ix.depth
    /\ \A p \in Node : /\ jx.size[p] = ix.size[p] + SumOf(ix.size, Kids(ix, d, p))
                       /\ jx.files[p] = ix.files[p] + SumOf(Counts(ix), Kids(ix, d, p))

LEMMA SumType ==
    ASSUME NEW w \in [Node -> Nat], NEW T \in SUBSET Node
    PROVE  SumOf(w, T) \in Nat
  <1>1. IsFiniteSet(Node)
    BY IndexAssumption, FS_Interval DEF Node
  <1>2. PICK g : AddsUp(g, Node, w)
    BY <1>1, SumsExist
  <1>3. SumOf(w, T) = g[T]
    BY <1>1, <1>2, SumOver
  <1> QED
    BY <1>2, <1>3 DEF AddsUp

LEMMA FoldLevelIs ==
    ASSUME NEW ix \in IndexType, NEW d \in Nat
    PROVE  FoldLevel(ix, d) \in IndexType /\ Folded(ix, d, FoldLevel(ix, d))
  <1> DEFINE level == {m \in 0 .. ix.n - 1 : ix.depth[m] = d /\ ~IsRoot(ix, m)}
             kids(p) == {m \in level : ix.parent[m] = p}
             sum(w, p) == MapThenSumSet(LAMBDA m : w[m], kids(p))
             size  == [p \in Node |-> ix.size[p]  + sum(ix.size, p)]
             alloc == [p \in Node |-> ix.alloc[p] + sum(ix.alloc, p)]
             files == [p \in Node |-> ix.files[p] + sum(Counts(ix), p)]
  <1>1. FoldLevel(ix, d) = [ix EXCEPT !.size = size, !.alloc = alloc, !.files = files]
    BY Zenon DEF FoldLevel, Counts
  <1>2. \A p : kids(p) = Kids(ix, d, p)
    BY DEF Kids
  <1>3. \A p : Kids(ix, d, p) \in SUBSET Node
    BY IndexAssumption DEF Kids, IndexType, Node
  <1>4. \A w, p : sum(w, p) = SumOf(w, Kids(ix, d, p))
    <2> SUFFICES ASSUME NEW w, NEW p
                 PROVE  sum(w, p) = SumOf(w, Kids(ix, d, p))
      OBVIOUS
    <2> HIDE DEF level
    <2> QED
      BY <1>2, Zenon DEF SumOf
  <1> HIDE DEF sum
  <1>5. ix.size \in [Node -> Nat] /\ ix.alloc \in [Node -> Nat] /\ ix.files \in [Node -> Nat]
        /\ Counts(ix) \in [Node -> Nat]
    <2>1. \A m \in Node : FilesOf(ix, m) \in Nat
      BY FilesOfType
    <2> QED
      BY <2>1 DEF IndexType, Counts
  <1>6. \A p \in Node : /\ sum(ix.size, p) \in Nat /\ sum(ix.alloc, p) \in Nat
                        /\ sum(Counts(ix), p) \in Nat
    BY <1>3, <1>4, <1>5, SumType
  <1>7. size \in [Node -> Nat] /\ alloc \in [Node -> Nat] /\ files \in [Node -> Nat]
    BY <1>5, <1>6
  <1>8. FoldLevel(ix, d) \in IndexType
    <2> HIDE DEF size, alloc, files
    <2> QED
      BY <1>1, <1>7 DEF IndexType
  <1>9. /\ FoldLevel(ix, d).size = size /\ FoldLevel(ix, d).files = files
        /\ SamePlaces(ix, FoldLevel(ix, d)) /\ FoldLevel(ix, d).excl = ix.excl
        /\ FoldLevel(ix, d).depth = ix.depth
    <2> HIDE DEF size, alloc, files
    <2> QED
      BY <1>1 DEF IndexType, SamePlaces
  <1> QED
    BY <1>4, <1>8, <1>9 DEF Folded

-----------------------------------------------------------------------------
\* rollup, turn by turn: turn k folds level top + 1 - k.
Deepest(ix) == Max({ix.depth[m] : m \in Node})

Rolls(f, ix, top) ==
    /\ f \in [0 .. top -> IndexType] /\ f[0] = ix
    /\ \A k \in 1 .. top : f[k] = FoldLevel(f[k - 1], top + 1 - k)

LEMMA DeepestIs ==
    ASSUME NEW ix \in IndexType
    PROVE  Deepest(ix) \in Nat /\ \A m \in Node : ix.depth[m] <= Deepest(ix)
  <1> DEFINE S == {ix.depth[m] : m \in Node}
  <1>1. IsFiniteSet(Node) /\ 0 \in Node
    BY IndexAssumption, FS_Interval DEF Node
  <1>3. S \in SUBSET Nat /\ S # {}
    BY <1>1 DEF IndexType
  <1>4. \E b \in Nat : \A x \in S : x <= b
    <2> DEFINE Bounded == {T \in SUBSET Node : \E b \in Nat : \A m \in T : ix.depth[m] <= b}
    <2>1. ASSUME NEW T \in SUBSET Node,
                 \A t \in SUBSET Node : Cardinality(t) < Cardinality(T) => t \in Bounded
          PROVE  T \in Bounded
      <3>1. CASE T = {}
        BY <3>1
      <3>2. CASE T # {}
        <4>1. PICK x : x \in T
          BY <3>2
        <4>2. T \ {x} \in SUBSET Node /\ Cardinality(T \ {x}) < Cardinality(T)
          <5>1. IsFiniteSet(T) /\ Cardinality(T) \in Nat
            BY <1>1, SubsetCard
          <5>2. Cardinality(T \ {x}) = Cardinality(T) - 1
            BY <4>1, <5>1, FS_RemoveElement
          <5> QED
            BY <5>1, <5>2
        <4>3. PICK b \in Nat : \A m \in T \ {x} : ix.depth[m] <= b
          BY <2>1, <4>2
        <4>4. ix.depth[x] \in Nat
          BY <4>1 DEF IndexType
        <4>5. \A m \in T : ix.depth[m] \in Nat
          BY DEF IndexType
        <4>6. b + ix.depth[x] \in Nat /\ \A m \in T : ix.depth[m] <= b + ix.depth[x]
          BY <4>3, <4>4, <4>5
        <4> QED
          BY <4>6
      <3> QED
        BY <3>1, <3>2
    <2> HIDE DEF Bounded
    <2>2. \A T \in SUBSET Node : T \in Bounded
      BY <1>1, <2>1, SubsetInduct
    <2>3. Node \in Bounded
      BY <2>2
    <2> QED
      BY <2>3 DEF Bounded
  <1>5. PICK b \in Nat : \A x \in S : x <= b
    BY <1>4
  <1>6. S \in SUBSET (0 .. b)
    BY <1>3, <1>5
  <1>7. Max(S) \in S /\ \A x \in S : x <= Max(S)
    <2> HIDE DEF S
    <2> QED
      BY <1>3, <1>6, MaxFrom0
  <1> QED
    BY <1>3, <1>7 DEF Deepest

LEMMA RollupIs ==
    ASSUME NEW ix \in IndexType
    PROVE  \E f : Rolls(f, ix, Deepest(ix)) /\ Rollup(ix) = f[Deepest(ix)]
  <1> DEFINE N == Deepest(ix)
             lv == [i \in 1 .. N |-> N + 1 - i]
             G == [p \in IndexType \X (1 .. N) |-> FoldLevel(p[1], lv[p[2]])]
             Folds(it) == it = [s \in SUBSET (1 .. N) |-> IF s = {} THEN ix
                                  ELSE FoldLevel(it[s \ {Max(s)}], lv[Max(s)])]
             it == CHOOSE it : Folds(it)
  <1>1. N \in Nat
    BY DeepestIs
  <1>2. \A i \in 1 .. N : lv[i] \in Nat
    BY <1>1
  <1>3. DOMAIN lv = 1 .. N
    OBVIOUS
  <1>4. Rollup(ix) = it[1 .. N]
    BY <1>3, Zenon DEF Rollup, FoldLeft, MapThenFoldSet, Deepest
  <1> HIDE DEF N, lv
  <1>5. G \in [IndexType \X (1 .. N) -> IndexType]
    BY <1>2, FoldLevelIs
  <1>6. \E f : Folds(f)
    <2>1. PICK f : FoldsBy(f, N, IndexType, ix, G)
      <3> HIDE DEF G
      <3> QED
        BY <1>1, <1>5, FoldSolved
    <2>2. ASSUME NEW s \in SUBSET (1 .. N), s # {}
          PROVE  G[<<f[s \ {Max(s)}], Max(s)>>] = FoldLevel(f[s \ {Max(s)}], lv[Max(s)])
      <3>1. Max(s) \in 1 .. N
        BY <1>1, <2>2, MaxInSet
      <3>2. f[s \ {Max(s)}] \in IndexType
        BY <2>1 DEF FoldsBy
      <3> QED
        BY <3>1, <3>2
    <2>3. \A s \in SUBSET (1 .. N) :
            f[s] = IF s = {} THEN ix ELSE FoldLevel(f[s \ {Max(s)}], lv[Max(s)])
      <3> HIDE DEF G
      <3> QED
        BY <2>1, <2>2 DEF FoldsBy
    <2>4. f = [s \in SUBSET (1 .. N) |-> f[s]]
      BY <2>1 DEF FoldsBy
    <2>5. Folds(f)
      BY <2>3, <2>4
    <2> QED
      BY <2>5
  <1>7. Folds(it)
    <2> HIDE DEF Folds
    <2> QED
      BY <1>6
  <1> HIDE DEF it
  <1>8. \A s \in SUBSET (1 .. N) :
          it[s] = IF s = {} THEN ix ELSE FoldLevel(it[s \ {Max(s)}], lv[Max(s)])
    BY <1>7
  <1>9. it[1 .. 0] = ix /\ \A k \in 1 .. N : it[1 .. k] = FoldLevel(it[1 .. k - 1], N + 1 - k)
    <2>1. it[1 .. 0] = ix
      <3>1. 1 .. 0 = {} /\ {} \in SUBSET (1 .. N)
        OBVIOUS
      <3> QED
        BY <1>8, <3>1, Zenon
    <2>2. ASSUME NEW k \in 1 .. N
          PROVE  it[1 .. k] = FoldLevel(it[1 .. k - 1], N + 1 - k)
      <3>1. Max(1 .. k) = k /\ (1 .. k) \ {k} = 1 .. k - 1
        BY <1>1, MaxOfStretch
      <3>2. 1 .. k \in SUBSET (1 .. N) /\ k \in 1 .. k
        BY <1>1
      <3>3. lv[k] = N + 1 - k
        BY DEF lv
      <3> QED
        BY <1>8, <3>1, <3>2, <3>3, Zenon
    <2> QED
      BY <2>1, <2>2
  <1> HIDE DEF Folds
  <1> DEFINE f == [k \in 0 .. N |-> it[1 .. k]]
  <1>10. f[0] = ix /\ \A k \in 1 .. N : f[k] = FoldLevel(f[k - 1], N + 1 - k)
    BY <1>1, <1>9
  <1>11. f \in [0 .. N -> IndexType]
    <2> DEFINE S == {k \in 0 .. N : f[k] \in IndexType}
    <2> HIDE DEF f
    <2>1. 0 \in S
      BY <1>1, <1>10
    <2>2. ASSUME NEW k \in S, k < N
          PROVE  k + 1 \in S
      <3>1. k + 1 \in 1 .. N /\ (k + 1) - 1 = k /\ N + 1 - (k + 1) \in Nat
        BY <1>1, <2>2
      <3>2. f[k + 1] = FoldLevel(f[k], N + 1 - (k + 1))
        BY <1>10, <3>1
      <3> QED
        BY <3>1, <3>2, FoldLevelIs
    <2>3. S = 0 .. N
      <3> HIDE DEF S
      <3>1. S \in SUBSET (0 .. N)
        BY DEF S
      <3> QED
        BY <1>1, <2>1, <2>2, <3>1, InductUpTo
    <2>4. f = [k \in 0 .. N |-> f[k]]
      BY DEF f
    <2> QED
      BY <2>3, <2>4
  <1>12. Rollup(ix) = f[N]
    BY <1>1, <1>4
  <1> HIDE DEF f
  <1> QED
    BY <1>10, <1>11, <1>12 DEF Rolls, N

------------------------------------------------------------------------------
\* Pruning the excluded paths: what it leaves alone, whatever is configured.

LEMMA SamePlacesTransitive ==
    ASSUME NEW ix, NEW jx, NEW kx, SamePlaces(ix, jx), SamePlaces(jx, kx)
    PROVE  SamePlaces(ix, kx)
  BY DEF SamePlaces

LEMMA AncestorCount ==
    ASSUME NEW ix \in IndexType, NEW m \in Node
    PROVE  IsFiniteSet(Ancestors(ix, m)) /\ Cardinality(Ancestors(ix, m)) \in Nat
  <1>1. Ancestors(ix, m) \in SUBSET Node /\ IsFiniteSet(Node)
    BY AncestorIs, LiveNodes
  <1> QED
    BY <1>1, SubsetCard

LEMMA DepthsIs ==
    ASSUME NEW ix \in IndexType
    PROVE  /\ Depths(ix) \in IndexType /\ SamePlaces(ix, Depths(ix))
           /\ Depths(ix).excl = ix.excl /\ Depths(ix).size = ix.size
           /\ Depths(ix).files = ix.files
           /\ \A m \in Node : Depths(ix).depth[m] =
                IF m < ix.n /\ ~IsRoot(ix, m) THEN Cardinality(Ancestors(ix, m)) ELSE 0
  <1> DEFINE depth == [m \in Node |->
                 IF m < ix.n /\ ~IsRoot(ix, m) THEN Cardinality(Ancestors(ix, m)) ELSE 0]
  <1>1. depth \in [Node -> Nat]
    BY AncestorCount
  <1>2. Depths(ix) = [ix EXCEPT !.depth = depth]
    BY DEF Depths
  <1>3. \A m \in Node : depth[m] =
                IF m < ix.n /\ ~IsRoot(ix, m) THEN Cardinality(Ancestors(ix, m)) ELSE 0
    OBVIOUS
  <1> HIDE DEF depth
  <1> QED
    BY <1>1, <1>2, <1>3 DEF IndexType, SamePlaces

LEMMA RollsStays ==
    ASSUME NEW ix \in IndexType, NEW f, NEW top \in Nat, Rolls(f, ix, top)
    PROVE  /\ f[top] \in IndexType
           /\ \A k \in 0 .. top : f[k] \in IndexType /\ SamePlaces(ix, f[k])
                                  /\ f[k].excl = ix.excl /\ f[k].depth = ix.depth
  <1> DEFINE P(k) == f[k] \in IndexType /\ SamePlaces(ix, f[k])
                     /\ f[k].excl = ix.excl /\ f[k].depth = ix.depth
             S == {k \in 0 .. top : P(k)}
  <1>1. 0 \in S
    BY DEF Rolls, SamePlaces
  <1>2. ASSUME NEW k \in S, k < top
        PROVE  k + 1 \in S
    <2>1. k + 1 \in 1 .. top /\ (k + 1) - 1 = k /\ top + 1 - (k + 1) \in Nat
      BY <1>2
    <2>2. f[k + 1] = FoldLevel(f[k], top + 1 - (k + 1))
      BY <2>1 DEF Rolls
    <2>3. f[k + 1] \in IndexType /\ Folded(f[k], top + 1 - (k + 1), f[k + 1])
      BY <2>1, <2>2, FoldLevelIs
    <2>4. SamePlaces(ix, f[k + 1])
      BY <2>3, SamePlacesTransitive DEF Folded
    <2> QED
      BY <2>1, <2>3, <2>4 DEF Folded
  <1>3. S = 0 .. top
    <2>1. S \in SUBSET (0 .. top)
      OBVIOUS
    <2> HIDE DEF S
    <2> QED
      BY <1>1, <1>2, <2>1, InductUpTo
  <1> QED
    BY <1>3

LEMMA BuiltIs ==
    ASSUME NEW vol \in [Rec -> FileRecord]
    PROVE  Built(vol) \in IndexType /\ SamePlaces(Scanned(vol), Built(vol))
           /\ Built(vol).excl = {}
  <1> DEFINE sx == Scanned(vol)
             dx == Depths(sx)
  <1>1. sx \in IndexType /\ sx.excl = {}
    BY ScannedIs DEF Pass
  <1>2. dx \in IndexType /\ SamePlaces(sx, dx) /\ dx.excl = {}
    BY <1>1, DepthsIs
  <1>3. PICK f : Rolls(f, dx, Deepest(dx)) /\ Rollup(dx) = f[Deepest(dx)]
    BY <1>2, RollupIs
  <1>4. Deepest(dx) \in Nat
    BY <1>2, DeepestIs
  <1> HIDE DEF dx, sx
  <1>5. Rollup(dx) \in IndexType /\ SamePlaces(dx, Rollup(dx)) /\ Rollup(dx).excl = dx.excl
    BY <1>2, <1>3, <1>4, RollsStays
  <1>6. Built(vol) = Rollup(dx)
    BY DEF Built, dx, sx
  <1> QED
    BY <1>2, <1>5, <1>6, SamePlacesTransitive DEF sx

-----------------------------------------------------------------------------
\* Pruning marks nodes and changes totals; it moves nothing.
LEMMA ExcludeIs ==
    ASSUME NEW ix \in IndexType, NEW top \in Node
    PROVE  /\ ExcludeSubtree(ix, top) \in IndexType
           /\ SamePlaces(ix, ExcludeSubtree(ix, top))
           /\ ExcludeSubtree(ix, top).excl =
                IF top \in ix.excl THEN ix.excl ELSE ix.excl \cup Subtree(ix, top)
  <1>1. CASE top \in ix.excl
    BY <1>1 DEF ExcludeSubtree, SamePlaces
  <1>2. CASE top \notin ix.excl
    <2> DEFINE ex == ix.excl \cup Subtree(ix, top)
               kx == [ix EXCEPT !.excl = ex]
               ds == - ix.size[top]
               da == - ix.alloc[top]
               df == - ix.files[top]
               jx == Propagate(kx, top, ds, da, df)
    <2>1. ExcludeSubtree(ix, top) = jx
      BY <1>2 DEF ExcludeSubtree
    <2>2. ex \in SUBSET Node
      BY IndexAssumption DEF Subtree, IndexType, Node
    <2>3. ds \in Int /\ da \in Int /\ df \in Int
      <3>1. ix.size[top] \in Nat /\ ix.alloc[top] \in Nat /\ ix.files[top] \in Nat
        BY DEF IndexType
      <3> QED
        BY <3>1
    <2> HIDE DEF ex, ds, da, df
    <2>4. kx \in IndexType /\ kx.excl = ex /\ SamePlaces(ix, kx)
      BY <2>2 DEF IndexType, SamePlaces
    <2> HIDE DEF kx
    <2>5. /\ jx \in IndexType /\ SameTable(kx, jx)
          /\ jx.parent = kx.parent /\ jx.name = kx.name /\ jx.excl = kx.excl
      BY <2>3, <2>4, PropagateGood
    <2>6. SamePlaces(kx, jx)
      BY <2>5 DEF SamePlaces, SameTable
    <2> HIDE DEF jx
    <2> QED
      BY <1>2, <2>1, <2>4, <2>5, <2>6, SamePlacesTransitive DEF ex
  <1> QED
    BY <1>1, <1>2

\* A path is looked up name by name.
Looks(f, ix, path) ==
    /\ f \in [0 .. Len(path) -> Stands] /\ f[0] = ix.rec[RootRec]
    /\ \A k \in 1 .. Len(path) : f[k] = ChildNamed(ix, f[k - 1], path[k])

LEMMA ChildNamedType ==
    ASSUME NEW ix \in IndexType, NEW p, NEW nm
    PROVE  ChildNamed(ix, p, nm) \in Stands
  <1> DEFINE kids == {m \in 0 .. ix.n - 1 : ix.parent[m] = p /\ m # p /\ ix.name[m] = nm}
  <1>1. kids \in SUBSET Nat /\ kids \in SUBSET Node
    BY IndexAssumption DEF IndexType, Node
  <1>2. kids # {} => Min(kids) \in kids
    <2> SUFFICES ASSUME kids # {}
                 PROVE  Min(kids) \in kids
      OBVIOUS
    <2> HIDE DEF kids
    <2>1. \E x \in kids : \A y \in kids : x <= y
      BY <1>1, LeastOf
    <2> QED
      BY <2>1 DEF Min
  <1>3. kids # {} => Min(kids) \in Node
    BY <1>1, <1>2
  <1>4. ChildNamed(ix, p, nm) = IF p = NoNode \/ kids = {} THEN NoNode ELSE Min(kids)
    BY DEF ChildNamed
  <1> HIDE DEF kids
  <1> QED
    BY <1>3, <1>4 DEF Stands

LEMMA LookupIs ==
    ASSUME NEW ix \in IndexType, NEW path \in Seq(Name)
    PROVE  \E f : Looks(f, ix, path) /\ Lookup(ix, path) = f[Len(path)]
  <1> DEFINE N == Len(path)
             base == ix.rec[RootRec]
             G == [p \in Stands \X (1 .. N) |-> ChildNamed(ix, p[1], path[p[2]])]
             Folds(it) == it = [s \in SUBSET (1 .. N) |-> IF s = {} THEN base
                                  ELSE ChildNamed(ix, it[s \ {Max(s)}], path[Max(s)])]
             it == CHOOSE it : Folds(it)
  <1>1. N \in Nat /\ DOMAIN path = 1 .. N /\ base \in Stands
    BY IndexAssumption DEF IndexType, Stands
  <1>2. Lookup(ix, path) = it[1 .. N]
    BY <1>1, Zenon DEF Lookup, FoldLeft, MapThenFoldSet
  <1> HIDE DEF N, base
  <1>3. G \in [Stands \X (1 .. N) -> Stands]
    BY ChildNamedType
  <1>4. \E f : Folds(f)
    <2>1. PICK f : FoldsBy(f, N, Stands, base, G)
      <3> HIDE DEF G
      <3> QED
        BY <1>1, <1>3, FoldSolved
    <2>2. ASSUME NEW s \in SUBSET (1 .. N), s # {}
          PROVE  G[<<f[s \ {Max(s)}], Max(s)>>] = ChildNamed(ix, f[s \ {Max(s)}], path[Max(s)])
      <3>1. Max(s) \in 1 .. N
        BY <1>1, <2>2, MaxInSet
      <3>2. f[s \ {Max(s)}] \in Stands
        BY <2>1 DEF FoldsBy
      <3> QED
        BY <3>1, <3>2
    <2>3. \A s \in SUBSET (1 .. N) :
            f[s] = IF s = {} THEN base ELSE ChildNamed(ix, f[s \ {Max(s)}], path[Max(s)])
      <3> HIDE DEF G
      <3> QED
        BY <2>1, <2>2 DEF FoldsBy
    <2>4. f = [s \in SUBSET (1 .. N) |-> f[s]]
      BY <2>1 DEF FoldsBy
    <2>5. Folds(f)
      BY <2>3, <2>4
    <2> QED
      BY <2>5
  <1>5. Folds(it)
    <2> HIDE DEF Folds
    <2> QED
      BY <1>4
  <1> HIDE DEF it
  <1>6. \A s \in SUBSET (1 .. N) :
          it[s] = IF s = {} THEN base ELSE ChildNamed(ix, it[s \ {Max(s)}], path[Max(s)])
    BY <1>5
  <1>7. it[1 .. 0] = base /\ \A k \in 1 .. N : it[1 .. k] = ChildNamed(ix, it[1 .. k - 1], path[k])
    <2>1. it[1 .. 0] = base
      <3>1. 1 .. 0 = {} /\ {} \in SUBSET (1 .. N)
        OBVIOUS
      <3> QED
        BY <1>6, <3>1, Zenon
    <2>2. ASSUME NEW k \in 1 .. N
          PROVE  it[1 .. k] = ChildNamed(ix, it[1 .. k - 1], path[k])
      <3>1. Max(1 .. k) = k /\ (1 .. k) \ {k} = 1 .. k - 1
        BY <1>1, MaxOfStretch
      <3>2. 1 .. k \in SUBSET (1 .. N) /\ k \in 1 .. k
        BY <1>1
      <3> QED
        BY <1>6, <3>1, <3>2, Zenon
    <2> QED
      BY <2>1, <2>2
  <1> HIDE DEF Folds
  <1> DEFINE f == [k \in 0 .. N |-> it[1 .. k]]
  <1>8. f[0] = base /\ \A k \in 1 .. N : f[k] = ChildNamed(ix, f[k - 1], path[k])
    BY <1>1, <1>7
  <1>9. f \in [0 .. N -> Stands]
    <2>1. \A k \in 1 .. N : f[k] \in Stands
      <3> HIDE DEF f
      <3> QED
        BY <1>8, ChildNamedType
    <2>2. \A k \in 0 .. N : f[k] \in Stands
      <3> HIDE DEF f
      <3> QED
        BY <1>1, <1>8, <2>1
    <2> QED
      BY <2>2
  <1>10. Lookup(ix, path) = f[N]
    BY <1>1, <1>2
  <1> HIDE DEF f
  <1> QED
    BY <1>8, <1>9, <1>10 DEF Looks, N, base

\* It is looked up by names and parents alone.
LEMMA LookupSame ==
    ASSUME NEW ix \in IndexType, NEW jx \in IndexType, SamePlaces(ix, jx), NEW path \in Seq(Name)
    PROVE  Lookup(jx, path) = Lookup(ix, path) /\ Lookup(ix, path) \in Stands
  <1>1. PICK f : Looks(f, ix, path) /\ Lookup(ix, path) = f[Len(path)]
    BY LookupIs
  <1>2. PICK g : Looks(g, jx, path) /\ Lookup(jx, path) = g[Len(path)]
    BY LookupIs
  <1>3. \A p, nm : ChildNamed(jx, p, nm) = ChildNamed(ix, p, nm)
    BY DEF ChildNamed, SamePlaces
  <1> DEFINE N == Len(path)
             S == {k \in 0 .. N : f[k] = g[k]}
  <1>4. N \in Nat
    OBVIOUS
  <1>5. 0 \in S
    BY <1>1, <1>2, <1>4 DEF Looks, SamePlaces
  <1>6. ASSUME NEW k \in S, k < N
        PROVE  k + 1 \in S
    <2>1. k + 1 \in 1 .. N /\ (k + 1) - 1 = k
      BY <1>4, <1>6
    <2> QED
      BY <1>1, <1>2, <1>3, <2>1 DEF Looks
  <1>7. S = 0 .. N
    <2>1. S \in SUBSET (0 .. N)
      OBVIOUS
    <2> HIDE DEF S, N
    <2> QED
      BY <1>4, <1>5, <1>6, <2>1, InductUpTo
  <1> QED
    BY <1>1, <1>2, <1>4, <1>7 DEF Looks

-----------------------------------------------------------------------------
\* Pruning all the paths, one after another, in whatever order.
Prune(path, jx) ==
    IF Lookup(jx, path) = NoNode THEN jx ELSE ExcludeSubtree(jx, Lookup(jx, path))

Prunes(g, ix, paths) ==
    /\ g \in [SUBSET paths -> IndexType]
    /\ \A s \in SUBSET paths :
         g[s] = IF s = {} THEN ix ELSE Prune(Chosen(s), g[s \ {Chosen(s)}])

LEMMA PruneType ==
    ASSUME NEW ix \in IndexType, NEW path \in Seq(Name)
    PROVE  Prune(path, ix) \in IndexType /\ SamePlaces(ix, Prune(path, ix))
  <1>1. Lookup(ix, path) \in Stands
    BY LookupSame DEF SamePlaces
  <1> QED
    BY <1>1, ExcludeIs DEF Prune, Stands, SamePlaces

LEMMA ExcludeAllIs ==
    ASSUME NEW ix \in IndexType, NEW paths \in SUBSET Seq(Name), IsFiniteSet(paths)
    PROVE  \E g : Prunes(g, ix, paths) /\ ExcludeAll(ix, paths) = g[paths]
  <1> DEFINE G == [p \in IndexType \X paths |-> Prune(p[2], p[1])]
             Folds(it) == it = [s \in SUBSET paths |-> IF s = {} THEN ix
                                  ELSE Prune(Chosen(s), it[s \ {Chosen(s)}])]
             it == CHOOSE it : Folds(it)
  <1>1. ExcludeAll(ix, paths) = it[paths]
    BY Zenon DEF ExcludeAll, FoldSet, MapThenFoldSet, Chosen, Prune
  <1>2. G \in [IndexType \X paths -> IndexType]
    BY PruneType
  <1>3. \E f : Folds(f)
    <2>1. PICK f : SetFolds(f, paths, IndexType, ix, G)
      <3> HIDE DEF G
      <3> QED
        BY <1>2, SetFoldSolved
    <2>2. ASSUME NEW s \in SUBSET paths, s # {}
          PROVE  G[<<f[s \ {Chosen(s)}], Chosen(s)>>] = Prune(Chosen(s), f[s \ {Chosen(s)}])
      <3>1. Chosen(s) \in paths /\ s \ {Chosen(s)} \in SUBSET paths
        BY <2>2, ChosenIs
      <3>2. f[s \ {Chosen(s)}] \in IndexType
        BY <2>1, <3>1 DEF SetFolds
      <3> QED
        BY <3>1, <3>2
    <2>3. \A s \in SUBSET paths :
            f[s] = IF s = {} THEN ix ELSE Prune(Chosen(s), f[s \ {Chosen(s)}])
      <3> HIDE DEF G
      <3> QED
        BY <2>1, <2>2 DEF SetFolds
    <2>4. f = [s \in SUBSET paths |-> f[s]] /\ f \in [SUBSET paths -> IndexType]
      BY <2>1 DEF SetFolds
    <2>5. Folds(f)
      BY <2>3, <2>4
    <2> QED
      BY <2>5
  <1>4. Folds(it)
    <2> HIDE DEF Folds
    <2> QED
      BY <1>3
  <1> HIDE DEF it
  <1>5. \A s \in SUBSET paths :
          it[s] = IF s = {} THEN ix ELSE Prune(Chosen(s), it[s \ {Chosen(s)}])
    BY <1>4
  <1>6. \A s \in SUBSET paths : it[s] \in IndexType
    <2> DEFINE P == {s \in SUBSET paths : it[s] \in IndexType}
    <2>1. ASSUME NEW s \in SUBSET paths,
                 \A t \in SUBSET paths : Cardinality(t) < Cardinality(s) => t \in P
          PROVE  s \in P
      <3>1. CASE s = {}
        BY <1>5, <3>1
      <3>2. CASE s # {}
        <4>1. /\ Chosen(s) \in paths /\ s \ {Chosen(s)} \in SUBSET paths
              /\ Cardinality(s) \in Nat
              /\ Cardinality(s \ {Chosen(s)}) = Cardinality(s) - 1
          BY <3>2, ChosenIs
        <4>2. it[s \ {Chosen(s)}] \in IndexType
          BY <2>1, <4>1
        <4>3. Chosen(s) \in Seq(Name)
          BY <4>1
        <4> QED
          BY <1>5, <3>2, <4>2, <4>3, PruneType
      <3> QED
        BY <3>1, <3>2
    <2> HIDE DEF P
    <2>2. \A s \in SUBSET paths : s \in P
      BY <2>1, SubsetInduct
    <2> QED
      BY <2>2 DEF P
  <1>7. it = [s \in SUBSET paths |-> it[s]]
    BY <1>4
  <1>8. it \in [SUBSET paths -> IndexType]
    BY <1>6, <1>7
  <1> HIDE DEF Folds
  <1> QED
    BY <1>1, <1>5, <1>8 DEF Prunes

\* What any number of prunings does, if one does it whatever the index: a fact of
\* index pairs that a pruning keeps, written as the set of the indexes it holds of.
LEMMA PrunesStay ==
    ASSUME NEW paths \in SUBSET Seq(Name), IsFiniteSet(paths), NEW ix \in IndexType,
           NEW g, Prunes(g, ix, paths), NEW P, ix \in P,
           \A path \in paths : \A jx \in IndexType \cap P : Prune(path, jx) \in P
    PROVE  g[paths] \in P
  <1> DEFINE K == {s \in SUBSET paths : g[s] \in P}
  <1>1. ASSUME NEW s \in SUBSET paths,
               \A t \in SUBSET paths : Cardinality(t) < Cardinality(s) => t \in K
        PROVE  s \in K
    <2>1. CASE s = {}
      BY <2>1 DEF Prunes
    <2>2. CASE s # {}
      <3>1. /\ Chosen(s) \in paths /\ s \ {Chosen(s)} \in SUBSET paths
            /\ Cardinality(s) \in Nat
            /\ Cardinality(s \ {Chosen(s)}) = Cardinality(s) - 1
        BY <2>2, ChosenIs
      <3>2. g[s \ {Chosen(s)}] \in P /\ g[s \ {Chosen(s)}] \in IndexType
        BY <1>1, <3>1 DEF Prunes
      <3>3. g[s] = Prune(Chosen(s), g[s \ {Chosen(s)}])
        BY <2>2 DEF Prunes
      <3> QED
        BY <3>1, <3>2, <3>3
    <2> QED
      BY <2>1, <2>2
  <1> HIDE DEF K
  <1>2. \A s \in SUBSET paths : s \in K
    BY <1>1, SubsetInduct
  <1> QED
    BY <1>2 DEF K

LEMMA ScanIndexIs ==
    ASSUME NEW vol \in [Rec -> FileRecord], NEW paths \in SUBSET Seq(Name), IsFiniteSet(paths)
    PROVE  /\ ExcludeAll(Built(vol), paths) \in IndexType
           /\ SamePlaces(Scanned(vol), ExcludeAll(Built(vol), paths))
           /\ ExcludeAll(Built(vol), paths).excl \subseteq 0 .. Count(vol) - 1
           /\ paths = {} => ExcludeAll(Built(vol), paths).excl = {}
  <1> DEFINE bx == Built(vol)
  <1>1. bx \in IndexType /\ SamePlaces(Scanned(vol), bx) /\ bx.excl = {}
    BY BuiltIs
  <1>2. bx.n = Count(vol)
    BY <1>1, ScannedIs DEF Pass, SamePlaces
  <1> HIDE DEF bx
  <1>3. PICK g : Prunes(g, bx, paths) /\ ExcludeAll(bx, paths) = g[paths]
    BY <1>1, ExcludeAllIs
  <1> DEFINE P == {jx \in IndexType : SamePlaces(bx, jx) /\ jx.excl \subseteq 0 .. bx.n - 1}
  <1>4. ASSUME NEW path \in paths, NEW jx \in IndexType \cap P
        PROVE  Prune(path, jx) \in P
    <2>1. path \in Seq(Name)
      OBVIOUS
    <2>2. Prune(path, jx) \in IndexType /\ SamePlaces(jx, Prune(path, jx))
          /\ Lookup(jx, path) \in Stands
      BY <2>1, PruneType, LookupSame DEF SamePlaces
    <2>3. SamePlaces(bx, Prune(path, jx))
      BY <2>2, SamePlacesTransitive
    <2>4. CASE Lookup(jx, path) = NoNode
      BY <2>2, <2>3, <2>4 DEF Prune
    <2>5. CASE Lookup(jx, path) # NoNode
      <3>1. Prune(path, jx).excl \subseteq jx.excl \cup Subtree(jx, Lookup(jx, path))
        BY <2>2, <2>5, ExcludeIs DEF Prune, Stands
      <3>2. Subtree(jx, Lookup(jx, path)) \subseteq 0 .. bx.n - 1
        BY DEF Subtree, SamePlaces
      <3> QED
        BY <2>2, <2>3, <3>1, <3>2
    <2> QED
      BY <2>4, <2>5
  <1>5. g[paths] \in P
    <2>1. bx \in P
      BY <1>1 DEF SamePlaces
    <2> HIDE DEF P
    <2> QED
      BY <1>1, <1>3, <1>4, <2>1, PrunesStay
  <1>6. paths = {} => g[paths] = bx
    BY <1>3 DEF Prunes
  <1>7. SamePlaces(Scanned(vol), g[paths])
    BY <1>1, <1>5, SamePlacesTransitive
  <1> QED
    BY <1>1, <1>2, <1>3, <1>5, <1>6, <1>7 DEF bx

------------------------------------------------------------------------------
\* Paths of nodes, and on the volume.

\* The turns of a climb that stand on a node come first.
Turns(ix, m) == Cardinality({k \in 0 .. ClimbGuard : Climb(ix, m)[k] # NoNode})

LEMMA TurnsIs ==
    ASSUME NEW ix \in IndexType, NEW m \in Node
    PROVE  /\ Turns(ix, m) \in 0 .. ClimbGuard + 1
           /\ {k \in 0 .. ClimbGuard : Climb(ix, m)[k] # NoNode} = 0 .. Turns(ix, m) - 1
           /\ \A k \in 0 .. Turns(ix, m) - 1 : k \in 0 .. ClimbGuard /\ Climb(ix, m)[k] \in Node
  <1> DEFINE at == Climb(ix, m)
             upto == {k \in 0 .. ClimbGuard : at[k] # NoNode}
             S == {k \in Nat : k \notin upto}
  <1>1. Chain(at, ix) /\ ClimbGuard \in Nat
    BY ClimbIs, IndexAssumption
  <1>2. ClimbGuard + 1 \in S
    BY <1>1
  <1>3. PICK z \in S : \A k \in S : z <= k
    <2>1. S \in SUBSET Nat /\ S # {}
      BY <1>2
    <2> HIDE DEF S
    <2> QED
      BY <2>1, LeastOf
  <1>4. z \in 0 .. ClimbGuard + 1
    BY <1>1, <1>2, <1>3
  <1>5. upto = 0 .. z - 1
    <2>1. \A k \in 0 .. z - 1 : k \in upto
      BY <1>3, <1>4
    <2>2. ASSUME NEW k \in upto
          PROVE  k < z
      <3>1. CASE k > z
        <4>1. z \in 0 .. ClimbGuard /\ at[z] = NoNode /\ k \in 0 .. ClimbGuard
          BY <1>1, <1>3, <1>4, <3>1
        <4>2. at[k] = NoNode
          <5> HIDE DEF at
          <5> QED
            BY <1>1, <3>1, <4>1, Stops
        <4> QED
          BY <4>2
      <3>2. k # z
        BY <1>3
      <3> QED
        BY <1>1, <1>4, <3>1, <3>2
    <2>3. upto \subseteq 0 .. ClimbGuard
      OBVIOUS
    <2> QED
      BY <1>1, <1>4, <2>1, <2>2, <2>3
  <1>6. Cardinality(upto) = z
    <2>1. Cardinality(0 .. z - 1) = z
      BY <1>4, FS_Interval
    <2> QED
      BY <1>5, <2>1
  <1>7. Turns(ix, m) = z
    BY <1>6 DEF Turns
  <1>8. \A k \in upto : k \in 0 .. ClimbGuard /\ at[k] \in Node
    BY <1>1 DEF Chain, Stands
  <1> QED
    BY <1>4, <1>5, <1>7, <1>8

\* The path of a node: the k-th name from the end is the name of the (k-1)-th
\* node on the way up, the node itself first.
LEMMA PathIs ==
    ASSUME NEW ix \in IndexType, NEW m \in Node
    PROVE  /\ PathOf(ix, m) \in Seq(Name)
           /\ IsRoot(ix, m) => PathOf(ix, m) = <<>>
           /\ ~IsRoot(ix, m) /\ Turns(ix, m) > 0 =>
                /\ Len(PathOf(ix, m)) = Turns(ix, m)
                /\ PathOf(ix, m)[Turns(ix, m)] = ix.name[m]
                /\ \A k \in 1 .. Turns(ix, m) - 1 :
                     PathOf(ix, m)[Turns(ix, m) - k] = ix.name[Climb(ix, m)[k - 1]]
  <1> DEFINE at == Climb(ix, m)
             c == Turns(ix, m)
             rest == [k \in 1 .. c - 1 |-> ix.name[at[k - 1]]]
             named == IF IsRoot(ix, m) THEN <<>> ELSE <<ix.name[m]>> \o rest
  <1>1. PathOf(ix, m) = Reverse(named)
    BY Zenon DEF PathOf, Turns
  <1>2. /\ c \in Nat /\ ClimbGuard \in Nat
        /\ \A k \in 1 .. c - 1 : k - 1 \in 0 .. ClimbGuard /\ at[k - 1] \in Node
    <2> HIDE DEF at
    <2>1. c \in 0 .. ClimbGuard + 1 /\ ClimbGuard \in Nat
          /\ \A k \in 0 .. c - 1 : k \in 0 .. ClimbGuard /\ at[k] \in Node
      BY TurnsIs, IndexAssumption DEF at
    <2> QED
      BY <2>1
  <1>3. rest \in Seq(Name) /\ Len(rest) = (IF c = 0 THEN 0 ELSE c - 1)
        /\ \A k \in 1 .. c - 1 : rest[k] = ix.name[at[k - 1]]
    <2>1. \A k \in 1 .. c - 1 : ix.name[at[k - 1]] \in Name
      BY <1>2 DEF IndexType
    <2> HIDE DEF c, at
    <2>2. CASE c = 0
      BY <1>2, <2>1, <2>2
    <2>3. CASE c # 0
      BY <1>2, <2>1, <2>3
    <2> QED
      BY <2>2, <2>3
  <1>4. ix.name[m] \in Name
    BY DEF IndexType
  <1> HIDE DEF rest
  <1>5. named \in Seq(Name)
    BY <1>3, <1>4
  <1>6. /\ Reverse(named) \in Seq(Name) /\ Len(Reverse(named)) = Len(named)
        /\ \A i \in 1 .. Len(named) : Reverse(named)[i] = named[Len(named) - i + 1]
    <2> HIDE DEF named
    <2> QED
      BY <1>5 DEF Reverse
  <1>7. CASE IsRoot(ix, m)
    <2>1. Reverse(named) = <<>>
      BY <1>5, <1>6, <1>7
    <2> QED
      BY <1>1, <1>6, <1>7, <2>1
  <1>8. CASE ~IsRoot(ix, m)
    <2>1. ASSUME c > 0
          PROVE  /\ Len(Reverse(named)) = c /\ Reverse(named)[c] = ix.name[m]
                 /\ \A k \in 1 .. c - 1 : Reverse(named)[c - k] = ix.name[at[k - 1]]
      <3>1. Len(named) = c /\ named[1] = ix.name[m] /\ \A k \in 1 .. c - 1 : named[k + 1] = rest[k]
        <4> HIDE DEF c
        <4> QED
          BY <1>2, <1>3, <1>4, <1>8, <2>1
      <3> HIDE DEF c, named
      <3>2. c \in 1 .. c /\ c - c + 1 = 1
            /\ \A k \in 1 .. c - 1 : c - k \in 1 .. c /\ c - (c - k) + 1 = k + 1
        BY <1>2, <2>1
      <3> QED
        BY <1>3, <1>6, <3>1, <3>2
    <2> QED
      BY <1>1, <1>6, <1>8, <2>1
  <1> QED
    BY <1>7, <1>8

-----------------------------------------------------------------------------
\* A path is followed on the volume folder by folder.
Under(p, nm) ==
    {q \in Rec \ {RootRec} : mft[q].live /\ mft[q].parent = p /\ mft[q].name = nm}

Down(p, nm) ==
    IF p = NoNode \/ Under(p, nm) = {} THEN NoNode ELSE CHOOSE q \in Under(p, nm) : TRUE

Descends(f, path) ==
    /\ f \in [0 .. Len(path) -> Rec \cup {NoNode}] /\ f[0] = RootRec
    /\ \A k \in 1 .. Len(path) : f[k] = Down(f[k - 1], path[k])

LEMMA OnVolumeIs ==
    ASSUME NEW path \in Seq(Name)
    PROVE  \E f : Descends(f, path) /\ OnVolume(path) = f[Len(path)]
  <1> DEFINE N == Len(path)
             T == Rec \cup {NoNode}
             G == [p \in T \X (1 .. N) |-> Down(p[1], path[p[2]])]
             Folds(it) == it = [s \in SUBSET (1 .. N) |-> IF s = {} THEN RootRec
                                  ELSE Down(it[s \ {Max(s)}], path[Max(s)])]
             it == CHOOSE it : Folds(it)
  <1>1. N \in Nat /\ DOMAIN path = 1 .. N /\ RootRec \in T
    BY IndexAssumption
  <1>2. OnVolume(path) = it[1 .. N]
    BY <1>1, Zenon DEF OnVolume, FoldLeft, MapThenFoldSet, Down, Under
  <1>3. \A p, nm : Down(p, nm) \in T
    BY DEF Down, Under
  <1> HIDE DEF N, T
  <1>4. G \in [T \X (1 .. N) -> T]
    BY <1>3
  <1>5. \E f : Folds(f)
    <2>1. PICK f : FoldsBy(f, N, T, RootRec, G)
      <3> HIDE DEF G
      <3> QED
        BY <1>1, <1>4, FoldSolved
    <2>2. ASSUME NEW s \in SUBSET (1 .. N), s # {}
          PROVE  G[<<f[s \ {Max(s)}], Max(s)>>] = Down(f[s \ {Max(s)}], path[Max(s)])
      <3>1. Max(s) \in 1 .. N
        BY <1>1, <2>2, MaxInSet
      <3>2. f[s \ {Max(s)}] \in T
        BY <2>1 DEF FoldsBy
      <3> QED
        BY <3>1, <3>2
    <2>3. \A s \in SUBSET (1 .. N) :
            f[s] = IF s = {} THEN RootRec ELSE Down(f[s \ {Max(s)}], path[Max(s)])
      <3> HIDE DEF G
      <3> QED
        BY <2>1, <2>2 DEF FoldsBy
    <2>4. f = [s \in SUBSET (1 .. N) |-> f[s]]
      BY <2>1 DEF FoldsBy
    <2>5. Folds(f)
      BY <2>3, <2>4
    <2> QED
      BY <2>5
  <1>6. Folds(it)
    <2> HIDE DEF Folds
    <2> QED
      BY <1>5
  <1> HIDE DEF it
  <1>7. \A s \in SUBSET (1 .. N) :
          it[s] = IF s = {} THEN RootRec ELSE Down(it[s \ {Max(s)}], path[Max(s)])
    BY <1>6
  <1>8. it[1 .. 0] = RootRec /\ \A k \in 1 .. N : it[1 .. k] = Down(it[1 .. k - 1], path[k])
    <2>1. it[1 .. 0] = RootRec
      <3>1. 1 .. 0 = {} /\ {} \in SUBSET (1 .. N)
        OBVIOUS
      <3> QED
        BY <1>7, <3>1, Zenon
    <2>2. ASSUME NEW k \in 1 .. N
          PROVE  it[1 .. k] = Down(it[1 .. k - 1], path[k])
      <3>1. Max(1 .. k) = k /\ (1 .. k) \ {k} = 1 .. k - 1
        BY <1>1, MaxOfStretch
      <3>2. 1 .. k \in SUBSET (1 .. N) /\ k \in 1 .. k
        BY <1>1
      <3> QED
        BY <1>7, <3>1, <3>2, Zenon
    <2> QED
      BY <2>1, <2>2
  <1> HIDE DEF Folds
  <1> DEFINE f == [k \in 0 .. N |-> it[1 .. k]]
  <1>9. f[0] = RootRec /\ \A k \in 1 .. N : f[k] = Down(f[k - 1], path[k])
    BY <1>1, <1>8
  <1>10. f \in [0 .. N -> T]
    <2>1. \A k \in 1 .. N : f[k] \in T
      <3> HIDE DEF f
      <3> QED
        BY <1>3, <1>9
    <2>2. \A k \in 0 .. N : f[k] \in T
      <3> HIDE DEF f
      <3> QED
        BY <1>1, <1>9, <2>1
    <2> QED
      BY <2>2
  <1>11. OnVolume(path) = f[N]
    BY <1>1, <1>2
  <1> HIDE DEF f
  <1> QED
    BY <1>9, <1>10, <1>11 DEF Descends, N, T

------------------------------------------------------------------------------
\* From journal records to changes: their types.

PendingType ==
    [rec : Rec, created : BOOLEAN, deleted : BOOLEAN, resized : BOOLEAN, renamed : BOOLEAN,
     seq : Nat, parent : Rec, name : Name, dir : BOOLEAN]

\* One record folded into those of its batch before it.
PlaceOf(ps, r) == SelectInSeq(ps, LAMBDA p : p.rec = r.rec)

TakeIn(ps, r) ==
    IF PlaceOf(ps, r) = 0 THEN Append(ps, Absorb(Blank(r.rec), r))
    ELSE [ps EXCEPT ![PlaceOf(ps, r)] = Absorb(@, r)]

Takes(f, records) ==
    /\ f \in [0 .. Len(records) -> Seq(PendingType)] /\ f[0] = <<>>
    /\ \A k \in 1 .. Len(records) : f[k] = TakeIn(f[k - 1], records[k])

LEMMA PlaceOfIs ==
    ASSUME NEW ps \in Seq(PendingType), NEW r
    PROVE  /\ PlaceOf(ps, r) = 0 => \A i \in 1 .. Len(ps) : ps[i].rec # r.rec
           /\ PlaceOf(ps, r) # 0 => /\ PlaceOf(ps, r) \in 1 .. Len(ps)
                                    /\ ps[PlaceOf(ps, r)].rec = r.rec
  <1> DEFINE I == {i \in 1 .. Len(ps) : ps[i].rec = r.rec}
  <1>1. PlaceOf(ps, r) = IF I # {} THEN Min(I) ELSE 0
    BY Zenon DEF PlaceOf, SelectInSeq
  <1>2. I # {} => Min(I) \in I
    <2> SUFFICES ASSUME I # {}
                 PROVE  Min(I) \in I
      OBVIOUS
    <2>1. I \in SUBSET Nat
      OBVIOUS
    <2> HIDE DEF I
    <2>2. \E x \in I : \A y \in I : x <= y
      BY <2>1, LeastOf
    <2> QED
      BY <2>2 DEF Min
  <1>3. I # {} => Min(I) \in 1 .. Len(ps) /\ ps[Min(I)].rec = r.rec
    BY <1>2
  <1>4. I = {} => \A i \in 1 .. Len(ps) : ps[i].rec # r.rec
    OBVIOUS
  <1> HIDE DEF I
  <1>5. I # {} => Min(I) # 0
    <2>1. Len(ps) \in Nat
      OBVIOUS
    <2> QED
      BY <1>3, <2>1
  <1> QED
    BY <1>1, <1>3, <1>4, <1>5

LEMMA AbsorbType ==
    ASSUME mft \in [Rec -> FileRecord], NEW r \in UsnRecord
    PROVE  /\ \A p \in PendingType : Absorb(p, r) \in PendingType /\ Absorb(p, r).rec = p.rec
           /\ Absorb(Blank(r.rec), r) \in PendingType /\ Absorb(Blank(r.rec), r).rec = r.rec
  <1>1. r.rec \in Rec /\ r.seq \in Nat /\ r.parent \in Rec /\ r.name \in Name /\ r.dir \in BOOLEAN
    BY DEF UsnRecord
  <1>2. mft[RootRec].name \in Name
    BY IndexAssumption DEF FileRecord
  <1>3. ASSUME NEW p \in PendingType
        PROVE  Absorb(p, r) \in PendingType /\ Absorb(p, r).rec = p.rec
    <2> DEFINE c == p.created \/ "create" \in r.reasons
               d == (p.deleted /\ "create" \notin r.reasons) \/ "delete" \in r.reasons
               z == p.resized \/ "size" \in r.reasons
               m == p.renamed \/ "newName" \in r.reasons
    <2>1. c \in BOOLEAN /\ d \in BOOLEAN /\ z \in BOOLEAN /\ m \in BOOLEAN
      BY DEF PendingType
    <2>2. Absorb(p, r) = [p EXCEPT !.seq = r.seq, !.parent = r.parent, !.name = r.name,
                            !.dir = r.dir, !.created = c, !.deleted = d, !.resized = z,
                            !.renamed = m]
      BY DEF Absorb
    <2> HIDE DEF c, d, z, m
    <2> QED
      BY <1>1, <2>1, <2>2 DEF PendingType
  <1>4. Blank(r.rec) \in PendingType /\ Blank(r.rec).rec = r.rec
    BY <1>1, <1>2 DEF Blank, PendingType
  <1> QED
    BY <1>3, <1>4

LEMMA TakeInType ==
    ASSUME mft \in [Rec -> FileRecord], NEW ps \in Seq(PendingType), NEW r \in UsnRecord
    PROVE  TakeIn(ps, r) \in Seq(PendingType)
  <1>1. CASE PlaceOf(ps, r) = 0
    BY <1>1, AbsorbType DEF TakeIn
  <1>2. CASE PlaceOf(ps, r) # 0
    <2> DEFINE i == PlaceOf(ps, r)
               q == Absorb(ps[i], r)
    <2>1. i \in 1 .. Len(ps)
      BY <1>2, PlaceOfIs
    <2>2. q \in PendingType
      BY <2>1, AbsorbType
    <2>3. TakeIn(ps, r) = [ps EXCEPT ![i] = q]
      BY <1>2 DEF TakeIn
    <2> HIDE DEF i, q
    <2> QED
      BY <2>1, <2>2, <2>3
  <1> QED
    BY <1>1, <1>2

LEMMA CoalesceIs ==
    ASSUME mft \in [Rec -> FileRecord], NEW records \in Seq(UsnRecord)
    PROVE  \E f : Takes(f, records) /\ Coalesce(records) = f[Len(records)]
  <1> DEFINE N == Len(records)
             T == Seq(PendingType)
             base == <<>>
             G == [p \in T \X (1 .. N) |-> TakeIn(p[1], records[p[2]])]
             Folds(it) == it = [s \in SUBSET (1 .. N) |-> IF s = {} THEN base
                                  ELSE TakeIn(it[s \ {Max(s)}], records[Max(s)])]
             it == CHOOSE it : Folds(it)
  <1>1. N \in Nat /\ DOMAIN records = 1 .. N /\ base \in T
    OBVIOUS
  <1>2. Coalesce(records) = it[1 .. N]
    BY <1>1, Zenon DEF Coalesce, FoldLeft, MapThenFoldSet, TakeIn, PlaceOf
  <1>3. \A ps \in T, k \in 1 .. N : TakeIn(ps, records[k]) \in T
    BY TakeInType
  <1> HIDE DEF N, T, base
  <1>4. G \in [T \X (1 .. N) -> T]
    BY <1>3
  <1>5. \E f : Folds(f)
    <2>1. PICK f : FoldsBy(f, N, T, base, G)
      <3> HIDE DEF G
      <3> QED
        BY <1>1, <1>4, FoldSolved
    <2>2. ASSUME NEW s \in SUBSET (1 .. N), s # {}
          PROVE  G[<<f[s \ {Max(s)}], Max(s)>>] = TakeIn(f[s \ {Max(s)}], records[Max(s)])
      <3>1. Max(s) \in 1 .. N
        BY <1>1, <2>2, MaxInSet
      <3>2. f[s \ {Max(s)}] \in T
        BY <2>1 DEF FoldsBy
      <3> QED
        BY <3>1, <3>2
    <2>3. \A s \in SUBSET (1 .. N) :
            f[s] = IF s = {} THEN base ELSE TakeIn(f[s \ {Max(s)}], records[Max(s)])
      <3> HIDE DEF G
      <3> QED
        BY <2>1, <2>2 DEF FoldsBy
    <2>4. f = [s \in SUBSET (1 .. N) |-> f[s]]
      BY <2>1 DEF FoldsBy
    <2>5. Folds(f)
      BY <2>3, <2>4
    <2> QED
      BY <2>5
  <1>6. Folds(it)
    <2> HIDE DEF Folds
    <2> QED
      BY <1>5
  <1> HIDE DEF it
  <1>7. \A s \in SUBSET (1 .. N) :
          it[s] = IF s = {} THEN base ELSE TakeIn(it[s \ {Max(s)}], records[Max(s)])
    BY <1>6
  <1>8. it[1 .. 0] = base /\ \A k \in 1 .. N : it[1 .. k] = TakeIn(it[1 .. k - 1], records[k])
    <2>1. it[1 .. 0] = base
      <3>1. 1 .. 0 = {} /\ {} \in SUBSET (1 .. N)
        OBVIOUS
      <3> QED
        BY <1>7, <3>1, Zenon
    <2>2. ASSUME NEW k \in 1 .. N
          PROVE  it[1 .. k] = TakeIn(it[1 .. k - 1], records[k])
      <3>1. Max(1 .. k) = k /\ (1 .. k) \ {k} = 1 .. k - 1
        BY <1>1, MaxOfStretch
      <3>2. 1 .. k \in SUBSET (1 .. N) /\ k \in 1 .. k
        BY <1>1
      <3> QED
        BY <1>7, <3>1, <3>2, Zenon
    <2> QED
      BY <2>1, <2>2
  <1> HIDE DEF Folds
  <1> DEFINE f == [k \in 0 .. N |-> it[1 .. k]]
  <1>9. f[0] = base /\ \A k \in 1 .. N : f[k] = TakeIn(f[k - 1], records[k])
    BY <1>1, <1>8
  <1>10. \A k \in 0 .. N : f[k] \in T
    <2> DEFINE S == {k \in 0 .. N : f[k] \in T}
    <2> HIDE DEF f
    <2>1. 0 \in S
      BY <1>1, <1>9
    <2>2. ASSUME NEW k \in S, k < N
          PROVE  k + 1 \in S
      <3>1. k + 1 \in 1 .. N /\ (k + 1) - 1 = k
        BY <1>1, <2>2
      <3>2. f[k + 1] = TakeIn(f[k], records[k + 1])
        BY <1>9, <3>1
      <3> QED
        BY <1>3, <3>1, <3>2
    <2>3. S = 0 .. N
      <3>1. S \in SUBSET (0 .. N)
        OBVIOUS
      <3> HIDE DEF S
      <3> QED
        BY <1>1, <2>1, <2>2, <3>1, InductUpTo
    <2> QED
      BY <2>3
  <1>11. f \in [0 .. N -> T]
    <2>1. f = [k \in 0 .. N |-> f[k]]
      OBVIOUS
    <2> HIDE DEF f
    <2> QED
      BY <1>10, <2>1
  <1>12. Coalesce(records) = f[N]
    BY <1>1, <1>2
  <1> HIDE DEF f
  <1> QED
    BY <1>9, <1>11, <1>12 DEF Takes, N, T, base

LEMMA CoalesceType ==
    ASSUME mft \in [Rec -> FileRecord], NEW records \in Seq(UsnRecord)
    PROVE  Coalesce(records) \in Seq(PendingType)
  <1>1. PICK f : Takes(f, records) /\ Coalesce(records) = f[Len(records)]
    BY CoalesceIs
  <1>2. Len(records) \in 0 .. Len(records)
    BY LenProperties
  <1> QED
    BY <1>1, <1>2 DEF Takes

-----------------------------------------------------------------------------
LEMMA ResolveStatType ==
    ASSUME index \in IndexType, NEW parent \in Rec, NEW nm \in Name
    PROVE  ResolveStat(parent, nm) \in Rec \cup {NoNode}
  <1> DEFINE p == NodeOfRecord(index, parent)
             path == Append(PathOf(index, p), nm)
  <1>1. p = NoNode \/ p \in Node
    BY NodeOfRecordType
  <1>2. CASE p = NoNode
    BY <1>2 DEF ResolveStat
  <1>3. CASE p # NoNode
    <2>1. PathOf(index, p) \in Seq(Name)
      BY <1>1, <1>3, PathIs
    <2>2. path \in Seq(Name) /\ Len(path) \in 0 .. Len(path)
      <3>1. path \in Seq(Name)
        BY <2>1, AppendProperties
      <3> HIDE DEF path
      <3> QED
        BY <3>1, LenProperties
    <2>3. PICK f : Descends(f, path) /\ OnVolume(path) = f[Len(path)]
      <3> HIDE DEF path
      <3> QED
        BY <2>2, OnVolumeIs
    <2>4. f[Len(path)] \in Rec \cup {NoNode}
      BY <2>2, <2>3 DEF Descends
    <2> QED
      BY <1>3, <2>3, <2>4 DEF ResolveStat
  <1> QED
    BY <1>2, <1>3

\* What a folded record asks for: nothing, one change or two.
ChangeOf(p, kind, dir, sz) ==
    [kind |-> kind, rec |-> p.rec, seq |-> p.seq, parent |-> p.parent,
     name |-> p.name, dir |-> dir, size |-> sz]

Asks(p, size, isDir, stat) ==
    IF p.deleted
    THEN IF p.created THEN <<>> ELSE <<ChangeOf(p, "deleted", p.dir, 0)>>
    ELSE IF p.created
    THEN <<ChangeOf(p, "created", isDir, size)>>
    ELSE (IF p.renamed THEN <<ChangeOf(p, "renamed", p.dir, 0)>> ELSE <<>>)
         \o (IF p.resized /\ ~p.dir /\ stat
             THEN <<ChangeOf(p, "resized", p.dir, size)>> ELSE <<>>)

StatSize(q) == IF q # NoNode THEN mft[q].size ELSE 0
StatDir(p, q) == p.dir \/ (q # NoNode /\ mft[q].dir)

LEMMA TranslatedIs ==
    ASSUME NEW p
    PROVE  LET q == ResolveStat(p.parent, p.name)
           IN  Translated(p) = Asks(p, StatSize(q), StatDir(p, q), q # NoNode)
  BY Zenon DEF Translated, Asks, ChangeOf, StatSize, StatDir

LEMMA ChangeOfType ==
    ASSUME NEW p \in PendingType, NEW kind \in {"created", "deleted", "resized", "renamed"},
           NEW dir \in BOOLEAN, NEW sz \in Nat
    PROVE  ChangeOf(p, kind, dir, sz) \in AnyChange
  BY DEF ChangeOf, PendingType, AnyChange

LEMMA TranslatedType ==
    ASSUME index \in IndexType, mft \in [Rec -> FileRecord], NEW p \in PendingType
    PROVE  Translated(p) \in Seq(AnyChange)
  <1> DEFINE q == ResolveStat(p.parent, p.name)
             size == StatSize(q)
             isDir == StatDir(p, q)
  <1>1. p.parent \in Rec /\ p.name \in Name /\ p.dir \in BOOLEAN
    BY DEF PendingType
  <1>2. q \in Rec \cup {NoNode}
    BY <1>1, ResolveStatType
  <1> HIDE DEF q
  <1>3. size \in Nat /\ isDir \in BOOLEAN
    BY <1>1, <1>2 DEF StatSize, StatDir, FileRecord
  <1> HIDE DEF size, isDir
  <1>4. /\ ChangeOf(p, "deleted", p.dir, 0) \in AnyChange
        /\ ChangeOf(p, "created", isDir, size) \in AnyChange
        /\ ChangeOf(p, "renamed", p.dir, 0) \in AnyChange
        /\ ChangeOf(p, "resized", p.dir, size) \in AnyChange
    BY <1>1, <1>3, ChangeOfType
  <1>5. Asks(p, size, isDir, q # NoNode) \in Seq(AnyChange)
    <2> DEFINE a == ChangeOf(p, "deleted", p.dir, 0)
               b == ChangeOf(p, "created", isDir, size)
               c == ChangeOf(p, "renamed", p.dir, 0)
               d == ChangeOf(p, "resized", p.dir, size)
    <2>1. Asks(p, size, isDir, q # NoNode) =
            IF p.deleted THEN IF p.created THEN <<>> ELSE <<a>>
            ELSE IF p.created THEN <<b>>
            ELSE (IF p.renamed THEN <<c>> ELSE <<>>)
                 \o (IF p.resized /\ ~p.dir /\ q # NoNode THEN <<d>> ELSE <<>>)
      BY DEF Asks
    <2> HIDE DEF a, b, c, d
    <2>2. a \in AnyChange /\ b \in AnyChange /\ c \in AnyChange /\ d \in AnyChange
      BY <1>4 DEF a, b, c, d
    <2>3. <<>> \in Seq(AnyChange) /\ <<a>> \in Seq(AnyChange) /\ <<b>> \in Seq(AnyChange)
          /\ <<c>> \in Seq(AnyChange) /\ <<d>> \in Seq(AnyChange)
      BY <2>2
    <2>4. (IF p.renamed THEN <<c>> ELSE <<>>) \in Seq(AnyChange)
      BY <2>3
    <2>5. (IF p.resized /\ ~p.dir /\ q # NoNode THEN <<d>> ELSE <<>>) \in Seq(AnyChange)
      BY <2>3
    <2>6. ((IF p.renamed THEN <<c>> ELSE <<>>)
             \o (IF p.resized /\ ~p.dir /\ q # NoNode THEN <<d>> ELSE <<>>)) \in Seq(AnyChange)
      BY <2>4, <2>5, ConcatProperties
    <2> QED
      BY <2>1, <2>3, <2>6
  <1> QED
    BY <1>5, TranslatedIs DEF q, size, isDir

------------------------------------------------------------------------------
\* Types, and the soundness of the record table, at every step.

\* Types of the volume, of the journal and of what is on its way to the index,
\* and the soundness of the index whatever is applied to it.
VolumeTypes ==
    /\ regime \in DOMAIN Regimes
    /\ mft \in [Rec -> FileRecord]
    /\ open \in [Rec -> SUBSET Reason]
    /\ journal \in Seq(UsnRecord)
    /\ ops \in Nat

IndexSound ==
    /\ scanned \in BOOLEAN /\ unfollowed \in BOOLEAN
    /\ index \in IndexType /\ RecordTableSound(index) /\ FlagsSound(index)
    /\ pending \in Seq(PendingType)
    /\ changes \in Seq(AnyChange)

LiveTypes == VolumeTypes /\ IndexSound

LEMMA NowIs ==
    ASSUME regime \in DOMAIN Regimes
    PROVE  /\ \A vol \in Now.volumes : Mountable(vol)
           /\ Now.bytes \subseteq Nat
           /\ Now.excluded \in SUBSET Seq(Name) /\ IsFiniteSet(Now.excluded)
  BY VolumeAssumption DEF Now

LEMMA RecordType ==
    ASSUME NEW r \in Rec, NEW as \in FileRecord, NEW reasons \in SUBSET Reason
    PROVE  Record(r, as, reasons) \in UsnRecord
  BY DEF Record, FileRecord, UsnRecord

LEMMA VolumeTypesInit ==
    ASSUME VolumeInit
    PROVE  VolumeTypes
  BY NowIs DEF VolumeInit, VolumeTypes, Mountable

LEMMA VolumeTypesKept ==
    ASSUME VolumeTypes, VolumeNext
    PROVE  VolumeTypes' /\ regime' = regime
  <1> USE DEF VolumeTypes
  <1>0. \A x \in UsnRecord : Append(journal, x) \in Seq(UsnRecord)
    BY AppendProperties
  <1>1. ASSUME NEW r \in Rec, Delete(r)
        PROVE  VolumeTypes' /\ regime' = regime
    <2>1. Record(r, mft[r], open[r] \cup {"delete"}) \in UsnRecord
      BY RecordType DEF Reason
    <2>2. mft' \in [Rec -> FileRecord]
      <3>1. [mft[r] EXCEPT !.live = FALSE, !.size = 0] \in FileRecord
        <4>1. mft[r] \in FileRecord
          OBVIOUS
        <4> QED
          BY <4>1 DEF FileRecord
      <3>2. mft' = [mft EXCEPT ![r] = [mft[r] EXCEPT !.live = FALSE, !.size = 0]]
        BY <1>1 DEF Delete
      <3> QED
        BY <3>1, <3>2
    <2>3. ops' \in Nat /\ regime' = regime
      BY <1>1 DEF Delete, Step
    <2>4. journal' \in Seq(UsnRecord)
      BY <1>0, <1>1, <2>1 DEF Delete
    <2>5. open' \in [Rec -> SUBSET Reason]
      BY <1>1 DEF Delete
    <2> QED
      BY <2>2, <2>3, <2>4, <2>5
  <1>2. ASSUME NEW r \in Rec, Close(r)
        PROVE  VolumeTypes' /\ regime' = regime
    <2>1. Record(r, mft[r], open[r]) \in UsnRecord
      BY RecordType
    <2> QED
      BY <1>0, <1>2, <2>1 DEF Close
  <1>3. ASSUME NEW r \in Rec, NEW sz \in Now.bytes, Write(r, sz)
        PROVE  VolumeTypes' /\ regime' = regime
    <2>1. open' \in [Rec -> SUBSET Reason]
      BY <1>3 DEF Write, Reason
    <2>2. Record(r, mft[r], open'[r]) \in UsnRecord
      BY <2>1, RecordType
    <2>3. mft' \in [Rec -> FileRecord]
      <3>1. [mft[r] EXCEPT !.size = sz] \in FileRecord
        BY NowIs DEF FileRecord
      <3>2. mft' = [mft EXCEPT ![r] = [mft[r] EXCEPT !.size = sz]]
        BY <1>3 DEF Write
      <3> QED
        BY <3>1, <3>2
    <2>4. ops' \in Nat /\ regime' = regime
      BY <1>3 DEF Write, Step
    <2>5. journal' \in Seq(UsnRecord)
      BY <1>0, <1>3, <2>2 DEF Write
    <2> QED
      BY <2>1, <2>3, <2>4, <2>5
  <1>4. ASSUME NEW r \in Rec, NEW p \in Rec, NEW nm \in Name, Rename(r, p, nm)
        PROVE  VolumeTypes' /\ regime' = regime
    <2>1. mft' \in [Rec -> FileRecord]
      <3>1. [mft[r] EXCEPT !.parent = p, !.name = nm] \in FileRecord
        <4>1. mft[r] \in FileRecord
          OBVIOUS
        <4> QED
          BY <4>1 DEF FileRecord
      <3>2. mft' = [mft EXCEPT ![r] = [mft[r] EXCEPT !.parent = p, !.name = nm]]
        BY <1>4 DEF Rename
      <3> QED
        BY <3>1, <3>2
    <2>2. open' \in [Rec -> SUBSET Reason]
      BY <1>4 DEF Rename, Reason
    <2>3. Record(r, mft[r], open[r] \cup {"oldName"}) \in UsnRecord
      BY RecordType DEF Reason
    <2>4. Record(r, mft'[r], open'[r]) \in UsnRecord
      BY <2>1, <2>2, RecordType
    <2>5. journal' \in Seq(UsnRecord)
      BY <1>4, <2>3, <2>4, ConcatProperties DEF Rename
    <2>6. ops' \in Nat /\ regime' = regime
      BY <1>4 DEF Rename, Step
    <2> QED
      BY <2>1, <2>2, <2>5, <2>6
  <1>5. ASSUME NEW r \in Rec, NEW p \in Rec, NEW nm \in Name, NEW isDir \in BOOLEAN,
               Create(r, p, nm, isDir)
        PROVE  VolumeTypes' /\ regime' = regime
    <2>1. mft' \in [Rec -> FileRecord]
      BY <1>5 DEF Create, FileRecord
    <2>2. open' \in [Rec -> SUBSET Reason]
      BY <1>5 DEF Create, Reason
    <2>3. Record(r, mft'[r], {"create"}) \in UsnRecord
      BY <2>1, RecordType DEF Reason
    <2>4. ops' \in Nat /\ regime' = regime
      BY <1>5 DEF Create, Step
    <2>5. journal' \in Seq(UsnRecord)
      BY <1>0, <1>5, <2>3 DEF Create
    <2> QED
      BY <2>1, <2>2, <2>4, <2>5
  <1> QED
    BY <1>1, <1>2, <1>3, <1>4, <1>5 DEF VolumeNext

-----------------------------------------------------------------------------
\* What the scan builds is sound.
LEMMA ScanSound ==
    ASSUME NEW vol \in [Rec -> FileRecord], NEW ix \in IndexType,
           SamePlaces(Scanned(vol), ix), ix.excl \subseteq 0 .. Count(vol) - 1
    PROVE  RecordTableSound(ix) /\ FlagsSound(ix)
  <1>1. /\ ix.n = Count(vol) /\ ix.del = {} /\ ix.dir \subseteq 0 .. ix.n - 1
        /\ \A r \in Rec : ix.rec[r] = NodeAt(vol, r)
    BY ScannedIs DEF Pass, SamePlaces
  <1>2. /\ \A r \in InUse(vol) : NodeAt(vol, r) \in 0 .. Count(vol) - 1
        /\ \A r \in Rec \ InUse(vol) : NodeAt(vol, r) = NoNode
        /\ \A r, q \in InUse(vol) : NodeAt(vol, r) = NodeAt(vol, q) => r = q
        /\ \A m \in 0 .. Count(vol) - 1 : \E r \in InUse(vol) : NodeAt(vol, r) = m
    BY NodeAtIs
  <1>3. InUse(vol) \subseteq Rec /\ Count(vol) \in Nat
    <2>1. Count(vol) \in 0 .. MaxNodes /\ MaxNodes \in Nat
      BY CountIs, IndexAssumption
    <2> QED
      BY <2>1 DEF InUse
  <1>4. FlagsSound(ix)
    BY <1>1 DEF FlagsSound
  <1>5. \A r, q \in Rec : ix.rec[r] # NoNode /\ ix.rec[r] = ix.rec[q] => r = q
    BY <1>1, <1>2
  <1>6. \A r \in Rec : ix.rec[r] # NoNode => ix.rec[r] < ix.n
    BY <1>1, <1>2, <1>3
  <1>7. \A m \in Live(ix) : \E r \in Rec : ix.rec[r] = m
    BY <1>1, <1>2, <1>3 DEF Live
  <1> QED
    BY <1>4, <1>5, <1>6, <1>7 DEF RecordTableSound

LEMMA TypesInit == Init => LiveTypes
  <1> SUFFICES ASSUME Init
               PROVE  LiveTypes
    OBVIOUS
  <1>1. VolumeTypes
    BY VolumeTypesInit DEF Init
  <1>2. mft \in [Rec -> FileRecord]
    BY <1>1 DEF VolumeTypes
  <1>3. index \in IndexType /\ SamePlaces(Scanned(mft), index) /\ index.excl = {}
    BY <1>2, BuiltIs DEF Init
  <1>4. RecordTableSound(index) /\ FlagsSound(index)
    BY <1>2, <1>3, ScanSound
  <1>5. scanned = FALSE /\ pending = <<>> /\ changes = <<>> /\ unfollowed = FALSE
    BY DEF Init
  <1>6. pending \in Seq(PendingType) /\ changes \in Seq(AnyChange)
    BY <1>5
  <1> QED
    BY <1>1, <1>3, <1>4, <1>5, <1>6 DEF LiveTypes, IndexSound

LEMMA TypesKept == LiveTypes /\ [Next]_vars => LiveTypes'
  <1> SUFFICES ASSUME LiveTypes, [Next]_vars
               PROVE  LiveTypes'
    OBVIOUS
  <1>0. /\ VolumeTypes /\ IndexSound /\ mft \in [Rec -> FileRecord] /\ index \in IndexType
        /\ regime \in DOMAIN Regimes /\ journal \in Seq(UsnRecord)
    BY DEF LiveTypes, VolumeTypes, IndexSound
  <1>1. CASE Scan
    <2> DEFINE ix == ExcludeAll(Built(mft), Now.excluded)
    <2>1. ix \in IndexType /\ RecordTableSound(ix) /\ FlagsSound(ix)
      <3>1. Now.excluded \in SUBSET Seq(Name) /\ IsFiniteSet(Now.excluded)
        BY <1>0, NowIs
      <3> QED
        BY <1>0, <3>1, ScanIndexIs, ScanSound
    <2>2. index' = ix /\ UNCHANGED <<volumeVars, pending, changes>> /\ scanned' = TRUE
          /\ unfollowed' \in BOOLEAN
      BY <1>1 DEF Scan
    <2> HIDE DEF ix
    <2>3. IndexSound'
      BY <1>0, <2>1, <2>2 DEF IndexSound
    <2>4. VolumeTypes'
      BY <1>0, <2>2 DEF VolumeTypes, volumeVars, Now
    <2> QED
      BY <2>3, <2>4 DEF LiveTypes
  <1>2. CASE ReadBatch
    <2>1. PICK k \in 1 .. Now.batch : /\ k <= Len(journal)
                                      /\ pending' = Coalesce(SubSeq(journal, 1, k))
                                      /\ journal' = SubSeq(journal, k + 1, Len(journal))
      BY <1>2 DEF ReadBatch
    <2>2. k \in Int /\ k >= 1
      OBVIOUS
    <2>3. SubSeq(journal, 1, k) \in Seq(UsnRecord)
          /\ SubSeq(journal, k + 1, Len(journal)) \in Seq(UsnRecord)
      BY <1>0, <2>1, <2>2
    <2>4. pending' \in Seq(PendingType) /\ journal' \in Seq(UsnRecord)
      BY <1>0, <2>1, <2>3, CoalesceType
    <2> QED
      BY <1>0, <1>2, <2>4 DEF ReadBatch, LiveTypes, VolumeTypes, IndexSound
  <1>3. CASE Translate
    <2>1. Head(pending) \in PendingType /\ Tail(pending) \in Seq(PendingType)
      BY <1>0, <1>3, HeadTailProperties DEF Translate, IndexSound
    <2>2. Translated(Head(pending)) \in Seq(AnyChange)
      BY <1>0, <2>1, TranslatedType
    <2>3. changes' \in Seq(AnyChange)
      BY <1>0, <1>3, <2>2, ConcatProperties DEF Translate, IndexSound
    <2> QED
      BY <1>0, <1>3, <2>1, <2>3 DEF Translate, LiveTypes, VolumeTypes, IndexSound, volumeVars, Now
  <1>4. CASE ApplyChange
    <2>1. Head(changes) \in AnyChange /\ Tail(changes) \in Seq(AnyChange)
      BY <1>0, <1>4, HeadTailProperties DEF ApplyChange, IndexSound
    <2>2. index.n < MaxNodes /\ index' = Apply(index, Head(changes)) /\ changes' = Tail(changes)
          /\ UNCHANGED <<volumeVars, scanned, pending, unfollowed>>
      BY <1>4 DEF ApplyChange
    <2>3. Good(index, index') /\ FlagsSound(index')
      BY <1>0, <2>1, <2>2, ApplyGood, ApplyFlags DEF IndexSound
    <2>4. index' \in IndexType /\ RecordTableSound(index')
      BY <1>0, <2>3 DEF Good, IndexSound
    <2> QED
      BY <1>0, <2>1, <2>2, <2>3, <2>4 DEF LiveTypes, VolumeTypes, IndexSound, volumeVars, Now
  <1>5. CASE ChangeVolume
    <2>1. VolumeTypes'
      BY <1>0, <1>5, VolumeTypesKept DEF ChangeVolume
    <2>2. IndexSound'
      BY <1>0, <1>5 DEF ChangeVolume, indexVars, IndexSound
    <2> QED
      BY <2>1, <2>2 DEF LiveTypes
  <1>6. CASE UNCHANGED vars
    BY <1>0, <1>6 DEF vars, volumeVars, indexVars, LiveTypes, VolumeTypes, IndexSound, Now
  <1> QED
    BY <1>1, <1>2, <1>3, <1>4, <1>5, <1>6 DEF Next

\* Every field of the index keeps its type and the record table its soundness at
\* every step of the scan, the reader, the translation and the programs, in every
\* regime: whatever order changes come in, and whether they are told once or twice
\* (set_record, clear_record, resolve_record, the two passes of add_volume).
THEOREM RecordTableLive == Spec => [](index \in IndexType /\ RecordTableSound(index))
  <1>1. LiveTypes => index \in IndexType /\ RecordTableSound(index)
    BY DEF LiveTypes, IndexSound
  <1> QED
    BY TypesInit, TypesKept, <1>1, PTL DEF Spec

------------------------------------------------------------------------------
\* Layouts: what the tree of a volume is made of, and what the index shows of one.

\* What the tree of a volume is made of: all of its records but the sizes.
Place(f) ==
    [live |-> f.live, seq |-> f.seq, parent |-> f.parent, name |-> f.name, dir |-> f.dir]

Places(vol) == [r \in Rec |-> Place(vol[r])]

PlaceType == [live : BOOLEAN, seq : Nat, parent : Rec, name : Name, dir : BOOLEAN]

Layout == [Rec -> PlaceType]

\* Every file is in a folder, and no two of a folder have the same name.
Tree(v) ==
    /\ v[RootRec].live /\ v[RootRec].dir /\ v[RootRec].parent = RootRec
    /\ \A r \in Rec : v[r].live => v[r].seq > 0
    /\ \A r \in Rec \ {RootRec} : v[r].live =>
         /\ v[v[r].parent].live /\ v[v[r].parent].dir
         /\ \A q \in Rec \ {RootRec, r} :
              v[q].live /\ v[q].parent = v[r].parent => v[q].name # v[r].name

\* No file is deeper below the root than a climb of the index goes.
InGuard(v) == \A r \in Rec : v[r].live => RootRec \in UpFrom(v, r, ClimbGuard + 1)

\* The way up from a record.
Rises(up, v, r, n) ==
    /\ up \in [0 .. n -> Rec] /\ up[0] = r
    /\ \A k \in 1 .. n : up[k] = v[up[k - 1]].parent

LEMMA RisesIs ==
    ASSUME NEW v, \A q \in Rec : v[q].parent \in Rec, NEW r \in Rec, NEW n \in Nat
    PROVE  \E up : Rises(up, v, r, n) /\ UpFrom(v, r, n) = {up[k] : k \in 0 .. n}
  <1> DEFINE G == [p \in Rec \X (1 .. n) |-> v[p[1]].parent]
             Def(up) == up = [k \in 0 .. n |-> IF k = 0 THEN r ELSE v[up[k - 1]].parent]
             up == CHOOSE up : Def(up)
  <1>1. UpFrom(v, r, n) = {up[k] : k \in 0 .. n}
    BY Zenon DEF UpFrom
  <1>2. G \in [Rec \X (1 .. n) -> Rec]
    OBVIOUS
  <1>3. \E f : Def(f)
    <2>1. PICK f : Recurs(f, n, Rec, r, G)
      <3> HIDE DEF G
      <3> QED
        BY <1>2, RecursionSolved
    <2>2. f \in [0 .. n -> Rec] /\ f[0] = r
      BY <2>1 DEF Recurs
    <2>3. ASSUME NEW k \in 1 .. n
          PROVE  f[k] = v[f[k - 1]].parent
      <3>1. f[k] = G[<<f[k - 1], k>>]
        BY <2>1 DEF Recurs
      <3>2. k - 1 \in 0 .. n
        OBVIOUS
      <3>3. f[k - 1] \in Rec
        BY <2>2, <3>2
      <3> QED
        BY <3>1, <3>3
    <2>4. \A k \in 0 .. n : f[k] = IF k = 0 THEN r ELSE v[f[k - 1]].parent
      BY <2>2, <2>3
    <2>5. f = [k \in 0 .. n |-> f[k]]
      BY <2>2
    <2> QED
      BY <2>4, <2>5
  <1>4. Def(up)
    <2> HIDE DEF Def
    <2> QED
      BY <1>3
  <1> HIDE DEF up
  <1>5. up[0] = r /\ \A k \in 1 .. n : up[k] = v[up[k - 1]].parent
    <2>1. \A k \in 0 .. n : up[k] = IF k = 0 THEN r ELSE v[up[k - 1]].parent
      BY <1>4
    <2> QED
      BY <2>1
  <1> DEFINE S == {k \in 0 .. n : up[k] \in Rec}
  <1>6. S = 0 .. n
    <2>1. 0 \in S
      BY <1>5
    <2>2. ASSUME NEW k \in S, k < n
          PROVE  k + 1 \in S
      <3>1. k + 1 \in 1 .. n /\ k + 1 - 1 = k
        BY <2>2
      <3> QED
        BY <1>5, <3>1
    <2>3. S \in SUBSET (0 .. n)
      OBVIOUS
    <2> HIDE DEF S
    <2> QED
      BY <2>1, <2>2, <2>3, InductUpTo
  <1>7. up \in [0 .. n -> Rec]
    <2>1. up = [k \in 0 .. n |-> up[k]]
      BY <1>4
    <2>2. \A k \in 0 .. n : up[k] \in Rec
      BY <1>6
    <2> QED
      BY <2>1, <2>2
  <1> QED
    BY <1>1, <1>5, <1>7 DEF Rises

\* Two ways up by the same parents are the same.
LEMMA RisesSame ==
    ASSUME NEW v, NEW w, NEW r \in Rec, NEW n \in Nat, NEW f, NEW g,
           Rises(f, v, r, n), Rises(g, w, r, n), \A q \in Rec : w[q].parent = v[q].parent
    PROVE  \A k \in 0 .. n : f[k] = g[k]
  <1> DEFINE S == {k \in 0 .. n : f[k] = g[k]}
  <1>1. 0 \in S
    BY DEF Rises
  <1>2. ASSUME NEW k \in S, k < n
        PROVE  k + 1 \in S
    <2>1. k + 1 \in 1 .. n /\ k + 1 - 1 = k /\ f[k] \in Rec
      BY <1>2 DEF Rises
    <2> QED
      BY <2>1 DEF Rises
  <1>3. S = 0 .. n
    <2>1. S \in SUBSET (0 .. n)
      OBVIOUS
    <2> HIDE DEF S
    <2> QED
      BY <1>1, <1>2, <2>1, InductUpTo
  <1> QED
    BY <1>3

LEMMA PlacesIs ==
    ASSUME NEW vol \in [Rec -> FileRecord]
    PROVE  /\ Places(vol) \in Layout
           /\ \A r \in Rec : /\ Places(vol)[r] = Place(vol[r])
                             /\ Places(vol)[r].live = vol[r].live
                             /\ Places(vol)[r].seq = vol[r].seq
                             /\ Places(vol)[r].parent = vol[r].parent
                             /\ Places(vol)[r].name = vol[r].name
                             /\ Places(vol)[r].dir = vol[r].dir
                             /\ vol[r].parent \in Rec
           /\ \A r \in Rec, n \in Nat : UpFrom(Places(vol), r, n) = UpFrom(vol, r, n)
  <1>1. \A r \in Rec : Place(vol[r]) \in PlaceType /\ vol[r].parent \in Rec
    <2> SUFFICES ASSUME NEW r \in Rec
                 PROVE  Place(vol[r]) \in PlaceType /\ vol[r].parent \in Rec
      OBVIOUS
    <2>1. vol[r] \in FileRecord
      OBVIOUS
    <2> QED
      BY <2>1 DEF Place, PlaceType, FileRecord
  <1>2. Places(vol) \in Layout
    BY <1>1 DEF Places, Layout
  <1>3. \A r \in Rec : /\ Places(vol)[r] = Place(vol[r])
                       /\ Places(vol)[r].live = vol[r].live
                       /\ Places(vol)[r].seq = vol[r].seq
                       /\ Places(vol)[r].parent = vol[r].parent
                       /\ Places(vol)[r].name = vol[r].name
                       /\ Places(vol)[r].dir = vol[r].dir
    BY DEF Places, Place
  <1>4. ASSUME NEW r \in Rec, NEW n \in Nat
        PROVE  UpFrom(Places(vol), r, n) = UpFrom(vol, r, n)
    <2>1. PICK f : Rises(f, vol, r, n) /\ UpFrom(vol, r, n) = {f[k] : k \in 0 .. n}
      BY <1>1, RisesIs
    <2>2. \A q \in Rec : Places(vol)[q].parent \in Rec
      BY <1>1, <1>3
    <2>3. PICK g : Rises(g, Places(vol), r, n)
                   /\ UpFrom(Places(vol), r, n) = {g[k] : k \in 0 .. n}
      BY <2>2, RisesIs
    <2>4. \A q \in Rec : Places(vol)[q].parent = vol[q].parent
      BY <1>3
    <2>5. \A k \in 0 .. n : f[k] = g[k]
      BY <2>1, <2>3, <2>4, RisesSame
    <2> QED
      BY <2>1, <2>3, <2>5
  <1> QED
    BY <1>1, <1>2, <1>3, <1>4

\* No file is in itself.
LEMMA NotInItself ==
    ASSUME NEW v \in Layout, InGuard(v), NEW r \in Rec \ {RootRec}, v[r].live
    PROVE  v[r].parent # r
  <1> SUFFICES ASSUME v[r].parent = r
               PROVE  FALSE
    OBVIOUS
  <1> DEFINE n == ClimbGuard + 1
  <1>1. n \in Nat /\ \A q \in Rec : v[q].parent \in Rec
    BY IndexAssumption DEF Layout, PlaceType
  <1>2. PICK up : Rises(up, v, r, n) /\ UpFrom(v, r, n) = {up[k] : k \in 0 .. n}
    <2> HIDE DEF n
    <2> QED
      BY <1>1, RisesIs
  <1>3. RootRec \in UpFrom(v, r, n)
    BY DEF InGuard
  <1> HIDE DEF n
  <1> DEFINE S == {k \in 0 .. n : up[k] = r}
  <1>4. 0 \in S
    BY <1>1, <1>2 DEF Rises
  <1>5. ASSUME NEW k \in S, k < n
        PROVE  k + 1 \in S
    <2>1. k + 1 \in 1 .. n /\ k + 1 - 1 = k
      BY <1>1, <1>5
    <2> QED
      BY <1>2, <2>1 DEF Rises
  <1>6. S = 0 .. n
    <2>1. S \in SUBSET (0 .. n)
      OBVIOUS
    <2> HIDE DEF S
    <2> QED
      BY <1>1, <1>4, <1>5, <2>1, InductUpTo
  <1> QED
    BY <1>2, <1>3, <1>6

-----------------------------------------------------------------------------
\* The node of a record shows the record's place in a layout.
Shows(ix, r, v) ==
    LET m == ix.rec[r]
    IN  /\ v[r].live /\ ix.seq[m] = v[r].seq /\ ix.name[m] = v[r].name
        /\ ix.parent[m] = ix.rec[v[r].parent] /\ (v[r].dir => m \in ix.dir)

\* Every live node shows the place its record has in one of two layouts: that
\* told so far, or that seen by the scan.
Mixed(ix, v, s) ==
    /\ ix.rec[RootRec] \in Live(ix)
    /\ \A r \in Rec : ix.rec[r] \in Live(ix) => Shows(ix, r, v) \/ Shows(ix, r, s)
    /\ \A m \in Live(ix) : ix.parent[m] \in Live(ix) \cap ix.dir
    /\ \A r \in Rec : ix.rec[r] \in ix.del => ix.rec[r] \in ix.excl
    /\ ix.excl = {} => \A r \in Rec : s[r].live => ix.rec[r] \in Live(ix)

\* What is told of a record and what was seen of it are of one file, and a folder
\* told of is where it was seen.
Agree(v, s) ==
    \A r \in Rec : v[r].live =>
        /\ s[r].seq = v[r].seq
        /\ s[r].live => s[r].dir = v[r].dir
        /\ v[r].dir => s[r].live /\ s[r].parent = v[r].parent

LEMMA AgreeSelf == \A v : Agree(v, v)
  BY DEF Agree

\* The way up from a file in a layout is through its live folders.
LEMMA RisesThroughFolders ==
    ASSUME NEW v \in Layout, Tree(v), NEW r \in Rec, v[r].live, NEW n \in Nat,
           NEW up, Rises(up, v, r, n)
    PROVE  /\ \A k \in 0 .. n : up[k] \in Rec /\ v[up[k]].live
           /\ \A k \in 1 .. n : v[up[k]].dir
  <1> DEFINE S == {k \in 0 .. n : v[up[k]].live}
  <1>1. \A k \in 0 .. n : up[k] \in Rec
    BY DEF Rises
  <1>2. 0 \in S
    BY DEF Rises
  <1>3. ASSUME NEW k \in 0 .. n, k < n, v[up[k]].live
        PROVE  v[up[k + 1]].live /\ v[up[k + 1]].dir
    <2>1. k + 1 \in 1 .. n /\ k + 1 - 1 = k
      BY <1>3
    <2>2. up[k + 1] = v[up[k]].parent
      BY <2>1 DEF Rises
    <2> QED
      BY <1>1, <1>3, <2>2 DEF Tree
  <1>4. S = 0 .. n
    <2>1. S \in SUBSET (0 .. n)
      OBVIOUS
    <2>2. \A k \in S : k < n => k + 1 \in S
      BY <1>3
    <2> HIDE DEF S
    <2> QED
      BY <1>2, <2>1, <2>2, InductUpTo
  <1>5. ASSUME NEW k \in 1 .. n
        PROVE  v[up[k]].dir
    <2>1. k - 1 \in 0 .. n /\ k - 1 < n /\ k - 1 + 1 = k
      OBVIOUS
    <2>2. v[up[k - 1]].live
      BY <1>4, <2>1
    <2> QED
      BY <1>3, <2>1, <2>2
  <1> QED
    BY <1>1, <1>4, <1>5

------------------------------------------------------------------------------
\* An index that shows two agreeing layouts in part is rooted.

\* The node of a folder hangs where a layout has the folder.
Leads(ix, u) ==
    \A q \in Rec : ix.rec[q] \in Live(ix) /\ u[q].live /\ u[q].dir =>
        ix.parent[ix.rec[q]] = ix.rec[u[q].parent]

ParentsLive(ix) == \A m \in Live(ix) : ix.parent[m] \in Live(ix) \cap ix.dir

LEMMA MixedLeads ==
    ASSUME NEW ix, NEW v, NEW s, Mixed(ix, v, s), Agree(v, s)
    PROVE  Leads(ix, v) /\ Leads(ix, s) /\ ParentsLive(ix) /\ ix.rec[RootRec] \in Live(ix)
  <1>1. ASSUME NEW q \in Rec, ix.rec[q] \in Live(ix), v[q].live, v[q].dir
        PROVE  ix.parent[ix.rec[q]] = ix.rec[v[q].parent]
    <2>1. s[q].parent = v[q].parent
      BY <1>1 DEF Agree
    <2>2. Shows(ix, q, v) \/ Shows(ix, q, s)
      BY <1>1 DEF Mixed
    <2> QED
      BY <2>1, <2>2 DEF Shows
  <1>2. ASSUME NEW q \in Rec, ix.rec[q] \in Live(ix), s[q].live, s[q].dir
        PROVE  ix.parent[ix.rec[q]] = ix.rec[s[q].parent]
    <2>1. Shows(ix, q, v) \/ Shows(ix, q, s)
      BY <1>2 DEF Mixed
    <2>2. CASE Shows(ix, q, v)
      <3>1. v[q].live
        BY <2>2 DEF Shows
      <3>2. v[q].dir /\ s[q].parent = v[q].parent
        BY <1>2, <3>1 DEF Agree
      <3> QED
        BY <1>1, <1>2, <3>1, <3>2
    <2>3. CASE Shows(ix, q, s)
      BY <2>3 DEF Shows
    <2> QED
      BY <2>1, <2>2, <2>3
  <1> QED
    BY <1>1, <1>2 DEF Leads, ParentsLive, Mixed

\* The root has itself as parent, and no other node has.
LEMMA OnlyRoot ==
    ASSUME NEW ix \in IndexType, RecordTableSound(ix), NEW u \in Layout, Tree(u), InGuard(u),
           Leads(ix, u), NEW q \in Rec, ix.rec[q] \in Live(ix), u[q].live, u[q].dir
    PROVE  ix.parent[ix.rec[q]] = ix.rec[q] <=> q = RootRec
  <1>1. ix.parent[ix.rec[q]] = ix.rec[u[q].parent]
    BY DEF Leads
  <1>2. u[q].parent \in Rec
    BY DEF Layout, PlaceType
  <1>3. CASE q = RootRec
    BY <1>1, <1>3 DEF Tree
  <1>4. CASE q # RootRec
    <2>1. u[q].parent # q
      BY <1>4, NotInItself
    <2>2. ix.rec[q] # NoNode
      BY LiveNodes, IndexAssumption DEF Node
    <2>3. ix.rec[u[q].parent] # ix.rec[q]
      BY <1>2, <2>1, <2>2 DEF RecordTableSound
    <2> QED
      BY <1>1, <1>4, <2>3
  <1> QED
    BY <1>3, <1>4

\* The climb from the node of a file goes the way up from the file.
Follows(ix, at, up, z) ==
    \A k \in 0 .. z - 1 : at[k] = ix.rec[up[k + 1]] /\ at[k] \in Live(ix) /\ at[k] \in ix.dir

LEMMA ClimbFollows ==
    ASSUME NEW ix \in IndexType, RecordTableSound(ix), ParentsLive(ix),
           NEW u \in Layout, Tree(u), InGuard(u), Leads(ix, u),
           NEW r \in Rec, ix.rec[r] \in Live(ix), Shows(ix, r, u),
           NEW n \in Nat, NEW up, Rises(up, u, r, n),
           NEW z \in 1 .. n, z - 1 <= ClimbGuard,
           \A k \in 0 .. z - 1 : up[k] # RootRec
    PROVE  Follows(ix, Climb(ix, ix.rec[r]), up, z)
  <1> DEFINE at == Climb(ix, ix.rec[r])
             In(k) == at[k] = ix.rec[up[k + 1]] /\ at[k] \in Live(ix) /\ at[k] \in ix.dir
             S == {k \in 0 .. z - 1 : In(k)}
  <1>0. ClimbGuard \in Nat /\ z - 1 \in Nat
    BY IndexAssumption
  <1>1. ix.rec[r] \in Node /\ Live(ix) \subseteq Node
    BY LiveNodes
  <1>2. Chain(at, ix) /\ at[0] = ix.parent[ix.rec[r]]
    BY <1>1, ClimbIs
  <1>3. u[r].live /\ ix.parent[ix.rec[r]] = ix.rec[u[r].parent]
    BY DEF Shows
  <1>4. /\ \A k \in 0 .. n : up[k] \in Rec /\ u[up[k]].live
        /\ \A k \in 1 .. n : u[up[k]].dir
    BY <1>3, RisesThroughFolders
  <1>5. In(0)
    <2>1. 1 \in 1 .. n
      BY <1>0
    <2>2. up[1] = u[up[1 - 1]].parent
      BY <2>1 DEF Rises
    <2>3. up[1] = u[r].parent
      BY <2>2 DEF Rises
    <2>4. at[0] \in Live(ix) \cap ix.dir
      BY <1>2 DEF ParentsLive
    <2> QED
      BY <1>2, <1>3, <2>3, <2>4
  <1> HIDE DEF at
  <1>6. ASSUME NEW k \in 0 .. z - 1, In(k), k < z - 1
        PROVE  In(k + 1)
    <2>1. k + 1 \in 1 .. n /\ k + 2 \in 1 .. n /\ k + 1 \in 0 .. z - 1
          /\ k + 1 \in 1 .. ClimbGuard /\ k + 1 - 1 = k /\ k + 1 + 1 = k + 2 /\ k + 2 - 1 = k + 1
      BY <1>0, <1>6
    <2> DEFINE q == up[k + 1]
    <2>2. q \in Rec /\ u[q].live /\ u[q].dir /\ ix.rec[q] \in Live(ix) /\ at[k] = ix.rec[q]
      BY <1>4, <1>6, <2>1
    <2>3. q # RootRec
      BY <2>1
    <2>4. ix.parent[ix.rec[q]] # ix.rec[q]
      BY <2>2, <2>3, OnlyRoot
    <2>5. at[k + 1] = Up(ix)[at[k]]
      BY <1>2, <2>1 DEF Chain
    <2>6. ix.rec[q] \in Stands /\ ix.rec[q] # NoNode
      BY <1>1, <2>2, IndexAssumption DEF Stands, Node
    <2>7. at[k + 1] = ix.parent[ix.rec[q]]
      BY <2>2, <2>4, <2>5, <2>6 DEF Up
    <2>8. ix.parent[ix.rec[q]] = ix.rec[u[q].parent]
      BY <2>2 DEF Leads
    <2>9. up[k + 2] = u[q].parent
      BY <2>1 DEF Rises
    <2>10. ix.parent[ix.rec[q]] \in Live(ix) \cap ix.dir
      BY <2>2 DEF ParentsLive
    <2> QED
      BY <2>1, <2>7, <2>8, <2>9, <2>10
  <1>7. S = 0 .. z - 1
    <2>1. S \in SUBSET (0 .. z - 1)
      OBVIOUS
    <2>2. 0 \in S
      BY <1>0, <1>5
    <2>3. \A k \in S : k < z - 1 => k + 1 \in S
      BY <1>0, <1>6
    <2> HIDE DEF S
    <2> QED
      BY <1>0, <2>1, <2>2, <2>3, InductUpTo
  <1> QED
    BY <1>7 DEF Follows, at

LEMMA AboveShown ==
    ASSUME NEW ix \in IndexType, RecordTableSound(ix), ParentsLive(ix),
           ix.rec[RootRec] \in Live(ix),
           NEW u \in Layout, Tree(u), InGuard(u), Leads(ix, u),
           NEW r \in Rec, ix.rec[r] \in Live(ix), Shows(ix, r, u)
    PROVE  /\ Ancestors(ix, ix.rec[r]) \subseteq Live(ix) \cap ix.dir
           /\ ix.rec[RootRec] \in Ancestors(ix, ix.rec[r])
           /\ IsRoot(ix, ix.rec[RootRec])
  <1> DEFINE root == ix.rec[RootRec]
             m == ix.rec[r]
             n == ClimbGuard + 1
  <1>1. n \in Nat /\ ClimbGuard \in Nat /\ RootRec \in Rec
    BY IndexAssumption
  <1>2. \A q \in Rec : u[q].parent \in Rec
    BY DEF Layout, PlaceType
  <1>3. PICK up : Rises(up, u, r, n) /\ UpFrom(u, r, n) = {up[k] : k \in 0 .. n}
    <2> HIDE DEF n
    <2> QED
      BY <1>1, <1>2, RisesIs
  <1>4. u[r].live
    BY DEF Shows
  <1>5. RootRec \in {up[k] : k \in 0 .. n}
    BY <1>3, <1>4 DEF InGuard
  <1>6. m \in Node /\ root \in Node /\ Live(ix) \subseteq Node
    BY LiveNodes
  <1>7. root \in ix.dir /\ IsRoot(ix, root)
    <2>1. u[RootRec].live /\ u[RootRec].dir
      BY DEF Tree
    <2>2. ix.parent[root] = root
      BY <1>1, <2>1, OnlyRoot
    <2> QED
      BY <2>2 DEF ParentsLive, IsRoot
  <1>8. PICK z \in 0 .. n : up[z] = RootRec /\ \A k \in 0 .. n : k < z => up[k] # RootRec
    <2> DEFINE Z == {k \in 0 .. n : up[k] = RootRec}
    <2>1. Z # {} /\ Z \in SUBSET Nat
      BY <1>1, <1>5
    <2>2. PICK z \in Z : \A y \in Z : z <= y
      <3> HIDE DEF Z
      <3> QED
        BY <2>1, LeastOf
    <2> QED
      BY <1>1, <2>2
  <1>9. CASE z = 0
    <2>1. r = RootRec
      BY <1>3, <1>8, <1>9 DEF Rises
    <2>2. Ancestors(ix, root) = {root}
      BY <1>6, <1>7, RootAlone
    <2> QED
      BY <1>7, <2>1, <2>2
  <1>10. CASE z # 0
    <2>1. z \in 1 .. n /\ z - 1 <= ClimbGuard /\ z - 1 \in 0 .. ClimbGuard
      BY <1>1, <1>10
    <2>2. \A k \in 0 .. z - 1 : up[k] # RootRec
      BY <1>1, <1>8, <2>1
    <2> DEFINE at == Climb(ix, m)
    <2>3. Follows(ix, at, up, z)
      <3> HIDE DEF n
      <3> QED
        BY <1>1, <1>3, <2>1, <2>2, ClimbFollows
    <2>4. at[z - 1] = root
      <3>1. z - 1 \in 0 .. z - 1 /\ z - 1 + 1 = z
        BY <2>1
      <3> QED
        BY <1>8, <2>3, <3>1 DEF Follows
    <2>5. Chain(at, ix)
      BY <1>6, ClimbIs
    <2>6. ix.parent[at[z - 1]] = at[z - 1]
      BY <1>7, <2>4 DEF IsRoot
    <2>7. \A k \in 0 .. ClimbGuard : at[k] # NoNode => at[k] \in Live(ix) /\ at[k] \in ix.dir
      <3> SUFFICES ASSUME NEW k \in 0 .. ClimbGuard, at[k] # NoNode
                   PROVE  at[k] \in Live(ix) /\ at[k] \in ix.dir
        OBVIOUS
      <3> HIDE DEF at
      <3>1. CASE z - 1 < k
        BY <2>1, <2>5, <2>6, <3>1, Stops
      <3>2. CASE k <= z - 1
        <4>1. k \in 0 .. z - 1
          BY <3>2
        <4> QED
          BY <2>3, <4>1 DEF Follows
      <3> QED
        BY <2>1, <3>1, <3>2
    <2>8. root # NoNode
      BY <1>6, IndexAssumption DEF Node
    <2>9. root \in Ancestors(ix, m)
      BY <1>6, <2>1, <2>4, <2>8, AncestorIs
    <2>10. \A a \in Ancestors(ix, m) : a \in Live(ix) \cap ix.dir
      BY <1>6, <2>7, AncestorIs
    <2> QED
      BY <1>7, <2>9, <2>10
  <1> QED
    BY <1>9, <1>10

\* So an index that shows two such layouts in part is rooted.
LEMMA MixedRooted ==
    ASSUME NEW ix \in IndexType, RecordTableSound(ix), NEW v \in Layout, NEW s \in Layout,
           Tree(v), InGuard(v), Tree(s), InGuard(s), Agree(v, s), Mixed(ix, v, s)
    PROVE  Rooted(ix)
  <1>1. Leads(ix, v) /\ Leads(ix, s) /\ ParentsLive(ix) /\ ix.rec[RootRec] \in Live(ix)
    BY MixedLeads
  <1>2. ASSUME NEW m \in Live(ix)
        PROVE  /\ Ancestors(ix, m) \subseteq Live(ix) \cap ix.dir
               /\ ix.rec[RootRec] \in Ancestors(ix, m)
               /\ IsRoot(ix, ix.rec[RootRec])
    <2>1. PICK r \in Rec : ix.rec[r] = m
      BY DEF RecordTableSound
    <2>2. ix.rec[r] \in Live(ix)
      BY <2>1
    <2>3. Shows(ix, r, v) \/ Shows(ix, r, s)
      BY <2>2 DEF Mixed
    <2>4. CASE Shows(ix, r, v)
      BY <1>1, <2>1, <2>2, <2>4, AboveShown
    <2>5. CASE Shows(ix, r, s)
      BY <1>1, <2>1, <2>2, <2>5, AboveShown
    <2> QED
      BY <2>3, <2>4, <2>5
  <1> QED
    BY <1>2 DEF Rooted

------------------------------------------------------------------------------
\* The scan shows the volume.

\* A freshly scanned index shows the volume.
LEMMA ScanShows ==
    ASSUME NEW vol \in [Rec -> FileRecord], Tree(Places(vol)), NEW ix \in IndexType,
           SamePlaces(Scanned(vol), ix)
    PROVE  Mixed(ix, Places(vol), Places(vol))
  <1> DEFINE v == Places(vol)
             sx == Scanned(vol)
  <1>1. Pass(vol, sx) /\ sx \in IndexType
    BY ScannedIs
  <1>2. /\ ix.n = Count(vol) /\ ix.del = {} /\ ix.parent = sx.parent /\ ix.name = sx.name
        /\ ix.dir = sx.dir /\ ix.seq = sx.seq /\ ix.rec = sx.rec
    BY <1>1 DEF SamePlaces, Pass
  <1>3. Live(ix) = 0 .. Count(vol) - 1 /\ NoNode \notin Live(ix)
    <2>1. Live(ix) = 0 .. Count(vol) - 1
      BY <1>2 DEF Live
    <2> QED
      BY <2>1, LiveNodes, IndexAssumption DEF Node
  <1>4. \A r \in Rec : ix.rec[r] = NodeAt(vol, r)
    BY <1>1, <1>2 DEF Pass
  <1>5. /\ \A r \in Rec : v[r].live = vol[r].live /\ v[r].seq = vol[r].seq
                          /\ v[r].parent = vol[r].parent /\ v[r].name = vol[r].name
                          /\ v[r].dir = vol[r].dir /\ vol[r].parent \in Rec
    BY PlacesIs
  <1>6. \A r \in Rec : r \in InUse(vol) <=> v[r].live
    BY <1>5 DEF InUse
  <1>7. \A r \in Rec : v[r].live <=> ix.rec[r] \in Live(ix)
    <2>1. \A r \in Rec : v[r].live => ix.rec[r] \in Live(ix)
      BY <1>3, <1>4, <1>6, NodeAtIs
    <2>2. \A r \in Rec : ~v[r].live => ix.rec[r] = NoNode
      BY <1>4, <1>6, NodeAtIs
    <2> QED
      BY <1>3, <2>1, <2>2
  <1>8. RootRec \in Rec /\ v[RootRec].live /\ v[RootRec].parent = RootRec /\ v[RootRec].dir
    BY IndexAssumption DEF Tree
  <1>9. ASSUME NEW r \in Rec, v[r].live
        PROVE  Shows(ix, r, v) /\ v[v[r].parent].live /\ v[v[r].parent].dir
    <2>1. v[v[r].parent].live /\ v[v[r].parent].dir /\ v[r].parent \in Rec
      BY <1>5, <1>8, <1>9 DEF Tree
    <2>2. r \in InUse(vol)
      BY <1>6, <1>9
    <2>3. NodeAt(vol, v[r].parent) # NoNode /\ NodeAt(vol, v[r].parent) = ix.rec[v[r].parent]
      BY <1>3, <1>4, <1>7, <2>1
    <2>4. /\ ix.seq[ix.rec[r]] = vol[r].seq /\ ix.name[ix.rec[r]] = vol[r].name
          /\ ix.rec[r] \in ix.dir <=> vol[r].dir
          /\ ix.parent[ix.rec[r]] = IF r = RootRec \/ NodeAt(vol, vol[r].parent) = NoNode
                                    THEN ix.rec[RootRec] ELSE NodeAt(vol, vol[r].parent)
      BY <1>1, <1>2, <2>2 DEF Pass
    <2>5. ix.parent[ix.rec[r]] = ix.rec[v[r].parent]
      BY <1>5, <1>8, <2>3, <2>4
    <2> QED
      BY <1>5, <1>9, <2>1, <2>4, <2>5 DEF Shows
  <1>10. ASSUME NEW m \in Live(ix)
         PROVE  ix.parent[m] \in Live(ix) \cap ix.dir
    <2>1. PICK r \in InUse(vol) : NodeAt(vol, r) = m
      BY <1>3, NodeAtIs
    <2>2. r \in Rec /\ v[r].live /\ ix.rec[r] = m
      BY <1>4, <1>6, <2>1 DEF InUse
    <2>3. Shows(ix, r, v) /\ v[v[r].parent].live /\ v[v[r].parent].dir
      BY <1>9, <2>2
    <2>4. v[r].parent \in Rec
      BY <1>5, <2>2
    <2>5. Shows(ix, v[r].parent, v) /\ ix.rec[v[r].parent] \in Live(ix)
      BY <1>7, <1>9, <2>3, <2>4
    <2> QED
      BY <2>2, <2>3, <2>5 DEF Shows
  <1>11. Mixed(ix, v, v)
    <2>1. ix.rec[RootRec] \in Live(ix)
      BY <1>7, <1>8
    <2>2. \A r \in Rec : ix.rec[r] \in Live(ix) => Shows(ix, r, v)
      BY <1>7, <1>9
    <2>3. \A r \in Rec : ix.rec[r] \notin ix.del
      BY <1>2
    <2>4. \A r \in Rec : v[r].live => ix.rec[r] \in Live(ix)
      BY <1>7
    <2> HIDE DEF v
    <2> QED
      BY <1>10, <2>1, <2>2, <2>3, <2>4 DEF Mixed
  <1> QED
    BY <1>11

------------------------------------------------------------------------------
\* Applying one change: what the index goes on to show.

\* One change is told of record r: of the layout v so far, w is made.  What was
\* scanned goes along (s = v, t = w), or is ahead of what is told.
Onward(v, s, w, t, r) ==
    /\ \A q \in Rec : q # r => w[q] = v[q]
    /\ \/ s = v /\ t = w
       \/ /\ t = s /\ Agree(v, s) /\ Agree(w, s)
          /\ v[r].live /\ ~w[r].live => ~s[r].live

\* An index changes at most the node of record r, before or after.
Keeps(ix, jx, r) ==
    /\ jx.excl = ix.excl /\ ix.dir \subseteq jx.dir
    /\ \A q \in Rec : q # r => jx.rec[q] = ix.rec[q]
    /\ \A x \in Node : x # ix.rec[r] /\ x # jx.rec[r] =>
         /\ x \in Live(jx) <=> x \in Live(ix)
         /\ x \in jx.del <=> x \in ix.del
         /\ jx.parent[x] = ix.parent[x] /\ jx.name[x] = ix.name[x] /\ jx.seq[x] = ix.seq[x]

\* The node of record r stays if anything hangs off it.
Held(ix, jx, r) ==
    \A q \in Rec : q # r /\ ix.rec[q] \in Live(ix) /\ ix.parent[ix.rec[q]] = ix.rec[r] =>
        jx.rec[r] = ix.rec[r] /\ jx.rec[r] \in Live(jx)

\* The node of record r itself.
Own(jx, r, w, t) ==
    /\ jx.rec[r] \in Live(jx) =>
         /\ Shows(jx, r, w) \/ Shows(jx, r, t)
         /\ jx.parent[jx.rec[r]] \in Live(jx) \cap jx.dir
    /\ jx.rec[r] \in jx.del => jx.rec[r] \in jx.excl
    /\ jx.excl = {} /\ t[r].live => jx.rec[r] \in Live(jx)

LEMMA KeptApart ==
    ASSUME NEW ix \in IndexType, NEW jx \in IndexType,
           RecordTableSound(ix), RecordTableSound(jx), NEW r \in Rec, Keeps(ix, jx, r),
           NEW q \in Rec, q # r
    PROVE  /\ jx.rec[q] = ix.rec[q]
           /\ ix.rec[q] \in Live(ix) <=> ix.rec[q] \in Live(jx)
           /\ ix.rec[q] \in jx.del <=> ix.rec[q] \in ix.del
           /\ ix.rec[q] \in Live(ix) =>
                /\ ix.rec[q] \in Node /\ ix.rec[q] # ix.rec[r] /\ ix.rec[q] # jx.rec[r]
                /\ jx.parent[ix.rec[q]] = ix.parent[ix.rec[q]]
                /\ jx.name[ix.rec[q]] = ix.name[ix.rec[q]]
                /\ jx.seq[ix.rec[q]] = ix.seq[ix.rec[q]]
                /\ ix.rec[q] \in ix.dir => ix.rec[q] \in jx.dir
  <1> DEFINE x == ix.rec[q]
  <1>1. jx.rec[q] = x
    BY DEF Keeps
  <1>2. Live(ix) \subseteq Node /\ Live(jx) \subseteq Node /\ NoNode \notin Node
    BY LiveNodes, IndexAssumption DEF Node
  <1>3. ix.del \subseteq Node /\ jx.del \subseteq Node
    BY DEF IndexType
  <1>4. CASE x = NoNode
    BY <1>1, <1>2, <1>3, <1>4
  <1>5. CASE x # NoNode
    <2>1. x # ix.rec[r]
      BY <1>5 DEF RecordTableSound
    <2>2. x # jx.rec[r]
      BY <1>1, <1>5 DEF RecordTableSound
    <2>3. x \in Node
      BY <1>5 DEF IndexType
    <2> QED
      BY <1>1, <2>1, <2>2, <2>3 DEF Keeps
  <1> QED
    BY <1>4, <1>5

\* A node that shows a layout goes on to, unless it is that of record r.
LEMMA ShowsKept ==
    ASSUME NEW ix \in IndexType, NEW jx \in IndexType,
           RecordTableSound(ix), RecordTableSound(jx), NEW r \in Rec,
           Keeps(ix, jx, r), Held(ix, jx, r), NEW q \in Rec, q # r, ix.rec[q] \in Live(ix),
           NEW u \in Layout, Shows(ix, q, u), NEW w, w[q] = u[q]
    PROVE  Shows(jx, q, w)
  <1>1. /\ jx.rec[q] = ix.rec[q]
        /\ jx.parent[ix.rec[q]] = ix.parent[ix.rec[q]]
        /\ jx.name[ix.rec[q]] = ix.name[ix.rec[q]]
        /\ jx.seq[ix.rec[q]] = ix.seq[ix.rec[q]]
        /\ ix.rec[q] \in ix.dir => ix.rec[q] \in jx.dir
    BY KeptApart
  <1>2. u[q].parent \in Rec
    BY DEF Layout, PlaceType
  <1>3. jx.rec[u[q].parent] = ix.rec[u[q].parent]
    <2>1. CASE u[q].parent # r
      BY <1>2, <2>1 DEF Keeps
    <2>2. CASE u[q].parent = r
      BY <2>2 DEF Held, Shows
    <2> QED
      BY <2>1, <2>2
  <1> QED
    BY <1>1, <1>3 DEF Shows

\* So an index that keeps the rest and whose own node is right shows the layouts
\* after the change.
LEMMA MixedKept ==
    ASSUME NEW ix \in IndexType, NEW jx \in IndexType,
           RecordTableSound(ix), RecordTableSound(jx),
           NEW v \in Layout, NEW s \in Layout, NEW w, NEW t, NEW r \in Rec, r # RootRec,
           Mixed(ix, v, s), Onward(v, s, w, t, r),
           Keeps(ix, jx, r), Held(ix, jx, r), Own(jx, r, w, t)
    PROVE  Mixed(jx, w, t)
  <1>0. RootRec \in Rec /\ Live(jx) \subseteq Node /\ NoNode \notin Node
    BY IndexAssumption, LiveNodes DEF Node
  <1>1. jx.rec[RootRec] \in Live(jx)
    <2>1. ix.rec[RootRec] \in Live(ix)
      BY DEF Mixed
    <2>2. jx.rec[RootRec] = ix.rec[RootRec] /\ ix.rec[RootRec] \in Live(jx)
      BY <1>0, <2>1, KeptApart
    <2> QED
      BY <2>2
  <1>2. ASSUME NEW q \in Rec, jx.rec[q] \in Live(jx), q # r
        PROVE  Shows(jx, q, w) \/ Shows(jx, q, t)
    <2>1. ix.rec[q] \in Live(ix)
      BY <1>2, KeptApart
    <2>2. Shows(ix, q, v) \/ Shows(ix, q, s)
      BY <2>1 DEF Mixed
    <2>3. w[q] = v[q] /\ (t[q] = s[q])
      BY <1>2 DEF Onward
    <2>4. CASE Shows(ix, q, v)
      BY <1>2, <2>1, <2>3, <2>4, ShowsKept
    <2>5. CASE Shows(ix, q, s)
      BY <1>2, <2>1, <2>3, <2>5, ShowsKept
    <2> QED
      BY <2>2, <2>4, <2>5
  <1>3. ASSUME NEW m \in Live(jx)
        PROVE  jx.parent[m] \in Live(jx) \cap jx.dir
    <2>1. PICK q \in Rec : jx.rec[q] = m
      BY DEF RecordTableSound
    <2>2. CASE q = r
      BY <2>1, <2>2 DEF Own
    <2>3. CASE q # r
      <3>1. m = ix.rec[q] /\ m \in Live(ix) /\ jx.parent[m] = ix.parent[m]
        BY <2>1, <2>3, KeptApart
      <3> DEFINE p == ix.parent[m]
      <3>2. p \in Live(ix) /\ p \in ix.dir /\ p \in jx.dir
        BY <3>1 DEF Mixed, Keeps
      <3>3. CASE p = ix.rec[r]
        BY <2>3, <3>1, <3>2, <3>3 DEF Held
      <3>4. CASE p # ix.rec[r]
        <4>1. PICK o \in Rec : ix.rec[o] = p
          BY <3>2 DEF RecordTableSound
        <4>2. o # r
          BY <3>4, <4>1
        <4>3. p \in Live(jx)
          BY <3>2, <4>1, <4>2, KeptApart
        <4> QED
          BY <3>1, <3>2, <4>3
      <3> QED
        BY <3>3, <3>4
    <2> QED
      BY <2>2, <2>3
  <1>4. ASSUME NEW q \in Rec, jx.rec[q] \in jx.del, q # r
        PROVE  jx.rec[q] \in jx.excl
    <2>1. jx.rec[q] = ix.rec[q] /\ ix.rec[q] \in ix.del
      BY <1>4, KeptApart
    <2> QED
      BY <2>1 DEF Mixed, Keeps
  <1>5. ASSUME jx.excl = {}, NEW q \in Rec, t[q].live, q # r
        PROVE  jx.rec[q] \in Live(jx)
    <2>1. ix.excl = {}
      BY <1>5 DEF Keeps
    <2>2. t[q] = s[q]
      BY <1>5 DEF Onward
    <2>3. ix.rec[q] \in Live(ix)
      BY <1>5, <2>1, <2>2 DEF Mixed
    <2> QED
      BY <1>5, <2>3, KeptApart
  <1>6. \A q \in Rec : jx.rec[q] \in Live(jx) => Shows(jx, q, w) \/ Shows(jx, q, t)
    BY <1>2 DEF Own
  <1>7. \A q \in Rec : jx.rec[q] \in jx.del => jx.rec[q] \in jx.excl
    BY <1>4 DEF Own
  <1>8. jx.excl = {} => \A q \in Rec : t[q].live => jx.rec[q] \in Live(jx)
    BY <1>5 DEF Own
  <1> QED
    BY <1>1, <1>3, <1>6, <1>7, <1>8 DEF Mixed

\* What the operations do to names, parents, marks and the record table.
SameShape(ix, jx) == SamePlaces(ix, jx) /\ jx.excl = ix.excl

LEMMA PropagateStays ==
    ASSUME NEW ix \in IndexType, NEW m, NEW ds \in Int, NEW da \in Int, NEW df \in Int
    PROVE  Propagate(ix, m, ds, da, df) \in IndexType /\ SameShape(ix, Propagate(ix, m, ds, da, df))
  BY PropagateGood DEF SameTable, SameShape, SamePlaces

LEMMA DetachStays ==
    ASSUME NEW ix \in IndexType, NEW m \in Node
    PROVE  Detach(ix, m) \in IndexType /\ SameShape(ix, Detach(ix, m))
  <1>1. - ix.size[m] \in Int /\ - ix.alloc[m] \in Int /\ - FilesOf(ix, m) \in Int
    BY FilesOfType DEF IndexType
  <1> QED
    BY <1>1, PropagateStays DEF Detach

\* A resize of a live node changes totals alone.
LEMMA ResizeStays ==
    ASSUME NEW ix \in IndexType, NEW c \in AnyChange, Matches(ix, c.rec, c.seq)
    PROVE  SameShape(ix, ApplyResize(ix, c))
  <1> DEFINE m == ix.rec[c.rec]
             d == c.size - ix.size[m]
             zx == [ix EXCEPT !.size[m] = c.size, !.alloc[m] = c.size]
             ex == [ix EXCEPT !.size[m] = c.size]
  <1>1. c.rec \in Rec /\ c.size \in Nat
    BY DEF AnyChange
  <1>2. NodeOfRecord(ix, c.rec) = m /\ m # NoNode
    BY <1>1 DEF Matches, NodeOfRecord
  <1>3. m \in Node
    BY <1>1, <1>2 DEF IndexType
  <1>4. Resolved(ix, c.rec, c.seq) = ix /\ Found(ix, c.rec, c.seq) = m
    BY <1>2 DEF Resolved, Found
  <1>5. d \in Int /\ zx \in IndexType
    <2>1. ix.size[m] \in Nat
      BY <1>3 DEF IndexType
    <2> HIDE DEF m
    <2>2. zx \in IndexType
      BY <1>1, <1>3 DEF IndexType
    <2> QED
      BY <1>1, <2>1, <2>2
  <1>6. SameShape(ix, zx) /\ SameShape(ix, ex) /\ SameShape(ix, ix)
    BY DEF SameShape, SamePlaces
  <1>7. SameShape(zx, Propagate(zx, m, d, d, 0))
    <2> HIDE DEF zx, d, m
    <2> QED
      BY <1>5, PropagateStays
  <1>8. SameShape(ix, Propagate(zx, m, d, d, 0))
    BY <1>6, <1>7 DEF SameShape, SamePlaces
  <1>9. \/ ApplyResize(ix, c) = ix \/ ApplyResize(ix, c) = ex
        \/ ApplyResize(ix, c) = Propagate(zx, m, d, d, 0)
    BY <1>2, <1>4 DEF ApplyResize
  <1> QED
    BY <1>6, <1>8, <1>9

\* A deletion of a live node leaves a tombstone, and frees the record unless the
\* node is pruned.
Removed(ix, jx, r) ==
    /\ jx.n = ix.n /\ jx.parent = ix.parent /\ jx.name = ix.name /\ jx.dir = ix.dir
    /\ jx.seq = ix.seq /\ jx.excl = ix.excl /\ jx.del = ix.del \cup {ix.rec[r]}
    /\ \A q \in Rec : q # r => jx.rec[q] = ix.rec[q]
    /\ jx.rec[r] = IF ix.rec[r] \in ix.excl THEN ix.rec[r] ELSE NoNode

LEMMA DeleteRemoves ==
    ASSUME NEW ix \in IndexType, NEW c \in AnyChange, Matches(ix, c.rec, c.seq),
           ix.rec[c.rec] \notin ix.del
    PROVE  Removed(ix, ApplyDelete(ix, c), c.rec)
  <1> DEFINE r == c.rec
             m == ix.rec[r]
             dx == Detach(ix, m)
             jx == ApplyDelete(ix, c)
  <1>1. r \in Rec
    BY DEF AnyChange
  <1>2. NodeOfRecord(ix, r) = m /\ m # NoNode
    BY <1>1 DEF Matches, NodeOfRecord
  <1>3. m \in Node
    BY <1>1, <1>2 DEF IndexType
  <1>4. Resolved(ix, r, c.seq) = ix /\ Found(ix, r, c.seq) = m
    BY <1>2 DEF Resolved, Found
  <1>5. CASE m \in ix.excl
    <2>1. jx = [ix EXCEPT !.del = @ \cup {m}]
      BY <1>2, <1>4, <1>5 DEF ApplyDelete
    <2> QED
      BY <1>5, <2>1 DEF Removed, IndexType
  <1>6. CASE m \notin ix.excl
    <2>1. jx = ClearRecord(Tombstone(dx, m), r)
      BY <1>2, <1>4, <1>6 DEF ApplyDelete
    <2>2. dx \in IndexType /\ SameShape(ix, dx)
      BY <1>3, DetachStays
    <2> HIDE DEF dx, m
    <2>3. /\ dx.n = ix.n /\ dx.parent = ix.parent /\ dx.name = ix.name /\ dx.dir = ix.dir
          /\ dx.seq = ix.seq /\ dx.excl = ix.excl /\ dx.del = ix.del /\ dx.rec = ix.rec
      BY <2>2 DEF SameShape, SamePlaces
    <2> DEFINE tx == Tombstone(dx, m)
    <2>4. /\ tx.n = dx.n /\ tx.parent = dx.parent /\ tx.name = dx.name /\ tx.dir = dx.dir
          /\ tx.seq = dx.seq /\ tx.excl = dx.excl /\ tx.del = dx.del \cup {m} /\ tx.rec = dx.rec
          /\ tx \in IndexType
      BY <1>3, <2>2 DEF Tombstone, IndexType
    <2> HIDE DEF tx
    <2> DEFINE kx == ClearRecord(tx, r)
    <2>5. /\ kx.n = tx.n /\ kx.parent = tx.parent /\ kx.name = tx.name /\ kx.dir = tx.dir
          /\ kx.seq = tx.seq /\ kx.excl = tx.excl /\ kx.del = tx.del
          /\ kx.rec[r] = NoNode /\ \A q \in Rec : q # r => kx.rec[q] = tx.rec[q]
      BY <1>1, <2>4 DEF ClearRecord, IndexType
    <2> HIDE DEF kx
    <2>6. jx = kx
      BY <2>1 DEF kx, tx
    <2> QED
      BY <1>6, <2>3, <2>4, <2>5, <2>6 DEF Removed, m
  <1> QED
    BY <1>5, <1>6

\* A rename of a live node hangs it elsewhere under another name.
Rehung(ix, jx, m, p, nm) ==
    /\ jx.n = ix.n /\ jx.dir = ix.dir /\ jx.del = ix.del /\ jx.excl = ix.excl
    /\ jx.seq = ix.seq /\ jx.rec = ix.rec
    /\ jx.parent[m] = p /\ jx.name[m] = nm
    /\ \A x \in Node : x # m => jx.parent[x] = ix.parent[x] /\ jx.name[x] = ix.name[x]

LEMMA MoveHangs ==
    ASSUME NEW ix \in IndexType, NEW m \in Node, NEW p \in Node
    PROVE  /\ MoveNode(ix, m, p) \in IndexType
           /\ Rehung(ix, MoveNode(ix, m, p), m, p, ix.name[m])
  <1> DEFINE dx == Detach(ix, m)
             kx == [dx EXCEPT !.parent[m] = p, !.depth[m] = ix.depth[p] + 1]
  <1>1. CASE ix.parent[m] = p
    BY <1>1 DEF MoveNode, Rehung
  <1>2. CASE ix.parent[m] # p
    <2>1. dx \in IndexType /\ SameShape(ix, dx)
      BY DetachStays
    <2>2. ix.depth[p] + 1 \in Nat /\ \A x \in Node : dx.parent[x] = ix.parent[x]
      BY <2>1 DEF IndexType, SameShape, SamePlaces
    <2>3. /\ dx.n = ix.n /\ dx.name = ix.name /\ dx.dir = ix.dir
          /\ dx.seq = ix.seq /\ dx.excl = ix.excl /\ dx.del = ix.del /\ dx.rec = ix.rec
      BY <2>1 DEF SameShape, SamePlaces
    <2> HIDE DEF dx
    <2>4. /\ kx \in IndexType /\ kx.parent[m] = p
          /\ \A x \in Node : x # m => kx.parent[x] = dx.parent[x]
          /\ kx.n = dx.n /\ kx.name = dx.name /\ kx.dir = dx.dir
          /\ kx.seq = dx.seq /\ kx.excl = dx.excl /\ kx.del = dx.del /\ kx.rec = dx.rec
      BY <2>1, <2>2 DEF IndexType
    <2>5. MoveNode(ix, m, p) = Attach(kx, m, ix)
      BY <1>2 DEF MoveNode, dx
    <2> HIDE DEF kx
    <2>6. Attach(kx, m, ix) \in IndexType /\ SameShape(kx, Attach(kx, m, ix))
      <3>1. ix.size[m] \in Int /\ ix.alloc[m] \in Int /\ FilesOf(ix, m) \in Int
        BY FilesOfType DEF IndexType
      <3> QED
        BY <2>4, <3>1, PropagateStays DEF Attach
    <2> DEFINE jx == Attach(kx, m, ix)
    <2>7. jx.parent = kx.parent /\ jx.n = kx.n /\ jx.name = kx.name /\ jx.dir = kx.dir
          /\ jx.seq = kx.seq /\ jx.excl = kx.excl /\ jx.del = kx.del /\ jx.rec = kx.rec
      BY <2>6 DEF SameShape, SamePlaces
    <2> HIDE DEF jx
    <2>8. Rehung(ix, jx, m, p, ix.name[m])
      BY <2>2, <2>3, <2>4, <2>7 DEF Rehung
    <2> QED
      BY <2>5, <2>6, <2>8 DEF jx
  <1> QED
    BY <1>1, <1>2

LEMMA RenameHangs ==
    ASSUME NEW ix \in IndexType, NEW c \in AnyChange, Matches(ix, c.rec, c.seq),
           ix.rec[c.rec] \notin ix.del, NodeOfRecord(ix, c.parent) # NoNode
    PROVE  Rehung(ix, ApplyRename(ix, c), ix.rec[c.rec], ix.rec[c.parent], c.name)
  <1> DEFINE m == ix.rec[c.rec]
             p == ix.rec[c.parent]
             vx == MoveNode(ix, m, p)
             nx == [vx EXCEPT !.name[m] = c.name]
  <1>1. c.rec \in Rec /\ c.parent \in Rec
    BY DEF AnyChange
  <1>2. NodeOfRecord(ix, c.rec) = m /\ m # NoNode /\ NodeOfRecord(ix, c.parent) = p
    BY <1>1 DEF Matches, NodeOfRecord
  <1>3. m \in Node /\ p \in Node
    BY <1>1, <1>2 DEF IndexType
  <1>4. Resolved(ix, c.rec, c.seq) = ix /\ Found(ix, c.rec, c.seq) = m
    BY <1>2 DEF Resolved, Found
  <1>5. ApplyRename(ix, c) = nx
    BY <1>2, <1>4 DEF ApplyRename
  <1>6. vx \in IndexType /\ Rehung(ix, vx, m, p, ix.name[m])
    BY <1>3, MoveHangs
  <1> HIDE DEF vx, m, p
  <1>7. Rehung(ix, nx, m, p, c.name)
    BY <1>3, <1>6 DEF Rehung, IndexType
  <1> HIDE DEF nx
  <1> QED
    BY <1>5, <1>7 DEF m, p

\* A record whose node is gone: at most its slot is cleared.
Forgets(ix, jx, r) ==
    /\ SameShape([ix EXCEPT !.rec = jx.rec], jx)
    /\ \A q \in Rec : q # r => jx.rec[q] = ix.rec[q]
    /\ jx.rec[r] \in {ix.rec[r], NoNode}

LEMMA ResolvedForgets ==
    ASSUME NEW ix \in IndexType, NEW r \in Rec, NEW s \in Nat,
           ix.rec[r] = NoNode \/ ix.rec[r] \in ix.del
    PROVE  /\ Forgets(ix, Resolved(ix, r, s), r) /\ Resolved(ix, r, s) \in IndexType
           /\ Found(ix, r, s) = NoNode \/ Found(ix, r, s) \in ix.del
  <1>1. NodeOfRecord(ix, r) = ix.rec[r]
    BY DEF NodeOfRecord
  <1>2. Resolved(ix, r, s) = ix \/ Resolved(ix, r, s) = ClearRecord(ix, r)
    BY <1>1 DEF Resolved, Retire
  <1>3. Forgets(ix, ix, r)
    BY DEF Forgets, SameShape, SamePlaces, IndexType
  <1>4. Forgets(ix, ClearRecord(ix, r), r) /\ ClearRecord(ix, r) \in IndexType
    <2> DEFINE kx == ClearRecord(ix, r)
    <2>1. kx = [ix EXCEPT !.rec[r] = NoNode]
      BY DEF ClearRecord
    <2> QED
      BY <2>1 DEF Forgets, SameShape, SamePlaces, IndexType
  <1>5. Found(ix, r, s) = NoNode \/ Found(ix, r, s) = ix.rec[r]
    BY <1>1 DEF Found
  <1> QED
    BY <1>2, <1>3, <1>4, <1>5

\* A new node.
NewNode(ix, jx, r, s, p, nm, isDir) ==
    /\ jx.n = ix.n + 1 /\ ix.n \in Node /\ jx.excl = ix.excl /\ jx.del = ix.del
    /\ jx.dir = IF isDir THEN ix.dir \cup {ix.n} ELSE ix.dir
    /\ jx.rec[r] = ix.n /\ \A q \in Rec : q # r => jx.rec[q] = ix.rec[q]
    /\ jx.parent[ix.n] = p /\ jx.name[ix.n] = nm /\ jx.seq[ix.n] = s
    /\ \A x \in Node : x # ix.n =>
         jx.parent[x] = ix.parent[x] /\ jx.name[x] = ix.name[x] /\ jx.seq[x] = ix.seq[x]

LEMMA AppendHangs ==
    ASSUME NEW ix \in IndexType, ix.n < MaxNodes,
           NEW r \in Rec, NEW s \in Nat, NEW p \in Node, NEW nm \in Name,
           NEW isDir \in BOOLEAN, NEW sz \in Nat
    PROVE  NewNode(ix, AppendNode(ix, r, s, p, nm, isDir, sz), r, s, p, nm, isDir)
  <1> DEFINE m  == ix.n
             w  == IF isDir THEN 0 ELSE sz
             ds == IF isDir THEN ix.dir \cup {m} ELSE ix.dir
             dp == ix.depth[p] + 1
             kx == [ix EXCEPT !.n = m + 1,
                      !.parent[m] = p, !.name[m] = nm, !.seq[m] = s,
                      !.dir = ds,
                      !.size[m] = w, !.alloc[m] = w, !.files[m] = 0,
                      !.depth[m] = dp]
             lx == SetRecord(kx, r, m)
             jx == AppendNode(ix, r, s, p, nm, isDir, sz)
  <1>1. /\ m \in Node /\ m + 1 \in 0 .. MaxNodes
        /\ w \in Nat /\ dp \in Nat /\ ds \in SUBSET Node
    <2>1. m \in 0 .. MaxNodes /\ ix.depth[p] \in Nat /\ ix.dir \in SUBSET Node
      BY DEF IndexType
    <2>2. m \in Node /\ m + 1 \in 0 .. MaxNodes
      BY <2>1, IndexAssumption DEF Node
    <2>3. CASE isDir
      BY <2>1, <2>2, <2>3
    <2>4. CASE ~isDir
      BY <2>1, <2>2, <2>4
    <2> QED
      BY <2>3, <2>4
  <1>2. jx = lx \/ jx = Propagate(lx, m, sz, sz, 1)
    BY DEF AppendNode
  <1> HIDE DEF w, dp, jx, ds
  <1>3. kx \in IndexType
    BY <1>1 DEF IndexType
  <1>4. /\ kx.n = m + 1 /\ kx.del = ix.del /\ kx.rec = ix.rec /\ kx.excl = ix.excl /\ kx.dir = ds
        /\ kx.parent[m] = p /\ kx.name[m] = nm /\ kx.seq[m] = s
        /\ \A a \in Node : a # m => /\ kx.parent[a] = ix.parent[a] /\ kx.name[a] = ix.name[a]
                                    /\ kx.seq[a] = ix.seq[a]
    BY <1>1 DEF IndexType
  <1> HIDE DEF kx
  <1>5. /\ lx \in IndexType /\ lx.n = kx.n /\ lx.del = kx.del /\ lx.excl = kx.excl
        /\ lx.dir = kx.dir /\ lx.parent = kx.parent /\ lx.name = kx.name /\ lx.seq = kx.seq
        /\ lx.rec[r] = m /\ \A q \in Rec : q # r => lx.rec[q] = kx.rec[q]
    BY <1>1, <1>3 DEF SetRecord, IndexType
  <1> HIDE DEF lx
  <1>6. SameShape(lx, jx)
    <2>1. SameShape(lx, lx)
      BY DEF SameShape, SamePlaces
    <2>2. SameShape(lx, Propagate(lx, m, sz, sz, 1))
      <3> HIDE DEF m
      <3>1. sz \in Int /\ 1 \in Int
        OBVIOUS
      <3> QED
        BY <1>5, <3>1, PropagateStays
    <2> QED
      BY <1>2, <2>1, <2>2
  <1>7. /\ jx.n = lx.n /\ jx.del = lx.del /\ jx.excl = lx.excl /\ jx.rec = lx.rec
        /\ jx.dir = lx.dir /\ jx.parent = lx.parent /\ jx.name = lx.name /\ jx.seq = lx.seq
    BY <1>6 DEF SameShape, SamePlaces
  <1>8. NewNode(ix, jx, r, s, p, nm, isDir)
    BY <1>1, <1>4, <1>5, <1>7 DEF NewNode, ds
  <1> QED
    BY <1>8 DEF jx

LEMMA NotLive ==
    ASSUME NEW ix \in IndexType, RecordTableSound(ix), NEW r \in Rec
    PROVE  /\ ix.rec[r] \in Live(ix) <=> ix.rec[r] # NoNode /\ ix.rec[r] \notin ix.del
           /\ ix.rec[r] \in ix.del => ix.rec[r] # NoNode
           /\ NoNode \notin Live(ix) /\ NoNode \notin ix.del /\ NoNode \notin ix.excl
  <1>1. NoNode \notin Node /\ Live(ix) \subseteq Node /\ ix.del \subseteq Node /\ ix.excl \subseteq Node
    <2>1. NoNode \notin Node
      BY IndexAssumption DEF Node
    <2>2. ix.del \subseteq Node /\ ix.excl \subseteq Node
      BY DEF IndexType
    <2> QED
      BY <2>1, <2>2, LiveNodes
  <1>2. ix.rec[r] # NoNode => ix.rec[r] \in 0 .. ix.n - 1
    BY <1>1 DEF RecordTableSound, IndexType, Node
  <1> QED
    BY <1>1, <1>2 DEF Live

\* What is told of a record whose node is live is told of the same file.
LEMMA SameFile ==
    ASSUME NEW ix, NEW v, NEW s, NEW w, NEW t, NEW r \in Rec, NEW sq,
           Mixed(ix, v, s), Onward(v, s, w, t, r), ix.rec[r] \in Live(ix),
           \/ w[r].live /\ w[r].seq = sq /\ (v[r].live => v[r].seq = sq)
           \/ v[r].live /\ v[r].seq = sq
    PROVE  ix.seq[ix.rec[r]] = sq
  <1>1. Shows(ix, r, v) \/ Shows(ix, r, s)
    BY DEF Mixed
  <1>2. CASE s = v
    BY <1>1, <1>2 DEF Shows
  <1>3. CASE Agree(v, s) /\ Agree(w, s)
    BY <1>1, <1>3 DEF Shows, Agree
  <1> QED
    BY <1>2, <1>3 DEF Onward

\* A change of totals.
LEMMA SameMixed ==
    ASSUME NEW ix \in IndexType, NEW jx \in IndexType,
           RecordTableSound(ix), RecordTableSound(jx),
           NEW v \in Layout, NEW s \in Layout, NEW w, NEW t, NEW r \in Rec, r # RootRec,
           Mixed(ix, v, s), Onward(v, s, w, t, r), SameShape(ix, jx),
           ix.rec[r] \in Live(ix), Shows(ix, r, w) \/ Shows(ix, r, t)
    PROVE  Mixed(jx, w, t)
  <1>1. /\ jx.n = ix.n /\ jx.parent = ix.parent /\ jx.name = ix.name /\ jx.dir = ix.dir
        /\ jx.del = ix.del /\ jx.seq = ix.seq /\ jx.rec = ix.rec /\ jx.excl = ix.excl
    BY DEF SameShape, SamePlaces
  <1>2. Live(jx) = Live(ix)
    BY <1>1 DEF Live
  <1>3. Keeps(ix, jx, r)
    BY <1>1, <1>2 DEF Keeps
  <1>4. Held(ix, jx, r)
    BY <1>1, <1>2 DEF Held
  <1>5. Own(jx, r, w, t)
    <2>1. Shows(jx, r, w) \/ Shows(jx, r, t)
      BY <1>1 DEF Shows
    <2>2. jx.parent[jx.rec[r]] \in Live(jx) \cap jx.dir
      BY <1>1, <1>2 DEF Mixed
    <2>3. jx.rec[r] \in Live(jx) /\ jx.rec[r] \notin jx.del
      BY <1>1, <1>2, NotLive
    <2> QED
      BY <2>1, <2>2, <2>3 DEF Own
  <1> QED
    BY <1>3, <1>4, <1>5, MixedKept

\* What is told of a record whose node is gone, and makes none.
LEMMA ForgetsMixed ==
    ASSUME NEW ix \in IndexType, NEW jx \in IndexType,
           RecordTableSound(ix), RecordTableSound(jx),
           NEW v \in Layout, NEW s \in Layout, NEW w, NEW t, NEW r \in Rec, r # RootRec,
           Mixed(ix, v, s), Onward(v, s, w, t, r), Forgets(ix, jx, r),
           ix.rec[r] \notin Live(ix), ix.excl = {} => ~t[r].live
    PROVE  Mixed(jx, w, t) /\ jx.excl = ix.excl
  <1>1. /\ jx.n = ix.n /\ jx.parent = ix.parent /\ jx.name = ix.name /\ jx.dir = ix.dir
        /\ jx.del = ix.del /\ jx.seq = ix.seq /\ jx.excl = ix.excl
    <2> DEFINE kx == [ix EXCEPT !.rec = jx.rec]
    <2>1. kx.n = ix.n /\ kx.parent = ix.parent /\ kx.name = ix.name /\ kx.dir = ix.dir
          /\ kx.del = ix.del /\ kx.seq = ix.seq /\ kx.excl = ix.excl
      BY DEF IndexType
    <2>2. SameShape(kx, jx)
      BY DEF Forgets
    <2> HIDE DEF kx
    <2> QED
      BY <2>1, <2>2 DEF SameShape, SamePlaces
  <1>2. /\ \A q \in Rec : q # r => jx.rec[q] = ix.rec[q]
        /\ jx.rec[r] = ix.rec[r] \/ jx.rec[r] = NoNode
    BY DEF Forgets
  <1>3. Live(jx) = Live(ix)
    BY <1>1 DEF Live
  <1>4. Keeps(ix, jx, r)
    BY <1>1, <1>2, <1>3 DEF Keeps
  <1>5. Held(ix, jx, r)
    BY DEF Held, Mixed
  <1>6. Own(jx, r, w, t)
    <2>1. jx.rec[r] \notin Live(jx)
      BY <1>2, <1>3, NotLive
    <2>2. jx.rec[r] \in jx.del => jx.rec[r] \in jx.excl
      <3>1. jx.rec[r] \in jx.del => jx.rec[r] = ix.rec[r]
        BY <1>1, <1>2, NotLive
      <3> QED
        BY <1>1, <3>1 DEF Mixed
    <2> QED
      BY <1>1, <2>1, <2>2 DEF Own
  <1> QED
    BY <1>1, <1>4, <1>5, <1>6, MixedKept

\* A file that goes.
LEMMA RemovedMixed ==
    ASSUME NEW ix \in IndexType, NEW jx \in IndexType,
           RecordTableSound(ix), RecordTableSound(jx),
           NEW v \in Layout, NEW s \in Layout, NEW w \in Layout, NEW t,
           NEW r \in Rec, r # RootRec,
           Tree(s), Tree(w), Tree(v), v[r].live, ~w[r].live,
           Mixed(ix, v, s), Onward(v, s, w, t, r), Removed(ix, jx, r), ix.rec[r] \in Live(ix)
    PROVE  Mixed(jx, w, t)
  <1> DEFINE m == ix.rec[r]
  <1>1. /\ jx.n = ix.n /\ jx.parent = ix.parent /\ jx.name = ix.name /\ jx.dir = ix.dir
        /\ jx.seq = ix.seq /\ jx.excl = ix.excl /\ jx.del = ix.del \cup {m}
        /\ \A q \in Rec : q # r => jx.rec[q] = ix.rec[q]
        /\ jx.rec[r] = IF m \in ix.excl THEN m ELSE NoNode
    BY DEF Removed
  <1>2. Live(jx) = Live(ix) \ {m}
    BY <1>1 DEF Live
  <1>3. Keeps(ix, jx, r)
    BY <1>1, <1>2 DEF Keeps
  <1>4. Held(ix, jx, r)
    <2> SUFFICES ASSUME NEW q \in Rec, q # r, ix.rec[q] \in Live(ix), ix.parent[ix.rec[q]] = m
                 PROVE  FALSE
      BY DEF Held
    <2>1. Shows(ix, q, v) \/ Shows(ix, q, s)
      BY DEF Mixed
    <2>2. m # NoNode
      BY NotLive
    <2>3. ASSUME NEW u \in Layout, Shows(ix, q, u)
          PROVE  u[q].live /\ u[q].parent = r
      <3>1. ix.rec[u[q].parent] = m /\ u[q].live
        BY <2>3 DEF Shows
      <3>2. u[q].parent \in Rec
        BY DEF Layout, PlaceType
      <3> QED
        BY <2>2, <3>1, <3>2 DEF RecordTableSound
    <2>4. ASSUME NEW u \in Layout, Tree(u), u[q].live, u[q].parent = r
          PROVE  u[r].live
      BY <2>4 DEF Tree
    <2>5. CASE Shows(ix, q, v)
      <3>1. v[q].live /\ v[q].parent = r
        BY <2>3, <2>5
      <3>2. w[q] = v[q]
        BY DEF Onward
      <3> QED
        BY <2>4, <3>1, <3>2
    <2>6. CASE Shows(ix, q, s)
      <3>1. s[q].live /\ s[q].parent = r
        BY <2>3, <2>6
      <3>2. s[r].live
        BY <2>4, <3>1
      <3>3. CASE s = v /\ t = w
        <4>1. w[q] = s[q]
          BY <3>3 DEF Onward
        <4> QED
          BY <2>4, <3>1, <4>1
      <3>4. CASE ~s[r].live
        BY <3>2, <3>4
      <3> QED
        BY <3>3, <3>4 DEF Onward
    <2> QED
      BY <2>1, <2>5, <2>6
  <1>5. Own(jx, r, w, t)
    <2>1. jx.rec[r] \notin Live(jx)
      BY <1>1, <1>2, NotLive
    <2>2. jx.rec[r] \in jx.del => jx.rec[r] \in jx.excl
      BY <1>1, NotLive
    <2>3. ~t[r].live
      BY DEF Onward
    <2> QED
      BY <2>1, <2>2, <2>3 DEF Own
  <1> QED
    BY <1>3, <1>4, <1>5, MixedKept

\* A folder of the layout after the change has a live folder for a node, where
\* nothing is pruned or the node is not.
LEMMA FolderShown ==
    ASSUME NEW ix \in IndexType, RecordTableSound(ix),
           NEW v, NEW s, NEW w, NEW t, NEW r \in Rec,
           Mixed(ix, v, s), Onward(v, s, w, t, r), Tree(s),
           NEW p \in Rec, p # r, w[p].live, w[p].dir
    PROVE  /\ ix.excl = {} => ix.rec[p] \in Live(ix)
           /\ ix.rec[p] \in Live(ix) => ix.rec[p] \in ix.dir
  <1>1. w[p] = v[p]
    BY DEF Onward
  <1>2. s[p].live /\ s[p].dir
    BY <1>1 DEF Onward, Agree
  <1>3. ix.excl = {} => ix.rec[p] \in Live(ix)
    BY <1>2 DEF Mixed
  <1>4. ix.rec[p] \in Live(ix) => ix.rec[p] \in ix.dir
    BY <1>1, <1>2 DEF Mixed, Shows
  <1> QED
    BY <1>3, <1>4

\* A file that is moved.
LEMMA RehungMixed ==
    ASSUME NEW ix \in IndexType, NEW jx \in IndexType,
           RecordTableSound(ix), RecordTableSound(jx),
           NEW v \in Layout, NEW s \in Layout, NEW w \in Layout, NEW t,
           NEW r \in Rec, r # RootRec,
           Tree(s), Tree(w), InGuard(w), v[r].live, w[r].live,
           w[r].seq = v[r].seq, w[r].dir = v[r].dir,
           Mixed(ix, v, s), Onward(v, s, w, t, r), ix.rec[r] \in Live(ix), ix.excl = {},
           Rehung(ix, jx, ix.rec[r], ix.rec[w[r].parent], w[r].name)
    PROVE  Mixed(jx, w, t)
  <1> DEFINE m == ix.rec[r]
             p == ix.rec[w[r].parent]
  <1>1. /\ jx.n = ix.n /\ jx.dir = ix.dir /\ jx.del = ix.del /\ jx.excl = ix.excl
        /\ jx.seq = ix.seq /\ jx.rec = ix.rec
        /\ jx.parent[m] = p /\ jx.name[m] = w[r].name
        /\ \A x \in Node : x # m => jx.parent[x] = ix.parent[x] /\ jx.name[x] = ix.name[x]
    BY DEF Rehung
  <1>2. Live(jx) = Live(ix)
    BY <1>1 DEF Live
  <1>3. Keeps(ix, jx, r)
    BY <1>1, <1>2 DEF Keeps
  <1>4. Held(ix, jx, r)
    BY <1>1, <1>2 DEF Held
  <1>5. p \in Live(ix) /\ p \in ix.dir
    <2>1. w[r].parent \in Rec /\ w[r].parent # r
      BY NotInItself DEF Layout, PlaceType
    <2>2. w[w[r].parent].live /\ w[w[r].parent].dir
      BY DEF Tree
    <2> QED
      BY <2>1, <2>2, FolderShown
  <1>6. Own(jx, r, w, t)
    <2>1. Shows(ix, r, v) \/ Shows(ix, r, s)
      BY DEF Mixed
    <2>2. ix.seq[m] = w[r].seq
      BY SameFile
    <2>3. w[r].dir => m \in ix.dir
      BY <2>1 DEF Onward, Agree, Shows
    <2>4. Shows(jx, r, w)
      BY <1>1, <2>2, <2>3 DEF Shows
    <2>5. jx.rec[r] \notin jx.del
      BY <1>1, NotLive
    <2> QED
      BY <1>1, <1>2, <1>5, <2>4, <2>5 DEF Own
  <1> QED
    BY <1>3, <1>4, <1>6, MixedKept

\* A file that comes in.
LEMMA NewNodeMixed ==
    ASSUME NEW ix \in IndexType, NEW kx \in IndexType, NEW jx \in IndexType,
           RecordTableSound(ix), RecordTableSound(jx), FlagsSound(ix),
           NEW v \in Layout, NEW s \in Layout, NEW w \in Layout, NEW t,
           NEW r \in Rec, r # RootRec,
           Tree(s), Tree(w), InGuard(w), w[r].live,
           Mixed(ix, v, s), Onward(v, s, w, t, r), ix.rec[r] \notin Live(ix),
           Forgets(ix, kx, r), NEW isDir, w[r].dir => isDir,
           NewNode(kx, jx, r, w[r].seq, ix.rec[w[r].parent], w[r].name, isDir),
           ix.rec[w[r].parent] # NoNode, ix.rec[w[r].parent] \notin ix.excl
    PROVE  Mixed(jx, w, t) /\ jx.excl = ix.excl
  <1> DEFINE p == ix.rec[w[r].parent]
             m == ix.n
  <1>1. /\ kx.n = ix.n /\ kx.parent = ix.parent /\ kx.name = ix.name /\ kx.dir = ix.dir
        /\ kx.del = ix.del /\ kx.seq = ix.seq /\ kx.excl = ix.excl
    <2> DEFINE lx == [ix EXCEPT !.rec = kx.rec]
    <2>1. lx.n = ix.n /\ lx.parent = ix.parent /\ lx.name = ix.name /\ lx.dir = ix.dir
          /\ lx.del = ix.del /\ lx.seq = ix.seq /\ lx.excl = ix.excl
      BY DEF IndexType
    <2>2. SameShape(lx, kx)
      BY DEF Forgets
    <2> HIDE DEF lx
    <2> QED
      BY <2>1, <2>2 DEF SameShape, SamePlaces
  <1>2. \A q \in Rec : q # r => kx.rec[q] = ix.rec[q]
    BY DEF Forgets
  <1>3. /\ jx.n = m + 1 /\ m \in Node /\ jx.excl = ix.excl /\ jx.del = ix.del
        /\ jx.dir = IF isDir THEN ix.dir \cup {m} ELSE ix.dir
        /\ jx.rec[r] = m /\ \A q \in Rec : q # r => jx.rec[q] = ix.rec[q]
        /\ jx.parent[m] = p /\ jx.name[m] = w[r].name /\ jx.seq[m] = w[r].seq
        /\ \A x \in Node : x # m =>
             jx.parent[x] = ix.parent[x] /\ jx.name[x] = ix.name[x] /\ jx.seq[x] = ix.seq[x]
    BY <1>1, <1>2 DEF NewNode
  <1>4. m \notin Live(ix) /\ m \notin ix.del /\ Live(jx) = Live(ix) \cup {m}
    <2>1. ix.n \in Nat /\ ix.del \subseteq 0 .. ix.n - 1
      BY LiveNodes DEF FlagsSound
    <2> QED
      BY <1>3, <2>1 DEF Live
  <1>5. Keeps(ix, jx, r)
    BY <1>3, <1>4 DEF Keeps
  <1>6. Held(ix, jx, r)
    BY DEF Held, Mixed
  <1>7. w[r].parent \in Rec /\ w[r].parent # r /\ w[w[r].parent].live /\ w[w[r].parent].dir
    BY NotInItself DEF Layout, PlaceType, Tree
  <1>8. p \in Live(ix) /\ p \in ix.dir
    <2>1. p \in Live(ix)
      <3>1. p \notin ix.del
        BY <1>7 DEF Mixed
      <3> QED
        BY <1>7, <3>1, NotLive
    <2> QED
      BY <1>7, <2>1, FolderShown
  <1>9. Own(jx, r, w, t)
    <2>1. Shows(jx, r, w)
      BY <1>3, <1>7 DEF Shows
    <2>2. jx.rec[r] \in Live(jx) /\ jx.rec[r] \notin jx.del
      BY <1>3, <1>4
    <2>3. jx.parent[jx.rec[r]] \in Live(jx) \cap jx.dir
      BY <1>3, <1>4, <1>8
    <2> QED
      BY <2>1, <2>2, <2>3 DEF Own
  <1> QED
    BY <1>3, <1>5, <1>6, <1>9, MixedKept

\* What is told of a record x in the layout v makes of it w.  x is a journal
\* record, a folded one, or a change.
Says(x, f) == x.seq = f.seq /\ x.parent = f.parent /\ x.name = f.name /\ (f.dir => x.dir)

Others(v, w, x) == x.rec # RootRec /\ \A q \in Rec : q # x.rec => w[q] = v[q]

Made(v, w, x) ==
    /\ Others(v, w, x) /\ w[x.rec].live /\ Says(x, w[x.rec])
    /\ ~v[x.rec].live \/ v[x.rec] = w[x.rec]

Gone(v, w, x) ==
    /\ Others(v, w, x) /\ v[x.rec].live /\ Says(x, v[x.rec])
    /\ ~w[x.rec].live /\ w[x.rec].seq = v[x.rec].seq

Moved(v, w, x) ==
    /\ Others(v, w, x) /\ v[x.rec].live /\ w[x.rec].live /\ Says(x, w[x.rec])
    /\ w[x.rec].seq = v[x.rec].seq /\ w[x.rec].dir = v[x.rec].dir

Stays(v, w, x) == x.rec # RootRec /\ v = w /\ v[x.rec].live /\ Says(x, v[x.rec])

ChangeTells(v, w, x) ==
    IF x.kind = "deleted" THEN Gone(v, w, x)
    ELSE IF x.kind = "created" THEN Made(v, w, x)
    ELSE IF x.kind = "renamed" THEN Moved(v, w, x)
    ELSE Stays(v, w, x)

\* The index shows v and s, a change is told that makes w of v: this is what
\* applying it rests on.
ToApply(ix, c, v, s, w, t) ==
    /\ RecordTableSound(ix) /\ FlagsSound(ix) /\ ix.n < MaxNodes
    /\ Tree(v) /\ Tree(s) /\ Tree(w) /\ InGuard(w)
    /\ Mixed(ix, v, s) /\ Onward(v, s, w, t, c.rec)

LEMMA ApplyMade ==
    ASSUME NEW ix \in IndexType, NEW c \in AnyChange,
           NEW v \in Layout, NEW s \in Layout, NEW w \in Layout, NEW t,
           ToApply(ix, c, v, s, w, t), Made(v, w, c)
    PROVE  Mixed(ApplyCreate(ix, c), w, t) /\ ApplyCreate(ix, c).excl = ix.excl
  <1> DEFINE r == c.rec
             kx == Resolved(ix, r, c.seq)
             m  == Found(ix, r, c.seq)
             jx == ApplyCreate(ix, c)
  <1>1. /\ r \in Rec /\ c.seq \in Nat /\ c.parent \in Rec /\ c.name \in Name
        /\ c.dir \in BOOLEAN /\ c.size \in Nat
    BY DEF AnyChange
  <1>2. /\ r # RootRec /\ w[r].live /\ c.seq = w[r].seq /\ c.parent = w[r].parent
        /\ c.name = w[r].name /\ (w[r].dir => c.dir) /\ (~v[r].live \/ v[r] = w[r])
    BY DEF Made, Others, Says
  <1>3. /\ RecordTableSound(ix) /\ FlagsSound(ix) /\ ix.n < MaxNodes
        /\ Tree(v) /\ Tree(s) /\ Tree(w) /\ InGuard(w)
        /\ Mixed(ix, v, s) /\ Onward(v, s, w, t, r)
    BY DEF ToApply
  <1>4. jx \in IndexType /\ RecordTableSound(jx)
    BY <1>3, CreateGood DEF Good
  <1>5. CASE ix.rec[r] \in Live(ix)
    <2>1. ix.seq[ix.rec[r]] = c.seq
      BY <1>1, <1>2, <1>3, <1>5, SameFile
    <2>2. ix.rec[r] # NoNode /\ ix.rec[r] \notin ix.del
      BY <1>1, <1>3, <1>5, NotLive
    <2>3. NodeOfRecord(ix, r) = ix.rec[r] /\ Matches(ix, r, c.seq)
      BY <1>1, <2>1, <2>2 DEF NodeOfRecord, Matches
    <2>4. kx = ix /\ m = ix.rec[r]
      BY <2>2, <2>3 DEF Resolved, Found
    <2>5. jx = ApplyResize(ix, c)
      BY <2>2, <2>4 DEF ApplyCreate
    <2>6. SameShape(ix, jx)
      BY <2>3, <2>5, ResizeStays
    <2>7. Shows(ix, r, w) \/ Shows(ix, r, t)
      <3>1. Shows(ix, r, v) \/ Shows(ix, r, s)
        BY <1>1, <1>3, <1>5 DEF Mixed
      <3>2. Shows(ix, r, v) => Shows(ix, r, w)
        BY <1>2 DEF Shows
      <3>3. s = v \/ t = s
        BY <1>3 DEF Onward
      <3> QED
        BY <3>1, <3>2, <3>3
    <2>8. Mixed(jx, w, t)
      BY <1>1, <1>2, <1>3, <1>4, <1>5, <2>6, <2>7, SameMixed
    <2> QED
      BY <2>6, <2>8 DEF SameShape
  <1>6. CASE ix.rec[r] \notin Live(ix)
    <2>1. ix.rec[r] = NoNode \/ ix.rec[r] \in ix.del
      BY <1>1, <1>3, <1>6, NotLive
    <2>2. Forgets(ix, kx, r) /\ kx \in IndexType /\ (m = NoNode \/ m \in ix.del)
      BY <1>1, <2>1, ResolvedForgets
    <2>3. kx.del = ix.del /\ kx.excl = ix.excl /\ kx.n = ix.n
      <3> DEFINE lx == [ix EXCEPT !.rec = kx.rec]
      <3>1. lx.del = ix.del /\ lx.excl = ix.excl /\ lx.n = ix.n
        BY DEF IndexType
      <3>2. SameShape(lx, kx)
        BY <2>2 DEF Forgets
      <3> HIDE DEF lx, kx
      <3> QED
        BY <3>1, <3>2 DEF SameShape, SamePlaces
    <2>4. w[r].parent \in Rec /\ w[r].parent # r /\ w[w[r].parent].live /\ w[w[r].parent].dir
      BY <1>1, <1>2, <1>3, NotInItself DEF Layout, PlaceType, Tree
    <2> DEFINE p == ix.rec[w[r].parent]
    <2>5. NodeOfRecord(kx, c.parent) = p
      BY <1>1, <1>2, <2>2, <2>4 DEF NodeOfRecord, Forgets
    <2>6. jx = IF p = NoNode THEN kx
               ELSE IF p \in ix.excl THEN kx
               ELSE AppendNode(kx, r, c.seq, p, c.name, c.dir, c.size)
      BY <2>2, <2>3, <2>5 DEF ApplyCreate
    <2>7. CASE p = NoNode \/ p \in ix.excl
      <3>1. jx = kx
        BY <2>6, <2>7
      <3>2. ix.excl # {}
        <4> SUFFICES ASSUME ix.excl = {} PROVE FALSE
          OBVIOUS
        <4>1. p \in Live(ix)
          BY <1>1, <1>3, <2>4, FolderShown
        <4> QED
          BY <1>3, <2>4, <2>7, <4>1, NotLive
      <3> QED
        BY <1>1, <1>2, <1>3, <1>4, <1>6, <2>2, <3>1, <3>2, ForgetsMixed
    <2>8. CASE p # NoNode /\ p \notin ix.excl
      <3>1. jx = AppendNode(kx, r, c.seq, p, c.name, c.dir, c.size)
        BY <2>6, <2>8
      <3>2. p \in Node
        BY <2>4, <2>8 DEF IndexType
      <3> HIDE DEF kx, jx, m, p
      <3>3. NewNode(kx, jx, r, c.seq, p, c.name, c.dir)
        BY <1>1, <1>3, <2>2, <2>3, <3>1, <3>2, AppendHangs
      <3>4. NewNode(kx, jx, r, w[r].seq, ix.rec[w[r].parent], w[r].name, c.dir)
        BY <1>2, <3>3 DEF p
      <3>5. ix.rec[w[r].parent] # NoNode /\ ix.rec[w[r].parent] \notin ix.excl
        BY <2>8 DEF p
      <3>6. Mixed(jx, w, t) /\ jx.excl = ix.excl
        BY <1>1, <1>2, <1>3, <1>4, <1>6, <2>2, <3>4, <3>5, NewNodeMixed
      <3> QED
        BY <3>6 DEF jx
    <2> QED
      BY <2>7, <2>8
  <1> QED
    BY <1>5, <1>6

\* What is told of a record whose node is gone, other than its creation.
LEMMA ApplyToNone ==
    ASSUME NEW ix \in IndexType, NEW jx \in IndexType, RecordTableSound(jx), NEW c \in AnyChange,
           NEW v \in Layout, NEW s \in Layout, NEW w \in Layout, NEW t,
           ToApply(ix, c, v, s, w, t), c.rec # RootRec, ix.rec[c.rec] \notin Live(ix),
           jx = Resolved(ix, c.rec, c.seq), t[c.rec].live => s[c.rec].live
    PROVE  Mixed(jx, w, t) /\ jx.excl = ix.excl
  <1> DEFINE r == c.rec
  <1>1. r \in Rec /\ c.seq \in Nat
    BY DEF AnyChange
  <1>2. /\ RecordTableSound(ix) /\ Mixed(ix, v, s) /\ Onward(v, s, w, t, r)
    BY DEF ToApply
  <1>3. ix.rec[r] = NoNode \/ ix.rec[r] \in ix.del
    BY <1>1, <1>2, NotLive
  <1>4. Forgets(ix, jx, r)
    BY <1>1, <1>3, ResolvedForgets
  <1>5. ix.excl = {} => ~t[r].live
    BY <1>1, <1>2 DEF Mixed
  <1> QED
    BY <1>1, <1>2, <1>4, <1>5, ForgetsMixed

\* What is told of a record whose node is live is told of that node.
LEMMA LiveFound ==
    ASSUME NEW ix \in IndexType, NEW c \in AnyChange,
           NEW v \in Layout, NEW s \in Layout, NEW w \in Layout, NEW t,
           ToApply(ix, c, v, s, w, t), v[c.rec].live, v[c.rec].seq = c.seq,
           ix.rec[c.rec] \in Live(ix)
    PROVE  Matches(ix, c.rec, c.seq) /\ ix.rec[c.rec] \notin ix.del
  <1>1. c.rec \in Rec
    BY DEF AnyChange
  <1>2. ix.seq[ix.rec[c.rec]] = c.seq
    BY <1>1, SameFile DEF ToApply
  <1> QED
    BY <1>1, <1>2, NotLive DEF ToApply, Matches, NodeOfRecord

LEMMA ApplyGone ==
    ASSUME NEW ix \in IndexType, NEW c \in AnyChange,
           NEW v \in Layout, NEW s \in Layout, NEW w \in Layout, NEW t,
           ToApply(ix, c, v, s, w, t), Gone(v, w, c)
    PROVE  Mixed(ApplyDelete(ix, c), w, t) /\ ApplyDelete(ix, c).excl = ix.excl
  <1> DEFINE r == c.rec
             jx == ApplyDelete(ix, c)
  <1>1. r \in Rec /\ c.seq \in Nat
    BY DEF AnyChange
  <1>2. /\ r # RootRec /\ v[r].live /\ ~w[r].live /\ c.seq = v[r].seq
    BY DEF Gone, Others, Says
  <1>3. /\ RecordTableSound(ix) /\ Tree(v) /\ Tree(s) /\ Tree(w)
        /\ Mixed(ix, v, s) /\ Onward(v, s, w, t, r)
    BY DEF ToApply
  <1>4. jx \in IndexType /\ RecordTableSound(jx)
    BY <1>3, DeleteGood DEF Good
  <1>5. CASE ix.rec[r] \in Live(ix)
    <2>1. Matches(ix, r, c.seq) /\ ix.rec[r] \notin ix.del
      BY <1>2, <1>5, LiveFound
    <2>2. Removed(ix, jx, r)
      BY <2>1, DeleteRemoves
    <2>3. Mixed(jx, w, t)
      BY <1>1, <1>2, <1>3, <1>4, <1>5, <2>2, RemovedMixed
    <2> QED
      BY <2>2, <2>3 DEF Removed
  <1>6. CASE ix.rec[r] \notin Live(ix)
    <2>1. ix.rec[r] = NoNode \/ ix.rec[r] \in ix.del
      BY <1>1, <1>3, <1>6, NotLive
    <2> DEFINE kx == Resolved(ix, r, c.seq)
    <2>2. Forgets(ix, kx, r) /\ (Found(ix, r, c.seq) = NoNode \/ Found(ix, r, c.seq) \in ix.del)
      BY <1>1, <2>1, ResolvedForgets
    <2>3. kx.del = ix.del
      <3> DEFINE lx == [ix EXCEPT !.rec = kx.rec]
      <3>1. lx.del = ix.del
        BY DEF IndexType
      <3>2. SameShape(lx, kx)
        BY <2>2 DEF Forgets
      <3> HIDE DEF lx, kx
      <3> QED
        BY <3>1, <3>2 DEF SameShape, SamePlaces
    <2>4. jx = kx
      BY <2>2, <2>3 DEF ApplyDelete
    <2>5. t[r].live => s[r].live
      BY <1>2, <1>3 DEF Onward
    <2> QED
      BY <1>2, <1>4, <1>6, <2>4, <2>5, ApplyToNone
  <1> QED
    BY <1>5, <1>6

LEMMA ApplyMoved ==
    ASSUME NEW ix \in IndexType, NEW c \in AnyChange,
           NEW v \in Layout, NEW s \in Layout, NEW w \in Layout, NEW t,
           ToApply(ix, c, v, s, w, t), Moved(v, w, c), ix.excl = {}
    PROVE  Mixed(ApplyRename(ix, c), w, t) /\ ApplyRename(ix, c).excl = ix.excl
  <1> DEFINE r == c.rec
             jx == ApplyRename(ix, c)
  <1>1. r \in Rec /\ c.seq \in Nat /\ c.parent \in Rec
    BY DEF AnyChange
  <1>2. /\ r # RootRec /\ v[r].live /\ w[r].live /\ c.seq = v[r].seq
        /\ w[r].seq = v[r].seq /\ w[r].dir = v[r].dir /\ c.parent = w[r].parent
        /\ c.name = w[r].name
    BY DEF Moved, Others, Says
  <1>3. /\ RecordTableSound(ix) /\ Tree(v) /\ Tree(s) /\ Tree(w) /\ InGuard(w)
        /\ Mixed(ix, v, s) /\ Onward(v, s, w, t, r)
    BY DEF ToApply
  <1>4. jx \in IndexType /\ RecordTableSound(jx)
    BY <1>3, RenameGood DEF Good
  <1>5. CASE ix.rec[r] \in Live(ix)
    <2>1. Matches(ix, r, c.seq) /\ ix.rec[r] \notin ix.del
      BY <1>2, <1>5, LiveFound
    <2>2. w[r].parent \in Rec /\ w[r].parent # r /\ w[w[r].parent].live /\ w[w[r].parent].dir
      BY <1>1, <1>2, <1>3, NotInItself DEF Layout, PlaceType, Tree
    <2>3. ix.rec[w[r].parent] \in Live(ix)
      BY <1>1, <1>3, <2>2, FolderShown
    <2>4. NodeOfRecord(ix, c.parent) # NoNode
      BY <1>2, <1>3, <2>2, <2>3, NotLive DEF NodeOfRecord
    <2>5. Rehung(ix, jx, ix.rec[r], ix.rec[w[r].parent], w[r].name)
      BY <1>2, <2>1, <2>4, RenameHangs
    <2>6. Mixed(jx, w, t)
      BY <1>1, <1>2, <1>3, <1>4, <1>5, <2>5, RehungMixed
    <2> QED
      BY <2>5, <2>6 DEF Rehung
  <1>6. CASE ix.rec[r] \notin Live(ix)
    <2>1. ix.rec[r] = NoNode \/ ix.rec[r] \in ix.del
      BY <1>1, <1>3, <1>6, NotLive
    <2> DEFINE kx == Resolved(ix, r, c.seq)
    <2>2. Forgets(ix, kx, r) /\ (Found(ix, r, c.seq) = NoNode \/ Found(ix, r, c.seq) \in ix.del)
      BY <1>1, <2>1, ResolvedForgets
    <2>3. kx.del = ix.del
      <3> DEFINE lx == [ix EXCEPT !.rec = kx.rec]
      <3>1. lx.del = ix.del
        BY DEF IndexType
      <3>2. SameShape(lx, kx)
        BY <2>2 DEF Forgets
      <3> HIDE DEF lx, kx
      <3> QED
        BY <3>1, <3>2 DEF SameShape, SamePlaces
    <2>4. jx = kx
      BY <2>2, <2>3 DEF ApplyRename
    <2>5. ~s[r].live
      BY <1>1, <1>3, <1>6 DEF Mixed
    <2>6. t[r].live => s[r].live
      BY <1>2, <1>3, <2>5 DEF Onward
    <2> QED
      BY <1>2, <1>4, <1>6, <2>4, <2>6, ApplyToNone
  <1> QED
    BY <1>5, <1>6

LEMMA ApplyStays ==
    ASSUME NEW ix \in IndexType, NEW c \in AnyChange,
           NEW v \in Layout, NEW s \in Layout, NEW w \in Layout, NEW t,
           ToApply(ix, c, v, s, w, t), Stays(v, w, c)
    PROVE  Mixed(ApplyResize(ix, c), w, t) /\ ApplyResize(ix, c).excl = ix.excl
  <1> DEFINE r == c.rec
             jx == ApplyResize(ix, c)
  <1>1. r \in Rec /\ c.seq \in Nat
    BY DEF AnyChange
  <1>2. /\ r # RootRec /\ v[r].live /\ w = v /\ c.seq = v[r].seq
    BY DEF Stays, Says
  <1>3. /\ RecordTableSound(ix) /\ Mixed(ix, v, s) /\ Onward(v, s, w, t, r)
    BY DEF ToApply
  <1>4. jx \in IndexType /\ RecordTableSound(jx)
    BY <1>3, ResizeGood DEF Good
  <1>5. t = s
    BY <1>2, <1>3 DEF Onward
  <1>6. CASE ix.rec[r] \in Live(ix)
    <2>1. Matches(ix, r, c.seq) /\ ix.rec[r] \notin ix.del
      BY <1>2, <1>6, LiveFound
    <2>2. SameShape(ix, jx)
      BY <2>1, ResizeStays
    <2>3. Shows(ix, r, w) \/ Shows(ix, r, t)
      BY <1>1, <1>2, <1>3, <1>5, <1>6 DEF Mixed
    <2>4. Mixed(jx, w, t)
      BY <1>1, <1>2, <1>3, <1>4, <1>6, <2>2, <2>3, SameMixed
    <2> QED
      BY <2>2, <2>4 DEF SameShape
  <1>7. CASE ix.rec[r] \notin Live(ix)
    <2>1. ix.rec[r] = NoNode \/ ix.rec[r] \in ix.del
      BY <1>1, <1>3, <1>7, NotLive
    <2> DEFINE kx == Resolved(ix, r, c.seq)
    <2>2. Forgets(ix, kx, r) /\ (Found(ix, r, c.seq) = NoNode \/ Found(ix, r, c.seq) \in ix.del)
      BY <1>1, <2>1, ResolvedForgets
    <2>3. kx.del = ix.del
      <3> DEFINE lx == [ix EXCEPT !.rec = kx.rec]
      <3>1. lx.del = ix.del
        BY DEF IndexType
      <3>2. SameShape(lx, kx)
        BY <2>2 DEF Forgets
      <3> HIDE DEF lx, kx
      <3> QED
        BY <3>1, <3>2 DEF SameShape, SamePlaces
    <2>4. jx = kx
      BY <2>2, <2>3 DEF ApplyResize
    <2> QED
      BY <1>2, <1>4, <1>5, <1>7, <2>4, ApplyToNone
  <1> QED
    BY <1>6, <1>7

\* Whatever the change, the index shows the layouts after it.
LEMMA ApplyMixed ==
    ASSUME NEW ix \in IndexType, NEW c \in AnyChange,
           NEW v \in Layout, NEW s \in Layout, NEW w \in Layout, NEW t,
           ToApply(ix, c, v, s, w, t), ChangeTells(v, w, c), c.kind = "renamed" => ix.excl = {}
    PROVE  Mixed(Apply(ix, c), w, t) /\ Apply(ix, c).excl = ix.excl
  <1>1. c.kind \in {"created", "deleted", "resized", "renamed"}
    BY DEF AnyChange
  <1>2. CASE c.kind = "created"
    BY <1>2, ApplyMade DEF Apply, ChangeTells
  <1>3. CASE c.kind = "deleted"
    BY <1>3, ApplyGone DEF Apply, ChangeTells
  <1>4. CASE c.kind = "resized"
    BY <1>4, ApplyStays DEF Apply, ChangeTells
  <1>5. CASE c.kind = "renamed"
    BY <1>5, ApplyMoved DEF Apply, ChangeTells
  <1> QED
    BY <1>1, <1>2, <1>3, <1>4, <1>5

------------------------------------------------------------------------------
\* What the volume writes tells of what it does, and the volume stays a tree.

RecordTells(v, w, x) ==
    IF "delete" \in x.reasons THEN x.reasons = {"delete"} /\ Gone(v, w, x)
    ELSE IF "create" \in x.reasons THEN "newName" \notin x.reasons /\ Made(v, w, x)
    ELSE IF "newName" \in x.reasons THEN Moved(v, w, x)
    ELSE Stays(v, w, x)

LEMMA TellsOfOne ==
    ASSUME NEW v, NEW w, NEW x, RecordTells(v, w, x)
    PROVE  x.rec # RootRec /\ \A q \in Rec : q # x.rec => w[q] = v[q]
  BY DEF RecordTells, Gone, Made, Moved, Stays, Others

\* A file put somewhere, or taken away, leaves a tree.
LEMMA TreePut ==
    ASSUME NEW v \in Layout, Tree(v), NEW w \in Layout, NEW r \in Rec, r # RootRec,
           \A q \in Rec : q # r => w[q] = v[q],
           w[r].live, w[r].seq > 0, w[r].parent # r, v[w[r].parent].live, v[w[r].parent].dir,
           v[r].live => w[r].dir = v[r].dir,
           \A q \in Rec \ {RootRec} : v[q].live /\ v[q].parent = w[r].parent
               => v[q].name # w[r].name
    PROVE  Tree(w)
  <1>0. RootRec \in Rec /\ \A q \in Rec : v[q].parent \in Rec /\ w[q].parent \in Rec
    BY IndexAssumption DEF Layout, PlaceType
  <1>1. w[RootRec].live /\ w[RootRec].dir /\ w[RootRec].parent = RootRec
    BY <1>0 DEF Tree
  <1>2. \A q \in Rec : w[q].live => w[q].seq > 0
    BY DEF Tree
  <1>3. ASSUME NEW q \in Rec \ {RootRec}, w[q].live
        PROVE  w[w[q].parent].live /\ w[w[q].parent].dir
    <2>1. CASE q = r
      BY <1>0, <2>1
    <2>2. CASE q # r
      <3>1. w[q] = v[q] /\ v[v[q].parent].live /\ v[v[q].parent].dir
        BY <1>3, <2>2 DEF Tree
      <3> QED
        BY <1>0, <3>1
    <2> QED
      BY <2>1, <2>2
  <1>4. ASSUME NEW q \in Rec \ {RootRec}, w[q].live, NEW o \in Rec \ {RootRec, q},
               w[o].live, w[o].parent = w[q].parent
        PROVE  w[o].name # w[q].name
    <2>1. CASE q = r
      BY <1>4, <2>1
    <2>2. CASE o = r
      BY <1>4, <2>2
    <2>3. CASE q # r /\ o # r
      BY <1>4, <2>3 DEF Tree
    <2> QED
      BY <2>1, <2>2, <2>3
  <1> QED
    BY <1>1, <1>2, <1>3, <1>4 DEF Tree

LEMMA TreeDrop ==
    ASSUME NEW v \in Layout, Tree(v), NEW w \in Layout, NEW r \in Rec, r # RootRec,
           \A q \in Rec : q # r => w[q] = v[q], ~w[r].live,
           \A q \in Rec : q # r /\ v[q].live => v[q].parent # r
    PROVE  Tree(w)
  <1>0. RootRec \in Rec /\ \A q \in Rec : v[q].parent \in Rec
    BY IndexAssumption DEF Layout, PlaceType
  <1>1. w[RootRec].live /\ w[RootRec].dir /\ w[RootRec].parent = RootRec
    BY <1>0 DEF Tree
  <1>2. \A q \in Rec : w[q].live => w[q].seq > 0
    BY DEF Tree
  <1>3. ASSUME NEW q \in Rec \ {RootRec}, w[q].live
        PROVE  /\ w[w[q].parent].live /\ w[w[q].parent].dir
               /\ \A o \in Rec \ {RootRec, q} :
                    w[o].live /\ w[o].parent = w[q].parent => w[o].name # w[q].name
    <2>1. q # r /\ w[q] = v[q]
      BY <1>3
    <2>2. v[q].parent \in Rec /\ v[q].parent # r /\ v[v[q].parent].live /\ v[v[q].parent].dir
      BY <1>0, <1>3, <2>1 DEF Tree
    <2>3. ASSUME NEW o \in Rec \ {RootRec, q}, w[o].live, w[o].parent = w[q].parent
          PROVE  w[o].name # w[q].name
      <3>1. o # r /\ w[o] = v[o]
        BY <2>3
      <3> QED
        BY <1>3, <2>1, <2>3, <3>1 DEF Tree
    <2> QED
      BY <2>1, <2>2, <2>3
  <1> QED
    BY <1>1, <1>2, <1>3 DEF Tree

LEMMA TreeMounted ==
    ASSUME NEW vol, Mountable(vol)
    PROVE  vol \in [Rec -> FileRecord] /\ Tree(Places(vol))
  <1>1. vol \in [Rec -> FileRecord]
    BY DEF Mountable
  <1>2. \A r \in Rec : /\ Places(vol)[r].live = vol[r].live
                       /\ Places(vol)[r].seq = vol[r].seq
                       /\ Places(vol)[r].parent = vol[r].parent
                       /\ Places(vol)[r].name = vol[r].name
                       /\ Places(vol)[r].dir = vol[r].dir
                       /\ vol[r].parent \in Rec
    BY <1>1, PlacesIs
  <1>3. RootRec \in Rec
    BY IndexAssumption
  <1>4. /\ vol[RootRec].live /\ vol[RootRec].dir /\ vol[RootRec].parent = RootRec
        /\ \A r \in Rec : vol[r].live => vol[r].seq > 0
        /\ \A r \in Rec \ {RootRec} : vol[r].live =>
             /\ vol[vol[r].parent].live /\ vol[vol[r].parent].dir
             /\ \A q \in Rec \ {RootRec, r} :
                  vol[q].live /\ vol[q].parent = vol[r].parent => vol[q].name # vol[r].name
    BY DEF Mountable
  <1> DEFINE v == Places(vol)
  <1>5. v[RootRec].live /\ v[RootRec].dir /\ v[RootRec].parent = RootRec
    BY <1>2, <1>3, <1>4
  <1>6. \A r \in Rec : v[r].live => v[r].seq > 0
    BY <1>2, <1>4
  <1>7. ASSUME NEW r \in Rec \ {RootRec}, v[r].live
        PROVE  /\ v[v[r].parent].live /\ v[v[r].parent].dir
               /\ \A q \in Rec \ {RootRec, r} :
                    v[q].live /\ v[q].parent = v[r].parent => v[q].name # v[r].name
    <2>1. vol[r].live
      BY <1>2, <1>7
    <2>2. v[v[r].parent].live /\ v[v[r].parent].dir
      BY <1>2, <1>4, <2>1
    <2>3. \A q \in Rec \ {RootRec, r} :
            v[q].live /\ v[q].parent = v[r].parent => v[q].name # v[r].name
      <3> HIDE DEF v
      <3> SUFFICES ASSUME NEW q \in Rec \ {RootRec, r}, v[q].live, v[q].parent = v[r].parent
                   PROVE  v[q].name # v[r].name
        OBVIOUS
      <3> USE DEF v
      <3>1. vol[q].live /\ vol[q].parent = vol[r].parent
        BY <1>2
      <3>2. vol[q].name # vol[r].name
        BY <1>4, <2>1, <3>1
      <3> QED
        BY <1>2, <3>2
    <2> QED
      BY <2>2, <2>3
  <1> HIDE DEF v
  <1>8. Tree(v)
    BY <1>5, <1>6, <1>7 DEF Tree
  <1> QED
    BY <1>1, <1>8 DEF v
-----------------------------------------------------------------------------
\* What the steps of the volume write tells of what they do.
LEMMA RecordFields ==
    ASSUME NEW r, NEW as, NEW reasons
    PROVE  /\ Record(r, as, reasons).rec = r /\ Record(r, as, reasons).seq = as.seq
           /\ Record(r, as, reasons).parent = as.parent /\ Record(r, as, reasons).name = as.name
           /\ Record(r, as, reasons).dir = as.dir /\ Record(r, as, reasons).reasons = reasons
  BY DEF Record

LEMMA CreateTells ==
    ASSUME VolumeTypes, VolumeTypes', Tree(Places(mft)),
           NEW r \in Rec, NEW p \in Rec, NEW nm \in Name, NEW isDir \in BOOLEAN,
           Create(r, p, nm, isDir)
    PROVE  /\ ~mft[r].live
           /\ RecordTells(Places(mft), Places(mft'), Record(r, mft'[r], {"create"}))
           /\ Tree(Places(mft'))
  <1> DEFINE v == Places(mft)
             w == Places(mft')
             x == Record(r, mft'[r], {"create"})
             to == [live |-> TRUE, seq |-> mft[r].seq + 1, parent |-> p,
                    name |-> nm, dir |-> isDir, size |-> 0]
  <1>1. mft \in [Rec -> FileRecord] /\ mft' \in [Rec -> FileRecord]
    BY DEF VolumeTypes
  <1>2. /\ v \in Layout /\ w \in Layout
        /\ \A q \in Rec : /\ v[q] = Place(mft[q]) /\ w[q] = Place(mft'[q])
                          /\ v[q].live = mft[q].live /\ v[q].seq = mft[q].seq
                          /\ v[q].parent = mft[q].parent /\ v[q].name = mft[q].name
                          /\ v[q].dir = mft[q].dir
                          /\ w[q].live = mft'[q].live /\ w[q].seq = mft'[q].seq
                          /\ w[q].parent = mft'[q].parent /\ w[q].name = mft'[q].name
                          /\ w[q].dir = mft'[q].dir
    BY <1>1, PlacesIs
  <1>3. /\ ~mft[r].live /\ mft[p].live /\ mft[p].dir /\ FreeName(p, nm)
        /\ mft' = [mft EXCEPT ![r] = to]
    BY DEF Create, LiveDir
  <1>4. mft'[r] = to /\ \A q \in Rec : q # r => mft'[q] = mft[q]
    BY <1>1, <1>3
  <1>5. r # RootRec /\ p # r /\ \A q \in Rec : q # r => w[q] = v[q]
    <2>1. mft[RootRec].live
      BY <1>2, IndexAssumption DEF Tree
    <2>2. \A q \in Rec : q # r => w[q] = v[q]
      BY <1>2, <1>4
    <2> QED
      BY <1>3, <2>1, <2>2
  <1>6. mft[r].seq \in Nat
    BY <1>1 DEF FileRecord
  <1>7. w[r].live /\ w[r].seq = mft[r].seq + 1 /\ w[r].parent = p /\ w[r].name = nm
    BY <1>2, <1>4
  <1>8. x.rec = r /\ x.reasons = {"create"} /\ Says(x, w[r])
    BY <1>2, RecordFields DEF Says
  <1> HIDE DEF x, v, w
  <1>9. Tree(w)
    <2>1. w[r].seq > 0
      BY <1>6, <1>7
    <2>4. ~v[r].live /\ v[p].live /\ v[p].dir
      BY <1>2, <1>3
    <2>2. \A q \in Rec \ {RootRec} : v[q].live /\ v[q].parent = p => v[q].name # nm
      BY <1>2, <1>3 DEF FreeName
    <2>3. Tree(v)
      BY DEF v
    <2> QED
      BY <1>2, <1>5, <1>7, <2>1, <2>2, <2>3, <2>4, TreePut
  <1>10. Made(v, w, x)
    BY <1>2, <1>3, <1>5, <1>7, <1>8 DEF Made, Others
  <1>11. RecordTells(v, w, x)
    BY <1>8, <1>10 DEF RecordTells
  <1> QED
    BY <1>3, <1>9, <1>11 DEF v, w, x

LEMMA RenameTells ==
    ASSUME VolumeTypes, VolumeTypes', Tree(Places(mft)),
           NEW r \in Rec, NEW p \in Rec, NEW nm \in Name, Rename(r, p, nm)
    PROVE  /\ mft[r].live /\ mft'[r].live /\ mft'[r].seq = mft[r].seq /\ mft'[r].dir = mft[r].dir
           /\ Tree(Places(mft'))
           /\ open[r] = {} =>
                /\ RecordTells(Places(mft), Places(mft), Record(r, mft[r], open[r] \cup {"oldName"}))
                /\ RecordTells(Places(mft), Places(mft'), Record(r, mft'[r], open'[r]))
  <1> DEFINE v == Places(mft)
             w == Places(mft')
             x == Record(r, mft[r], open[r] \cup {"oldName"})
             y == Record(r, mft'[r], open'[r])
  <1>1. mft \in [Rec -> FileRecord] /\ mft' \in [Rec -> FileRecord]
    BY DEF VolumeTypes
  <1>2. /\ v \in Layout /\ w \in Layout
        /\ \A q \in Rec : /\ v[q] = Place(mft[q]) /\ w[q] = Place(mft'[q])
                          /\ v[q].live = mft[q].live /\ v[q].seq = mft[q].seq
                          /\ v[q].parent = mft[q].parent /\ v[q].name = mft[q].name
                          /\ v[q].dir = mft[q].dir
                          /\ w[q].live = mft'[q].live /\ w[q].seq = mft'[q].seq
                          /\ w[q].parent = mft'[q].parent /\ w[q].name = mft'[q].name
                          /\ w[q].dir = mft'[q].dir
    BY <1>1, PlacesIs
  <1>3. /\ r # RootRec /\ mft[r].live /\ mft[p].live /\ mft[p].dir /\ FreeName(p, nm)
        /\ r \notin Above(mft, p)
        /\ mft' = [mft EXCEPT ![r].parent = p, ![r].name = nm]
        /\ open' = [open EXCEPT ![r] = @ \cup {"newName"}]
    BY DEF Rename, LiveDir
  <1>4. /\ mft'[r].live = mft[r].live /\ mft'[r].seq = mft[r].seq /\ mft'[r].dir = mft[r].dir
        /\ mft'[r].parent = p /\ mft'[r].name = nm
        /\ \A q \in Rec : q # r => mft'[q] = mft[q]
    <2>1. mft[r] \in FileRecord
      BY <1>1
    <2>2. mft'[r] = [mft[r] EXCEPT !.parent = p, !.name = nm]
      BY <1>1, <1>3
    <2>3. \A q \in Rec : q # r => mft'[q] = mft[q]
      BY <1>1, <1>3
    <2> QED
      BY <2>1, <2>2, <2>3 DEF FileRecord
  <1>5. \A q \in Rec : q # r => w[q] = v[q]
    BY <1>2, <1>4
  <1>6. p # r
    <2>1. Cardinality(Rec) \in Nat
      BY VolumeAssumption, FS_CardinalityType
    <2>2. \A q \in Rec : mft[q].parent \in Rec
      BY <1>1, PlacesIs
    <2>3. PICK f : Rises(f, mft, p, Cardinality(Rec))
                   /\ Above(mft, p) = {f[k] : k \in 0 .. Cardinality(Rec)}
      BY <2>1, <2>2, RisesIs DEF Above
    <2>4. f[0] = p /\ 0 \in 0 .. Cardinality(Rec)
      BY <2>1, <2>3 DEF Rises
    <2>5. p \in Above(mft, p)
      BY <2>3, <2>4
    <2> QED
      BY <1>3, <2>5
  <1>7. open[r] = {} => open'[r] = {"newName"}
    BY <1>3 DEF VolumeTypes
  <1>8. x.rec = r /\ (open[r] = {} => x.reasons = {"oldName"}) /\ Says(x, v[r])
    BY <1>2, RecordFields DEF Says
  <1>9. y.rec = r /\ (open[r] = {} => y.reasons = {"newName"}) /\ Says(y, w[r])
    BY <1>2, <1>7, RecordFields DEF Says
  <1>10. /\ w[r].live /\ v[r].live /\ w[r].seq = v[r].seq /\ w[r].dir = v[r].dir
         /\ w[r].parent = p /\ w[r].name = nm
    BY <1>2, <1>3, <1>4
  <1> HIDE DEF x, y, v, w
  <1>11. Tree(v)
    BY DEF v
  <1>12. Tree(w)
    <2>1. w[r].seq > 0 /\ v[p].live /\ v[p].dir
      BY <1>2, <1>3, <1>10, <1>11 DEF Tree
    <2>2. \A q \in Rec \ {RootRec} : v[q].live /\ v[q].parent = p => v[q].name # nm
      BY <1>2, <1>3 DEF FreeName
    <2> QED
      BY <1>2, <1>3, <1>5, <1>6, <1>10, <1>11, <2>1, <2>2, TreePut
  <1>13. open[r] = {} => RecordTells(v, v, x)
    <2>1. Stays(v, v, x)
      BY <1>3, <1>8, <1>10 DEF Stays
    <2> QED
      BY <1>8, <2>1 DEF RecordTells
  <1>14. open[r] = {} => RecordTells(v, w, y)
    <2>1. Moved(v, w, y)
      BY <1>3, <1>5, <1>9, <1>10 DEF Moved, Others
    <2> QED
      BY <1>9, <2>1 DEF RecordTells
  <1> QED
    BY <1>3, <1>4, <1>12, <1>13, <1>14 DEF v, w, x, y

LEMMA DeleteTells ==
    ASSUME VolumeTypes, VolumeTypes', Tree(Places(mft)),
           NEW r \in Rec, Delete(r)
    PROVE  /\ mft[r].live /\ ~mft'[r].live /\ mft'[r].seq = mft[r].seq
           /\ Tree(Places(mft'))
           /\ open[r] = {} => RecordTells(Places(mft), Places(mft'),
                                          Record(r, mft[r], open[r] \cup {"delete"}))
  <1> DEFINE v == Places(mft)
             w == Places(mft')
             x == Record(r, mft[r], open[r] \cup {"delete"})
  <1>1. mft \in [Rec -> FileRecord] /\ mft' \in [Rec -> FileRecord]
    BY DEF VolumeTypes
  <1>2. /\ v \in Layout /\ w \in Layout
        /\ \A q \in Rec : /\ v[q] = Place(mft[q]) /\ w[q] = Place(mft'[q])
                          /\ v[q].live = mft[q].live /\ v[q].seq = mft[q].seq
                          /\ v[q].parent = mft[q].parent /\ v[q].name = mft[q].name
                          /\ v[q].dir = mft[q].dir
                          /\ w[q].live = mft'[q].live /\ w[q].seq = mft'[q].seq
    BY <1>1, PlacesIs
  <1>3. /\ r # RootRec /\ mft[r].live
        /\ \A q \in Rec \ {r} : mft[q].live => mft[q].parent # r
        /\ mft' = [mft EXCEPT ![r].live = FALSE, ![r].size = 0]
    BY DEF Delete
  <1>4. /\ ~mft'[r].live /\ mft'[r].seq = mft[r].seq
        /\ \A q \in Rec : q # r => mft'[q] = mft[q]
    <2>1. mft[r] \in FileRecord
      BY <1>1
    <2> QED
      BY <1>1, <1>3, <2>1 DEF FileRecord
  <1>5. \A q \in Rec : q # r => w[q] = v[q]
    BY <1>2, <1>4
  <1>6. x.rec = r /\ (open[r] = {} => x.reasons = {"delete"}) /\ Says(x, v[r])
    BY <1>2, RecordFields DEF Says
  <1>7. v[r].live /\ ~w[r].live /\ w[r].seq = v[r].seq
    BY <1>2, <1>3, <1>4
  <1>8. \A q \in Rec : q # r /\ v[q].live => v[q].parent # r
    BY <1>2, <1>3
  <1> HIDE DEF x, v, w
  <1>9. Tree(v)
    BY DEF v
  <1>10. Tree(w)
    BY <1>2, <1>3, <1>5, <1>7, <1>8, <1>9, TreeDrop
  <1>11. Gone(v, w, x)
    BY <1>3, <1>5, <1>6, <1>7 DEF Gone, Others
  <1>12. open[r] = {} => RecordTells(v, w, x)
    BY <1>6, <1>11 DEF RecordTells
  <1> QED
    BY <1>3, <1>4, <1>10, <1>12 DEF v, w, x

\* What is written of an open file that stays where it is.
LEMMA OpenTells ==
    ASSUME mft \in [Rec -> FileRecord], NEW r \in Rec, r # RootRec, mft[r].live, NEW reasons,
           reasons \subseteq {"create", "size"} \/ reasons \subseteq {"newName", "size"}
    PROVE  RecordTells(Places(mft), Places(mft), Record(r, mft[r], reasons))
  <1> DEFINE v == Places(mft)
             x == Record(r, mft[r], reasons)
  <1>1. v[r].live /\ x.rec = r /\ x.reasons = reasons /\ Says(x, v[r])
    BY PlacesIs, RecordFields DEF Says
  <1> HIDE DEF v, x
  <1>2. Made(v, v, x) /\ Moved(v, v, x) /\ Stays(v, v, x)
    BY <1>1 DEF Made, Moved, Stays, Others
  <1>3. RecordTells(v, v, x)
    BY <1>1, <1>2 DEF RecordTells
  <1> QED
    BY <1>3 DEF v, x

LEMMA WriteSame ==
    ASSUME VolumeTypes, VolumeTypes', NEW r \in Rec, NEW sz \in Nat, Write(r, sz)
    PROVE  Places(mft') = Places(mft) /\ mft[r].live /\ ~mft[r].dir
           /\ \A q \in Rec : mft'[q].live = mft[q].live
  <1>1. mft \in [Rec -> FileRecord] /\ mft' = [mft EXCEPT ![r].size = sz]
        /\ mft[r].live /\ ~mft[r].dir
    BY DEF VolumeTypes, Write
  <1>2. \A q \in Rec : Place(mft'[q]) = Place(mft[q]) /\ mft'[q].live = mft[q].live
    <2> SUFFICES ASSUME NEW q \in Rec
                 PROVE  Place(mft'[q]) = Place(mft[q]) /\ mft'[q].live = mft[q].live
      OBVIOUS
    <2>1. mft[q] \in FileRecord
      BY <1>1
    <2>2. mft'[q] = IF q = r THEN [mft[q] EXCEPT !.size = sz] ELSE mft[q]
      BY <1>1
    <2> QED
      BY <2>1, <2>2 DEF Place, FileRecord
  <1> QED
    BY <1>1, <1>2 DEF Places

\* The volume is a tree whatever is done to it.
LEMMA TreeKept ==
    ASSUME VolumeTypes, VolumeTypes', Tree(Places(mft)), VolumeNext
    PROVE  Tree(Places(mft'))
  <1>1. ASSUME NEW r \in Rec, Close(r)
        PROVE  Tree(Places(mft'))
    BY <1>1 DEF Close
  <1>2. ASSUME NEW r \in Rec, NEW sz \in Now.bytes, Write(r, sz)
        PROVE  Tree(Places(mft'))
    <2>1. sz \in Nat
      BY NowIs DEF VolumeTypes
    <2>2. Places(mft') = Places(mft)
      BY <1>2, <2>1, WriteSame
    <2> QED
      BY <2>2
  <1> QED
    BY <1>1, <1>2, CreateTells, RenameTells, DeleteTells DEF VolumeNext

------------------------------------------------------------------------------
\* Histories: the layouts that the journal still to be read tells of.

\* Up to layout K no record is used again, what is in use keeps its kind, and a
\* folder stays where it is.
Settles(h, K) ==
    \A r \in Rec : \A j \in 0 .. K : \A i \in 0 .. j : h[i][r].live =>
        /\ h[j][r].seq = h[i][r].seq
        /\ h[j][r].live => h[j][r].dir = h[i][r].dir
        /\ h[i][r].dir => h[j][r].live /\ h[j][r].parent = h[i][r].parent
        /\ ~h[j][r].live => \A l \in j .. K : ~h[l][r].live

\* A history: the layouts the journal jr tells of, one record after another, up
\* to m.  The scan saw the layout K.
Chronicle(h, K, jr, m) ==
    /\ h \in [0 .. Len(jr) + 1 -> Layout]
    /\ \A i \in 0 .. Len(jr) + 1 : Tree(h[i]) /\ InGuard(h[i])
    /\ h[Len(jr) + 1] = m
    /\ \A i \in 1 .. Len(jr) : RecordTells(h[i], h[i + 1], jr[i])
    /\ K \in 0 .. Len(jr) + 1 /\ Settles(h, K)

\* What a layout w, the next one, does with record r.
SettledAt(h, K, w, r) ==
    IF h[K][r].live
    THEN /\ w[r].seq = h[K][r].seq
         /\ w[r].live => w[r].dir = h[K][r].dir
         /\ h[K][r].dir => w[r].live /\ w[r].parent = h[K][r].parent
    ELSE (\E i \in 0 .. K : h[i][r].live) => ~w[r].live /\ w[r].seq = h[K][r].seq

Adds(g, h, K, w, r) ==
    /\ \A i \in 0 .. K : g[i] = h[i]
    /\ g[K + 1] = w /\ \A q \in Rec : q # r => w[q] = h[K][q]

LEMMA SettlesMore ==
    ASSUME NEW h, NEW K \in Nat, Settles(h, K), NEW g, NEW w, NEW r,
           Adds(g, h, K, w, r), SettledAt(h, K, w, r)
    PROVE  Settles(g, K + 1)
  <1>0. /\ \A i \in 0 .. K : g[i] = h[i]
        /\ g[K + 1] = w /\ \A q \in Rec : q # r => w[q] = h[K][q]
    BY DEF Adds
  <1>1. \A q \in Rec : SettledAt(h, K, w, q)
    BY <1>0 DEF SettledAt
  <1> SUFFICES ASSUME NEW q \in Rec, NEW j \in 0 .. K + 1, NEW i \in 0 .. j, g[i][q].live
               PROVE  /\ g[j][q].seq = g[i][q].seq
                      /\ g[j][q].live => g[j][q].dir = g[i][q].dir
                      /\ g[i][q].dir => g[j][q].live /\ g[j][q].parent = g[i][q].parent
                      /\ ~g[j][q].live => \A l \in j .. K + 1 : ~g[l][q].live
    BY DEF Settles
  <1>2. CASE i = K + 1
    BY <1>2
  <1>3. CASE i \in 0 .. K
    <2>1. g[i] = h[i] /\ h[i][q].live
      BY <1>0, <1>3
    <2>2. K \in 0 .. K /\ i \in 0 .. K
      BY <1>3
    <2>3. /\ h[K][q].seq = h[i][q].seq
          /\ h[K][q].live => h[K][q].dir = h[i][q].dir
          /\ h[i][q].dir => h[K][q].live /\ h[K][q].parent = h[i][q].parent
      BY <2>1, <2>2 DEF Settles
    <2>4. \E e \in 0 .. K : h[e][q].live
      BY <2>1, <2>2
    <2>5. /\ w[q].seq = h[i][q].seq
          /\ w[q].live => w[q].dir = h[i][q].dir
          /\ h[i][q].dir => w[q].live /\ w[q].parent = h[i][q].parent
          /\ ~h[K][q].live => ~w[q].live
      BY <1>1, <2>3, <2>4 DEF SettledAt
    <2>6. CASE j = K + 1
      <3>1. \A l \in j .. K + 1 : l = K + 1
        BY <2>6
      <3> QED
        BY <1>0, <2>1, <2>5, <2>6, <3>1
    <2>7. CASE j \in 0 .. K
      <3>1. g[j] = h[j]
        BY <1>0, <2>7
      <3>2. /\ h[j][q].seq = h[i][q].seq
            /\ h[j][q].live => h[j][q].dir = h[i][q].dir
            /\ h[i][q].dir => h[j][q].live /\ h[j][q].parent = h[i][q].parent
            /\ ~h[j][q].live => \A l \in j .. K : ~h[l][q].live
        BY <2>1, <2>7 DEF Settles
      <3>3. ASSUME ~g[j][q].live, NEW l \in j .. K + 1
            PROVE  ~g[l][q].live
        <4>1. CASE l = K + 1
          <5>1. K \in j .. K
            BY <2>7
          <5> QED
            BY <1>0, <2>5, <3>1, <3>2, <3>3, <4>1, <5>1
        <4>2. CASE l \in j .. K
          <5>1. g[l] = h[l]
            BY <1>0, <2>7, <4>2
          <5> QED
            BY <3>1, <3>2, <3>3, <4>2, <5>1
        <4>3. l = K + 1 \/ l \in j .. K
          BY <2>7
        <4> QED
          BY <4>1, <4>2, <4>3
      <3> QED
        BY <2>1, <3>1, <3>2, <3>3
    <2>8. j = K + 1 \/ j \in 0 .. K
      OBVIOUS
    <2> QED
      BY <2>6, <2>7, <2>8
  <1>4. i = K + 1 \/ i \in 0 .. K
    OBVIOUS
  <1> QED
    BY <1>2, <1>3, <1>4

\* A history that goes through some of the layouts of another one in their order.
Visits(g, L, h, K, f) ==
    /\ f \in [0 .. L -> 0 .. K] /\ \A i \in 0 .. L : g[i] = h[f[i]]
    /\ \A i, j \in 0 .. L : i <= j => f[i] <= f[j]

LEMMA SettlesAlong ==
    ASSUME NEW h, NEW K \in Nat, Settles(h, K), NEW g, NEW L \in Nat,
           NEW f, Visits(g, L, h, K, f)
    PROVE  Settles(g, L)
  <1>0. /\ f \in [0 .. L -> 0 .. K] /\ \A i \in 0 .. L : g[i] = h[f[i]]
        /\ \A i, j \in 0 .. L : i <= j => f[i] <= f[j]
    BY DEF Visits
  <1> SUFFICES ASSUME NEW q \in Rec, NEW j \in 0 .. L, NEW i \in 0 .. j, g[i][q].live
               PROVE  /\ g[j][q].seq = g[i][q].seq
                      /\ g[j][q].live => g[j][q].dir = g[i][q].dir
                      /\ g[i][q].dir => g[j][q].live /\ g[j][q].parent = g[i][q].parent
                      /\ ~g[j][q].live => \A l \in j .. L : ~g[l][q].live
    BY DEF Settles
  <1>1. i \in 0 .. L /\ i <= j
    OBVIOUS
  <1>2. f[j] \in 0 .. K /\ f[i] \in 0 .. f[j] /\ g[i] = h[f[i]] /\ g[j] = h[f[j]]
    BY <1>0, <1>1
  <1>3. /\ h[f[j]][q].seq = h[f[i]][q].seq
        /\ h[f[j]][q].live => h[f[j]][q].dir = h[f[i]][q].dir
        /\ h[f[i]][q].dir => h[f[j]][q].live /\ h[f[j]][q].parent = h[f[i]][q].parent
        /\ ~h[f[j]][q].live => \A l \in f[j] .. K : ~h[l][q].live
    BY <1>2 DEF Settles
  <1>4. ASSUME ~g[j][q].live, NEW l \in j .. L
        PROVE  ~g[l][q].live
    <2>1. l \in 0 .. L /\ j <= l
      OBVIOUS
    <2>2. f[l] \in f[j] .. K /\ g[l] = h[f[l]]
      BY <1>0, <1>2, <2>1
    <2> QED
      BY <1>2, <1>3, <1>4, <2>1, <2>2
  <1> QED
    BY <1>2, <1>3, <1>4

\* Longer by one record.
Longer(h, K, g, L, n, done) ==
    /\ \A i \in 0 .. n : g[i] = h[i]
    /\ L = IF done THEN K ELSE K + 1

LEMMA OneMore ==
    ASSUME NEW jr \in Seq(UsnRecord), NEW x \in UsnRecord, NEW h, NEW K, NEW m,
           Chronicle(h, K, jr, m), NEW w \in Layout, Tree(w), InGuard(w), RecordTells(m, w, x),
           NEW done \in BOOLEAN,
           ~done => K = Len(jr) + 1 /\ SettledAt(h, K, w, x.rec)
    PROVE  \E g, L : Chronicle(g, L, Append(jr, x), w) /\ Longer(h, K, g, L, Len(jr) + 1, done)
  <1> DEFINE n == Len(jr) + 1
             js == Append(jr, x)
             g == [i \in 0 .. n + 1 |-> IF i = n + 1 THEN w ELSE h[i]]
             L == IF done THEN K ELSE K + 1
  <1>1. /\ h \in [0 .. n -> Layout]
        /\ \A i \in 0 .. n : Tree(h[i]) /\ InGuard(h[i])
        /\ h[n] = m
        /\ \A i \in 1 .. Len(jr) : RecordTells(h[i], h[i + 1], jr[i])
        /\ K \in 0 .. n /\ Settles(h, K)
    BY DEF Chronicle
  <1>2. Len(jr) \in Nat /\ Len(js) = n /\ n \in Nat /\ K \in Nat
    BY <1>1
  <1>3. g[n + 1] = w /\ \A i \in 0 .. n : g[i] = h[i]
    BY <1>2
  <1>4. g \in [0 .. Len(js) + 1 -> Layout]
    BY <1>1, <1>2
  <1> HIDE DEF g, n
  <1>5. \A i \in 0 .. n + 1 : Tree(g[i]) /\ InGuard(g[i])
    <2> SUFFICES ASSUME NEW i \in 0 .. n + 1
                 PROVE  Tree(g[i]) /\ InGuard(g[i])
      OBVIOUS
    <2>1. i = n + 1 \/ i \in 0 .. n
      BY <1>2
    <2> QED
      BY <1>1, <1>3, <2>1
  <1>6. \A i \in 1 .. n : RecordTells(g[i], g[i + 1], js[i])
    <2> SUFFICES ASSUME NEW i \in 1 .. n
                 PROVE  RecordTells(g[i], g[i + 1], js[i])
      OBVIOUS
    <2>1. CASE i = n
      <3>1. js[i] = x
        BY <1>2, <2>1 DEF n
      <3>2. n \in 0 .. n
        BY <1>2
      <3> QED
        BY <1>1, <1>3, <2>1, <3>1, <3>2
    <2>2. CASE i # n
      <3>1. i \in 1 .. Len(jr) /\ i \in 0 .. n /\ i + 1 \in 0 .. n
        BY <1>2, <2>2 DEF n
      <3>2. js[i] = jr[i]
        BY <3>1
      <3> QED
        BY <1>1, <1>3, <3>1, <3>2
    <2> QED
      BY <2>1, <2>2
  <1>7. L \in 0 .. n + 1 /\ Settles(g, L)
    <2>1. CASE done
      <3>1. \A i \in 0 .. K : i \in 0 .. n
        BY <1>1, <1>2
      <3>2. \A i \in 0 .. K : g[i] = h[i]
        BY <1>3, <3>1
      <3>3. Settles(g, K)
        <4> DEFINE f == [i \in 0 .. K |-> i]
        <4>1. f \in [0 .. K -> 0 .. K] /\ \A i \in 0 .. K : f[i] = i
          BY <1>2
        <4> HIDE DEF f
        <4>2. Visits(g, K, h, K, f)
          BY <3>2, <4>1 DEF Visits
        <4> QED
          BY <1>1, <1>2, <4>2, SettlesAlong
      <3> QED
        BY <1>1, <1>2, <2>1, <3>3
    <2>2. CASE ~done
      <3>1. K = n /\ SettledAt(h, K, w, x.rec)
        BY <2>2 DEF n
      <3>2. \A q \in Rec : q # x.rec => w[q] = h[K][q]
        BY <1>1, <3>1, TellsOfOne
      <3>3. Settles(g, K + 1)
        <4>1. Adds(g, h, K, w, x.rec)
          BY <1>2, <1>3, <3>1, <3>2 DEF Adds
        <4> QED
          BY <1>1, <1>2, <3>1, <4>1, SettlesMore
      <3> QED
        BY <1>2, <2>2, <3>1, <3>3
    <2> QED
      BY <2>1, <2>2
  <1>8. Chronicle(g, L, js, w)
    BY <1>2, <1>3, <1>4, <1>5, <1>6, <1>7 DEF Chronicle
  <1>9. Longer(h, K, g, L, n, done)
    BY <1>3 DEF Longer
  <1> HIDE DEF L
  <1> QED
    BY <1>8, <1>9 DEF n

\* A record that tells of no change.
LEMMA SettledSame ==
    ASSUME NEW h, NEW K, NEW r
    PROVE  SettledAt(h, K, h[K], r)
  BY DEF SettledAt

-----------------------------------------------------------------------------
\* The first k records are read as one batch.
CutAt(h, K, g, L, k) ==
    /\ g[0] = h[0] /\ g[1] = h[k + 1]
    /\ IF K <= k THEN L = 0 ELSE g[L] = h[K]

LEMMA OneBatch ==
    ASSUME NEW jr \in Seq(UsnRecord), NEW h, NEW K, NEW m, Chronicle(h, K, jr, m),
           NEW k \in 1 .. Len(jr)
    PROVE  \E g, L : /\ Chronicle(g, L, SubSeq(jr, k + 1, Len(jr)), m)
                     /\ CutAt(h, K, g, L, k)
  <1> DEFINE js == SubSeq(jr, k + 1, Len(jr))
             n == Len(jr)
             f == [i \in 0 .. n - k + 1 |-> IF i = 0 THEN 0 ELSE i + k]
             g == [i \in 0 .. n - k + 1 |-> h[f[i]]]
             L == IF K <= k THEN 0 ELSE K - k
  <1>1. /\ h \in [0 .. n + 1 -> Layout]
        /\ \A i \in 0 .. n + 1 : Tree(h[i]) /\ InGuard(h[i])
        /\ h[n + 1] = m
        /\ \A i \in 1 .. n : RecordTells(h[i], h[i + 1], jr[i])
        /\ K \in 0 .. n + 1 /\ Settles(h, K)
    BY DEF Chronicle
  <1>2. n \in Nat /\ k \in Nat /\ K \in Nat /\ n - k \in Nat
    BY <1>1
  <1>3. Len(js) = n - k /\ \A i \in 1 .. n - k : js[i] = jr[i + k]
    BY <1>2
  <1> HIDE DEF n, js
  <1>4. /\ f \in [0 .. n - k + 1 -> 0 .. n + 1] /\ f[0] = 0
        /\ \A i \in 1 .. n - k + 1 : f[i] = i + k
    BY <1>2
  <1> HIDE DEF f
  <1>5. /\ \A i \in 0 .. n - k + 1 : g[i] = h[f[i]] /\ f[i] \in 0 .. n + 1
        /\ g \in [0 .. n - k + 1 -> Layout]
    BY <1>1, <1>4
  <1> HIDE DEF g
  <1>6. \A i \in 0 .. n - k + 1 : Tree(g[i]) /\ InGuard(g[i])
    BY <1>1, <1>5
  <1>7. g[n - k + 1] = m /\ g[0] = h[0] /\ g[1] = h[k + 1]
    <2>1. n - k + 1 \in 1 .. n - k + 1 /\ 1 \in 1 .. n - k + 1 /\ 0 \in 0 .. n - k + 1
      BY <1>2
    <2>2. n - k + 1 + k = n + 1 /\ 1 + k = k + 1
      BY <1>2
    <2>3. f[n - k + 1] = n + 1 /\ f[1] = k + 1
      BY <1>4, <2>1, <2>2
    <2>4. n - k + 1 \in 0 .. n - k + 1 /\ 1 \in 0 .. n - k + 1
      BY <1>2
    <2> QED
      BY <1>1, <1>4, <1>5, <2>1, <2>3, <2>4
  <1>8. ASSUME NEW i \in 1 .. n - k
        PROVE  RecordTells(g[i], g[i + 1], js[i])
    <2>1. i \in 1 .. n - k + 1 /\ i + 1 \in 1 .. n - k + 1
          /\ i \in 0 .. n - k + 1 /\ i + 1 \in 0 .. n - k + 1
      BY <1>2
    <2>2. f[i] = i + k /\ f[i + 1] = i + 1 + k
      BY <1>4, <2>1
    <2>3. i + 1 + k = (i + k) + 1 /\ i + k \in 1 .. n
      BY <1>2
    <2>4. g[i] = h[i + k] /\ g[i + 1] = h[(i + k) + 1] /\ js[i] = jr[i + k]
      BY <1>3, <1>5, <2>1, <2>2, <2>3
    <2> QED
      BY <1>1, <2>3, <2>4
  <1>9. L \in 0 .. n - k + 1
    BY <1>1, <1>2
  <1>10. Settles(g, L)
    <2>1. CASE K <= k
      <3>1. L = 0
        BY <2>1
      <3>2. Settles(g, 0)
        BY DEF Settles
      <3> QED
        BY <3>1, <3>2
    <2>2. CASE ~(K <= k)
      <3>1. L = K - k /\ L \in Nat /\ L >= 1 /\ L <= n - k + 1
        BY <1>1, <1>2, <2>2
      <3> DEFINE e == [i \in 0 .. L |-> f[i]]
      <3> HIDE DEF L
      <3>2. \A i \in 0 .. L : i \in 0 .. n - k + 1 /\ f[i] = IF i = 0 THEN 0 ELSE i + k
        BY <1>2, <1>4, <3>1
      <3>3. \A i \in 0 .. L : f[i] \in 0 .. K
        BY <1>2, <3>1, <3>2
      <3>4. e \in [0 .. L -> 0 .. K] /\ \A i \in 0 .. L : g[i] = h[e[i]] /\ e[i] = f[i]
        BY <1>5, <3>2, <3>3
      <3>5. \A i, j \in 0 .. L : i <= j => f[i] <= f[j]
        BY <1>2, <3>1, <3>2
      <3>6. \A i, j \in 0 .. L : i <= j => e[i] <= e[j]
        BY <3>4, <3>5
      <3> HIDE DEF e
      <3>7. Visits(g, L, h, K, e)
        BY <3>4, <3>6 DEF Visits
      <3> QED
        BY <1>1, <1>2, <3>1, <3>7, SettlesAlong
    <2> QED
      BY <2>1, <2>2
  <1>11. Chronicle(g, L, js, m)
    <2> HIDE DEF L
    <2> QED
      BY <1>3, <1>5, <1>6, <1>7, <1>8, <1>9, <1>10 DEF Chronicle
  <1>12. CutAt(h, K, g, L, k)
    <2>1. CASE K <= k
      BY <1>7, <2>1 DEF CutAt
    <2>2. CASE ~(K <= k)
      <3>1. L = K - k /\ L \in 1 .. n - k + 1 /\ L \in 0 .. n - k + 1 /\ L + k = K
        BY <1>1, <1>2, <2>2
      <3>2. g[L] = h[K]
        BY <1>4, <1>5, <3>1
      <3> QED
        BY <1>7, <2>2, <3>2 DEF CutAt
    <2> QED
      BY <2>1, <2>2
  <1> HIDE DEF L
  <1> QED
    BY <1>11, <1>12 DEF js, n

\* A change is applied: the index has caught up with the next layout.
AppliedAt(h, K, g) == g[0] = h[1] /\ g[1] = h[1] /\ (K # 0 => g[K] = h[K])

LEMMA OneApplied ==
    ASSUME NEW jr \in Seq(UsnRecord), NEW h, NEW K, NEW m, Chronicle(h, K, jr, m)
    PROVE  \E g : Chronicle(g, K, jr, m) /\ AppliedAt(h, K, g)
  <1> DEFINE n == Len(jr) + 1
             f == [i \in 0 .. n |-> IF i = 0 THEN 1 ELSE i]
             g == [i \in 0 .. n |-> h[f[i]]]
  <1>1. /\ h \in [0 .. n -> Layout]
        /\ \A i \in 0 .. n : Tree(h[i]) /\ InGuard(h[i])
        /\ h[n] = m
        /\ \A i \in 1 .. Len(jr) : RecordTells(h[i], h[i + 1], jr[i])
        /\ K \in 0 .. n /\ Settles(h, K)
    BY DEF Chronicle
  <1>2. Len(jr) \in Nat /\ n \in Nat /\ n >= 1 /\ K \in Nat
    BY <1>1
  <1>3. /\ f \in [0 .. n -> 0 .. n] /\ f[0] = 1 /\ \A i \in 1 .. n : f[i] = i
    BY <1>2
  <1> HIDE DEF f
  <1>4. /\ \A i \in 0 .. n : g[i] = h[f[i]] /\ f[i] \in 0 .. n
        /\ g \in [0 .. n -> Layout]
    BY <1>1, <1>3
  <1> HIDE DEF g
  <1>5. g[0] = h[1] /\ \A i \in 1 .. n : g[i] = h[i]
    BY <1>2, <1>3, <1>4
  <1>6. \A i \in 0 .. n : Tree(g[i]) /\ InGuard(g[i])
    BY <1>1, <1>4
  <1>7. ASSUME NEW i \in 1 .. Len(jr)
        PROVE  RecordTells(g[i], g[i + 1], jr[i])
    <2>1. i \in 1 .. n /\ i + 1 \in 1 .. n
      BY <1>2
    <2> QED
      BY <1>1, <1>5, <2>1
  <1>8. Settles(g, K)
    <2>1. CASE K = 0
      <3>1. Settles(g, 0)
        BY DEF Settles
      <3> QED
        BY <2>1, <3>1
    <2>2. CASE K # 0
      <3> DEFINE e == [i \in 0 .. K |-> f[i]]
      <3>1. \A i \in 0 .. K : i \in 0 .. n /\ f[i] = IF i = 0 THEN 1 ELSE i
        BY <1>1, <1>2, <1>3
      <3>2. \A i \in 0 .. K : f[i] \in 0 .. K
        BY <1>2, <2>2, <3>1
      <3>3. e \in [0 .. K -> 0 .. K] /\ \A i \in 0 .. K : g[i] = h[e[i]] /\ e[i] = f[i]
        BY <1>4, <3>1, <3>2
      <3>4. \A i, j \in 0 .. K : i <= j => f[i] <= f[j]
        BY <1>2, <3>1
      <3>5. \A i, j \in 0 .. K : i <= j => e[i] <= e[j]
        BY <3>3, <3>4
      <3> HIDE DEF e
      <3>6. Visits(g, K, h, K, e)
        BY <3>3, <3>5 DEF Visits
      <3> QED
        BY <1>1, <1>2, <3>6, SettlesAlong
    <2> QED
      BY <2>1, <2>2
  <1>9. Chronicle(g, K, jr, m)
    <2>1. g[n] = m
      BY <1>1, <1>2, <1>5
    <2> QED
      BY <1>1, <1>4, <1>6, <1>7, <1>8, <2>1 DEF Chronicle
  <1>10. AppliedAt(h, K, g)
    <2>1. 1 \in 1 .. n /\ (K # 0 => K \in 1 .. n)
      BY <1>1, <1>2
    <2> QED
      BY <1>5, <2>1 DEF AppliedAt
  <1> QED
    BY <1>9, <1>10

\* What was seen agrees with what is told.
LEMMA SettlesOnward ==
    ASSUME NEW h, NEW K \in Nat, K # 0, Settles(h, K), NEW r \in Rec,
           \A q \in Rec : q # r => h[1][q] = h[0][q]
    PROVE  Onward(h[0], h[K], h[1], h[K], r)
  <1>1. K \in 0 .. K /\ 0 \in 0 .. K /\ 1 \in 0 .. K /\ 0 \in 0 .. 1 /\ K \in 1 .. K
    OBVIOUS
  <1>2. ASSUME NEW i \in 0 .. K
        PROVE  Agree(h[i], h[K])
    <2> SUFFICES ASSUME NEW q \in Rec, h[i][q].live
                 PROVE  /\ h[K][q].seq = h[i][q].seq
                        /\ h[K][q].live => h[K][q].dir = h[i][q].dir
                        /\ h[i][q].dir => h[K][q].live /\ h[K][q].parent = h[i][q].parent
      BY DEF Agree
    <2> QED
      BY <1>1 DEF Settles
  <1>3. h[0][r].live /\ ~h[1][r].live => ~h[K][r].live
    BY <1>1 DEF Settles
  <1> QED
    BY <1>1, <1>2, <1>3 DEF Onward

------------------------------------------------------------------------------
\* Pruned files: what keeps them with their folders.

\* What tells of no move.
StillRecord  == {x \in UsnRecord : "newName" \notin x.reasons}
StillPending == {p \in PendingType : ~p.renamed}
StillChange  == {c \in AnyChange : c.kind # "renamed"}

\* Where something is pruned nothing on its way tells of a move.
Unmoved ==
    /\ Now.excluded = {} => index.excl = {}
    /\ Now.excluded # {} =>
         /\ \A r \in Rec : "newName" \notin open[r]
         /\ journal \in Seq(StillRecord)
         /\ pending \in Seq(StillPending)
         /\ changes \in Seq(StillChange)

\* No file is deeper below the root than the climbs of the index go.
Shallow == \A r \in Rec : mft[r].live => RootRec \in UpFrom(mft, r, ClimbGuard + 1)

LEMMA ShallowIs ==
    ASSUME NEW vol \in [Rec -> FileRecord],
           \A r \in Rec : vol[r].live => RootRec \in UpFrom(vol, r, ClimbGuard + 1)
    PROVE  Places(vol) \in Layout /\ InGuard(Places(vol))
  <1>1. ClimbGuard + 1 \in Nat
    BY IndexAssumption
  <1>2. \A r \in Rec : /\ Places(vol)[r].live = vol[r].live
                       /\ UpFrom(Places(vol), r, ClimbGuard + 1) = UpFrom(vol, r, ClimbGuard + 1)
    BY <1>1, PlacesIs
  <1> QED
    BY <1>2, PlacesIs DEF InGuard

\* A file is pruned exactly when its folder is.
Apart(ix) == \A f \in Live(ix) \ ix.dir : f \in ix.excl <=> ix.parent[f] \in ix.excl

\* The same tree, with tombstones more at most.
Fewer(ix, jx) == SameTree(ix, jx) /\ Live(jx) \subseteq Live(ix)

LEMMA FewerTransitive ==
    ASSUME NEW ix, NEW jx, NEW kx, Fewer(ix, jx), Fewer(jx, kx)
    PROVE  Fewer(ix, kx)
  BY DEF Fewer, SameTree

LEMMA FewerApart ==
    ASSUME NEW ix, NEW jx, Fewer(ix, jx), Apart(ix)
    PROVE  Apart(jx) /\ jx.excl = ix.excl
  BY DEF Fewer, SameTree, Apart

LEMMA ShapeFewer ==
    ASSUME NEW ix, NEW jx, SameShape(ix, jx)
    PROVE  Fewer(ix, jx)
  BY DEF Fewer, SameShape, SamePlaces, SameTree, Live

LEMMA ResizeFewer ==
    ASSUME NEW ix \in IndexType, RecordTableSound(ix), NEW c \in AnyChange
    PROVE  Fewer(ix, ApplyResize(ix, c))
  <1> DEFINE jx == Resolved(ix, c.rec, c.seq)
             m  == Found(ix, c.rec, c.seq)
             d  == c.size - jx.size[m]
             kx == [jx EXCEPT !.size[m] = c.size]
             lx == [jx EXCEPT !.size[m] = c.size, !.alloc[m] = c.size]
  <1>1. c.rec \in Rec /\ c.seq \in Nat /\ c.size \in Nat
    BY DEF AnyChange
  <1>2. jx \in IndexType /\ (m = NoNode \/ m \in Node) /\ Fewer(ix, jx)
    BY <1>1, ResolvedGood, ResolvedTree DEF Good, Fewer
  <1> HIDE DEF jx, m
  <1>3. CASE m = NoNode \/ m \in jx.del \cup jx.dir
    BY <1>2, <1>3 DEF ApplyResize, jx, m
  <1>4. CASE m # NoNode /\ m \notin jx.del \cup jx.dir /\ m \in jx.excl
    <2>1. ApplyResize(ix, c) = kx
      BY <1>4 DEF ApplyResize, jx, m
    <2>2. Fewer(jx, kx)
      BY <1>2 DEF Fewer, SameTree, IndexType, Live
    <2> QED
      BY <1>2, <2>1, <2>2, FewerTransitive
  <1>5. CASE m # NoNode /\ m \notin jx.del \cup jx.dir /\ m \notin jx.excl
    <2>1. ApplyResize(ix, c) = Propagate(lx, m, d, d, 0)
      BY <1>5 DEF ApplyResize, jx, m
    <2>2. lx \in IndexType /\ Fewer(jx, lx)
      BY <1>1, <1>2, <1>5 DEF Fewer, SameTree, IndexType, Live
    <2>3. d \in Int
      <3>1. jx.size[m] \in Nat
        BY <1>2, <1>5 DEF IndexType
      <3> QED
        BY <1>1, <3>1
    <2> HIDE DEF lx, d
    <2>4. Fewer(lx, Propagate(lx, m, d, d, 0))
      BY <2>2, <2>3, PropagateStays, ShapeFewer
    <2> QED
      BY <1>2, <2>1, <2>2, <2>4, FewerTransitive
  <1> QED
    BY <1>3, <1>4, <1>5

LEMMA DeleteFewer ==
    ASSUME NEW ix \in IndexType, RecordTableSound(ix), NEW c \in AnyChange
    PROVE  Fewer(ix, ApplyDelete(ix, c))
  <1> DEFINE jx == Resolved(ix, c.rec, c.seq)
             m  == Found(ix, c.rec, c.seq)
             ex == [jx EXCEPT !.del = @ \cup {m}]
             dx == Detach(jx, m)
             cx == ClearRecord(Tombstone(dx, m), c.rec)
  <1>1. c.rec \in Rec /\ c.seq \in Nat
    BY DEF AnyChange
  <1>2. jx \in IndexType /\ (m = NoNode \/ m \in Node) /\ Fewer(ix, jx)
    BY <1>1, ResolvedGood, ResolvedTree DEF Good, Fewer
  <1> HIDE DEF jx, m
  <1>3. CASE m = NoNode \/ m \in jx.del
    BY <1>2, <1>3 DEF ApplyDelete, jx, m
  <1>4. CASE m # NoNode /\ m \notin jx.del /\ m \in jx.excl
    <2>1. ApplyDelete(ix, c) = ex
      BY <1>4 DEF ApplyDelete, jx, m
    <2>2. Fewer(jx, ex)
      BY <1>2 DEF Fewer, SameTree, IndexType, Live
    <2> QED
      BY <1>2, <2>1, <2>2, FewerTransitive
  <1>5. CASE m # NoNode /\ m \notin jx.del /\ m \notin jx.excl
    <2>1. ApplyDelete(ix, c) = cx
      BY <1>5 DEF ApplyDelete, jx, m
    <2>2. dx \in IndexType /\ Fewer(jx, dx)
      BY <1>2, <1>5, DetachStays, ShapeFewer
    <2> HIDE DEF dx
    <2>3. Fewer(dx, cx)
      BY <2>2 DEF ClearRecord, Tombstone, Fewer, SameTree, IndexType, Live
    <2> QED
      BY <1>2, <2>1, <2>2, <2>3, FewerTransitive
  <1> QED
    BY <1>3, <1>4, <1>5

LEMMA CreateApart ==
    ASSUME NEW ix \in IndexType, ix.n < MaxNodes, RecordTableSound(ix), FlagsSound(ix),
           NEW c \in AnyChange, Apart(ix)
    PROVE  Apart(ApplyCreate(ix, c)) /\ ApplyCreate(ix, c).excl = ix.excl
  <1> DEFINE jx == Resolved(ix, c.rec, c.seq)
             m  == Found(ix, c.rec, c.seq)
             p  == NodeOfRecord(jx, c.parent)
             ax == AppendNode(jx, c.rec, c.seq, p, c.name, c.dir, c.size)
  <1>1. /\ c.rec \in Rec /\ c.seq \in Nat /\ c.size \in Nat
        /\ c.name \in Name /\ c.dir \in BOOLEAN
    BY DEF AnyChange
  <1>2. jx \in IndexType /\ jx.n < MaxNodes /\ FlagsSound(jx) /\ Fewer(ix, jx)
    BY <1>1, ResolvedGood, ResolvedTree DEF Good, Fewer
  <1>3. Apart(jx) /\ jx.excl = ix.excl
    BY <1>2, FewerApart
  <1>4. CASE m # NoNode /\ m \notin jx.del
    <2>1. ApplyCreate(ix, c) = ApplyResize(ix, c)
      BY <1>4 DEF ApplyCreate
    <2>2. Fewer(ix, ApplyResize(ix, c))
      BY ResizeFewer
    <2> HIDE DEF jx, m, p, ax
    <2> QED
      BY <2>1, <2>2, FewerApart
  <1>5. CASE (m = NoNode \/ m \in jx.del) /\ (p = NoNode \/ p \in jx.excl)
    <2>1. ApplyCreate(ix, c) = jx
      BY <1>5 DEF ApplyCreate
    <2> HIDE DEF jx, m, p, ax
    <2> QED
      BY <1>3, <2>1
  <1>6. CASE (m = NoNode \/ m \in jx.del) /\ p # NoNode /\ p \notin jx.excl
    <2>1. ApplyCreate(ix, c) = ax
      BY <1>6 DEF ApplyCreate
    <2> HIDE DEF jx, m
    <2>2. p \in Node
      BY <1>2, <1>6, NodeOfRecordType
    <2> HIDE DEF p
    <2>3. NewNode(jx, ax, c.rec, c.seq, p, c.name, c.dir)
      BY <1>1, <1>2, <2>2, AppendHangs
    <2> HIDE DEF ax
    <2>4. /\ ax.excl = jx.excl /\ jx.n \in Node /\ jx.dir \subseteq ax.dir
          /\ ax.parent[jx.n] = p
          /\ \A x \in Node : x # jx.n => ax.parent[x] = jx.parent[x]
      BY <1>1, <2>3 DEF NewNode
    <2>5. jx.n \notin jx.excl
      BY <1>2, LiveNodes DEF FlagsSound
    <2>6. \A x \in Live(ax) : x = jx.n \/ (x \in Live(jx) /\ x \in Node)
      <3>1. ax.n = jx.n + 1 /\ ax.del = jx.del
        BY <2>3 DEF NewNode
      <3>2. jx.n \in Nat /\ Live(jx) \subseteq Node
        BY <1>2, LiveNodes
      <3>3. 0 .. (jx.n + 1) - 1 = (0 .. jx.n - 1) \cup {jx.n}
        BY <3>2
      <3> QED
        BY <3>1, <3>2, <3>3 DEF Live
    <2>7. ASSUME NEW f \in Live(ax) \ ax.dir
          PROVE  f \in ax.excl <=> ax.parent[f] \in ax.excl
      <3>1. CASE f = jx.n
        BY <1>6, <2>4, <2>5, <3>1
      <3>2. CASE f # jx.n
        <4>1. f \in Live(jx) \ jx.dir /\ ax.parent[f] = jx.parent[f]
          BY <2>4, <2>6, <3>2
        <4> QED
          BY <1>3, <2>4, <4>1 DEF Apart
      <3> QED
        BY <3>1, <3>2
    <2> QED
      BY <1>3, <2>1, <2>4, <2>7 DEF Apart
  <1> QED
    BY <1>4, <1>5, <1>6

LEMMA RenameMarks ==
    ASSUME NEW ix \in IndexType, RecordTableSound(ix), NEW c \in AnyChange
    PROVE  ApplyRename(ix, c).excl = ix.excl
  <1> DEFINE jx == Resolved(ix, c.rec, c.seq)
             m  == Found(ix, c.rec, c.seq)
             p  == NodeOfRecord(jx, c.parent)
             vx == MoveNode(jx, m, p)
             nx == [vx EXCEPT !.name[m] = c.name]
  <1>1. c.rec \in Rec /\ c.seq \in Nat
    BY DEF AnyChange
  <1>2. jx \in IndexType /\ (m = NoNode \/ m \in Node) /\ jx.excl = ix.excl
    BY <1>1, ResolvedGood, ResolvedTree DEF Good, SameTree
  <1>3. p = NoNode \/ p \in Node
    BY <1>2, NodeOfRecordType
  <1> HIDE DEF jx, m, p
  <1>4. CASE m = NoNode \/ m \in jx.del \/ p = NoNode
    BY <1>2, <1>4 DEF ApplyRename, jx, m, p
  <1>5. CASE m # NoNode /\ m \notin jx.del /\ p # NoNode
    <2>1. ApplyRename(ix, c) = nx
      BY <1>5 DEF ApplyRename, jx, m, p
    <2>2. vx \in IndexType /\ vx.excl = jx.excl
      BY <1>2, <1>3, <1>5, MoveGood, MoveFlags
    <2> HIDE DEF vx
    <2>3. nx.excl = vx.excl
      BY <2>2 DEF IndexType
    <2> HIDE DEF nx
    <2> QED
      BY <1>2, <2>1, <2>2, <2>3
  <1> QED
    BY <1>4, <1>5

\* Whatever the change, unless a file is moved where something is pruned.
LEMMA ApplyApart ==
    ASSUME NEW ix \in IndexType, ix.n < MaxNodes, RecordTableSound(ix), FlagsSound(ix),
           NEW c \in AnyChange, Apart(ix), c.kind = "renamed" => ix.excl = {}
    PROVE  Apart(Apply(ix, c)) /\ Apply(ix, c).excl = ix.excl
  <1>1. c.kind \in {"created", "deleted", "resized", "renamed"}
    BY DEF AnyChange
  <1>2. CASE c.kind = "created"
    BY <1>2, CreateApart DEF Apply
  <1>3. CASE c.kind = "deleted"
    BY <1>3, DeleteFewer, FewerApart DEF Apply
  <1>4. CASE c.kind = "resized"
    BY <1>4, ResizeFewer, FewerApart DEF Apply
  <1>5. CASE c.kind = "renamed"
    <2>1. Apply(ix, c).excl = {} /\ ix.excl = {}
      BY <1>5, RenameMarks DEF Apply
    <2> QED
      BY <2>1 DEF Apart
  <1> QED
    BY <1>1, <1>2, <1>3, <1>4, <1>5

\* What is above a file is its folder and what is above that.
LEMMA ParentLine ==
    ASSUME NEW ix \in IndexType, Rooted(ix), NEW f \in Live(ix), f # ix.rec[RootRec]
    PROVE  /\ ix.parent[f] \in Live(ix) \cap ix.dir
           /\ \A a : a \in Ancestors(ix, f) <=>
                       a = ix.parent[f] \/ a \in Ancestors(ix, ix.parent[f])
  <1> DEFINE root == ix.rec[RootRec]
             p == ix.parent[f]
  <1>1. /\ f \in Node /\ Reaches(ix, f, root) /\ Ancestors(ix, f) \subseteq Live(ix) \cap ix.dir
        /\ ClimbGuard \in Nat
    BY LiveNodes, RootedIs, IndexAssumption
  <1>2. Chain(Climb(ix, f), ix) /\ Climb(ix, f)[0] = p
    BY <1>1, ClimbIs
  <1>3. p # NoNode
    <2>1. SUFFICES ASSUME p = NoNode PROVE FALSE
      OBVIOUS
    <2>2. PICK k \in 0 .. ClimbGuard : Climb(ix, f)[k] = root
      BY <1>1, AncestorIs DEF Reaches
    <2>3. root # NoNode
      BY <1>1, AncestorIs DEF Reaches
    <2>4. 0 \in 0 .. ClimbGuard /\ k # 0 /\ 0 < k
      BY <1>1, <1>2, <2>1, <2>2, <2>3
    <2> QED
      BY <1>2, <2>1, <2>2, <2>3, <2>4, Stops
  <1>4. p \in Ancestors(ix, f)
    BY <1>1, <1>2, <1>3, AncestorIs
  <1>5. p \in Live(ix) \cap ix.dir /\ p \in Node
    BY <1>1, <1>4, LiveNodes
  <1>6. ASSUME NEW a, a \in Ancestors(ix, f), a # p
        PROVE  a \in Ancestors(ix, p)
    <2>1. PICK k \in 0 .. ClimbGuard : Climb(ix, f)[k] = a
      BY <1>1, <1>6, AncestorIs
    <2>2. a # NoNode
      BY <1>1, <1>6, AncestorIs
    <2>3. 0 < k /\ 0 \in 0 .. ClimbGuard
      BY <1>1, <1>2, <1>6, <2>1
    <2>4. ix.parent[p] # p
      BY <1>2, <2>1, <2>2, <2>3, Stops
    <2>5. Climb(ix, p)[k - 0 - 1] = a
      BY <1>1, <1>2, <1>5, <2>1, <2>3, <2>4, GoesOn
    <2>6. k - 0 - 1 \in 0 .. ClimbGuard
      BY <1>1, <2>1, <2>3
    <2> QED
      BY <1>5, <2>2, <2>5, <2>6, AncestorIs
  <1>7. Ancestors(ix, p) \subseteq Ancestors(ix, f)
    <2>1. CASE p = root
      <3>1. Ancestors(ix, p) = {p}
        BY <1>1, <1>5, <2>1, RootAlone DEF Reaches
      <3> QED
        BY <1>4, <3>1
    <2>2. CASE p # root
      BY <1>1, <1>4, <2>2, FromAbove
    <2> QED
      BY <2>1, <2>2
  <1> QED
    BY <1>4, <1>5, <1>6, <1>7

\* Pruning a folder prunes a file exactly when it prunes its folder.
LEMMA PruneApart ==
    ASSUME NEW ix \in IndexType, Rooted(ix), Apart(ix), NEW top \in Node, top \in ix.dir
    PROVE  Apart(ExcludeSubtree(ix, top))
  <1> DEFINE jx == ExcludeSubtree(ix, top)
  <1>1. /\ SamePlaces(ix, jx)
        /\ jx.excl = IF top \in ix.excl THEN ix.excl ELSE ix.excl \cup Subtree(ix, top)
    BY ExcludeIs
  <1> HIDE DEF jx
  <1>2. Live(jx) = Live(ix) /\ jx.dir = ix.dir /\ jx.parent = ix.parent
    BY <1>1 DEF SamePlaces, Live
  <1>3. ASSUME NEW f \in Live(ix) \ ix.dir
        PROVE  f \in Subtree(ix, top) <=> ix.parent[f] \in Subtree(ix, top)
    <2> DEFINE p == ix.parent[f]
    <2>1. f # ix.rec[RootRec] /\ f # top
      BY <1>3, RootedIs DEF Reaches
    <2>2. /\ p \in Live(ix)
          /\ \A a : a \in Ancestors(ix, f) <=> a = p \/ a \in Ancestors(ix, p)
      BY <2>1, ParentLine
    <2>3. f \in 0 .. ix.n - 1 /\ p \in 0 .. ix.n - 1
      BY <2>2 DEF Live
    <2> QED
      BY <2>1, <2>2, <2>3 DEF Subtree
  <1>4. ASSUME NEW f \in Live(ix) \ ix.dir
        PROVE  f \in jx.excl <=> ix.parent[f] \in jx.excl
    BY <1>1, <1>3 DEF Apart
  <1> QED
    BY <1>2, <1>4 DEF Apart, jx

LEMMA RootedSame ==
    ASSUME NEW ix \in IndexType, NEW jx \in IndexType, SamePlaces(ix, jx), Rooted(ix)
    PROVE  Rooted(jx)
  <1>1. /\ Live(jx) = Live(ix) /\ jx.dir = ix.dir /\ jx.parent = ix.parent /\ jx.rec = ix.rec
    BY DEF SamePlaces, Live
  <1>2. \A x \in Live(ix) : Ancestors(jx, x) = Ancestors(ix, x)
    BY <1>1, LiveNodes, SameAncestors
  <1> QED
    BY <1>1, <1>2 DEF Rooted, IsRoot

\* The configured paths name folders, or nothing.
NameFolders(ix, paths) == \A path \in paths : Lookup(ix, path) \in ix.dir \cup {NoNode}

\* So the scan leaves the marks of the files with their folders.
LEMMA PrunedApartIs ==
    ASSUME NEW ix \in IndexType, Rooted(ix), Apart(ix), NEW paths \in SUBSET Seq(Name),
           IsFiniteSet(paths), NameFolders(ix, paths)
    PROVE  Apart(ExcludeAll(ix, paths))
  <1> DEFINE P == {jx \in IndexType : SamePlaces(ix, jx) /\ Apart(jx)}
  <1>1. PICK g : Prunes(g, ix, paths) /\ ExcludeAll(ix, paths) = g[paths]
    BY ExcludeAllIs
  <1>2. ix \in P
    BY DEF SamePlaces
  <1>3. ASSUME NEW path \in paths, NEW jx \in IndexType \cap P
        PROVE  Prune(path, jx) \in P
    <2> DEFINE top == Lookup(jx, path)
    <2>1. jx \in IndexType /\ SamePlaces(ix, jx) /\ Apart(jx) /\ path \in Seq(Name)
      OBVIOUS
    <2>2. top = Lookup(ix, path) /\ top \in Stands /\ jx.dir = ix.dir
      BY <2>1, LookupSame DEF SamePlaces
    <2>3. Rooted(jx)
      BY <2>1, RootedSame
    <2>4. Prune(path, jx) \in IndexType /\ SamePlaces(ix, Prune(path, jx))
      BY <2>1, PruneType, SamePlacesTransitive
    <2>5. Apart(Prune(path, jx))
      <3>1. CASE top = NoNode
        BY <2>1, <3>1 DEF Prune
      <3>2. CASE top # NoNode
        <4>1. top \in Node /\ top \in jx.dir
          BY <2>2, <3>2 DEF Stands, NameFolders
        <4>2. Prune(path, jx) = ExcludeSubtree(jx, top)
          BY <3>2 DEF Prune
        <4> HIDE DEF top
        <4> QED
          BY <2>1, <2>3, <4>1, <4>2, PruneApart
      <3> QED
        BY <3>1, <3>2
    <2> QED
      BY <2>4, <2>5
  <1> HIDE DEF P
  <1>4. g[paths] \in P
    BY <1>1, <1>2, <1>3, PrunesStay
  <1> QED
    BY <1>1, <1>4 DEF P

LEMMA CoalesceStill ==
    ASSUME mft \in [Rec -> FileRecord], NEW records \in Seq(StillRecord)
    PROVE  Coalesce(records) \in Seq(StillPending)
  <1>1. records \in Seq(UsnRecord) /\ Len(records) \in Nat
        /\ \A k \in 1 .. Len(records) : records[k] \in StillRecord
    <2>1. StillRecord \subseteq UsnRecord
      BY DEF StillRecord
    <2>2. \A k \in 1 .. Len(records) : records[k] \in StillRecord
      OBVIOUS
    <2>3. records = [k \in 1 .. Len(records) |-> records[k]] /\ Len(records) \in Nat
      OBVIOUS
    <2>4. records \in Seq(UsnRecord)
      BY <2>1, <2>2, <2>3
    <2> QED
      BY <2>2, <2>4
  <1>2. PICK f : Takes(f, records) /\ Coalesce(records) = f[Len(records)]
    BY <1>1, CoalesceIs
  <1>3. f[0] \in Seq(StillPending)
    BY <1>2 DEF Takes
  <1>4. ASSUME NEW k \in 1 .. Len(records), f[k - 1] \in Seq(StillPending)
        PROVE  f[k] \in Seq(StillPending)
    <2> DEFINE ps == f[k - 1]
               r == records[k]
               i == PlaceOf(ps, r)
    <2>1. k - 1 \in 0 .. Len(records) /\ r \in StillRecord /\ r \in UsnRecord
      BY <1>1 DEF StillRecord
    <2>2. ps \in Seq(PendingType)
      BY <1>2, <2>1 DEF Takes
    <2>3. f[k] = TakeIn(ps, r)
      BY <1>2 DEF Takes
    <2>4. \A p \in StillPending : Absorb(p, r) \in StillPending
      <3>1. ASSUME NEW p \in StillPending
            PROVE  Absorb(p, r) \in StillPending
        <4>1. p \in PendingType /\ ~p.renamed /\ "newName" \notin r.reasons
          BY <2>1 DEF StillPending, StillRecord
        <4>2. Absorb(p, r) \in PendingType
          BY <2>1, <4>1, AbsorbType
        <4>3. Absorb(p, r).renamed = (p.renamed \/ "newName" \in r.reasons)
          BY <4>1 DEF Absorb, PendingType
        <4> QED
          BY <4>1, <4>2, <4>3 DEF StillPending
      <3> QED
        BY <3>1
    <2>5. Absorb(Blank(r.rec), r) \in StillPending
      <3>1. Absorb(Blank(r.rec), r) \in PendingType
        BY <2>1, AbsorbType
      <3>2. ~Absorb(Blank(r.rec), r).renamed
        BY <2>1 DEF Absorb, Blank, StillRecord
      <3> QED
        BY <3>1, <3>2 DEF StillPending
    <2>6. i = 0 \/ i \in 1 .. Len(ps)
      BY <2>2, PlaceOfIs
    <2> HIDE DEF ps, r, i
    <2>7. CASE i = 0
      <3>1. TakeIn(ps, r) = Append(ps, Absorb(Blank(r.rec), r))
        BY <2>7 DEF TakeIn, i
      <3> HIDE DEF Takes
      <3>2. ps \in Seq(StillPending)
        BY <1>4 DEF ps
      <3> QED
        BY <2>3, <2>5, <3>1, <3>2, AppendProperties
    <2>8. CASE i # 0
      <3>1. TakeIn(ps, r) = [ps EXCEPT ![i] = Absorb(@, r)]
        BY <2>8 DEF TakeIn, i
      <3>2. ps \in Seq(StillPending) /\ i \in 1 .. Len(ps)
        BY <1>4, <2>6, <2>8 DEF ps
      <3>3. ps[i] \in StillPending
        BY <3>2
      <3>4. Absorb(ps[i], r) \in StillPending
        BY <2>4, <3>3
      <3>5. [ps EXCEPT ![i] = Absorb(ps[i], r)] \in Seq(StillPending)
        BY <3>2, <3>4, ExceptSeq
      <3> QED
        BY <2>3, <3>1, <3>5
    <2> QED
      BY <2>7, <2>8
  <1> DEFINE T == Seq(StillPending)
  <1>5. f[0] \in T /\ \A k \in 1 .. Len(records) : f[k - 1] \in T => f[k] \in T
    BY <1>3, <1>4
  <1> HIDE DEF T
  <1>6. f[Len(records)] \in T
    BY <1>1, <1>5, StaysIn
  <1> QED
    BY <1>2, <1>6 DEF T

\* What a folded record asks for.
LEMMA TranslatedStill ==
    ASSUME index \in IndexType, mft \in [Rec -> FileRecord], NEW p \in StillPending
    PROVE  Translated(p) \in Seq(StillChange)
  <1> DEFINE q == ResolveStat(p.parent, p.name)
  <1>1. p \in PendingType /\ ~p.renamed
    BY DEF StillPending
  <1>2. Translated(p) = Asks(p, StatSize(q), StatDir(p, q), q # NoNode)
    BY TranslatedIs
  <1>3. q \in Rec \cup {NoNode}
    BY <1>1, ResolveStatType DEF PendingType
  <1> HIDE DEF q
  <1>4. StatSize(q) \in Nat /\ StatDir(p, q) \in BOOLEAN /\ p.dir \in BOOLEAN /\ 0 \in Nat
    BY <1>1, <1>3 DEF StatSize, StatDir, PendingType, FileRecord
  <1>5. \A kind \in {"created", "deleted", "resized"}, dir \in BOOLEAN, sz \in Nat :
          ChangeOf(p, kind, dir, sz) \in StillChange
    <2>1. ASSUME NEW kind \in {"created", "deleted", "resized"}, NEW dir \in BOOLEAN, NEW sz \in Nat
          PROVE  ChangeOf(p, kind, dir, sz) \in StillChange
      <3>1. kind \in {"created", "deleted", "resized", "renamed"} /\ kind # "renamed"
        OBVIOUS
      <3>2. ChangeOf(p, kind, dir, sz) \in AnyChange
        BY <1>1, <3>1, ChangeOfType
      <3>3. ChangeOf(p, kind, dir, sz).kind = kind
        BY DEF ChangeOf
      <3> QED
        BY <3>1, <3>2, <3>3 DEF StillChange
    <2> QED
      BY <2>1
  <1>6. \A x \in StillChange : <<x>> \in Seq(StillChange)
    OBVIOUS
  <1>7. <<>> \in Seq(StillChange) /\ \A s \in Seq(StillChange) : <<>> \o s = s
    OBVIOUS
  <1>8. Asks(p, StatSize(q), StatDir(p, q), q # NoNode) \in Seq(StillChange)
    <2> DEFINE X == <<ChangeOf(p, "deleted", p.dir, 0)>>
               Y == <<ChangeOf(p, "created", StatDir(p, q), StatSize(q))>>
               Z == <<ChangeOf(p, "resized", p.dir, StatSize(q))>>
               E == <<>>
    <2>1. X \in Seq(StillChange) /\ Y \in Seq(StillChange) /\ Z \in Seq(StillChange)
      BY <1>4, <1>5, <1>6
    <2>2. Asks(p, StatSize(q), StatDir(p, q), q # NoNode) \in {E, X, Y, E \o Z, E \o E}
      BY <1>1 DEF Asks
    <2>3. E \in Seq(StillChange) /\ E \o Z = Z /\ E \o E = E
      BY <1>7, <2>1
    <2> HIDE DEF X, Y, Z, E
    <2> QED
      BY <2>1, <2>2, <2>3
  <1> QED
    BY <1>2, <1>8

------------------------------------------------------------------------------
\* Pruned files: at every step.

\* The marks are where they belong, and nothing on its way to the index moves a
\* file where something is pruned.
MarksInv ==
    /\ LiveTypes /\ Tree(Places(mft))
    /\ PrunedApart => Unmoved /\ Apart(index)

\* What the scan of a volume in its guard builds is rooted.
LEMMA BuiltRooted ==
    ASSUME NEW vol \in [Rec -> FileRecord], Tree(Places(vol)),
           \A r \in Rec : vol[r].live => RootRec \in UpFrom(vol, r, ClimbGuard + 1)
    PROVE  /\ Built(vol) \in IndexType /\ RecordTableSound(Built(vol)) /\ FlagsSound(Built(vol))
           /\ Rooted(Built(vol)) /\ Built(vol).excl = {}
  <1>1. /\ Built(vol) \in IndexType /\ SamePlaces(Scanned(vol), Built(vol))
        /\ Built(vol).excl = {}
    BY BuiltIs
  <1>2. RecordTableSound(Built(vol)) /\ FlagsSound(Built(vol))
    BY <1>1, ScanSound
  <1>3. Places(vol) \in Layout /\ InGuard(Places(vol))
    BY ShallowIs
  <1>4. Mixed(Built(vol), Places(vol), Places(vol))
    BY <1>1, ScanShows
  <1>5. Agree(Places(vol), Places(vol))
    BY AgreeSelf
  <1>6. Rooted(Built(vol))
    BY <1>1, <1>2, <1>3, <1>4, <1>5, MixedRooted
  <1> QED
    BY <1>1, <1>2, <1>6

LEMMA MarksInit == Init => MarksInv
  <1> SUFFICES ASSUME Init
               PROVE  MarksInv
    OBVIOUS
  <1>1. LiveTypes
    BY TypesInit
  <1>2. /\ mft \in [Rec -> FileRecord] /\ mft \in Now.volumes /\ regime \in DOMAIN Regimes
    BY <1>1 DEF LiveTypes, VolumeTypes, Init, VolumeInit
  <1>3. Tree(Places(mft))
    BY <1>2, NowIs, TreeMounted
  <1>4. index.excl = {}
    BY <1>2, BuiltIs DEF Init
  <1>5. /\ pending = <<>> /\ changes = <<>> /\ journal = <<>>
        /\ \A r \in Rec : open[r] = {}
    BY DEF Init, VolumeInit
  <1>6. Unmoved
    BY <1>4, <1>5 DEF Unmoved
  <1> QED
    BY <1>1, <1>3, <1>4, <1>6 DEF MarksInv, Apart

\* The volume writes of no move where files are not renamed.
LEMMA VolumeStill ==
    ASSUME VolumeTypes, VolumeTypes', VolumeNext,
           Now.ops \cap {"rename", "renameOpen"} = {},
           \A r \in Rec : "newName" \notin open[r], journal \in Seq(StillRecord)
    PROVE  (\A r \in Rec : "newName" \notin open[r])' /\ journal' \in Seq(StillRecord)
  <1>0. /\ mft \in [Rec -> FileRecord] /\ mft' \in [Rec -> FileRecord]
        /\ open \in [Rec -> SUBSET Reason]
        /\ \A r \in Rec : mft[r] \in FileRecord /\ mft'[r] \in FileRecord
        /\ Now.bytes \subseteq Nat
    BY NowIs DEF VolumeTypes
  <1>1. ASSUME NEW r \in Rec, NEW as \in FileRecord, NEW reasons \in SUBSET Reason,
               "newName" \notin reasons
        PROVE  Append(journal, Record(r, as, reasons)) \in Seq(StillRecord)
    <2>1. Record(r, as, reasons) \in UsnRecord /\ Record(r, as, reasons).reasons = reasons
      BY RecordType DEF Record
    <2>2. Record(r, as, reasons) \in StillRecord
      BY <1>1, <2>1 DEF StillRecord
    <2> QED
      BY <2>2, AppendProperties
  <1>2. ASSUME NEW r \in Rec, Delete(r)
        PROVE  (\A q \in Rec : "newName" \notin open[q])' /\ journal' \in Seq(StillRecord)
    <2>1. open[r] \cup {"delete"} \in SUBSET Reason /\ "newName" \notin open[r] \cup {"delete"}
      BY <1>0 DEF Reason
    <2>2. journal' \in Seq(StillRecord)
      BY <1>0, <1>1, <1>2, <2>1 DEF Delete
    <2>3. \A q \in Rec : "newName" \notin open'[q]
      BY <1>0, <1>2 DEF Delete
    <2> QED
      BY <2>2, <2>3
  <1>3. ASSUME NEW r \in Rec, Close(r)
        PROVE  (\A q \in Rec : "newName" \notin open[q])' /\ journal' \in Seq(StillRecord)
    <2>1. journal' \in Seq(StillRecord)
      BY <1>0, <1>1, <1>3 DEF Close
    <2>2. \A q \in Rec : "newName" \notin open'[q]
      BY <1>0, <1>3 DEF Close
    <2> QED
      BY <2>1, <2>2
  <1>4. ASSUME NEW r \in Rec, NEW sz \in Now.bytes, Write(r, sz)
        PROVE  (\A q \in Rec : "newName" \notin open[q])' /\ journal' \in Seq(StillRecord)
    <2>1. open' = [open EXCEPT ![r] = open[r] \cup {"size"}]
      BY <1>4 DEF Write
    <2>2. \A q \in Rec : "newName" \notin open'[q]
      BY <1>0, <2>1
    <2>3. open'[r] \in SUBSET Reason /\ "newName" \notin open'[r]
      BY <1>0, <2>1, <2>2 DEF Reason
    <2>4. journal' \in Seq(StillRecord)
      BY <1>0, <1>1, <1>4, <2>3 DEF Write
    <2> QED
      BY <2>2, <2>4
  <1>5. ASSUME NEW r \in Rec, NEW p \in Rec, NEW nm \in Name, NEW isDir \in BOOLEAN,
               Create(r, p, nm, isDir)
        PROVE  (\A q \in Rec : "newName" \notin open[q])' /\ journal' \in Seq(StillRecord)
    <2>1. {"create"} \in SUBSET Reason /\ "newName" \notin {"create"}
      BY DEF Reason
    <2>2. journal' \in Seq(StillRecord)
      BY <1>0, <1>1, <1>5, <2>1 DEF Create
    <2>3. \A q \in Rec : "newName" \notin open'[q]
      BY <1>0, <1>5 DEF Create
    <2> QED
      BY <2>2, <2>3
  <1>6. ASSUME NEW r \in Rec, NEW p \in Rec, NEW nm \in Name
        PROVE  ~Rename(r, p, nm)
    BY DEF Rename, Step
  <1> QED
    BY <1>2, <1>3, <1>4, <1>5, <1>6 DEF VolumeNext

LEMMA MarksKept == MarksInv /\ Shallow' /\ [Next]_vars => MarksInv'
  <1> SUFFICES ASSUME MarksInv, Shallow', [Next]_vars
               PROVE  MarksInv'
    OBVIOUS
  <1>1. LiveTypes /\ LiveTypes' /\ Tree(Places(mft))
    BY TypesKept DEF MarksInv
  <1>2. /\ mft \in [Rec -> FileRecord] /\ index \in IndexType
        /\ RecordTableSound(index) /\ FlagsSound(index)
        /\ Now.excluded \in SUBSET Seq(Name) /\ IsFiniteSet(Now.excluded)
    BY <1>1, NowIs DEF LiveTypes, VolumeTypes, IndexSound
  <1>3. VolumeTypes /\ VolumeTypes'
    BY <1>1 DEF LiveTypes
  <1>4. Tree(Places(mft'))
    BY <1>1, <1>3, TreeKept DEF Next, Scan, ReadBatch, Translate, ApplyChange, ChangeVolume,
       vars, volumeVars
  <1>5. Now' = Now
    <2>1. regime' = regime
      BY <1>3, VolumeTypesKept DEF Next, Scan, ReadBatch, Translate, ApplyChange, ChangeVolume,
         vars, volumeVars
    <2> QED
      BY <2>1 DEF Now
  <1>6. ASSUME PrunedApart'
        PROVE  Unmoved' /\ Apart(index')
    <2>1. PrunedApart /\ ~unfollowed'
      <3>1. ~unfollowed'
        BY <1>6 DEF PrunedApart
      <3>2. \/ unfollowed' = (unfollowed \/ FilePruned)
            \/ unfollowed' = unfollowed
            \/ unfollowed' = (unfollowed \/ FolderLeaves)
        BY DEF Next, Scan, ReadBatch, Translate, ApplyChange, ChangeVolume, vars
      <3>3. ~unfollowed
        BY <3>1, <3>2
      <3> QED
        BY <1>5, <1>6, <3>1, <3>3 DEF PrunedApart
    <2>2. Unmoved /\ Apart(index)
      BY <2>1 DEF MarksInv
    <2>3. CASE Scan
      <3>1. /\ index' = ExcludeAll(Built(mft), Now.excluded)
            /\ mft' = mft /\ open' = open /\ journal' = journal
            /\ pending' = pending /\ changes' = changes /\ ~FilePruned
        BY <2>1, <2>3 DEF Scan, volumeVars
      <3>2. \A r \in Rec : mft[r].live => RootRec \in UpFrom(mft, r, ClimbGuard + 1)
        BY <3>1 DEF Shallow
      <3>3. /\ Built(mft) \in IndexType /\ Rooted(Built(mft)) /\ Built(mft).excl = {}
        BY <1>1, <1>2, <3>2, BuiltRooted
      <3>4. NameFolders(Built(mft), Now.excluded)
        BY <3>1 DEF FilePruned, NameFolders
      <3>5. Apart(Built(mft))
        BY <3>3 DEF Apart
      <3>6. Apart(index')
        BY <1>2, <3>1, <3>3, <3>4, <3>5, PrunedApartIs
      <3>7. Now.excluded = {} => index'.excl = {}
        BY <1>2, <3>1, ScanIndexIs
      <3> QED
        BY <1>5, <2>2, <3>1, <3>6, <3>7 DEF Unmoved
    <2>4. CASE ReadBatch
      <3>1. PICK k \in 1 .. Now.batch : /\ k <= Len(journal)
                                        /\ pending' = Coalesce(SubSeq(journal, 1, k))
                                        /\ journal' = SubSeq(journal, k + 1, Len(journal))
        BY <2>4 DEF ReadBatch
      <3>2. /\ index' = index /\ open' = open /\ changes' = changes
        BY <2>4 DEF ReadBatch
      <3>3. ASSUME journal \in Seq(StillRecord)
            PROVE  pending' \in Seq(StillPending) /\ journal' \in Seq(StillRecord)
        <4>1. k \in Int /\ k >= 1
          OBVIOUS
        <4>2. SubSeq(journal, 1, k) \in Seq(StillRecord)
              /\ SubSeq(journal, k + 1, Len(journal)) \in Seq(StillRecord)
          BY <3>1, <3>3, <4>1
        <4> QED
          BY <1>2, <3>1, <4>2, CoalesceStill
      <3> QED
        BY <1>5, <2>2, <3>2, <3>3 DEF Unmoved
    <2>5. CASE Translate
      <3>1. /\ pending # <<>> /\ pending' = Tail(pending)
            /\ changes' = changes \o Translated(Head(pending))
            /\ index' = index /\ open' = open /\ journal' = journal
        BY <2>5 DEF Translate, volumeVars
      <3>2. ASSUME pending \in Seq(StillPending), changes \in Seq(StillChange)
            PROVE  pending' \in Seq(StillPending) /\ changes' \in Seq(StillChange)
        <4>1. Head(pending) \in StillPending /\ Tail(pending) \in Seq(StillPending)
          BY <3>1, <3>2, HeadTailProperties
        <4>2. Translated(Head(pending)) \in Seq(StillChange)
          BY <1>2, <4>1, TranslatedStill
        <4> QED
          BY <3>1, <3>2, <4>1, <4>2, ConcatProperties
      <3> QED
        BY <1>5, <2>2, <3>1, <3>2 DEF Unmoved
    <2>6. CASE ApplyChange
      <3>1. /\ changes # <<>> /\ index.n < MaxNodes
            /\ index' = Apply(index, Head(changes)) /\ changes' = Tail(changes)
            /\ pending' = pending /\ open' = open /\ journal' = journal
        BY <2>6 DEF ApplyChange, volumeVars
      <3>2. changes \in Seq(AnyChange) /\ Head(changes) \in AnyChange
        BY <1>1, <3>1, HeadTailProperties DEF LiveTypes, IndexSound
      <3>3. ASSUME changes \in Seq(StillChange)
            PROVE  changes' \in Seq(StillChange) /\ Head(changes).kind # "renamed"
        BY <3>1, <3>3, HeadTailProperties DEF StillChange
      <3>4. Head(changes).kind = "renamed" => index.excl = {}
        BY <2>2, <3>3 DEF Unmoved
      <3>5. Apart(index') /\ index'.excl = index.excl
        BY <1>2, <2>2, <3>1, <3>2, <3>4, ApplyApart
      <3> QED
        BY <1>5, <2>2, <3>1, <3>3, <3>5 DEF Unmoved
    <2>7. CASE ChangeVolume
      <3>1. /\ VolumeNext /\ index' = index /\ pending' = pending /\ changes' = changes
        BY <2>7 DEF ChangeVolume, indexVars
      <3>2. ASSUME Now.excluded # {}
            PROVE  (\A r \in Rec : "newName" \notin open[r])' /\ journal' \in Seq(StillRecord)
        <4>1. Now.ops \cap {"rename", "renameOpen"} = {}
          BY <2>1, <3>2 DEF PrunedApart
        <4>2. (\A r \in Rec : "newName" \notin open[r]) /\ journal \in Seq(StillRecord)
          BY <2>2, <3>2 DEF Unmoved
        <4> QED
          BY <1>3, <3>1, <4>1, <4>2, VolumeStill
      <3> QED
        BY <1>5, <2>2, <3>1, <3>2 DEF Unmoved
    <2>8. CASE UNCHANGED vars
      BY <1>5, <2>2, <2>8 DEF vars, volumeVars, indexVars, Unmoved
    <2> QED
      BY <2>3, <2>4, <2>5, <2>6, <2>7, <2>8 DEF Next
  <1> QED
    BY <1>1, <1>4, <1>6 DEF MarksInv

\* A file is pruned exactly when its folder is: pruning takes a subtree, what is
\* created in it afterwards is kept out, and resizes and deletions leave the marks
\* alone (exclude_subtree, apply_create, apply_delete).
THEOREM MarksStayTogether == Spec /\ []Shallow => []PrunedTogether
  <1>1. Init => MarksInv
    BY MarksInit
  <1>2. MarksInv /\ Shallow' /\ [Next]_vars => MarksInv'
    BY MarksKept
  <1>3. MarksInv => PrunedTogether
    BY DEF MarksInv, PrunedTogether, Apart
  <1> QED
    BY <1>1, <1>2, <1>3, PTL DEF Spec

------------------------------------------------------------------------------
\* The index follows the history: at every step of the volume.

FoldedTells(v, w, x) ==
    IF x.deleted THEN ~x.created /\ Gone(v, w, x)
    ELSE IF x.created THEN Made(v, w, x)
    ELSE IF x.renamed THEN Moved(v, w, x)
    ELSE Stays(v, w, x)

\* What is on its way to the index makes w of v: nothing, one folded record, or
\* the one or two changes of it.
HeadTells(v, w) ==
    \/ pending = <<>> /\ changes = <<>> /\ w = v
    \/ changes = <<>> /\ Len(pending) = 1 /\ FoldedTells(v, w, pending[1])
    \/ pending = <<>> /\ Len(changes) = 1 /\ ChangeTells(v, w, changes[1])
    \/ /\ pending = <<>> /\ Len(changes) = 2
       /\ changes[1].kind = "renamed" /\ changes[2].kind = "resized"
       /\ ChangeTells(v, w, changes[1]) /\ ChangeTells(w, w, changes[2])

\* The index shows the beginning of the history, or what the scan saw of it.
HistoryOf(h, K, jr, m) ==
    /\ Chronicle(h, K, jr, m)
    /\ HeadTells(h[0], h[1])
    /\ IF scanned THEN Mixed(index, h[0], h[K])
       ELSE K = Len(jr) + 1 /\ pending = <<>> /\ changes = <<>>

\* The reasons of an open file are those of its creation or of its move.
Handles ==
    \A r \in Rec :
        /\ open[r] # {} => mft[r].live /\ r # RootRec
        /\ open[r] \subseteq {"create", "size"} \/ open[r] \subseteq {"newName", "size"}

\* A daemon that keeps up has at most the two records of a rename to read.
Paired(jr) ==
    /\ Len(jr) <= 2
    /\ Len(jr) = 2 => /\ jr[1].rec = jr[2].rec
                      /\ jr[1].reasons = {"oldName"} /\ jr[2].reasons = {"newName"}

Followed ==
    /\ Handles /\ (Now.lag = 0 => Paired(journal))
    /\ \E h, K : HistoryOf(h, K, journal, Places(mft))

\* The volume writes one more record.
LEMMA HistoryGrows ==
    ASSUME scanned \in BOOLEAN,
           NEW jr \in Seq(UsnRecord), NEW x \in UsnRecord, NEW h, NEW K, NEW m,
           HistoryOf(h, K, jr, m), NEW w \in Layout, Tree(w), InGuard(w), RecordTells(m, w, x),
           ~scanned => SettledAt(h, K, w, x.rec)
    PROVE  \E g, L : /\ HistoryOf(g, L, Append(jr, x), w)
                     /\ Longer(h, K, g, L, Len(jr) + 1, scanned)
  <1>1. Chronicle(h, K, jr, m) /\ HeadTells(h[0], h[1])
        /\ (scanned => Mixed(index, h[0], h[K]))
        /\ (~scanned => K = Len(jr) + 1 /\ pending = <<>> /\ changes = <<>>)
    BY DEF HistoryOf
  <1>2. PICK g, L : /\ Chronicle(g, L, Append(jr, x), w)
                    /\ Longer(h, K, g, L, Len(jr) + 1, scanned)
    BY <1>1, OneMore
  <1>3. K \in 0 .. Len(jr) + 1 /\ Len(jr) \in Nat
    BY <1>1 DEF Chronicle
  <1>4. /\ \A i \in 0 .. Len(jr) + 1 : g[i] = h[i]
        /\ L = IF scanned THEN K ELSE K + 1
    BY <1>2 DEF Longer
  <1>5. 0 \in 0 .. Len(jr) + 1 /\ 1 \in 0 .. Len(jr) + 1
    BY <1>3
  <1>6. g[0] = h[0] /\ g[1] = h[1] /\ g[K] = h[K]
    BY <1>3, <1>4, <1>5
  <1>7. scanned => Mixed(index, g[0], g[L])
    BY <1>1, <1>4, <1>6
  <1>8. ~scanned => L = Len(Append(jr, x)) + 1
    BY <1>1, <1>3, <1>4
  <1>9. HistoryOf(g, L, Append(jr, x), w)
    BY <1>1, <1>2, <1>6, <1>7, <1>8 DEF HistoryOf
  <1> QED
    BY <1>2, <1>9

LEMMA HistoryCarries ==
    ASSUME UNCHANGED indexVars, NEW h, NEW K, HistoryOf(h, K, journal', Places(mft'))
    PROVE  (\E g, L : HistoryOf(g, L, journal, Places(mft)))'
  <1>1. HistoryOf(h, K, journal, Places(mft))'
    BY DEF HistoryOf, HeadTells, indexVars
  <1> QED
    BY <1>1
-----------------------------------------------------------------------------
\* What every step of the volume is proved from.
VolumeStep ==
    /\ LiveTypes /\ LiveTypes' /\ Shallow' /\ StepByStep /\ Followed
    /\ Near /\ UNCHANGED indexVars /\ regime' = regime /\ (scanned \/ ~FolderLeaves)

LEMMA VolumeStepIs ==
    ASSUME VolumeStep
    PROVE  /\ VolumeTypes /\ VolumeTypes' /\ scanned \in BOOLEAN
           /\ mft \in [Rec -> FileRecord] /\ mft' \in [Rec -> FileRecord]
           /\ journal \in Seq(UsnRecord) /\ open \in [Rec -> SUBSET Reason]
           /\ Places(mft) \in Layout /\ Places(mft') \in Layout /\ InGuard(Places(mft'))
           /\ Tree(Places(mft)) /\ Now' = Now /\ Handles
           /\ (Now.lag = 0 => journal = <<>>)
           /\ (Now.lag # 0 => Now.maxSeq = 1)
           /\ index' = index /\ pending' = pending /\ changes' = changes /\ scanned' = scanned
  <1>1. /\ VolumeTypes /\ VolumeTypes' /\ scanned \in BOOLEAN
        /\ mft \in [Rec -> FileRecord] /\ mft' \in [Rec -> FileRecord]
        /\ journal \in Seq(UsnRecord) /\ open \in [Rec -> SUBSET Reason]
        /\ pending \in Seq(PendingType) /\ changes \in Seq(AnyChange)
    BY DEF VolumeStep, LiveTypes, VolumeTypes, IndexSound
  <1>2. Places(mft) \in Layout
    BY <1>1, PlacesIs
  <1>3. Places(mft') \in Layout /\ InGuard(Places(mft'))
    <2>1. \A r \in Rec : mft'[r].live => RootRec \in UpFrom(mft', r, ClimbGuard + 1)
      BY DEF VolumeStep, Shallow
    <2> QED
      BY <1>1, <2>1, ShallowIs
  <1>4. Tree(Places(mft)) /\ Handles
    <2>1. PICK h, K : HistoryOf(h, K, journal, Places(mft))
      BY DEF VolumeStep, Followed
    <2>2. Len(journal) + 1 \in 0 .. Len(journal) + 1
      BY <1>1
    <2> QED
      BY <2>1, <2>2 DEF HistoryOf, Chronicle, VolumeStep, Followed
  <1>5. Now' = Now
    BY DEF Now, VolumeStep
  <1>6. Now.lag = 0 => journal = <<>>
    <2>1. Len(journal) \in Nat /\ Len(pending) \in Nat /\ Len(changes) \in Nat
      BY <1>1
    <2>2. Now.lag = 0 => Len(journal) = 0
      BY <2>1 DEF VolumeStep, Near
    <2> QED
      BY <1>1, <2>2
  <1> QED
    BY <1>1, <1>2, <1>3, <1>4, <1>5, <1>6 DEF VolumeStep, indexVars, StepByStep

\* The reasons of the one file a step opens or closes.
LEMMA HandlesKept ==
    ASSUME Handles, NEW r \in Rec, r # RootRec,
           \A q \in Rec : q # r => open'[q] = open[q] /\ (mft[q].live => mft'[q].live),
           open'[r] # {} => mft'[r].live,
           open'[r] \subseteq {"create", "size"} \/ open'[r] \subseteq {"newName", "size"}
    PROVE  Handles'
  <1>1. ASSUME NEW q \in Rec
        PROVE  /\ open'[q] # {} => mft'[q].live /\ q # RootRec
               /\ open'[q] \subseteq {"create", "size"} \/ open'[q] \subseteq {"newName", "size"}
    BY DEF Handles
  <1> QED
    BY <1>1 DEF Handles

\* A step that writes one record.
LEMMA FollowOne ==
    ASSUME VolumeStep, NEW r \in Rec, NEW x \in UsnRecord, x.rec = r,
           journal' = Append(journal, x), RecordTells(Places(mft), Places(mft'), x),
           Tree(Places(mft')), Handles',
           \A h, K : ~scanned /\ HistoryOf(h, K, journal, Places(mft))
                        => SettledAt(h, K, Places(mft'), r)
    PROVE  Followed'
  <1>1. /\ journal \in Seq(UsnRecord) /\ Places(mft') \in Layout /\ InGuard(Places(mft'))
        /\ scanned \in BOOLEAN /\ UNCHANGED indexVars /\ Now' = Now
        /\ (Now.lag = 0 => journal = <<>>)
    BY VolumeStepIs DEF VolumeStep
  <1>2. PICK h, K : HistoryOf(h, K, journal, Places(mft))
    BY DEF VolumeStep, Followed
  <1>3. \E g, L : HistoryOf(g, L, Append(journal, x), Places(mft'))
    BY <1>1, <1>2, HistoryGrows
  <1>4. (\E g, L : HistoryOf(g, L, journal, Places(mft)))'
    BY <1>1, <1>3, HistoryCarries
  <1>5. Now.lag = 0 => Paired(journal')
    <2>1. Now.lag = 0 => Len(journal') = 1
      BY <1>1
    <2> QED
      BY <2>1 DEF Paired
  <1> QED
    BY <1>1, <1>4, <1>5 DEF Followed

\* Before the scan the last layout is the one it would see.
LEMMA LastSeen ==
    ASSUME NEW jr, NEW h, NEW K, NEW m, HistoryOf(h, K, jr, m), ~scanned
    PROVE  h[K] = m
  BY DEF HistoryOf, Chronicle

LEMMA CreateFollowed ==
    ASSUME VolumeStep, NEW r \in Rec, NEW p \in Rec, NEW nm \in Name, NEW isDir \in BOOLEAN,
           Create(r, p, nm, isDir)
    PROVE  Followed'
  <1> DEFINE w == Places(mft')
             x == Record(r, mft'[r], {"create"})
  <1>1. /\ VolumeTypes /\ VolumeTypes' /\ scanned \in BOOLEAN
        /\ mft \in [Rec -> FileRecord] /\ mft' \in [Rec -> FileRecord]
        /\ journal \in Seq(UsnRecord) /\ open \in [Rec -> SUBSET Reason]
        /\ Tree(Places(mft)) /\ Handles
        /\ (Now.lag = 0 => journal = <<>>) /\ (Now.lag # 0 => Now.maxSeq = 1)
    BY VolumeStepIs
  <1>2. /\ ~mft[r].live
        /\ RecordTells(Places(mft), w, x) /\ Tree(w)
    BY <1>1, CreateTells
  <1>3. /\ mft[r].seq < Now.maxSeq /\ journal' = Append(journal, x)
        /\ open' = [open EXCEPT ![r] = {"create"}]
        /\ mft' = [mft EXCEPT ![r] =
                     [live |-> TRUE, seq |-> mft[r].seq + 1, parent |-> p,
                      name |-> nm, dir |-> isDir, size |-> 0]]
    BY DEF Create
  <1>4. /\ mft'[r].live /\ open'[r] = {"create"}
        /\ \A q \in Rec : q # r => open'[q] = open[q] /\ mft'[q] = mft[q]
    BY <1>1, <1>3
  <1>5. x \in UsnRecord /\ x.rec = r /\ x.reasons = {"create"}
    BY <1>1, RecordType, RecordFields DEF Reason
  <1>6. r # RootRec
    BY <1>1, <1>2, PlacesIs DEF Tree
  <1>7. Handles'
    BY <1>1, <1>4, <1>6, HandlesKept
  <1> HIDE DEF x
  <1>9. ASSUME NEW h, NEW K, ~scanned, HistoryOf(h, K, journal, Places(mft))
        PROVE  SettledAt(h, K, w, r)
    <2>1. h[K] = Places(mft)
      BY <1>9, LastSeen
    <2>2. ~h[K][r].live /\ h[K][r].seq = mft[r].seq
      BY <1>1, <1>2, <2>1, PlacesIs
    <2>3. /\ HeadTells(h[0], h[1]) /\ K = Len(journal) + 1 /\ pending = <<>> /\ changes = <<>>
          /\ Settles(h, K) /\ \A i \in 0 .. Len(journal) + 1 : Tree(h[i])
      BY <1>9 DEF HistoryOf, Chronicle
    <2>4. ~\E i \in 0 .. K : h[i][r].live
      <3> SUFFICES ASSUME NEW i \in 0 .. K, h[i][r].live
                   PROVE  FALSE
        OBVIOUS
      <3>1. CASE Now.lag = 0
        <4>1. K = 1 /\ h[0] = h[1]
          BY <1>1, <2>3, <3>1 DEF HeadTells
        <4>2. i = 0 \/ i = 1
          BY <4>1
        <4> QED
          BY <2>2, <4>1, <4>2
      <3>2. CASE Now.lag # 0
        <4>1. mft[r].seq = 0
          <5>1. mft[r].seq \in Nat
            BY <1>1 DEF FileRecord
          <5> QED
            BY <1>1, <1>3, <3>2, <5>1
        <4>2. Len(journal) \in Nat
          BY <1>1
        <4>3. K \in 0 .. K /\ i \in 0 .. K
          BY <2>3, <4>2
        <4>4. h[K][r].seq = h[i][r].seq
          BY <2>3, <4>3 DEF Settles
        <4>5. h[i][r].seq > 0
          BY <2>3 DEF Tree
        <4> QED
          BY <2>2, <4>1, <4>4, <4>5
      <3> QED
        BY <3>1, <3>2
    <2> QED
      BY <2>2, <2>4 DEF SettledAt
  <1> QED
    BY <1>2, <1>3, <1>5, <1>7, <1>9, FollowOne

LEMMA CloseFollowed ==
    ASSUME VolumeStep, NEW r \in Rec, Close(r)
    PROVE  Followed'
  <1> DEFINE x == Record(r, mft[r], open[r])
  <1>1. /\ VolumeTypes /\ VolumeTypes' /\ scanned \in BOOLEAN
        /\ mft \in [Rec -> FileRecord]
        /\ journal \in Seq(UsnRecord) /\ open \in [Rec -> SUBSET Reason]
        /\ Tree(Places(mft)) /\ Handles
    BY VolumeStepIs
  <1>2. /\ open[r] # {} /\ mft' = mft
        /\ open' = [open EXCEPT ![r] = {}] /\ journal' = Append(journal, x)
    BY DEF Close
  <1>3. /\ mft[r].live /\ r # RootRec
        /\ open[r] \subseteq {"create", "size"} \/ open[r] \subseteq {"newName", "size"}
    BY <1>1, <1>2 DEF Handles
  <1>4. open'[r] = {} /\ \A q \in Rec : q # r => open'[q] = open[q]
    BY <1>1, <1>2
  <1>5. x \in UsnRecord /\ x.rec = r /\ x.reasons = open[r]
    BY <1>1, RecordType, RecordFields
  <1>6. RecordTells(Places(mft), Places(mft'), x) /\ Tree(Places(mft'))
    BY <1>1, <1>2, <1>3, OpenTells
  <1>7. Handles'
    BY <1>1, <1>2, <1>3, <1>4, HandlesKept
  <1> HIDE DEF x
  <1>9. ASSUME NEW h, NEW K, ~scanned, HistoryOf(h, K, journal, Places(mft))
        PROVE  SettledAt(h, K, Places(mft'), r)
    BY <1>2, <1>9, LastSeen, SettledSame
  <1> QED
    BY <1>2, <1>5, <1>6, <1>7, <1>9, FollowOne

LEMMA DeleteFollowed ==
    ASSUME VolumeStep, NEW r \in Rec, Delete(r)
    PROVE  Followed'
  <1> DEFINE w == Places(mft')
             x == Record(r, mft[r], open[r] \cup {"delete"})
  <1>1. /\ VolumeTypes /\ VolumeTypes' /\ scanned \in BOOLEAN
        /\ mft \in [Rec -> FileRecord] /\ mft' \in [Rec -> FileRecord]
        /\ journal \in Seq(UsnRecord) /\ open \in [Rec -> SUBSET Reason]
        /\ Tree(Places(mft)) /\ Handles
    BY VolumeStepIs
  <1>2. open[r] = {}
    BY DEF VolumeStep, StepByStep, Delete, Step
  <1>3. /\ mft[r].live /\ ~mft'[r].live /\ mft'[r].seq = mft[r].seq
        /\ RecordTells(Places(mft), w, x) /\ Tree(w)
    BY <1>1, <1>2, DeleteTells
  <1>4. /\ r # RootRec /\ journal' = Append(journal, x)
        /\ mft' = [mft EXCEPT ![r].live = FALSE, ![r].size = 0]
        /\ open' = [open EXCEPT ![r] = {}]
    BY DEF Delete
  <1>5. /\ open'[r] = {} /\ \A q \in Rec : q # r => open'[q] = open[q] /\ mft'[q] = mft[q]
    BY <1>1, <1>4
  <1>6. x \in UsnRecord /\ x.rec = r /\ x.reasons = {"delete"}
    BY <1>1, <1>2, RecordType, RecordFields DEF Reason
  <1>7. Handles'
    BY <1>1, <1>4, <1>5, HandlesKept
  <1> HIDE DEF x
  <1>9. ASSUME NEW h, NEW K, ~scanned, HistoryOf(h, K, journal, Places(mft))
        PROVE  SettledAt(h, K, w, r)
    <2>1. h[K] = Places(mft)
      BY <1>9, LastSeen
    <2>2. h[K][r].live /\ h[K][r].seq = mft[r].seq /\ h[K][r].dir = mft[r].dir
      BY <1>1, <1>3, <2>1, PlacesIs
    <2>3. ~mft[r].dir
      BY <1>3, <1>9 DEF VolumeStep, FolderLeaves
    <2>4. ~w[r].live /\ w[r].seq = mft[r].seq
      BY <1>1, <1>3, PlacesIs
    <2> QED
      BY <2>2, <2>3, <2>4 DEF SettledAt
  <1> QED
    BY <1>3, <1>4, <1>6, <1>7, <1>9, FollowOne

LEMMA WriteFollowed ==
    ASSUME VolumeStep, NEW r \in Rec, NEW sz \in Nat, Write(r, sz)
    PROVE  Followed'
  <1> DEFINE x == Record(r, mft[r], open'[r])
  <1>1. /\ VolumeTypes /\ VolumeTypes' /\ scanned \in BOOLEAN
        /\ mft \in [Rec -> FileRecord] /\ mft' \in [Rec -> FileRecord]
        /\ journal \in Seq(UsnRecord) /\ open \in [Rec -> SUBSET Reason]
        /\ Tree(Places(mft)) /\ Handles /\ Now' = Now /\ UNCHANGED indexVars
    BY VolumeStepIs DEF VolumeStep
  <1>2. /\ Places(mft') = Places(mft) /\ mft[r].live /\ ~mft[r].dir
        /\ \A q \in Rec : mft'[q].live = mft[q].live
    BY <1>1, WriteSame
  <1>3. open' = [open EXCEPT ![r] = @ \cup {"size"}]
        /\ journal' = IF "size" \in open[r] THEN journal ELSE Append(journal, x)
    BY DEF Write
  <1>4. open'[r] = open[r] \cup {"size"} /\ \A q \in Rec : q # r => open'[q] = open[q]
    BY <1>1, <1>3
  <1>5. r # RootRec
    BY <1>1, <1>2, PlacesIs DEF Tree
  <1>6. open'[r] \subseteq {"create", "size"} \/ open'[r] \subseteq {"newName", "size"}
    BY <1>1, <1>4 DEF Handles
  <1>7. Handles'
    BY <1>1, <1>2, <1>4, <1>5, <1>6, HandlesKept
  <1>8. x \in UsnRecord /\ x.rec = r /\ x.reasons = open'[r]
    <2>1. open'[r] \subseteq Reason
      BY <1>1, <1>4 DEF Reason
    <2> QED
      BY <1>1, <2>1, RecordType, RecordFields
  <1>9. RecordTells(Places(mft), Places(mft'), x) /\ Tree(Places(mft'))
    BY <1>1, <1>2, <1>5, <1>6, OpenTells
  <1> HIDE DEF x
  <1>11. CASE "size" \in open[r]
    <2>1. PICK h, K : HistoryOf(h, K, journal, Places(mft))
      BY DEF VolumeStep, Followed
    <2>2. journal' = journal
      BY <1>3, <1>11
    <2>3. (\E g, L : HistoryOf(g, L, journal, Places(mft)))'
      BY <1>1, <1>2, <2>1, <2>2, HistoryCarries
    <2>4. Now.lag = 0 => Paired(journal')
      BY <2>2 DEF VolumeStep, Followed
    <2> QED
      BY <1>1, <1>7, <2>3, <2>4 DEF Followed
  <1>12. CASE "size" \notin open[r]
    <2>1. journal' = Append(journal, x)
      BY <1>3, <1>12
    <2>2. ASSUME NEW h, NEW K, ~scanned, HistoryOf(h, K, journal, Places(mft))
          PROVE  SettledAt(h, K, Places(mft'), r)
      <3>1. h[K] = Places(mft')
        BY <1>2, <2>2, LastSeen
      <3> QED
        BY <3>1, SettledSame
    <2> QED
      BY <1>7, <1>8, <1>9, <2>1, <2>2, FollowOne
  <1> QED
    BY <1>11, <1>12

LEMMA RenameFollowed ==
    ASSUME VolumeStep, NEW r \in Rec, NEW p \in Rec, NEW nm \in Name, Rename(r, p, nm)
    PROVE  Followed'
  <1> DEFINE v == Places(mft)
             w == Places(mft')
             x == Record(r, mft[r], open[r] \cup {"oldName"})
             y == Record(r, mft'[r], open'[r])
  <1>1. /\ VolumeTypes /\ VolumeTypes' /\ scanned \in BOOLEAN
        /\ mft \in [Rec -> FileRecord] /\ mft' \in [Rec -> FileRecord]
        /\ journal \in Seq(UsnRecord) /\ open \in [Rec -> SUBSET Reason]
        /\ v \in Layout /\ w \in Layout /\ InGuard(w)
        /\ Tree(v) /\ Handles /\ Now' = Now /\ UNCHANGED indexVars
        /\ (Now.lag = 0 => journal = <<>>)
    BY VolumeStepIs DEF VolumeStep
  <1>2. open[r] = {} /\ Now.excluded = {}
    BY DEF VolumeStep, StepByStep, PrunedApart, Rename, Step
  <1>3. /\ mft[r].live /\ mft'[r].live /\ mft'[r].seq = mft[r].seq /\ mft'[r].dir = mft[r].dir
        /\ RecordTells(v, v, x) /\ RecordTells(v, w, y) /\ Tree(w)
    BY <1>1, <1>2, RenameTells
  <1>4. /\ r # RootRec /\ journal' = journal \o <<x, y>>
        /\ mft' = [mft EXCEPT ![r].parent = p, ![r].name = nm]
        /\ open' = [open EXCEPT ![r] = @ \cup {"newName"}]
    BY DEF Rename
  <1>5. /\ open'[r] = {"newName"}
        /\ \A q \in Rec : q # r => open'[q] = open[q] /\ mft'[q] = mft[q]
    <2>1. open'[r] = {"newName"} /\ \A q \in Rec : q # r => open'[q] = open[q]
      BY <1>1, <1>2, <1>4
    <2>2. \A q \in Rec : q # r => mft'[q] = mft[q]
      BY <1>1, <1>4
    <2> QED
      BY <2>1, <2>2
  <1>6. /\ x \in UsnRecord /\ x.rec = r /\ x.reasons = {"oldName"}
        /\ y \in UsnRecord /\ y.rec = r /\ y.reasons = {"newName"}
    BY <1>1, <1>2, <1>5, RecordType, RecordFields DEF Reason
  <1>7. Handles'
    BY <1>1, <1>3, <1>4, <1>5, HandlesKept
  <1> HIDE DEF x, y
  <1>9. PICK h, K : HistoryOf(h, K, journal, v)
    BY DEF VolumeStep, Followed
  <1>10. InGuard(v)
    <2>1. Len(journal) + 1 \in 0 .. Len(journal) + 1
      BY <1>1
    <2> QED
      BY <1>9, <2>1 DEF HistoryOf, Chronicle
  <1>11. PICK g, L : HistoryOf(g, L, Append(journal, x), v)
    <2>1. ~scanned => SettledAt(h, K, v, x.rec)
      BY <1>9, LastSeen, SettledSame
    <2> HIDE DEF v, w
    <2> QED
      BY <1>1, <1>3, <1>6, <1>9, <1>10, <2>1, HistoryGrows
  <1>12. ~scanned => SettledAt(g, L, w, r)
    <2> SUFFICES ASSUME ~scanned
                 PROVE  SettledAt(g, L, w, r)
      OBVIOUS
    <2>1. g[L] = v
      BY <1>11, LastSeen
    <2>2. mft[r].dir => mft'[r].parent = mft[r].parent
      BY <1>3 DEF VolumeStep, FolderLeaves
    <2>3. /\ v[r].live = mft[r].live /\ v[r].seq = mft[r].seq /\ v[r].dir = mft[r].dir
          /\ v[r].parent = mft[r].parent
          /\ w[r].live = mft'[r].live /\ w[r].seq = mft'[r].seq /\ w[r].dir = mft'[r].dir
          /\ w[r].parent = mft'[r].parent
      BY <1>1, PlacesIs
    <2> HIDE DEF v, w
    <2> QED
      BY <1>3, <2>1, <2>2, <2>3 DEF SettledAt
  <1>13. journal' = Append(Append(journal, x), y) /\ Append(journal, x) \in Seq(UsnRecord)
    BY <1>1, <1>4, <1>6
  <1>14. \E f, M : HistoryOf(f, M, journal', w)
    <2>1. ~scanned => SettledAt(g, L, w, y.rec)
      BY <1>6, <1>12
    <2> DEFINE jr == Append(journal, x)
    <2>2. jr \in Seq(UsnRecord) /\ HistoryOf(g, L, jr, v)
      BY <1>11, <1>13
    <2> HIDE DEF v, w, jr
    <2>3. \E f, M : HistoryOf(f, M, Append(jr, y), w)
      BY <1>1, <1>3, <1>6, <2>1, <2>2, HistoryGrows
    <2> QED
      BY <1>13, <2>3 DEF jr
  <1>15. (\E f, M : HistoryOf(f, M, journal, Places(mft)))'
    BY <1>1, <1>14, HistoryCarries
  <1>16. Now.lag = 0 => Paired(journal')
    <2> SUFFICES ASSUME Now.lag = 0
                 PROVE  Paired(journal')
      OBVIOUS
    <2>1. Len(journal) = 0
      BY <1>1
    <2>2. Len(journal') = 2 /\ journal'[1] = x /\ journal'[2] = y
      BY <1>1, <1>6, <1>13, <2>1
    <2> QED
      BY <1>6, <2>2 DEF Paired
  <1> QED
    BY <1>1, <1>7, <1>15, <1>16 DEF Followed

\* So every step of the volume is followed.
LEMMA VolumeFollowed ==
    ASSUME LiveTypes, LiveTypes', Shallow', StepByStep => Followed, ChangeVolume, StepByStep'
    PROVE  Followed'
  <1>1. regime' = regime
    <2>1. VolumeTypes /\ VolumeNext
      BY DEF LiveTypes, ChangeVolume
    <2> QED
      BY <2>1, VolumeTypesKept
  <1>2. StepByStep /\ (scanned \/ ~FolderLeaves)
    <2>1. ~unfollowed' /\ unfollowed' = (unfollowed \/ FolderLeaves)
      BY DEF StepByStep, PrunedApart, ChangeVolume
    <2>2. Now' = Now
      BY <1>1 DEF Now
    <2>3. ~unfollowed /\ ~FolderLeaves
      BY <2>1
    <2> QED
      BY <2>2, <2>3 DEF StepByStep, PrunedApart
  <1>3. VolumeStep
    BY <1>1, <1>2 DEF VolumeStep, ChangeVolume
  <1>4. Now.bytes \subseteq Nat
    BY NowIs DEF LiveTypes, VolumeTypes
  <1>5. VolumeNext
    BY DEF ChangeVolume
  <1> QED
    BY <1>3, <1>4, <1>5, CreateFollowed, CloseFollowed, DeleteFollowed, WriteFollowed,
       RenameFollowed DEF VolumeNext

------------------------------------------------------------------------------
\* The index follows the history: reading, folding and splitting a batch.

\* A batch of one record, and one of the two records of a rename.
LEMMA PlaceOfNone ==
    ASSUME NEW x
    PROVE  PlaceOf(<<>>, x) = 0
  <1> DEFINE none == <<>>
  <1>1. none \in Seq(PendingType) /\ Len(none) = 0
    OBVIOUS
  <1> HIDE DEF none
  <1>2. PlaceOf(none, x) # 0 => PlaceOf(none, x) \in 1 .. Len(none)
    BY <1>1, PlaceOfIs
  <1>3. PlaceOf(none, x) = 0
    BY <1>1, <1>2
  <1> QED
    BY <1>3 DEF none

LEMMA CoalesceOne ==
    ASSUME mft \in [Rec -> FileRecord], NEW x \in UsnRecord
    PROVE  Coalesce(<<x>>) = <<Absorb(Blank(x.rec), x)>>
  <1>1. <<x>> \in Seq(UsnRecord) /\ Len(<<x>>) = 1 /\ <<x>>[1] = x
    OBVIOUS
  <1>2. PICK f : Takes(f, <<x>>) /\ Coalesce(<<x>>) = f[1]
    BY <1>1, CoalesceIs
  <1>3. f[0] = <<>> /\ f[1] = TakeIn(<<>>, x)
    BY <1>1, <1>2 DEF Takes
  <1>4. PlaceOf(<<>>, x) = 0
    BY PlaceOfNone
  <1> QED
    BY <1>2, <1>3, <1>4 DEF TakeIn

LEMMA CoalesceTwo ==
    ASSUME mft \in [Rec -> FileRecord], NEW x \in UsnRecord, NEW y \in UsnRecord, x.rec = y.rec
    PROVE  Coalesce(<<x, y>>) = <<Absorb(Absorb(Blank(x.rec), x), y)>>
  <1> DEFINE p == Absorb(Blank(x.rec), x)
  <1>1. <<x, y>> \in Seq(UsnRecord) /\ Len(<<x, y>>) = 2 /\ <<x, y>>[1] = x /\ <<x, y>>[2] = y
    OBVIOUS
  <1>2. PICK f : Takes(f, <<x, y>>) /\ Coalesce(<<x, y>>) = f[2]
    BY <1>1, CoalesceIs
  <1>3. f[0] = <<>> /\ f[1] = TakeIn(<<>>, x) /\ f[2] = TakeIn(f[1], y)
    BY <1>1, <1>2 DEF Takes
  <1>4. PlaceOf(<<>>, x) = 0
    BY PlaceOfNone
  <1>5. f[1] = <<p>>
    BY <1>3, <1>4 DEF TakeIn
  <1>6. p \in PendingType /\ p.rec = x.rec
    BY AbsorbType
  <1> HIDE DEF p
  <1> DEFINE one == <<p>>
  <1>7. one \in Seq(PendingType) /\ Len(one) = 1 /\ one[1] = p
        /\ [one EXCEPT ![1] = Absorb(@, y)] = <<Absorb(p, y)>>
    BY <1>6
  <1>8. TakeIn(<<p>>, y) = <<Absorb(p, y)>>
    <2> HIDE DEF one
    <2>1. PlaceOf(one, y) = 0 => \A i \in 1 .. Len(one) : one[i].rec # y.rec
      BY <1>7, PlaceOfIs
    <2>2. PlaceOf(one, y) # 0 => PlaceOf(one, y) \in 1 .. Len(one)
      BY <1>7, PlaceOfIs
    <2>3. PlaceOf(one, y) = 1
      BY <1>6, <1>7, <2>1, <2>2
    <2>4. TakeIn(one, y) = <<Absorb(p, y)>>
      BY <1>7, <2>3 DEF TakeIn
    <2> QED
      BY <2>4 DEF one
  <1> QED
    BY <1>2, <1>3, <1>5, <1>8 DEF p

\* What is told of a record is told by its fields.
SameWords(p, x) ==
    /\ p.rec = x.rec /\ p.seq = x.seq /\ p.parent = x.parent /\ p.name = x.name
    /\ x.dir => p.dir

LEMMA SameTold ==
    ASSUME NEW v, NEW w, NEW x, NEW p, SameWords(p, x)
    PROVE  /\ Made(v, w, x) => Made(v, w, p)
           /\ Gone(v, w, x) => Gone(v, w, p)
           /\ Moved(v, w, x) => Moved(v, w, p)
           /\ Stays(v, w, x) => Stays(v, w, p)
  <1>1. \A f : Says(x, f) => Says(p, f)
    BY DEF SameWords, Says
  <1>2. p.rec = x.rec
    BY DEF SameWords
  <1>3. Made(v, w, x) => Made(v, w, p)
    BY <1>1, <1>2 DEF Made, Others
  <1>4. Gone(v, w, x) => Gone(v, w, p)
    BY <1>1, <1>2 DEF Gone, Others
  <1>5. Moved(v, w, x) => Moved(v, w, p)
    BY <1>1, <1>2 DEF Moved, Others
  <1>6. Stays(v, w, x) => Stays(v, w, p)
    BY <1>1, <1>2 DEF Stays
  <1> QED
    BY <1>3, <1>4, <1>5, <1>6

\* One record folded.
LEMMA AbsorbOne ==
    ASSUME mft \in [Rec -> FileRecord], NEW x \in UsnRecord
    PROVE  LET p == Absorb(Blank(x.rec), x)
           IN  /\ SameWords(p, x) /\ p.created = ("create" \in x.reasons)
               /\ p.deleted = ("delete" \in x.reasons) /\ p.renamed = ("newName" \in x.reasons)
  BY DEF Absorb, Blank, SameWords, UsnRecord

LEMMA AbsorbTwo ==
    ASSUME mft \in [Rec -> FileRecord], NEW x \in UsnRecord, NEW y \in UsnRecord,
           x.rec = y.rec, x.reasons = {"oldName"}, y.reasons = {"newName"}
    PROVE  LET p == Absorb(Absorb(Blank(x.rec), x), y)
           IN  SameWords(p, y) /\ ~p.created /\ ~p.deleted /\ p.renamed
  BY DEF Absorb, Blank, SameWords, UsnRecord

LEMMA FoldedOne ==
    ASSUME mft \in [Rec -> FileRecord], NEW x \in UsnRecord, NEW v, NEW w, RecordTells(v, w, x)
    PROVE  FoldedTells(v, w, Absorb(Blank(x.rec), x))
  <1> DEFINE p == Absorb(Blank(x.rec), x)
  <1>1. /\ SameWords(p, x) /\ p.created = ("create" \in x.reasons)
        /\ p.deleted = ("delete" \in x.reasons) /\ p.renamed = ("newName" \in x.reasons)
    BY AbsorbOne
  <1> HIDE DEF p
  <1>2. /\ Made(v, w, x) => Made(v, w, p)
        /\ Gone(v, w, x) => Gone(v, w, p)
        /\ Moved(v, w, x) => Moved(v, w, p)
        /\ Stays(v, w, x) => Stays(v, w, p)
    BY <1>1, SameTold
  <1>3. FoldedTells(v, w, p)
    BY <1>1, <1>2 DEF FoldedTells, RecordTells
  <1> QED
    BY <1>3 DEF p

LEMMA FoldedTwo ==
    ASSUME mft \in [Rec -> FileRecord], NEW x \in UsnRecord, NEW y \in UsnRecord,
           x.rec = y.rec, x.reasons = {"oldName"}, y.reasons = {"newName"},
           NEW v, NEW w, RecordTells(v, w, y)
    PROVE  FoldedTells(v, w, Absorb(Absorb(Blank(x.rec), x), y))
  <1> DEFINE p == Absorb(Absorb(Blank(x.rec), x), y)
  <1>1. SameWords(p, y) /\ ~p.created /\ ~p.deleted /\ p.renamed
    BY AbsorbTwo
  <1> HIDE DEF p
  <1>2. Moved(v, w, p)
    BY <1>1, SameTold DEF RecordTells
  <1>3. FoldedTells(v, w, p)
    BY <1>1, <1>2 DEF FoldedTells
  <1> QED
    BY <1>3 DEF p

LEMMA FirstOne ==
    ASSUME NEW jr \in Seq(UsnRecord), Len(jr) > 0
    PROVE  jr[1] \in UsnRecord /\ SubSeq(jr, 1, 1) = <<jr[1]>>
  <1> DEFINE e == SubSeq(jr, 1, 1)
  <1>1. jr[1] \in UsnRecord
    OBVIOUS
  <1>2. e \in Seq(UsnRecord) /\ Len(e) = 1 /\ e[1] = jr[1]
    OBVIOUS
  <1> HIDE DEF e
  <1>3. e = <<jr[1]>>
    BY <1>2
  <1> QED
    BY <1>1, <1>3 DEF e

LEMMA BothOfTwo ==
    ASSUME NEW jr \in Seq(UsnRecord), Len(jr) = 2
    PROVE  /\ jr[1] \in UsnRecord /\ jr[2] \in UsnRecord
           /\ SubSeq(jr, 1, 2) = <<jr[1], jr[2]>>
  <1> DEFINE e == SubSeq(jr, 1, 2)
  <1>1. jr[1] \in UsnRecord /\ jr[2] \in UsnRecord
    OBVIOUS
  <1>2. e \in Seq(UsnRecord) /\ Len(e) = 2 /\ e[1] = jr[1] /\ e[2] = jr[2]
    OBVIOUS
  <1> HIDE DEF e
  <1>3. e = <<jr[1], jr[2]>>
    BY <1>2
  <1> QED
    BY <1>1, <1>3 DEF e

\* A batch a daemon that keeps up, or goes record by record, reads.
BatchIs(k, p) ==
    /\ k \in 1 .. Len(journal) /\ journal' = SubSeq(journal, k + 1, Len(journal))
    /\ pending' = <<p>>
    /\ \/ k = 1 /\ p = Absorb(Blank(journal[1].rec), journal[1])
       \/ /\ k = 2 /\ Len(journal) = 2 /\ Paired(journal)
          /\ p = Absorb(Absorb(Blank(journal[1].rec), journal[1]), journal[2])

LEMMA BatchFound ==
    ASSUME LiveTypes, StepByStep, Now.lag = 0 => Paired(journal), ReadBatch
    PROVE  \E k, p : BatchIs(k, p)
  <1>1. PICK k \in 1 .. Now.batch :
           /\ k <= Len(journal) /\ pending' = Coalesce(SubSeq(journal, 1, k))
           /\ journal' = SubSeq(journal, k + 1, Len(journal))
    BY DEF ReadBatch
  <1>2. journal \in Seq(UsnRecord) /\ Len(journal) \in Nat /\ mft \in [Rec -> FileRecord]
    BY DEF LiveTypes, VolumeTypes
  <1>3. k \in 1 .. Len(journal)
    BY <1>1, <1>2
  <1>4. CASE k = 1
    <2>1. journal[1] \in UsnRecord /\ SubSeq(journal, 1, 1) = <<journal[1]>>
      <3>1. Len(journal) > 0
        BY <1>2, <1>3
      <3> QED
        BY <1>2, <3>1, FirstOne
    <2>2. pending' = <<Absorb(Blank(journal[1].rec), journal[1])>>
      BY <1>1, <1>2, <1>4, <2>1, CoalesceOne
    <2> QED
      BY <1>1, <1>3, <1>4, <2>2 DEF BatchIs
  <1>5. CASE k # 1
    <2>1. Now.lag = 0
      <3>1. Now.batch = 1 => k = 1
        BY <1>1
      <3> QED
        BY <1>5, <3>1 DEF StepByStep
    <2>2. Paired(journal) /\ Len(journal) = 2 /\ k = 2
      <3>1. Paired(journal)
        BY <2>1
      <3>2. Len(journal) <= 2
        BY <3>1 DEF Paired
      <3>3. \A n \in Nat : n <= 2 => \A i \in 1 .. n : i # 1 => i = 2 /\ n = 2
        OBVIOUS
      <3> QED
        BY <1>2, <1>3, <1>5, <3>1, <3>2, <3>3, Zenon
    <2>3. /\ journal[1] \in UsnRecord /\ journal[2] \in UsnRecord
          /\ SubSeq(journal, 1, 2) = <<journal[1], journal[2]>>
      BY <1>2, <2>2, BothOfTwo
    <2>4. pending' = <<Absorb(Absorb(Blank(journal[1].rec), journal[1]), journal[2])>>
      BY <1>1, <1>2, <2>2, <2>3, CoalesceTwo DEF Paired
    <2> QED
      BY <1>1, <1>3, <2>2, <2>4 DEF BatchIs
  <1> QED
    BY <1>4, <1>5

LEMMA BatchFollowed ==
    ASSUME LiveTypes, StepByStep, Followed, ReadBatch
    PROVE  Followed'
  <1>1. PICK k, p : BatchIs(k, p)
    BY BatchFound DEF Followed
  <1>2. /\ journal \in Seq(UsnRecord) /\ Len(journal) \in Nat /\ mft \in [Rec -> FileRecord]
        /\ k \in 1 .. Len(journal) /\ journal' = SubSeq(journal, k + 1, Len(journal))
        /\ pending' = <<p>>
    BY <1>1 DEF LiveTypes, VolumeTypes, BatchIs
  <1>3. /\ scanned /\ pending = <<>> /\ changes = <<>> /\ changes' = <<>>
        /\ mft' = mft /\ open' = open /\ index' = index /\ scanned' /\ Now' = Now
    BY DEF ReadBatch, Now
  <1>4. PICK h, K : HistoryOf(h, K, journal, Places(mft))
    BY DEF Followed
  <1>5. /\ Chronicle(h, K, journal, Places(mft)) /\ HeadTells(h[0], h[1])
        /\ Mixed(index, h[0], h[K])
    BY <1>3, <1>4 DEF HistoryOf
  <1>6. h[1] = h[0]
    BY <1>3, <1>5 DEF HeadTells
  <1>7. \A i \in 1 .. Len(journal) : RecordTells(h[i], h[i + 1], journal[i])
    BY <1>5 DEF Chronicle
  <1>8. \A i \in 1 .. k : journal[i] \in UsnRecord
    BY <1>2
  <1>9. /\ FoldedTells(h[0], h[k + 1], p)
        /\ K <= k => h[K] = h[0]
    <2>0. K \in Nat
      BY <1>2, <1>5 DEF Chronicle
    <2>1. CASE k = 1 /\ p = Absorb(Blank(journal[1].rec), journal[1])
      <3>1. RecordTells(h[0], h[2], journal[1]) /\ journal[1] \in UsnRecord
        BY <1>2, <1>6, <1>7, <1>8, <2>1
      <3>2. FoldedTells(h[0], h[2], p)
        BY <1>2, <2>1, <3>1, FoldedOne
      <3>4. K <= k => K = 0 \/ K = 1
        BY <2>0, <2>1
      <3>5. h[k + 1] = h[2] /\ 1 \in 1 .. Len(journal)
        BY <1>2, <2>1
      <3>6. FoldedTells(h[0], h[k + 1], p)
        BY <3>2, <3>5
      <3> QED
        BY <1>6, <3>4, <3>5, <3>6
    <2>2. CASE /\ k = 2 /\ Len(journal) = 2 /\ Paired(journal)
               /\ p = Absorb(Absorb(Blank(journal[1].rec), journal[1]), journal[2])
      <3>1. /\ RecordTells(h[1], h[2], journal[1]) /\ RecordTells(h[2], h[3], journal[2])
            /\ journal[1] \in UsnRecord /\ journal[2] \in UsnRecord
        BY <1>2, <1>7, <1>8, <2>2
      <3>2. journal[1].rec = journal[2].rec /\ journal[1].reasons = {"oldName"}
            /\ journal[2].reasons = {"newName"}
        BY <2>2 DEF Paired
      <3>3. h[2] = h[1]
        BY <3>1, <3>2 DEF RecordTells, Stays
      <3>4. RecordTells(h[0], h[3], journal[2])
        BY <1>6, <3>1, <3>3
      <3>5. FoldedTells(h[0], h[3], p)
        BY <1>2, <2>2, <3>1, <3>2, <3>4, FoldedTwo
      <3>6. K <= k => K = 0 \/ K = 1 \/ K = 2
        BY <2>0, <2>2
      <3>7. h[k + 1] = h[3] /\ 2 \in 1 .. Len(journal)
        BY <1>2, <2>2
      <3>8. FoldedTells(h[0], h[k + 1], p)
        BY <3>5, <3>7
      <3> QED
        BY <1>6, <3>3, <3>6, <3>7, <3>8
    <2>3. \/ k = 1 /\ p = Absorb(Blank(journal[1].rec), journal[1])
          \/ /\ k = 2 /\ Len(journal) = 2 /\ Paired(journal)
             /\ p = Absorb(Absorb(Blank(journal[1].rec), journal[1]), journal[2])
      BY <1>1 DEF BatchIs
    <2> QED
      BY <2>1, <2>2, <2>3, Zenon
  <1>10. PICK g, L : /\ Chronicle(g, L, journal', Places(mft))
                     /\ CutAt(h, K, g, L, k)
    BY <1>2, <1>5, OneBatch
  <1>11. /\ g[0] = h[0] /\ g[1] = h[k + 1] /\ Mixed(index, g[0], g[L])
    BY <1>5, <1>9, <1>10 DEF CutAt
  <1>12. (\E f, M : HistoryOf(f, M, journal, Places(mft)))'
    <2>1. FoldedTells(g[0], g[1], pending'[1]) /\ Len(pending') = 1
      BY <1>2, <1>9, <1>11
    <2>2. HeadTells(g[0], g[1])'
      BY <1>3, <2>1 DEF HeadTells
    <2>3. HistoryOf(g, L, journal, Places(mft))'
      BY <1>3, <1>10, <1>11, <2>2 DEF HistoryOf
    <2> QED
      BY <2>3
  <1>13. Len(journal') <= Len(journal) - 1 /\ Len(journal') \in Nat
    BY <1>2
  <1>15. Now.lag = 0 => Paired(journal')
    <2>1. Now.lag = 0 => Len(journal) <= 2
      BY DEF Followed, Paired
    <2>2. Now.lag = 0 => Len(journal') <= 1
      BY <1>2, <1>13, <2>1
    <2> QED
      BY <1>13, <2>2 DEF Paired
  <1>16. Handles'
    BY <1>3 DEF Handles, Followed
  <1> QED
    BY <1>3, <1>12, <1>15, <1>16 DEF Followed

\* The changes cs make w of v.
Tells(cs, v, w) ==
    \/ Len(cs) = 0 /\ w = v
    \/ Len(cs) = 1 /\ ChangeTells(v, w, cs[1])
    \/ /\ Len(cs) = 2 /\ cs[1].kind = "renamed" /\ cs[2].kind = "resized"
       /\ ChangeTells(v, w, cs[1]) /\ ChangeTells(w, w, cs[2])

LEMMA ChangeWords ==
    ASSUME NEW p \in PendingType, NEW kind, NEW dir, p.dir => dir, NEW sz
    PROVE  SameWords(ChangeOf(p, kind, dir, sz), p) /\ ChangeOf(p, kind, dir, sz).kind = kind
  BY DEF ChangeOf, SameWords, PendingType

\* What a folded record asks for tells what it tells.
LEMMA AskedTells ==
    ASSUME NEW p \in PendingType, NEW v, NEW w, FoldedTells(v, w, p),
           NEW size, NEW isDir, p.dir => isDir, NEW stat
    PROVE  Tells(Asks(p, size, isDir, stat), v, w)
  <1> DEFINE cs == Asks(p, size, isDir, stat)
             gone == ChangeOf(p, "deleted", p.dir, 0)
             made == ChangeOf(p, "created", isDir, size)
             moved == ChangeOf(p, "renamed", p.dir, 0)
             sized == ChangeOf(p, "resized", p.dir, size)
  <1>1. /\ SameWords(gone, p) /\ gone.kind = "deleted" /\ SameWords(made, p) /\ made.kind = "created"
        /\ SameWords(moved, p) /\ moved.kind = "renamed"
        /\ SameWords(sized, p) /\ sized.kind = "resized"
    BY ChangeWords
  <1>2. cs = IF p.deleted THEN IF p.created THEN <<>> ELSE <<gone>>
             ELSE IF p.created THEN <<made>>
             ELSE (IF p.renamed THEN <<moved>> ELSE <<>>)
                  \o (IF p.resized /\ ~p.dir /\ stat THEN <<sized>> ELSE <<>>)
    BY DEF Asks
  <1> HIDE DEF cs, gone, made, moved, sized
  <1>3. CASE p.deleted
    <2>1. ~p.created /\ Gone(v, w, p)
      BY <1>3 DEF FoldedTells
    <2>2. ChangeTells(v, w, gone)
      BY <1>1, <2>1, SameTold DEF ChangeTells
    <2>3. Len(cs) = 1 /\ cs[1] = gone
      BY <1>2, <1>3, <2>1
    <2>4. Tells(cs, v, w)
      BY <2>2, <2>3 DEF Tells
    <2> QED
      BY <1>1, <2>3, <2>4 DEF cs
  <1>4. CASE ~p.deleted /\ p.created
    <2>1. Made(v, w, p)
      BY <1>4 DEF FoldedTells
    <2>2. ChangeTells(v, w, made)
      BY <1>1, <2>1, SameTold DEF ChangeTells
    <2>3. Len(cs) = 1 /\ cs[1] = made
      BY <1>2, <1>4
    <2>4. Tells(cs, v, w)
      BY <2>2, <2>3 DEF Tells
    <2> QED
      BY <1>1, <2>3, <2>4 DEF cs
  <1>5. CASE ~p.deleted /\ ~p.created /\ p.renamed
    <2>1. Moved(v, w, p)
      BY <1>5 DEF FoldedTells
    <2>2. ChangeTells(v, w, moved)
      BY <1>1, <2>1, SameTold DEF ChangeTells
    <2>3. Stays(w, w, sized)
      <3>1. Stays(w, w, p)
        BY <2>1 DEF Moved, Others, Stays
      <3> QED
        BY <1>1, <3>1, SameTold
    <2>4. ChangeTells(w, w, sized)
      BY <1>1, <2>3 DEF ChangeTells
    <2>5. \/ Len(cs) = 1 /\ cs[1] = moved
          \/ Len(cs) = 2 /\ cs[1] = moved /\ cs[2] = sized
      BY <1>2, <1>5
    <2>6. Tells(cs, v, w)
      BY <1>1, <2>2, <2>4, <2>5 DEF Tells
    <2> QED
      BY <1>5, <2>6 DEF cs
  <1>6. CASE ~p.deleted /\ ~p.created /\ ~p.renamed
    <2>1. Stays(v, w, p)
      BY <1>6 DEF FoldedTells
    <2>2. ChangeTells(v, w, sized)
      BY <1>1, <2>1, SameTold DEF ChangeTells
    <2>3. w = v
      BY <2>1 DEF Stays
    <2>4. \/ Len(cs) = 0
          \/ Len(cs) = 1 /\ cs[1] = sized
      BY <1>2, <1>6
    <2>5. Tells(cs, v, w)
      BY <2>2, <2>3, <2>4 DEF Tells
    <2> QED
      BY <1>1, <2>4, <2>5 DEF cs
  <1> QED
    BY <1>3, <1>4, <1>5, <1>6

LEMMA TellsIs ==
    ASSUME NEW v, NEW w, changes \in Seq(AnyChange), pending = <<>>
    PROVE  HeadTells(v, w) <=> Tells(changes, v, w)
  <1>1. Len(changes) = 0 <=> changes = <<>>
    OBVIOUS
  <1>2. Len(pending) # 1
    OBVIOUS
  <1> QED
    BY <1>1, <1>2 DEF HeadTells, Tells

LEMMA HeadOfOne ==
    ASSUME NEW S, NEW s \in Seq(S), Len(s) = 1
    PROVE  s[1] \in S /\ Head(s) = s[1] /\ Tail(s) = <<>>
  <1>1. s[1] \in S /\ Head(s) = s[1]
    OBVIOUS
  <1>2. Tail(s) \in Seq(S) /\ Len(Tail(s)) = 0
    OBVIOUS
  <1>3. \A t \in Seq(S) : Len(t) = 0 => t = <<>>
    OBVIOUS
  <1> QED
    BY <1>1, <1>2, <1>3, Zenon

LEMMA TranslateFollowed ==
    ASSUME LiveTypes, Followed, Translate, LiveTypes'
    PROVE  Followed'
  <1>1. /\ pending \in Seq(PendingType) /\ changes \in Seq(AnyChange)
        /\ index \in IndexType /\ mft \in [Rec -> FileRecord]
        /\ changes' \in Seq(AnyChange)
    BY DEF LiveTypes, VolumeTypes, IndexSound
  <1>2. /\ pending # <<>> /\ changes' = changes \o Translated(Head(pending))
        /\ pending' = Tail(pending)
        /\ mft' = mft /\ open' = open /\ journal' = journal
        /\ index' = index /\ scanned' = scanned /\ Now' = Now
    BY DEF Translate, volumeVars, Now
  <1>3. PICK h, K : HistoryOf(h, K, journal, Places(mft))
    BY DEF Followed
  <1>4. /\ Chronicle(h, K, journal, Places(mft)) /\ HeadTells(h[0], h[1])
        /\ scanned /\ Mixed(index, h[0], h[K])
    BY <1>2, <1>3 DEF HistoryOf
  <1>5. changes = <<>> /\ Len(pending) = 1 /\ FoldedTells(h[0], h[1], pending[1])
    BY <1>2, <1>4 DEF HeadTells
  <1> DEFINE p == pending[1]
             q == ResolveStat(p.parent, p.name)
             cs == Asks(p, StatSize(q), StatDir(p, q), q # NoNode)
  <1>6. p \in PendingType /\ Head(pending) = p /\ Tail(pending) = <<>>
    BY <1>1, <1>5, HeadOfOne
  <1>7. changes' = cs
    <2>1. Translated(p) = cs
      BY TranslatedIs
    <2>2. Translated(p) \in Seq(AnyChange)
      BY <1>1, <1>6, TranslatedType
    <2> HIDE DEF p, cs
    <2> QED
      BY <1>2, <1>5, <1>6, <2>1, <2>2
  <1>8. Tells(cs, h[0], h[1])
    <2>1. p.dir => StatDir(p, q)
      BY DEF StatDir
    <2> HIDE DEF p, q
    <2> QED
      BY <1>5, <1>6, <2>1, AskedTells DEF p
  <1> HIDE DEF p, q, cs
  <1>9. HeadTells(h[0], h[1])'
    <2>1. Len(changes') = 0 <=> changes' = <<>>
      BY <1>1
    <2>2. pending' = <<>>
      BY <1>2, <1>6
    <2> QED
      BY <1>7, <1>8, <2>1, <2>2 DEF Tells, HeadTells
  <1>10. HistoryOf(h, K, journal, Places(mft))'
    BY <1>2, <1>4, <1>9 DEF HistoryOf
  <1>12. (\E f, M : HistoryOf(f, M, journal, Places(mft)))'
    BY <1>10
  <1>13. Handles' /\ (Now.lag = 0 => Paired(journal))'
    BY <1>2 DEF Handles, Followed
  <1> QED
    BY <1>2, <1>12, <1>13 DEF Followed

LEMMA ApplyFollowed ==
    ASSUME LiveTypes, Unmoved, Followed, ApplyChange, LiveTypes'
    PROVE  Followed'
  <1>1. /\ changes \in Seq(AnyChange) /\ changes' \in Seq(AnyChange)
        /\ journal \in Seq(UsnRecord)
        /\ index \in IndexType /\ RecordTableSound(index) /\ FlagsSound(index)
    BY DEF LiveTypes, VolumeTypes, IndexSound
  <1>2. /\ pending = <<>> /\ changes # <<>> /\ index.n < MaxNodes
        /\ index' = Apply(index, Head(changes)) /\ changes' = Tail(changes)
        /\ mft' = mft /\ open' = open /\ journal' = journal
        /\ pending' = pending /\ scanned' = scanned /\ Now' = Now
    BY DEF ApplyChange, volumeVars, Now
  <1>3. PICK h, K : HistoryOf(h, K, journal, Places(mft))
    BY DEF Followed
  <1>4. /\ Chronicle(h, K, journal, Places(mft)) /\ HeadTells(h[0], h[1])
        /\ scanned /\ Mixed(index, h[0], h[K])
    BY <1>2, <1>3 DEF HistoryOf
  <1>5. /\ h \in [0 .. Len(journal) + 1 -> Layout]
        /\ \A i \in 0 .. Len(journal) + 1 : Tree(h[i]) /\ InGuard(h[i])
        /\ K \in 0 .. Len(journal) + 1 /\ Settles(h, K) /\ Len(journal) \in Nat
    BY <1>1, <1>4 DEF Chronicle
  <1>6. /\ 0 \in 0 .. Len(journal) + 1 /\ 1 \in 0 .. Len(journal) + 1 /\ K \in Nat
    BY <1>5
  <1>7. Tells(changes, h[0], h[1])
    BY <1>1, <1>2, <1>4, TellsIs
  <1> DEFINE c == changes[1]
  <1>8. /\ c \in AnyChange /\ Head(changes) = c /\ Len(changes) # 0
        /\ Len(changes') = Len(changes) - 1
        /\ \A i \in 1 .. Len(changes') : i + 1 \in 1 .. Len(changes) /\ changes'[i] = changes[i + 1]
    BY <1>1, <1>2
  <1>9. ChangeTells(h[0], h[1], c)
    BY <1>7, <1>8 DEF Tells
  <1>10. c.rec \in Rec /\ c.rec # RootRec /\ \A r \in Rec : r # c.rec => h[1][r] = h[0][r]
    BY <1>8, <1>9 DEF ChangeTells, Gone, Made, Moved, Stays, Others, AnyChange
  <1>11. PICK g : Chronicle(g, K, journal, Places(mft)) /\ AppliedAt(h, K, g)
    BY <1>1, <1>4, OneApplied
  <1>12. g[0] = h[1] /\ g[1] = h[1] /\ (K # 0 => g[K] = h[K])
    BY <1>11 DEF AppliedAt
  <1>13. Onward(h[0], h[K], h[1], g[K], c.rec)
    <2>1. CASE K = 0
      BY <1>10, <1>12, <2>1 DEF Onward
    <2>2. CASE K # 0
      BY <1>5, <1>6, <1>10, <1>12, <2>2, SettlesOnward
    <2> QED
      BY <2>1, <2>2
  <1>15. c.kind = "renamed" => index.excl = {}
    BY <1>1, <1>8 DEF Unmoved, StillChange
  <1> HIDE DEF c
  <1>16. Mixed(index', g[0], g[K]) /\ index'.excl = index.excl
    <2>1. /\ h[0] \in Layout /\ h[1] \in Layout /\ h[K] \in Layout
          /\ Tree(h[0]) /\ Tree(h[1]) /\ Tree(h[K]) /\ InGuard(h[1])
      BY <1>5, <1>6
    <2>2. ToApply(index, c, h[0], h[K], h[1], g[K])
      BY <1>1, <1>2, <1>4, <1>13, <2>1 DEF ToApply
    <2>3. Mixed(Apply(index, c), h[1], g[K]) /\ Apply(index, c).excl = index.excl
      BY <1>1, <1>8, <1>9, <1>15, <2>1, <2>2, ApplyMixed
    <2> QED
      BY <1>2, <1>8, <1>12, <2>3
  <1>17. Tells(changes', g[0], g[1])
    <2>1. CASE Len(changes) = 1
      BY <1>8, <1>12, <2>1 DEF Tells
    <2>2. CASE Len(changes) # 1
      <3>1. Len(changes) = 2 /\ ChangeTells(h[1], h[1], changes[2])
        BY <1>7, <1>8, <2>2 DEF Tells
      <3>2. Len(changes') = 1 /\ changes'[1] = changes[2]
        <4>1. 1 \in 1 .. Len(changes') /\ 1 + 1 = 2
          BY <1>8, <3>1
        <4> QED
          BY <1>8, <3>1, <4>1
      <3> QED
        BY <1>12, <3>1, <3>2 DEF Tells
    <2> QED
      BY <2>1, <2>2
  <1>18. HeadTells(g[0], g[1])'
    <2>1. Len(changes') = 0 <=> changes' = <<>>
      BY <1>1
    <2> QED
      BY <1>2, <1>17, <2>1 DEF Tells, HeadTells
  <1>19. HistoryOf(g, K, journal, Places(mft))'
    BY <1>2, <1>4, <1>11, <1>16, <1>18 DEF HistoryOf
  <1>21. (\E f, M : HistoryOf(f, M, journal, Places(mft)))'
    BY <1>19
  <1>22. Handles' /\ (Now.lag = 0 => Paired(journal))'
    BY <1>2 DEF Handles, Followed
  <1> QED
    BY <1>2, <1>21, <1>22 DEF Followed

LEMMA ScanFollowed ==
    ASSUME LiveTypes, Followed, Scan
    PROVE  Followed'
  <1>1. /\ mft \in [Rec -> FileRecord] /\ journal \in Seq(UsnRecord)
        /\ Now.excluded \in SUBSET Seq(Name) /\ IsFiniteSet(Now.excluded)
    BY NowIs DEF LiveTypes, VolumeTypes
  <1>2. /\ ~scanned /\ scanned' = TRUE /\ index' = ExcludeAll(Built(mft), Now.excluded)
        /\ mft' = mft /\ open' = open /\ journal' = journal
        /\ pending' = pending /\ changes' = changes /\ Now' = Now
    BY DEF Scan, volumeVars, Now
  <1>3. PICK h, K : HistoryOf(h, K, journal, Places(mft))
    BY DEF Followed
  <1>4. /\ Chronicle(h, K, journal, Places(mft)) /\ HeadTells(h[0], h[1])
        /\ K = Len(journal) + 1 /\ h[K] = Places(mft)
    BY <1>2, <1>3, LastSeen DEF HistoryOf
  <1>5. index' \in IndexType /\ SamePlaces(Scanned(mft), index')
    BY <1>1, <1>2, ScanIndexIs
  <1>6. Tree(Places(mft))
    <2>1. Len(journal) + 1 \in 0 .. Len(journal) + 1
      BY <1>1
    <2> QED
      BY <1>4, <2>1 DEF Chronicle
  <1>7. Mixed(index', h[K], h[K])
    BY <1>1, <1>4, <1>5, <1>6, ScanShows
  <1>8. Mixed(index', h[0], h[K])
    BY <1>7 DEF Mixed
  <1>9. HeadTells(h[0], h[1])'
    BY <1>2, <1>4 DEF HeadTells
  <1>10. HistoryOf(h, K, journal, Places(mft))'
    BY <1>2, <1>4, <1>8, <1>9 DEF HistoryOf
  <1>12. (\E f, M : HistoryOf(f, M, journal, Places(mft)))'
    BY <1>10
  <1>13. Handles' /\ (Now.lag = 0 => Paired(journal))'
    BY <1>2 DEF Handles, Followed
  <1> QED
    BY <1>2, <1>12, <1>13 DEF Followed

------------------------------------------------------------------------------
\* The index follows the history: the invariant, and the tree.

FollowInv ==
    /\ LiveTypes
    /\ StepByStep => Followed
    /\ ~scanned => Rooted(index) /\ pending = <<>> /\ changes = <<>>

LEMMA FollowInit == Init /\ Shallow => FollowInv
  <1> SUFFICES ASSUME Init, Shallow
               PROVE  FollowInv
    OBVIOUS
  <1> DEFINE m == Places(mft)
             h == [i \in 0 .. 1 |-> m]
  <1>1. LiveTypes
    BY TypesInit
  <1>2. /\ mft \in [Rec -> FileRecord] /\ mft \in Now.volumes
        /\ regime \in DOMAIN Regimes
    BY <1>1 DEF LiveTypes, VolumeTypes, Init, VolumeInit
  <1>3. Tree(m)
    <2>1. Mountable(mft)
      BY <1>2, NowIs
    <2> QED
      BY <2>1, TreeMounted
  <1>4. m \in Layout /\ InGuard(m)
    BY <1>2, ShallowIs DEF Shallow
  <1>5. /\ index \in IndexType /\ RecordTableSound(index)
        /\ SamePlaces(Scanned(mft), index) /\ index.excl = {}
    BY <1>1, <1>2, BuiltIs DEF Init, LiveTypes, IndexSound
  <1>6. /\ ~scanned /\ pending = <<>> /\ changes = <<>> /\ journal = <<>>
        /\ \A r \in Rec : open[r] = {}
    BY DEF Init, VolumeInit
  <1>7. Rooted(index)
    <2>1. Mixed(index, m, m)
      BY <1>2, <1>3, <1>5, ScanShows
    <2>2. Agree(m, m)
      BY AgreeSelf
    <2> HIDE DEF m
    <2> QED
      BY <1>3, <1>4, <1>5, <2>1, <2>2, MixedRooted
  <1>8. HistoryOf(h, 1, journal, m)
    <2> HIDE DEF m
    <2>1. Len(journal) = 0 /\ \A i \in 0 .. 1 : h[i] = m
      BY <1>6
    <2>2. h \in [0 .. Len(journal) + 1 -> Layout]
      BY <1>4, <2>1
    <2> HIDE DEF h
    <2>3. Settles(h, 1)
      <3>1. ASSUME NEW r \in Rec, NEW j \in 0 .. 1, NEW i \in 0 .. j
            PROVE  /\ h[i] = m /\ h[j] = m
                   /\ \A l \in j .. 1 : h[l] = m
        BY <2>1
      <3> QED
        BY <3>1 DEF Settles
    <2>4. \A i \in 0 .. Len(journal) + 1 : Tree(h[i]) /\ InGuard(h[i])
      BY <1>3, <1>4, <2>1
    <2>5. Chronicle(h, 1, journal, m)
      BY <2>1, <2>2, <2>3, <2>4 DEF Chronicle
    <2>6. HeadTells(h[0], h[1])
      BY <1>6, <2>1 DEF HeadTells
    <2> QED
      BY <1>6, <2>1, <2>5, <2>6 DEF HistoryOf
  <1>9. Handles
    BY <1>6 DEF Handles
  <1>11. Paired(journal)
    <2>1. Len(journal) = 0
      BY <1>6
    <2> QED
      BY <2>1 DEF Paired
  <1>12. \E g, K : HistoryOf(g, K, journal, m)
    BY <1>8
  <1> QED
    BY <1>1, <1>6, <1>7, <1>9, <1>11, <1>12 DEF FollowInv, Followed

LEMMA FollowKept == FollowInv /\ MarksInv /\ Shallow' /\ [Next]_vars => FollowInv'
  <1> SUFFICES ASSUME FollowInv, MarksInv, Shallow', [Next]_vars
               PROVE  FollowInv'
    OBVIOUS
  <1>1. LiveTypes /\ LiveTypes'
    BY TypesKept DEF FollowInv
  <1>2. ASSUME StepByStep'
        PROVE  Followed'
    <2>1. CASE Scan
      <3>1. StepByStep
        BY <1>2, <2>1 DEF Scan, StepByStep, PrunedApart, volumeVars, Now
      <3> QED
        BY <1>1, <2>1, <3>1, ScanFollowed DEF FollowInv
    <2>2. CASE ReadBatch
      <3>1. StepByStep
        BY <1>2, <2>2 DEF ReadBatch, StepByStep, PrunedApart, Now
      <3> QED
        BY <1>1, <2>2, <3>1, BatchFollowed DEF FollowInv
    <2>3. CASE Translate
      <3>1. StepByStep
        BY <1>2, <2>3 DEF Translate, StepByStep, PrunedApart, volumeVars, Now
      <3> QED
        BY <1>1, <2>3, <3>1, TranslateFollowed DEF FollowInv
    <2>4. CASE ApplyChange
      <3>1. StepByStep
        BY <1>2, <2>4 DEF ApplyChange, StepByStep, PrunedApart, volumeVars, Now
      <3>2. Unmoved
        BY <3>1 DEF MarksInv, StepByStep
      <3> QED
        BY <1>1, <2>4, <3>1, <3>2, ApplyFollowed DEF FollowInv
    <2>5. CASE ChangeVolume
      BY <1>1, <1>2, <2>5, VolumeFollowed DEF FollowInv
    <2>6. CASE UNCHANGED vars
      <3>1. StepByStep
        BY <1>2, <2>6 DEF vars, StepByStep, PrunedApart, volumeVars, Now
      <3>2. Followed
        BY <3>1 DEF FollowInv
      <3> QED
        BY <2>6, <3>2 DEF vars, volumeVars, indexVars, Followed, Handles, HistoryOf,
           HeadTells, Now
    <2> QED
      BY <2>1, <2>2, <2>3, <2>4, <2>5, <2>6 DEF Next
  <1>3. ASSUME ~scanned'
        PROVE  Rooted(index') /\ pending' = <<>> /\ changes' = <<>>
    <2>1. ~scanned
      BY <1>3 DEF Next, Scan, ReadBatch, Translate, ApplyChange, ChangeVolume, vars, indexVars
    <2>2. Rooted(index) /\ pending = <<>> /\ changes = <<>>
      BY <2>1 DEF FollowInv
    <2>3. index' = index /\ pending' = pending /\ changes' = changes
      BY <1>3, <2>1, <2>2 DEF Next, Scan, ReadBatch, Translate, ApplyChange, ChangeVolume, vars,
                              indexVars
    <2> QED
      BY <2>2, <2>3
  <1> QED
    BY <1>1, <1>2, <1>3 DEF FollowInv

LEMMA FollowRooted == FollowInv => TreeSound
  <1> SUFFICES ASSUME FollowInv
               PROVE  TreeSound
    OBVIOUS
  <1>1. index \in IndexType /\ RecordTableSound(index) /\ journal \in Seq(UsnRecord)
    BY DEF FollowInv, LiveTypes, VolumeTypes, IndexSound
  <1>2. CASE StepByStep /\ scanned
    <2>1. PICK h, K : HistoryOf(h, K, journal, Places(mft))
      BY <1>2 DEF FollowInv, Followed
    <2>2. /\ h \in [0 .. Len(journal) + 1 -> Layout]
          /\ \A i \in 0 .. Len(journal) + 1 : Tree(h[i]) /\ InGuard(h[i])
          /\ K \in 0 .. Len(journal) + 1 /\ Settles(h, K) /\ Mixed(index, h[0], h[K])
      BY <1>2, <2>1 DEF HistoryOf, Chronicle
    <2>3. 0 \in 0 .. Len(journal) + 1 /\ K \in 0 .. K /\ 0 \in 0 .. K
      BY <1>1, <2>2
    <2>4. Agree(h[0], h[K])
      BY <2>2, <2>3 DEF Settles, Agree
    <2>5. /\ h[0] \in Layout /\ Tree(h[0]) /\ InGuard(h[0])
          /\ h[K] \in Layout /\ Tree(h[K]) /\ InGuard(h[K])
      BY <2>2, <2>3
    <2>6. Rooted(index)
      BY <1>1, <2>2, <2>4, <2>5, MixedRooted
    <2> QED
      BY <1>1, <2>6 DEF TreeSound
  <1>3. CASE ~scanned
    BY <1>1, <1>3 DEF TreeSound, FollowInv
  <1> QED
    BY <1>1, <1>2, <1>3 DEF TreeSound

\* The live nodes are one tree below the volume root and the record table is sound,
\* wherever the daemon can follow step by step: also while the index still lacks
\* what happened since the scan, or is told again of what the scan saw.
THEOREM TreeStaysSound == Spec /\ []Shallow => []TreeSound
  <1>1. Init /\ Shallow => FollowInv /\ MarksInv
    BY FollowInit, MarksInit
  <1>2. FollowInv /\ MarksInv /\ Shallow' /\ [Next]_vars => (FollowInv /\ MarksInv)'
    BY FollowKept, MarksKept
  <1>3. FollowInv => TreeSound
    BY FollowRooted
  <1> QED
    BY <1>1, <1>2, <1>3, PTL DEF Spec

------------------------------------------------------------------------------
\* Totals: subtrees, and sums over them.

\* The nodes that hang off a node.
Children(ix, p) == {m \in 0 .. ix.n - 1 : ~IsRoot(ix, m) /\ ix.parent[m] = p}

\* Of a rooted tree: the root alone is one.
LEMMA OneRoot ==
    ASSUME NEW ix \in IndexType, Rooted(ix), NEW m \in Live(ix)
    PROVE  /\ IsRoot(ix, m) <=> m = ix.rec[RootRec]
           /\ m \in Node /\ Reaches(ix, m, ix.rec[RootRec])
  BY LiveNodes, RootedIs, SelfApart DEF Reaches

\* No node is above its folder.
LEMMA NotAboveFolder ==
    ASSUME NEW ix \in IndexType, Rooted(ix), NEW m \in Live(ix), ~IsRoot(ix, m)
    PROVE  m \notin Ancestors(ix, ix.parent[m])
  <1> DEFINE root == ix.rec[RootRec]
             p == ix.parent[m]
  <1>1. m # root /\ m \in Node /\ Reaches(ix, m, root)
    BY OneRoot
  <1>2. p \in Live(ix) /\ p \in Ancestors(ix, m)
    BY <1>1, ParentLine
  <1>3. p \in Node /\ Reaches(ix, p, root)
    BY <1>2, OneRoot
  <1>4. SUFFICES ASSUME m \in Ancestors(ix, p)
                 PROVE  FALSE
    OBVIOUS
  <1>5. p \in Ancestors(ix, p)
    BY <1>1, <1>2, <1>3, <1>4, FromAbove
  <1>6. p = root
    BY <1>3, <1>5, SelfApart
  <1>7. Ancestors(ix, p) = {root}
    BY <1>3, <1>6, RootAlone DEF Reaches
  <1> QED
    BY <1>1, <1>4, <1>7

\* A node below another is one of its children or below one.
LEMMA ChildBelow ==
    ASSUME NEW ix \in IndexType, Rooted(ix), NEW x \in Live(ix), x # ix.rec[RootRec],
           NEW p, p \in Ancestors(ix, x)
    PROVE  \E m \in Live(ix) : /\ ~IsRoot(ix, m) /\ ix.parent[m] = p
                               /\ m = x \/ m \in Ancestors(ix, x)
  <1>1. x \in Node /\ ~IsRoot(ix, x) /\ ClimbGuard \in Nat
    BY OneRoot, IndexAssumption
  <1>2. Chain(Climb(ix, x), ix) /\ Climb(ix, x)[0] = ix.parent[x]
    BY <1>1, ClimbIs
  <1>3. PICK k \in 0 .. ClimbGuard : Climb(ix, x)[k] = p
    BY <1>1, AncestorIs
  <1>4. p # NoNode
    BY <1>1, AncestorIs
  <1>5. CASE k = 0
    BY <1>1, <1>2, <1>3, <1>5
  <1>6. CASE k # 0
    <2> DEFINE m == Climb(ix, x)[k - 1]
    <2>1. k \in 1 .. ClimbGuard /\ k - 1 \in 0 .. ClimbGuard
      BY <1>1, <1>6
    <2>2. m \in Stands /\ p = Up(ix)[m]
      BY <1>2, <1>3, <2>1 DEF Chain
    <2> HIDE DEF m
    <2>3. m # NoNode /\ ix.parent[m] # m /\ ix.parent[m] = p
      BY <1>4, <2>2 DEF Up
    <2>4. m \in Ancestors(ix, x)
      BY <1>1, <2>1, <2>3, AncestorIs DEF m
    <2>5. m \in Live(ix)
      BY <2>4, RootedIs
    <2> QED
      BY <2>3, <2>4, <2>5 DEF IsRoot
  <1> QED
    BY <1>5, <1>6

\* Nothing is below two nodes of a folder.
LEMMA SiblingsApart ==
    ASSUME NEW ix \in IndexType, Rooted(ix), NEW a \in Live(ix), NEW b \in Live(ix), a # b,
           ~IsRoot(ix, a), ~IsRoot(ix, b), ix.parent[a] = ix.parent[b]
    PROVE  /\ b \notin Ancestors(ix, a)
           /\ \A x \in Live(ix) : ~(a \in Ancestors(ix, x) /\ b \in Ancestors(ix, x))
  <1> DEFINE root == ix.rec[RootRec]
  <1>1. a # root /\ b # root /\ a \in Node /\ b \in Node
    BY OneRoot
  <1>2. a \notin Ancestors(ix, ix.parent[a]) /\ b \notin Ancestors(ix, ix.parent[a])
    BY NotAboveFolder
  <1>3. b # ix.parent[a] /\ a # ix.parent[b]
    BY DEF IsRoot
  <1>4. b \notin Ancestors(ix, a) /\ a \notin Ancestors(ix, b)
    BY <1>1, <1>2, <1>3, ParentLine
  <1>5. ASSUME NEW x \in Live(ix), a \in Ancestors(ix, x), b \in Ancestors(ix, x)
        PROVE  FALSE
    <2>1. x \in Node /\ Reaches(ix, x, root)
      BY OneRoot
    <2> QED
      BY <1>4, <1>5, <2>1, InLine
  <1> QED
    BY <1>4, <1>5

\* The subtree of a node is the node and the subtrees of its children, apart.
LEMMA SubtreeParts ==
    ASSUME NEW ix \in IndexType, Rooted(ix), ix.del = {}, NEW p \in Live(ix)
    PROVE  /\ Children(ix, p) \in SUBSET Node /\ Children(ix, p) \subseteq Live(ix)
           /\ Apartly([m \in Children(ix, p) |-> Subtree(ix, m)], Children(ix, p), Node)
           /\ Subtree(ix, p) = {p} \cup UNION {Subtree(ix, m) : m \in Children(ix, p)}
           /\ p \notin UNION {Subtree(ix, m) : m \in Children(ix, p)}
           /\ Subtree(ix, p) \in SUBSET Node
  <1> DEFINE C == Children(ix, p)
             root == ix.rec[RootRec]
  <1>1. Live(ix) = 0 .. ix.n - 1 /\ Live(ix) \subseteq Node
    BY LiveNodes DEF Live
  <1>2. \A m : m \in C <=> m \in Live(ix) /\ ~IsRoot(ix, m) /\ ix.parent[m] = p
    BY <1>1 DEF Children
  <1>3. \A m, x : x \in Subtree(ix, m) <=> x \in Live(ix) /\ (x = m \/ m \in Ancestors(ix, x))
    BY <1>1 DEF Subtree
  <1> HIDE DEF C
  <1>4. C \subseteq Live(ix) /\ \A m \in C : Subtree(ix, m) \in SUBSET Node
    BY <1>1, <1>2, <1>3
  <1>5. ASSUME NEW a \in C, NEW b \in C, a # b, NEW x, x \in Subtree(ix, a), x \in Subtree(ix, b)
        PROVE  FALSE
    <2>1. /\ a \in Live(ix) /\ b \in Live(ix) /\ ~IsRoot(ix, a) /\ ~IsRoot(ix, b)
          /\ ix.parent[a] = p /\ ix.parent[b] = p
      BY <1>2
    <2>2. /\ b \notin Ancestors(ix, a) /\ a \notin Ancestors(ix, b)
          /\ \A y \in Live(ix) : ~(a \in Ancestors(ix, y) /\ b \in Ancestors(ix, y))
      BY <1>5, <2>1, SiblingsApart
    <2> QED
      BY <1>3, <1>5, <2>2
  <1>6. Apartly([m \in C |-> Subtree(ix, m)], C, Node)
    BY <1>4, <1>5 DEF Apartly
  <1>7. ASSUME NEW x, x \in Subtree(ix, p), x # p
        PROVE  \E m \in C : x \in Subtree(ix, m)
    <2>1. x \in Live(ix) /\ p \in Ancestors(ix, x)
      BY <1>3, <1>7
    <2>2. x # root
      <3>1. SUFFICES ASSUME x = root PROVE FALSE
        OBVIOUS
      <3>2. x \in Node /\ IsRoot(ix, x)
        BY <2>1, <3>1, OneRoot
      <3>3. Ancestors(ix, x) = {x}
        BY <3>2, RootAlone
      <3> QED
        BY <1>7, <2>1, <3>3
    <2>3. PICK m \in Live(ix) : /\ ~IsRoot(ix, m) /\ ix.parent[m] = p
                                /\ m = x \/ m \in Ancestors(ix, x)
      BY <2>1, <2>2, ChildBelow
    <2> QED
      BY <1>2, <1>3, <2>1, <2>3
  <1>8. ASSUME NEW m \in C, NEW x, x \in Subtree(ix, m)
        PROVE  x \in Subtree(ix, p) /\ x # p
    <2>1. m \in Live(ix) /\ ~IsRoot(ix, m) /\ ix.parent[m] = p /\ m # root /\ m \in Node
      BY <1>2, OneRoot
    <2>2. p \in Ancestors(ix, m) /\ m \notin Ancestors(ix, p) /\ m # p
      BY <2>1, ParentLine, NotAboveFolder DEF IsRoot
    <2>3. CASE x = m
      BY <1>3, <2>1, <2>2, <2>3
    <2>4. CASE m \in Ancestors(ix, x) /\ x \in Live(ix)
      <3>1. x \in Node /\ Reaches(ix, x, root)
        BY <2>4, OneRoot
      <3>2. Ancestors(ix, m) \subseteq Ancestors(ix, x)
        BY <2>1, <2>4, <3>1, FromAbove
      <3> QED
        BY <1>3, <2>2, <2>4, <3>2
    <2> QED
      BY <1>3, <1>8, <2>3, <2>4
  <1>9. p \in Subtree(ix, p) /\ Subtree(ix, p) \in SUBSET Node
    BY <1>1, <1>3
  <1>10. Subtree(ix, p) = {p} \cup UNION {Subtree(ix, m) : m \in C}
    BY <1>7, <1>8, <1>9
  <1>11. p \notin UNION {Subtree(ix, m) : m \in C}
    BY <1>8
  <1> QED
    BY <1>1, <1>4, <1>6, <1>9, <1>10, <1>11 DEF C

\* The sum over a subtree is the weight of its node and the sums over those of
\* its children.
LEMMA SubtreeGathers ==
    ASSUME NEW ix \in IndexType, Rooted(ix), ix.del = {}, NEW p \in Live(ix),
           NEW w \in [Node -> Nat], NEW g, AddsUp(g, Node, w),
           NEW v \in [Node -> Nat], NEW h, AddsUp(h, Node, v),
           \A m \in Live(ix) : v[m] = g[Subtree(ix, m)]
    PROVE  g[Subtree(ix, p)] = w[p] + h[Children(ix, p)]
  <1> DEFINE C == Children(ix, p)
             F == [m \in C |-> Subtree(ix, m)]
             B == UNION {F[m] : m \in C}
             T == Subtree(ix, p)
  <1>1. /\ C \in SUBSET Node /\ C \subseteq Live(ix) /\ Apartly(F, C, Node)
        /\ T = {p} \cup B /\ p \notin B /\ T \in SUBSET Node
    BY SubtreeParts
  <1>2. \A m \in C : v[m] = g[F[m]]
    BY <1>1
  <1>3. IsFiniteSet(Node) /\ p \in Node
    BY LiveNodes
  <1> HIDE DEF C, F, T
  <1>4. h[C] = g[B]
    BY <1>1, <1>2, <1>3, SumFamily
  <1> HIDE DEF B
  <1>5. p \in T /\ T \ {p} = B
    BY <1>1
  <1>6. g[T] = w[p] + g[T \ {p}]
    BY <1>1, <1>3, <1>5, SumTakes
  <1> QED
    BY <1>4, <1>5, <1>6 DEF C, T

\* The depths are those of the tree, none above D.
Leveled(ix, D) ==
    /\ D \in Nat
    /\ \A m \in Live(ix) :
         /\ ix.depth[m] = IF IsRoot(ix, m) THEN 0 ELSE Cardinality(Ancestors(ix, m))
         /\ ix.depth[m] <= D

\* A child is one level down.
LEMMA ChildLevel ==
    ASSUME NEW ix \in IndexType, Rooted(ix), NEW D, Leveled(ix, D),
           NEW m \in Live(ix), ~IsRoot(ix, m)
    PROVE  ix.parent[m] \in Live(ix) /\ ix.depth[m] = ix.depth[ix.parent[m]] + 1
  <1> DEFINE p == ix.parent[m]
             A == Ancestors(ix, m)
             B == Ancestors(ix, p)
  <1>1. m # ix.rec[RootRec]
    BY OneRoot
  <1>2. p \in Live(ix) /\ \A a : a \in A <=> a = p \/ a \in B
    BY <1>1, ParentLine
  <1>3. /\ ix.depth[m] = Cardinality(A)
        /\ ix.depth[p] = IF IsRoot(ix, p) THEN 0 ELSE Cardinality(B)
    BY <1>2 DEF Leveled
  <1>4. p \in Node /\ Reaches(ix, p, ix.rec[RootRec])
    BY <1>2, OneRoot
  <1>5. IsFiniteSet(B) /\ Cardinality(B) \in Nat
    BY <1>4, AncestorCount
  <1>6. CASE IsRoot(ix, p)
    <2>1. B = {p}
      BY <1>4, <1>6, RootAlone
    <2>2. A = {p}
      BY <1>2, <2>1
    <2>3. Cardinality(A) = 1
      BY <2>2, FS_Singleton
    <2> QED
      BY <1>2, <1>3, <1>6, <2>3
  <1>7. CASE ~IsRoot(ix, p)
    <2>1. p \notin B
      BY <1>2, <1>4, <1>7, OneRoot, SelfApart
    <2>2. A = B \cup {p}
      BY <1>2
    <2>3. Cardinality(A) = Cardinality(B) + 1
      BY <1>5, <2>1, <2>2, FS_AddElement
    <2> QED
      BY <1>2, <1>3, <1>7, <2>3
  <1> QED
    BY <1>6, <1>7

\* Of the nodes that hang off a node, a level has all or none.
LEMMA LevelKids ==
    ASSUME NEW ix \in IndexType, Rooted(ix), ix.del = {}, NEW D, Leveled(ix, D),
           NEW p \in Live(ix), NEW d \in Nat
    PROVE  Kids(ix, d, p) = IF d = ix.depth[p] + 1 THEN Children(ix, p) ELSE {}
  <1>1. Live(ix) = 0 .. ix.n - 1
    BY DEF Live
  <1>2. \A m \in Children(ix, p) : m \in Live(ix) /\ ~IsRoot(ix, m) /\ ix.parent[m] = p
    BY <1>1 DEF Children
  <1>3. \A m \in Children(ix, p) : ix.depth[m] = ix.depth[p] + 1
    BY <1>2, ChildLevel
  <1>4. \A m : m \in Kids(ix, d, p) <=> m \in Children(ix, p) /\ ix.depth[m] = d
    BY DEF Kids, Children
  <1> QED
    BY <1>3, <1>4

\* A weight that a walk of D turns takes up level by level, the deepest first.
GoesUp(w, ix, D) ==
    /\ w \in [0 .. D -> [Node -> Nat]]
    /\ \A k \in 1 .. D : \A p \in Node :
         w[k][p] = w[k - 1][p] + SumOf(w[k - 1], Kids(ix, D + 1 - k, p))

\* After k turns the nodes down from level D - k hold the sum over their subtree.
TurnTaken(w, ix, D, g, k) ==
    \A p \in Live(ix) :
        w[k][p] = IF ix.depth[p] >= D - k THEN g[Subtree(ix, p)] ELSE w[0][p]

LEMMA TurnTakes ==
    ASSUME NEW ix \in IndexType, Rooted(ix), ix.del = {}, NEW D, Leveled(ix, D),
           NEW w, GoesUp(w, ix, D), NEW g, AddsUp(g, Node, w[0]),
           NEW v \in [Node -> Nat], NEW h, AddsUp(h, Node, v),
           \A m \in Live(ix) : v[m] = g[Subtree(ix, m)],
           NEW k \in 1 .. D, TurnTaken(w, ix, D, g, k - 1)
    PROVE  TurnTaken(w, ix, D, g, k)
  <1> SUFFICES ASSUME NEW p \in Live(ix)
               PROVE  w[k][p] = IF ix.depth[p] >= D - k THEN g[Subtree(ix, p)] ELSE w[0][p]
    BY DEF TurnTaken
  <1> DEFINE y == w[k - 1]
             z == w[k]
             d == D + 1 - k
             C == Children(ix, p)
  <1>1. /\ D \in Nat /\ k \in Nat /\ k >= 1 /\ k <= D /\ d \in Nat /\ d = D - k + 1
        /\ k - 1 \in 0 .. D /\ k \in 0 .. D /\ 0 \in 0 .. D
    BY DEF Leveled
  <1>2. /\ IsFiniteSet(Node) /\ p \in Node /\ Live(ix) \subseteq Node
        /\ y \in [Node -> Nat] /\ w[0] \in [Node -> Nat]
    BY <1>1, LiveNodes DEF GoesUp
  <1>3. z[p] = y[p] + SumOf(y, Kids(ix, d, p))
    BY <1>2 DEF GoesUp
  <1>4. \A m \in Live(ix) :
          y[m] = IF ix.depth[m] >= D - (k - 1) THEN g[Subtree(ix, m)] ELSE w[0][m]
    BY DEF TurnTaken
  <1>5. ix.depth[p] \in Nat
    BY <1>2 DEF IndexType
  <1>6. Kids(ix, d, p) = IF d = ix.depth[p] + 1 THEN C ELSE {}
    BY <1>1, LevelKids
  <1>7. PICK e : AddsUp(e, Node, y)
    BY <1>2, SumsExist
  <1>8. C \in SUBSET Node /\ C \subseteq Live(ix)
    BY SubtreeParts
  <1>9. SumOf(y, C) = e[C] /\ SumOf(y, {}) = 0
    <2> HIDE DEF C, y
    <2>1. ASSUME NEW T \in SUBSET Node
          PROVE  SumOf(y, T) = e[T]
      BY <1>2, <1>7, <2>1, SumOver
    <2>2. e[{}] = 0
      BY <1>7 DEF AddsUp
    <2> QED
      BY <1>8, <2>1, <2>2
  <1>10. y[p] \in Nat /\ w[0][p] \in Nat
    BY <1>2
  <1>11. CASE ix.depth[p] = D - k
    <2>1. d = ix.depth[p] + 1 /\ ~(ix.depth[p] >= D - (k - 1))
      BY <1>1, <1>5, <1>11
    <2>2. ASSUME NEW m \in C
          PROVE  v[m] = y[m]
      <3>1. m \in Live(ix) /\ ~IsRoot(ix, m) /\ ix.parent[m] = p
        BY <1>8 DEF Children
      <3>2. ix.depth[m] = ix.depth[p] + 1
        BY <3>1, ChildLevel
      <3>3. ix.depth[m] >= D - (k - 1)
        BY <1>1, <1>11, <3>2
      <3> QED
        BY <1>4, <3>1, <3>3
    <2>3. g[Subtree(ix, p)] = w[0][p] + h[C]
      BY <1>2, SubtreeGathers
    <2> HIDE DEF C, y, d
    <2>4. h[C] = e[C]
      BY <1>2, <1>7, <1>8, <2>2, SumAgrees
    <2>5. y[p] = w[0][p]
      BY <1>4, <2>1
    <2>6. z[p] = g[Subtree(ix, p)]
      BY <1>3, <1>6, <1>9, <2>1, <2>3, <2>4, <2>5
    <2> QED
      BY <1>1, <1>5, <1>11, <2>6
  <1>12. CASE ix.depth[p] # D - k
    <2>1. d # ix.depth[p] + 1 /\ (ix.depth[p] >= D - (k - 1) <=> ix.depth[p] >= D - k)
      BY <1>1, <1>5, <1>12
    <2> HIDE DEF C, y, d
    <2>2. z[p] = y[p]
      BY <1>3, <1>6, <1>9, <1>10, <2>1
    <2> QED
      BY <1>4, <2>1, <2>2
  <1> QED
    BY <1>11, <1>12

LEMMA RolledUp ==
    ASSUME NEW ix \in IndexType, Rooted(ix), ix.del = {}, NEW D, Leveled(ix, D),
           NEW w, GoesUp(w, ix, D), NEW p \in Live(ix)
    PROVE  w[D][p] = SumOf(w[0], Subtree(ix, p))
  <1>1. D \in Nat /\ 0 \in 0 .. D
    BY DEF Leveled
  <1>2. /\ IsFiniteSet(Node) /\ Live(ix) \subseteq Node /\ w[0] \in [Node -> Nat]
    BY <1>1, LiveNodes DEF GoesUp
  <1>3. PICK g : AddsUp(g, Node, w[0])
    BY <1>2, SumsExist
  <1> DEFINE v == [m \in Node |-> IF m \in Live(ix) THEN g[Subtree(ix, m)] ELSE 0]
  <1>4. \A m \in Live(ix) : Subtree(ix, m) \in SUBSET Node
    BY SubtreeParts
  <1>5. v \in [Node -> Nat] /\ \A m \in Live(ix) : v[m] = g[Subtree(ix, m)]
    BY <1>2, <1>3, <1>4 DEF AddsUp
  <1> HIDE DEF v
  <1>6. PICK h : AddsUp(h, Node, v)
    BY <1>2, <1>5, SumsExist
  <1>7. TurnTaken(w, ix, D, g, 0)
    <2> SUFFICES ASSUME NEW q \in Live(ix), ix.depth[q] >= D - 0
                 PROVE  w[0][q] = g[Subtree(ix, q)]
      BY DEF TurnTaken
    <2>1. ix.depth[q] = D
      <3>1. ix.depth[q] <= D /\ ix.depth[q] \in Nat
        BY <1>2 DEF Leveled, IndexType
      <3> QED
        BY <1>1, <3>1
    <2>2. Children(ix, q) = {}
      <3>1. ASSUME NEW m \in Children(ix, q)
            PROVE  FALSE
        <4>1. m \in Live(ix) /\ ~IsRoot(ix, m) /\ ix.parent[m] = q
          BY DEF Children, Live
        <4>2. ix.depth[m] = D + 1 /\ ix.depth[m] <= D
          BY <2>1, <4>1, ChildLevel DEF Leveled
        <4> QED
          BY <1>1, <4>2
      <3> QED
        BY <3>1
    <2>3. g[Subtree(ix, q)] = w[0][q] + h[Children(ix, q)]
      BY <1>2, <1>3, <1>5, <1>6, SubtreeGathers
    <2>4. h[{}] = 0 /\ w[0][q] \in Nat
      BY <1>2, <1>6 DEF AddsUp
    <2> QED
      BY <2>2, <2>3, <2>4
  <1> DEFINE S == {k \in 0 .. D : TurnTaken(w, ix, D, g, k)}
  <1>8. \A k \in S : k < D => k + 1 \in S
    <2> SUFFICES ASSUME NEW k \in 0 .. D, TurnTaken(w, ix, D, g, k), k < D
                 PROVE  k + 1 \in 0 .. D /\ TurnTaken(w, ix, D, g, k + 1)
      OBVIOUS
    <2> DEFINE j == k + 1
    <2>1. j \in 1 .. D /\ j \in 0 .. D /\ j - 1 = k
      BY <1>1
    <2> HIDE DEF j
    <2>2. TurnTaken(w, ix, D, g, j)
      BY <1>3, <1>5, <1>6, <2>1, TurnTakes
    <2> QED
      BY <2>1, <2>2 DEF j
  <1>9. S = 0 .. D
    <2>1. 0 \in S /\ S \in SUBSET (0 .. D)
      BY <1>1, <1>7
    <2> HIDE DEF S
    <2> QED
      BY <1>1, <1>8, <2>1, InductUpTo
  <1>10. TurnTaken(w, ix, D, g, D)
    BY <1>1, <1>9
  <1>11. ix.depth[p] >= D - D
    <2>1. ix.depth[p] \in Nat
      BY <1>2 DEF IndexType
    <2> QED
      BY <1>1, <2>1
  <1>12. w[D][p] = g[Subtree(ix, p)]
    BY <1>10, <1>11 DEF TurnTaken
  <1> QED
    BY <1>2, <1>3, <1>4, <1>12, SumOver

------------------------------------------------------------------------------
\* Totals: the scan's rollup gives what a recount would.

\* What the scan knows of the volume before any total is rolled up: folders weigh
\* nothing, files their size.
LEMMA OwnIs ==
    ASSUME NEW vol \in [Rec -> FileRecord]
    PROVE  LET dx == Depths(Scanned(vol))
           IN  /\ dx \in IndexType /\ SamePlaces(Scanned(vol), dx) /\ dx.del = {}
               /\ \A m \in Live(dx) \cap dx.dir : dx.size[m] = 0
               /\ \A m \in Node : dx.files[m] = 0
  <1> DEFINE sx == Scanned(vol)
             dx == Depths(sx)
  <1>1. sx \in IndexType /\ Pass(vol, sx) /\ OwnTotals(vol, sx)
    BY ScannedIs
  <1> HIDE DEF sx
  <1>2. /\ dx \in IndexType /\ SamePlaces(sx, dx) /\ dx.size = sx.size /\ dx.files = sx.files
    BY <1>1, DepthsIs
  <1> HIDE DEF dx
  <1>3. dx.del = {} /\ dx.dir = sx.dir /\ Live(dx) = 0 .. Count(vol) - 1
    BY <1>1, <1>2 DEF SamePlaces, Pass, Live
  <1>4. ASSUME NEW m \in Live(dx) \cap dx.dir
        PROVE  dx.size[m] = 0
    <2>1. PICK r \in InUse(vol) : NodeAt(vol, r) = m
      BY <1>3, NodeAtIs
    <2>2. r \in Rec
      BY DEF InUse
    <2>3. sx.rec[r] = m /\ vol[r].dir
      BY <1>1, <1>3, <2>1, <2>2 DEF Pass
    <2> QED
      BY <1>1, <1>2, <2>3 DEF OwnTotals
  <1>5. \A m \in Node : dx.files[m] = 0
    BY <1>1, <1>2 DEF OwnTotals
  <1> QED
    BY <1>2, <1>3, <1>4, <1>5 DEF dx, sx

\* Where rollup starts, and that each of its turns adds a level up.
LEMMA BuiltGoesUp ==
    ASSUME NEW vol \in [Rec -> FileRecord], Rooted(Built(vol))
    PROVE  LET dx == Depths(Scanned(vol))
           IN  \E D, w, c :
                 /\ Rooted(dx) /\ Leveled(dx, D) /\ GoesUp(w, dx, D) /\ GoesUp(c, dx, D)
                 /\ w[0] = dx.size /\ w[D] = Built(vol).size
                 /\ c[0] = Counts(dx) /\ c[D] = Counts(Built(vol))
                 /\ SamePlaces(dx, Built(vol)) /\ Built(vol) \in IndexType
  <1> DEFINE sx == Scanned(vol)
             dx == Depths(sx)
             D  == Deepest(dx)
             bx == Built(vol)
  <1>1. dx \in IndexType /\ SamePlaces(sx, dx) /\ dx.del = {} /\ sx \in IndexType
    BY OwnIs, ScannedIs
  <1>2. \A m \in Node : dx.depth[m] =
          IF m < sx.n /\ ~IsRoot(sx, m) THEN Cardinality(Ancestors(sx, m)) ELSE 0
    BY <1>1, DepthsIs
  <1>3. PICK f : Rolls(f, dx, D) /\ bx = f[D]
    <2>1. bx = Rollup(dx)
      BY DEF Built
    <2> HIDE DEF dx, bx
    <2> QED
      BY <1>1, <2>1, RollupIs
  <1> HIDE DEF sx, dx, bx
  <1>4. D \in Nat /\ \A m \in Node : dx.depth[m] <= D
    BY <1>1, DeepestIs
  <1> HIDE DEF D
  <1>5. /\ bx \in IndexType
        /\ \A k \in 0 .. D : f[k] \in IndexType /\ SamePlaces(dx, f[k]) /\ f[k].depth = dx.depth
        /\ SamePlaces(dx, bx)
    <2>1. D \in 0 .. D
      BY <1>4
    <2> QED
      BY <1>1, <1>3, <1>4, <2>1, RollsStays
  <1>6. Rooted(dx)
    <2>1. Rooted(bx) /\ SamePlaces(bx, dx)
      BY <1>5 DEF SamePlaces, bx
    <2> QED
      BY <1>1, <1>5, <2>1, RootedSame
  <1>7. Leveled(dx, D)
    <2> SUFFICES ASSUME NEW m \in Live(dx)
                 PROVE  dx.depth[m] = IF IsRoot(dx, m) THEN 0 ELSE Cardinality(Ancestors(dx, m))
      BY <1>1, <1>4, LiveNodes DEF Leveled
    <2>1. m \in Node /\ m < sx.n /\ dx.parent = sx.parent
      BY <1>1, LiveNodes DEF Live, SamePlaces
    <2>2. Ancestors(dx, m) = Ancestors(sx, m)
      BY <1>1, <2>1, SameAncestors
    <2> QED
      BY <1>2, <2>1, <2>2 DEF IsRoot
  <1> DEFINE w == [k \in 0 .. D |-> f[k].size]
             c == [k \in 0 .. D |-> Counts(f[k])]
  <1>8. ASSUME NEW k \in 1 .. D
        PROVE  /\ k \in 0 .. D /\ k - 1 \in 0 .. D
               /\ f[k - 1] \in IndexType /\ D + 1 - k \in Nat
               /\ Folded(f[k - 1], D + 1 - k, f[k])
               /\ \A p \in Node : Kids(f[k - 1], D + 1 - k, p) = Kids(dx, D + 1 - k, p)
    <2>1. k \in 0 .. D /\ k - 1 \in 0 .. D /\ D + 1 - k \in Nat
      BY <1>4
    <2>2. f[k - 1] \in IndexType /\ SamePlaces(dx, f[k - 1]) /\ f[k - 1].depth = dx.depth
      BY <1>5, <2>1
    <2>3. f[k] = FoldLevel(f[k - 1], D + 1 - k)
      BY <1>3 DEF Rolls
    <2>4. Folded(f[k - 1], D + 1 - k, f[k])
      BY <2>1, <2>2, <2>3, FoldLevelIs
    <2> QED
      BY <2>1, <2>2, <2>4 DEF Kids, SamePlaces, IsRoot
  <1>9. GoesUp(w, dx, D)
    <2>1. w \in [0 .. D -> [Node -> Nat]]
      BY <1>5 DEF IndexType
    <2>2. ASSUME NEW k \in 1 .. D, NEW p \in Node
          PROVE  w[k][p] = w[k - 1][p] + SumOf(w[k - 1], Kids(dx, D + 1 - k, p))
      <3>1. w[k] = f[k].size /\ w[k - 1] = f[k - 1].size
        BY <1>8
      <3> HIDE DEF w
      <3> QED
        BY <1>8, <3>1 DEF Folded
    <2> QED
      BY <2>1, <2>2 DEF GoesUp
  <1>10. \A k \in 0 .. D : \A p \in Node :
           Counts(f[k])[p] = IF p \in dx.dir THEN f[k].files[p] ELSE 1
    <2>1. \A k \in 0 .. D : f[k].dir = dx.dir
      BY <1>5 DEF SamePlaces
    <2> QED
      BY <2>1 DEF Counts, FilesOf
  <1>11. ASSUME NEW p \in Node, p \notin dx.dir, NEW d
         PROVE  Kids(dx, d, p) = {}
    <2>1. ASSUME NEW m \in Kids(dx, d, p)
          PROVE  FALSE
      <3>1. m \in Live(dx) /\ ~IsRoot(dx, m) /\ dx.parent[m] = p
        BY <1>1 DEF Kids, Live
      <3>2. m # dx.rec[RootRec]
        BY <1>1, <1>6, <3>1, OneRoot
      <3> QED
        BY <1>1, <1>6, <1>11, <3>1, <3>2, ParentLine
    <2> QED
      BY <2>1
  <1>12. GoesUp(c, dx, D)
    <2>1. ASSUME NEW k \in 0 .. D
          PROVE  Counts(f[k]) \in [Node -> Nat]
      <3>1. f[k].files \in [Node -> Nat]
        BY <1>5 DEF IndexType
      <3> QED
        BY <3>1 DEF Counts, FilesOf
    <2>2. c \in [0 .. D -> [Node -> Nat]]
      BY <2>1
    <2>3. ASSUME NEW k \in 1 .. D, NEW p \in Node
          PROVE  c[k][p] = c[k - 1][p] + SumOf(c[k - 1], Kids(dx, D + 1 - k, p))
      <3> DEFINE y == Counts(f[k - 1])
      <3>1. c[k] = Counts(f[k]) /\ c[k - 1] = y /\ k \in 0 .. D /\ k - 1 \in 0 .. D
        BY <1>8
      <3> HIDE DEF c
      <3>2. f[k].files[p] = f[k - 1].files[p] + SumOf(y, Kids(dx, D + 1 - k, p))
        BY <1>8 DEF Folded
      <3>3. /\ Counts(f[k])[p] = IF p \in dx.dir THEN f[k].files[p] ELSE 1
            /\ y[p] = IF p \in dx.dir THEN f[k - 1].files[p] ELSE 1
        BY <1>10, <3>1
      <3>4. y \in [Node -> Nat]
        BY <2>1, <3>1
      <3> HIDE DEF y
      <3>5. CASE p \in dx.dir
        BY <3>1, <3>2, <3>3, <3>5
      <3>6. CASE p \notin dx.dir
        <4>1. Kids(dx, D + 1 - k, p) = {}
          BY <1>11, <3>6
        <4>2. SumOf(y, {}) = 0
          <5>1. IsFiniteSet(Node) /\ {} \in SUBSET Node
            BY <1>1, LiveNodes
          <5>2. PICK e : AddsUp(e, Node, y)
            BY <3>4, <5>1, SumsExist
          <5>3. SumOf(y, {}) = e[{}]
            BY <3>4, <5>1, <5>2, SumOver
          <5> QED
            BY <5>2, <5>3 DEF AddsUp
        <4> QED
          BY <3>1, <3>3, <3>6, <4>1, <4>2
      <3> QED
        BY <3>5, <3>6
    <2> QED
      BY <2>2, <2>3 DEF GoesUp
  <1>13. /\ w[0] = dx.size /\ w[D] = bx.size /\ c[0] = Counts(dx) /\ c[D] = Counts(bx)
    <2>1. 0 \in 0 .. D /\ D \in 0 .. D /\ f[0] = dx
      BY <1>3, <1>4 DEF Rolls
    <2> QED
      BY <1>3, <2>1
  <1> HIDE DEF w, c
  <1>14. \E E, x, y : /\ Rooted(dx) /\ Leveled(dx, E) /\ GoesUp(x, dx, E) /\ GoesUp(y, dx, E)
                      /\ x[0] = dx.size /\ x[E] = bx.size
                      /\ y[0] = Counts(dx) /\ y[E] = Counts(bx)
                      /\ SamePlaces(dx, bx) /\ bx \in IndexType
    BY <1>5, <1>6, <1>7, <1>9, <1>12, <1>13
  <1> QED
    BY <1>14 DEF dx, sx, bx

\* Below a file is the file alone.
LEMMA FileSum ==
    ASSUME NEW ix \in IndexType, Rooted(ix), ix.del = {}, NEW w \in [Node -> Nat],
           NEW g, AddsUp(g, Node, w), NEW d \in Live(ix), d \notin ix.dir
    PROVE  g[Subtree(ix, d)] = w[d]
  <1> DEFINE T == Subtree(ix, d)
  <1>1. Live(ix) = 0 .. ix.n - 1 /\ Live(ix) \subseteq Node /\ IsFiniteSet(Node) /\ d \in Node
    BY LiveNodes DEF Live
  <1>2. \A m : m \in T <=> m \in Live(ix) /\ (m = d \/ d \in Ancestors(ix, m))
    BY <1>1 DEF Subtree
  <1>3. \A m \in Live(ix) : Ancestors(ix, m) \subseteq ix.dir
    BY RootedIs
  <1>4. T \in SUBSET Node /\ T = {d}
    BY <1>1, <1>2, <1>3
  <1>5. d \in T /\ T \ {d} = {}
    BY <1>4
  <1> HIDE DEF T
  <1>6. ASSUME NEW s \in SUBSET Node, NEW x \in s
        PROVE  g[s] = w[x] + g[s \ {x}]
    BY <1>1, SumTakes
  <1>7. g[{}] = 0 /\ w[d] \in Nat
    BY <1>1 DEF AddsUp
  <1>8. g[T] = w[d]
    <2>1. g[T] = w[d] + g[T \ {d}]
      BY <1>4, <1>5, <1>6
    <2> QED
      BY <1>5, <1>7, <2>1
  <1> QED
    BY <1>8 DEF T

\* A weight that folders do not have: over a folder's subtree it is the sum over
\* the files below, and over a file's the file's own.
LEMMA FilesSum ==
    ASSUME NEW ix \in IndexType, Rooted(ix), ix.del = {}, NEW w \in [Node -> Nat],
           \A m \in Live(ix) \cap ix.dir : w[m] = 0, NEW g, AddsUp(g, Node, w),
           NEW d \in Live(ix)
    PROVE  /\ d \in ix.dir =>
                g[Subtree(ix, d)] = g[{m \in Live(ix) \ ix.dir : d \in Ancestors(ix, m)}]
           /\ d \notin ix.dir => g[Subtree(ix, d)] = w[d]
  <1> DEFINE T == Subtree(ix, d)
             A == {m \in Live(ix) \ ix.dir : d \in Ancestors(ix, m)}
             B == T \ A
  <1>1. Live(ix) = 0 .. ix.n - 1 /\ Live(ix) \subseteq Node /\ IsFiniteSet(Node) /\ d \in Node
    BY LiveNodes DEF Live
  <1>2. \A m : m \in T <=> m \in Live(ix) /\ (m = d \/ d \in Ancestors(ix, m))
    BY <1>1 DEF Subtree
  <1>3. T \in SUBSET Node
    BY <1>1, <1>2
  <1>4. CASE d \in ix.dir
    <2>1. A \subseteq T /\ B \subseteq ix.dir /\ A \cap B = {} /\ A \cup B = T
      BY <1>2, <1>4
    <2>2. A \in SUBSET Node /\ B \in SUBSET Node /\ \A m \in B : w[m] = 0
      BY <1>2, <1>3, <2>1
    <2> HIDE DEF A, B, T
    <2>3. g[B] = 0
      BY <1>1, <2>2, SumOfNothing
    <2>4. g[A \cup B] = g[A] + g[B]
      BY <1>1, <2>1, <2>2, SumJoins
    <2>5. g[A] \in Nat
      BY <2>2 DEF AddsUp
    <2>6. g[T] = g[A]
      <3>1. g[T] = g[A \cup B]
        BY <2>1
      <3> QED
        BY <2>3, <2>4, <2>5, <3>1
    <2> QED
      BY <1>4, <2>6 DEF A, T
  <1>5. CASE d \notin ix.dir
    BY <1>5, FileSum
  <1> QED
    BY <1>4, <1>5

\* What rollup leaves is what a recount would give.
LEMMA BuiltRecounted ==
    ASSUME NEW vol \in [Rec -> FileRecord], Rooted(Built(vol)), Built(vol).excl = {}
    PROVE  Recounted(Built(vol))
  <1> DEFINE dx == Depths(Scanned(vol))
             bx == Built(vol)
  <1>1. /\ dx \in IndexType /\ dx.del = {}
        /\ \A m \in Live(dx) \cap dx.dir : dx.size[m] = 0
        /\ \A m \in Node : dx.files[m] = 0
    BY OwnIs
  <1>2. PICK D, w, c :
                 /\ Rooted(dx) /\ Leveled(dx, D) /\ GoesUp(w, dx, D) /\ GoesUp(c, dx, D)
                 /\ w[0] = dx.size /\ w[D] = bx.size
                 /\ c[0] = Counts(dx) /\ c[D] = Counts(bx)
                 /\ SamePlaces(dx, bx) /\ bx \in IndexType
    BY BuiltGoesUp
  <1> HIDE DEF dx, bx
  <1>3. /\ Live(bx) = Live(dx) /\ bx.dir = dx.dir /\ bx.parent = dx.parent
        /\ Live(dx) \subseteq Node /\ IsFiniteSet(Node) /\ bx.excl = {}
    BY <1>1, <1>2, LiveNodes DEF SamePlaces, Live, bx
  <1>4. \A m \in Node : Ancestors(bx, m) = Ancestors(dx, m)
    BY <1>1, <1>2, <1>3, SameAncestors
  <1> DEFINE y == Counts(dx)
             Below(d) == {m \in Live(dx) \ dx.dir : d \in Ancestors(dx, m)}
  <1>5. /\ dx.size \in [Node -> Nat] /\ y \in [Node -> Nat] /\ bx.size \in [Node -> Nat]
        /\ \A m \in Node : y[m] = IF m \in dx.dir THEN 0 ELSE 1
    BY <1>1, <1>2 DEF IndexType, Counts, FilesOf
  <1>6. \A m \in Live(dx) \cap dx.dir : y[m] = 0
    BY <1>3, <1>5
  <1>7. PICK g : AddsUp(g, Node, dx.size)
    BY <1>3, <1>5, SumsExist
  <1>8. PICK e : AddsUp(e, Node, y)
    <2> HIDE DEF y
    <2> QED
      BY <1>3, <1>5, SumsExist
  <1>9. \A d \in Live(dx) : Subtree(dx, d) \in SUBSET Node
    BY <1>1, <1>2, SubtreeParts
  <1>10. ASSUME NEW d \in Live(dx)
         PROVE  bx.size[d] = g[Subtree(dx, d)] /\ Counts(bx)[d] = e[Subtree(dx, d)]
    <2>1. w[D][d] = SumOf(w[0], Subtree(dx, d)) /\ c[D][d] = SumOf(c[0], Subtree(dx, d))
      BY <1>1, <1>2, RolledUp
    <2>2. SumOf(dx.size, Subtree(dx, d)) = g[Subtree(dx, d)]
      BY <1>3, <1>5, <1>7, <1>9, SumOver
    <2> HIDE DEF y
    <2>3. SumOf(y, Subtree(dx, d)) = e[Subtree(dx, d)]
      BY <1>3, <1>5, <1>8, <1>9, SumOver
    <2> QED
      BY <1>2, <2>1, <2>2, <2>3 DEF y
  <1>11. \A d \in Live(dx) :
           /\ d \in dx.dir => g[Subtree(dx, d)] = g[Below(d)] /\ e[Subtree(dx, d)] = e[Below(d)]
           /\ d \notin dx.dir => g[Subtree(dx, d)] = dx.size[d]
    <2> SUFFICES ASSUME NEW d \in Live(dx)
                 PROVE  /\ d \in dx.dir => g[Subtree(dx, d)] = g[Below(d)]
                                           /\ e[Subtree(dx, d)] = e[Below(d)]
                        /\ d \notin dx.dir => g[Subtree(dx, d)] = dx.size[d]
      OBVIOUS
    <2> DEFINE s == dx.size
    <2> HIDE DEF y
    <2>1. /\ d \in dx.dir => g[Subtree(dx, d)] = g[Below(d)]
          /\ d \notin dx.dir => g[Subtree(dx, d)] = s[d]
      <3>1. s \in [Node -> Nat] /\ AddsUp(g, Node, s) /\ \A m \in Live(dx) \cap dx.dir : s[m] = 0
        BY <1>1, <1>5, <1>7
      <3> HIDE DEF s
      <3> QED
        BY <1>1, <1>2, <3>1, FilesSum
    <2>2. d \in dx.dir => e[Subtree(dx, d)] = e[Below(d)]
      BY <1>1, <1>2, <1>5, <1>6, <1>8, FilesSum
    <2> QED
      BY <2>1, <2>2
  <1>12. PICK h : AddsUp(h, Node, bx.size) /\ (Recounted(bx) <=> Told(bx, h))
    BY <1>2, ToldIs
  <1>13. ASSUME NEW d \in ShownFolders(bx)
         PROVE  bx.size[d] = h[FilesBelow(bx, d)]
                /\ bx.files[d] = Cardinality(FilesBelow(bx, d))
    <2> DEFINE A == Below(d)
    <2>1. d \in Live(dx) /\ d \in dx.dir /\ d \in Node
      BY <1>3 DEF ShownFolders
    <2>2. FilesBelow(bx, d) = A /\ A \in SUBSET Node
      BY <1>3, <1>4 DEF FilesBelow
    <2>3. \A f \in A : f \in Live(dx) /\ f \notin dx.dir
      OBVIOUS
    <2>4. bx.size[d] = g[A] /\ Counts(bx)[d] = e[A]
      BY <1>10, <1>11, <2>1
    <2> HIDE DEF A
    <2>5. \A f \in A : bx.size[f] = dx.size[f]
      BY <1>10, <1>11, <2>3
    <2>6. h[A] = g[A]
      BY <1>3, <1>5, <1>7, <1>12, <2>2, <2>5, SumAgrees
    <2>7. \A f \in A : y[f] = 1
      BY <1>5, <2>2, <2>3
    <2> HIDE DEF y
    <2>8. e[A] = Cardinality(A)
      BY <1>3, <1>5, <1>8, <2>2, <2>7, SumOfOnes
    <2>9. Counts(bx)[d] = bx.files[d]
      BY <1>3, <2>1 DEF Counts, FilesOf
    <2> QED
      BY <2>2, <2>4, <2>6, <2>8, <2>9
  <1>14. Recounted(bx)
    BY <1>12, <1>13 DEF Told
  <1> QED
    BY <1>14 DEF bx

------------------------------------------------------------------------------
\* Totals: pruning and changes keep it so.

\* Pruning a folder takes off the folders above it what is below it.
LEMMA PruneRecounted ==
    ASSUME NEW ix \in IndexType, Rooted(ix), Recounted(ix), NEW top \in Live(ix), top \in ix.dir
    PROVE  Recounted(ExcludeSubtree(ix, top))
  <1> DEFINE root == ix.rec[RootRec]
             kx == [ix EXCEPT !.excl = @ \cup Subtree(ix, top)]
             ds == - ix.size[top]
             df == - ix.files[top]
             jx == Propagate(kx, top, ds, - ix.alloc[top], df)
  <1>1. /\ top \in Node /\ Live(ix) \subseteq Node /\ IsFiniteSet(Node)
        /\ Reaches(ix, top, root) /\ ix.size \in [Node -> Nat] /\ ix.files \in [Node -> Nat]
        /\ \A d : FilesBelow(ix, d) \in SUBSET Node
    BY LiveNodes, OneRoot DEF IndexType
  <1>2. CASE top \in ix.excl
    BY <1>2 DEF ExcludeSubtree
  <1>3. CASE top \notin ix.excl
    <2>1. ExcludeSubtree(ix, top) = jx
      BY <1>3 DEF ExcludeSubtree
    <2>2. /\ kx \in IndexType /\ kx.parent = ix.parent /\ kx.size = ix.size /\ kx.files = ix.files
          /\ kx.n = ix.n /\ kx.dir = ix.dir /\ kx.del = ix.del
          /\ kx.excl = ix.excl \cup Subtree(ix, top)
      <3>1. Subtree(ix, top) \subseteq Node
        <4>1. 0 .. ix.n - 1 \subseteq Node
          BY IndexAssumption DEF IndexType, Node
        <4> QED
          BY <4>1 DEF Subtree
      <3> QED
        BY <3>1 DEF IndexType
    <2> HIDE DEF kx
    <2>3. ds \in Int /\ - ix.alloc[top] \in Int /\ df \in Int
      BY <1>1 DEF IndexType
    <2>4. Reaches(kx, top, root) /\ Ancestors(kx, top) = Ancestors(ix, top)
      <3>1. Ancestors(kx, top) = Ancestors(ix, top)
        BY <1>1, <2>2, SameAncestors
      <3> QED
        BY <1>1, <2>2, <3>1 DEF Reaches, IsRoot
    <2>5. /\ jx \in IndexType /\ jx.parent = ix.parent /\ jx.n = ix.n /\ jx.dir = ix.dir
          /\ jx.del = ix.del /\ jx.excl = ix.excl \cup Subtree(ix, top)
      <3> HIDE DEF ds, df
      <3>1. /\ jx \in IndexType /\ SameTable(kx, jx) /\ jx.parent = kx.parent /\ jx.excl = kx.excl
        BY <2>2, <2>3, PropagateGood
      <3> HIDE DEF jx
      <3> QED
        BY <2>2, <3>1 DEF SameTable
    <2>6. \A a \in Node :
            /\ jx.size[a] = IF a \in Ancestors(ix, top) THEN SatAdd(ix.size[a], ds)
                            ELSE ix.size[a]
            /\ jx.files[a] = IF a \in Ancestors(ix, top) THEN SatAdd(ix.files[a], df)
                             ELSE ix.files[a]
      <3> HIDE DEF ds, df
      <3>1. Carried(kx, jx, Ancestors(kx, top), ds, df, NoNode)
        BY <1>1, <2>2, <2>3, <2>4, PropagateAdds
      <3>2. \A a \in Node : a # NoNode
        BY IndexAssumption DEF Node
      <3> HIDE DEF jx
      <3> QED
        BY <2>2, <2>4, <3>1, <3>2 DEF Carried
    <2> HIDE DEF jx
    <2>7. PICK g : AddsUp(g, Node, ix.size) /\ Told(ix, g)
      BY ToldIs
    <2>8. PICK h : AddsUp(h, Node, jx.size) /\ (Recounted(jx) <=> Told(jx, h))
      BY <2>5, ToldIs
    <2>9. /\ Live(jx) = Live(ix) /\ jx.size \in [Node -> Nat]
          /\ \A m \in Node : Ancestors(jx, m) = Ancestors(ix, m)
      BY <2>5, SameAncestors DEF Live, IndexType
    <2>10. ASSUME NEW d \in ShownFolders(jx)
           PROVE  jx.size[d] = h[FilesBelow(jx, d)]
                  /\ jx.files[d] = Cardinality(FilesBelow(jx, d))
      <3> DEFINE A == FilesBelow(jx, d)
                 B == FilesBelow(ix, top)
                 W == FilesBelow(ix, d)
      <3>1. /\ d \in Live(ix) /\ d \in ix.dir /\ d \notin ix.excl /\ d \in Node
            /\ d # top /\ top \notin Ancestors(ix, d)
        BY <1>1, <2>5, <2>9 DEF ShownFolders, Subtree, Live
      <3>2. \A f : f \in A <=> f \in W /\ top \notin Ancestors(ix, f)
        <4>1. ASSUME NEW f \in Live(ix) \ ix.dir
              PROVE  /\ f \in Node /\ f # top
                     /\ f \in Subtree(ix, top) <=> top \in Ancestors(ix, f)
          BY <1>1 DEF Subtree, Live
        <4> QED
          BY <2>5, <2>9, <4>1 DEF FilesBelow
      <3>3. A \in SUBSET Node /\ B \in SUBSET Node /\ W \in SUBSET Node
        BY <1>1, <3>2
      <3>4. \A f \in A : jx.size[f] = ix.size[f]
        <4>1. Ancestors(ix, top) \subseteq ix.dir
          BY RootedIs
        <4> QED
          BY <2>6, <3>2, <3>3, <4>1 DEF FilesBelow
      <3>5. ix.size[d] = g[W] /\ ix.files[d] = Cardinality(W)
        BY <2>7, <3>1 DEF Told, ShownFolders
      <3>6. ix.size[top] = g[B] /\ ix.files[top] = Cardinality(B)
        BY <1>3, <2>7 DEF Told, ShownFolders
      <3>7. \A f \in B : f \in Live(ix) /\ f \in Node /\ top \in Ancestors(ix, f)
                         /\ f \notin ix.dir /\ f \notin ix.excl
        BY <1>1 DEF FilesBelow
      <3>8. h[A] = g[A]
        <4> HIDE DEF A
        <4> QED
          BY <1>1, <2>7, <2>8, <2>9, <3>3, <3>4, SumAgrees
      <3>9. CASE d \in Ancestors(ix, top)
        <4>1. B \subseteq W
          <5>1. ASSUME NEW f \in B
                PROVE  f \in W
            <6>1. Reaches(ix, f, root) /\ top \in Ancestors(ix, f)
              BY <3>7, OneRoot
            <6>2. top # root
              <7>1. SUFFICES ASSUME top = root PROVE FALSE
                OBVIOUS
              <7>2. root \in Ancestors(ix, d)
                BY <3>1, OneRoot DEF Reaches
              <7> QED
                BY <3>1, <7>1, <7>2
            <6>3. d \in Ancestors(ix, f)
              BY <3>7, <3>9, <6>1, <6>2, FromAbove
            <6> QED
              BY <3>7, <6>3 DEF FilesBelow
          <5> QED
            BY <5>1
        <4>2. A \cap B = {} /\ A \cup B = W
          <5>1. \A f \in W : top \in Ancestors(ix, f) => f \in B
            BY DEF FilesBelow
          <5> HIDE DEF A, B, W
          <5> QED
            BY <3>2, <3>7, <4>1, <5>1
        <4> HIDE DEF A, B, W
        <4>3. g[A \cup B] = g[A] + g[B]
          BY <1>1, <2>7, <3>3, <4>2, SumJoins
        <4>4. g[A] \in Nat /\ g[B] \in Nat
          BY <2>7, <3>3 DEF AddsUp
        <4>5. Cardinality(A \cup B) = Cardinality(A) + Cardinality(B)
              /\ Cardinality(A) \in Nat /\ Cardinality(B) \in Nat
          <5>1. IsFiniteSet(A) /\ IsFiniteSet(B) /\ Cardinality(A) \in Nat /\ Cardinality(B) \in Nat
            BY <1>1, <3>3, SubsetCard
          <5>2. Cardinality(A \cap B) = 0
            BY <4>2, FS_EmptySet
          <5>3. Cardinality(A \cup B) = Cardinality(A) + Cardinality(B) - Cardinality(A \cap B)
            BY <5>1, FS_Union
          <5> QED
            BY <5>1, <5>2, <5>3
        <4>6. jx.size[d] = SatAdd(ix.size[d], ds) /\ jx.files[d] = SatAdd(ix.files[d], df)
          BY <2>6, <3>1, <3>9
        <4>7. SatAdd(g[A] + g[B], - g[B]) = g[A]
          BY <4>4 DEF SatAdd
        <4>8. SatAdd(Cardinality(A) + Cardinality(B), - Cardinality(B)) = Cardinality(A)
          BY <4>5 DEF SatAdd
        <4>9. ix.size[d] = g[A] + g[B] /\ ds = - g[B]
          BY <3>5, <3>6, <4>2, <4>3
        <4>10. ix.files[d] = Cardinality(A) + Cardinality(B) /\ df = - Cardinality(B)
          BY <3>5, <3>6, <4>2, <4>5
        <4>11. jx.size[d] = h[A] /\ jx.files[d] = Cardinality(A)
          BY <3>8, <4>6, <4>7, <4>8, <4>9, <4>10
        <4> QED
          BY <4>11 DEF A
      <3>10. CASE d \notin Ancestors(ix, top)
        <4>1. A = W
          <5>1. ASSUME NEW f \in W, top \in Ancestors(ix, f)
                PROVE  FALSE
            <6>1. f \in Live(ix) /\ d \in Ancestors(ix, f)
              BY DEF FilesBelow
            <6>2. f \in Node /\ Reaches(ix, f, root)
              BY <6>1, OneRoot
            <6> QED
              BY <3>1, <3>10, <5>1, <6>1, <6>2, InLine
          <5> QED
            BY <3>2, <5>1
        <4> HIDE DEF A, W
        <4>2. jx.size[d] = ix.size[d] /\ jx.files[d] = ix.files[d]
          BY <2>6, <3>1, <3>10
        <4>3. jx.size[d] = h[A] /\ jx.files[d] = Cardinality(A)
          BY <3>5, <3>8, <4>1, <4>2
        <4> QED
          BY <4>3 DEF A
      <3> QED
        BY <3>9, <3>10
    <2>11. Recounted(jx)
      BY <2>8, <2>10 DEF Told
    <2> QED
      BY <2>1, <2>11
  <1> QED
    BY <1>2, <1>3

\* So the scan leaves totals that a recount would give.
LEMMA ScanRecounted ==
    ASSUME NEW ix \in IndexType, Rooted(ix), Recounted(ix), ix.del = {}, FlagsSound(ix),
           NEW paths \in SUBSET Seq(Name), IsFiniteSet(paths), NameFolders(ix, paths)
    PROVE  Recounted(ExcludeAll(ix, paths))
  <1> DEFINE P == {jx \in IndexType : SamePlaces(ix, jx) /\ Recounted(jx)}
  <1>1. PICK g : Prunes(g, ix, paths) /\ ExcludeAll(ix, paths) = g[paths]
    BY ExcludeAllIs
  <1>2. ix \in P
    BY DEF SamePlaces
  <1>3. ASSUME NEW path \in paths, NEW jx \in IndexType \cap P
        PROVE  Prune(path, jx) \in P
    <2> DEFINE top == Lookup(jx, path)
    <2>1. jx \in IndexType /\ SamePlaces(ix, jx) /\ Recounted(jx) /\ path \in Seq(Name)
      OBVIOUS
    <2>2. top = Lookup(ix, path) /\ top \in Stands /\ jx.dir = ix.dir /\ Live(jx) = Live(ix)
      BY <2>1, LookupSame DEF SamePlaces, Live
    <2>3. Rooted(jx)
      BY <2>1, RootedSame
    <2>4. Prune(path, jx) \in IndexType /\ SamePlaces(ix, Prune(path, jx))
      BY <2>1, PruneType, SamePlacesTransitive
    <2>5. Recounted(Prune(path, jx))
      <3>1. CASE top = NoNode
        BY <2>1, <3>1 DEF Prune
      <3>2. CASE top # NoNode
        <4>1. top \in ix.dir
          BY <2>2, <3>2 DEF NameFolders
        <4>2. top \in Live(jx) /\ top \in jx.dir
          BY <2>2, <4>1 DEF FlagsSound, Live
        <4>3. Prune(path, jx) = ExcludeSubtree(jx, top)
          BY <3>2 DEF Prune
        <4> HIDE DEF top
        <4> QED
          BY <2>1, <2>3, <4>2, <4>3, PruneRecounted
      <3> QED
        BY <3>1, <3>2
    <2> QED
      BY <2>4, <2>5
  <1> HIDE DEF P
  <1>4. g[paths] \in P
    BY <1>1, <1>2, <1>3, PrunesStay
  <1> QED
    BY <1>1, <1>4 DEF P

\* A change leaves the pruned nodes in their folder.
LEMMA ApplyLeaves ==
    ASSUME NEW ix \in IndexType, ix.n < MaxNodes, RecordTableSound(ix), NEW c \in AnyChange,
           c.kind = "renamed" => ix.excl = {}
    PROVE  PrunedStay(ix, Apply(ix, c))
  <1>1. c.kind \in {"created", "deleted", "resized", "renamed"}
    BY DEF AnyChange
  <1>2. CASE c.kind = "created"
    <2> DEFINE jx == Resolved(ix, c.rec, c.seq)
               m  == Found(ix, c.rec, c.seq)
               p  == NodeOfRecord(jx, c.parent)
               ax == AppendNode(jx, c.rec, c.seq, p, c.name, c.dir, c.size)
    <2>1. /\ c.rec \in Rec /\ c.seq \in Nat /\ c.size \in Nat
          /\ c.name \in Name /\ c.dir \in BOOLEAN
      BY DEF AnyChange
    <2>2. jx \in IndexType /\ jx.n < MaxNodes /\ jx.n = ix.n /\ jx.parent = ix.parent
      BY <2>1, ResolvedGood, ResolvedTree DEF Good, SameTree
    <2>3. Apply(ix, c) = ApplyCreate(ix, c)
      BY <1>2 DEF Apply
    <2>4. CASE m # NoNode /\ m \notin jx.del
      <3>1. ApplyCreate(ix, c) = ApplyResize(ix, c)
        BY <2>4 DEF ApplyCreate
      <3> HIDE DEF jx, m, p, ax
      <3>2. Fewer(ix, ApplyResize(ix, c))
        BY ResizeFewer
      <3> QED
        BY <2>3, <3>1, <3>2 DEF Fewer, SameTree, PrunedStay
    <2>5. CASE (m = NoNode \/ m \in jx.del) /\ (p = NoNode \/ p \in jx.excl)
      <3>1. ApplyCreate(ix, c) = jx
        BY <2>5 DEF ApplyCreate
      <3> HIDE DEF jx, m, p, ax
      <3> QED
        BY <2>2, <2>3, <3>1 DEF PrunedStay
    <2>6. CASE (m = NoNode \/ m \in jx.del) /\ p # NoNode /\ p \notin jx.excl
      <3>1. ApplyCreate(ix, c) = ax
        BY <2>6 DEF ApplyCreate
      <3> HIDE DEF jx, m
      <3>2. p \in Node
        BY <2>2, <2>6, NodeOfRecordType
      <3> HIDE DEF p
      <3>3. NewNode(jx, ax, c.rec, c.seq, p, c.name, c.dir)
        BY <2>1, <2>2, <3>2, AppendHangs
      <3> HIDE DEF ax
      <3>4. \A x \in Live(ix) : x \in Node /\ x # ix.n
        BY LiveNodes DEF Live
      <3> QED
        BY <2>2, <2>3, <3>1, <3>3, <3>4 DEF NewNode, PrunedStay
    <2> QED
      BY <2>4, <2>5, <2>6
  <1>3. CASE c.kind = "deleted"
    BY <1>3, DeleteFewer DEF Apply, Fewer, SameTree, PrunedStay
  <1>4. CASE c.kind = "resized"
    BY <1>4, ResizeFewer DEF Apply, Fewer, SameTree, PrunedStay
  <1>5. CASE c.kind = "renamed"
    BY <1>5 DEF PrunedStay
  <1> QED
    BY <1>1, <1>2, <1>3, <1>4, <1>5

CountInv == FollowInv /\ MarksInv /\ (StepByStep => Recounted(index))

LEMMA CountInit == Init /\ Shallow => CountInv
  <1> SUFFICES ASSUME Init, Shallow
               PROVE  CountInv
    OBVIOUS
  <1>1. FollowInv /\ MarksInv /\ index = Built(mft) /\ mft \in [Rec -> FileRecord]
    BY FollowInit, MarksInit DEF Init, FollowInv, LiveTypes, VolumeTypes
  <1>2. Rooted(Built(mft)) /\ Built(mft).excl = {}
    BY <1>1, BuiltRooted DEF MarksInv, Shallow
  <1> QED
    BY <1>1, <1>2, BuiltRecounted DEF CountInv

LEMMA CountKept == CountInv /\ Shallow' /\ [Next]_vars => CountInv'
  <1> SUFFICES ASSUME CountInv, Shallow', [Next]_vars
               PROVE  CountInv'
    OBVIOUS
  <1>1. FollowInv /\ MarksInv /\ FollowInv' /\ MarksInv' /\ LiveTypes /\ Tree(Places(mft))
    BY FollowKept, MarksKept DEF CountInv, MarksInv
  <1>2. /\ mft \in [Rec -> FileRecord] /\ index \in IndexType
        /\ RecordTableSound(index) /\ FlagsSound(index)
        /\ Now.excluded \in SUBSET Seq(Name) /\ IsFiniteSet(Now.excluded)
    BY <1>1, NowIs DEF LiveTypes, VolumeTypes, IndexSound
  <1>3. Now' = Now
    <2>1. regime' = regime
      BY <1>1, VolumeTypesKept DEF LiveTypes, Next, Scan, ReadBatch, Translate, ApplyChange,
         ChangeVolume, vars, volumeVars
    <2> QED
      BY <2>1 DEF Now
  <1>4. ASSUME StepByStep'
        PROVE  Recounted(index')
    <2>1. ~unfollowed'
      BY <1>4 DEF StepByStep, PrunedApart
    <2>2. StepByStep
      <3>1. \/ unfollowed' = (unfollowed \/ FilePruned)
            \/ unfollowed' = unfollowed
            \/ unfollowed' = (unfollowed \/ FolderLeaves)
        BY DEF Next, Scan, ReadBatch, Translate, ApplyChange, ChangeVolume, vars
      <3>2. ~unfollowed
        BY <2>1, <3>1
      <3> QED
        BY <1>3, <1>4, <3>2 DEF StepByStep, PrunedApart
    <2>3. Recounted(index) /\ Rooted(index)
      BY <1>1, <2>2, FollowRooted DEF CountInv, TreeSound
    <2>4. CASE Scan
      <3>1. index' = ExcludeAll(Built(mft), Now.excluded) /\ mft' = mft /\ ~FilePruned
        BY <2>1, <2>4 DEF Scan, volumeVars
      <3>2. \A r \in Rec : mft[r].live => RootRec \in UpFrom(mft, r, ClimbGuard + 1)
        BY <3>1 DEF Shallow
      <3>3. /\ Built(mft) \in IndexType /\ Rooted(Built(mft)) /\ Built(mft).excl = {}
            /\ FlagsSound(Built(mft))
        BY <1>1, <1>2, <3>2, BuiltRooted
      <3>4. NameFolders(Built(mft), Now.excluded)
        BY <3>1 DEF FilePruned, NameFolders
      <3>5. Built(mft).del = {}
        BY <1>2, BuiltIs, OwnIs, ScannedIs DEF SamePlaces, Pass
      <3>6. Recounted(Built(mft))
        BY <1>2, <3>3, BuiltRecounted
      <3> QED
        BY <1>2, <3>1, <3>3, <3>4, <3>5, <3>6, ScanRecounted
    <2>5. CASE ApplyChange
      <3>1. /\ changes # <<>> /\ index.n < MaxNodes /\ index' = Apply(index, Head(changes))
        BY <2>5 DEF ApplyChange
      <3>2. changes \in Seq(AnyChange) /\ Head(changes) \in AnyChange
        BY <1>1, <3>1, HeadTailProperties DEF LiveTypes, IndexSound
      <3>3. ASSUME changes \in Seq(StillChange)
            PROVE  Head(changes).kind # "renamed"
        BY <3>1, <3>3, HeadTailProperties DEF StillChange
      <3>4. Unmoved
        BY <1>1, <2>2 DEF MarksInv, StepByStep
      <3>5. Head(changes).kind = "renamed" => index.excl = {}
        BY <3>3, <3>4 DEF Unmoved
      <3>6. PrunedStay(index, index')
        BY <1>2, <3>1, <3>2, <3>5, ApplyLeaves
      <3>7. Rooted(index')
        <4>1. TreeSound'
          BY <1>1, FollowRooted, PTL
        <4> QED
          BY <1>4, <4>1 DEF TreeSound
      <3> QED
        BY <1>2, <2>3, <3>1, <3>2, <3>6, <3>7, ApplyKept
    <2>6. CASE index' = index
      BY <2>3, <2>6
    <2> QED
      BY <2>4, <2>5, <2>6 DEF Next, ReadBatch, Translate, ChangeVolume, indexVars, vars
  <1> QED
    BY <1>1, <1>4 DEF CountInv

\* The size and the file count of every folder are what a recount gives, at every
\* step from the scan on: after rollup, after pruning, and after each change, which
\* only touches the folders above it (propagate), also while the index still lacks
\* what happened since the scan.
THEOREM LiveTotalsExact == Spec /\ []Shallow => []TotalsExact
  <1>1. Init /\ Shallow => CountInv
    BY CountInit
  <1>2. CountInv /\ Shallow' /\ [Next]_vars => CountInv'
    BY CountKept
  <1>3. CountInv => TotalsExact
    BY DEF CountInv, TotalsExact
  <1> QED
    BY <1>1, <1>2, <1>3, PTL DEF Spec

------------------------------------------------------------------------------
\* The mirror: looking at a file on the volume by its path in the index.

\* The names on the way up from a file, root first, lead down to it.
LEMMA LeadsDown ==
    ASSUME mft \in [Rec -> FileRecord], NEW u, u = Places(mft), Tree(u),
           NEW r \in Rec, u[r].live, NEW n \in Nat, NEW up, Rises(up, u, r, n),
           NEW z \in 0 .. n, up[z] = RootRec, \A k \in 0 .. z - 1 : up[k] # RootRec,
           NEW path \in Seq(Name), Len(path) = z, \A j \in 1 .. z : path[j] = u[up[z - j]].name
    PROVE  OnVolume(path) = r
  <1>1. PICK f : Descends(f, path) /\ OnVolume(path) = f[Len(path)]
    BY OnVolumeIs
  <1>2. /\ f[0] = RootRec /\ \A k \in 1 .. z : f[k] = Down(f[k - 1], path[k])
    BY <1>1 DEF Descends
  <1>3. u \in Layout /\ \A q \in Rec : /\ u[q].live = mft[q].live /\ u[q].parent = mft[q].parent
                                       /\ u[q].name = mft[q].name
    BY PlacesIs
  <1>4. \A k \in 0 .. n : up[k] \in Rec /\ u[up[k]].live
    BY <1>3, RisesThroughFolders
  <1> DEFINE S == {k \in 0 .. z : f[k] = up[z - k]}
  <1>5. 0 \in S /\ S \in SUBSET (0 .. z)
    BY <1>2
  <1>6. ASSUME NEW k \in S, k < z
        PROVE  k + 1 \in S
    <2> DEFINE q == up[z - (k + 1)]
               p == up[z - k]
               nm == u[q].name
    <2>1. /\ k \in 0 .. z /\ k + 1 \in 1 .. z /\ k + 1 - 1 = k /\ z - (k + 1) \in 0 .. z - 1
          /\ z - k \in 1 .. n /\ z - k - 1 = z - (k + 1) /\ z - (k + 1) \in 0 .. n
      BY <1>6
    <2>2. f[k] = p
      BY <1>6
    <2>3. q \in Rec /\ u[q].live /\ q # RootRec
      BY <1>4, <2>1
    <2>4. p = u[q].parent
      BY <2>1 DEF Rises
    <2>5. f[k + 1] = Down(p, nm)
      <3>1. path[k + 1] = nm
        BY <2>1
      <3> QED
        BY <1>2, <2>1, <2>2, <3>1
    <2> HIDE DEF q, p
    <2>6. p \in Rec /\ p # NoNode
      <3>1. p \in Rec
        <4>1. z - k \in 0 .. n
          BY <2>1
        <4> QED
          BY <1>4, <4>1 DEF p
      <3> QED
        BY <3>1, IndexAssumption
    <2>7. Under(p, nm) = {q}
      <3>1. q \in Under(p, nm)
        BY <1>3, <2>3, <2>4 DEF Under
      <3>2. ASSUME NEW o \in Under(p, nm), o # q
            PROVE  FALSE
        <4>1. o \in Rec \ {RootRec} /\ u[o].live /\ u[o].parent = p /\ u[o].name = nm
          BY <1>3 DEF Under
        <4> QED
          BY <2>3, <2>4, <3>2, <4>1 DEF Tree
      <3> QED
        BY <3>1, <3>2
    <2>8. f[k + 1] = q
      BY <2>5, <2>6, <2>7 DEF Down
    <2> QED
      BY <2>1, <2>8 DEF q
  <1> HIDE DEF S
  <1>7. S = 0 .. z
    BY <1>5, <1>6, InductUpTo
  <1>8. f[z] = up[z - z]
    <2>1. z \in S
      BY <1>7
    <2> QED
      BY <2>1 DEF S
  <1>9. z - z = 0 /\ up[0] = r
    BY DEF Rises
  <1> QED
    BY <1>1, <1>8, <1>9

\* The path of a folder's node that hangs, as do those above it, where a layout has
\* the folder: its names are those on the way up from the folder.
LEMMA PathFollows ==
    ASSUME NEW ix \in IndexType, RecordTableSound(ix), ParentsLive(ix),
           NEW u \in Layout, Tree(u), InGuard(u), Leads(ix, u), ix.rec[RootRec] \in Live(ix),
           NEW p \in Rec, ix.rec[p] \in Live(ix), Shows(ix, p, u),
           NEW n \in Nat, NEW up, Rises(up, u, p, n),
           NEW z \in 0 .. n, z <= ClimbGuard, up[z] = RootRec, \A k \in 0 .. z - 1 : up[k] # RootRec,
           \A k \in 0 .. z : ix.rec[up[k]] \in Live(ix) /\ Shows(ix, up[k], u)
    PROVE  /\ PathOf(ix, ix.rec[p]) \in Seq(Name) /\ Len(PathOf(ix, ix.rec[p])) = z
           /\ \A j \in 1 .. z : PathOf(ix, ix.rec[p])[j] = u[up[z - j]].name
  <1> DEFINE root == ix.rec[RootRec]
             m == ix.rec[p]
             at == Climb(ix, m)
             path == PathOf(ix, m)
  <1>1. ClimbGuard \in Nat /\ NoNode \notin Node
    BY IndexAssumption DEF Node
  <1>2. m \in Node /\ root \in Node /\ Live(ix) \subseteq Node
    BY LiveNodes
  <1>3. root \in ix.dir /\ IsRoot(ix, root)
    <2>1. u[RootRec].live /\ u[RootRec].dir /\ RootRec \in Rec
      BY IndexAssumption DEF Tree
    <2>2. ix.parent[root] = root
      BY <2>1, OnlyRoot
    <2> QED
      BY <2>2 DEF ParentsLive, IsRoot
  <1>4. path \in Seq(Name)
    BY <1>2, PathIs
  <1>5. CASE z = 0
    <2>1. p = RootRec
      BY <1>5 DEF Rises
    <2>2. path = <<>>
      BY <1>2, <1>3, <2>1, PathIs
    <2> QED
      BY <1>4, <1>5, <2>2
  <1>6. CASE z # 0
    <2>1. z \in 1 .. n /\ z - 1 <= ClimbGuard /\ z - 1 \in 0 .. ClimbGuard
      BY <1>1, <1>6
    <2>2. Follows(ix, at, up, z)
      BY <2>1, ClimbFollows
    <2>3. at[z - 1] = root
      <3>1. z - 1 \in 0 .. z - 1 /\ z - 1 + 1 = z
        BY <2>1
      <3> QED
        BY <2>2, <3>1 DEF Follows
    <2>4. Chain(at, ix) /\ at[0] = ix.parent[m]
      BY <1>2, ClimbIs
    <2>5. ix.parent[at[z - 1]] = at[z - 1]
      BY <1>3, <2>3 DEF IsRoot
    <2>6. p # RootRec
      <3>1. 0 \in 0 .. z - 1 /\ up[0] = p
        BY <2>1 DEF Rises
      <3> QED
        BY <3>1
    <2>7. ~IsRoot(ix, m)
      <3>1. ix.parent[m] = ix.rec[up[1]]
        <4>1. 0 \in 0 .. z - 1
          BY <2>1
        <4> QED
          BY <2>2, <2>4, <4>1 DEF Follows
      <3>2. 1 \in 0 .. n /\ 1 \in 1 .. n /\ up[1] = u[up[0]].parent /\ up[0] = p /\ up[1] \in Rec
        BY <2>1 DEF Rises
      <3>3. u[p].parent # p
        BY <2>6, NotInItself DEF Shows
      <3>4. ix.rec[up[1]] # m
        BY <1>1, <1>2, <3>2, <3>3 DEF RecordTableSound
      <3> QED
        BY <3>1, <3>4 DEF IsRoot
    <2>8. Turns(ix, m) = z
      <3> DEFINE T == {k \in 0 .. ClimbGuard : at[k] # NoNode}
                 c == Turns(ix, m)
      <3>1. c \in 0 .. ClimbGuard + 1 /\ T = 0 .. c - 1
        BY <1>2, TurnsIs
      <3>2. \A k \in 0 .. ClimbGuard : k <= z - 1 => at[k] # NoNode
        BY <1>1, <1>2, <2>1, <2>2 DEF Follows
      <3>3. \A k \in 0 .. ClimbGuard : z - 1 < k => at[k] = NoNode
        <4> HIDE DEF at
        <4> QED
          BY <2>1, <2>4, <2>5, Stops
      <3>4. \A k \in 0 .. ClimbGuard : k \in T <=> k <= z - 1
        BY <2>1, <3>2, <3>3
      <3> HIDE DEF T, c
      <3>5. z - 1 \in T
        BY <2>1, <3>4
      <3>6. ASSUME c > z
            PROVE  FALSE
        <4>1. z \in T /\ z \in 0 .. ClimbGuard
          BY <1>1, <2>1, <3>1, <3>6
        <4> QED
          BY <2>1, <3>4, <4>1
      <3> QED
        BY <1>1, <2>1, <3>1, <3>5, <3>6 DEF c
    <2>9. /\ Len(path) = z /\ path[z] = ix.name[m]
          /\ \A k \in 1 .. z - 1 : path[z - k] = ix.name[at[k - 1]]
      <3>1. /\ Len(path) = Turns(ix, m) /\ path[Turns(ix, m)] = ix.name[m]
            /\ \A k \in 1 .. Turns(ix, m) - 1 :
                 path[Turns(ix, m) - k] = ix.name[at[k - 1]]
        <4>1. Turns(ix, m) > 0
          BY <2>1, <2>8
        <4> HIDE DEF m
        <4> QED
          BY <1>2, <2>7, <4>1, PathIs
      <3> QED
        BY <2>8, <3>1
    <2>10. ASSUME NEW j \in 1 .. z
           PROVE  path[j] = u[up[z - j]].name
      <3>1. CASE j = z
        <4>1. z - j = 0 /\ up[0] = p
          BY <3>1 DEF Rises
        <4> QED
          BY <2>9, <3>1, <4>1 DEF Shows
      <3>2. CASE j # z
        <4> DEFINE k == z - j
        <4>1. k \in 1 .. z - 1 /\ z - k = j /\ k - 1 \in 0 .. z - 1 /\ k - 1 + 1 = k
              /\ k \in 0 .. z
          BY <2>1, <3>2
        <4> HIDE DEF k
        <4>2. at[k - 1] = ix.rec[up[k]]
          BY <2>2, <4>1 DEF Follows
        <4>3. ix.name[ix.rec[up[k]]] = u[up[k]].name
          BY <4>1 DEF Shows
        <4>4. path[j] = u[up[k]].name
          BY <2>9, <4>1, <4>2, <4>3
        <4> QED
          BY <4>4 DEF k
      <3> QED
        BY <3>1, <3>2
    <2> QED
      BY <1>4, <2>9, <2>10
  <1> QED
    BY <1>5, <1>6

\* Where the index lacks, of what the volume is, the one file r at most, the file
\* that is looked at under r's name in r's folder is r (resolve_stat).
LEMMA StatIs ==
    ASSUME mft \in [Rec -> FileRecord], index \in IndexType, RecordTableSound(index),
           index.excl = {}, NEW u, u = Places(mft), Tree(u), InGuard(u),
           NEW v \in Layout, NEW s \in Layout, Agree(v, s), Mixed(index, v, s),
           NEW r \in Rec, r # RootRec, u[r].live, ~u[r].dir,
           \A q \in Rec : q # r => v[q] = u[q] /\ s[q] = u[q]
    PROVE  ResolveStat(u[r].parent, u[r].name) = r
  <1> DEFINE n == ClimbGuard + 1
             p == u[r].parent
             nm == u[r].name
             m == index.rec[p]
             path == PathOf(index, m)
             whole == Append(path, nm)
  <1>1. n \in Nat /\ ClimbGuard \in Nat /\ RootRec \in Rec /\ NoNode \notin Node
    BY IndexAssumption DEF Node
  <1>2. u \in Layout /\ (\A q \in Rec : u[q].parent \in Rec /\ u[q].name \in Name)
    <2>1. u \in Layout
      BY PlacesIs
    <2> QED
      BY <2>1 DEF Layout, PlaceType
  <1>3. PICK up : Rises(up, u, r, n) /\ UpFrom(u, r, n) = {up[k] : k \in 0 .. n}
    <2> HIDE DEF n
    <2> QED
      BY <1>1, <1>2, RisesIs
  <1>4. RootRec \in {up[k] : k \in 0 .. n}
    BY <1>3 DEF InGuard
  <1>5. PICK z \in 0 .. n : up[z] = RootRec /\ \A k \in 0 .. n : k < z => up[k] # RootRec
    <2> DEFINE Z == {k \in 0 .. n : up[k] = RootRec}
    <2>1. Z # {} /\ Z \in SUBSET Nat
      BY <1>1, <1>4
    <2>2. PICK z \in Z : \A y \in Z : z <= y
      <3> HIDE DEF Z
      <3> QED
        BY <2>1, LeastOf
    <2> QED
      BY <1>1, <2>2
  <1>6. /\ up[0] = r /\ up[1] = p /\ z \in 1 .. n
        /\ \A k \in 0 .. z - 1 : up[k] # RootRec
    <2>1. up[0] = r
      BY <1>3 DEF Rises
    <2>2. z \in 1 .. n
      BY <1>1, <1>5, <2>1
    <2>3. up[1] = p
      <3>1. 1 \in 1 .. n /\ 1 - 1 = 0
        BY <1>1
      <3>2. up[1] = u[up[1 - 1]].parent
        BY <1>3, <3>1 DEF Rises
      <3> QED
        BY <2>1, <3>1, <3>2
    <2>4. \A k \in 0 .. z - 1 : k \in 0 .. n /\ k < z
      BY <1>1, <2>2
    <2> QED
      BY <1>5, <2>1, <2>2, <2>3, <2>4
  <1> HIDE DEF n
  <1>7. /\ \A k \in 0 .. n : up[k] \in Rec /\ u[up[k]].live
        /\ \A k \in 1 .. n : u[up[k]].dir /\ up[k] # r
    BY <1>1, <1>2, <1>3, RisesThroughFolders
  <1>8. ASSUME NEW q \in Rec, q # r, u[q].live
        PROVE  index.rec[q] \in Live(index) /\ Shows(index, q, u)
    <2>1. v[q] = u[q] /\ s[q] = u[q]
      BY <1>8
    <2>2. index.rec[q] \in Live(index)
      BY <1>8, <2>1 DEF Mixed
    <2>3. Shows(index, q, v) \/ Shows(index, q, s)
      BY <2>2 DEF Mixed
    <2> QED
      BY <2>1, <2>2, <2>3 DEF Shows
  <1>9. Leads(index, u) /\ ParentsLive(index) /\ index.rec[RootRec] \in Live(index)
    <2>1. Leads(index, v) /\ ParentsLive(index) /\ index.rec[RootRec] \in Live(index)
      BY MixedLeads
    <2> QED
      BY <1>8, <2>1 DEF Leads, Shows
  <1> DEFINE zz == z - 1
             nn == n - 1
             over == [k \in 0 .. nn |-> up[k + 1]]
  <1>10. /\ nn \in Nat /\ zz \in 0 .. nn /\ zz <= ClimbGuard /\ zz + 1 = z
         /\ \A k \in 0 .. nn : k + 1 \in 0 .. n /\ k + 1 \in 1 .. n
    BY <1>1, <1>6 DEF n
  <1>11. \A k \in 0 .. nn : over[k] = up[k + 1]
    OBVIOUS
  <1>12. Rises(over, u, p, nn)
    <2>1. over \in [0 .. nn -> Rec]
      BY <1>7, <1>10
    <2>2. over[0] = p
      BY <1>6, <1>10
    <2>3. ASSUME NEW k \in 1 .. nn
          PROVE  over[k] = u[over[k - 1]].parent
      <3>1. k - 1 \in 0 .. nn /\ k \in 0 .. nn /\ k - 1 + 1 = k /\ k + 1 \in 1 .. n /\ k + 1 - 1 = k
        BY <1>10
      <3>2. over[k] = up[k + 1] /\ over[k - 1] = up[k]
        BY <1>11, <3>1
      <3> QED
        BY <1>3, <3>1, <3>2 DEF Rises
    <2> HIDE DEF over
    <2> QED
      BY <2>1, <2>2, <2>3 DEF Rises
  <1> HIDE DEF zz, nn, over
  <1>13. /\ over[zz] = RootRec /\ \A k \in 0 .. zz - 1 : over[k] # RootRec
         /\ \A k \in 0 .. zz : index.rec[over[k]] \in Live(index) /\ Shows(index, over[k], u)
    <2>1. over[zz] = RootRec
      BY <1>5, <1>10, <1>11
    <2>2. ASSUME NEW k \in 0 .. zz - 1
          PROVE  over[k] # RootRec
      <3>1. k \in 0 .. nn /\ k + 1 \in 0 .. z - 1
        BY <1>1, <1>6, <1>10
      <3> QED
        BY <1>6, <1>11, <3>1
    <2>3. ASSUME NEW k \in 0 .. zz
          PROVE  index.rec[over[k]] \in Live(index) /\ Shows(index, over[k], u)
      <3>1. k \in 0 .. nn
        BY <1>1, <1>6, <1>10
      <3>2. k + 1 \in 1 .. n /\ k + 1 \in 0 .. n
        BY <1>10, <3>1
      <3> QED
        BY <1>7, <1>8, <1>11, <3>1, <3>2
    <2> QED
      BY <2>1, <2>2, <2>3
  <1>14. p \in Rec /\ m \in Live(index) /\ Shows(index, p, u)
    <2>1. 1 \in 1 .. n /\ 1 \in 0 .. n
      BY <1>1, <1>6
    <2> QED
      BY <1>6, <1>7, <1>8, <2>1
  <1>15. /\ path \in Seq(Name) /\ Len(path) = zz
         /\ \A j \in 1 .. zz : path[j] = u[over[zz - j]].name
    <2> HIDE DEF m, p
    <2>1. index.rec[p] \in Live(index)
      BY <1>14 DEF m
    <2>2. /\ PathOf(index, index.rec[p]) \in Seq(Name) /\ Len(PathOf(index, index.rec[p])) = zz
          /\ \A j \in 1 .. zz : PathOf(index, index.rec[p])[j] = u[over[zz - j]].name
      BY <1>2, <1>9, <1>10, <1>12, <1>13, <1>14, <2>1, PathFollows
    <2> QED
      BY <2>2 DEF m
  <1> HIDE DEF path
  <1>16. /\ whole \in Seq(Name) /\ Len(whole) = z
         /\ \A j \in 1 .. z : whole[j] = u[up[z - j]].name
    <2>1. nm \in Name
      BY <1>2
    <2>2. whole \in Seq(Name) /\ Len(whole) = zz + 1 /\ whole[zz + 1] = nm
          /\ \A j \in 1 .. zz : whole[j] = path[j]
      <3> HIDE DEF nm
      <3> QED
        BY <1>10, <1>15, <2>1
    <2>3. ASSUME NEW j \in 1 .. z
          PROVE  whole[j] = u[up[z - j]].name
      <3>1. CASE j = z
        <4>1. z - j = 0
          BY <3>1
        <4> QED
          BY <1>6, <1>10, <2>2, <3>1, <4>1
      <3>2. CASE j # z
        <4>1. j \in 1 .. zz /\ zz - j \in 0 .. nn /\ zz - j + 1 = z - j
          BY <1>1, <1>6, <1>10, <3>2
        <4>2. over[zz - j] = up[z - j]
          BY <1>11, <4>1
        <4> QED
          BY <1>15, <2>2, <4>1, <4>2
      <3> QED
        BY <3>1, <3>2
    <2> QED
      BY <1>10, <2>2, <2>3
  <1>17. OnVolume(whole) = r
    <2> HIDE DEF whole
    <2> QED
      BY <1>1, <1>3, <1>5, <1>6, <1>16, LeadsDown
  <1>18. NodeOfRecord(index, p) = m /\ m # NoNode
    <2>1. m \in Node
      BY <1>14, LiveNodes
    <2> QED
      BY <1>1, <1>14, <2>1 DEF NodeOfRecord
  <1> QED
    BY <1>17, <1>18 DEF ResolveStat, path

------------------------------------------------------------------------------
\* The mirror: what one change does to the sizes of files.

\* Of the files that are live before and after, none but k changes its size.
FilesStay(ix, jx, k) ==
    \A f \in (Live(ix) \cap Live(jx)) \ ix.dir :
        f \notin jx.dir /\ (f # k => jx.size[f] = ix.size[f])

\* The node a change leaves its record with, if it is live.
OwnStays(ix, jx, c) ==
    LET m == jx.rec[c.rec]
    IN  m \in Live(jx) =>
          /\ \/ m = ix.rec[c.rec] /\ m \in Live(ix)
             \/ c.kind = "created" /\ (m \in jx.dir => c.dir)
          /\ c.kind \in {"created", "resized"} /\ m \notin jx.dir => jx.size[m] = c.size

LEMMA GoesFiles ==
    ASSUME NEW ix \in IndexType, Rooted(ix), NEW jx, NEW m \in Live(ix), Goes(ix, jx, m)
    PROVE  FilesStay(ix, jx, NoNode)
  <1> SUFFICES ASSUME NEW f \in (Live(ix) \cap Live(jx)) \ ix.dir
               PROVE  f \notin jx.dir /\ jx.size[f] = ix.size[f]
    BY DEF FilesStay
  <1>1. f # m /\ f \in Node
    BY LiveNodes DEF Goes, Live
  <1>2. f \notin Ancestors(ix, m)
    BY RootedIs
  <1> QED
    BY <1>1, <1>2 DEF Goes, SameTree, Carried

LEMMA ResolvedFiles ==
    ASSUME NEW ix \in IndexType, Rooted(ix), RecordTableSound(ix), NEW r \in Rec, NEW s \in Nat
    PROVE  /\ FilesStay(ix, Resolved(ix, r, s), NoNode)
           /\ \A q \in Rec : q # r => Resolved(ix, r, s).rec[q] = ix.rec[q]
           /\ Found(ix, r, s) = NoNode => Resolved(ix, r, s).rec[r] = NoNode
  <1> DEFINE jx == Resolved(ix, r, s)
  <1>1. jx = ix \/ Cleared(ix, jx, r)
    BY ResolvedIs
  <1>2. Found(ix, r, s) = NoNode => jx.rec[r] = NoNode
    <2>1. NoNode \notin Node
      BY IndexAssumption DEF Node
    <2> QED
      BY <2>1, ResolvedGood
  <1> HIDE DEF jx
  <1>3. CASE jx = ix
    BY <1>2, <1>3 DEF FilesStay, jx
  <1>4. CASE Cleared(ix, jx, r)
    <2>1. CASE SameTotals(ix, jx)
      BY <1>2, <1>4, <2>1 DEF Cleared, SameTotals, SameTree, FilesStay, jx
    <2>2. CASE \E m \in Live(ix) : Goes(ix, jx, m)
      <3>1. FilesStay(ix, jx, NoNode)
        BY <2>2, GoesFiles
      <3> QED
        BY <1>2, <1>4, <3>1 DEF Cleared, jx
    <2> QED
      BY <1>4, <2>1, <2>2 DEF Cleared
  <1> QED
    BY <1>1, <1>3, <1>4

\* What is told of a record whose node is gone, or was: its slot is empty then.
LEMMA NoneFiles ==
    ASSUME NEW ix \in IndexType, Rooted(ix), RecordTableSound(ix), NEW c \in AnyChange,
           Found(ix, c.rec, c.seq) = NoNode
             \/ Found(ix, c.rec, c.seq) \in Resolved(ix, c.rec, c.seq).del
    PROVE  LET jx == Resolved(ix, c.rec, c.seq)
           IN  /\ FilesStay(ix, jx, NoNode) /\ OwnStays(ix, jx, c)
               /\ \A q \in Rec : q # c.rec => jx.rec[q] = ix.rec[q]
  <1> DEFINE jx == Resolved(ix, c.rec, c.seq)
             m  == Found(ix, c.rec, c.seq)
  <1>1. c.rec \in Rec /\ c.seq \in Nat
    BY DEF AnyChange
  <1>2. /\ FilesStay(ix, jx, NoNode) /\ \A q \in Rec : q # c.rec => jx.rec[q] = ix.rec[q]
        /\ m = NoNode => jx.rec[c.rec] = NoNode
    BY <1>1, ResolvedFiles
  <1>3. jx \in IndexType /\ (m # NoNode => m = ix.rec[c.rec] /\ jx = ix)
    BY <1>1, ResolvedIs
  <1>4. m = NoNode \/ m \in jx.del
    OBVIOUS
  <1> HIDE DEF jx, m
  <1>5. jx.rec[c.rec] \notin Live(jx)
    <2>1. NoNode \notin Node /\ Live(jx) \subseteq Node
      BY <1>3, LiveNodes, IndexAssumption DEF Node
    <2>2. CASE m = NoNode
      BY <1>2, <2>1, <2>2
    <2>3. CASE m # NoNode
      BY <1>3, <1>4, <2>3 DEF Live
    <2> QED
      BY <2>2, <2>3
  <1> QED
    BY <1>2, <1>5 DEF OwnStays, jx

LEMMA ResizeFiles ==
    ASSUME NEW ix \in IndexType, Rooted(ix), RecordTableSound(ix), NEW c \in AnyChange,
           c.kind \in {"created", "resized"}
    PROVE  LET jx == ApplyResize(ix, c)
           IN  /\ FilesStay(ix, jx, ix.rec[c.rec])
               /\ OwnStays(ix, jx, c)
               /\ \A q \in Rec : q # c.rec => jx.rec[q] = ix.rec[q]
  <1> DEFINE jx == Resolved(ix, c.rec, c.seq)
             m  == Found(ix, c.rec, c.seq)
             d  == c.size - ix.size[m]
             kx == [ix EXCEPT !.size[m] = c.size]
             lx == [ix EXCEPT !.size[m] = c.size, !.alloc[m] = c.size]
             px == Propagate(lx, m, d, d, 0)
             ax == ApplyResize(ix, c)
  <1> SUFFICES /\ FilesStay(ix, ax, ix.rec[c.rec]) /\ OwnStays(ix, ax, c)
               /\ \A q \in Rec : q # c.rec => ax.rec[q] = ix.rec[q]
    OBVIOUS
  <1>1. c.rec \in Rec /\ c.seq \in Nat /\ c.size \in Nat
    BY DEF AnyChange
  <1>2. /\ jx \in IndexType
        /\ m # NoNode => m \in 0 .. ix.n - 1 /\ jx = ix /\ m = ix.rec[c.rec]
    BY <1>1, ResolvedIs
  <1>3. CASE m = NoNode \/ m \in jx.del
    <2>1. ax = jx
      BY <1>3 DEF ApplyResize
    <2>2. /\ FilesStay(ix, jx, NoNode) /\ OwnStays(ix, jx, c)
          /\ \A q \in Rec : q # c.rec => jx.rec[q] = ix.rec[q]
      BY <1>3, NoneFiles
    <2> HIDE DEF ax, jx
    <2>3. NoNode \notin Live(ix)
      BY LiveNodes, IndexAssumption DEF Node
    <2> QED
      BY <2>1, <2>2, <2>3 DEF FilesStay
  <1> HIDE DEF m
  <1>4. CASE m # NoNode /\ m \notin jx.del /\ m \in jx.dir
    <2>1. ax = ix
      BY <1>2, <1>4 DEF ApplyResize, m
    <2> HIDE DEF ax
    <2>2. m \in ix.dir /\ m \in Live(ix)
      BY <1>2, <1>4 DEF Live
    <2> QED
      BY <1>2, <1>4, <2>1, <2>2 DEF FilesStay, OwnStays
  <1>5. CASE m # NoNode /\ m \notin jx.del \cup jx.dir
    <2>1. jx = ix /\ m \in Live(ix) /\ m \notin ix.dir /\ m \in Node /\ m = ix.rec[c.rec]
      BY <1>2, <1>5, LiveNodes DEF Live
    <2>2. CASE m \in ix.excl
      <3>1. ax = kx
        BY <1>5, <2>1, <2>2 DEF ApplyResize, m
      <3>2. /\ kx.size[m] = c.size /\ kx.rec = ix.rec /\ kx.dir = ix.dir
            /\ \A f \in Node : f # m => kx.size[f] = ix.size[f]
        BY <1>1, <2>1 DEF IndexType
      <3> HIDE DEF ax, kx
      <3>3. Live(ix) \subseteq Node
        BY LiveNodes
      <3> QED
        BY <2>1, <3>1, <3>2, <3>3 DEF FilesStay, OwnStays
    <2>3. CASE m \notin ix.excl
      <3>1. ax = px
        BY <1>5, <2>1, <2>3 DEF ApplyResize, m
      <3>2. d \in Int
        <4>1. ix.size[m] \in Nat
          BY <2>1 DEF IndexType
        <4> QED
          BY <1>1, <4>1
      <3>3. /\ lx \in IndexType /\ SameTree(ix, lx) /\ lx.del = ix.del /\ lx.size[m] = c.size
            /\ lx.rec = ix.rec /\ \A a \in Node : a # m => lx.size[a] = ix.size[a]
        BY <1>1, <2>1 DEF IndexType, SameTree
      <3> HIDE DEF lx, d, ax
      <3>4. Ancestors(lx, m) = Ancestors(ix, m)
        BY <2>1, <3>3, SameAncestors DEF SameTree
      <3>5. Reaches(lx, m, ix.rec[RootRec]) /\ m \notin Ancestors(ix, m)
        BY <2>1, <3>3, <3>4, RootedIs DEF Reaches, IsRoot, SameTree
      <3>6. /\ px \in IndexType /\ SameTable(lx, px)
        BY <3>2, <3>3, PropagateGood
      <3>7. Carried(lx, px, Ancestors(lx, m), d, 0, NoNode)
        BY <2>1, <3>2, <3>3, <3>5, PropagateAdds
      <3> HIDE DEF px
      <3>8. NoNode \notin Node /\ Live(ix) \subseteq Node
        BY LiveNodes, IndexAssumption DEF Node
      <3>9. px.size[m] = c.size
        BY <2>1, <3>3, <3>4, <3>5, <3>7, <3>8 DEF Carried
      <3>10. px.rec = ix.rec /\ px.dir = ix.dir
        BY <3>3, <3>6 DEF SameTable, SameTree
      <3>11. ASSUME NEW f \in Live(ix) \ ix.dir, f # m
             PROVE  px.size[f] = ix.size[f]
        <4>1. f \notin Ancestors(ix, m) /\ f \in Node
          BY <2>1, <3>8, RootedIs
        <4> QED
          BY <3>3, <3>4, <3>7, <3>8, <3>11, <4>1 DEF Carried
      <3> QED
        BY <2>1, <3>1, <3>9, <3>10, <3>11 DEF FilesStay, OwnStays
    <2> QED
      BY <2>2, <2>3
  <1> QED
    BY <1>3, <1>4, <1>5

LEMMA DeleteFiles ==
    ASSUME NEW ix \in IndexType, Rooted(ix), RecordTableSound(ix), NEW c \in AnyChange,
           c.kind = "deleted"
    PROVE  LET jx == ApplyDelete(ix, c)
           IN  /\ FilesStay(ix, jx, NoNode) /\ OwnStays(ix, jx, c)
               /\ \A q \in Rec : q # c.rec => jx.rec[q] = ix.rec[q]
  <1> DEFINE jx == Resolved(ix, c.rec, c.seq)
             m  == Found(ix, c.rec, c.seq)
             ex == [ix EXCEPT !.del = @ \cup {m}]
             tx == Tombstone(Detach(ix, m), m)
             cx == ClearRecord(tx, c.rec)
             ax == ApplyDelete(ix, c)
  <1> SUFFICES /\ FilesStay(ix, ax, NoNode) /\ OwnStays(ix, ax, c)
               /\ \A q \in Rec : q # c.rec => ax.rec[q] = ix.rec[q]
    OBVIOUS
  <1>1. c.rec \in Rec /\ c.seq \in Nat /\ NoNode \notin Node
    BY IndexAssumption DEF AnyChange, Node
  <1>2. /\ jx \in IndexType
        /\ m # NoNode => m \in 0 .. ix.n - 1 /\ jx = ix /\ m = ix.rec[c.rec]
    BY <1>1, ResolvedIs
  <1>3. CASE m = NoNode \/ m \in jx.del
    <2>1. ax = jx
      BY <1>3 DEF ApplyDelete
    <2>2. /\ FilesStay(ix, jx, NoNode) /\ OwnStays(ix, jx, c)
          /\ \A q \in Rec : q # c.rec => jx.rec[q] = ix.rec[q]
      BY <1>3, NoneFiles
    <2> QED
      BY <2>1, <2>2
  <1> HIDE DEF m
  <1>4. CASE m # NoNode /\ m \notin jx.del
    <2>1. jx = ix /\ m \in Live(ix) /\ m \in Node /\ m = ix.rec[c.rec]
      BY <1>2, <1>4, LiveNodes DEF Live
    <2>2. CASE m \in ix.excl
      <3>1. ax = ex
        BY <1>4, <2>1, <2>2 DEF ApplyDelete, m
      <3>2. ex.rec = ix.rec /\ ex.dir = ix.dir /\ ex.size = ix.size /\ m \in ex.del
        BY <2>1 DEF IndexType
      <3> HIDE DEF ax, ex
      <3> QED
        BY <2>1, <3>1, <3>2 DEF FilesStay, OwnStays, Live
    <2>3. CASE m \notin ix.excl
      <3>1. ax = cx
        BY <1>4, <2>1, <2>3 DEF ApplyDelete, m
      <3>2. Goes(ix, tx, m) /\ tx \in IndexType /\ tx.rec = ix.rec
        <4>1. Goes(ix, tx, m) /\ Detach(ix, m) \in IndexType /\ Detach(ix, m).rec = ix.rec
          BY <2>1, <2>3, DetachedGoes
        <4> QED
          BY <2>1, <4>1, TombstoneGood DEF Good
      <3> HIDE DEF ax, tx
      <3>3. /\ SameTotals(tx, cx) /\ cx \in IndexType /\ cx.rec[c.rec] = NoNode
            /\ \A q \in Rec : q # c.rec => cx.rec[q] = tx.rec[q]
        BY <1>1, <3>2, ClearedSame
      <3> HIDE DEF cx
      <3>4. Goes(ix, cx, m)
        BY <3>2, <3>3 DEF SameTotals, Goes, Carried, SameTree
      <3>5. FilesStay(ix, cx, NoNode)
        BY <2>1, <3>4, GoesFiles
      <3>6. NoNode \notin Live(cx)
        BY <1>1, <3>3, LiveNodes
      <3>7. OwnStays(ix, cx, c)
        BY <3>3, <3>6 DEF OwnStays
      <3> QED
        BY <3>1, <3>2, <3>3, <3>5, <3>7
    <2> QED
      BY <2>2, <2>3
  <1> QED
    BY <1>3, <1>4

LEMMA RenameFiles ==
    ASSUME NEW ix \in IndexType, Rooted(ix), RecordTableSound(ix), NEW c \in AnyChange,
           c.kind = "renamed", Rooted(ApplyRename(ix, c))
    PROVE  LET jx == ApplyRename(ix, c)
           IN  /\ FilesStay(ix, jx, NoNode) /\ OwnStays(ix, jx, c)
               /\ \A q \in Rec : q # c.rec => jx.rec[q] = ix.rec[q]
  <1> DEFINE jx == Resolved(ix, c.rec, c.seq)
             m  == Found(ix, c.rec, c.seq)
             p  == NodeOfRecord(jx, c.parent)
             vx == MoveNode(ix, m, p)
             nx == [vx EXCEPT !.name[m] = c.name]
             dx == Detach(ix, m)
             dp == ix.depth[p] + 1
             lx == [dx EXCEPT !.parent[m] = p, !.depth[m] = dp]
             ax == Attach(lx, m, ix)
             rx == ApplyRename(ix, c)
  <1> SUFFICES /\ FilesStay(ix, rx, NoNode) /\ OwnStays(ix, rx, c)
               /\ \A q \in Rec : q # c.rec => rx.rec[q] = ix.rec[q]
    OBVIOUS
  <1>1. c.rec \in Rec /\ c.seq \in Nat /\ c.name \in Name
    BY DEF AnyChange
  <1>2. /\ jx \in IndexType
        /\ m # NoNode => m \in 0 .. ix.n - 1 /\ jx = ix /\ m = ix.rec[c.rec]
    BY <1>1, ResolvedIs
  <1>3. CASE m = NoNode \/ m \in jx.del
    <2>1. rx = jx
      BY <1>3 DEF ApplyRename
    <2>2. /\ FilesStay(ix, jx, NoNode) /\ OwnStays(ix, jx, c)
          /\ \A q \in Rec : q # c.rec => jx.rec[q] = ix.rec[q]
      BY <1>3, NoneFiles
    <2> QED
      BY <2>1, <2>2
  <1> HIDE DEF m, p
  <1>4. CASE m # NoNode /\ m \notin jx.del /\ p = NoNode
    <2>1. jx = ix /\ m \in Live(ix) /\ m = ix.rec[c.rec]
      BY <1>2, <1>4 DEF Live
    <2>2. rx = ix
      BY <1>4, <2>1 DEF ApplyRename, m, p
    <2> HIDE DEF rx
    <2> QED
      BY <2>1, <2>2 DEF FilesStay, OwnStays
  <1>5. CASE m # NoNode /\ m \notin jx.del /\ p # NoNode
    <2>1. jx = ix /\ m \in Live(ix) /\ m \in Node /\ p \in Node /\ m = ix.rec[c.rec]
      <3>1. jx = ix /\ m \in Live(ix) /\ m \in Node /\ m = ix.rec[c.rec]
        BY <1>2, <1>5, LiveNodes DEF Live
      <3> QED
        BY <1>2, <1>5, <3>1, NodeOfRecordType DEF p
    <2>2. rx = nx
      BY <1>5, <2>1 DEF ApplyRename, m, p
    <2>3. vx \in IndexType /\ SameTable(ix, vx)
      BY <2>1, MoveGood
    <2> HIDE DEF vx, rx
    <2>4. nx \in IndexType /\ nx.rec = ix.rec /\ nx.dir = ix.dir /\ nx.del = ix.del /\ nx.n = ix.n
          /\ nx.size = vx.size /\ nx.parent = vx.parent
      BY <1>1, <2>1, <2>3 DEF IndexType, SameTable
    <2> HIDE DEF nx
    <2>5. OwnStays(ix, nx, c)
      BY <2>1, <2>4 DEF OwnStays
    <2>6. \A f \in Live(ix) \ ix.dir : vx.size[f] = ix.size[f]
      <3>1. CASE ix.parent[m] = p
        BY <3>1 DEF vx, MoveNode
      <3>2. CASE ix.parent[m] # p
        <4>1. - ix.size[m] \in Int /\ - ix.alloc[m] \in Int /\ - FilesOf(ix, m) \in Int
              /\ ix.size[m] \in Int /\ ix.alloc[m] \in Int /\ FilesOf(ix, m) \in Int /\ dp \in Nat
          BY <2>1, FilesOfType DEF IndexType
        <4>2. /\ dx \in IndexType /\ SameTable(ix, dx) /\ dx.parent = ix.parent
          BY <4>1, PropagateGood DEF Detach
        <4>3. Carried(ix, dx, Ancestors(ix, m), - ix.size[m], - FilesOf(ix, m), NoNode)
          BY <2>1, <4>1, RootedIs, PropagateAdds DEF Detach
        <4> HIDE DEF dx, dp
        <4>4. /\ lx \in IndexType /\ SameTable(dx, lx) /\ lx.size = dx.size
              /\ lx.parent = [dx.parent EXCEPT ![m] = p]
          BY <2>1, <4>1, <4>2 DEF IndexType, SameTable
        <4>5. vx = ax
          BY <3>2 DEF vx, MoveNode, dx, dp
        <4> HIDE DEF lx
        <4>6. ax \in IndexType /\ ax.parent = lx.parent
          BY <4>1, <4>4, PropagateGood DEF Attach
        <4>7. m \in Live(nx) /\ Rooted(nx)
          BY <2>1, <2>2, <2>4 DEF Live, rx
        <4>8. Ancestors(nx, m) = Ancestors(lx, m)
          BY <2>1, <2>4, <4>4, <4>5, <4>6, SameAncestors
        <4>9. Reaches(nx, m, nx.rec[RootRec]) /\ Ancestors(nx, m) \subseteq nx.dir
          BY <2>4, <4>7, RootedIs
        <4>10. Reaches(lx, m, ix.rec[RootRec])
          BY <2>4, <4>5, <4>6, <4>8, <4>9 DEF Reaches, IsRoot
        <4>11. Carried(lx, ax, Ancestors(lx, m), ix.size[m], FilesOf(ix, m), NoNode)
          BY <2>1, <4>1, <4>4, <4>10, PropagateAdds DEF Attach
        <4> HIDE DEF ax
        <4>12. ASSUME NEW f \in Live(ix) \ ix.dir
               PROVE  vx.size[f] = ix.size[f]
          <5>1. f \in Node /\ f # NoNode /\ f \notin Ancestors(ix, m) /\ f \notin Ancestors(lx, m)
            <6>1. f \in Node /\ NoNode \notin Node
              BY LiveNodes, IndexAssumption DEF Node
            <6>2. f \notin Ancestors(ix, m)
              BY <2>1, RootedIs
            <6>3. f \notin Ancestors(lx, m)
              BY <2>4, <4>8, <4>9
            <6> QED
              BY <6>1, <6>2, <6>3
          <5>2. dx.size[f] = ix.size[f] /\ ax.size[f] = lx.size[f]
            BY <4>3, <4>11, <5>1 DEF Carried
          <5> QED
            BY <4>4, <4>5, <5>2
        <4> QED
          BY <4>12
      <3> QED
        BY <3>1, <3>2
    <2>7. FilesStay(ix, nx, NoNode)
      BY <2>4, <2>6 DEF FilesStay
    <2> QED
      BY <2>2, <2>4, <2>5, <2>7
  <1> QED
    BY <1>3, <1>4, <1>5

\* A new file weighs what it was created with.
LEMMA AppendSize ==
    ASSUME NEW ix \in IndexType, ix.n < MaxNodes,
           NEW r \in Rec, NEW s \in Nat, NEW p \in Node, NEW nm \in Name, NEW sz \in Nat,
           NEW root, Reaches(AppendNode(ix, r, s, p, nm, FALSE, sz), ix.n, root),
           ix.n \notin Ancestors(AppendNode(ix, r, s, p, nm, FALSE, sz), ix.n)
    PROVE  AppendNode(ix, r, s, p, nm, FALSE, sz).size[ix.n] = sz
  <1> DEFINE m  == ix.n
             dp == ix.depth[p] + 1
             kx == [ix EXCEPT !.n = m + 1,
                      !.parent[m] = p, !.name[m] = nm, !.seq[m] = s,
                      !.dir = ix.dir,
                      !.size[m] = sz, !.alloc[m] = sz, !.files[m] = 0,
                      !.depth[m] = dp]
             lx == SetRecord(kx, r, m)
             jx == AppendNode(ix, r, s, p, nm, FALSE, sz)
             px == Propagate(lx, m, sz, sz, 1)
  <1>1. m \in Node /\ m + 1 \in 0 .. MaxNodes /\ dp \in Nat
    <2>1. m \in 0 .. MaxNodes /\ ix.depth[p] \in Nat
      BY DEF IndexType
    <2> QED
      BY <2>1, IndexAssumption DEF Node
  <1>2. jx = px
    BY DEF AppendNode
  <1> HIDE DEF dp
  <1>3. lx \in IndexType /\ lx.size[m] = sz
    <2>1. ix.dir \in SUBSET Node
      BY DEF IndexType
    <2>2. kx \in IndexType
      BY <1>1, <2>1 DEF IndexType
    <2>3. kx.size[m] = sz
      BY <1>1 DEF IndexType
    <2> HIDE DEF kx
    <2> QED
      BY <1>1, <2>2, <2>3 DEF SetRecord, IndexType
  <1> HIDE DEF lx, jx
  <1>4. px \in IndexType /\ px.parent = lx.parent
    BY <1>3, PropagateGood
  <1>5. Reaches(px, m, root) /\ m \notin Ancestors(px, m)
    BY <1>2 DEF jx
  <1> HIDE DEF px, m
  <1>6. Ancestors(px, m) = Ancestors(lx, m)
    BY <1>1, <1>3, <1>4, SameAncestors
  <1>7. Reaches(lx, m, root)
    BY <1>4, <1>5, <1>6 DEF Reaches, IsRoot
  <1>8. Carried(lx, px, Ancestors(lx, m), sz, 1, NoNode)
    BY <1>1, <1>3, <1>7, PropagateAdds DEF px
  <1>9. NoNode \notin Node
    BY IndexAssumption DEF Node
  <1>10. px.size[m] = sz
    BY <1>1, <1>3, <1>5, <1>6, <1>8, <1>9 DEF Carried
  <1> QED
    BY <1>2, <1>10 DEF jx, m

LEMMA CreateFiles ==
    ASSUME NEW ix \in IndexType, ix.n < MaxNodes, Rooted(ix), RecordTableSound(ix),
           FlagsSound(ix), NEW c \in AnyChange, c.kind = "created", Rooted(ApplyCreate(ix, c))
    PROVE  LET jx == ApplyCreate(ix, c)
           IN  /\ FilesStay(ix, jx, ix.rec[c.rec]) /\ OwnStays(ix, jx, c)
               /\ \A q \in Rec : q # c.rec => jx.rec[q] = ix.rec[q]
  <1> DEFINE jx == Resolved(ix, c.rec, c.seq)
             m  == Found(ix, c.rec, c.seq)
             p  == NodeOfRecord(jx, c.parent)
             ax == AppendNode(jx, c.rec, c.seq, p, c.name, c.dir, c.size)
             rx == ApplyCreate(ix, c)
  <1> SUFFICES /\ FilesStay(ix, rx, ix.rec[c.rec]) /\ OwnStays(ix, rx, c)
               /\ \A q \in Rec : q # c.rec => rx.rec[q] = ix.rec[q]
    OBVIOUS
  <1>1. /\ c.rec \in Rec /\ c.seq \in Nat /\ c.size \in Nat
        /\ c.name \in Name /\ c.dir \in BOOLEAN
    BY DEF AnyChange
  <1>2. /\ jx \in IndexType /\ jx.n = ix.n /\ RecordTableSound(jx) /\ FlagsSound(jx)
        /\ SameTree(ix, jx) /\ Live(jx) \subseteq Live(ix)
    <2>1. Good(ix, jx) /\ jx.n = ix.n
      BY <1>1, ResolvedGood
    <2>2. SameTree(ix, jx) /\ Live(jx) \subseteq Live(ix) /\ FlagsSound(jx)
      BY <1>1, ResolvedTree
    <2> QED
      BY <2>1, <2>2 DEF Good
  <1>3. CASE m # NoNode /\ m \notin jx.del
    <2>1. rx = ApplyResize(ix, c)
      BY <1>3 DEF ApplyCreate
    <2>2. /\ FilesStay(ix, ApplyResize(ix, c), ix.rec[c.rec]) /\ OwnStays(ix, ApplyResize(ix, c), c)
          /\ \A q \in Rec : q # c.rec => ApplyResize(ix, c).rec[q] = ix.rec[q]
      BY ResizeFiles
    <2> QED
      BY <2>1, <2>2
  <1>4. CASE m = NoNode \/ m \in jx.del
    <2>1. /\ FilesStay(ix, jx, NoNode) /\ OwnStays(ix, jx, c)
          /\ \A q \in Rec : q # c.rec => jx.rec[q] = ix.rec[q]
      BY <1>4, NoneFiles
    <2> HIDE DEF jx
    <2>2. CASE p = NoNode \/ p \in jx.excl
      <3>1. rx = jx
        BY <1>4, <2>2 DEF ApplyCreate, jx
      <3> HIDE DEF rx
      <3>2. NoNode \notin Live(ix)
        BY LiveNodes, IndexAssumption DEF Node
      <3> QED
        BY <2>1, <3>1, <3>2 DEF FilesStay
    <2>3. CASE p # NoNode /\ p \notin jx.excl
      <3>1. rx = ax
        BY <1>4, <2>3 DEF ApplyCreate, jx
      <3>2. p \in Node
        BY <1>2, <2>3, NodeOfRecordType
      <3> DEFINE k == jx.n
      <3> HIDE DEF p, m, rx
      <3>3. jx.n < MaxNodes
        BY <1>2
      <3>4. Appended(jx, ax, k, c.rec, p, c.dir)
        BY <1>1, <1>2, <3>2, <3>3, AppendIs
      <3> USE DEF Appended
      <3>5. Rooted(ax)
        BY <3>1 DEF rx
      <3>6. ~c.dir => /\ Reaches(ax, k, ax.rec[RootRec]) /\ k \notin Ancestors(ax, k)
                      /\ Ancestors(ax, k) \subseteq ax.dir
        <4> HIDE DEF ax
        <4> SUFFICES ASSUME ~c.dir
                     PROVE  /\ Reaches(ax, k, ax.rec[RootRec]) /\ k \notin Ancestors(ax, k)
                            /\ Ancestors(ax, k) \subseteq ax.dir
          OBVIOUS
        <4> HIDE DEF k
        <4>1. k \notin jx.dir /\ k \notin jx.del /\ k \in 0 .. (k + 1) - 1
          <5>1. k \in Nat /\ k \notin 0 .. k - 1 /\ k \in 0 .. (k + 1) - 1
            BY <3>4 DEF Node
          <5> QED
            BY <1>2, <5>1 DEF FlagsSound, k
        <4>2. k \in Live(ax)
          BY <3>4, <4>1 DEF Live
        <4> QED
          BY <3>4, <3>5, <4>1, <4>2, RootedIs
      <3>7. ~c.dir => ax.size[k] = c.size
        <4> SUFFICES ASSUME ~c.dir
                     PROVE  ax.size[k] = c.size
          OBVIOUS
        <4>1. c.dir = FALSE
          BY <1>1
        <4> DEFINE bx == AppendNode(jx, c.rec, c.seq, p, c.name, FALSE, c.size)
        <4>2. ax = bx
          BY <4>1
        <4>3. Reaches(bx, k, ax.rec[RootRec]) /\ k \notin Ancestors(bx, k)
          BY <3>6, <4>2
        <4> HIDE DEF ax
        <4>4. bx.size[k] = c.size
          BY <1>1, <1>2, <3>2, <3>3, <4>3, AppendSize
        <4> QED
          BY <4>2, <4>4
      <3> HIDE DEF ax
      <3>8. k \notin Live(ix) /\ k \notin jx.dir /\ k = ix.n
        <4>1. ix.n \in Nat
          BY LiveNodes
        <4>2. k \notin 0 .. k - 1
          BY <1>2, <4>1
        <4> QED
          BY <1>2, <4>1, <4>2 DEF Live, FlagsSound
      <3>9. ASSUME NEW f \in (Live(ix) \cap Live(ax)) \ ix.dir
            PROVE  f \notin ax.dir /\ ax.size[f] = ix.size[f]
        <4>1. f # k /\ f \in Node
          BY <3>8, LiveNodes
        <4>2. f \in Live(jx) /\ f \notin jx.dir /\ jx.size[f] = ix.size[f]
          <5>1. f \in Live(jx)
            BY <1>2, <3>4 DEF Live
          <5>2. f # NoNode
            BY <4>1, IndexAssumption DEF Node
          <5> QED
            BY <1>2, <2>1, <5>1, <5>2 DEF FilesStay
        <4>3. CASE c.dir
          BY <3>4, <4>1, <4>2, <4>3 DEF Carried
        <4>4. CASE ~c.dir
          <5>1. Carried(jx, ax, Ancestors(ax, k), ax.size[k], 1, k)
            BY <3>4, <3>6, <4>4
          <5>2. ax.dir = jx.dir /\ f \notin Ancestors(ax, k)
            BY <3>4, <3>6, <4>2, <4>4
          <5> QED
            BY <4>1, <4>2, <5>1, <5>2 DEF Carried
        <4> QED
          BY <4>3, <4>4
      <3>10. OwnStays(ix, ax, c)
        <4>1. ax.rec[c.rec] = k
          BY <3>4
        <4>2. k \in ax.dir => c.dir
          BY <3>4, <3>8
        <4>3. k \notin ax.dir => ax.size[k] = c.size
          <5>1. c.dir => k \in ax.dir
            BY <3>4
          <5> QED
            BY <3>7, <5>1
        <4> HIDE DEF k
        <4> QED
          BY <4>1, <4>2, <4>3 DEF OwnStays
      <3>11. \A q \in Rec : q # c.rec => ax.rec[q] = ix.rec[q]
        BY <2>1, <3>4
      <3> QED
        BY <3>1, <3>9, <3>10, <3>11 DEF FilesStay
    <2> QED
      BY <2>2, <2>3
  <1> QED
    BY <1>3, <1>4

\* Whatever the change, the files of other records keep node and size.
LEMMA ApplyFiles ==
    ASSUME NEW ix \in IndexType, ix.n < MaxNodes, Rooted(ix), RecordTableSound(ix),
           FlagsSound(ix), NEW c \in AnyChange, Rooted(Apply(ix, c))
    PROVE  LET jx == Apply(ix, c)
           IN  /\ FilesStay(ix, jx, IF c.kind \in {"created", "resized"} THEN ix.rec[c.rec]
                                    ELSE NoNode)
               /\ OwnStays(ix, jx, c)
               /\ \A q \in Rec : q # c.rec => jx.rec[q] = ix.rec[q]
  <1>1. c.kind \in {"created", "deleted", "resized", "renamed"}
    BY DEF AnyChange
  <1>2. CASE c.kind = "created"
    <2>1. Apply(ix, c) = ApplyCreate(ix, c)
      BY <1>2 DEF Apply
    <2> QED
      BY <1>2, <2>1, CreateFiles
  <1>3. CASE c.kind = "deleted"
    <2>1. Apply(ix, c) = ApplyDelete(ix, c)
      BY <1>3 DEF Apply
    <2> QED
      BY <1>3, <2>1, DeleteFiles
  <1>4. CASE c.kind = "resized"
    <2>1. Apply(ix, c) = ApplyResize(ix, c)
      BY <1>4 DEF Apply
    <2> QED
      BY <1>4, <2>1, ResizeFiles
  <1>5. CASE c.kind = "renamed"
    <2>1. Apply(ix, c) = ApplyRename(ix, c)
      BY <1>5 DEF Apply
    <2> QED
      BY <1>5, <2>1, RenameFiles
  <1> QED
    BY <1>1, <1>2, <1>3, <1>4, <1>5

------------------------------------------------------------------------------
\* The mirror: places.

\* Where the daemon can follow and nothing is pruned.
Followable == FollowInv /\ MarksInv /\ StepByStep /\ Now.excluded = {}

\* The index shows v or s, and what is on its way to it makes w of v; with the
\* journal read, w is the volume.
Standing(v, s, w) ==
    /\ v \in Layout /\ Tree(v) /\ InGuard(v)
    /\ s \in Layout /\ Tree(s) /\ InGuard(s)
    /\ Agree(v, s) /\ Mixed(index, v, s)
    /\ HeadTells(v, w) /\ (journal = <<>> => w = Places(mft) /\ (s = v \/ s = w))

LEMMA StandingIs ==
    ASSUME Followable, scanned
    PROVE  /\ LiveTypes /\ mft \in [Rec -> FileRecord] /\ index \in IndexType
           /\ RecordTableSound(index) /\ FlagsSound(index) /\ index.excl = {} /\ Rooted(index)
           /\ journal \in Seq(UsnRecord) /\ pending \in Seq(PendingType)
           /\ changes \in Seq(AnyChange) /\ Tree(Places(mft))
           /\ \E v, s, w : Standing(v, s, w)
  <1>1. /\ LiveTypes /\ mft \in [Rec -> FileRecord] /\ index \in IndexType
        /\ RecordTableSound(index) /\ FlagsSound(index)
        /\ journal \in Seq(UsnRecord) /\ pending \in Seq(PendingType)
        /\ changes \in Seq(AnyChange) /\ Tree(Places(mft))
    BY DEF Followable, FollowInv, MarksInv, LiveTypes, VolumeTypes, IndexSound
  <1>2. Rooted(index)
    BY FollowRooted DEF Followable, TreeSound
  <1>3. index.excl = {}
    BY DEF Followable, MarksInv, StepByStep, Unmoved
  <1>4. PICK h, K : HistoryOf(h, K, journal, Places(mft))
    BY DEF Followable, FollowInv, Followed
  <1>5. /\ h \in [0 .. Len(journal) + 1 -> Layout]
        /\ \A i \in 0 .. Len(journal) + 1 : Tree(h[i]) /\ InGuard(h[i])
        /\ K \in 0 .. Len(journal) + 1 /\ Settles(h, K) /\ Mixed(index, h[0], h[K])
        /\ h[Len(journal) + 1] = Places(mft) /\ HeadTells(h[0], h[1])
    BY <1>4 DEF HistoryOf, Chronicle
  <1>6. 0 \in 0 .. Len(journal) + 1 /\ K \in 0 .. K /\ 0 \in 0 .. K
    BY <1>1, <1>5
  <1>7. Agree(h[0], h[K])
    BY <1>5, <1>6 DEF Settles, Agree
  <1>8. journal = <<>> => h[1] = Places(mft) /\ (h[K] = h[0] \/ h[K] = h[1])
    <2> SUFFICES ASSUME journal = <<>>
                 PROVE  h[1] = Places(mft) /\ (h[K] = h[0] \/ h[K] = h[1])
      OBVIOUS
    <2>1. Len(journal) + 1 = 1 /\ (K = 0 \/ K = 1)
      BY <1>5
    <2> QED
      BY <1>5, <2>1
  <1>9. Standing(h[0], h[K], h[1])
    BY <1>5, <1>6, <1>7, <1>8 DEF Standing
  <1> QED
    BY <1>1, <1>2, <1>3, <1>9

\* An index that nothing is on its way to shows every file in its place.
LEMMA PlacesShown ==
    ASSUME Followable, scanned, Drained, NEW r \in Rec
    PROVE  ShowsPlace(r)
  <1> DEFINE u == Places(mft)
             m == index.rec[r]
  <1>1. /\ mft \in [Rec -> FileRecord] /\ index \in IndexType
        /\ RecordTableSound(index) /\ index.excl = {}
    BY StandingIs
  <1>2. PICK v, s, w : Standing(v, s, w)
    BY StandingIs
  <1>3. v = u /\ s = u /\ Mixed(index, v, s)
    BY <1>2 DEF Standing, Drained, HeadTells
  <1>4. /\ u[r].live = mft[r].live /\ u[r].seq = mft[r].seq
        /\ u[r].parent = mft[r].parent /\ u[r].name = mft[r].name
    BY <1>1, PlacesIs
  <1> HIDE DEF u
  <1>5. m \in Live(index) <=> m # NoNode /\ m \notin index.del
    BY <1>1, NotLive
  <1>6. m \in Live(index) => Shows(index, r, u)
    BY <1>3 DEF Mixed
  <1>7. u[r].live => m \in Live(index)
    BY <1>1, <1>3 DEF Mixed
  <1> QED
    BY <1>4, <1>5, <1>6, <1>7 DEF ShowsPlace, Shows

\* A file whose creation is not left to apply has a node: so it is once the journal
\* is read.
AllShown ==
    \A r \in Rec :
        mft[r].live /\ (\A i \in 1 .. Len(changes) :
                           changes[i].rec = r => changes[i].kind # "created")
          => index.rec[r] \in Live(index)

LEMMA AllLive ==
    Followable /\ scanned /\ journal = <<>> /\ pending = <<>> => AllShown
  <1> SUFFICES ASSUME Followable, scanned, journal = <<>>, pending = <<>>,
                      NEW r \in Rec, mft[r].live,
                      \A i \in 1 .. Len(changes) :
                          changes[i].rec = r => changes[i].kind # "created"
               PROVE  index.rec[r] \in Live(index)
    BY DEF AllShown
  <1>1. mft \in [Rec -> FileRecord] /\ index.excl = {} /\ changes \in Seq(AnyChange)
    BY StandingIs
  <1>2. PICK v, s, w : Standing(v, s, w)
    BY StandingIs
  <1>3. w = Places(mft) /\ w[r].live /\ (s = v \/ s = w) /\ HeadTells(v, w) /\ Mixed(index, v, s)
    BY <1>1, <1>2, PlacesIs DEF Standing
  <1>4. v[r].live
    <2>1. CASE w = v
      BY <1>3, <2>1
    <2>2. CASE Len(changes) = 1 /\ ChangeTells(v, w, changes[1])
      <3>1. changes[1].rec = r => changes[1].kind # "created"
        BY <2>2
      <3>2. changes[1].rec # r => w[r] = v[r]
        BY <2>2 DEF ChangeTells, Gone, Made, Moved, Stays, Others
      <3> QED
        BY <1>3, <2>2, <3>1, <3>2 DEF ChangeTells, Gone, Moved, Stays, Others
    <2>3. CASE changes[1].kind = "renamed" /\ ChangeTells(v, w, changes[1])
      BY <1>3, <2>3 DEF ChangeTells, Moved, Others
    <2>4. Len(pending) # 1
      OBVIOUS
    <2> QED
      BY <1>3, <2>1, <2>2, <2>3, <2>4 DEF HeadTells
  <1> QED
    BY <1>1, <1>3, <1>4 DEF Mixed

------------------------------------------------------------------------------
\* The mirror: sizes that are shown or owed, as records are read and translated.

File(r) == mft[r].live /\ ~mft[r].dir

\* A size that the index lacks is owed: its file is still open, or what tells of it
\* is on its way.
ToldOf(xs, r) ==
    \E i \in 1 .. Len(xs) : xs[i].rec = r /\ xs[i].reasons \cap {"create", "size"} # {}

FoldedOf(ps, r) ==
    \E i \in 1 .. Len(ps) : ps[i].rec = r /\ (ps[i].created \/ ps[i].resized)

ChangeFor(cs, r) ==
    \E i \in 1 .. Len(cs) : cs[i].rec = r /\ cs[i].kind \in {"created", "resized"}

Owed(r) ==
    \/ open[r] \cap {"create", "size"} # {}
    \/ ToldOf(journal, r) \/ FoldedOf(pending, r) \/ ChangeFor(changes, r)

ShowsFile(r) ==
    LET m == index.rec[r]
    IN  /\ m \in Live(index) => m \notin index.dir
        /\ Owed(r) \/ (m \in Live(index) /\ index.size[m] = mft[r].size)

\* What is told of a file does not call it a folder.
FileWords(xs) == \A i \in 1 .. Len(xs) : File(xs[i].rec) => ~xs[i].dir

Silent(p) == ~p.created /\ ~p.deleted /\ ~p.renamed /\ ~p.resized

SizedRight(cs) ==
    \A i \in 1 .. Len(cs) : File(cs[i].rec) /\ cs[i].kind \in {"created", "resized"}
                               => cs[i].size = mft[cs[i].rec].size

\* The metadata is read when the journal is, and the volume waits.
OnItsWay ==
    /\ FileWords(journal) /\ FileWords(pending) /\ FileWords(changes)
    /\ changes # <<>> => journal = <<>> /\ SizedRight(changes)
    /\ journal # <<>> => \A i \in 1 .. Len(pending) : Silent(pending[i])

KeepsUp == StepByStep /\ Now.lag = 0 /\ Now.excluded = {}

SizeInv ==
    KeepsUp => OnItsWay /\ (scanned => \A r \in Rec : File(r) => ShowsFile(r))

\* A folded record of a file is translated when the volume waits: its path leads
\* to that file.
LEMMA StatFinds ==
    ASSUME Followable, scanned, Len(pending) = 1, changes = <<>>, journal = <<>>,
           File(pending[1].rec), ~Silent(pending[1])
    PROVE  /\ ResolveStat(pending[1].parent, pending[1].name) = pending[1].rec
           /\ ~pending[1].deleted
  <1> DEFINE p == pending[1]
             r == p.rec
             u == Places(mft)
  <1>1. /\ mft \in [Rec -> FileRecord] /\ index \in IndexType
        /\ RecordTableSound(index) /\ index.excl = {} /\ pending \in Seq(PendingType)
        /\ Tree(u)
    BY StandingIs
  <1>2. PICK v, s, w : Standing(v, s, w)
    BY StandingIs
  <1>3. /\ w = u /\ (s = v \/ s = u) /\ HeadTells(v, u) /\ Mixed(index, v, s) /\ Agree(v, s)
        /\ v \in Layout /\ s \in Layout
    BY <1>2 DEF Standing
  <1>4. p \in PendingType /\ r \in Rec
    <2>1. p \in PendingType
      BY <1>1, HeadOfOne
    <2> QED
      BY <2>1 DEF PendingType
  <1>5. FoldedTells(v, u, p)
    BY <1>3 DEF HeadTells
  <1>6. u[r].live /\ ~u[r].dir
    BY <1>1, <1>4, PlacesIs DEF File
  <1>7. InGuard(u)
    <2>1. PICK h, K : HistoryOf(h, K, journal, u)
      BY DEF Followable, FollowInv, Followed
    <2>2. Len(journal) + 1 \in 0 .. Len(journal) + 1
      OBVIOUS
    <2> QED
      BY <2>1, <2>2 DEF HistoryOf, Chronicle
  <1> HIDE DEF p, u
  <1>8. /\ r # RootRec /\ Says(p, u[r]) /\ ~p.deleted
        /\ \A q \in Rec : q # r => v[q] = u[q]
    BY <1>5, <1>6 DEF FoldedTells, Gone, Made, Moved, Stays, Others
  <1>9. \A q \in Rec : q # r => v[q] = u[q] /\ s[q] = u[q]
    BY <1>3, <1>8
  <1>10. ResolveStat(u[r].parent, u[r].name) = r
    BY <1>1, <1>3, <1>4, <1>6, <1>7, <1>8, <1>9, StatIs DEF u
  <1> QED
    BY <1>8, <1>10 DEF Says, p

\* The changes a folded record of a file asks for carry its size.
LEMMA Joined ==
    ASSUME NEW x, NEW y
    PROVE  /\ <<>> \o <<>> = <<>> /\ <<x>> \o <<>> = <<x>>
           /\ <<>> \o <<y>> = <<y>> /\ <<x>> \o <<y>> = <<x, y>>
  <1>1. <<>> \in Seq({x, y}) /\ <<x>> \in Seq({x, y}) /\ <<y>> \in Seq({x, y})
    OBVIOUS
  <1>2. /\ <<>> \o <<>> = <<>> /\ <<x>> \o <<>> = <<x>> /\ <<>> \o <<y>> = <<y>>
    BY <1>1, ConcatEmptySeq
  <1>3. <<x>> \o <<y>> = <<x, y>>
    <2>1. /\ <<x>> \o <<y>> \in Seq({x, y}) /\ <<x, y>> \in Seq({x, y})
          /\ Len(<<x>> \o <<y>>) = 2 /\ Len(<<x, y>>) = 2
          /\ (<<x>> \o <<y>>)[1] = x /\ <<x, y>>[1] = x
          /\ (<<x>> \o <<y>>)[2] = y /\ <<x, y>>[2] = y
      BY <1>1
    <2>2. \A i \in 1 .. 2 : i = 1 \/ i = 2
      OBVIOUS
    <2> QED
      BY <2>1, <2>2, SeqEqual
  <1> QED
    BY <1>2, <1>3

LEMMA AsksSized ==
    ASSUME NEW p \in PendingType, NEW sz, ~p.dir, ~p.deleted
    PROVE  /\ \A i \in 1 .. Len(Asks(p, sz, FALSE, TRUE)) :
                LET c == Asks(p, sz, FALSE, TRUE)[i]
                IN  c.rec = p.rec /\ ~c.dir /\ (c.kind \in {"created", "resized"} => c.size = sz)
           /\ p.created \/ p.resized => ChangeFor(Asks(p, sz, FALSE, TRUE), p.rec)
  <1> DEFINE cs == Asks(p, sz, FALSE, TRUE)
             a == ChangeOf(p, "created", FALSE, sz)
             b == ChangeOf(p, "renamed", FALSE, 0)
             d == ChangeOf(p, "resized", FALSE, sz)
             Fits(c) == /\ c.rec = p.rec /\ ~c.dir
                        /\ c.kind \in {"created", "resized"} => c.size = sz
  <1> SUFFICES /\ \A i \in 1 .. Len(cs) : Fits(cs[i])
               /\ p.created \/ p.resized => ChangeFor(cs, p.rec)
    OBVIOUS
  <1>1. p.dir = FALSE
    BY DEF PendingType
  <1>2. /\ Fits(a) /\ Fits(b) /\ Fits(d)
        /\ a.rec = p.rec /\ a.kind = "created" /\ d.rec = p.rec /\ d.kind = "resized"
    BY DEF ChangeOf
  <1>3. p.created => cs = <<a>>
    BY DEF Asks
  <1>4. ~p.created => cs = (IF p.renamed THEN <<b>> ELSE <<>>)
                           \o (IF p.resized THEN <<d>> ELSE <<>>)
    BY Zenon, <1>1 DEF Asks
  <1> HIDE DEF cs, a, b, d
  <1>5. \/ cs = <<a>>
        \/ cs = <<>> /\ ~p.created /\ ~p.resized
        \/ cs = <<b>> /\ ~p.created /\ ~p.resized
        \/ cs = <<d>>
        \/ cs = <<b, d>>
    BY <1>3, <1>4, Joined
  <1> HIDE DEF Fits
  <1>6. CASE cs = <<a>>
    <2>1. Len(cs) = 1 /\ cs[1] = a /\ \A i \in 1 .. 1 : i = 1
      BY <1>6
    <2> QED
      BY <1>2, <2>1 DEF ChangeFor
  <1>7. CASE cs = <<>> /\ ~p.created /\ ~p.resized
    BY <1>7
  <1>8. CASE cs = <<b>> /\ ~p.created /\ ~p.resized
    <2>1. Len(cs) = 1 /\ cs[1] = b /\ \A i \in 1 .. 1 : i = 1
      BY <1>8
    <2> QED
      BY <1>2, <1>8, <2>1
  <1>9. CASE cs = <<d>>
    <2>1. Len(cs) = 1 /\ cs[1] = d /\ \A i \in 1 .. 1 : i = 1
      BY <1>9
    <2> QED
      BY <1>2, <2>1 DEF ChangeFor
  <1>10. CASE cs = <<b, d>>
    <2>1. /\ Len(cs) = 2 /\ cs[1] = b /\ cs[2] = d
          /\ \A i \in 1 .. 2 : i = 1 \/ i = 2
          /\ 2 \in 1 .. 2
      BY <1>10
    <2> QED
      BY <1>2, <2>1 DEF ChangeFor
  <1> QED
    BY <1>5, <1>6, <1>7, <1>8, <1>9, <1>10

LEMMA AsksOfOne ==
    ASSUME NEW p \in PendingType, NEW sz, NEW isDir, NEW stat
    PROVE  /\ \A i \in 1 .. Len(Asks(p, sz, isDir, stat)) : Asks(p, sz, isDir, stat)[i].rec = p.rec
           /\ Silent(p) => Asks(p, sz, isDir, stat) = <<>>
  <1> DEFINE cs == Asks(p, sz, isDir, stat)
             a == ChangeOf(p, "created", isDir, sz)
             b == ChangeOf(p, "renamed", p.dir, 0)
             d == ChangeOf(p, "resized", p.dir, sz)
             e == ChangeOf(p, "deleted", p.dir, 0)
  <1>1. a.rec = p.rec /\ b.rec = p.rec /\ d.rec = p.rec /\ e.rec = p.rec
    BY DEF ChangeOf
  <1>2. cs = <<>> \/ cs = <<a>> \/ cs = <<b>> \/ cs = <<d>> \/ cs = <<e>> \/ cs = <<b, d>>
    <2>1. \/ cs = <<>> \/ cs = <<a>> \/ cs = <<e>>
          \/ cs = (IF p.renamed THEN <<b>> ELSE <<>>)
                  \o (IF p.resized /\ ~p.dir /\ stat THEN <<d>> ELSE <<>>)
      BY Zenon DEF Asks
    <2> HIDE DEF cs, a, b, d, e
    <2> QED
      BY <2>1, Joined
  <1>3. Silent(p) => cs = <<>>
    BY DEF Asks, Silent
  <1> HIDE DEF cs, a, b, d, e
  <1>4. \A i \in 1 .. Len(cs) : cs[i] \in {a, b, d, e}
    <2>1. CASE cs = <<b, d>>
      <3>1. cs[1] = b /\ cs[2] = d /\ Len(cs) = 2
        BY <2>1
      <3> QED
        BY <3>1
    <2> QED
      BY <1>2, <2>1
  <1> QED
    BY <1>1, <1>3, <1>4 DEF cs

\* What stays as it is where mft, open and the index do.
LEMMA SameFiles ==
    ASSUME mft' = mft, open' = open, index' = index, NEW r \in Rec, File(r) => ShowsFile(r),
           File(r) /\ ToldOf(journal, r) /\ Owed(r) => Owed(r)',
           File(r) /\ FoldedOf(pending, r) /\ Owed(r) => Owed(r)',
           File(r) /\ ChangeFor(changes, r) /\ Owed(r) => Owed(r)'
    PROVE  File(r)' => ShowsFile(r)'
  <1>1. File(r)' <=> File(r)
    BY DEF File
  <1>2. File(r) /\ Owed(r) => Owed(r)'
    BY DEF Owed
  <1> HIDE DEF Owed
  <1> QED
    BY <1>1, <1>2 DEF ShowsFile

LEMMA TranslateSized ==
    ASSUME Followable, scanned, OnItsWay, \A r \in Rec : File(r) => ShowsFile(r), Translate
    PROVE  OnItsWay' /\ \A r \in Rec : File(r)' => ShowsFile(r)'
  <1> DEFINE p  == pending[1]
             q  == ResolveStat(p.parent, p.name)
             cs == Translated(p)
  <1>1. /\ mft' = mft /\ open' = open /\ journal' = journal /\ index' = index
        /\ pending # <<>> /\ pending' = Tail(pending)
        /\ changes' = changes \o Translated(Head(pending))
    BY DEF Translate, volumeVars
  <1>2. /\ mft \in [Rec -> FileRecord] /\ index \in IndexType
        /\ pending \in Seq(PendingType) /\ journal \in Seq(UsnRecord)
    BY StandingIs
  <1>3. Len(pending) = 1 /\ changes = <<>>
    <2>1. PICK v, s, w : Standing(v, s, w)
      BY StandingIs
    <2> QED
      BY <1>1, <2>1 DEF Standing, HeadTells
  <1>4. /\ p \in PendingType /\ p.rec \in Rec /\ pending' = <<>>
        /\ Head(pending) = p /\ \A i \in 1 .. Len(pending) : pending[i] = p
    <2>1. p \in PendingType /\ pending' = <<>> /\ Head(pending) = p
      BY <1>1, <1>2, <1>3, HeadOfOne
    <2>2. \A i \in 1 .. Len(pending) : i = 1
      BY <1>3
    <2> QED
      BY <2>1, <2>2 DEF PendingType
  <1>5. cs \in Seq(AnyChange) /\ changes' = cs
    <2>1. cs \in Seq(AnyChange)
      BY <1>2, <1>4, TranslatedType
    <2> HIDE DEF cs
    <2>2. <<>> \o cs = cs
      BY <2>1, ConcatEmptySeq
    <2> QED
      BY <1>1, <1>3, <1>4, <2>1, <2>2 DEF cs
  <1>6. cs = Asks(p, StatSize(q), StatDir(p, q), q # NoNode)
    BY TranslatedIs
  <1> HIDE DEF p, q, cs
  <1>7. (\A i \in 1 .. Len(cs) : cs[i].rec = p.rec) /\ (Silent(p) => cs = <<>>)
    BY <1>4, <1>6, AsksOfOne
  <1>8. Silent(p) \/ journal = <<>>
    <2>1. 1 \in 1 .. Len(pending)
      BY <1>3
    <2> QED
      BY <2>1 DEF OnItsWay, p
  <1>9. ASSUME File(p.rec), ~Silent(p)
        PROVE  /\ \A i \in 1 .. Len(cs) :
                    ~cs[i].dir /\ (cs[i].kind \in {"created", "resized"}
                                     => cs[i].size = mft[p.rec].size)
               /\ p.created \/ p.resized => ChangeFor(cs, p.rec)
    <2>1. journal = <<>>
      BY <1>8, <1>9
    <2>2. q = p.rec /\ ~p.deleted
      BY <1>3, <1>9, <2>1, StatFinds DEF p, q
    <2>3. ~p.dir
      <3>1. 1 \in 1 .. Len(pending)
        BY <1>3
      <3> QED
        BY <1>9, <3>1 DEF OnItsWay, FileWords, p
    <2>4. q # NoNode
      BY <1>4, <2>2, IndexAssumption
    <2>5. StatSize(q) = mft[p.rec].size /\ StatDir(p, q) = FALSE
      <3>1. p.dir = FALSE /\ mft[p.rec].dir = FALSE
        BY <1>2, <1>4, <1>9, <2>3 DEF File, PendingType, FileRecord
      <3> QED
        BY <2>2, <2>4, <3>1 DEF StatSize, StatDir
    <2>6. cs = Asks(p, mft[p.rec].size, FALSE, TRUE)
      BY <1>6, <2>4, <2>5
    <2> QED
      BY <1>4, <2>2, <2>3, <2>6, AsksSized
  <1>10. OnItsWay'
    <2>1. FileWords(journal)' /\ FileWords(pending)'
      BY <1>1, <1>4 DEF OnItsWay, FileWords, File
    <2>2. FileWords(changes)' /\ SizedRight(changes)'
      <3>1. ASSUME NEW i \in 1 .. Len(cs), File(cs[i].rec)
            PROVE  ~cs[i].dir /\ (cs[i].kind \in {"created", "resized"}
                                    => cs[i].size = mft[cs[i].rec].size)
        <4>1. cs[i].rec = p.rec /\ cs # <<>>
          BY <1>7
        <4> QED
          BY <1>7, <1>9, <3>1, <4>1
      <3> QED
        BY <1>1, <1>5, <3>1 DEF FileWords, SizedRight, File
    <2>3. changes' # <<>> => journal' = <<>>
      BY <1>1, <1>5, <1>7, <1>8
    <2> QED
      BY <1>4, <2>1, <2>2, <2>3 DEF OnItsWay
  <1>11. ASSUME NEW r \in Rec
         PROVE  File(r)' => ShowsFile(r)'
    <2>1. ToldOf(journal, r) => Owed(r)'
      BY <1>1 DEF Owed
    <2>2. ~ChangeFor(changes, r)
      BY <1>3 DEF ChangeFor
    <2>3. File(r) /\ FoldedOf(pending, r) => Owed(r)'
      <3> SUFFICES ASSUME File(r), FoldedOf(pending, r)
                   PROVE  Owed(r)'
        OBVIOUS
      <3>1. p.rec = r /\ (p.created \/ p.resized)
        BY <1>4 DEF FoldedOf
      <3>2. ~Silent(p)
        BY <3>1 DEF Silent
      <3>3. ChangeFor(cs, r)
        BY <1>9, <3>1, <3>2
      <3> QED
        BY <1>5, <3>3 DEF Owed
    <2> QED
      BY <1>1, <2>1, <2>2, <2>3, SameFiles
  <1> QED
    BY <1>10, <1>11

LEMMA AbsorbSized ==
    ASSUME mft \in [Rec -> FileRecord], NEW x \in UsnRecord
    PROVE  LET p == Absorb(Blank(x.rec), x)
           IN  p.rec = x.rec /\ p.dir = x.dir /\ p.resized = ("size" \in x.reasons)
  BY DEF Absorb, Blank, UsnRecord

LEMMA AbsorbRename ==
    ASSUME mft \in [Rec -> FileRecord], NEW x \in UsnRecord, NEW y \in UsnRecord, x.rec = y.rec
    PROVE  LET p == Absorb(Absorb(Blank(x.rec), x), y)
           IN  p.rec = y.rec /\ p.dir = y.dir
  BY DEF Absorb, Blank, UsnRecord

LEMMA BatchSized ==
    ASSUME Followable, Now.lag = 0, scanned, OnItsWay, \A r \in Rec : File(r) => ShowsFile(r), ReadBatch
    PROVE  OnItsWay' /\ \A r \in Rec : File(r)' => ShowsFile(r)'
  <1>1. /\ mft' = mft /\ open' = open /\ index' = index /\ changes' = changes
        /\ pending = <<>> /\ changes = <<>>
    BY DEF ReadBatch
  <1>2. /\ mft \in [Rec -> FileRecord] /\ journal \in Seq(UsnRecord)
        /\ LiveTypes /\ StepByStep /\ Paired(journal)
    BY StandingIs DEF Followable, FollowInv, Followed
  <1>3. PICK k, p : BatchIs(k, p)
    BY <1>2, BatchFound
  <1> DEFINE x == journal[1]
             y == journal[2]
  <1>4. /\ k \in 1 .. Len(journal) /\ journal' = SubSeq(journal, k + 1, Len(journal))
        /\ pending' = <<p>> /\ Len(journal) \in 1 .. 2
    <2>1. Len(journal) \in Nat /\ Len(journal) <= 2
      BY <1>2 DEF Paired
    <2>2. /\ k \in 1 .. Len(journal) /\ journal' = SubSeq(journal, k + 1, Len(journal))
          /\ pending' = <<p>>
      BY <1>3 DEF BatchIs
    <2>3. Len(journal) \in 1 .. 2
      <3> DEFINE n == Len(journal)
      <3>1. n \in Nat /\ n <= 2 /\ k \in 1 .. n
        BY <2>1, <2>2
      <3> HIDE DEF n
      <3>2. n # 0
        BY <3>1
      <3>3. n \in 1 .. 2
        BY <3>1, <3>2
      <3> QED
        BY <3>3 DEF n
    <2> QED
      BY <2>2, <2>3
  <1>5. /\ x \in UsnRecord
        /\ Len(journal) = 2 => y \in UsnRecord
        /\ Len(pending') = 1 /\ pending'[1] = p /\ \A i \in 1 .. 1 : i = 1
    BY <1>2, <1>4
  <1>6. CASE k = 1 /\ Len(journal) = 1
    <2>1. p = Absorb(Blank(x.rec), x)
      BY <1>3, <1>6 DEF BatchIs
    <2>2. journal' = <<>> /\ \A i \in 1 .. Len(journal) : i = 1
      BY <1>2, <1>4, <1>6
    <2> HIDE DEF x
    <2>3. /\ p.rec = x.rec /\ p.dir = x.dir /\ p.resized = ("size" \in x.reasons)
          /\ p.created = ("create" \in x.reasons)
      BY <1>2, <1>5, <2>1, AbsorbSized, AbsorbOne
    <2>4. FileWords(pending)'
      <3>1. File(x.rec) => ~x.dir
        <4>1. 1 \in 1 .. Len(journal)
          BY <1>6
        <4> QED
          BY <4>1 DEF OnItsWay, FileWords, x
      <3> QED
        BY <1>1, <1>5, <2>3, <3>1 DEF FileWords, File
    <2>5. FileWords(journal)' /\ FileWords(changes)'
      BY <1>1, <2>2 DEF FileWords
    <2>6. OnItsWay'
      BY <1>1, <2>2, <2>4, <2>5 DEF OnItsWay
    <2>7. ASSUME NEW r \in Rec
          PROVE  File(r)' => ShowsFile(r)'
      <3>1. ToldOf(journal, r) => Owed(r)'
        <4> SUFFICES ASSUME ToldOf(journal, r)
                     PROVE  Owed(r)'
          OBVIOUS
        <4>1. x.rec = r /\ x.reasons \cap {"create", "size"} # {}
          BY <2>2 DEF ToldOf, x
        <4>2. p.rec = r /\ (p.created \/ p.resized)
          BY <2>3, <4>1
        <4>3. FoldedOf(pending, r)'
          BY <1>5, <4>2 DEF FoldedOf
        <4> QED
          BY <4>3 DEF Owed
      <3>2. ~FoldedOf(pending, r) /\ ~ChangeFor(changes, r)
        BY <1>1 DEF FoldedOf, ChangeFor
      <3> QED
        BY <1>1, <3>1, <3>2, SameFiles
    <2> QED
      BY <2>6, <2>7
  <1>7. CASE Len(journal) = 2
    <2>1. /\ x.rec = y.rec /\ x.reasons = {"oldName"} /\ y.reasons = {"newName"}
      BY <1>2, <1>7 DEF Paired
    <2>2. \A i \in 1 .. Len(journal) : i = 1 \/ i = 2
      BY <1>7
    <2>3. ASSUME NEW r \in Rec
          PROVE  File(r)' => ShowsFile(r)'
      <3>1. ~ToldOf(journal, r)
        BY <2>1, <2>2 DEF ToldOf
      <3>2. ~FoldedOf(pending, r) /\ ~ChangeFor(changes, r)
        BY <1>1 DEF FoldedOf, ChangeFor
      <3> QED
        BY <1>1, <3>1, <3>2, SameFiles
    <2>4. (File(x.rec) => ~x.dir) /\ (File(y.rec) => ~y.dir)
      <3>1. 1 \in 1 .. Len(journal) /\ 2 \in 1 .. Len(journal)
        BY <1>7
      <3> QED
        BY <3>1 DEF OnItsWay, FileWords
    <2>5. CASE k = 1
      <3>1. p = Absorb(Blank(x.rec), x)
        BY <1>3, <2>5 DEF BatchIs
      <3>2. Len(journal') = 1 /\ journal'[1] = y
        BY <1>2, <1>4, <1>7, <2>5
      <3> HIDE DEF x, y
      <3>3. p.rec = x.rec /\ p.dir = x.dir /\ Silent(p)
        BY <1>2, <1>5, <2>1, <3>1, AbsorbSized, AbsorbOne DEF Silent
      <3>4. FileWords(journal)' /\ FileWords(pending)' /\ FileWords(changes)'
        <4>1. Len(changes') = 0
          BY <1>1
        <4> QED
          BY <1>1, <1>5, <2>4, <3>2, <3>3, <4>1 DEF FileWords, File
      <3>5. OnItsWay'
        BY <1>1, <1>5, <3>3, <3>4 DEF OnItsWay
      <3> QED
        BY <2>3, <3>5
    <2>6. CASE k = 2
      <3>1. p = Absorb(Absorb(Blank(x.rec), x), y)
        BY <1>3, <2>6 DEF BatchIs
      <3>2. journal' = <<>>
        BY <1>2, <1>4, <1>7, <2>6
      <3> HIDE DEF x, y
      <3>3. p.rec = y.rec /\ p.dir = y.dir
        BY <1>2, <1>5, <1>7, <2>1, <3>1, AbsorbRename
      <3>4. FileWords(journal)' /\ FileWords(pending)' /\ FileWords(changes)'
        BY <1>1, <1>5, <2>4, <3>2, <3>3 DEF FileWords, File
      <3>5. OnItsWay'
        BY <1>1, <3>2, <3>4 DEF OnItsWay
      <3> QED
        BY <2>3, <3>5
    <2> QED
      BY <1>4, <1>7, <2>5, <2>6
  <1> QED
    BY <1>4, <1>6, <1>7

------------------------------------------------------------------------------
\* The mirror: sizes at the scan, and as changes are applied.

\* Rollup leaves a file the size it has on the volume.
LEMMA BuiltSizes ==
    ASSUME NEW vol \in [Rec -> FileRecord], Rooted(Built(vol)),
           NEW r \in Rec, vol[r].live, ~vol[r].dir
    PROVE  LET bx == Built(vol)
               m  == bx.rec[r]
           IN  m \in Live(bx) /\ m \notin bx.dir /\ bx.size[m] = vol[r].size
  <1> DEFINE sx == Scanned(vol)
             dx == Depths(sx)
             bx == Built(vol)
             m  == bx.rec[r]
  <1>1. /\ dx \in IndexType /\ dx.del = {}
        /\ \A d \in Live(dx) \cap dx.dir : dx.size[d] = 0
    BY OwnIs
  <1>2. PICK D, w, c :
                 /\ Rooted(dx) /\ Leveled(dx, D) /\ GoesUp(w, dx, D) /\ GoesUp(c, dx, D)
                 /\ w[0] = dx.size /\ w[D] = bx.size
                 /\ c[0] = Counts(dx) /\ c[D] = Counts(bx)
                 /\ SamePlaces(dx, bx) /\ bx \in IndexType
    BY BuiltGoesUp
  <1>3. sx \in IndexType /\ Pass(vol, sx) /\ OwnTotals(vol, sx)
    BY ScannedIs
  <1> HIDE DEF sx
  <1>4. SamePlaces(sx, dx) /\ dx.size = sx.size
    BY <1>3, DepthsIs
  <1> HIDE DEF dx, bx
  <1>5. r \in InUse(vol)
    BY DEF InUse
  <1>6. /\ m = NodeAt(vol, r) /\ m = sx.rec[r] /\ m \notin bx.dir /\ sx.size[m] = vol[r].size
        /\ m \notin dx.dir
    BY <1>2, <1>3, <1>4, <1>5 DEF Pass, OwnTotals, SamePlaces
  <1> HIDE DEF m
  <1>7. m \in Live(dx) /\ Live(bx) = Live(dx)
    <2>1. m \in 0 .. Count(vol) - 1
      <3>1. \A q \in InUse(vol) : NodeAt(vol, q) \in 0 .. Count(vol) - 1
        BY NodeAtIs
      <3> QED
        BY <1>5, <1>6, <3>1
    <2> QED
      BY <1>1, <1>2, <1>3, <1>4, <2>1 DEF Live, Pass, SamePlaces
  <1>8. dx.size \in [Node -> Nat] /\ IsFiniteSet(Node)
    BY <1>1, LiveNodes DEF IndexType
  <1>9. PICK g : AddsUp(g, Node, dx.size)
    BY <1>8, SumsExist
  <1>10. Subtree(dx, m) \in SUBSET Node
    BY <1>1, <1>2, <1>7, SubtreeParts
  <1>11. w[D][m] = SumOf(w[0], Subtree(dx, m))
    BY <1>1, <1>2, <1>7, RolledUp
  <1>12. SumOf(dx.size, Subtree(dx, m)) = g[Subtree(dx, m)]
    BY <1>8, <1>9, <1>10, SumOver
  <1>13. g[Subtree(dx, m)] = dx.size[m]
    <2> DEFINE s == dx.size
    <2>1. s \in [Node -> Nat] /\ AddsUp(g, Node, s) /\ \A d \in Live(dx) \cap dx.dir : s[d] = 0
      BY <1>1, <1>8, <1>9
    <2> HIDE DEF s
    <2>2. dx \in IndexType /\ Rooted(dx) /\ dx.del = {}
      BY <1>1, <1>2
    <2>3. g[Subtree(dx, m)] = s[m]
      BY <1>6, <1>7, <2>1, <2>2, FileSum
    <2> QED
      BY <2>3 DEF s
  <1>14. bx.size[m] = vol[r].size
    BY <1>2, <1>4, <1>6, <1>11, <1>12, <1>13
  <1> QED
    BY <1>6, <1>7, <1>14 DEF bx, m

LEMMA ScanSized ==
    ASSUME FollowInv, MarksInv, Shallow, OnItsWay, Now.excluded = {}, Scan
    PROVE  OnItsWay' /\ \A r \in Rec : File(r)' => ShowsFile(r)'
  <1>1. /\ mft' = mft /\ open' = open /\ journal' = journal
        /\ pending' = pending /\ changes' = changes /\ ~scanned
        /\ index' = ExcludeAll(Built(mft), Now.excluded)
    BY DEF Scan, volumeVars
  <1>2. mft \in [Rec -> FileRecord] /\ Tree(Places(mft))
    BY DEF FollowInv, MarksInv, LiveTypes, VolumeTypes
  <1>3. Built(mft) \in IndexType /\ Rooted(Built(mft))
    BY <1>2, BuiltRooted DEF Shallow
  <1>4. index' = Built(mft)
    <2>1. {} \in SUBSET Seq(Name) /\ IsFiniteSet({})
      BY FS_EmptySet
    <2>2. PICK g : Prunes(g, Built(mft), {}) /\ ExcludeAll(Built(mft), {}) = g[{}]
      BY <1>3, <2>1, ExcludeAllIs
    <2>3. g[{}] = Built(mft)
      BY <2>2 DEF Prunes
    <2> QED
      BY <1>1, <2>2, <2>3
  <1>5. OnItsWay'
    BY <1>1 DEF OnItsWay, FileWords, SizedRight, File
  <1>6. ASSUME NEW r \in Rec
        PROVE  File(r)' => ShowsFile(r)'
    <2>1. File(r)' <=> mft[r].live /\ ~mft[r].dir
      BY <1>1 DEF File
    <2>2. File(r)' => /\ index'.rec[r] \in Live(index') /\ index'.rec[r] \notin index'.dir
                      /\ index'.size[index'.rec[r]] = mft'[r].size
      BY <1>1, <1>2, <1>3, <1>4, <2>1, BuiltSizes
    <2> QED
      BY <2>2 DEF ShowsFile
  <1> QED
    BY <1>5, <1>6

LEMMA ApplySized ==
    ASSUME Followable, Followable', scanned, OnItsWay,
           \A r \in Rec : File(r) => ShowsFile(r), ApplyChange
    PROVE  OnItsWay' /\ \A r \in Rec : File(r)' => ShowsFile(r)'
  <1> DEFINE c == Head(changes)
             k == IF c.kind \in {"created", "resized"} THEN index.rec[c.rec] ELSE NoNode
  <1>1. /\ mft' = mft /\ open' = open /\ journal' = journal /\ pending' = pending
        /\ scanned' = scanned /\ pending = <<>> /\ changes # <<>>
        /\ index.n < MaxNodes /\ index' = Apply(index, c) /\ changes' = Tail(changes)
    BY DEF ApplyChange, volumeVars
  <1>2. /\ mft \in [Rec -> FileRecord] /\ index \in IndexType
        /\ RecordTableSound(index) /\ FlagsSound(index) /\ Rooted(index)
        /\ changes \in Seq(AnyChange)
    BY StandingIs
  <1>3. journal = <<>> /\ SizedRight(changes) /\ FileWords(changes)
    BY <1>1 DEF OnItsWay
  <1>4. /\ c \in AnyChange /\ c = changes[1] /\ c.rec \in Rec
        /\ Len(changes') = Len(changes) - 1 /\ Len(changes) \in Nat /\ Len(changes) > 0
        /\ \A i \in 1 .. Len(changes') : changes'[i] = changes[i + 1] /\ i + 1 \in 1 .. Len(changes)
        /\ \A i \in 1 .. Len(changes) :
             i = 1 \/ (i - 1 \in 1 .. Len(changes') /\ changes'[i - 1] = changes[i])
    <2>1. c \in AnyChange /\ c = changes[1] /\ Len(changes) \in Nat /\ Len(changes) > 0
      BY <1>1, <1>2
    <2> QED
      BY <1>1, <1>2, <2>1 DEF AnyChange
  <1> HIDE DEF c
  <1>5. Len(changes) = 1 \/ (changes[1].kind = "renamed" /\ Len(changes) = 2
                              /\ changes[2].kind = "resized")
    <2>1. PICK v, s, w : Standing(v, s, w)
      BY StandingIs
    <2> QED
      BY <1>1, <2>1 DEF Standing, HeadTells
  <1>6. Rooted(index')
    <2>1. FollowInv' /\ StepByStep'
      BY DEF Followable
    <2>2. TreeSound'
      BY <2>1, FollowRooted, PTL
    <2> QED
      BY <2>1, <2>2 DEF TreeSound
  <1>7. /\ FilesStay(index, index', k) /\ OwnStays(index, index', c)
        /\ \A q \in Rec : q # c.rec => index'.rec[q] = index.rec[q]
    BY <1>1, <1>2, <1>4, <1>6, ApplyFiles
  <1>8. OnItsWay'
    <2>1. FileWords(journal)' /\ FileWords(pending)'
      BY <1>1, <1>3 DEF FileWords
    <2>2. FileWords(changes)' /\ SizedRight(changes)'
      BY <1>1, <1>3, <1>4 DEF FileWords, SizedRight, File
    <2> QED
      BY <1>1, <1>3, <2>1, <2>2 DEF OnItsWay
  <1>9. ASSUME NEW r \in Rec, mft[r].live
        PROVE  /\ index'.rec[r] \in Live(index')
               /\ r # c.rec => index.rec[r] \in Live(index)
    <2>1. \A i \in 1 .. Len(changes') : changes'[i].kind # "created"
      BY <1>4, <1>5
    <2>2. \A i \in 1 .. Len(changes) : r # c.rec =>
            (changes[i].rec = r => changes[i].kind # "created")
      BY <1>4, <1>5
    <2>3. r # c.rec => index.rec[r] \in Live(index)
      BY <1>1, <1>3, <1>9, <2>2, AllLive DEF AllShown
    <2>4. AllShown'
      <3>1. scanned' /\ (journal = <<>>)' /\ (pending = <<>>)'
        BY <1>1, <1>3
      <3> QED
        BY <3>1, AllLive, PTL
    <2>5. index'.rec[r] \in Live(index')
      BY <1>1, <1>9, <2>1, <2>4 DEF AllShown
    <2> QED
      BY <2>3, <2>5
  <1>10. ASSUME NEW r \in Rec, File(r)
         PROVE  ShowsFile(r)'
    <2> DEFINE m == index.rec[r]
    <2>1. index'.rec[r] \in Live(index') /\ (r # c.rec => m \in Live(index))
      BY <1>9, <1>10 DEF File
    <2>2. ShowsFile(r)
      BY <1>10 DEF OnItsWay, SizeInv
    <2>3. ASSUME Owed(r), ~Owed(r)'
          PROVE  c.rec = r /\ c.kind \in {"created", "resized"}
      <3>1. ~ToldOf(journal, r) /\ ~FoldedOf(pending, r)
        BY <1>1, <1>3 DEF ToldOf, FoldedOf
      <3>2. ChangeFor(changes, r) /\ ~ChangeFor(changes', r)
        BY <1>1, <2>3, <3>1 DEF Owed
      <3>3. PICK i \in 1 .. Len(changes) : changes[i].rec = r
                                           /\ changes[i].kind \in {"created", "resized"}
        BY <3>2 DEF ChangeFor
      <3>4. i = 1
        BY <1>4, <3>2, <3>3 DEF ChangeFor
      <3> QED
        BY <1>4, <3>3, <3>4
    <2>4. CASE r # c.rec
      <3>1. m \in Live(index) \cap Live(index') /\ m \notin index.dir /\ index'.rec[r] = m
        BY <1>7, <2>1, <2>2, <2>4 DEF ShowsFile
      <3>2. m # k
        <4>1. m # NoNode
          BY <1>2, <3>1, NotLive
        <4> QED
          BY <1>2, <1>4, <2>4, <4>1 DEF RecordTableSound
      <3>3. m \notin index'.dir /\ index'.size[m] = index.size[m]
        BY <1>7, <3>1, <3>2 DEF FilesStay
      <3>4. Owed(r) => Owed(r)'
        BY <2>3, <2>4
      <3> QED
        BY <1>1, <2>2, <3>1, <3>3, <3>4 DEF ShowsFile
    <2>5. CASE r = c.rec
      <3> DEFINE n == index'.rec[r]
      <3>1. \/ n = m /\ m \in Live(index)
            \/ c.kind = "created" /\ (n \in index'.dir => c.dir)
        BY <1>7, <2>1, <2>5 DEF OwnStays
      <3>2. ~c.dir /\ (c.kind \in {"created", "resized"} => c.size = mft[r].size)
        <4>1. 1 \in 1 .. Len(changes)
          BY <1>4
        <4> QED
          BY <1>3, <1>4, <1>10, <2>5, <4>1 DEF FileWords, SizedRight
      <3>3. n \notin index'.dir
        <4>1. CASE n = m /\ m \in Live(index)
          <5>1. m \in (Live(index) \cap Live(index')) \ index.dir
            BY <2>1, <2>2, <4>1 DEF ShowsFile
          <5> QED
            BY <1>7, <4>1, <5>1 DEF FilesStay
        <4> QED
          BY <3>1, <3>2, <4>1
      <3>4. CASE c.kind \in {"created", "resized"}
        <4>1. index'.size[n] = mft[r].size
          BY <1>7, <2>1, <2>5, <3>2, <3>3, <3>4 DEF OwnStays
        <4> QED
          BY <1>1, <2>1, <3>3, <4>1 DEF ShowsFile
      <3>5. CASE c.kind \notin {"created", "resized"}
        <4>1. n = m /\ m \in Live(index) /\ k = NoNode
          BY <3>1, <3>5
        <4>2. m \in (Live(index) \cap Live(index')) \ index.dir /\ m # NoNode
          BY <1>2, <2>1, <2>2, <4>1, NotLive DEF ShowsFile
        <4>3. index'.size[m] = index.size[m]
          BY <1>7, <4>1, <4>2 DEF FilesStay
        <4>4. Owed(r) => Owed(r)'
          BY <2>3, <3>5
        <4> QED
          BY <1>1, <2>1, <2>2, <3>3, <4>1, <4>3, <4>4 DEF ShowsFile
      <3> QED
        BY <3>4, <3>5
    <2> QED
      BY <2>4, <2>5
  <1>11. \A r \in Rec : File(r)' => File(r)
    BY <1>1 DEF File
  <1> QED
    BY <1>8, <1>10, <1>11

------------------------------------------------------------------------------
\* The mirror: sizes as programs go on.

\* A step of the volume while nothing is on its way to the index.
Touches(r) ==
    /\ index' = index /\ scanned' = scanned /\ pending' = pending /\ changes' = changes
    /\ \A q \in Rec : q # r => mft'[q] = mft[q] /\ open'[q] = open[q]
    /\ FileWords(journal)'
    /\ mft'[r].live /\ ~mft'[r].dir =>
         /\ ~mft[r].live \/ File(r)
         /\ \/ open'[r] \cap {"create", "size"} # {} \/ ToldOf(journal', r)
            \/ File(r) /\ mft'[r].size = mft[r].size /\ open[r] \cap {"create", "size"} = {}

LEMMA TouchedSized ==
    ASSUME Drained, scanned => Followable, NEW r \in Rec, Touches(r),
           scanned => \A q \in Rec : File(q) => ShowsFile(q)
    PROVE  OnItsWay' /\ (scanned' => \A q \in Rec : File(q)' => ShowsFile(q)')
  <1>1. /\ index' = index /\ scanned' = scanned /\ pending' = <<>> /\ changes' = <<>>
        /\ journal = <<>> /\ pending = <<>> /\ changes = <<>>
    BY DEF Touches, Drained
  <1>2. OnItsWay'
    BY <1>1 DEF OnItsWay, FileWords, Touches
  <1>3. ASSUME scanned, NEW q \in Rec
        PROVE  File(q)' => ShowsFile(q)'
    <2>1. Owed(q) <=> open[q] \cap {"create", "size"} # {}
      BY <1>1 DEF Owed, ToldOf, FoldedOf, ChangeFor
    <2>2. open'[q] \cap {"create", "size"} # {} \/ ToldOf(journal', q) => Owed(q)'
      BY DEF Owed
    <2>3. CASE q # r
      <3>1. mft'[q] = mft[q] /\ open'[q] = open[q]
        BY <2>3 DEF Touches
      <3>2. File(q)' => File(q) /\ ShowsFile(q)
        BY <1>3, <3>1 DEF File
      <3> HIDE DEF Owed
      <3> QED
        BY <1>1, <2>1, <2>2, <3>1, <3>2 DEF ShowsFile
    <2>4. CASE q = r
      <3>1. File(q)' <=> mft'[q].live /\ ~mft'[q].dir
        BY DEF File
      <3>2. ~mft[q].live => index.rec[q] \notin Live(index)
        <4>1. Followable /\ RecordTableSound(index) /\ index \in IndexType
          BY <1>3, StandingIs
        <4>2. ShowsPlace(q)
          BY <1>3, <4>1, PlacesShown
        <4> QED
          BY <4>1, <4>2, NotLive DEF ShowsPlace
      <3>3. File(q) => ShowsFile(q)
        BY <1>3
      <3>4. File(q)' => /\ ~mft[q].live \/ File(q)
                        /\ Owed(q)' \/ (File(q) /\ mft'[q].size = mft[q].size /\ ~Owed(q))
        BY <2>1, <2>2, <2>4, <3>1 DEF Touches
      <3> HIDE DEF Owed
      <3> QED
        BY <1>1, <3>2, <3>3, <3>4 DEF ShowsFile
    <2> QED
      BY <2>3, <2>4
  <1> QED
    BY <1>1, <1>2, <1>3

LEMMA NothingOnItsWay ==
    ASSUME journal \in Seq(UsnRecord), pending \in Seq(PendingType), changes \in Seq(AnyChange),
           Now.lag = 0, Near
    PROVE  Drained
  <1>1. Len(journal) \in Nat /\ Len(pending) \in Nat /\ Len(changes) \in Nat
    OBVIOUS
  <1>2. Len(journal) + Len(pending) + Len(changes) <= 0
    BY DEF Near
  <1>3. Len(journal) = 0 /\ Len(pending) = 0 /\ Len(changes) = 0
    BY <1>1, <1>2
  <1> QED
    BY <1>3 DEF Drained

LEMMA VolumeSized ==
    ASSUME LiveTypes, LiveTypes', scanned => Followable, Now.lag = 0, ChangeVolume,
           scanned => \A q \in Rec : File(q) => ShowsFile(q)
    PROVE  OnItsWay' /\ (scanned' => \A q \in Rec : File(q)' => ShowsFile(q)')
  <1>1. /\ mft \in [Rec -> FileRecord] /\ open \in [Rec -> SUBSET Reason]
        /\ mft' \in [Rec -> FileRecord] /\ open' \in [Rec -> SUBSET Reason]
        /\ journal \in Seq(UsnRecord) /\ pending \in Seq(PendingType) /\ changes \in Seq(AnyChange)
    BY DEF LiveTypes, VolumeTypes, IndexSound
  <1>2. /\ Near /\ VolumeNext /\ index' = index /\ scanned' = scanned
        /\ pending' = pending /\ changes' = changes
    BY DEF ChangeVolume, indexVars
  <1>3. Drained /\ journal = <<>>
    BY <1>1, <1>2, NothingOnItsWay DEF Drained
  <1>4. SUFFICES \E r \in Rec : Touches(r)
    BY <1>3, TouchedSized
  <1>5. ASSUME NEW x, NEW as, NEW reasons, NEW r, x = Record(r, as, reasons)
        PROVE  x.rec = r /\ x.dir = as.dir /\ x.reasons = reasons
    BY <1>5 DEF Record
  <1>6. ASSUME NEW r \in Rec, NEW as, NEW reasons, journal' = Append(journal, Record(r, as, reasons)),
               mft'[r].live /\ ~mft'[r].dir => ~as.dir
        PROVE  FileWords(journal)' /\ (reasons \cap {"create", "size"} # {} => ToldOf(journal', r))
    <2> DEFINE x == Record(r, as, reasons)
    <2>1. x.rec = r /\ x.dir = as.dir /\ x.reasons = reasons
      BY DEF Record
    <2> HIDE DEF x
    <2>2. Len(journal') = 1 /\ journal'[1] = x
      BY <1>3, <1>6 DEF x
    <2>3. FileWords(journal)'
      <3>1. \A i \in 1 .. 1 : i = 1
        OBVIOUS
      <3> QED
        BY <1>6, <2>1, <2>2, <3>1 DEF FileWords, File
    <2>4. reasons \cap {"create", "size"} # {} => ToldOf(journal', r)
      BY <2>1, <2>2 DEF ToldOf
    <2> QED
      BY <2>3, <2>4
  <1>7. ASSUME NEW r \in Rec, Delete(r)
        PROVE  Touches(r)
    <2>1. /\ mft' = [mft EXCEPT ![r].live = FALSE, ![r].size = 0]
          /\ open' = [open EXCEPT ![r] = {}]
          /\ journal' = Append(journal, Record(r, mft[r], open[r] \cup {"delete"}))
      BY <1>7 DEF Delete
    <2>2. mft'[r].live = FALSE
      BY <1>1, <2>1 DEF FileRecord
    <2>3. \A q \in Rec : q # r => mft'[q] = mft[q] /\ open'[q] = open[q]
      BY <1>1, <2>1
    <2> QED
      BY <1>2, <1>6, <2>1, <2>2, <2>3 DEF Touches
  <1>8. ASSUME NEW r \in Rec, Close(r)
        PROVE  Touches(r)
    <2>1. /\ mft' = mft /\ open' = [open EXCEPT ![r] = {}]
          /\ journal' = Append(journal, Record(r, mft[r], open[r]))
      BY <1>8 DEF Close
    <2>2. \A q \in Rec : q # r => mft'[q] = mft[q] /\ open'[q] = open[q]
      BY <1>1, <2>1
    <2>3. FileWords(journal)' /\ (open[r] \cap {"create", "size"} # {} => ToldOf(journal', r))
      BY <1>6, <2>1
    <2> QED
      BY <1>2, <2>1, <2>2, <2>3 DEF Touches, File
  <1>9. ASSUME NEW r \in Rec, NEW sz \in Now.bytes, Write(r, sz)
        PROVE  Touches(r)
    <2>1. /\ mft[r].live /\ ~mft[r].dir
          /\ mft' = [mft EXCEPT ![r].size = sz]
          /\ open' = [open EXCEPT ![r] = @ \cup {"size"}]
          /\ journal' = IF "size" \in open[r] THEN journal
                        ELSE Append(journal, Record(r, mft[r], open'[r]))
      BY <1>9 DEF Write
    <2>2. \A q \in Rec : q # r => mft'[q] = mft[q] /\ open'[q] = open[q]
      BY <1>1, <2>1
    <2>3. open'[r] \cap {"create", "size"} # {}
      BY <1>1, <2>1
    <2>4. FileWords(journal)'
      <3>1. CASE "size" \in open[r]
        BY <1>3, <2>1, <3>1 DEF FileWords
      <3>2. CASE "size" \notin open[r]
        BY <1>6, <2>1, <3>2
      <3> QED
        BY <3>1, <3>2
    <2> QED
      BY <1>2, <2>1, <2>2, <2>3, <2>4 DEF Touches, File
  <1>10. ASSUME NEW r \in Rec, NEW p \in Rec, NEW nm \in Name, Rename(r, p, nm)
         PROVE  Touches(r)
    <2>1. /\ mft[r].live
          /\ mft' = [mft EXCEPT ![r].parent = p, ![r].name = nm]
          /\ open' = [open EXCEPT ![r] = @ \cup {"newName"}]
          /\ journal' = journal \o << Record(r, mft[r],  open[r] \cup {"oldName"}),
                                      Record(r, mft'[r], open'[r]) >>
      BY <1>10 DEF Rename
    <2>2. \A q \in Rec : q # r => mft'[q] = mft[q] /\ open'[q] = open[q]
      BY <1>1, <2>1
    <2>3. mft'[r].live = mft[r].live /\ mft'[r].dir = mft[r].dir /\ mft'[r].size = mft[r].size
      BY <1>1, <2>1 DEF FileRecord
    <2>4. open[r] \cap {"create", "size"} # {} => open'[r] \cap {"create", "size"} # {}
      BY <1>1, <2>1
    <2>5. FileWords(journal)'
      <3> DEFINE x == Record(r, mft[r],  open[r] \cup {"oldName"})
                 y == Record(r, mft'[r], open'[r])
      <3>1. x.rec = r /\ x.dir = mft[r].dir /\ y.rec = r /\ y.dir = mft'[r].dir
        BY DEF Record
      <3>2. journal' = <<>> \o <<x, y>>
        BY <1>3, <2>1
      <3> HIDE DEF x, y
      <3>3. Len(journal') = 2 /\ journal'[1] = x /\ journal'[2] = y
        BY <3>2
      <3>4. \A i \in 1 .. 2 : i = 1 \/ i = 2
        OBVIOUS
      <3> QED
        BY <2>3, <3>1, <3>3, <3>4 DEF FileWords, File
    <2> QED
      BY <1>2, <2>1, <2>2, <2>3, <2>4, <2>5 DEF Touches, File
  <1>11. ASSUME NEW r \in Rec, NEW p \in Rec, NEW nm \in Name, NEW isDir \in BOOLEAN,
                Create(r, p, nm, isDir)
         PROVE  Touches(r)
    <2>1. /\ ~mft[r].live
          /\ mft' = [mft EXCEPT ![r] = [live |-> TRUE, seq |-> mft[r].seq + 1, parent |-> p,
                                        name |-> nm, dir |-> isDir, size |-> 0]]
          /\ open' = [open EXCEPT ![r] = {"create"}]
          /\ journal' = Append(journal, Record(r, mft'[r], {"create"}))
      BY <1>11 DEF Create
    <2>2. \A q \in Rec : q # r => mft'[q] = mft[q] /\ open'[q] = open[q]
      BY <1>1, <2>1
    <2>3. open'[r] \cap {"create", "size"} # {}
      BY <1>1, <2>1
    <2>4. FileWords(journal)'
      BY <1>6, <2>1
    <2> QED
      BY <1>2, <2>1, <2>2, <2>3, <2>4 DEF Touches
  <1> QED
    BY <1>2, <1>7, <1>8, <1>9, <1>10, <1>11 DEF VolumeNext

------------------------------------------------------------------------------
\* The mirror: at every step.

MirrorInv == FollowInv /\ MarksInv /\ SizeInv

LEMMA MirrorInit == Init /\ Shallow => MirrorInv
  <1> SUFFICES ASSUME Init, Shallow
               PROVE  MirrorInv
    OBVIOUS
  <1>1. FollowInv /\ MarksInv
    BY FollowInit, MarksInit
  <1>2. ~scanned /\ pending = <<>> /\ changes = <<>> /\ journal = <<>>
    BY DEF Init, VolumeInit
  <1>3. OnItsWay
    BY <1>2 DEF OnItsWay, FileWords
  <1> QED
    BY <1>1, <1>2, <1>3 DEF MirrorInv, SizeInv

LEMMA MirrorKept == MirrorInv /\ Shallow' /\ [Next]_vars => MirrorInv'
  <1> SUFFICES ASSUME MirrorInv, Shallow', [Next]_vars
               PROVE  MirrorInv'
    OBVIOUS
  <1>1. /\ FollowInv /\ MarksInv /\ SizeInv /\ FollowInv' /\ MarksInv'
        /\ LiveTypes /\ LiveTypes'
    BY FollowKept, MarksKept DEF MirrorInv, MarksInv
  <1>2. Now' = Now
    <2>1. regime' = regime
      BY <1>1, VolumeTypesKept DEF LiveTypes, Next, Scan, ReadBatch, Translate, ApplyChange,
         ChangeVolume, vars, volumeVars
    <2> QED
      BY <2>1 DEF Now
  <1>3. ASSUME KeepsUp'
        PROVE  OnItsWay' /\ (scanned' => \A r \in Rec : File(r)' => ShowsFile(r)')
    <2>1. StepByStep' /\ Now.lag = 0 /\ Now.excluded = {}
      BY <1>2, <1>3 DEF KeepsUp
    <2>2. StepByStep
      <3>1. ~unfollowed'
        BY <2>1 DEF StepByStep, PrunedApart
      <3>2. \/ unfollowed' = (unfollowed \/ FilePruned)
            \/ unfollowed' = unfollowed
            \/ unfollowed' = (unfollowed \/ FolderLeaves)
        BY DEF Next, Scan, ReadBatch, Translate, ApplyChange, ChangeVolume, vars
      <3>3. ~unfollowed
        BY <3>1, <3>2
      <3> QED
        BY <1>2, <2>1, <3>3 DEF StepByStep, PrunedApart
    <2>3. OnItsWay /\ (scanned => \A r \in Rec : File(r) => ShowsFile(r))
      BY <1>1, <2>1, <2>2 DEF SizeInv, KeepsUp
    <2>4. Followable /\ Followable'
      BY <1>1, <1>2, <2>1, <2>2 DEF Followable
    <2>5. ~scanned => pending = <<>> /\ changes = <<>>
      BY <1>1 DEF FollowInv
    <2>6. CASE Scan
      <3>1. Shallow
        BY <2>6 DEF Scan, volumeVars, Shallow
      <3> QED
        BY <1>1, <2>1, <2>3, <2>6, <3>1, ScanSized
    <2>7. CASE ReadBatch
      <3>1. scanned
        BY <2>7 DEF ReadBatch
      <3> QED
        BY <2>1, <2>3, <2>4, <2>7, <3>1, BatchSized
    <2>8. CASE Translate
      <3>1. scanned
        BY <2>5, <2>8 DEF Translate
      <3> QED
        BY <2>3, <2>4, <2>8, <3>1, TranslateSized
    <2>9. CASE ApplyChange
      <3>1. scanned
        BY <2>5, <2>9 DEF ApplyChange
      <3> QED
        BY <2>3, <2>4, <2>9, <3>1, ApplySized
    <2>10. CASE ChangeVolume
      BY <1>1, <2>1, <2>3, <2>4, <2>10, VolumeSized
    <2>11. CASE UNCHANGED vars
      <3>1. /\ mft' = mft /\ open' = open /\ journal' = journal /\ scanned' = scanned
            /\ index' = index /\ pending' = pending /\ changes' = changes
        BY <2>11 DEF vars, volumeVars, indexVars
      <3>2. OnItsWay'
        BY <2>3, <3>1 DEF OnItsWay, FileWords, SizedRight, File
      <3>3. \A r \in Rec : (File(r)' <=> File(r)) /\ (ShowsFile(r)' <=> ShowsFile(r))
        BY <3>1 DEF File, ShowsFile, Owed, ToldOf, FoldedOf, ChangeFor
      <3> QED
        BY <2>3, <3>1, <3>2, <3>3
    <2> QED
      BY <2>6, <2>7, <2>8, <2>9, <2>10, <2>11 DEF Next
  <1> QED
    BY <1>1, <1>3 DEF MirrorInv, SizeInv

LEMMA MirrorShown == MirrorInv => (StepByStep => Mirror)
  <1> SUFFICES ASSUME MirrorInv, StepByStep, AtRest, PlacesFollowed, NEW r \in Rec
               PROVE  ShowsPlace(r) /\ (Now.lag = 0 => ShowsSize(r))
    BY DEF Mirror
  <1>1. Followable /\ scanned /\ Drained
    BY DEF MirrorInv, Followable, AtRest, PlacesFollowed
  <1>2. ShowsPlace(r)
    BY <1>1, PlacesShown
  <1>3. ASSUME Now.lag = 0, File(r)
        PROVE  index.size[index.rec[r]] = mft[r].size
    <2>1. ShowsFile(r)
      BY <1>1, <1>3 DEF MirrorInv, SizeInv, KeepsUp, Followable
    <2>2. ~Owed(r)
      BY DEF AtRest, Drained, Settled, Owed, ToldOf, FoldedOf, ChangeFor
    <2> QED
      BY <2>1, <2>2 DEF ShowsFile
  <1> QED
    BY <1>2, <1>3 DEF ShowsSize, File

\* At rest the index shows the volume: every file under its name in its folder and,
\* if the daemon keeps up, with its size, and nothing that is gone, however the
\* scan, the reader, the translation and the programs took turns.
THEOREM IndexMirrors == Spec /\ []Shallow => [](StepByStep => Mirror)
  <1>1. Init /\ Shallow => MirrorInv
    BY MirrorInit
  <1>2. MirrorInv /\ Shallow' /\ [Next]_vars => MirrorInv'
    BY MirrorKept
  <1>3. MirrorInv => (StepByStep => Mirror)
    BY MirrorShown
  <1> QED
    BY <1>1, <1>2, <1>3, PTL DEF Spec
==============================================================================
