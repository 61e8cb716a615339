------------------------------- MODULE Index -------------------------------
(***************************************************************************)
(* The in-memory index of batuta-core: the node table of index.rs and the  *)
(* four changes watch.rs applies to it.  The parallel arrays of `Index`    *)
(* are the fields of one record `ix`, so that every operation below is a   *)
(* function from an index to the index it leaves behind.                   *)
(*                                                                         *)
(* Abstracted: mtime (never read back by a change), the split of a name    *)
(* between the arena and the override table, the generation counter,       *)
(* several volumes (every operation below stays inside one volume), and    *)
(* the upper saturation of the u64 and u32 totals.                         *)
(***************************************************************************)
EXTENDS Integers, Sequences, FiniteSets, FiniteSetsExt, SequencesExt

CONSTANTS
    Rec,          \* MFT record numbers
    RootRec,      \* the volume root's record (5 on NTFS)
    Name,         \* base names
    NoNode,       \* NO_NODE
    MaxNodes,     \* bound: node ids 0 .. MaxNodes - 1
    ClimbGuard,   \* the loop guard of an ancestor climb (512 in the code)
    Cluster       \* bytes per cluster: allocated sizes are its multiples

ASSUME IndexAssumption ==
    /\ Rec \subseteq Nat /\ RootRec \in Rec
    /\ MaxNodes \in Nat \ {0} /\ ClimbGuard \in Nat /\ Cluster \in Nat \ {0}
    /\ NoNode \notin Nat

Node == 0 .. MaxNodes - 1

IndexType ==
    [ n      : 0 .. MaxNodes,              \* nodes allocated so far
      parent : [Node -> Node \cup {NoNode}],
      name   : [Node -> Name],
      dir    : SUBSET Node,                \* flags::DIRECTORY
      excl   : SUBSET Node,                \* flags::EXCLUDED
      del    : SUBSET Node,                \* flags::DELETED
      seq    : [Node -> Nat],
      size   : [Node -> Nat],
      alloc  : [Node -> Nat],
      files  : [Node -> Nat],              \* subtree_files
      depth  : [Node -> Nat],
      rec    : [Rec -> Node \cup {NoNode}] ]   \* rec_to_node

Live(ix) == (0 .. ix.n - 1) \ ix.del

(***************************************************************************)
(* Ancestor climbs.  Climb(ix, m)[k] is the node the loop of propagate     *)
(* stands on at its k-th turn, NoNode once the loop has ended.             *)
(***************************************************************************)
Climb(ix, m) ==
    LET at[k \in 0 .. ClimbGuard] ==
          IF k = 0 THEN ix.parent[m]
          ELSE LET prev == at[k - 1]
               IN  IF prev = NoNode THEN NoNode
                   ELSE IF ix.parent[prev] = prev THEN NoNode
                   ELSE ix.parent[prev]
    IN  at

IsRoot(ix, m) == ix.parent[m] = m

Ancestors(ix, m) ==
    LET at == Climb(ix, m) IN {at[k] : k \in 0 .. ClimbGuard} \ {NoNode}

SatAdd(a, d) == IF a + d < 0 THEN 0 ELSE a + d

\* Propagate adds the deltas once per turn of the loop: on a parent cycle a
\* node is met, and adjusted, many times.  All deltas of one climb have the
\* same sign, so saturating each turn or the sum is the same.
Propagate(ix, m, ds, da, df) ==
    LET at       == Climb(ix, m)
        turns(a) == Cardinality({k \in 0 .. ClimbGuard : at[k] = a})
    IN  [ix EXCEPT
          !.size  = [a \in Node |-> SatAdd(ix.size[a],  turns(a) * ds)],
          !.alloc = [a \in Node |-> SatAdd(ix.alloc[a], turns(a) * da)],
          !.files = [a \in Node |-> SatAdd(ix.files[a], turns(a) * df)]]

\* What a node takes with it: a file is one file, a directory its subtree.
FilesOf(ix, m) == IF m \in ix.dir THEN ix.files[m] ELSE 1

Detach(ix, m) ==
    Propagate(ix, m, - ix.size[m], - ix.alloc[m], - FilesOf(ix, m))

Attach(ix, m, of) ==
    Propagate(ix, m, of.size[m], of.alloc[m], FilesOf(of, m))

Tombstone(ix, m) ==
    [ix EXCEPT !.del = @ \cup {m},
               !.size[m] = 0, !.alloc[m] = 0, !.files[m] = 0]

(***************************************************************************)
(* MFT record lookups.                                                     *)
(***************************************************************************)
NodeOfRecord(ix, r) == IF r \in Rec THEN ix.rec[r] ELSE NoNode

SetRecord(ix, r, m) == [ix EXCEPT !.rec[r] = m]

ClearRecord(ix, r) == [ix EXCEPT !.rec[r] = NoNode]

\* lookup: the child of each step is the first node, in id order, that hangs
\* off it under that name; tombstones are not skipped.
ChildNamed(ix, p, nm) ==
    LET kids == {m \in 0 .. ix.n - 1 :
                   ix.parent[m] = p /\ m # p /\ ix.name[m] = nm}
    IN  IF p = NoNode \/ kids = {} THEN NoNode ELSE Min(kids)

Lookup(ix, path) ==
    LET down(p, nm) == ChildNamed(ix, p, nm)
    IN  FoldLeft(down, ix.rec[RootRec], path)

\* path: the names on the climb from a node to its root, outermost first.
PathOf(ix, m) ==
    LET above == Climb(ix, m)
        upto  == {k \in 0 .. ClimbGuard : above[k] # NoNode}
        named == IF IsRoot(ix, m) THEN <<>>
                 ELSE <<ix.name[m]>> \o
                      [k \in 1 .. Cardinality(upto) - 1 |-> ix.name[above[k - 1]]]
    IN  Reverse(named)

Retire(ix, m) ==
    IF m \in ix.del THEN ix
    ELSE Tombstone(IF m \in ix.excl THEN ix ELSE Detach(ix, m), m)

\* resolve_record answers with a node and may change the index: Found is
\* the answer, Resolved the index it leaves behind.
Matches(ix, r, s) ==
    /\ NodeOfRecord(ix, r) # NoNode
    /\ ix.seq[NodeOfRecord(ix, r)] = s

Found(ix, r, s) == IF Matches(ix, r, s) THEN NodeOfRecord(ix, r) ELSE NoNode

\* Bug: the record forgets a stale node without retiring it.
ResolvedForgetting(ix, r, s) ==
    IF NodeOfRecord(ix, r) = NoNode \/ Matches(ix, r, s) THEN ix
    ELSE ClearRecord(ix, r)

Resolved(ix, r, s) ==
    IF NodeOfRecord(ix, r) = NoNode \/ Matches(ix, r, s) THEN ix
    ELSE ClearRecord(Retire(ix, NodeOfRecord(ix, r)), r)

(***************************************************************************)
(* The changes.  A change is a record with a `kind`; `seq` is the MFT      *)
(* sequence number the journal record carried.                             *)
(***************************************************************************)
AppendNode(ix, r, s, p, nm, isDir, sz) ==
    LET m == ix.n
        w == IF isDir THEN 0 ELSE sz
        jx == SetRecord(
                [ix EXCEPT !.n = m + 1,
                   !.parent[m] = p, !.name[m] = nm, !.seq[m] = s,
                   !.dir = IF isDir THEN @ \cup {m} ELSE @,
                   !.size[m] = w, !.alloc[m] = w, !.files[m] = 0,
                   !.depth[m] = ix.depth[p] + 1],
                r, m)
    IN  IF isDir THEN jx ELSE Propagate(jx, m, sz, sz, 1)

\* Bug: the growth is stored in place of the size.
ApplyResizeByGrowth(ix, c) ==
    LET jx == Resolved(ix, c.rec, c.seq)
        m  == Found(ix, c.rec, c.seq)
        d  == c.size - jx.size[m]
    IN  IF m = NoNode THEN jx
        ELSE IF m \in jx.del \cup jx.dir THEN jx
        ELSE [Propagate(jx, m, d, d, 0) EXCEPT !.size[m] = d, !.alloc[m] = d]

ApplyResize(ix, c) ==
    LET jx == Resolved(ix, c.rec, c.seq)
        m  == Found(ix, c.rec, c.seq)
        d  == c.size - jx.size[m]
    IN  IF m = NoNode THEN jx
        ELSE IF m \in jx.del \cup jx.dir THEN jx
        ELSE IF m \in jx.excl THEN [jx EXCEPT !.size[m] = c.size]
        ELSE Propagate([jx EXCEPT !.size[m] = c.size, !.alloc[m] = c.size],
                       m, d, d, 0)

\* Bug: a create that is replayed adds the file a second time.
ApplyCreateTwice(ix, c) ==
    LET jx == Resolved(ix, c.rec, c.seq)
        p  == NodeOfRecord(jx, c.parent)
    IN  IF p = NoNode THEN jx
        ELSE IF p \in jx.excl THEN jx
        ELSE AppendNode(jx, c.rec, c.seq, p, c.name, c.dir, c.size)

\* Bug: what is created below a pruned folder is shown.
ApplyCreateEvenPruned(ix, c) ==
    LET jx == Resolved(ix, c.rec, c.seq)
        m  == Found(ix, c.rec, c.seq)
        p  == NodeOfRecord(jx, c.parent)
    IN  IF m # NoNode /\ m \notin jx.del THEN ApplyResize(ix, c)
        ELSE IF p = NoNode THEN jx
        ELSE AppendNode(jx, c.rec, c.seq, p, c.name, c.dir, c.size)

ApplyCreate(ix, c) ==
    LET jx == Resolved(ix, c.rec, c.seq)
        m  == Found(ix, c.rec, c.seq)
        p  == NodeOfRecord(jx, c.parent)
    IN  IF m # NoNode /\ m \notin jx.del THEN ApplyResize(ix, c)  \* a replay
        ELSE IF p = NoNode THEN jx
        ELSE IF p \in jx.excl THEN jx
        ELSE AppendNode(jx, c.rec, c.seq, p, c.name, c.dir, c.size)

ApplyDelete(ix, c) ==
    LET jx == Resolved(ix, c.rec, c.seq)
        m  == Found(ix, c.rec, c.seq)
    IN  IF m = NoNode THEN jx
        ELSE IF m \in jx.del THEN jx
        ELSE IF m \in jx.excl THEN [jx EXCEPT !.del = @ \cup {m}]
        ELSE ClearRecord(Tombstone(Detach(jx, m), m), c.rec)

\* Bug: a move adds the weight to the new folders and leaves it in the old.
MoveNodeAdding(ix, m, p) ==
    IF ix.parent[m] = p THEN ix
    ELSE Attach([ix EXCEPT !.parent[m] = p, !.depth[m] = ix.depth[p] + 1], m, ix)

MoveNode(ix, m, p) ==
    IF ix.parent[m] = p THEN ix
    ELSE Attach([Detach(ix, m) EXCEPT !.parent[m] = p,
                                      !.depth[m] = ix.depth[p] + 1], m, ix)

\* Bug: a rename changes the name and never the folder.
ApplyRenameInPlace(ix, c) ==
    LET jx == Resolved(ix, c.rec, c.seq)
        m  == Found(ix, c.rec, c.seq)
    IN  IF m = NoNode \/ m \in jx.del THEN jx ELSE [jx EXCEPT !.name[m] = c.name]

ApplyRename(ix, c) ==
    LET jx == Resolved(ix, c.rec, c.seq)
        m  == Found(ix, c.rec, c.seq)
        p  == NodeOfRecord(jx, c.parent)
    IN  IF m = NoNode THEN jx
        ELSE IF m \in jx.del \/ p = NoNode THEN jx
        ELSE [MoveNode(jx, m, p) EXCEPT !.name[m] = c.name]

Apply(ix, c) ==
    CASE c.kind = "created" -> ApplyCreate(ix, c)
      [] c.kind = "deleted" -> ApplyDelete(ix, c)
      [] c.kind = "resized" -> ApplyResize(ix, c)
      [] c.kind = "renamed" -> ApplyRename(ix, c)

(***************************************************************************)
(* What is to hold of an index: its record table, the shape of its tree,   *)
(* and what its totals are totals of.                                      *)
(***************************************************************************)
\* The record table is sound: it names a node at most once, and a node that
\* is still live is always the one its record answers with (node_of_record),
\* so that no later journal record can miss it.
RecordTableSound(ix) ==
    /\ \A r, q \in Rec : ix.rec[r] # NoNode /\ ix.rec[r] = ix.rec[q] => r = q
    /\ \A r \in Rec : ix.rec[r] # NoNode => ix.rec[r] < ix.n
    /\ \A m \in Live(ix) : \E r \in Rec : ix.rec[r] = m

\* Flags are kept for the nodes there are.
FlagsSound(ix) == ix.dir \cup ix.excl \cup ix.del \subseteq 0 .. ix.n - 1

\* The chain of parents of every live node is of live folders and ends at the
\* volume root: its path can be shown, its weight reaches the root, and no climb
\* runs into its guard.
Rooted(ix) ==
    \A m \in Live(ix) :
        /\ Ancestors(ix, m) \subseteq Live(ix) \cap ix.dir
        /\ ix.rec[RootRec] \in Ancestors(ix, m)
        /\ IsRoot(ix, ix.rec[RootRec])

\* The live files below a folder, pruned ones aside.
FilesBelow(ix, d) ==
    {m \in Live(ix) \ (ix.dir \cup ix.excl) : d \in Ancestors(ix, m)}

ShownFolders(ix) == (Live(ix) \cap ix.dir) \ ix.excl

\* Folder totals are what a recount would give: the bytes and the number of the
\* files below.
Recounted(ix) ==
    \A d \in ShownFolders(ix) :
        /\ ix.size[d] = MapThenSumSet(LAMBDA f : ix.size[f], FilesBelow(ix, d))
        /\ ix.files[d] = Cardinality(FilesBelow(ix, d))

\* The pruned nodes that a change leaves in their folder.
PrunedStay(ix, jx) ==
    \A m \in Live(ix) \cap ix.excl : jx.parent[m] = ix.parent[m]

=============================================================================
