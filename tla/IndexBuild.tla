----------------------------- MODULE IndexBuild -----------------------------
(***************************************************************************)
(* Building an index from one volume's MFT: IndexBuilder::add_volume and   *)
(* build, with compute_depths and rollup, and the pruning of configured    *)
(* subtrees (exclude_subtree).                                             *)
(*                                                                         *)
(* The parsed MFT is a function from record numbers to entries             *)
(*   [live, seq, parent, name, dir, size]                                  *)
(* where a record that is not `live` is not in the batch.                  *)
(***************************************************************************)
EXTENDS Index

\* Bytes on disk: what NTFS reports as the allocated size of a file.
Allocated(bytes) == ((bytes + Cluster - 1) \div Cluster) * Cluster

InUse(mft) == {r \in Rec : mft[r].live}

\* Nodes are numbered in record order.
NodeAt(mft, r) ==
    IF r \in InUse(mft) THEN Cardinality({q \in InUse(mft) : q < r}) ELSE NoNode

\* The first two passes of add_volume: every record in use gets a node, then
\* parents are resolved; a record whose parent is not in use hangs off the
\* root.  Sizes are still each record's own.
Scanned(mft) ==
    LET rec  == [r \in Rec |-> NodeAt(mft, r)]
        at(m) == CHOOSE r \in InUse(mft) : rec[r] = m
        used == 0 .. Cardinality(InUse(mft)) - 1
        root == rec[RootRec]
        parentOf(r) == IF r = RootRec THEN root
                       ELSE IF NodeAt(mft, mft[r].parent) = NoNode THEN root
                       ELSE NodeAt(mft, mft[r].parent)
        own(m)  == IF m \in used /\ ~mft[at(m)].dir THEN mft[at(m)].size ELSE 0
        anyName == mft[RootRec].name
    IN  [ n      |-> Cardinality(InUse(mft)),
          parent |-> [m \in Node |-> IF m \in used THEN parentOf(at(m)) ELSE NoNode],
          name   |-> [m \in Node |-> IF m \in used THEN mft[at(m)].name ELSE anyName],
          dir    |-> {m \in used : mft[at(m)].dir},
          excl   |-> {},
          del    |-> {},
          seq    |-> [m \in Node |-> IF m \in used THEN mft[at(m)].seq ELSE 0],
          size   |-> [m \in Node |-> own(m)],
          alloc  |-> [m \in Node |-> Allocated(own(m))],
          files  |-> [m \in Node |-> 0],
          depth  |-> [m \in Node |-> 0],
          rec    |-> rec ]

\* compute_depths: how far below its root each node is.
Depths(ix) ==
    [ix EXCEPT !.depth =
        [m \in Node |->
            IF m < ix.n /\ ~IsRoot(ix, m) THEN Cardinality(Ancestors(ix, m)) ELSE 0]]

\* One turn of rollup's deepest-first walk: fold a level into its parents.
\* While the walk runs every file carries a count of one, for its parent.
FoldLevel(ix, d) ==
    LET level   == {m \in 0 .. ix.n - 1 : ix.depth[m] = d /\ ~IsRoot(ix, m)}
        kids(p) == {m \in level : ix.parent[m] = p}
        counts  == [m \in Node |-> FilesOf(ix, m)]
        sum(w, p) == MapThenSumSet(LAMBDA m : w[m], kids(p))
    IN  [ix EXCEPT
          !.size  = [p \in Node |-> ix.size[p]  + sum(ix.size, p)],
          !.alloc = [p \in Node |-> ix.alloc[p] + sum(ix.alloc, p)],
          !.files = [p \in Node |-> ix.files[p] + sum(counts, p)]]

Rollup(ix) ==
    LET deepest == Max({ix.depth[m] : m \in Node})
    IN  FoldLeft(FoldLevel, ix, [i \in 1 .. deepest |-> deepest + 1 - i])

Built(mft) == Rollup(Depths(Scanned(mft)))

(***************************************************************************)
(* exclude_subtree marks the subtree under `top` and takes its totals off  *)
(* every ancestor.  The file count taken off is subtree_files[top], zero   *)
(* when `top` is a file.                                                   *)
(***************************************************************************)
Subtree(ix, top) ==
    {m \in 0 .. ix.n - 1 : m = top \/ top \in Ancestors(ix, m)}

ExcludeSubtree(ix, top) ==
    IF top \in ix.excl THEN ix
    ELSE Propagate([ix EXCEPT !.excl = @ \cup Subtree(ix, top)],
                   top, - ix.size[top], - ix.alloc[top], - ix.files[top])

\* apply_exclusions: prune every configured path the index holds.
ExcludeAll(ix, paths) ==
    LET prune(path, jx) ==
          IF Lookup(jx, path) = NoNode THEN jx
          ELSE ExcludeSubtree(jx, Lookup(jx, path))
    IN  FoldSet(prune, ix, paths)

=============================================================================
