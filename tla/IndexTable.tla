----------------------------- MODULE IndexTable -----------------------------
(***************************************************************************)
(* The index under any changes at all.  Module LiveIndex feeds the index   *)
(* with the changes one volume's journal gives rise to; here they come in  *)
(* any order and with any content: duplicated, lost, reordered, for        *)
(* records never heard of, with parents that are files or descendants.     *)
(* What holds here does not rest on what the journal promises.             *)
(***************************************************************************)
EXTENDS IndexBuild

CONSTANTS
    Seqs,         \* MFT sequence numbers a change may carry
    Sizes,        \* file sizes a change may carry
    Fresh,        \* the indexes a scan or a snapshot may deliver
    MaxChanges    \* bound: changes applied to one index

VARIABLES
    index,        \* the index being served
    turn          \* changes applied to it so far

vars == <<index, turn>>

Change ==
    [kind : {"created", "deleted", "resized", "renamed"},
     rec : Rec, seq : Seqs, parent : Rec, name : Name, dir : BOOLEAN, size : Sizes]

ASSUME TableAssumption ==
    /\ Seqs \subseteq Nat /\ Sizes \subseteq Nat /\ MaxChanges \in Nat
    /\ \A ix \in Fresh : ix \in IndexType /\ FlagsSound(ix) /\ RecordTableSound(ix)

Init == index \in Fresh /\ turn = 0

\* Index::apply.
ApplyOne ==
    /\ index.n < MaxNodes /\ turn < MaxChanges
    /\ \E c \in Change : index' = Apply(index, c)
    /\ turn' = turn + 1

\* The Rescan arm of handle_client puts a new index in place of the old one.
Replace == index' \in Fresh /\ turn' = 0

Next == ApplyOne \/ Replace

Spec == Init /\ [][Next]_vars

\* Every field has its type after any change: no node id outside the table
\* gets into a parent or a record slot, no total falls below zero, and only
\* nodes are flagged.
TypeOK == index \in IndexType /\ FlagsSound(index) /\ turn \in 0 .. MaxChanges

\* No change, whatever it says, leaves the record table unsound.
TableSound == RecordTableSound(index)

\* A node keeps its identity.  Ids are handed out upwards, a tombstone is never
\* taken back, no node already there changes the record generation or the kind it
\* was made for; and a record is only ever given to another node over a
\* tombstone, so that the node a client holds an id of stays the file's until it
\* is deleted, however the changes come (resolve_record, clear_record, set_record).
IdsStable ==
    [][turn' = turn + 1 =>
         /\ index.n <= index'.n
         /\ index.del \subseteq index'.del
         /\ \A m \in 0 .. index.n - 1 :
              /\ index'.seq[m] = index.seq[m]
              /\ m \in index'.dir <=> m \in index.dir
         /\ \A r \in Rec : index.rec[r] # NoNode /\ index'.rec[r] # index.rec[r]
                                => index.rec[r] \in index'.del]_vars

\* Totals do not drift.  A change that leads from a rooted tree to a rooted tree
\* and moves nothing pruned keeps every total of every shown folder what a
\* recount would give, whichever records it retires on the way and whichever
\* subtree it moves (propagate, detach, attach, tombstone, rename, create).
TotalsKept ==
    [][turn' = turn + 1 /\ Rooted(index) /\ Rooted(index') /\ PrunedStay(index, index')
         /\ Recounted(index) => Recounted(index')]_vars

=============================================================================
