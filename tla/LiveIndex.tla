------------------------------ MODULE LiveIndex ------------------------------
(***************************************************************************)
(* One volume followed live: the MFT scan, the journal reader, the         *)
(* translation of journal records (watcher.rs) and their application to    *)
(* the index (apply_loop in daemon.rs), while programs go on changing the  *)
(* volume.                                                                 *)
(*                                                                         *)
(* The reader and the channel only decide where the journal is cut into    *)
(* batches, so reading and receiving a batch are one step here (module     *)
(* Daemon keeps them apart).  Translation holds the read lock and          *)
(* application the write lock, but neither stops the file system: each     *)
(* metadata read is a step of its own.                                     *)
(***************************************************************************)
EXTENDS Volume

VARIABLES
    scanned,      \* the MFT has been read: the index exists
    index,
    pending,      \* coalesced records of this batch not yet translated
    changes,      \* changes of this batch not yet applied
    unfollowed    \* history: the volume did what following it does not undo

indexVars == <<scanned, index, pending, changes>>
vars == <<volumeVars, indexVars, unfollowed>>

Drained == journal = <<>> /\ pending = <<>> /\ changes = <<>>

(***************************************************************************)
(* translate, first half: fold the records of a batch per MFT record, in   *)
(* the order records first appear.                                         *)
(***************************************************************************)
Blank(r) == [rec |-> r, created |-> FALSE, deleted |-> FALSE, resized |-> FALSE,
             renamed |-> FALSE, seq |-> 0, parent |-> r,
             name |-> mft[RootRec].name, dir |-> FALSE]

\* Bug: the old-name record of a rename counts, the new-name record does not.
AbsorbOldName(p, r) ==
    [p EXCEPT !.seq = r.seq, !.parent = r.parent, !.name = r.name, !.dir = r.dir,
       !.created = @ \/ "create" \in r.reasons,
       !.deleted = (@ /\ "create" \notin r.reasons) \/ "delete" \in r.reasons,
       !.resized = @ \/ "size" \in r.reasons,
       !.renamed = @ \/ r.reasons \cap {"oldName", "newName"} = {"oldName"}]

Absorb(p, r) ==
    [p EXCEPT !.seq = r.seq, !.parent = r.parent, !.name = r.name, !.dir = r.dir,
       !.created = @ \/ "create" \in r.reasons,
       !.deleted = (@ /\ "create" \notin r.reasons) \/ "delete" \in r.reasons,
       !.resized = @ \/ "size" \in r.reasons,
       !.renamed = @ \/ "newName" \in r.reasons]

Coalesce(records) ==
    LET fold(ps, r) ==
          LET i == SelectInSeq(ps, LAMBDA p : p.rec = r.rec)
          IN  IF i = 0 THEN Append(ps, Absorb(Blank(r.rec), r))
              ELSE [ps EXCEPT ![i] = Absorb(@, r)]
    IN  FoldLeft(fold, <<>>, records)

(***************************************************************************)
(* resolve_stat: the path the index gives the parent, extended with the    *)
(* file's name, opened on the volume as it is now.                         *)
(***************************************************************************)
OnVolume(path) ==
    LET under(p, nm) ==
          {q \in Rec \ {RootRec} : mft[q].live /\ mft[q].parent = p /\ mft[q].name = nm}
        down(p, nm) ==
          IF p = NoNode \/ under(p, nm) = {} THEN NoNode
          ELSE CHOOSE q \in under(p, nm) : TRUE
    IN  FoldLeft(down, RootRec, path)

ResolveStat(parent, nm) ==
    LET p == NodeOfRecord(index, parent)
    IN  IF p = NoNode THEN NoNode ELSE OnVolume(Append(PathOf(index, p), nm))

(***************************************************************************)
(* translate, second half: the changes one folded record stands for.       *)
(***************************************************************************)
Translated(p) ==
    LET q    == ResolveStat(p.parent, p.name)
        stat == q # NoNode
        size == IF stat THEN mft[q].size ELSE 0
        isDir == p.dir \/ (stat /\ mft[q].dir)
        Change(kind, dir, sz) ==
          [kind |-> kind, rec |-> p.rec, seq |-> p.seq, parent |-> p.parent,
           name |-> p.name, dir |-> dir, size |-> sz]
    IN  IF p.deleted
        THEN IF p.created THEN <<>> ELSE <<Change("deleted", p.dir, 0)>>
        ELSE IF p.created
        THEN <<Change("created", isDir, size)>>
        ELSE (IF p.renamed THEN <<Change("renamed", p.dir, 0)>> ELSE <<>>)
             \o (IF p.resized /\ ~p.dir /\ stat
                 THEN <<Change("resized", p.dir, size)>> ELSE <<>>)

(***************************************************************************)
(* Steps.                                                                  *)
(***************************************************************************)
Init ==
    /\ VolumeInit
    /\ scanned = FALSE
    /\ index = Built(mft)
    /\ pending = <<>>
    /\ changes = <<>>
    /\ unfollowed = FALSE

\* A folder is moved or removed before the scan, which will see what became of
\* it and be told of all it went through: applied again, a move can put a folder
\* below itself, and a removal takes a folder away from under a file that is
\* back in it for the moment.
FolderLeaves ==
    ~scanned /\ \E r \in Rec :
                  /\ mft[r].live /\ mft[r].dir
                  /\ mft'[r].parent # mft[r].parent \/ ~mft'[r].live

\* A configured path, meant for a folder, is that of a file: pruning it takes no
\* file off the count of its folder.
FilePruned ==
    \E path \in Now.excluded :
        Lookup(Built(mft), path) \notin Built(mft).dir \cup {NoNode}

\* The journal position is taken before the MFT is read, so whatever changes
\* in between is both in the index and in the journal to come.
Scan ==
    /\ ~scanned
    /\ scanned' = TRUE
    /\ index' = ExcludeAll(Built(mft), Now.excluded)
    /\ unfollowed' = (unfollowed \/ FilePruned)
    /\ UNCHANGED <<volumeVars, pending, changes>>

\* Bug: the reader goes on one record behind the end of what it read.
ReadPastEnd ==
    /\ scanned /\ pending = <<>> /\ changes = <<>>
    /\ \E k \in 1 .. Now.batch :
         /\ k <= Len(journal)
         /\ pending' = Coalesce(SubSeq(journal, 1, k))
         /\ journal' = SubSeq(journal, k + 2, Len(journal))
    /\ UNCHANGED <<regime, mft, open, ops, scanned, index, changes, unfollowed>>

ReadBatch ==
    /\ scanned /\ pending = <<>> /\ changes = <<>>
    /\ \E k \in 1 .. Now.batch :
         /\ k <= Len(journal)
         /\ pending' = Coalesce(SubSeq(journal, 1, k))
         /\ journal' = SubSeq(journal, k + 1, Len(journal))
    /\ UNCHANGED <<regime, mft, open, ops, scanned, index, changes, unfollowed>>

Translate ==
    /\ pending # <<>>
    /\ changes' = changes \o Translated(Head(pending))
    /\ pending' = Tail(pending)
    /\ UNCHANGED <<volumeVars, scanned, index, unfollowed>>

\* One turn of apply_loop's inner loop.  The write lock is held from the first
\* change of a batch to the last; the volume does not wait for it.  The table of
\* nodes is bounded by MaxNodes.
ApplyChange ==
    /\ pending = <<>> /\ changes # <<>> /\ index.n < MaxNodes
    /\ index' = Apply(index, Head(changes))
    /\ changes' = Tail(changes)
    /\ UNCHANGED <<volumeVars, scanned, pending, unfollowed>>

\* Programs change the volume whatever the daemon is doing; the lag bounds how
\* far ahead of it they get.
Near == Len(journal) + Len(pending) + Len(changes) <= Now.lag

ChangeVolume ==
    /\ Near
    /\ VolumeNext
    /\ unfollowed' = (unfollowed \/ FolderLeaves)
    /\ UNCHANGED indexVars

Next == Scan \/ ReadBatch \/ Translate \/ ApplyChange \/ ChangeVolume

Follow == Scan \/ ReadBatch \/ Translate \/ ApplyChange

CloseFile == Near /\ (\E r \in Rec : Close(r)) /\ UNCHANGED <<indexVars, unfollowed>>

Spec == Init /\ [][Next]_vars

\* The daemon's threads keep running, and a program that opened a file closes
\* it in the end.  The first conjunct is WF_vars(Follow) with ENABLED written
\* out: something is left to do until the volume is scanned and drained.
FairSpec ==
    /\ Spec
    /\ []<>(scanned /\ Drained) \/ []<><<Follow>>_vars
    /\ WF_vars(CloseFile)

(***************************************************************************)
(* Properties.                                                             *)
(***************************************************************************)
\* A rename keeps the mark a file has, so where something is pruned nothing is
\* to move; and a configured path is to name a folder.
PrunedApart ==
    ~unfollowed /\ (Now.excluded = {} \/ Now.ops \cap {"rename", "renameOpen"} = {})

\* The daemon can follow step by step: no file is renamed or removed while it is
\* open, whose reasons then accumulate, and either the daemon keeps up, or it
\* reads record by record of files whose MFT records are not used again.
\* Otherwise a batch is applied in another order than its records were written
\* in, and the deletion of a file takes the next file of its record off the
\* tree, which the scan saw, until its creation is read as well.
StepByStep ==
    /\ PrunedApart
    /\ Now.ops \cap {"renameOpen", "deleteOpen"} = {}
    /\ Now.lag = 0 \/ (Now.maxSeq = 1 /\ Now.batch = 1)

\* The record table names a node at most once, and a node that is still live is
\* always the one its record answers with (node_of_record), so that no later
\* journal record can miss it (set_record, clear_record, resolve_record); and
\* the tree is rooted wherever the daemon can follow step by step.
TreeSound == RecordTableSound(index) /\ (StepByStep => Rooted(index))

\* Folder totals are what a recount would give, pruned subtrees aside.  This is
\* what propagate is for: "a write anywhere costs O(depth)" instead of a walk.
TotalsExact == StepByStep => Recounted(index)

\* The index shows a record's file under its name in its folder, or shows
\* that there is none.
ShowsPlace(r) ==
    LET m == index.rec[r]
    IN  IF ~mft[r].live THEN m \in index.del \cup {NoNode}
        ELSE /\ m \in Live(index)
             /\ index.seq[m] = mft[r].seq
             /\ index.name[m] = mft[r].name
             /\ index.parent[m] = index.rec[mft[r].parent]

ShowsSize(r) ==
    mft[r].live /\ ~mft[r].dir => index.size[index.rec[r]] = mft[r].size

\* Everything written to the journal has been applied, every file was closed.
AtRest == scanned /\ Drained /\ Settled

\* A rename is told by the place the file had when it was closed: where files
\* are renamed while open, the last of several places can be missed, and a file
\* created and removed while open can stay.  In a batch of several records the
\* order between files is lost, unless all are told of one step.  And what
\* happens in a pruned folder is not followed.
PlacesFollowed ==
    /\ Now.ops \cap {"renameOpen", "deleteOpen"} = {}
    /\ Now.excluded = {}
    /\ Now.lag = 0 \/ Now.batch = 1

\* An index at rest shows the volume, however the scan, the reader, the
\* translation and the programs took turns: the same records under the same
\* names in the same folders and, if the daemon keeps up (nothing moves between
\* a change and the look at its file), the same sizes.
Mirror ==
    AtRest /\ PlacesFollowed =>
        \A r \in Rec : ShowsPlace(r) /\ (Now.lag = 0 => ShowsSize(r))

\* No file outlives its removal: at rest the index has no live node for a
\* record that is free.
NoGhosts ==
    AtRest => \A r \in Rec : ~mft[r].live => index.rec[r] \in index.del \cup {NoNode}

\* A file is hidden exactly when its folder is: pruning takes a subtree, and what is
\* created in it afterwards is kept out, resizes and deletions leave the marks alone.
PrunedTogether ==
    PrunedApart => \A f \in Live(index) \ index.dir :
        f \in index.excl <=> index.parent[f] \in index.excl

\* A volume that comes to rest is shown in the end, not only when it happens
\* to be at rest: no record stays unread in the journal or untranslated.
CatchesUp ==
    PlacesFollowed => <>[](scanned /\ Drained /\ \A r \in Rec : ShowsPlace(r))

=============================================================================
