------------------------------- MODULE Volume -------------------------------
(***************************************************************************)
(* The NTFS volume and its change journal: the environment the index       *)
(* follows.  None of this is the program's code; it is modelled from what  *)
(* batuta-ntfs/src/usn.rs and the watcher rely on:                         *)
(*   - a file record has a sequence number, bumped each time it is reused; *)
(*   - a directory is empty before it can be removed;                      *)
(*   - reasons accumulate on a file while it is open: a record is written  *)
(*     when a new reason appears and once more, with CLOSE, at the last    *)
(*     close, and then the reasons start afresh;                           *)
(*   - a rename writes an old-name and a new-name record;                  *)
(*   - the journal never says how large a file became.                     *)
(***************************************************************************)
EXTENDS IndexBuild

\* What the volume may go through.  A regime is a record:
\*   volumes    the volumes it may start from
\*   ops        the operations programs perform on it
\*   maxOps     bound: how many of them
\*   maxSeq     bound: times a record is used
\*   bytes      file sizes a write can leave
\*   lag        bound: journal records the volume may be ahead of the daemon
\*   batch      bound: journal records in one batch
\*   excluded   configured paths, pruned when the index is built
CONSTANT Regimes    \* the regimes a run goes through, by name

FileRecord ==
    [live : BOOLEAN, seq : Nat, parent : Rec, name : Name, dir : BOOLEAN, size : Nat]

\* p and the directories above it, as many steps up as n.
UpFrom(vol, p, n) ==
    LET up[k \in 0 .. n] == IF k = 0 THEN p ELSE vol[up[k - 1]].parent
    IN  {up[k] : k \in 0 .. n}

\* All of them, up to the root.
Above(vol, p) == UpFrom(vol, p, Cardinality(Rec))

\* What a volume is when it is mounted: sequence numbers of records in use count
\* from one, every file is in a folder, all folders are below the root, and no two
\* files of a folder have the same name.
Mountable(vol) ==
    /\ vol \in [Rec -> FileRecord]
    /\ \A r \in Rec : vol[r].live => vol[r].seq > 0
    /\ vol[RootRec].live /\ vol[RootRec].dir /\ vol[RootRec].parent = RootRec
    /\ \A r \in Rec \ {RootRec} : vol[r].live =>
         LET p == vol[r].parent
         IN  /\ vol[p].live /\ vol[p].dir /\ RootRec \in Above(vol, r)
             /\ \A q \in Rec \ {RootRec, r} :
                  vol[q].live /\ vol[q].parent = p => vol[q].name # vol[r].name

ASSUME VolumeAssumption ==
    /\ IsFiniteSet(Rec) /\ Cardinality(Rec) <= MaxNodes
    /\ \A n \in DOMAIN Regimes :
         /\ \A vol \in Regimes[n].volumes : Mountable(vol)
         /\ Regimes[n].bytes \subseteq Nat
         /\ IsFiniteSet(Regimes[n].excluded)
         /\ \A path \in Regimes[n].excluded : path \in Seq(Name)

VARIABLES
    regime,       \* the regime of this behaviour
    mft,          \* the file records
    open,         \* reasons accumulated on each open file, {} when closed
    journal,      \* journal records not read yet
    ops           \* operations so far

volumeVars == <<regime, mft, open, journal, ops>>

Now == Regimes[regime]

Reason == {"create", "delete", "size", "oldName", "newName"}

UsnRecord ==
    [rec : Rec, seq : Nat, parent : Rec, name : Name, dir : BOOLEAN,
     reasons : SUBSET Reason]

Record(r, as, reasons) ==
    [rec |-> r, seq |-> as.seq, parent |-> as.parent, name |-> as.name,
     dir |-> as.dir, reasons |-> reasons]

VolumeInit ==
    /\ regime \in DOMAIN Regimes
    /\ mft \in Now.volumes
    /\ open = [r \in Rec |-> {}]
    /\ journal = <<>>
    /\ ops = 0

Step(op) ==
    /\ op \in Now.ops /\ ops < Now.maxOps
    /\ ops' = ops + 1
    /\ UNCHANGED regime

LiveDir(p) == mft[p].live /\ mft[p].dir

FreeName(p, nm) == \A r \in Rec \ {RootRec} :
                     mft[r].live /\ mft[r].parent = p => mft[r].name # nm

Create(r, p, nm, isDir) ==
    /\ Step("create")
    /\ ~mft[r].live /\ mft[r].seq < Now.maxSeq
    /\ LiveDir(p) /\ FreeName(p, nm)
    /\ mft' = [mft EXCEPT ![r] =
                 [live |-> TRUE, seq |-> mft[r].seq + 1, parent |-> p,
                  name |-> nm, dir |-> isDir, size |-> 0]]
    /\ open' = [open EXCEPT ![r] = {"create"}]
    /\ journal' = Append(journal, Record(r, mft'[r], {"create"}))

\* A second write through the same open file adds no reason: no record.
Write(r, sz) ==
    /\ Step("write")
    /\ mft[r].live /\ ~mft[r].dir /\ mft[r].size # sz
    /\ mft' = [mft EXCEPT ![r].size = sz]
    /\ open' = [open EXCEPT ![r] = @ \cup {"size"}]
    /\ journal' = IF "size" \in open[r] THEN journal
                  ELSE Append(journal, Record(r, mft[r], open'[r]))

\* A file is renamed through a handle of its own, or while its creator still
\* holds it open ("renameOpen"): then the reasons of both accumulate.
Rename(r, p, nm) ==
    /\ IF open[r] = {} THEN Step("rename") ELSE Step("renameOpen")
    /\ r # RootRec /\ mft[r].live
    /\ LiveDir(p) /\ r \notin Above(mft, p) /\ FreeName(p, nm)
    /\ mft' = [mft EXCEPT ![r].parent = p, ![r].name = nm]
    /\ open' = [open EXCEPT ![r] = @ \cup {"newName"}]
    /\ journal' = journal \o << Record(r, mft[r],  open[r] \cup {"oldName"}),
                                Record(r, mft'[r], open'[r]) >>

Close(r) ==
    /\ open[r] # {}
    /\ open' = [open EXCEPT ![r] = {}]
    /\ journal' = Append(journal, Record(r, mft[r], open[r]))
    /\ UNCHANGED <<regime, mft, ops>>

\* The last close of a file marked for deletion ("deleteOpen": one that was
\* opened to be deleted when closed).
Delete(r) ==
    /\ IF open[r] = {} THEN Step("delete") ELSE Step("deleteOpen")
    /\ r # RootRec /\ mft[r].live
    /\ \A q \in Rec \ {r} : mft[q].live => mft[q].parent # r
    /\ mft' = [mft EXCEPT ![r].live = FALSE, ![r].size = 0]
    /\ open' = [open EXCEPT ![r] = {}]
    /\ journal' = Append(journal, Record(r, mft[r], open[r] \cup {"delete"}))

VolumeNext ==
    \/ \E r \in Rec : Delete(r) \/ Close(r)
    \/ \E r \in Rec, sz \in Now.bytes : Write(r, sz)
    \/ \E r, p \in Rec, nm \in Name :
         \/ Rename(r, p, nm)
         \/ \E isDir \in BOOLEAN : Create(r, p, nm, isDir)

\* Nothing is open: every file has had its closing record written.
Settled == \A r \in Rec : open[r] = {}

=============================================================================
