---------------------------- MODULE MCLiveIndex ----------------------------
(***************************************************************************)
(* Small volumes for LiveIndex.                                            *)
(***************************************************************************)
EXTENDS LiveIndex

Entry(seq, p, nm, dir, sz) ==
    [live |-> TRUE, seq |-> seq, parent |-> p, name |-> nm, dir |-> dir, size |-> sz]

Unused(nm) ==
    [live |-> FALSE, seq |-> 0, parent |-> 0, name |-> nm, dir |-> FALSE, size |-> 0]

\* A record no file is ever made in.
Never(nm) == [Unused(nm) EXCEPT !.seq = 9]

\* The root, a folder "a" holding a file "b", and two records.
SmallVolume(r3, r4) ==
    (0 :> Entry(1, 0, "a", TRUE, 0)) @@
    (1 :> Entry(1, 0, "a", TRUE, 0)) @@
    (2 :> Entry(1, 1, "b", FALSE, 3)) @@
    (3 :> r3) @@ (4 :> r4)

Small == {SmallVolume(Unused("a"), Never("a"))}

\* The folder with two files in it, and a free record.
Full == {SmallVolume(Entry(1, 1, "a", FALSE, 3), Unused("a"))}

\* The daemon keeps up with the volume; records are used again.
Quiet ==
    [volumes |-> Small, ops |-> {"create", "write", "rename", "delete"},
     maxOps |-> 4, maxSeq |-> 2, bytes |-> {0, 3, 6}, lag |-> 0, batch |-> 2,
     excluded |-> {}]

\* The volume runs ahead, before and after the scan.
Ahead == [Quiet EXCEPT !.maxOps = 3, !.maxSeq = 1, !.bytes = {0, 3}, !.lag = 4, !.batch = 1]

\* Batches of several records; files renamed and deleted while open.
Batches ==
    [Quiet EXCEPT !.ops = (@ \ {"write"}) \cup {"renameOpen", "deleteOpen"},
       !.maxOps = 3, !.lag = 4, !.batch = 3]

\* A folder is pruned by configuration.
Pruned ==
    [Ahead EXCEPT !.volumes = Full, !.ops = {"create", "write", "delete"},
       !.excluded = {<<"a">>}]

MCRegimes == [quiet |-> Quiet, ahead |-> Ahead, batches |-> Batches, pruned |-> Pruned]

\* A file is created and removed while records are read in batches.
GhostRegimes ==
    [ghost |-> [Quiet EXCEPT !.ops = {"create", "delete"}, !.maxOps = 3, !.lag = 9, !.batch = 3]]

=============================================================================
