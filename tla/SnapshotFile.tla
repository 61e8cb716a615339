---------------------------- MODULE SnapshotFile ----------------------------
(***************************************************************************)
(* The snapshot as a file (snapshot.rs): several threads of the daemon     *)
(* save to it through the same temporary file, it is read at a start, and  *)
(* the configured exclusions are applied to what was read (scan.rs).  The  *)
(* index is its names (an arena, offsets in node order, and the names that *)
(* replaced those) and the set of nodes that are pruned.                   *)
(***************************************************************************)
EXTENDS Integers, Sequences, SequencesExt, FiniteSets

CONSTANTS
    Scanned,     \* the index a scan of the volume delivers
    Configured,  \* nodes under the paths the configuration may exclude
    Savers,      \* threads that save: "checkpoint", "rescan", "final"
    MaxChanges,  \* changes applied to the index, and edits of the configuration
    MaxRuns,     \* times the daemon is started
    MaxSaves,    \* saves over all runs
    NewNames     \* names a node is given

\* What a scan delivers: every name in the arena, in node order; nothing renamed
\* or pruned yet.
ASSUME SnapshotAssumption ==
    /\ Scanned.off \in Seq(Nat) /\ Scanned.len \in Seq(Nat) /\ Scanned.arena \in Seq(STRING)
    /\ Len(Scanned.off) > 0 /\ Len(Scanned.len) = Len(Scanned.off)
    /\ \A n \in DOMAIN Scanned.off : Scanned.off[n] + Scanned.len[n] <= Len(Scanned.arena)
    /\ \A n \in DOMAIN Scanned.off : n > 1 => Scanned.off[n - 1] <= Scanned.off[n]
    /\ Scanned = [off |-> Scanned.off, len |-> Scanned.len, arena |-> Scanned.arena,
                  overridden |-> {}, over |-> <<>>, pruned |-> {}]
    /\ NewNames \subseteq Seq(STRING)

VARIABLES
    mem,     \* the daemon: whether it runs, its index, the changes counted
    excl,    \* whether the configuration excludes those nodes
    saver,   \* what each thread is doing
    disk,    \* the two names in the directory, and the files
    seen     \* history: indexes handed to a save; the last one read; overlap

snapVars == <<mem, excl, saver, disk, seen>>

(***************************************************************************)
(* The index, as far as a snapshot holds it.                               *)
(***************************************************************************)
Nodes(x) == DOMAIN x.off
OldName(x, n) == SubSeq(x.arena, x.off[n] + 1, x.off[n] + x.len[n])
NameOf(x, n) == IF n \in x.overridden /\ n \in DOMAIN x.over THEN x.over[n] ELSE OldName(x, n)
Rename(x, n, name) == [x EXCEPT !.overridden = @ \cup {n},
                                !.over = [m \in DOMAIN @ \cup {n} |-> IF m = n THEN name ELSE @[m]]]
AddNode(x, name) == [x EXCEPT !.off = Append(@, Len(x.arena)), !.len = Append(@, Len(name)), !.arena = @ \o name]
Prune(x) == [x EXCEPT !.pruned = IF excl THEN @ \cup (Configured \cap Nodes(x)) ELSE @]

\* Names as they are now, back to back in node order, and no node overridden any
\* more; the arena as it is when nothing was renamed.
CompactNames(x) ==
    LET Put(c, n) == [off |-> Append(c.off, Len(c.arena)), len |-> Append(c.len, Len(NameOf(x, n))), arena |-> c.arena \o NameOf(x, n)]
        c == FoldLeft(Put, [off |-> <<>>, len |-> <<>>, arena |-> <<>>], [n \in Nodes(x) |-> n])
    IN  IF x.over = <<>> THEN [off |-> x.off, len |-> x.len, arena |-> x.arena, overridden |-> x.overridden]
        ELSE [off |-> c.off, len |-> c.len, arena |-> c.arena, overridden |-> {}]

\* The two parts of the payload, in the order they are written.
Payload(x) == LET c == CompactNames(x)
              IN  << <<[off |-> c.off, len |-> c.len, overridden |-> c.overridden, pruned |-> x.pruned]>>, <<c.arena>> >>

(***************************************************************************)
(* save: the temporary file is made anew, a blank header and the payload   *)
(* are written, then the header with the checksum; the file is flushed and *)
(* takes the snapshot's name.  A file keeps its writers when it is renamed.*)
(***************************************************************************)
Blank == <<>>
File(f) == disk.files[f]
NoFile == 0
NewFile == Len(disk.files) + 1
Idle == [pc |-> "idle", file |-> NoFile, payload |-> <<>>]

StartSave(s, x) ==
    /\ saver[s].pc = "idle" /\ seen.saves < MaxSaves
    /\ saver' = [saver EXCEPT ![s] = [pc |-> "create", file |-> NoFile, payload |-> Payload(x)]]
    /\ seen' = [seen EXCEPT !.saves = @ + 1,
                            !.saved = @ \cup {[names |-> [n \in Nodes(x) |-> NameOf(x, n)], pruned |-> x.pruned]},
                            !.overlap = @ \/ \E o \in Savers : saver[o].pc # "idle"]
Create(s) ==
    /\ saver[s].pc = "create"
    /\ LET f == IF disk.tmp = NoFile THEN NewFile ELSE disk.tmp
       IN  /\ disk' = [disk EXCEPT !.tmp = f,
                          !.files = [i \in 1..(IF f > Len(@) THEN f ELSE Len(@)) |-> IF i = f THEN [header |-> Blank, body |-> <<>>] ELSE @[i]]]
           /\ saver' = [saver EXCEPT ![s].file = f, ![s].pc = "body"]
    /\ UNCHANGED <<mem, excl, seen>>
\* The next part, at the writer's own place in the file.
WriteBody(s, k) ==
    /\ saver[s].pc = IF k = 1 THEN "body" ELSE "names"
    /\ disk' = [disk EXCEPT !.files[saver[s].file].body =
                   [i \in 1..(IF Len(@) < k THEN k ELSE Len(@)) |->
                       IF i = k THEN saver[s].payload[k] ELSE IF i \in DOMAIN @ THEN @[i] ELSE Blank]]
    /\ saver' = [saver EXCEPT ![s].pc = IF k = 1 THEN "names" ELSE "seal"]
    /\ UNCHANGED <<mem, excl, seen>>
Seal(s) ==
    /\ saver[s].pc = "seal"
    /\ disk' = [disk EXCEPT !.files[saver[s].file].header = saver[s].payload]
    /\ saver' = [saver EXCEPT ![s].pc = "rename"] /\ UNCHANGED <<mem, excl, seen>>
\* Bug: the file takes its name before the header is written.
RenameFirst(s) ==
    /\ saver[s].pc = "names"
    /\ disk' = IF disk.tmp = NoFile THEN disk ELSE [disk EXCEPT !.bin = disk.tmp, !.tmp = NoFile]
    /\ saver' = [saver EXCEPT ![s] = Idle]
    /\ UNCHANGED <<mem, excl, seen>>

\* Whichever file has the temporary name becomes the snapshot.
RenameFile(s) ==
    /\ saver[s].pc = "rename"
    /\ disk' = IF disk.tmp = NoFile THEN disk ELSE [disk EXCEPT !.bin = disk.tmp, !.tmp = NoFile]
    /\ saver' = [saver EXCEPT ![s] = Idle]
    /\ UNCHANGED <<mem, excl, seen>>
\* Any step may fail; what was written so far stays where it is.
SaveFails(s) ==
    /\ saver[s].pc # "idle"
    /\ saver' = [saver EXCEPT ![s] = Idle] /\ UNCHANGED <<mem, excl, disk, seen>>

(***************************************************************************)
(* load and validate.                                                      *)
(***************************************************************************)
FromPayload(p) ==
    LET part == p[1][1]
    IN  [off |-> part.off, len |-> part.len, arena |-> p[2][1], overridden |-> part.overridden, over |-> <<>>, pruned |-> part.pruned]
Valid(x) ==
    /\ Len(x.off) > 0 /\ Len(x.len) = Len(x.off)
    /\ \A n \in Nodes(x) : x.off[n] + x.len[n] <= Len(x.arena)
    /\ \A n \in Nodes(x) : n > 1 => x.off[n - 1] <= x.off[n]

\* A header with the magic, as many bytes as it promises, the payload the
\* checksum was taken of, and fields within their bounds; or nothing.
Load(f) ==
    IF f.header = Blank \/ Len(f.body) < 2 THEN <<>>
    ELSE IF f.body # f.header THEN <<>>
    ELSE IF Valid(FromPayload(f.body)) THEN <<FromPayload(f.body)>> ELSE <<>>

(***************************************************************************)
(* The daemon around it.                                                   *)
(***************************************************************************)
Stored == IF disk.bin = NoFile THEN <<>> ELSE Load(File(disk.bin))
\* The snapshot if it can be read, otherwise a scan, which saves first; then the
\* configured exclusions.
StartLoaded ==
    /\ ~mem.up /\ mem.runs < MaxRuns
    /\ Stored # <<>>
    /\ LET x == Stored[1]
       IN  /\ mem' = [mem EXCEPT !.up = TRUE, !.runs = @ + 1, !.index = Prune(x), !.counted = FALSE, !.busy = "no"]
           /\ seen' = [seen EXCEPT !.loaded = {x}]
    /\ UNCHANGED <<excl, saver, disk>>
StartScanned ==
    /\ ~mem.up /\ mem.runs < MaxRuns
    /\ Stored = <<>>
    /\ mem' = [mem EXCEPT !.up = TRUE, !.runs = @ + 1, !.index = Prune(Scanned), !.counted = FALSE,
                          !.busy = IF "rescan" \in Savers /\ seen.saves < MaxSaves THEN "start" ELSE "no"]
    /\ IF "rescan" \in Savers /\ seen.saves < MaxSaves THEN StartSave("rescan", Scanned) ELSE UNCHANGED <<saver, seen>>
    /\ UNCHANGED <<excl, disk>>
IsServing == mem.up /\ mem.busy # "start"
Apply ==
    /\ IsServing /\ mem.changes < MaxChanges
    /\ \E name \in NewNames :
         LET x == mem.index
         IN  \E y \in {Rename(x, n, name) : n \in Nodes(x)} \cup {AddNode(x, name)} :
               mem' = [mem EXCEPT !.index = y, !.counted = TRUE, !.changes = @ + 1]
    /\ UNCHANGED <<excl, saver, disk, seen>>
Checkpoint == /\ IsServing /\ mem.counted /\ "checkpoint" \in Savers
              /\ StartSave("checkpoint", mem.index) /\ UNCHANGED <<mem, excl, disk>>
\* A client's Rescan reads the volume and saves, and then its index is put in
\* place; the daemon serves and checkpoints the old one meanwhile.
Rescan == /\ IsServing /\ mem.busy = "no" /\ "rescan" \in Savers
          /\ StartSave("rescan", Scanned)
          /\ mem' = [mem EXCEPT !.busy = "rescan"] /\ UNCHANGED <<excl, disk>>
ScanSaved == /\ mem.up /\ mem.busy # "no" /\ saver["rescan"].pc = "idle"
             /\ mem' = [mem EXCEPT !.busy = "no", !.index = IF mem.busy = "rescan" THEN Prune(Scanned) ELSE @]
             /\ UNCHANGED <<excl, saver, disk, seen>>
\* The last save of a stop, beside a checkpoint that may be under way.
FinalSave == /\ IsServing /\ ~mem.stopping /\ "final" \in Savers
             /\ StartSave("final", mem.index)
             /\ mem' = [mem EXCEPT !.stopping = TRUE] /\ UNCHANGED <<excl, disk>>
\* The process ends: behind its last save, or anywhere.
End == /\ mem.up
       /\ mem' = [mem EXCEPT !.up = FALSE, !.stopping = FALSE]
       /\ saver' = [s \in Savers |-> Idle] /\ UNCHANGED <<excl, disk, seen>>
EditConfig == /\ ~mem.up /\ mem.edits < MaxChanges
              /\ excl' = ~excl /\ mem' = [mem EXCEPT !.edits = @ + 1] /\ UNCHANGED <<saver, disk, seen>>

SnapInit ==
    /\ mem = [up |-> FALSE, stopping |-> FALSE, runs |-> 0, index |-> Scanned, counted |-> FALSE, busy |-> "no", changes |-> 0, edits |-> 0]
    /\ excl \in BOOLEAN
    /\ saver = [s \in Savers |-> Idle]
    /\ disk = [bin |-> NoFile, tmp |-> NoFile, files |-> <<>>]
    /\ seen = [saves |-> 0, saved |-> {}, loaded |-> {}, overlap |-> FALSE]
SnapNext ==
    \/ StartLoaded \/ StartScanned \/ Apply \/ Checkpoint \/ Rescan \/ ScanSaved \/ FinalSave \/ End \/ EditConfig
    \/ \E s \in Savers : Create(s) \/ WriteBody(s, 1) \/ WriteBody(s, 2) \/ Seal(s) \/ RenameFile(s) \/ SaveFails(s)

(***************************************************************************)
(* Properties.                                                             *)
(***************************************************************************)
\* Whatever writers and crashes did to the file, an index that is read from it
\* is one that was saved: every node has the name it had then, no name is
\* marked as replaced without its replacement, and the same nodes are pruned.
LoadedWasSaved ==
    \A x \in seen.loaded :
        /\ x.overridden = {}
        /\ \E s \in seen.saved : s.pruned = x.pruned /\ s.names = [n \in Nodes(x) |-> NameOf(x, n)]

\* As long as no two saves met, the snapshot is a whole one at every moment, so
\* that a crash anywhere in a save costs nothing that was saved before.
WholeWhenAlone == ~seen.overlap /\ disk.bin # NoFile => Stored # <<>>

\* snapshot.rs: whatever savers, crashes and edits met, what is loaded is an
\* index that was saved, and a save that met no other costs nothing saved before.
SnapshotWhole == LoadedWasSaved /\ WholeWhenAlone

\* Not kept: a save is atomic (snapshot.rs), so that no "half-written snapshot" is left
\* "behind if the process died mid-write".
AlwaysWhole == disk.bin # NoFile => Stored # <<>>

\* Not kept (snapshot.rs): snapshots hold the index "**before** configured exclusions are
\* applied", so that changing them "costs a re-prune rather than a rescan".
SavedUnpruned == \A s \in seen.saved : s.pruned = {}
PrunedAsConfigured == [][(~mem.up /\ mem'.up) => mem'.index.pruned = IF excl THEN Configured ELSE {}]_snapVars
=============================================================================
