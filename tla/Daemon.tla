------------------------------- MODULE Daemon -------------------------------
(***************************************************************************)
(* The resident daemon: a reader thread per volume, the channel, the       *)
(* applier, the checkpointer, a client's Rescan, and the restarts between  *)
(* which only the snapshot survives (daemon.rs, scan.rs, and the reader of *)
(* usn.rs).                                                                *)
(*                                                                         *)
(* What an index holds is abstracted to the set of volume changes it       *)
(* reflects, numbered 1, 2, ... per volume in the order they were made;    *)
(* modules LiveIndex and IndexTable say how a change gets into the tree.   *)
(* A USN position p of a journal created after `base` changes stands for   *)
(* the changes base + 1 .. base + p.                                       *)
(***************************************************************************)
EXTENDS Integers, Sequences, FiniteSets

CONSTANTS
    Vol,          \* the configured drives
    MaxRescans,   \* bound: Rescan requests
    Weathers      \* what a run goes through, by name: which of the faults
                  \* "crash", "wrap", "noJournal", "newJournal", "readError" and
                  \* "rescan" may happen, and bounds: starts of the daemon,
                  \* and changes made to a volume

ASSUME DaemonAssumption ==
    /\ MaxRescans \in Nat
    /\ \A w \in DOMAIN Weathers : Weathers[w].starts \in Nat /\ Weathers[w].changes \in Nat \ {0}

VARIABLES
    weather,      \* the one of Weathers this behaviour goes through
    made,         \* changes made to each volume so far
    journal,      \* each volume's change journal
    disk,         \* index.bin
    phase,        \* the main thread: "down", "scanning", "opening" or "up"
    index,        \* shared.index
    reader,       \* the JournalReader of each usn-X: thread
    chan,         \* the mpsc channel from the readers to the applier
    batch,        \* the message the applier is translating, as a sequence
    watching,     \* shared.watching
    desynced,     \* shared.desynced
    dirty,        \* shared.changes > 0
    scan,         \* progress of scan_volumes, when it runs
    starts,       \* times the daemon was started
    rescans       \* Rescan requests served

environment == <<weather, made, journal>>
flagVars    == <<watching, desynced, dirty>>
pipeline    == <<reader, chan, batch>>
counters    == <<starts, rescans>>
vars == <<weather, made, journal, disk, phase, index, reader, chan, batch, watching,
          desynced, dirty, scan, starts, rescans>>

Faults    == Weathers[weather].faults
MaxStarts == Weathers[weather].starts
MaxMade   == Weathers[weather].changes

-----------------------------------------------------------------------------
\* An index: the changes it reflects and VolumeInfo.next_usn, per volume.
Blank     == [seen |-> [v \in Vol |-> {}], next |-> [v \in Vol |-> 0]]
NoFile    == <<>>
HasFile   == disk # NoFile
OnDisk    == Head(disk)

Active(v) == journal[v].id # 0

\* JournalInfo.next_usn
Top(v) == made[v] - journal[v].base
\* The changes before a position.
Upto(v, usn) == 1 .. journal[v].base + usn

\* JournalInfo::can_resume_from
CanResumeFrom(v, usn) == usn >= journal[v].first /\ usn <= Top(v)

Off == [on |-> FALSE, id |-> 0, next |-> 0]
AllOff == [v \in Vol |-> Off]

NoScan == [stage |-> [v \in Vol |-> "none"], seen |-> Blank.seen, next |-> Blank.next]
NewScan == [NoScan EXCEPT !.stage = [v \in Vol |-> "todo"]]
Scanning == scan.stage # NoScan.stage
ScanDone == \A v \in Vol : scan.stage[v] = "read"
ScanSaved == \A v \in Vol : scan.stage[v] = "saved"
\* Bug: the position is taken when the scan is over.
ResultTakenLate ==
    [seen |-> scan.seen, next |-> [v \in Vol |-> IF Active(v) THEN Top(v) ELSE 0]]

Result == [seen |-> scan.seen, next |-> scan.next]

Init ==
    /\ weather \in DOMAIN Weathers
    /\ made = [v \in Vol |-> 1]
    /\ journal \in [Vol -> {[id |-> 1, base |-> 0, first |-> 0]}
                      \cup (IF "noJournal" \in Faults
                            THEN {[id |-> 0, base |-> 1, first |-> 0]} ELSE {})]
    /\ disk = NoFile
    /\ phase = "down"
    /\ index = Blank
    /\ reader = AllOff /\ chan = <<>> /\ batch = <<>>
    /\ watching = FALSE /\ desynced = FALSE /\ dirty = FALSE
    /\ scan = NoScan
    /\ starts = 0 /\ rescans = 0

-----------------------------------------------------------------------------
(***************************************************************************)
(* The volumes: programs change them, NTFS trims the journal's oldest      *)
(* records, and an administrator can create or recreate it.                *)
(***************************************************************************)
MakeChange(v) ==
    /\ made[v] < MaxMade
    /\ made' = [made EXCEPT ![v] = @ + 1]
    /\ journal' = IF Active(v) THEN journal
                  ELSE [journal EXCEPT ![v].base = @ + 1]
    /\ UNCHANGED <<weather, disk, phase, index, pipeline, flagVars, scan, counters>>

Trim(v) ==
    /\ "wrap" \in Faults
    /\ Active(v) /\ journal[v].first < Top(v)
    /\ journal' = [journal EXCEPT ![v].first = @ + 1]
    /\ UNCHANGED <<weather, made, disk, phase, index, pipeline, flagVars, scan, counters>>

CreateJournal(v) ==
    /\ IF Active(v) THEN "newJournal" \in Faults ELSE "noJournal" \in Faults
    /\ journal[v].id < 2
    /\ journal' = [journal EXCEPT ![v] =
                     [id |-> @.id + 1, base |-> made[v], first |-> 0]]
    /\ UNCHANGED <<weather, made, disk, phase, index, pipeline, flagVars, scan, counters>>

-----------------------------------------------------------------------------
(***************************************************************************)
(* Starting: load_index, then one reader per volume.                       *)
(***************************************************************************)
LoadSnapshot ==
    /\ phase = "down" /\ starts < MaxStarts /\ HasFile
    /\ phase' = "opening" /\ starts' = starts + 1
    /\ index' = OnDisk
    /\ UNCHANGED <<environment, disk, pipeline, flagVars, scan, rescans>>

ScanAtStart ==
    /\ phase = "down" /\ starts < MaxStarts /\ ~HasFile
    /\ phase' = "scanning" /\ starts' = starts + 1
    /\ scan' = NewScan
    /\ UNCHANGED <<environment, disk, index, pipeline, flagVars, rescans>>

\* scan_volumes takes a volume's position first and reads its MFT second, one
\* volume after the other.
TakePosition(v) ==
    /\ scan.stage[v] = "todo"
    /\ \A w \in Vol : scan.stage[w] # "positioned"
    /\ scan' = [scan EXCEPT !.stage[v] = "positioned",
                            !.next[v] = IF Active(v) THEN Top(v) ELSE 0]
    /\ UNCHANGED <<environment, disk, phase, index, pipeline, flagVars, counters>>

ReadMft(v) ==
    /\ scan.stage[v] = "positioned"
    /\ scan' = [scan EXCEPT !.stage[v] = "read", !.seen[v] = 1 .. made[v]]
    /\ UNCHANGED <<environment, disk, phase, index, pipeline, flagVars, counters>>

\* The scan writes its snapshot itself, before anyone serves the result.
SaveScan ==
    /\ ScanDone
    /\ disk' = <<Result>>
    /\ scan' = [scan EXCEPT !.stage = [v \in Vol |-> "saved"]]
    /\ UNCHANGED <<environment, phase, index, pipeline, flagVars, counters>>

ServeScan ==
    /\ phase = "scanning" /\ ScanSaved
    /\ phase' = "opening"
    /\ index' = Result
    /\ scan' = NoScan
    /\ UNCHANGED <<environment, disk, pipeline, flagVars, counters>>

\* JournalReader::open: a position the journal cannot resume from, or none at
\* all, becomes the journal's end; only the first of the two is a gap.
Stale(v) == index.next[v] > 0 /\ ~CanResumeFrom(v, index.next[v])

\* Bug: a reader always starts at the journal's end.
OpenedAtEnd(v) ==
    IF ~Active(v) THEN Off ELSE [on |-> TRUE, id |-> journal[v].id, next |-> Top(v)]

Opened(v) ==
    IF ~Active(v) THEN Off
    ELSE [on |-> TRUE, id |-> journal[v].id,
          next |-> IF index.next[v] <= 0 \/ Stale(v) THEN Top(v) ELSE index.next[v]]

OpenReaders ==
    /\ phase = "opening"
    /\ reader' = [v \in Vol |-> Opened(v)]
    /\ desynced' = \E v \in Vol : Active(v) /\ Stale(v)
    /\ watching' = ((\E v \in Vol : Active(v)) /\ ~desynced')
    /\ phase' = "up"
    /\ UNCHANGED <<environment, disk, index, chan, batch, dirty, scan, counters>>

-----------------------------------------------------------------------------
(***************************************************************************)
(* A reader thread: JournalReader::read, then a send.                      *)
(***************************************************************************)
Message(v, next, got, gap) ==
    [vol |-> v, next |-> next, got |-> got, desync |-> gap]

Readable(v) == reader[v].on /\ journal[v].id = reader[v].id

Read(v) ==
    /\ Readable(v) /\ reader[v].next >= journal[v].first
    /\ \E to \in reader[v].next + 1 .. Top(v) :
         /\ chan' = Append(chan,
              Message(v, to, Upto(v, to) \ Upto(v, reader[v].next), FALSE))
         /\ reader' = [reader EXCEPT ![v].next = to]
    /\ UNCHANGED <<environment, disk, phase, index, batch, flagVars, scan, counters>>

\* Bug: the thread ends without a word.
LosePlaceSilently(v) ==
    /\ reader[v].on
    /\ journal[v].id # reader[v].id \/ reader[v].next < journal[v].first
    /\ reader' = [reader EXCEPT ![v].on = FALSE]
    /\ UNCHANGED <<environment, disk, phase, index, chan, batch, flagVars, scan, counters>>

\* The journal wrapped past the position, or is another one by now.
LosePlace(v) ==
    /\ reader[v].on
    /\ journal[v].id # reader[v].id \/ reader[v].next < journal[v].first
    /\ chan' = Append(chan, Message(v, 0, {}, TRUE))
    /\ reader' = [reader EXCEPT ![v].on = FALSE]
    /\ UNCHANGED <<environment, disk, phase, index, batch, flagVars, scan, counters>>

\* Any other error: the thread says so on stderr and returns.  A journal that
\* was replaced may answer with one, too.
FailToRead(v) ==
    /\ reader[v].on
    /\ "readError" \in Faults \/ journal[v].id # reader[v].id
    /\ reader' = [reader EXCEPT ![v].on = FALSE]
    /\ UNCHANGED <<environment, disk, phase, index, chan, batch, flagVars, scan, counters>>

-----------------------------------------------------------------------------
(***************************************************************************)
(* The applier: receive and translate under the read lock, apply under the *)
(* write lock; between the two the index may be replaced.                  *)
(***************************************************************************)
\* Bug: the position moves when a batch is received, not when it is applied.
ReceiveAdvancing ==
    /\ phase = "up" /\ batch = <<>> /\ chan # <<>>
    /\ ~Head(chan).desync
    /\ batch' = <<Head(chan)>>
    /\ chan' = Tail(chan)
    /\ index' = [index EXCEPT !.next[Head(chan).vol] = Head(chan).next]
    /\ UNCHANGED <<environment, disk, phase, reader, flagVars, scan, counters>>

Receive ==
    /\ phase = "up" /\ batch = <<>> /\ chan # <<>>
    /\ ~Head(chan).desync
    /\ batch' = <<Head(chan)>>
    /\ chan' = Tail(chan)
    /\ UNCHANGED <<environment, disk, phase, index, reader, flagVars, scan, counters>>

ReceiveDesync ==
    /\ phase = "up" /\ batch = <<>> /\ chan # <<>>
    /\ Head(chan).desync
    /\ chan' = Tail(chan)
    /\ desynced' = TRUE
    /\ watching' = FALSE
    /\ UNCHANGED <<environment, disk, phase, index, reader, batch, dirty, scan, counters>>

\* set_next_usn never moves back.  A batch of changes the index ignores, or
\* knows already, does not count as a change.
Later(a, b) == IF b > a THEN b ELSE a

ApplyBatch ==
    /\ phase = "up" /\ batch # <<>>
    /\ LET m == Head(batch)
       IN  index' = [index EXCEPT !.seen[m.vol] = @ \cup m.got,
                                  !.next[m.vol] = Later(@, m.next)]
    /\ batch' = <<>>
    /\ dirty' \in {dirty, TRUE}
    /\ UNCHANGED <<environment, disk, phase, reader, chan, watching, desynced, scan, counters>>

-----------------------------------------------------------------------------
(***************************************************************************)
(* The checkpointer, the Rescan request, and the end of the process.       *)
(***************************************************************************)
Checkpoint ==
    /\ phase = "up" /\ dirty
    /\ disk' = <<index>>
    /\ UNCHANGED <<environment, phase, index, pipeline, flagVars, scan, counters>>

Rescan ==
    /\ "rescan" \in Faults
    /\ phase = "up" /\ ~Scanning /\ rescans < MaxRescans
    /\ scan' = NewScan
    /\ rescans' = rescans + 1
    /\ UNCHANGED <<environment, disk, phase, index, pipeline, flagVars, starts>>

\* Bug: a rescan makes the daemon claim to be live again.
SwapIndexAndClaim ==
    /\ phase = "up" /\ ScanSaved
    /\ index' = Result
    /\ desynced' = FALSE /\ watching' = TRUE
    /\ scan' = NoScan
    /\ UNCHANGED <<environment, disk, phase, pipeline, dirty, counters>>

\* The client thread replaces the index and clears the flag.  `watching` and
\* whatever is in the channel stay as they are.
SwapIndex ==
    /\ phase = "up" /\ ScanSaved
    /\ index' = Result
    /\ desynced' = FALSE
    /\ scan' = NoScan
    /\ UNCHANGED <<environment, disk, phase, pipeline, watching, dirty, counters>>

Gone ==
    /\ phase' = "down"
    /\ index' = Blank
    /\ reader' = AllOff /\ chan' = <<>> /\ batch' = <<>>
    /\ watching' = FALSE /\ desynced' = FALSE /\ dirty' = FALSE
    /\ scan' = NoScan
    /\ UNCHANGED <<environment, counters>>

\* An ordinary stop leaves a final checkpoint; a crash leaves what there was.
Stop == phase = "up" /\ disk' = <<index>> /\ Gone

Crash == "crash" \in Faults /\ phase # "down" /\ UNCHANGED disk /\ Gone

-----------------------------------------------------------------------------
World == \E v \in Vol : MakeChange(v) \/ Trim(v) \/ CreateJournal(v)

StartUp == LoadSnapshot \/ ScanAtStart \/ ServeScan \/ OpenReaders

ScanStep == SaveScan \/ \E v \in Vol : TakePosition(v) \/ ReadMft(v)

Readers == \E v \in Vol : Read(v) \/ LosePlace(v) \/ FailToRead(v)

Applier == Receive \/ ReceiveDesync \/ ApplyBatch

Next ==
    \/ World \/ StartUp \/ ScanStep \/ Readers \/ Applier
    \/ Checkpoint \/ Rescan \/ SwapIndex \/ Stop \/ Crash

Spec == Init /\ [][Next]_vars

\* The threads of a running daemon run: a start that began goes on, a reader
\* parked in the kernel is woken by new records, nothing the applier waits for
\* is held for ever, and the checkpointer comes round every minute.  Nobody
\* has to start the daemon, to rescan or to stop it.
Fairness ==
    /\ WF_vars(ServeScan \/ OpenReaders) /\ WF_vars(ScanStep)
    /\ WF_vars(Applier) /\ WF_vars(Checkpoint)
    /\ \A v \in Vol : WF_vars(Read(v) \/ LosePlace(v))

FairSpec == Spec /\ Fairness

-----------------------------------------------------------------------------
(***************************************************************************)
(* Properties.                                                             *)
(***************************************************************************)
\* A drive keeps the journal it has, and a reader that cannot go on says so.
JournalsKept == Faults \cap {"noJournal", "newJournal", "readError"} = {}

\* And no journal is trimmed before its records are read.  Where one is, the
\* daemon says that its answers are not live and goes on from the journal's
\* end: what it missed stays missing.
HistoryKept == JournalsKept /\ "wrap" \notin Faults

Changes == 1 .. MaxMade

IndexShape == [seen : [Vol -> SUBSET Changes], next : [Vol -> 0 .. MaxMade]]

MessageShape ==
    [vol : Vol, next : 0 .. MaxMade, got : SUBSET Changes, desync : BOOLEAN]

\* Every variable has its type.
TypeOK ==
    /\ made \in [Vol -> Changes]
    /\ journal \in [Vol -> [id : 0 .. 2, base : 0 .. MaxMade, first : 0 .. MaxMade]]
    /\ disk = NoFile \/ \E f \in {OnDisk} : f \in IndexShape
    /\ phase \in {"down", "scanning", "opening", "up"}
    /\ index \in IndexShape
    /\ reader \in [Vol -> [on : BOOLEAN, id : 0 .. 2, next : 0 .. MaxMade]]
    /\ \A i \in DOMAIN chan : chan[i] \in MessageShape
    /\ \A i \in DOMAIN batch : batch[i] \in MessageShape
    /\ <<watching, desynced, dirty>> \in BOOLEAN \X BOOLEAN \X BOOLEAN
    /\ scan.stage \in [Vol -> {"none", "todo", "positioned", "read", "saved"}]
    /\ Result \in IndexShape

\* What `status` says of the answers: they are live.
Claiming == phase = "up" /\ watching /\ ~desynced

\* Changes read but not applied, and changes the reader has yet to read.
InFlight(v) ==
    {c \in Changes : \/ \E i \in DOMAIN chan : chan[i].vol = v /\ c \in chan[i].got
                     \/ \E i \in DOMAIN batch : batch[i].vol = v /\ c \in batch[i].got}

Unread(v) ==
    IF reader[v].on THEN (1 .. made[v]) \ Upto(v, reader[v].next) ELSE {}

DesyncQueued == \E i \in DOMAIN chan : chan[i].desync

\* While the daemon claims to be live, somebody reads the journal of every
\* volume, or the news that nobody does is in the channel, and every change
\* ever made to a volume is in the index or on its way there: nothing has been
\* lost between the MFT, the snapshot, the journal, the readers and the applier.
NothingLost ==
    JournalsKept /\ Claiming /\ ~DesyncQueued =>
        \A v \in Vol :
            /\ reader[v].on
            /\ Readable(v) =>
                 1 .. made[v] \subseteq index.seen[v] \cup InFlight(v) \cup Unread(v)

\* A daemon whose answers were not live once does not call them live again,
\* not even after a Rescan: the reader that lost its place is gone.
ClaimNotResumed ==
    [][phase = "up" /\ phase' = "up" /\ ~Claiming => ~Claiming']_vars

\* The snapshot holds every change below the position it was saved with ...
SnapshotCovers ==
    HasFile => \A v \in Vol :
        (1 .. made[v]) \cap Upto(v, OnDisk.next[v]) \subseteq OnDisk.seen[v]

\* ... and the position of the live index covers no more than what was applied.
PositionCovers ==
    phase \in {"opening", "up"} => \A v \in Vol :
        (1 .. made[v]) \cap Upto(v, index.next[v]) \subseteq index.seen[v]

\* A volume's changes are applied in the order they were made, none skipped.
InOrder ==
    \A v \in Vol : \E k \in 0 .. made[v] : index.seen[v] = 1 .. k

\* The daemon may be killed at any moment and a checkpoint taken at any moment:
\* what a snapshot holds is all there was up to its position, so that a restart
\* only replays what comes after it, and never leaves a gap.
Restartable == HistoryKept => SnapshotCovers /\ PositionCovers /\ InOrder

\* In the end either everything that was changed is served, or the daemon
\* does not claim to be live: a lost place is reported.
ServedInTheEnd ==
    JournalsKept => \A v \in Vol : <>[](Claiming => index.seen[v] = 1 .. made[v])

\* Seen as a follower only while journals keep their history.
Follow == INSTANCE Follower WITH
    made    <- IF HistoryKept THEN made ELSE [v \in Vol |-> 1],
    running <- HistoryKept /\ phase \in {"opening", "up"},
    served  <- IF HistoryKept THEN index.seen ELSE Blank.seen,
    saved   <- IF HistoryKept /\ HasFile THEN OnDisk.seen ELSE Blank.seen

\* When the journal keeps its history, the daemon is a follower: the threads,
\* the channel, the positions and the restarts implement module Follower.
Follows == Follow!Spec

=============================================================================
