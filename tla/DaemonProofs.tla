---------------------------- MODULE DaemonProofs ----------------------------
(***************************************************************************)
(* Nothing is lost between the MFT, the snapshot, the journal, the readers *)
(* and the applier, for any number of drives, changes, batches, crashes    *)
(* and restarts; what is saved can be started from at any moment; and the  *)
(* daemon implements Follower.                                             *)
(*                                                                         *)
(* The argument follows a change c of a volume v through the daemon.  It   *)
(* is Reached by the first i messages of the channel when the index holds  *)
(* it, or the batch in hand, or one of those messages.  Every position     *)
(* the daemon keeps vouches for the changes below it: the position of a    *)
(* message for what is reached by that message, a reader's for what is     *)
(* reached by the whole channel, the index's for what it holds.            *)
(***************************************************************************)
EXTENDS Daemon, TLAPS

\* Where journals are kept nobody asks for a Rescan, which loses changes, and a
\* daemon whose journals may be trimmed is not started twice: a gap that was
\* found is not stored.  (README, known drift.)
Calm ==
    /\ Vol # {}
    /\ \A w \in DOMAIN Weathers :
         Weathers[w].faults \cap {"noJournal", "newJournal", "readError"} = {} =>
            /\ "rescan" \notin Weathers[w].faults
            /\ "wrap" \in Weathers[w].faults => Weathers[w].starts <= 1

Indexes  == [seen : [Vol -> SUBSET Nat], next : [Vol -> Nat]]
Messages == [vol : Vol, next : Nat, got : SUBSET Nat, desync : BOOLEAN]
Stages   == {"none", "todo", "positioned", "read", "saved"}

Types ==
    /\ made \in [Vol -> Nat \ {0}] /\ \A v \in Vol : made[v] <= MaxMade
    /\ journal \in [Vol -> [id : Nat, base : Nat, first : Nat]]
    /\ disk = NoFile \/ \E f \in Indexes : disk = <<f>>
    /\ phase \in {"down", "scanning", "opening", "up"}
    /\ index \in Indexes
    /\ reader \in [Vol -> [on : BOOLEAN, id : Nat, next : Nat]]
    /\ chan \in Seq(Messages)
    /\ batch = <<>> \/ \E m \in Messages : batch = <<m>>
    /\ watching \in BOOLEAN
    /\ scan \in [stage : [Vol -> Stages], seen : [Vol -> SUBSET Nat], next : [Vol -> Nat]]
    /\ starts \in Nat

\* The journals are those of the start, and are only trimmed if the weather says so.
Kept ==
    \A v \in Vol : /\ journal[v].id = 1 /\ journal[v].base = 0
                   /\ HistoryKept => journal[v].first = 0

Phases ==
    /\ phase # "scanning" => scan = NoScan
    /\ phase # "up" => chan = <<>> /\ batch = <<>> /\ reader = AllOff /\ ~watching
    /\ phase \in {"down", "scanning"} => index = Blank
    /\ starts = 0 => phase = "down" /\ disk = NoFile

\* A scan's position comes before its reading of the MFT, and the file it makes
\* is there from its last step to its end.
ScanSound ==
    /\ \A v \in Vol :
         /\ scan.stage[v] \in {"positioned", "read", "saved"} => scan.next[v] \in 1 .. made[v]
         /\ scan.stage[v] \in {"read", "saved"} =>
              \E k \in scan.next[v] .. made[v] : scan.seen[v] = 1 .. k
    /\ phase = "scanning" => disk = IF ScanSaved THEN <<Result>> ELSE NoFile

\* An index without gaps, up to its position and beyond.
Whole(f) == \A v \in Vol : \E k \in 1 .. made[v] : f.seen[v] = 1 .. k /\ f.next[v] \in 1 .. k

Stored ==
    /\ HistoryKept /\ HasFile => Whole(OnDisk)
    /\ phase = "opening" => Whole(index)
    /\ HistoryKept /\ phase = "up" => Whole(index)

Reached(c, v, i) ==
    \/ c \in index.seen[v]
    \/ batch # <<>> /\ batch[1].vol = v /\ c \in batch[1].got
    \/ \E j \in 1 .. i : chan[j].vol = v /\ c \in chan[j].got

\* A message is about changes that were made, below the position it brings.
Truthful(m) == m.next <= made[m.vol] /\ m.got \subseteq 1 .. m.next

Messaging ==
    /\ \A i \in 1 .. Len(chan) : Truthful(chan[i])
    /\ batch # <<>> => Truthful(batch[1])
    /\ HistoryKept => /\ \A i \in 1 .. Len(chan) : ~chan[i].desync
                      /\ \A i \in 1 .. Len(chan) : \A c \in 1 .. chan[i].next :
                            Reached(c, chan[i].vol, i)
                      /\ batch # <<>> => \A c \in 1 .. batch[1].next : Reached(c, batch[1].vol, 0)

Reading ==
    /\ \A v \in Vol : reader[v].on => reader[v].id = 1 /\ reader[v].next <= made[v]
    /\ HistoryKept /\ phase = "up" => \A v \in Vol : reader[v].on
    /\ watching => \A v \in Vol : reader[v].on \/ DesyncQueued
    /\ HistoryKept \/ watching =>
         \A v \in Vol : reader[v].on =>
            \A c \in 1 .. reader[v].next : Reached(c, v, Len(chan))

Sound == Types /\ Kept /\ Phases /\ ScanSound /\ Stored /\ Messaging /\ Reading
IInv  == weather \in DOMAIN Weathers /\ (JournalsKept => Sound)

-----------------------------------------------------------------------------
(***************************************************************************)
(* What the assumption says of the weather a behaviour goes through.       *)
(***************************************************************************)
LEMMA FewFaults ==
    ASSUME Calm, weather \in DOMAIN Weathers, JournalsKept
    PROVE  /\ "rescan" \notin Faults /\ "newJournal" \notin Faults /\ "noJournal" \notin Faults
           /\ "readError" \notin Faults
           /\ HistoryKept \/ MaxStarts <= 1
           /\ HistoryKept => "wrap" \notin Faults
           /\ MaxMade \in Nat \ {0} /\ MaxStarts \in Nat
  BY DaemonAssumption DEF Calm, JournalsKept, HistoryKept, Faults, MaxStarts, MaxMade

LEMMA SameWeather ==
    ASSUME weather' = weather
    PROVE  /\ Faults' = Faults /\ MaxStarts' = MaxStarts /\ MaxMade' = MaxMade
           /\ JournalsKept' = JournalsKept /\ HistoryKept' = HistoryKept
  BY DEF Faults, MaxStarts, MaxMade, JournalsKept, HistoryKept

LEMMA BlankTypes ==
    /\ Blank \in Indexes
    /\ AllOff \in [Vol -> [on : BOOLEAN, id : Nat, next : Nat]]
    /\ NoScan \in [stage : [Vol -> Stages], seen : [Vol -> SUBSET Nat], next : [Vol -> Nat]]
    /\ NewScan \in [stage : [Vol -> Stages], seen : [Vol -> SUBSET Nat], next : [Vol -> Nat]]
  BY DEF Blank, Indexes, AllOff, Off, NoScan, NewScan, Stages

LEMMA InitInv == ASSUME Calm, Init PROVE IInv
  <1>1. weather \in DOMAIN Weathers
    BY DEF Init
  <1> SUFFICES ASSUME JournalsKept PROVE Sound
    BY <1>1 DEF IInv
  <1>2. journal = [v \in Vol |-> [id |-> 1, base |-> 0, first |-> 0]]
    BY <1>1, FewFaults DEF Init
  <1>3. \A v \in Vol : made[v] = 1 /\ scan.stage[v] = "none"
    BY DEF Init, NoScan
  <1>4. Types
    <2>1. made \in [Vol -> Nat \ {0}] /\ \A v \in Vol : made[v] <= MaxMade
      BY <1>1, FewFaults DEF Init
    <2>2. journal \in [Vol -> [id : Nat, base : Nat, first : Nat]]
      BY <1>2
    <2>3. index \in Indexes
      BY BlankTypes DEF Init
    <2>4. reader \in [Vol -> [on : BOOLEAN, id : Nat, next : Nat]]
      BY BlankTypes DEF Init
    <2>5. scan \in [stage : [Vol -> Stages], seen : [Vol -> SUBSET Nat], next : [Vol -> Nat]]
      BY BlankTypes DEF Init
    <2>6. chan \in Seq(Messages)
      BY DEF Init
    <2> QED
      BY <2>1, <2>2, <2>3, <2>4, <2>5, <2>6 DEF Init, Types
  <1>5. Kept /\ Phases
    BY <1>2 DEF Kept, Phases, Init
  <1>6. ScanSound /\ Stored
    BY <1>3 DEF ScanSound, Stored, Init, HasFile
  <1>7. Messaging /\ Reading
    BY DEF Messaging, Reading, Init, AllOff, Off
  <1> QED
    BY <1>4, <1>5, <1>6, <1>7 DEF Sound

\* Where journals are kept, a position is a number of changes.
LEMMA Positions ==
    ASSUME Types, Kept, NEW v \in Vol
    PROVE  /\ Active(v) /\ Top(v) = made[v] /\ made[v] \in Nat \ {0}
           /\ \A u \in Nat : Upto(v, u) = 1 .. u
  BY DEF Types, Kept, Active, Top, Upto

\* No scan runs unless the daemon is starting.
LEMMA NotScanning ==
    ASSUME Calm, Sound, phase # "scanning"
    PROVE  ~Scanning /\ ~ScanDone /\ ~ScanSaved
           /\ \A v \in Vol : scan.stage[v] = "none"
  BY DEF Calm, Sound, Phases, Scanning, NoScan, ScanDone, ScanSaved

-----------------------------------------------------------------------------
(***************************************************************************)
(* The volumes.                                                            *)
(***************************************************************************)
LEMMA ChangeSound ==
    ASSUME Calm, weather \in DOMAIN Weathers, JournalsKept, Sound,
           NEW v \in Vol, MakeChange(v)
    PROVE  Sound'
  <1> USE DEF Sound
  <1>0. weather' = weather
    BY DEF MakeChange
  <1>1. journal' = journal
    BY Positions DEF MakeChange
  <1>2. /\ made' = [made EXCEPT ![v] = @ + 1] /\ made[v] < MaxMade
        /\ UNCHANGED <<disk, phase, index, reader, chan, batch, watching, scan, starts>>
    BY DEF MakeChange, pipeline, flagVars, counters
  <1>3. MaxMade \in Nat /\ MaxMade' = MaxMade /\ HistoryKept' = HistoryKept
    BY <1>0, FewFaults, SameWeather
  <1>4. made' \in [Vol -> Nat \ {0}] /\ (\A w \in Vol : made'[w] <= MaxMade /\ made[w] <= made'[w])
        /\ \A w \in Vol : made[w] \in Nat \ {0}
    <2>1. made \in [Vol -> Nat \ {0}] /\ \A w \in Vol : made[w] <= MaxMade
      BY DEF Types
    <2>2. made[v] + 1 \in Nat \ {0} /\ made[v] + 1 <= MaxMade /\ made[v] <= made[v] + 1
      BY <1>2, <1>3, <2>1
    <2>3. made' \in [Vol -> Nat \ {0}] /\ \A w \in Vol : made'[w] = IF w = v THEN made[v] + 1 ELSE made[w]
      BY <1>2, <2>1, <2>2
    <2> QED
      BY <2>1, <2>2, <2>3
  <1>5. Types'
    BY <1>1, <1>2, <1>3, <1>4 DEF Types, NoFile
  <1>6. Kept' /\ Phases'
    BY <1>1, <1>2, <1>3 DEF Kept, Phases, NoFile
  <1>7. ScanSound'
    <2>1. \A w \in Vol : scan.next[w] \in Nat
      BY DEF Types
    <2>2. (\A w \in Vol :
             /\ scan.stage[w] \in {"positioned", "read", "saved"} => scan.next[w] \in 1 .. made[w]
             /\ scan.stage[w] \in {"read", "saved"} =>
                  \E k \in scan.next[w] .. made[w] : scan.seen[w] = 1 .. k)'
      BY <1>2, <1>4, <2>1 DEF ScanSound
    <2> QED
      BY <1>2, <2>2 DEF ScanSound, ScanSaved, Result
  <1>8. Stored'
    <2>1. \A f : Whole(f) => Whole(f)'
      BY <1>4 DEF Whole
    <2> QED
      BY <1>2, <1>3, <2>1 DEF Stored, HasFile, OnDisk
  <1>9. Messaging'
    <2>1. \A m \in Messages : Truthful(m) => Truthful(m)'
      BY <1>4 DEF Truthful, Messages
    <2>2. (\A i \in 1 .. Len(chan) : chan[i] \in Messages) /\ (batch # <<>> => batch[1] \in Messages)
      BY DEF Types
    <2> QED
      BY <1>2, <1>3, <2>1, <2>2 DEF Messaging, Reached
  <1>10. Reading'
    <2>1. UNCHANGED <<index, batch, chan, reader, watching, phase, HistoryKept, DesyncQueued>>
      BY <1>2, <1>3 DEF DesyncQueued
    <2>2. \A c, w, i : Reached(c, w, i) => Reached(c, w, i)'
      BY <2>1 DEF Reached
    <2>3. (\A w \in Vol : reader[w].on => reader[w].id = 1 /\ reader[w].next <= made[w])'
      <3>1. \A w \in Vol : reader[w].next \in Nat
        BY DEF Types
      <3> QED
        BY <1>4, <2>1, <3>1 DEF Reading
    <2> QED
      BY <2>1, <2>2, <2>3 DEF Reading
  <1> QED
    BY <1>5, <1>6, <1>7, <1>8, <1>9, <1>10

LEMMA TrimSound ==
    ASSUME Calm, weather \in DOMAIN Weathers, JournalsKept, Sound, NEW v \in Vol, Trim(v)
    PROVE  Sound'
  <1> USE DEF Sound
  <1>1. /\ journal' = [journal EXCEPT ![v].first = @ + 1] /\ "wrap" \in Faults
        /\ UNCHANGED <<made, disk, phase, index, reader, chan, batch, watching, scan, starts>>
    BY DEF Trim, pipeline, flagVars, counters
  <1>2. ~HistoryKept /\ MaxMade' = MaxMade /\ HistoryKept' = HistoryKept
    BY <1>1, FewFaults, SameWeather DEF Trim
  <1>3. Types'
    <2>1. journal[v] \in [id : Nat, base : Nat, first : Nat]
      BY DEF Types
    <2>2. [journal[v] EXCEPT !.first = @ + 1] \in [id : Nat, base : Nat, first : Nat]
      BY <2>1
    <2>3. journal' \in [Vol -> [id : Nat, base : Nat, first : Nat]]
      BY <1>1, <2>2 DEF Types
    <2> QED
      BY <1>1, <1>2, <2>3 DEF Types, NoFile
  <1>4. Kept'
    BY <1>1, <1>2 DEF Kept, Types
  <1>5. Phases' /\ ScanSound' /\ Stored'
    BY <1>1, <1>2 DEF Phases, ScanSound, Stored, NoFile, ScanSaved, Result, Whole, HasFile
  <1>6. Messaging' /\ Reading'
    BY <1>1, <1>2 DEF Messaging, Reading, Truthful, Reached, DesyncQueued
  <1> QED
    BY <1>3, <1>4, <1>5, <1>6

-----------------------------------------------------------------------------
(***************************************************************************)
(* A start, step by step.                                                  *)
(***************************************************************************)
\* Before the readers are opened there is nothing to say of them.
LEMMA QuietPipeline ==
    ASSUME Types, chan = <<>>, batch = <<>>, reader = AllOff, ~watching, phase # "up"
    PROVE  Messaging /\ Reading
  BY DEF Messaging, Reading, AllOff, Off

LEMMA LoadSound ==
    ASSUME Calm, weather \in DOMAIN Weathers, JournalsKept, Sound, LoadSnapshot
    PROVE  Sound'
  <1> USE DEF Sound
  <1>1. /\ phase = "down" /\ starts < MaxStarts /\ HasFile
        /\ phase' = "opening" /\ starts' = starts + 1 /\ index' = OnDisk
        /\ UNCHANGED <<weather, made, journal, disk, reader, chan, batch, watching, scan>>
    BY DEF LoadSnapshot, pipeline, flagVars, environment
  <1>2. HistoryKept' = HistoryKept /\ MaxMade' = MaxMade
    BY <1>1, SameWeather
  \* a file is there only when the daemon was started before
  <1>3. HistoryKept
    BY <1>1, FewFaults DEF Types, Phases, HasFile
  <1>4. PICK f \in Indexes : disk = <<f>>
    BY <1>1 DEF Types, HasFile
  <1>5. OnDisk = f /\ OnDisk' = f
    BY <1>1, <1>4 DEF OnDisk
  <1>6. Types'
    BY <1>1, <1>2, <1>5 DEF Types, NoFile
  <1>7. Kept' /\ Phases'
    BY <1>1, <1>2 DEF Kept, Phases, Types
  <1>8. ScanSound'
    BY <1>1, NotScanning DEF ScanSound
  <1>9. Stored'
    BY <1>1, <1>3, <1>5 DEF Stored, Whole
  <1>10. Messaging' /\ Reading'
    BY <1>1, <1>6, <1>7, QuietPipeline DEF Phases, Messaging, Reading, AllOff, Off
  <1> QED
    BY <1>6, <1>7, <1>8, <1>9, <1>10

LEMMA ScanAtStartSound ==
    ASSUME Calm, weather \in DOMAIN Weathers, JournalsKept, Sound, ScanAtStart
    PROVE  Sound'
  <1> USE DEF Sound
  <1>1. /\ phase = "down" /\ ~HasFile
        /\ phase' = "scanning" /\ starts' = starts + 1 /\ scan' = NewScan
        /\ UNCHANGED <<weather, made, journal, disk, index, reader, chan, batch, watching>>
    BY DEF ScanAtStart, pipeline, flagVars, environment
  <1>2. HistoryKept' = HistoryKept /\ MaxMade' = MaxMade
    BY <1>1, SameWeather
  <1>3. Types'
    BY <1>1, <1>2, BlankTypes DEF Types, NoFile
  <1>4. Kept' /\ Phases'
    BY <1>1, <1>2 DEF Kept, Phases, Types
  <1>5. \A v \in Vol : scan'.stage[v] = "todo"
    BY <1>1 DEF NewScan, NoScan
  <1>6. ScanSound'
    BY <1>1, <1>5 DEF ScanSound, ScanSaved, Calm, HasFile, NoFile
  <1>7. Stored' /\ Messaging' /\ Reading'
    BY <1>1, <1>2 DEF Stored, Whole, HasFile, Phases, Messaging, Reading, AllOff, Off, NoFile
  <1> QED
    BY <1>3, <1>4, <1>6, <1>7

\* The two steps of a scan on one volume, and what is untouched by them.
LEMMA ScanStepSound ==
    ASSUME Calm, weather \in DOMAIN Weathers, JournalsKept, Sound,
           NEW v \in Vol, TakePosition(v) \/ ReadMft(v)
    PROVE  Sound'
  <1> USE DEF Sound
  <1>1. /\ UNCHANGED <<weather, made, journal, disk, phase, index, reader, chan, batch, watching, starts>>
        /\ scan.stage[v] \in {"todo", "positioned"}
    BY DEF TakePosition, ReadMft, pipeline, flagVars, counters, environment
  <1>2. HistoryKept' = HistoryKept /\ MaxMade' = MaxMade
    BY <1>1, SameWeather
  <1>3. phase = "scanning"
    BY <1>1, NotScanning
  <1>4. ~ScanSaved /\ scan.next[v] \in Nat /\ made[v] \in Nat \ {0}
    BY <1>1 DEF ScanSaved, Types
  <1>5. CASE TakePosition(v)
    <2>1. scan' = [scan EXCEPT !.stage[v] = "positioned", !.next[v] = made[v]]
      BY <1>5, Positions DEF TakePosition
    <2>2. Types'
      BY <1>1, <1>2, <1>4, <2>1 DEF Types, NoFile, Stages
    <2>3. scan'.stage[v] = "positioned" /\ scan'.next[v] = made[v]
          /\ (\A w \in Vol \ {v} : scan'.stage[w] = scan.stage[w] /\ scan'.next[w] = scan.next[w])
          /\ \A w \in Vol : scan'.seen[w] = scan.seen[w]
      BY <2>1 DEF Types
    <2>4. ScanSound'
      BY <1>1, <1>4, <2>3 DEF ScanSound, ScanSaved
    <2> QED
      BY <1>1, <1>2, <1>3, <2>2, <2>4
      DEF Kept, Phases, Stored, HasFile, Whole, OnDisk, Messaging, Reading, Truthful, Reached, DesyncQueued, NoFile
  <1>6. CASE ReadMft(v)
    <2>1. scan' = [scan EXCEPT !.stage[v] = "read", !.seen[v] = 1 .. made[v]]
          /\ scan.stage[v] = "positioned"
      BY <1>6 DEF ReadMft
    <2>2. Types'
      <3>1. 1 .. made[v] \subseteq Nat
        BY <1>4
      <3>2. [scan.seen EXCEPT ![v] = 1 .. made[v]] \in [Vol -> SUBSET Nat]
        BY <3>1 DEF Types
      <3>3. scan' \in [stage : [Vol -> Stages], seen : [Vol -> SUBSET Nat], next : [Vol -> Nat]]
        BY <2>1, <3>2 DEF Types, Stages
      <3> QED
        BY <1>1, <1>2, <3>3 DEF Types, NoFile
    <2>3. scan'.stage[v] = "read" /\ scan'.seen[v] = 1 .. made[v]
          /\ (\A w \in Vol \ {v} : scan'.stage[w] = scan.stage[w] /\ scan'.seen[w] = scan.seen[w])
          /\ \A w \in Vol : scan'.next[w] = scan.next[w]
      BY <2>1 DEF Types
    <2>4. scan.next[v] \in 1 .. made[v]
      BY <2>1 DEF ScanSound
    <2>5. ScanSound'
      BY <1>1, <1>4, <2>3, <2>4 DEF ScanSound, ScanSaved
    <2> QED
      BY <1>1, <1>2, <1>3, <2>2, <2>5
      DEF Kept, Phases, Stored, HasFile, Whole, OnDisk, Messaging, Reading, Truthful, Reached, DesyncQueued, NoFile
  <1> QED
    BY <1>5, <1>6

\* A finished scan is an index without gaps.
LEMMA ScannedWhole ==
    ASSUME Types, ScanSound, \A v \in Vol : scan.stage[v] \in {"read", "saved"}
    PROVE  Whole(Result) /\ Result \in Indexes
  <1>1. Result \in Indexes
    BY DEF Types, Result, Indexes
  <1>2. ASSUME NEW v \in Vol
        PROVE  \E k \in 1 .. made[v] : Result.seen[v] = 1 .. k /\ Result.next[v] \in 1 .. k
    <2>1. scan.next[v] \in 1 .. made[v] /\ made[v] \in Nat
      BY DEF ScanSound, Types
    <2>2. PICK k \in scan.next[v] .. made[v] : scan.seen[v] = 1 .. k
      BY DEF ScanSound
    <2> QED
      BY <2>1, <2>2 DEF Result
  <1> QED
    BY <1>1, <1>2 DEF Whole

LEMMA SaveScanSound ==
    ASSUME Calm, weather \in DOMAIN Weathers, JournalsKept, Sound, SaveScan
    PROVE  Sound'
  <1> USE DEF Sound
  <1>1. /\ ScanDone /\ disk' = <<Result>>
        /\ scan' = [scan EXCEPT !.stage = [v \in Vol |-> "saved"]]
        /\ UNCHANGED <<weather, made, journal, phase, index, reader, chan, batch, watching, starts>>
    BY DEF SaveScan, pipeline, flagVars, counters, environment
  <1>2. HistoryKept' = HistoryKept /\ MaxMade' = MaxMade
    BY <1>1, SameWeather
  <1>3. phase = "scanning"
    BY <1>1, NotScanning
  <1>4. Whole(Result) /\ Result \in Indexes
    BY <1>1, ScannedWhole DEF ScanDone
  <1>5. /\ scan'.next = scan.next /\ scan'.seen = scan.seen
        /\ \A v \in Vol : scan'.stage[v] = "saved"
    BY <1>1 DEF Types
  <1>6. Types'
    BY <1>1, <1>2, <1>4 DEF Types, NoFile, Stages
  <1>7. Kept' /\ Phases'
    BY <1>1, <1>2, <1>3 DEF Kept, Phases
  <1>8. ScanSound'
    BY <1>1, <1>5 DEF ScanSound, ScanSaved, ScanDone, Result
  <1>9. Stored'
    <2>1. OnDisk' = Result
      BY <1>1 DEF OnDisk
    <2> QED
      BY <1>1, <1>3, <1>4, <2>1 DEF Stored, Whole
  <1>10. Messaging' /\ Reading'
    BY <1>1, <1>2 DEF Messaging, Reading, Truthful, Reached, DesyncQueued
  <1> QED
    BY <1>6, <1>7, <1>8, <1>9, <1>10

LEMMA ServeScanSound ==
    ASSUME Calm, weather \in DOMAIN Weathers, JournalsKept, Sound, ServeScan
    PROVE  Sound'
  <1> USE DEF Sound
  <1>1. /\ phase = "scanning" /\ ScanSaved
        /\ phase' = "opening" /\ index' = Result /\ scan' = NoScan
        /\ UNCHANGED <<weather, made, journal, disk, reader, chan, batch, watching, starts>>
    BY DEF ServeScan, pipeline, flagVars, counters, environment
  <1>2. HistoryKept' = HistoryKept /\ MaxMade' = MaxMade
    BY <1>1, SameWeather
  <1>3. Whole(Result) /\ Result \in Indexes
    BY <1>1, ScannedWhole DEF ScanSaved
  <1>4. Types'
    BY <1>1, <1>2, <1>3, BlankTypes DEF Types, NoFile
  <1>5. Kept' /\ Phases'
    BY <1>1, <1>2 DEF Kept, Phases
  <1>6. ScanSound'
    BY <1>1 DEF ScanSound, NoScan
  <1>7. Stored'
    BY <1>1, <1>2, <1>3 DEF Stored, HasFile, Whole, OnDisk, NoFile
  <1>8. Messaging' /\ Reading'
    BY <1>1, <1>5 DEF Phases, Messaging, Reading, AllOff, Off
  <1> QED
    BY <1>4, <1>5, <1>6, <1>7, <1>8

\* A reader starts where the index ends, unless the journal was trimmed past
\* that place; then nobody claims that answers are live.
LEMMA OpenSound ==
    ASSUME Calm, weather \in DOMAIN Weathers, JournalsKept, Sound, OpenReaders
    PROVE  Sound'
  <1> USE DEF Sound
  <1>1. /\ phase = "opening" /\ phase' = "up"
        /\ reader' = [v \in Vol |-> Opened(v)]
        /\ watching' = ((\E v \in Vol : Active(v)) /\ ~desynced')
        /\ desynced' = \E v \in Vol : Active(v) /\ Stale(v)
        /\ UNCHANGED <<weather, made, journal, disk, index, chan, batch, scan, starts>>
    BY DEF OpenReaders, counters, environment
  <1>2. HistoryKept' = HistoryKept /\ MaxMade' = MaxMade
    BY <1>1, SameWeather
  <1>3. chan = <<>> /\ batch = <<>> /\ scan = NoScan /\ starts # 0 /\ Whole(index)
    BY <1>1 DEF Phases, Stored
  <1>4. \A v \in Vol : /\ index.next[v] \in 1 .. made[v] /\ made[v] \in Nat \ {0}
                       /\ \A c \in 1 .. index.next[v] : c \in index.seen[v]
    BY <1>3 DEF Whole, Types
  <1>5. ASSUME NEW v \in Vol
        PROVE  /\ reader'[v].on /\ reader'[v].id = 1 /\ reader'[v].next \in 1 .. made[v]
               /\ ~Stale(v) => reader'[v].next = index.next[v]
               /\ reader'[v] \in [on : BOOLEAN, id : Nat, next : Nat]
               /\ Stale(v) => ~HistoryKept /\ ~watching'
    <2>1. Active(v) /\ Top(v) = made[v] /\ journal[v].id = 1
      BY Positions DEF Kept
    <2>2. Stale(v) <=> index.next[v] < journal[v].first
      BY <1>4, <2>1 DEF Stale, CanResumeFrom, Types
    <2>3. reader'[v] = Opened(v)
      BY <1>1
    <2>4. Opened(v) = [on |-> TRUE, id |-> 1, next |-> IF Stale(v) THEN made[v] ELSE index.next[v]]
      <3>1. ~(index.next[v] <= 0)
        BY <1>4
      <3> QED
        BY <2>1, <3>1 DEF Opened
    <2>5. Stale(v) => ~HistoryKept
      BY <1>4, <2>2 DEF Kept
    <2>6. Stale(v) => ~watching'
      BY <1>1, <2>1
    <2>7. reader'[v].on /\ reader'[v].id = 1
          /\ reader'[v].next = IF Stale(v) THEN made[v] ELSE index.next[v]
      BY <2>3, <2>4
    <2>8. reader'[v] \in [on : BOOLEAN, id : Nat, next : Nat]
      BY <1>4, <2>3, <2>4
    <2> QED
      BY <1>4, <2>5, <2>6, <2>7, <2>8
  <1>6. Types'
    <2>1. reader' \in [Vol -> [on : BOOLEAN, id : Nat, next : Nat]] /\ watching' \in BOOLEAN
      BY <1>1, <1>5
    <2> QED
      BY <1>1, <1>2, <2>1 DEF Types, NoFile
  <1>7. Kept' /\ Phases' /\ ScanSound'
    BY <1>1, <1>2, <1>3 DEF Kept, Phases, ScanSound, NoScan, NoFile
  <1>8. Stored'
    BY <1>1, <1>2, <1>3 DEF Stored, HasFile, Whole, OnDisk, NoFile
  <1>9. Messaging'
    BY <1>1, <1>3 DEF Messaging
  <1>10. Reading'
    BY <1>1, <1>2, <1>4, <1>5 DEF Reading, Reached
  <1> QED
    BY <1>6, <1>7, <1>8, <1>9, <1>10

-----------------------------------------------------------------------------
(***************************************************************************)
(* The reader threads.                                                     *)
(***************************************************************************)
\* What a message at the end of the channel leaves as it was.
LEMMA Appended ==
    ASSUME Types, NEW m \in Messages, chan' = Append(chan, m)
    PROVE  /\ chan' \in Seq(Messages) /\ Len(chan) \in Nat /\ Len(chan') = Len(chan) + 1
           /\ chan'[Len(chan) + 1] = m
           /\ \A i \in 1 .. Len(chan) : chan'[i] = chan[i]
  BY DEF Types

LEMMA ReadSound ==
    ASSUME Calm, weather \in DOMAIN Weathers, JournalsKept, Sound, NEW v \in Vol, Read(v)
    PROVE  Sound'
  <1> USE DEF Sound
  <1>1. /\ reader[v].on
        /\ UNCHANGED <<weather, made, journal, disk, phase, index, batch, watching, scan, starts>>
    BY DEF Read, Readable, flagVars, counters, environment
  <1>2. HistoryKept' = HistoryKept /\ MaxMade' = MaxMade
    BY <1>1, SameWeather
  <1>3. phase = "up"
    BY <1>1 DEF Phases, AllOff, Off
  <1>4. made[v] \in Nat /\ reader[v].next \in Nat
    BY DEF Types
  <1>5. PICK to \in reader[v].next + 1 .. made[v] :
           /\ chan' = Append(chan, Message(v, to, Upto(v, to) \ Upto(v, reader[v].next), FALSE))
           /\ reader' = [reader EXCEPT ![v].next = to]
    BY Positions DEF Read
  <1>6. to \in Nat /\ Message(v, to, (1 .. to) \ (1 .. reader[v].next), FALSE) \in Messages
    BY <1>4, <1>5 DEF Message, Messages
  <1>7. PICK m \in Messages :
           /\ chan' = Append(chan, m)
           /\ m.vol = v /\ m.next = to /\ m.got = (1 .. to) \ (1 .. reader[v].next) /\ ~m.desync
    <2>1. Upto(v, to) = 1 .. to /\ Upto(v, reader[v].next) = 1 .. reader[v].next
      BY <1>4, <1>6, Positions
    <2> QED
      BY <1>5, <1>6, <2>1 DEF Message
  <1>8. /\ chan' \in Seq(Messages) /\ Len(chan) \in Nat /\ Len(chan') = Len(chan) + 1
        /\ chan'[Len(chan) + 1] = m
        /\ \A i \in 1 .. Len(chan) : chan'[i] = chan[i]
    BY <1>7, Appended
  <1>9. /\ reader'[v].on /\ reader'[v].id = reader[v].id /\ reader'[v].next = to
        /\ \A w \in Vol \ {v} : reader'[w] = reader[w]
        /\ reader' \in [Vol -> [on : BOOLEAN, id : Nat, next : Nat]]
    <2>1. reader[v] \in [on : BOOLEAN, id : Nat, next : Nat]
      BY DEF Types
    <2>2. [reader[v] EXCEPT !.next = to] \in [on : BOOLEAN, id : Nat, next : Nat]
      BY <1>6, <2>1
    <2>3. reader' = [reader EXCEPT ![v] = [reader[v] EXCEPT !.next = to]]
      BY <1>5
    <2>4. reader'[v] = [reader[v] EXCEPT !.next = to] /\ \A w \in Vol \ {v} : reader'[w] = reader[w]
      BY <2>3 DEF Types
    <2>5. reader' \in [Vol -> [on : BOOLEAN, id : Nat, next : Nat]]
      BY <2>2, <2>3 DEF Types
    <2>6. reader'[v].on = reader[v].on /\ reader'[v].id = reader[v].id /\ reader'[v].next = to
      BY <2>1, <2>4
    <2> QED
      BY <1>1, <2>4, <2>5, <2>6
  <1>10. Types'
    BY <1>1, <1>2, <1>8, <1>9 DEF Types, NoFile
  <1>11. Kept' /\ Phases' /\ ScanSound' /\ Stored'
    BY <1>1, <1>2, <1>3 DEF Kept, Phases, ScanSound, Stored, HasFile, Whole, OnDisk, NoFile
  \* what was reached still is, and what the message brings is reached by it
  <1>12. \A c, w : \A i \in 0 .. Len(chan) : Reached(c, w, i) => Reached(c, w, i)'
    BY <1>1, <1>8 DEF Reached
  <1>13. \A c, w : Reached(c, w, Len(chan)) => Reached(c, w, Len(chan))'
    BY <1>1, <1>8 DEF Reached
  <1>14. \A c \in m.got : Reached(c, v, Len(chan))'
    BY <1>7, <1>8 DEF Reached
  <1>15. HistoryKept \/ watching =>
           \A c \in 1 .. to : Reached(c, v, Len(chan))'
    <2> SUFFICES ASSUME HistoryKept \/ watching, NEW c \in 1 .. to
                 PROVE  Reached(c, v, Len(chan))'
      OBVIOUS
    <2>1. CASE c \in 1 .. reader[v].next
      BY <1>1, <1>13, <2>1 DEF Reading
    <2>2. CASE c \notin 1 .. reader[v].next
      BY <1>7, <1>14, <2>2
    <2> QED
      BY <2>1, <2>2
  <1>16. Messaging'
    <2>1. Truthful(m)' /\ \A i \in 1 .. Len(chan) : Truthful(chan[i])'
      BY <1>1, <1>4, <1>5, <1>7 DEF Messaging, Truthful
    <2>2. \A i \in 1 .. Len(chan') : i \in 1 .. Len(chan) \/ i = Len(chan')
      BY <1>8
    <2>3. (\A i \in 1 .. Len(chan) : Truthful(chan[i]))'
      BY <1>8, <2>1, <2>2 DEF Truthful
    <2>4. HistoryKept => (\A i \in 1 .. Len(chan) : \A c \in 1 .. chan[i].next : Reached(c, chan[i].vol, i))'
      <3> SUFFICES ASSUME HistoryKept, NEW i \in 1 .. Len(chan'), NEW c \in 1 .. chan'[i].next
                   PROVE  Reached(c, chan[i].vol, i)'
        OBVIOUS
      <3>1. CASE i \in 1 .. Len(chan)
        BY <1>8, <1>12, <3>1 DEF Messaging
      <3>2. CASE i = Len(chan')
        BY <1>7, <1>8, <1>15, <3>2
      <3> QED
        BY <2>2, <3>1, <3>2
    <2>5. HistoryKept => (\A i \in 1 .. Len(chan) : ~chan[i].desync)'
      BY <1>7, <1>8, <2>2 DEF Messaging
    <2>6. HistoryKept => (batch # <<>> => \A c \in 1 .. batch[1].next : Reached(c, batch[1].vol, 0))'
      BY <1>1 DEF Messaging, Reached
    <2> QED
      BY <1>1, <1>2, <2>3, <2>4, <2>5, <2>6 DEF Messaging, Truthful
  <1>17. Reading'
    <2>1. (\A w \in Vol : reader[w].on => reader[w].id = 1 /\ reader[w].next <= made[w])'
      BY <1>1, <1>4, <1>5, <1>9 DEF Reading
    <2>2. DesyncQueued => DesyncQueued'
      BY <1>8 DEF DesyncQueued
    <2>3. HistoryKept \/ watching =>
            (\A w \in Vol : reader[w].on =>
               \A c \in 1 .. reader[w].next : Reached(c, w, Len(chan)))'
      BY <1>9, <1>13, <1>15 DEF Reading
    <2> QED
      BY <1>1, <1>2, <1>9, <2>1, <2>2, <2>3 DEF Reading
  <1> QED
    BY <1>10, <1>11, <1>16, <1>17

\* A reader that lost its place says so, behind what it had read.
LEMMA LosePlaceSound ==
    ASSUME Calm, weather \in DOMAIN Weathers, JournalsKept, Sound, NEW v \in Vol, LosePlace(v)
    PROVE  Sound'
  <1> USE DEF Sound
  <1>1. /\ reader[v].on
        /\ journal[v].id # reader[v].id \/ reader[v].next < journal[v].first
        /\ chan' = Append(chan, Message(v, 0, {}, TRUE))
        /\ reader' = [reader EXCEPT ![v].on = FALSE]
        /\ UNCHANGED <<weather, made, journal, disk, phase, index, batch, watching, scan, starts>>
    BY DEF LosePlace, flagVars, counters, environment
  <1>2. HistoryKept' = HistoryKept /\ MaxMade' = MaxMade
    BY <1>1, SameWeather
  <1>3. phase = "up"
    BY <1>1 DEF Phases, AllOff, Off
  <1>4. made[v] \in Nat /\ reader[v] \in [on : BOOLEAN, id : Nat, next : Nat]
    BY DEF Types
  <1>5. ~HistoryKept
    BY <1>1, <1>4 DEF Kept, Reading
  <1>6. Message(v, 0, {}, TRUE) \in Messages
    BY DEF Message, Messages
  <1>7. PICK m \in Messages : chan' = Append(chan, m) /\ m.next = 0 /\ m.got = {} /\ m.vol = v /\ m.desync
    BY <1>1, <1>6 DEF Message
  <1>8. /\ chan' \in Seq(Messages) /\ Len(chan) \in Nat /\ Len(chan') = Len(chan) + 1
        /\ chan'[Len(chan) + 1] = m
        /\ \A i \in 1 .. Len(chan) : chan'[i] = chan[i]
    BY <1>7, Appended
  <1>9. /\ ~reader'[v].on /\ \A w \in Vol \ {v} : reader'[w] = reader[w]
        /\ reader' \in [Vol -> [on : BOOLEAN, id : Nat, next : Nat]]
    <2>1. [reader[v] EXCEPT !.on = FALSE] \in [on : BOOLEAN, id : Nat, next : Nat]
          /\ ~[reader[v] EXCEPT !.on = FALSE].on
      BY <1>4
    <2>2. reader' = [reader EXCEPT ![v] = [reader[v] EXCEPT !.on = FALSE]]
      BY <1>1
    <2> QED
      BY <2>1, <2>2 DEF Types
  <1>10. Types'
    BY <1>1, <1>2, <1>8, <1>9 DEF Types, NoFile
  <1>11. Kept' /\ Phases' /\ ScanSound' /\ Stored'
    BY <1>1, <1>2, <1>3 DEF Kept, Phases, ScanSound, Stored, HasFile, Whole, OnDisk, NoFile
  <1>12. \A c, w : Reached(c, w, Len(chan)) => Reached(c, w, Len(chan))'
    <2>1. UNCHANGED <<index, batch>>
      BY <1>1
    <2> QED
      BY <1>8, <2>1 DEF Reached
  <1>13. Messaging'
    <2>1. \A i \in 1 .. Len(chan') : i \in 1 .. Len(chan) \/ i = Len(chan')
      BY <1>8
    <2>2. Truthful(m)'
      BY <1>1, <1>4, <1>7 DEF Truthful
    <2>3. (\A i \in 1 .. Len(chan) : Truthful(chan[i]))'
      BY <1>1, <1>8, <2>1, <2>2 DEF Messaging, Truthful
    <2> QED
      BY <1>1, <1>2, <1>5, <2>3 DEF Messaging, Truthful
  <1>14. Reading'
    <2>1. DesyncQueued'
      BY <1>7, <1>8 DEF DesyncQueued
    <2>2. (\A w \in Vol : reader[w].on => reader[w].id = 1 /\ reader[w].next <= made[w])'
      BY <1>1, <1>9 DEF Reading
    <2>3. HistoryKept \/ watching =>
            (\A w \in Vol : reader[w].on =>
               \A c \in 1 .. reader[w].next : Reached(c, w, Len(chan)))'
      BY <1>9, <1>12 DEF Reading
    <2> QED
      BY <1>1, <1>2, <1>5, <2>1, <2>2, <2>3 DEF Reading
  <1> QED
    BY <1>10, <1>11, <1>13, <1>14

\* Where journals are kept and reads succeed a thread ends in no other way.
LEMMA NoFailure ==
    ASSUME Calm, weather \in DOMAIN Weathers, JournalsKept, Sound, NEW v \in Vol
    PROVE  ~FailToRead(v) /\ ~CreateJournal(v)
  <1>1. reader[v].on => journal[v].id = reader[v].id
    BY DEF Sound, Reading, Kept
  <1>2. journal[v].id = 1
    BY DEF Sound, Kept
  <1> QED
    BY <1>1, <1>2, FewFaults DEF FailToRead, CreateJournal, Active

-----------------------------------------------------------------------------
(***************************************************************************)
(* The applier.                                                            *)
(***************************************************************************)
\* What taking the first message off the channel leaves.
LEMMA Shortened ==
    ASSUME Types, chan # <<>>, chan' = Tail(chan)
    PROVE  /\ chan' \in Seq(Messages) /\ Len(chan) \in Nat \ {0} /\ Len(chan') = Len(chan) - 1
           /\ Head(chan) = chan[1] /\ chan[1] \in Messages
           /\ \A i \in 1 .. Len(chan') : chan'[i] = chan[i + 1] /\ i + 1 \in 1 .. Len(chan)
  BY DEF Types

LEMMA ReceiveSound ==
    ASSUME Calm, weather \in DOMAIN Weathers, JournalsKept, Sound, Receive
    PROVE  Sound'
  <1> USE DEF Sound
  <1>1. /\ phase = "up" /\ batch = <<>> /\ chan # <<>> /\ ~Head(chan).desync
        /\ batch' = <<Head(chan)>> /\ chan' = Tail(chan)
        /\ UNCHANGED <<weather, made, journal, disk, phase, index, reader, watching, scan, starts>>
    BY DEF Receive, flagVars, counters, environment
  <1>2. HistoryKept' = HistoryKept /\ MaxMade' = MaxMade
    BY <1>1, SameWeather
  <1>3. /\ chan' \in Seq(Messages) /\ Len(chan) \in Nat \ {0} /\ Len(chan') = Len(chan) - 1
        /\ Head(chan) = chan[1] /\ chan[1] \in Messages
        /\ \A i \in 1 .. Len(chan') : chan'[i] = chan[i + 1] /\ i + 1 \in 1 .. Len(chan)
    BY <1>1, Shortened
  <1>4. batch' # <<>> /\ batch'[1] = chan[1]
    BY <1>1, <1>3
  <1>5. Types'
    BY <1>1, <1>2, <1>3 DEF Types, NoFile
  <1>6. Kept' /\ Phases' /\ ScanSound' /\ Stored'
    BY <1>1, <1>2 DEF Kept, Phases, ScanSound, Stored, HasFile, Whole, OnDisk, NoFile
  \* the first message is the batch now, the others moved up
  <1>7. ASSUME NEW c, NEW w, NEW i \in 0 .. Len(chan'), Reached(c, w, i + 1)
        PROVE  Reached(c, w, i)'
    <2>1. CASE c \in index.seen[w]
      BY <1>1, <2>1 DEF Reached
    <2>2. CASE \E j \in 1 .. i + 1 : chan[j].vol = w /\ c \in chan[j].got
      <3>1. PICK j \in 1 .. i + 1 : chan[j].vol = w /\ c \in chan[j].got
        BY <2>2
      <3>2. CASE j = 1
        BY <1>4, <3>1, <3>2 DEF Reached
      <3>3. CASE j # 1
        <4>1. j - 1 \in 1 .. i /\ j - 1 \in 1 .. Len(chan') /\ chan'[j - 1] = chan[j]
          BY <1>3, <3>1, <3>3
        <4> QED
          BY <3>1, <4>1 DEF Reached
      <3> QED
        BY <3>2, <3>3
    <2> QED
      BY <1>1, <1>7, <2>1, <2>2 DEF Reached
  <1>8. Messaging'
    <2>1. (\A i \in 1 .. Len(chan) : Truthful(chan[i]))' /\ (batch # <<>> => Truthful(batch[1]))'
      BY <1>1, <1>3, <1>4 DEF Messaging, Truthful
    <2>2. HistoryKept => (\A i \in 1 .. Len(chan) : ~chan[i].desync)'
      BY <1>3 DEF Messaging
    <2>3. HistoryKept => (\A i \in 1 .. Len(chan) : \A c \in 1 .. chan[i].next : Reached(c, chan[i].vol, i))'
      <3> SUFFICES ASSUME HistoryKept, NEW i \in 1 .. Len(chan'), NEW c \in 1 .. chan'[i].next
                   PROVE  Reached(c, chan[i].vol, i)'
        OBVIOUS
      <3>1. Reached(c, chan[i + 1].vol, i + 1)
        BY <1>3 DEF Messaging
      <3>2. chan'[i].vol = chan[i + 1].vol /\ i \in 0 .. Len(chan')
        BY <1>3
      <3> QED
        BY <1>7, <3>1, <3>2
    <2>4. HistoryKept => (batch # <<>> => \A c \in 1 .. batch[1].next : Reached(c, batch[1].vol, 0))'
      <3> SUFFICES ASSUME HistoryKept, NEW c \in 1 .. chan[1].next
                   PROVE  Reached(c, batch[1].vol, 0)'
        BY <1>4
      <3>1. Reached(c, chan[1].vol, 0 + 1)
        BY <1>3 DEF Messaging
      <3>2. batch'[1].vol = chan[1].vol /\ 0 \in 0 .. Len(chan')
        BY <1>3, <1>4
      <3> QED
        BY <1>7, <3>1, <3>2
    <2> QED
      BY <1>2, <2>1, <2>2, <2>3, <2>4 DEF Messaging
  <1>9. Reading'
    <2>1. DesyncQueued => DesyncQueued'
      <3> SUFFICES ASSUME DesyncQueued PROVE DesyncQueued'
        OBVIOUS
      <3>1. PICK i \in 1 .. Len(chan) : chan[i].desync
        BY <1>3 DEF DesyncQueued, Types
      <3>2. i - 1 \in 1 .. Len(chan') /\ chan'[i - 1] = chan[i]
        BY <1>1, <1>3, <3>1
      <3> QED
        BY <1>3, <3>1, <3>2 DEF DesyncQueued
    <2>2. \A c, w : Reached(c, w, Len(chan)) => Reached(c, w, Len(chan))'
      BY <1>3, <1>7
    <2> QED
      BY <1>1, <1>2, <2>1, <2>2 DEF Reading
  <1> QED
    BY <1>5, <1>6, <1>8, <1>9

LEMMA ReceiveDesyncSound ==
    ASSUME Calm, weather \in DOMAIN Weathers, JournalsKept, Sound, ReceiveDesync
    PROVE  Sound'
  <1> USE DEF Sound
  <1>1. /\ phase = "up" /\ batch = <<>> /\ chan # <<>> /\ Head(chan).desync
        /\ chan' = Tail(chan) /\ watching' = FALSE
        /\ UNCHANGED <<weather, made, journal, disk, phase, index, reader, batch, scan, starts>>
    BY DEF ReceiveDesync, counters, environment
  <1>2. HistoryKept' = HistoryKept /\ MaxMade' = MaxMade
    BY <1>1, SameWeather
  <1>3. /\ chan' \in Seq(Messages) /\ Len(chan) \in Nat \ {0} /\ Len(chan') = Len(chan) - 1
        /\ Head(chan) = chan[1] /\ chan[1] \in Messages
        /\ \A i \in 1 .. Len(chan') : chan'[i] = chan[i + 1] /\ i + 1 \in 1 .. Len(chan)
    BY <1>1, Shortened
  <1>4. ~HistoryKept
    BY <1>1, <1>3 DEF Messaging
  <1>5. Types'
    BY <1>1, <1>2, <1>3 DEF Types, NoFile
  <1>6. Kept' /\ Phases' /\ ScanSound' /\ Stored'
    BY <1>1, <1>2 DEF Kept, Phases, ScanSound, Stored, HasFile, Whole, OnDisk, NoFile
  <1>7. Messaging' /\ Reading'
    BY <1>1, <1>2, <1>3, <1>4 DEF Messaging, Reading, Truthful
  <1> QED
    BY <1>5, <1>6, <1>7

\* What the index now holds of a volume, and the position it now has.
LEMMA Applied ==
    ASSUME Types, NEW m \in Messages, batch = <<m>>, ApplyBatch
    PROVE  /\ index' \in Indexes
           /\ index'.seen[m.vol] = index.seen[m.vol] \cup m.got
           /\ index'.next[m.vol] = Later(index.next[m.vol], m.next)
           /\ \A w \in Vol \ {m.vol} :
                index'.seen[w] = index.seen[w] /\ index'.next[w] = index.next[w]
  <1>1. index' = [index EXCEPT !.seen[m.vol] = @ \cup m.got,
                               !.next[m.vol] = Later(@, m.next)]
    BY DEF ApplyBatch
  <1>2. index.seen \in [Vol -> SUBSET Nat] /\ index.next \in [Vol -> Nat]
        /\ index = [seen |-> index.seen, next |-> index.next]
    BY DEF Types, Indexes
  <1>3. m.vol \in Vol /\ m.got \subseteq Nat /\ m.next \in Nat
    BY DEF Messages
  <1>4. /\ index'.seen = [index.seen EXCEPT ![m.vol] = @ \cup m.got]
        /\ index'.next = [index.next EXCEPT ![m.vol] = Later(@, m.next)]
        /\ index' = [seen |-> index'.seen, next |-> index'.next]
    BY <1>1, <1>2
  <1>5. Later(index.next[m.vol], m.next) \in Nat
    BY <1>2, <1>3 DEF Later
  <1>6. index.seen[m.vol] \cup m.got \subseteq Nat
    BY <1>2, <1>3
  <1>7. index'.seen \in [Vol -> SUBSET Nat] /\ index'.next \in [Vol -> Nat]
    BY <1>2, <1>3, <1>4, <1>5, <1>6
  <1>8. index' \in Indexes
    BY <1>4, <1>7 DEF Indexes
  <1> QED
    BY <1>2, <1>3, <1>4, <1>8

LEMMA ApplySound ==
    ASSUME Calm, weather \in DOMAIN Weathers, JournalsKept, Sound, ApplyBatch
    PROVE  Sound'
  <1> USE DEF Sound
  <1>1. /\ phase = "up" /\ batch # <<>> /\ batch' = <<>>
        /\ UNCHANGED <<weather, made, journal, disk, phase, reader, chan, watching, scan, starts>>
    BY DEF ApplyBatch, counters, environment
  <1>2. HistoryKept' = HistoryKept /\ MaxMade' = MaxMade
    BY <1>1, SameWeather
  <1>3. PICK m \in Messages : batch = <<m>>
    BY <1>1 DEF Types
  <1>4. /\ index' \in Indexes
        /\ index'.seen[m.vol] = index.seen[m.vol] \cup m.got
        /\ index'.next[m.vol] = Later(index.next[m.vol], m.next)
        /\ \A w \in Vol \ {m.vol} :
             index'.seen[w] = index.seen[w] /\ index'.next[w] = index.next[w]
    BY <1>3, Applied
  <1>5. m.vol \in Vol /\ m.next \in Nat /\ m.next <= made[m.vol] /\ m.got \subseteq 1 .. m.next
    BY <1>1, <1>3 DEF Messages, Messaging, Truthful
  <1>6. Types'
    BY <1>1, <1>2, <1>4 DEF Types, NoFile
  <1>7. Kept' /\ Phases' /\ ScanSound'
    BY <1>1, <1>2 DEF Kept, Phases, ScanSound, ScanSaved, Result, NoFile
  \* the batch closes the space between what was held and the new position
  <1>8. ASSUME HistoryKept, NEW v \in Vol
        PROVE  \E k \in 1 .. made[v] : index'.seen[v] = 1 .. k /\ index'.next[v] \in 1 .. k
    <2>1. PICK k \in 1 .. made[v] : index.seen[v] = 1 .. k /\ index.next[v] \in 1 .. k
      BY <1>1, <1>8 DEF Stored, Whole
    <2>2. made[v] \in Nat
      BY DEF Types
    <2>3. CASE v # m.vol
      BY <1>4, <2>1, <2>3
    <2>4. CASE v = m.vol
      <3>1. \A c \in 1 .. m.next : c \in 1 .. k \/ c \in m.got
        BY <1>1, <1>3, <1>8, <2>1, <2>4 DEF Messaging, Reached
      <3>0. index'.seen[v] = (1 .. k) \cup m.got /\ m.got \subseteq 1 .. m.next /\ k \in Nat
        BY <1>4, <1>5, <2>1, <2>2, <2>4
      <3>2. CASE m.next <= k
        <4>1. index'.seen[v] = 1 .. k
          <5>1. \A c \in 1 .. m.next : c \in 1 .. k
            BY <1>5, <3>0, <3>2
          <5> QED
            BY <3>0, <5>1
        <4>2. index'.next[v] \in 1 .. k
          BY <1>4, <1>5, <2>1, <2>2, <2>4, <3>2 DEF Later
        <4> QED
          BY <4>1, <4>2
      <3>3. CASE ~(m.next <= k)
        <4>1. index'.seen[v] = 1 .. m.next
          <5>1. \A c \in 1 .. k : c \in 1 .. m.next
            BY <1>5, <3>0, <3>3
          <5> QED
            BY <3>0, <3>1, <5>1
        <4>2. index'.next[v] \in 1 .. m.next
          BY <1>4, <1>5, <2>1, <2>2, <2>4, <3>3 DEF Later
        <4>3. m.next \in 1 .. made[v]
          BY <1>5, <2>1, <2>2, <2>4, <3>3
        <4> QED
          BY <4>1, <4>2, <4>3
      <3> QED
        BY <3>2, <3>3
    <2> QED
      BY <2>3, <2>4
  <1>9. Stored'
    BY <1>1, <1>2, <1>8 DEF Stored, HasFile, Whole, OnDisk, NoFile
  <1>10. ASSUME NEW c, NEW w \in Vol, NEW i, Reached(c, w, i)
         PROVE  Reached(c, w, i)'
    <2>1. CASE c \in index.seen[w]
      BY <1>4, <2>1 DEF Reached
    <2>2. CASE m.vol = w /\ c \in m.got
      BY <1>4, <2>2 DEF Reached
    <2>3. CASE \E j \in 1 .. i : chan[j].vol = w /\ c \in chan[j].got
      BY <1>1, <2>3 DEF Reached
    <2> QED
      BY <1>3, <1>10, <2>1, <2>2, <2>3 DEF Reached
  <1>11. Messaging'
    <2>1. \A i \in 1 .. Len(chan) : chan[i] \in Messages
      BY DEF Types
    <2>2. \A i \in 1 .. Len(chan) : chan[i].vol \in Vol
      BY <2>1 DEF Messages
    <2>3. (\A i \in 1 .. Len(chan) : Truthful(chan[i]))' /\ batch' = <<>>
      BY <1>1 DEF Messaging, Truthful
    <2>4. HistoryKept => (\A i \in 1 .. Len(chan) : ~chan[i].desync)'
      BY <1>1 DEF Messaging
    <2>5. HistoryKept => (\A i \in 1 .. Len(chan) : \A c \in 1 .. chan[i].next : Reached(c, chan[i].vol, i))'
      BY <1>1, <1>10, <2>2 DEF Messaging
    <2> QED
      BY <1>2, <2>3, <2>4, <2>5 DEF Messaging
  <1>12. Reading'
    BY <1>1, <1>2, <1>10 DEF Reading, DesyncQueued
  <1> QED
    BY <1>6, <1>7, <1>9, <1>11, <1>12

-----------------------------------------------------------------------------
(***************************************************************************)
(* The checkpointer, and the end of the process.                           *)
(***************************************************************************)
LEMMA CheckpointSound ==
    ASSUME Calm, weather \in DOMAIN Weathers, JournalsKept, Sound, Checkpoint
    PROVE  Sound'
  <1> USE DEF Sound
  <1>1. /\ phase = "up" /\ disk' = <<index>>
        /\ UNCHANGED <<weather, made, journal, phase, index, reader, chan, batch, watching, scan, starts>>
    BY DEF Checkpoint, pipeline, flagVars, counters, environment
  <1>2. HistoryKept' = HistoryKept /\ MaxMade' = MaxMade
    BY <1>1, SameWeather
  <1>3. Types'
    BY <1>1, <1>2 DEF Types, NoFile
  <1>4. Kept' /\ Phases' /\ ScanSound'
    BY <1>1, <1>2 DEF Kept, Phases, ScanSound
  <1>5. Stored'
    <2>1. OnDisk' = index
      BY <1>1 DEF OnDisk
    <2> QED
      BY <1>1, <1>2, <2>1 DEF Stored, Whole
  <1>6. Messaging' /\ Reading'
    BY <1>1, <1>2 DEF Messaging, Reading, Truthful, Reached, DesyncQueued
  <1> QED
    BY <1>3, <1>4, <1>5, <1>6

\* An ordinary stop saves the index first; a crash keeps what was saved.
LEMMA GoneSound ==
    ASSUME Calm, weather \in DOMAIN Weathers, JournalsKept, Sound, Stop \/ Crash
    PROVE  Sound'
  <1> USE DEF Sound
  <1>1. /\ phase # "down"
        /\ phase' = "down" /\ index' = Blank
        /\ reader' = AllOff /\ chan' = <<>> /\ batch' = <<>> /\ watching' = FALSE
        /\ scan' = NoScan
        /\ UNCHANGED <<weather, made, journal, starts>>
        /\ disk' = disk \/ (phase = "up" /\ disk' = <<index>>)
    <2>1. phase # "down" /\ (disk' = disk \/ (phase = "up" /\ disk' = <<index>>)) /\ Gone
      BY DEF Stop, Crash
    <2> QED
      BY <2>1 DEF Gone, counters, environment
  <1>2. HistoryKept' = HistoryKept /\ MaxMade' = MaxMade
    BY <1>1, SameWeather
  <1>3. Types'
    <2>1. index' \in Indexes /\ reader' \in [Vol -> [on : BOOLEAN, id : Nat, next : Nat]]
          /\ scan' \in [stage : [Vol -> Stages], seen : [Vol -> SUBSET Nat], next : [Vol -> Nat]]
      BY <1>1, BlankTypes
    <2>2. (disk = NoFile \/ \E f \in Indexes : disk = <<f>>)'
      BY <1>1 DEF Types, NoFile
    <2>3. made' \in [Vol -> Nat \ {0}] /\ (\A v \in Vol : made[v] <= MaxMade)'
          /\ journal' \in [Vol -> [id : Nat, base : Nat, first : Nat]] /\ starts' \in Nat
      BY <1>1, <1>2 DEF Types
    <2>4. <<>> \in Seq(Messages)
      OBVIOUS
    <2>5. batch' = <<>> /\ watching' \in BOOLEAN /\ phase' = "down" /\ chan' \in Seq(Messages)
      BY <1>1, <2>4
    <2> QED
      BY <2>1, <2>2, <2>3, <2>5 DEF Types
  <1>4. Kept' /\ Phases'
    BY <1>1, <1>2 DEF Kept, Phases
  <1>5. ScanSound'
    BY <1>1 DEF ScanSound, NoScan
  <1>6. Stored'
    <2>1. HistoryKept /\ HasFile' => Whole(OnDisk')
      BY <1>1 DEF Stored, HasFile, OnDisk, NoFile
    <2> QED
      BY <1>1, <1>2, <2>1 DEF Stored, Whole
  <1>7. Messaging' /\ Reading'
    BY <1>1 DEF Messaging, Reading, AllOff, Off
  <1> QED
    BY <1>3, <1>4, <1>5, <1>6, <1>7

LEMMA StepInv == ASSUME Calm, IInv, [Next]_vars PROVE IInv'
  <1>1. weather' = weather
    BY DEF Next, World, StartUp, ScanStep, Readers, Applier, MakeChange, Trim, CreateJournal,
           LoadSnapshot, ScanAtStart, ServeScan, OpenReaders, SaveScan, TakePosition, ReadMft,
           Read, LosePlace, FailToRead, Receive, ReceiveDesync, ApplyBatch, Checkpoint, Rescan,
           SwapIndex, Stop, Crash, Gone, environment, vars
  <1> SUFFICES ASSUME JournalsKept PROVE Sound'
    BY <1>1, SameWeather DEF IInv
  <1>2. weather \in DOMAIN Weathers /\ Sound
    BY DEF IInv
  <1>3. CASE World
    BY <1>2, <1>3, ChangeSound, TrimSound, NoFailure DEF World
  <1>4. CASE StartUp
    BY <1>2, <1>4, LoadSound, ScanAtStartSound, ServeScanSound, OpenSound DEF StartUp
  <1>5. CASE ScanStep
    BY <1>2, <1>5, SaveScanSound, ScanStepSound DEF ScanStep
  <1>6. CASE Readers
    BY <1>2, <1>6, ReadSound, LosePlaceSound, NoFailure DEF Readers
  <1>7. CASE Applier
    BY <1>2, <1>7, ReceiveSound, ReceiveDesyncSound, ApplySound DEF Applier
  <1>8. CASE Checkpoint
    BY <1>2, <1>8, CheckpointSound
  <1>9. CASE Rescan \/ SwapIndex
    <2>1. "rescan" \notin Faults
      BY <1>2, FewFaults
    <2>2. phase # "up" \/ ~ScanSaved
      BY <1>2, NotScanning
    <2> QED
      BY <1>9, <2>1, <2>2 DEF Rescan, SwapIndex
  <1>10. CASE Stop \/ Crash
    BY <1>2, <1>10, GoneSound
  <1>11. CASE UNCHANGED vars
    <2>1. UNCHANGED <<weather, made, journal, disk, phase, index, reader, chan, batch, watching, scan, starts>>
      BY <1>11 DEF vars
    <2>2. HistoryKept' = HistoryKept /\ MaxMade' = MaxMade
      BY <1>1, SameWeather
    <2>3. Types'
      BY <1>2, <2>1, <2>2 DEF Sound, Types, NoFile
    <2>4. Kept' /\ Phases' /\ ScanSound' /\ Stored'
      BY <1>2, <2>1, <2>2
      DEF Sound, Kept, Phases, ScanSound, ScanSaved, Result, Stored, HasFile, Whole, OnDisk, NoFile
    <2>5. Messaging' /\ Reading'
      BY <1>2, <2>1, <2>2 DEF Sound, Messaging, Reading, Truthful, Reached, DesyncQueued
    <2> QED
      BY <2>3, <2>4, <2>5 DEF Sound
  <1> QED
    BY <1>3, <1>4, <1>5, <1>6, <1>7, <1>8, <1>9, <1>10, <1>11 DEF Next

-----------------------------------------------------------------------------
(***************************************************************************)
(* What follows from the invariant.                                        *)
(***************************************************************************)
\* A change is below a reader's position, and then it was reached, or is yet to
\* be read.
LEMMA AllOnTheWay ==
    ASSUME Calm, IInv PROVE NothingLost
  <1> SUFFICES ASSUME JournalsKept, Claiming, ~DesyncQueued, NEW v \in Vol
               PROVE  /\ reader[v].on
                      /\ 1 .. made[v] \subseteq index.seen[v] \cup InFlight(v) \cup Unread(v)
    BY DEF NothingLost
  <1>1. Sound /\ weather \in DOMAIN Weathers /\ watching
    BY DEF IInv, Claiming
  <1>2. reader[v].on
    BY <1>1 DEF Sound, Reading
  <1>3. made[v] \in Nat /\ made[v] <= MaxMade /\ MaxMade \in Nat /\ reader[v].next \in Nat
    BY <1>1, FewFaults DEF Sound, Types
  <1>4. Unread(v) = (1 .. made[v]) \ (1 .. reader[v].next)
    BY <1>1, <1>2, <1>3, Positions DEF Sound, Unread
  <1>5. ASSUME NEW c \in 1 .. reader[v].next, c \in Changes
        PROVE  c \in index.seen[v] \cup InFlight(v)
    <2>1. Reached(c, v, Len(chan))
      BY <1>1, <1>2 DEF Sound, Reading
    <2>2. DOMAIN chan = 1 .. Len(chan)
      BY <1>1 DEF Sound, Types
    <2>3. batch # <<>> => 1 \in DOMAIN batch
      BY <1>1 DEF Sound, Types
    <2> QED
      BY <1>5, <2>1, <2>2, <2>3 DEF Reached, InFlight
  <1>6. 1 .. made[v] \subseteq Changes
    BY <1>3 DEF Changes
  <1> QED
    BY <1>2, <1>4, <1>5, <1>6

\* A whole index is one that can be saved and started from.
LEMMA WholeCovers ==
    ASSUME Types, Kept, NEW f \in Indexes, Whole(f), NEW v \in Vol
    PROVE  /\ (1 .. made[v]) \cap Upto(v, f.next[v]) \subseteq f.seen[v]
           /\ \E k \in 0 .. made[v] : f.seen[v] = 1 .. k
  <1>1. PICK k \in 1 .. made[v] : f.seen[v] = 1 .. k /\ f.next[v] \in 1 .. k
    BY DEF Whole
  <1>2. made[v] \in Nat /\ f.next[v] \in Nat
    BY DEF Types, Indexes
  <1>3. Upto(v, f.next[v]) = 1 .. f.next[v]
    BY <1>2, Positions
  <1> QED
    BY <1>1, <1>2, <1>3

LEMMA RestartableAnyTime ==
    ASSUME Calm, IInv PROVE Restartable
  <1> SUFFICES ASSUME HistoryKept PROVE SnapshotCovers /\ PositionCovers /\ InOrder
    BY DEF Restartable
  <1>1. JournalsKept /\ Sound
    BY DEF IInv, HistoryKept
  <1>2. SnapshotCovers
    <2> SUFFICES ASSUME HasFile, NEW v \in Vol
                 PROVE  (1 .. made[v]) \cap Upto(v, OnDisk.next[v]) \subseteq OnDisk.seen[v]
      BY DEF SnapshotCovers
    <2>1. OnDisk \in Indexes /\ Whole(OnDisk)
      BY <1>1 DEF Sound, Types, HasFile, OnDisk, Stored
    <2> QED
      BY <1>1, <2>1, WholeCovers DEF Sound
  <1>3. CASE phase \in {"opening", "up"}
    <2>1. index \in Indexes /\ Whole(index)
      BY <1>1, <1>3 DEF Sound, Types, Stored
    <2> QED
      BY <1>1, <1>2, <2>1, WholeCovers DEF Sound, PositionCovers, InOrder
  <1>4. CASE phase \notin {"opening", "up"}
    <2>1. index = Blank
      BY <1>1, <1>4 DEF Sound, Types, Phases
    <2>2. ASSUME NEW v \in Vol PROVE index.seen[v] = 1 .. 0 /\ 0 \in 0 .. made[v]
      BY <1>1, <2>1 DEF Blank, Sound, Types
    <2> QED
      BY <1>2, <1>4, <2>2 DEF PositionCovers, InOrder
  <1> QED
    BY <1>3, <1>4

\* Nothing is lost on its way from a volume to the index, where journals are
\* kept and nobody asks for a Rescan: while the daemon claims that its answers
\* are live, every change is in the index, in a batch, or yet to be read by a
\* reader that is there.
THEOREM NothingIsLost == ASSUME Calm PROVE Spec => []NothingLost
  <1>1. Init => IInv
    BY InitInv
  <1>2. IInv /\ [Next]_vars => IInv'
    BY StepInv
  <1>3. IInv => NothingLost
    BY AllOnTheWay
  <1> QED
    BY <1>1, <1>2, <1>3, PTL DEF Spec

\* The process may be killed, or a checkpoint be taken, at any moment: what is
\* saved has no gaps, so a start only replays what comes after its position.
THEOREM AlwaysRestartable == ASSUME Calm PROVE Spec => []Restartable
  <1>1. Init => IInv
    BY InitInv
  <1>2. IInv /\ [Next]_vars => IInv'
    BY StepInv
  <1>3. IInv => Restartable
    BY RestartableAnyTime
  <1> QED
    BY <1>1, <1>2, <1>3, PTL DEF Spec

-----------------------------------------------------------------------------
(***************************************************************************)
(* A claim is not resumed, whatever happens to journals, and whoever asks  *)
(* for a Rescan.                                                           *)
(***************************************************************************)
Doubt == watching \in BOOLEAN /\ (desynced => ~watching)

\* What a step does to the two flags.
LEMMA Flags ==
    ASSUME [Next]_vars
    PROVE  \/ watching' = watching /\ desynced' = desynced
           \/ watching' = FALSE /\ phase' # "up"
           \/ watching' = FALSE /\ desynced' = TRUE
           \/ watching' = watching /\ desynced' = FALSE
           \/ /\ watching' \in BOOLEAN /\ (watching' => ~desynced')
              /\ phase = "opening"
  <1>1. CASE World
    BY <1>1 DEF World, MakeChange, Trim, CreateJournal, flagVars
  <1>2. CASE StartUp
    BY <1>2 DEF StartUp, LoadSnapshot, ScanAtStart, ServeScan, OpenReaders, flagVars
  <1>3. CASE ScanStep
    BY <1>3 DEF ScanStep, SaveScan, TakePosition, ReadMft, flagVars
  <1>4. CASE Readers
    BY <1>4 DEF Readers, Read, LosePlace, FailToRead, flagVars
  <1>5. CASE Applier
    BY <1>5 DEF Applier, Receive, ReceiveDesync, ApplyBatch, flagVars
  <1>6. CASE Checkpoint \/ Rescan \/ SwapIndex
    BY <1>6 DEF Checkpoint, Rescan, SwapIndex, flagVars
  <1>7. CASE Stop \/ Crash
    BY <1>7 DEF Stop, Crash, Gone
  <1>8. CASE UNCHANGED vars
    BY <1>8 DEF vars
  <1> QED
    BY <1>1, <1>2, <1>3, <1>4, <1>5, <1>6, <1>7, <1>8 DEF Next

\* What opened a gap closes it for `desynced`, never for `watching`: a daemon
\* that did not claim to be live does not claim it again until it is restarted.
THEOREM ClaimStays == Spec => ClaimNotResumed
  <1>1. Init => Doubt
    BY DEF Init, Doubt
  <1>2. Doubt /\ [Next]_vars => Doubt'
    <2> SUFFICES ASSUME Doubt, [Next]_vars PROVE Doubt'
      OBVIOUS
    <2>1. CASE watching' = watching /\ desynced' = desynced
      BY <2>1 DEF Doubt
    <2>2. CASE watching' = FALSE
      BY <2>2 DEF Doubt
    <2>3. CASE watching' = watching /\ desynced' = FALSE
      BY <2>3 DEF Doubt
    <2>4. CASE watching' \in BOOLEAN /\ (watching' => ~desynced')
      BY <2>4 DEF Doubt
    <2> QED
      BY <2>1, <2>2, <2>3, <2>4, Flags
  <1>3. Doubt /\ [Next]_vars =>
          [phase = "up" /\ phase' = "up" /\ ~Claiming => ~Claiming']_vars
    BY Flags DEF Doubt, Claiming
  <1> QED
    BY <1>1, <1>2, <1>3, PTL DEF Spec, ClaimNotResumed

-----------------------------------------------------------------------------
(***************************************************************************)
(* The daemon implements Follower.                                         *)
(***************************************************************************)
\* What Follower's variables stand for where journals keep their history.
LEMMA Seen ==
    ASSUME HistoryKept
    PROVE  /\ Follow!state = <<made, phase \in {"opening", "up"}, index.seen,
                               IF HasFile THEN OnDisk.seen ELSE Blank.seen>>
           /\ Follow!Nothing = Blank.seen
  BY DEF Follow!state, Follow!Nothing, Blank

\* A whole index holds a prefix of every volume's changes.
LEMMA WholePrefixes ==
    ASSUME Types, HistoryKept, NEW f \in Indexes, Whole(f),
           NEW low, \A v \in Vol : low[v] \subseteq f.seen[v]
    PROVE  f.seen \in Follow!Prefixes(low)
  <1>1. ASSUME NEW v \in Vol
        PROVE  /\ f.seen[v] \subseteq 1 .. made[v]
               /\ f.seen[v] \in {1 .. k : k \in UNION {0 .. made[w] : w \in Vol}}
    <2>1. PICK k \in 1 .. made[v] : f.seen[v] = 1 .. k
      BY DEF Whole
    <2>2. made[v] \in Nat
      BY DEF Types
    <2>3. k \in UNION {0 .. made[w] : w \in Vol}
      BY <2>1, <2>2
    <2> QED
      BY <2>1, <2>2, <2>3
  <1>2. f.seen \in [Vol -> {1 .. k : k \in UNION {0 .. made[w] : w \in Vol}}]
    BY <1>1 DEF Indexes
  <1> QED
    BY <1>1, <1>2 DEF Follow!Prefixes

LEMMA FollowStep ==
    ASSUME Calm, IInv, IInv', [Next]_vars, HistoryKept
    PROVE  [Follow!Next]_Follow!state
  <1>0. JournalsKept /\ weather \in DOMAIN Weathers /\ Sound
    BY DEF IInv, HistoryKept
  <1>1. weather' = weather
    BY DEF Next, World, StartUp, ScanStep, Readers, Applier, MakeChange, Trim, CreateJournal,
           LoadSnapshot, ScanAtStart, ServeScan, OpenReaders, SaveScan, TakePosition, ReadMft,
           Read, LosePlace, FailToRead, Receive, ReceiveDesync, ApplyBatch, Checkpoint, Rescan,
           SwapIndex, Stop, Crash, Gone, environment, vars
  <1>2. HistoryKept' /\ JournalsKept'
    BY <1>0, <1>1, SameWeather
  <1>3. Sound'
    BY <1>2 DEF IInv
  <1> DEFINE running == phase \in {"opening", "up"}
             saved == IF HasFile THEN OnDisk.seen ELSE Blank.seen
             Steady == UNCHANGED <<made, running, index, disk>>
  <1>4. Steady => UNCHANGED Follow!state
    BY <1>2 DEF Follow!state, HasFile, OnDisk
  <1>5. CASE World
    <2>1. PICK v \in Vol : MakeChange(v) \/ Trim(v)
      BY <1>0, <1>5, NoFailure DEF World
    <2>2. CASE MakeChange(v)
      <3>1. made' = [made EXCEPT ![v] = @ + 1] /\ UNCHANGED <<disk, phase, index>>
        BY <2>2 DEF MakeChange
      <3>2. Follow!Change(v)
        BY <1>2, <3>1 DEF Follow!Change, HasFile, OnDisk
      <3> QED
        BY <3>2 DEF Follow!Next
    <2>3. CASE Trim(v)
      BY <1>4, <2>3 DEF Trim
    <2> QED
      BY <2>1, <2>2, <2>3
  <1>6. CASE LoadSnapshot
    <2>1. /\ phase = "down" /\ phase' = "opening" /\ HasFile /\ index' = OnDisk
          /\ UNCHANGED <<made, disk>>
      BY <1>6 DEF LoadSnapshot, environment
    <2>2. OnDisk \in Indexes /\ Whole(OnDisk)
      BY <1>0, <2>1 DEF Sound, Types, HasFile, OnDisk, Stored
    <2>3. index'.seen \in Follow!Prefixes(OnDisk.seen)
      BY <1>0, <2>1, <2>2, WholePrefixes DEF Sound
    <2>4. Follow!Start
      BY <1>2, <2>1, <2>3 DEF Follow!Start, HasFile, OnDisk
    <2> QED
      BY <2>4 DEF Follow!Next
  <1>7. CASE ServeScan
    <2>1. /\ phase = "scanning" /\ phase' = "opening" /\ index' = Result /\ ScanSaved
          /\ UNCHANGED <<made, disk>>
      BY <1>7 DEF ServeScan, environment
    <2>2. disk = <<Result>>
      BY <1>0, <2>1 DEF Sound, ScanSound
    <2>3. Result \in Indexes /\ Whole(Result) /\ HasFile /\ OnDisk = Result
      BY <1>0, <2>1, <2>2, ScannedWhole DEF Sound, ScanSaved, HasFile, OnDisk, NoFile
    <2>4. index'.seen \in Follow!Prefixes(OnDisk.seen)
      BY <1>0, <2>1, <2>3, WholePrefixes DEF Sound
    <2>5. Follow!Start
      BY <1>2, <2>1, <2>3, <2>4 DEF Follow!Start, HasFile, OnDisk
    <2> QED
      BY <2>5 DEF Follow!Next
  <1>8. CASE ScanAtStart \/ OpenReaders
    <2>1. (phase = "down" /\ phase' = "scanning") \/ (phase = "opening" /\ phase' = "up")
      BY <1>8 DEF ScanAtStart, OpenReaders
    <2>2. UNCHANGED <<made, index, disk>>
      BY <1>8 DEF ScanAtStart, OpenReaders, environment
    <2>3. running' = running
      BY <2>1
    <2> QED
      BY <1>4, <2>2, <2>3
  <1>9. CASE ScanStep
    <2>1. CASE SaveScan
      <3>1. /\ phase = "scanning" /\ phase' = phase /\ disk' = <<Result>> /\ ScanDone
            /\ UNCHANGED <<made, index>>
        BY <1>0, <2>1, NotScanning DEF SaveScan, environment
      <3>2. ~ScanSaved
        BY <3>1 DEF ScanDone, ScanSaved, Calm
      <3>3. disk = NoFile
        BY <1>0, <3>1, <3>2 DEF Sound, ScanSound
      <3>4. Result \in Indexes /\ Whole(Result)
        BY <1>0, <3>1, ScannedWhole DEF Sound, ScanDone
      <3>5. \A v \in Vol : Blank.seen[v] \subseteq Result.seen[v]
        BY DEF Blank
      <3>6. Result.seen \in Follow!Prefixes(Blank.seen)
        BY <1>0, <3>4, <3>5, WholePrefixes DEF Sound
      <3>7. ~HasFile /\ HasFile' /\ OnDisk' = Result
        BY <3>1, <3>3 DEF HasFile, OnDisk, NoFile
      <3>8. Follow!SaveScan
        BY <1>2, <3>1, <3>6, <3>7 DEF Follow!SaveScan
      <3> QED
        BY <3>8 DEF Follow!Next
    <2>2. CASE \E v \in Vol : TakePosition(v) \/ ReadMft(v)
      BY <1>4, <2>2 DEF TakePosition, ReadMft, environment
    <2> QED
      BY <1>9, <2>1, <2>2 DEF ScanStep
  <1>10. CASE Readers
    BY <1>4, <1>10 DEF Readers, Read, LosePlace, FailToRead, environment
  <1>11. CASE Receive \/ ReceiveDesync
    BY <1>4, <1>11 DEF Receive, ReceiveDesync, environment
  <1>12. CASE ApplyBatch
    <2>1. phase = "up" /\ phase' = phase /\ UNCHANGED <<made, disk>> /\ batch # <<>>
      BY <1>12 DEF ApplyBatch, environment
    <2>2. PICK m \in Messages : batch = <<m>>
      BY <1>0, <2>1 DEF Sound, Types
    <2>3. \A v \in Vol : index.seen[v] \subseteq index'.seen[v]
      BY <1>0, <1>12, <2>2, Applied DEF Sound
    <2>4. index' \in Indexes /\ Whole(index)'
      BY <1>2, <1>3, <2>1 DEF Sound, Types, Stored
    <2>5. Whole(index')
      BY <2>1, <2>4 DEF Whole
    <2>6. index'.seen \in Follow!Prefixes(index.seen)
      BY <1>0, <2>3, <2>4, <2>5, WholePrefixes DEF Sound
    <2>7. Follow!CatchUp
      BY <1>2, <2>1, <2>6 DEF Follow!CatchUp, HasFile, OnDisk
    <2> QED
      BY <2>7 DEF Follow!Next
  <1>13. CASE Checkpoint
    <2>1. /\ phase = "up" /\ phase' = phase /\ disk' = <<index>> /\ UNCHANGED <<made, index>>
      BY <1>13 DEF Checkpoint, environment
    <2>2. HasFile' /\ OnDisk' = index
      BY <2>1 DEF HasFile, OnDisk, NoFile
    <2>3. Follow!Save
      BY <1>2, <2>1, <2>2 DEF Follow!Save
    <2> QED
      BY <2>3 DEF Follow!Next
  <1>14. CASE Rescan \/ SwapIndex
    <2>1. "rescan" \notin Faults /\ (phase # "up" \/ ~ScanSaved)
      BY <1>0, FewFaults, NotScanning
    <2> QED
      BY <1>14, <2>1 DEF Rescan, SwapIndex
  <1>15. CASE Stop \/ Crash
    <2>1. /\ phase' = "down" /\ index' = Blank /\ UNCHANGED made
          /\ phase # "down"
          /\ disk' = disk \/ (phase = "up" /\ disk' = <<index>>)
      BY <1>15 DEF Stop, Crash, Gone, environment
    <2>2. CASE phase = "scanning"
      <3>1. index = Blank /\ disk' = disk
        BY <1>0, <2>1, <2>2 DEF Sound, Phases
      <3>2. Steady
        BY <2>1, <2>2, <3>1
      <3> QED
        BY <1>4, <3>2
    <2>3. CASE running
      <3>1. saved' \in {saved, index.seen}
        <4>1. CASE disk' = disk
          BY <4>1 DEF HasFile, OnDisk
        <4>2. CASE disk' = <<index>>
          BY <4>2 DEF HasFile, OnDisk, NoFile
        <4> QED
          BY <2>1, <4>1, <4>2
      <3>2. Follow!Nothing = Blank.seen
        BY Seen
      <3>3. Follow!Stop
        BY <1>2, <2>1, <2>3, <3>1, <3>2 DEF Follow!Stop
      <3> QED
        BY <3>3 DEF Follow!Next
    <2> QED
      BY <1>0, <2>1, <2>2, <2>3 DEF Sound, Types
  <1>16. CASE UNCHANGED vars
    BY <1>4, <1>16 DEF vars
  <1> QED
    BY <1>5, <1>6, <1>7, <1>8, <1>9, <1>10, <1>11, <1>12, <1>13, <1>14, <1>15, <1>16
    DEF Next, StartUp, Applier

\* Where a journal loses history, or there is none, Follower has nothing to say.
LEMMA NoHistory ==
    ASSUME [Next]_vars, ~HistoryKept
    PROVE  UNCHANGED Follow!state
  <1>1. weather' = weather
    BY DEF Next, World, StartUp, ScanStep, Readers, Applier, MakeChange, Trim, CreateJournal,
           LoadSnapshot, ScanAtStart, ServeScan, OpenReaders, SaveScan, TakePosition, ReadMft,
           Read, LosePlace, FailToRead, Receive, ReceiveDesync, ApplyBatch, Checkpoint, Rescan,
           SwapIndex, Stop, Crash, Gone, environment, vars
  <1>2. ~HistoryKept'
    BY <1>1, SameWeather
  <1> QED
    BY <1>2 DEF Follow!state

\* The readers, the channel, the applier, the checkpoints and the restarts of
\* the daemon implement a follower: what is served only grows while the daemon
\* runs, without gaps, and a start serves at least what was saved.
THEOREM ImplementsFollower == ASSUME Calm PROVE Spec => Follows
  <1>1. Init => IInv
    BY InitInv
  <1>2. IInv /\ [Next]_vars => IInv'
    BY StepInv
  <1>3. Init => Follow!Init
    BY DEF Init, Follow!Init, Follow!Nothing, Blank, HasFile
  <1>4. IInv /\ IInv' /\ [Next]_vars => [Follow!Next]_Follow!state
    BY FollowStep, NoHistory
  <1> QED
    BY <1>1, <1>2, <1>3, <1>4, PTL DEF Spec, Follows, Follow!Spec

=============================================================================
