------------------------------ MODULE NtfsScan ------------------------------
(***************************************************************************)
(* Reading a volume's file table: the record's update sequence and its     *)
(* attributes (record.rs), the entry they make and the batches entries are *)
(* gathered in (mft.rs), the sweep over the table's runs in chunks that    *)
(* are parsed in parallel (volume.rs).                                     *)
(*                                                                         *)
(* A record is what its fields say: whether it is in use, the file it      *)
(* extends, its attributes in order.  Places on the disk are counted in    *)
(* units of which a cluster and a record take a whole number.              *)
(***************************************************************************)
EXTENDS Integers, Sequences, SequencesExt

CONSTANTS
    Disks,        \* volumes: clusters, runs, the records of the table
    RootRecord,   \* below FIRST_USER_RECORD
    Threads       \* rayon's

VARIABLES
    disk,   \* the volume that is read
    sweep,  \* run and place in it, and how the sweep stands
    out     \* the batch so far

scanVars == <<disk, sweep, out>>

Hole == -1   \* lcn of a run that is not on the disk

(***************************************************************************)
(* record.rs: what a record must be to be read.                            *)
(***************************************************************************)

\* magic: the header says FILE and holds an array that fits.  Every sector ends
\* in the record's sequence number; the bytes that belong there come from the
\* array.  Nothing when a sector is of another write.
ApplyFixups(rec) ==
    IF /\ rec.magic /\ Len(rec.usa) <= Len(rec.tails)
       /\ \A i \in DOMAIN rec.usa : rec.tails[i] = rec.usn
    THEN <<[rec EXCEPT !.tails = rec.usa \o SubSeq(@, Len(rec.usa) + 1, Len(@))]>>
    ELSE <<>>

\* The iterator ends at the end marker, at the used size and at the first
\* attribute that does not fit.
Attributes(rec) ==
    LET stops == {i \in DOMAIN rec.attrs : rec.attrs[i].ty \in {"end", "bad"} \/ i > rec.used}
    IN  IF stops = {} THEN rec.attrs
        ELSE SubSeq(rec.attrs, 1, (CHOOSE i \in stops : \A j \in stops : i <= j) - 1)

(***************************************************************************)
(* mft.rs: one record.                                                     *)
(***************************************************************************)
NamespaceRank(ns) == CASE ns = "win32dos" -> 4 [] ns = "win32" -> 3 [] ns = "posix" -> 2 [] ns = "dos" -> 1
                       [] OTHER -> 0

NoName == [rank |-> 0, name |-> <<>>, parent |-> 0, size |-> 0, alloc |-> 0]
\* The name kept while the attributes are walked: a better namespace wins.
BetterName(kept, a) ==
    IF a.ty = "name" /\ a.name # <<>> /\ NamespaceRank(a.ns) > kept.rank
    THEN [rank |-> NamespaceRank(a.ns), name |-> a.name, parent |-> a.parent, size |-> a.size, alloc |-> a.alloc]
    ELSE kept
BestName(attrs) == FoldLeft(BetterName, NoName, attrs)

\* The unnamed data stream: its first fragment holds the size.
FirstData(attrs) == SelectSeq(attrs, LAMBDA a : a.ty = "data" /\ ~a.named /\ a.first)
DosFlag == [readonly |-> "READONLY", hidden |-> "HIDDEN", system |-> "SYSTEM", reparse |-> "REPARSE",
            compressed |-> "COMPRESSED", sparse |-> "SPARSE", encrypted |-> "ENCRYPTED"]
FlagsOf(rec, no, attrs) ==
    LET Of(a) == CASE a.ty = "info" -> {DosFlag[d] : d \in a.dos}
                   [] a.ty = "reparse" -> {"REPARSE"}
                   [] a.ty = "data" -> (IF a.named THEN {"HAS_ADS"} ELSE {}) \cup (IF a.sparse THEN {"SPARSE"} ELSE {})
                   [] OTHER -> {}
    IN  (IF rec.dir THEN {"DIRECTORY"} ELSE {}) \cup (IF no <= RootRecord THEN {"METADATA", "SYSTEM"} ELSE {})
        \cup (IF rec.links > 1 THEN {"HARD_LINK"} ELSE {}) \cup UNION {Of(attrs[i]) : i \in DOMAIN attrs}

Skip == [is |-> "skip"]
Extension(rec, attrs) ==
    LET data == FirstData(attrs)
    IN  [is |-> "extension", base |-> rec.base, best |-> BestName(attrs),
         data |-> IF data = <<>> THEN <<>> ELSE <<[size |-> data[1].size, alloc |-> data[1].alloc]>>]
Entry(rec, no, attrs) ==
    LET best == BestName(attrs)
        data == FirstData(attrs)
        elsewhere == \E i \in DOMAIN attrs : attrs[i].ty = "list"
        from == IF rec.dir THEN NoName
                ELSE IF data # <<>> THEN data[1] ELSE IF elsewhere THEN best ELSE NoName
    IN  [is |-> "entry", no |-> no, parent |-> best.parent, name |-> best.name, rank |-> best.rank,
         size |-> from.size, alloc |-> from.alloc, flags |-> FlagsOf(rec, no, attrs)]
ParseRecord(rec, no) ==
    IF ~rec.inUse THEN Skip
    ELSE LET attrs == Attributes(rec)
         IN  IF rec.base # 0 THEN Extension(rec, attrs)
             ELSE IF BestName(attrs).name = <<>> THEN Skip ELSE Entry(rec, no, attrs)

(***************************************************************************)
(* mft.rs: batches.  The names lie in one arena, an entry has its offset.  *)
(***************************************************************************)
EmptyBatch == [entries |-> <<>>, names |-> <<>>, spill |-> <<>>, nameSpill |-> <<>>]
Name(b, i) == SubSeq(b.names, b.entries[i].off + 1, b.entries[i].off + b.entries[i].len)
Push(b, e) ==
    [b EXCEPT !.names = @ \o e.name,
              !.entries = Append(@, [no |-> e.no, parent |-> e.parent, off |-> Len(b.names), len |-> Len(e.name),
                                     size |-> e.size, alloc |-> e.alloc, flags |-> e.flags, rank |-> e.rank])]

Merge(b, other) ==
    [entries |-> b.entries \o [i \in DOMAIN other.entries |-> [other.entries[i] EXCEPT !.off = @ + Len(b.names)]],
     names |-> b.names \o other.names,
     spill |-> b.spill \o other.spill, nameSpill |-> b.nameSpill \o other.nameSpill]

\* parse_chunk: records that are torn or make no sense cost one file each.
Gather(b, rec, no) ==
    LET whole == ApplyFixups(rec)
        p == IF whole = <<>> THEN Skip ELSE ParseRecord(whole[1], no)
    IN  CASE p.is = "entry" -> Push(b, p)
          [] p.is = "extension" ->
               [b EXCEPT !.spill = IF p.data = <<>> THEN @ ELSE Append(@, [base |-> p.base, data |-> p.data[1]]),
                         !.nameSpill = IF p.best.rank = 0 THEN @ ELSE Append(@, [base |-> p.base, best |-> p.best])]
          [] OTHER -> b
ParseChunk(recs, first) ==
    FoldLeft(LAMBDA b, i : Gather(b, recs[i], first + i - 1), EmptyBatch, [i \in DOMAIN recs |-> i])

\* The candidate of a record: the best rank, the first of those.
CandidateOf(b, no) ==
    FoldLeft(LAMBDA kept, s : IF s.base = no /\ s.best.rank > kept.rank THEN s.best ELSE kept, NoName, b.nameSpill)

\* The arena is built anew in the order of the entries.
ApplyNameSpill(b) ==
    LET better(i) == CandidateOf(b, b.entries[i].no).rank > b.entries[i].rank
        name(i) == IF better(i) THEN CandidateOf(b, b.entries[i].no).name ELSE Name(b, i)
        Rebuilt(built, i) ==
            [names |-> built.names \o name(i),
             entries |-> Append(built.entries,
                 [b.entries[i] EXCEPT !.off = Len(built.names), !.len = Len(name(i)),
                    !.parent = IF better(i) THEN CandidateOf(b, b.entries[i].no).parent ELSE @])]
        built == FoldLeft(Rebuilt, [names |-> <<>>, entries |-> <<>>], [i \in DOMAIN b.entries |-> i])
    IN  IF \E i \in DOMAIN b.entries : better(i)
        THEN [b EXCEPT !.names = built.names, !.entries = built.entries] ELSE b
ApplySpill(b) ==
    LET named == ApplyNameSpill(b)
        of(no) == SelectSeq(b.spill, LAMBDA s : s.base = no)
        Sized(e) == IF of(e.no) = <<>> \/ "DIRECTORY" \in e.flags THEN e
                    ELSE [e EXCEPT !.size = of(e.no)[1].data.size, !.alloc = of(e.no)[1].data.alloc]
    IN  [named EXCEPT !.entries = [i \in DOMAIN @ |-> Sized(@[i])]]

(***************************************************************************)
(* The volume: which records a read at a place of the disk returns.        *)
(***************************************************************************)
RecordAt(no) == disk.records[no + 1]
\* The record that starts at a place, by the run that holds the place.
ReadAt(place) ==
    LET r == CHOOSE i \in DOMAIN disk.runs :
                 /\ disk.runs[i].lcn # Hole
                 /\ disk.runs[i].lcn * disk.cluster <= place
                 /\ place < (disk.runs[i].lcn + disk.runs[i].length) * disk.cluster
    IN  RecordAt(((disk.runs[r].vcn - disk.runs[r].lcn) * disk.cluster + place) \div disk.record)

(***************************************************************************)
(* volume.rs: the sweep.                                                   *)
(***************************************************************************)
SmallerOf(a, b) == IF a < b THEN a ELSE b
RECURSIVE Gcd(_, _)
Gcd(a, b) == IF b = 0 THEN a ELSE Gcd(b, a % b)
Lcm(a, b) == (a \div Gcd(a, b)) * b
\* Whole clusters and whole records, near the wanted size.
ChunkSize ==
    LET step == Lcm(disk.cluster, disk.record)
    IN  step * (IF disk.chunk \div step > 1 THEN disk.chunk \div step ELSE 1)
TheRun == disk.runs[sweep.run]

\* A hole, or a run that starts inside a record.
SkipRun ==
    /\ sweep.pc = "run" /\ sweep.run <= Len(disk.runs)
    /\ TheRun.lcn = Hole \/ (TheRun.vcn * disk.cluster) % disk.record # 0
    /\ sweep' = [sweep EXCEPT !.run = @ + 1] /\ UNCHANGED <<disk, out>>
EnterRun ==
    /\ sweep.pc = "run" /\ sweep.run <= Len(disk.runs)
    /\ TheRun.lcn # Hole /\ (TheRun.vcn * disk.cluster) % disk.record = 0
    /\ sweep' = [sweep EXCEPT !.pc = "chunk", !.done = 0] /\ UNCHANGED <<disk, out>>

\* How much is read next: whole records only.
Wanted == LET n == SmallerOf(TheRun.length * disk.cluster - sweep.done, ChunkSize)
          IN  n - (n % disk.record)
LeaveRun ==
    /\ sweep.pc = "chunk" /\ Wanted = 0
    /\ sweep' = [sweep EXCEPT !.pc = "run", !.run = @ + 1] /\ UNCHANGED <<disk, out>>
\* Bug: the parts count their records from the chunk, not from their own start.
PartsOfChunk(recs, first, per) ==
    [p \in 1..((Len(recs) + per - 1) \div per) |->
        ParseChunk(SubSeq(recs, (p - 1) * per + 1, SmallerOf(p * per, Len(recs))), first)]

\* The pool parses equal parts of the chunk, each into a batch of its own.
Parts(recs, first, per) ==
    [p \in 1..((Len(recs) + per - 1) \div per) |->
        ParseChunk(SubSeq(recs, (p - 1) * per + 1, SmallerOf(p * per, Len(recs))), first + (p - 1) * per)]
ReadChunk ==
    /\ sweep.pc = "chunk" /\ Wanted > 0
    /\ LET count == Wanted \div disk.record
           first == (TheRun.vcn * disk.cluster + sweep.done) \div disk.record
           recs == [i \in 1..count |-> ReadAt(TheRun.lcn * disk.cluster + sweep.done + (i - 1) * disk.record)]
           per == IF count \div Threads > 1 THEN count \div Threads ELSE 1
       IN  out' = FoldLeft(Merge, out, Parts(recs, first, per))
    /\ sweep' = [sweep EXCEPT !.done = @ + Wanted] /\ UNCHANGED disk
\* A read that fails fails the whole scan.
ReadFails ==
    /\ sweep.pc = "chunk" /\ Wanted > 0
    /\ sweep' = [sweep EXCEPT !.pc = "failed"] /\ UNCHANGED <<disk, out>>
Finish ==
    /\ sweep.pc = "run" /\ sweep.run > Len(disk.runs)
    /\ sweep' = [sweep EXCEPT !.pc = "done"] /\ out' = ApplySpill(out) /\ UNCHANGED disk

ScanInit ==
    /\ disk \in Disks
    /\ sweep = [pc |-> "run", run |-> 1, done |-> 0] /\ out = EmptyBatch
ScanNext == SkipRun \/ EnterRun \/ LeaveRun \/ ReadChunk \/ ReadFails \/ Finish

(***************************************************************************)
(* Properties.                                                             *)
(***************************************************************************)
\* What the table says of a file, wherever its attributes lie and however the
\* sweep is cut: the names of the file's records, best first.
Readable(no) == LET r == RecordAt(no) IN r.inUse /\ r.magic /\ \A t \in DOMAIN r.tails : r.tails[t] = r.usn
Nos == 0..(Len(disk.records) - 1)
Swept(no) == \E i \in DOMAIN disk.runs : LET r == disk.runs[i] IN
    /\ r.lcn # Hole /\ (r.vcn * disk.cluster) % disk.record = 0
    /\ r.vcn * disk.cluster <= no * disk.record
    /\ (no + 1) * disk.record <= (r.vcn + r.length) * disk.cluster
Part(no) == {m \in Nos : Readable(m) /\ Swept(m) /\ (m = no \/ RecordAt(m).base = no)}
Files == {no \in Nos : Readable(no) /\ Swept(no) /\ RecordAt(no).base = 0
                       /\ BestName(Attributes(RecordAt(no))).rank > 0}
NamesOf(no) == UNION {{Attributes(RecordAt(m))[i] : i \in {i \in DOMAIN Attributes(RecordAt(m)) :
                          Attributes(RecordAt(m))[i].ty = "name" /\ Attributes(RecordAt(m))[i].name # <<>>}} : m \in Part(no)}
DataOf(no) == UNION {{FirstData(Attributes(RecordAt(m)))[i] : i \in DOMAIN FirstData(Attributes(RecordAt(m)))} : m \in Part(no)}

\* Whatever run, chunk and thread a file's records fall into, the scan has the
\* file once, under its number, called by a name no other of its names
\* outranks and in that name's folder, with the size of its data stream even
\* when that lies in another record; a torn record costs its own file alone.
ScanIsFaithful ==
    sweep.pc = "done" =>
        /\ {out.entries[i].no : i \in DOMAIN out.entries} = Files
        /\ \A i, j \in DOMAIN out.entries : i # j => out.entries[i].no # out.entries[j].no
        /\ \A i \in DOMAIN out.entries : LET e == out.entries[i] IN
             /\ \E a \in NamesOf(e.no) :
                  /\ a.name = Name(out, i) /\ a.parent = e.parent
                  /\ \A b \in NamesOf(e.no) : NamespaceRank(b.ns) <= NamespaceRank(a.ns)
             /\ RecordAt(e.no).dir => e.size = 0
             /\ \A d \in DataOf(e.no) : ~RecordAt(e.no).dir => e.size = d.size /\ e.alloc = d.alloc

\* The search scans the arena in order: names lie back to back, in the order
\* of the entries, after every merge and after names were replaced.
ArenaInOrder ==
    \A i \in DOMAIN out.entries :
        out.entries[i].off = IF i = 1 THEN 0 ELSE out.entries[i - 1].off + out.entries[i - 1].len
=============================================================================
