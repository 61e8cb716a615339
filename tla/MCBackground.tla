---------------------------- MODULE MCBackground ----------------------------
(***************************************************************************)
(* The parts that work out of sight, each in small instances of its own:   *)
(* reading a volume and the cluster map of its file table, the snapshot    *)
(* file, the service and its pipe, the frames on a connection, the         *)
(* duplicate finder and the update check.  They share nothing: a behaviour *)
(* is one of one part, and the others rest in an initial state of theirs.  *)
(* Those whose constants the run gives and whose properties are proved     *)
(* beside it are extended, the others are instances.                       *)
(***************************************************************************)
EXTENDS SnapshotFile, Serving, Dupes, Update, TLC

VARIABLES
    part,                                               \* the part that runs
    volume, sweep, out,                                 \* NtfsScan
    runs,                                               \* RunList: what is written or read
    talk, wire, peer                                    \* Frames

-----------------------------------------------------------------------------
(***************************************************************************)
(* NtfsScan: three tables of four records.  They hold whole files, a file  *)
(* whose name or data lies in another record, such records, hard links,    *)
(* and malformed, torn and unused ones; in one run, in two that are not in *)
(* order, and in runs with a hole and with records across their ends.      *)
(***************************************************************************)
NameAttr(ns, name, parent) ==
    [ty |-> "name", ns |-> ns, name |-> name, parent |-> parent, size |-> 7, alloc |-> 8]
DataAttr(size) ==
    [ty |-> "data", named |-> FALSE, first |-> TRUE, sparse |-> FALSE, size |-> size,
     alloc |-> size + 1]
List == [ty |-> "list"]
Rec(base, isDir, attrs) ==
    [magic |-> TRUE, usn |-> 1, usa |-> <<0, 0>>, tails |-> <<1, 1>>, inUse |-> TRUE,
     base |-> base, dir |-> isDir, links |-> 1, used |-> 9, attrs |-> attrs]
Root   == Rec(0, TRUE, <<NameAttr("win32dos", <<".">>, 0)>>)
Torn(r) == [r EXCEPT !.tails = <<1, 2>>]
Unused == [Rec(0, FALSE, <<>>) EXCEPT !.inUse = FALSE]

Bases ==
    {Rec(0, FALSE, <<NameAttr("win32dos", <<"a">>, 0), DataAttr(3)>>),
     Rec(0, TRUE, <<List, NameAttr("dos", <<"p", "1">>, 0)>>),
     Rec(0, FALSE, <<List, NameAttr("win32", <<"l">>, 0), NameAttr("dos", <<"d">>, 0)>>),
     Rec(0, FALSE, <<[ty |-> "info", dos |-> {"hidden"}], NameAttr("posix", <<"q">>, 0),
                     NameAttr("win32", <<"w">>, 1), [DataAttr(4) EXCEPT !.named = TRUE],
                     [ty |-> "end"], DataAttr(9)>>),
     Torn(Rec(0, FALSE, <<NameAttr("win32dos", <<"a">>, 0)>>)), Unused}
Extensions ==
    {Rec(b, FALSE, as) : b \in 1 .. 3,
       as \in {<<NameAttr("win32", <<"l", "o", "n">>, 1)>>, <<DataAttr(5)>>,
               <<NameAttr("dos", <<"s">>, 1), [ty |-> "bad"], DataAttr(6)>>}}
Tables == {<<Root, x, y, z>> : x, z \in Bases \cup Extensions, y \in Bases}

Reader == INSTANCE NtfsScan WITH Disks <- {}, RootRecord <- 0, Threads <- 2, disk <- volume

\* A file has one first fragment of its data, and extension records of its own.
Real(t) ==
    \A b \in 1 .. 3 :
        /\ Cardinality({m \in 1 .. 3 :
               (m = b \/ t[m + 1].base = b) /\ Reader!FirstData(Reader!Attributes(t[m + 1])) # <<>>}) <= 1
        /\ \A m \in 1 .. 3 : t[m + 1].base = b => m # b /\ t[b + 1].base = 0

Run(vcn, lcn, length) == [vcn |-> vcn, lcn |-> lcn, length |-> length]
Layouts ==
    {[cluster |-> 2, record |-> 2, chunk |-> 4, runs |-> <<Run(0, 5, 3), Run(3, 1, 1)>>],
     [cluster |-> 4, record |-> 1, chunk |-> 1, runs |-> <<Run(0, 0, 1)>>],
     [cluster |-> 1, record |-> 2, chunk |-> 9,
      runs |-> <<Run(0, 9, 2), Run(2, Reader!Hole, 2), Run(4, 1, 3), Run(7, 5, 1)>>]}
MCDisks ==
    {l @@ [records |-> t] : l \in Layouts, t \in {t \in Tables : Real(t)}}

Ntfs == INSTANCE NtfsScan WITH Disks <- MCDisks, RootRecord <- 0, Threads <- 2, disk <- volume

-----------------------------------------------------------------------------
(***************************************************************************)
(* RunList: bytes of sixteen values and numbers of at most two of them;    *)
(* two runs at every edge of those, and every three bytes there are.       *)
(***************************************************************************)
Lists == INSTANCE RunList WITH Nibble <- 4, MaxWidth <- 2

OnDisk(places, lengths) == {[vcn |-> 0, lcn |-> l, length |-> n] : l \in places, n \in lengths}
RunPairs ==
    {[runs |-> <<one, two>>, bytes |-> <<>>] :
       one \in OnDisk({-1, 0, 1, 7, 8, 127}, {1, 15, 16, 255}),
       two \in OnDisk({-1, 0, 1, 7, 8, 127}, {1, 15, 16})}
AnyBytes ==
    {[runs |-> <<>>, bytes |-> b] : b \in UNION {[1 .. n -> 0 .. 15] : n \in 1 .. 3}}
NoRuns == [runs |-> <<>>, bytes |-> <<>>]
MCRuns == RunPairs \cup AnyBytes
MaxClusters == 20

-----------------------------------------------------------------------------
\* SnapshotFile: two starts, a change of the index and one of the configuration.
MCNewNames == {<<"b", "c">>}
MCScanned == [off |-> <<0, 1>>, len |-> <<1, 1>>, arena |-> <<"r", "a">>,
              overridden |-> {}, over |-> <<>>, pruned |-> {}]

-----------------------------------------------------------------------------
(***************************************************************************)
(* Frames: a request and a status request behind it.  Names: one with a    *)
(* two-byte character, one that is cut inside of such a character, one     *)
(* that is too long.                                                       *)
(***************************************************************************)
Accented == <<97, 195, 169>>
CutInside == <<97, 97, 97, 195, 169>>
TooLong == <<97, 98, 99, 100, 101, 102>>
ARow(s) == <<s, 300, 7, 1, 2, 5>>
Requests ==
    {[kind |-> "search",
      fields |-> <<Accented, 0, 1, <<Accented>>, <<258>>, <<>>, <<>>, 1, 0, 0, 2, 9, 50>>],
     [kind |-> "dupes", fields |-> <<1, 25, <<TooLong>>>>], [kind |-> "rescan", fields |-> <<>>]}
Replies ==
    {[kind |-> "rows", fields |-> <<2, 70000, <<ARow(Accented), ARow(TooLong)>>>>],
     [kind |-> "rows", fields |-> <<1, 1, <<ARow(CutInside)>>>>],
     [kind |-> "rows", fields |-> <<3, 0, <<ARow(Accented), ARow(Accented), ARow(Accented)>>>>],
     [kind |-> "dupesInfo", fields |-> <<9, 1, << <<4, 4, <<ARow(Accented)>>>>, <<5, 5, <<>>>> >>>>],
     [kind |-> "statusInfo", fields |-> <<5, 6, 1, 9, << <<<<67>>, 1, 2, 3, 1>> >>>>],
     [kind |-> "sizeInfo", fields |-> <<Accented, 1, 2, 3, <<>>>>],
     [kind |-> "error", fields |-> <<TooLong>>]}
Status == [kind |-> "status", fields |-> <<>>]

FrameLimit == 90
Writer == INSTANCE Frames WITH MaxString <- 4, MaxRows <- 3, MaxFrame <- FrameLimit, Talks <- {}
\* Too large for a frame, or with a name that is cut inside a character.
Beyond(r) ==
    \/ Len(Writer!Encode(Writer!ResponseTag, Writer!ResponseFields, r)) > FrameLimit
    \/ r.kind = "rows" /\ Len(r.fields[3]) = 1
Exchange(q, r) == [request |-> q, reply |-> r, beyond |-> Beyond(r)]
MCTalks == {<<Exchange(q, r), Exchange(Status, s)>> : q \in Requests, r, s \in Replies}

Pipe == INSTANCE Frames WITH MaxString <- 4, MaxRows <- 3, MaxFrame <- FrameLimit, Talks <- MCTalks

-----------------------------------------------------------------------------
(***************************************************************************)
(* Dupes: copies that differ in the middle alone, a hard link, an          *)
(* unreadable pair, and files too small to be sampled; groups of which the *)
(* first, or the second, has more rows than fit, and one group too many.   *)
(***************************************************************************)
Bytes3(h, m, t) == [head |-> h, mid |-> m, tail |-> t]
CannotRead == Bytes3(0, 0, 0)
Kept(size, c) == [size |-> size, excl |-> FALSE, link |-> FALSE, content |-> c]
MCDupeDisks ==
    {<<Kept(4, Bytes3(1, 1, 1)), Kept(4, Bytes3(1, 2, 1)), Kept(4, Bytes3(1, 1, 1)),
       Kept(4, CannotRead), Kept(4, CannotRead)>>,
     <<Kept(4, Bytes3(1, 1, 1)), Kept(4, Bytes3(1, 1, 1)),
       [Kept(4, Bytes3(1, 1, 1)) EXCEPT !.link = TRUE],
       Kept(2, Bytes3(1, 1, 1)), Kept(2, Bytes3(1, 1, 1))>>,
     <<Kept(1, Bytes3(1, 1, 1)), Kept(1, Bytes3(1, 1, 1)),
       [Kept(4, Bytes3(2, 1, 1)) EXCEPT !.excl = TRUE],
       Kept(2, Bytes3(1, 2, 1)), Kept(2, Bytes3(1, 2, 1))>>}
    \cup {[f \in 1 .. Len(sizes) |-> Kept(sizes[f], Bytes3(1, 1, 1))] :
            sizes \in {<<2, 2, 2, 2, 2>>, <<3, 2, 3, 2, 3>>, <<3, 2, 1, 1, 2, 3>>}}

MCRewritten == {Bytes3(1, 2, 1), CannotRead}

-----------------------------------------------------------------------------
Parts == {"scan", "runs", "snapshot", "serving", "frames", "dupes", "update"}

Init ==
    /\ part \in Parts
    /\ volume \in IF part = "scan" THEN MCDisks ELSE {CHOOSE d \in MCDisks : TRUE}
    /\ runs \in IF part = "runs" THEN MCRuns ELSE {NoRuns}
    /\ talk \in IF part = "frames" THEN MCTalks ELSE {CHOOSE t \in MCTalks : TRUE}
    /\ excl \in IF part = "snapshot" THEN BOOLEAN ELSE {FALSE}
    /\ IF part = "dupes" THEN TRUE ELSE indexed = <<>> /\ content = <<>>
    /\ Ntfs!ScanInit /\ SnapInit /\ ServeInit /\ Pipe!FrameInit
    /\ IF part = "dupes" THEN DupesInit
       ELSE sample = <<>> /\ hash = <<>> /\ touched = {} /\ reply = <<>>
    /\ UpdateInit

scanVars  == <<volume, sweep, out>>
frameVars == <<talk, wire, peer>>
vars == <<part, runs, scanVars, snapVars, serveVars, frameVars, dupesVars, updateVars>>

RunScan ==
    /\ part = "scan" /\ Ntfs!ScanNext
    /\ UNCHANGED <<part, runs, snapVars, serveVars, frameVars, dupesVars, updateVars>>
RunSnapshot ==
    /\ part = "snapshot" /\ SnapNext
    /\ UNCHANGED <<part, runs, scanVars, serveVars, frameVars, dupesVars, updateVars>>
RunServing ==
    /\ part = "serving" /\ ServeNext
    /\ UNCHANGED <<part, runs, scanVars, snapVars, frameVars, dupesVars, updateVars>>
RunFrames ==
    /\ part = "frames" /\ Pipe!FrameNext
    /\ UNCHANGED <<part, runs, scanVars, snapVars, serveVars, dupesVars, updateVars>>
RunDupes ==
    /\ part = "dupes" /\ DupesNext
    /\ UNCHANGED <<part, runs, scanVars, snapVars, serveVars, frameVars, updateVars>>
RunUpdate ==
    /\ part = "update" /\ UpdateNext
    /\ UNCHANGED <<part, runs, scanVars, snapVars, serveVars, frameVars, dupesVars>>

Next == RunScan \/ RunSnapshot \/ RunServing \/ RunFrames \/ RunDupes \/ RunUpdate

\* As Serving assumes: threads run, a call to Windows returns, and a wake-up is
\* made to the end.
Serves(A) == part = "serving" /\ A
Fairness ==
    /\ WF_serveVars(Serves(Daemon))
    /\ \A c \in Callers :
         /\ WF_serveVars(Serves(Connect(c)))
         /\ WF_serveVars(Serves(WaitFree(c) \/ WaitOver(c)))
         /\ WF_serveVars(Serves(Read(c)))
         /\ WF_serveVars(Serves(Answer(c)))

Spec == Init /\ [][Next]_vars /\ Fairness

-----------------------------------------------------------------------------
\* volume.rs, mft.rs, record.rs, runlist.rs: the scan holds each file of the
\* table once, as its records say and wherever they lie; and the cluster map it
\* follows is the one that was written, and never leads off the disk or past the
\* size the caller allows.
VolumeReadBack ==
    /\ Ntfs!ScanIsFaithful /\ Ntfs!ArenaInOrder
    /\ runs.runs # <<>> => Lists!ReadAsWritten(runs.runs[1], runs.runs[2])
    /\ runs.bytes # <<>> => Lists!NeverBeyond(runs.bytes, MaxClusters)

\* batuta-ipc: the k-th result is the k-th answer or an error, however the
\* bytes are cut, and only a limit or the daemon's end costs an answer.
FramesInStep == Pipe!AnswersInStep /\ Pipe!AnsweredUnlessBeyond

=============================================================================
