-------------------------------- MODULE Shell --------------------------------
(***************************************************************************)
(* The shell at work: the line it edits and its history (line.rs, repl.rs),*)
(* the pipeline a line becomes (run.rs) and what the builtins do to files  *)
(* (builtins.rs).  Builtins run inside the shell, stage by stage; programs *)
(* are processes of their own, external, named for what they do.  Output   *)
(* is counted in units, a pipe holds a few of them.  Parsing is ShellParse.*)
(***************************************************************************)
EXTENDS TextField, SequencesExt

CONSTANTS
    ShellPlans,  \* what is typed, run and on the disk
    PipeSize,    \* what a pipe holds
    MaxEntries,  \* MAX_HISTORY
    MaxStages    \* the longest pipeline

VARIABLES
    splan,       \* the plan of this behaviour
    prompt,      \* the line being typed and the history
    disk,        \* files and folders, and where the shell is
    job,         \* the pipeline being run
    pipes        \* units in the pipe behind each stage

shellVars == <<splan, prompt, disk, job, pipes>>

Nothing == <<"none">>
Folder  == <<"folder">>

(***************************************************************************)
(* The line.                                                               *)
(***************************************************************************)
IsBlank(c) == c = " "
DeleteWord(f) ==
    LET word  == {i \in 1..f.caret : ~IsBlank(f.text[i])}
        end   == IF word = {} THEN 0 ELSE CHOOSE i \in word : \A j \in word : j <= i
        gaps  == {i \in 1..end : IsBlank(f.text[i])}
        at    == IF gaps = {} THEN 0 ELSE CHOOSE i \in gaps : \A j \in gaps : j <= i
    IN  [text |-> SubSeq(f.text, 1, at) \o SubSeq(f.text, f.caret + 1, Len(f.text)), caret |-> at]
DeleteToStart(f) == [text |-> SubSeq(f.text, f.caret + 1, Len(f.text)), caret |-> 0]

\* The word Tab completes: from the last gap, pipe or quote to the caret.
WordAtCaret(f) ==
    LET step(s, i) ==
          LET c == f.text[i]
          IN  CASE s.quote = c -> [s EXCEPT !.quote = ""]
                [] s.quote = "" /\ c \in {"'", "\""} -> [quote |-> c, start |-> i]
                [] s.quote = "" /\ c \in {" ", "|", "<", ">"} -> [s EXCEPT !.start = i]
                [] OTHER -> s
    IN  FoldLeft(step, [quote |-> "", start |-> 0], [i \in 1..f.caret |-> i]).start
Complete(f, names) ==
    LET start == WordAtCaret(f)
        part  == SubSeq(f.text, start + 1, f.caret)
        hits  == SelectSeq(names, LAMBDA n : StartsWith(n.name, part))
        done  == CommonPrefix([i \in DOMAIN hits |-> hits[i].name])
        new   == done \o (IF Len(hits) = 1 /\ hits[1].dir /\ hits[1].name = done THEN <<"\\">> ELSE <<>>)
    IN  IF hits = <<>> \/ Len(done) < Len(part) THEN f
        ELSE [text |-> SubSeq(f.text, 1, start) \o new \o SubSeq(f.text, f.caret + 1, Len(f.text)),
              caret |-> start + Len(new)]

(***************************************************************************)
(* The history.  at counts back from the newest, 0 for the line itself.    *)
(***************************************************************************)
Trimmed(t) ==
    LET solid == {i \in DOMAIN t : ~IsBlank(t[i])}
    IN  IF solid = {} THEN <<>>
        ELSE SubSeq(t, CHOOSE i \in solid : \A j \in solid : i <= j,
                       CHOOSE i \in solid : \A j \in solid : j <= i)
HistoryReset(h) == [h EXCEPT !.at = 0, !.stashed = Nothing]
Push(h, line) ==
    LET t   == Trimmed(line)
        all == Append(h.entries, t)
    IN  HistoryReset(IF t = <<>> \/ (h.entries # <<>> /\ Last(h.entries) = t) THEN h
                     ELSE [h EXCEPT !.entries = IF Len(all) > MaxEntries THEN Tail(all) ELSE all])

Previous(h, current) ==
    [h EXCEPT !.at = IF @ < Len(h.entries) THEN @ + 1 ELSE @,
              !.stashed = IF h.at = 0 THEN current ELSE @]
Next(h) == [h EXCEPT !.at = @ - 1, !.stashed = IF h.at = 1 THEN Nothing ELSE @]
Entry(h) == h.entries[Len(h.entries) - h.at + 1]

(***************************************************************************)
(* Keys at the prompt.                                                     *)
(***************************************************************************)
AtPrompt == job.state = "prompt"
NewLine(p) == [p EXCEPT !.line = Field(<<>>), !.began = Nothing]

Typed(c) == /\ AtPrompt /\ Len(prompt.line.text) < splan.length
            /\ prompt' = [prompt EXCEPT !.line = FieldInsert(@, c)]
Edits == {FieldBackspace(prompt.line), FieldDelete(prompt.line), FieldLeft(prompt.line),
          FieldRight(prompt.line), FieldHome(prompt.line), FieldEnd(prompt.line),
          DeleteWord(prompt.line), DeleteToStart(prompt.line), Complete(prompt.line, splan.names)}
Edit == /\ AtPrompt /\ splan.keys
        /\ \E f \in Edits : Len(f.text) <= splan.length + 2 /\ prompt' = [prompt EXCEPT !.line = f]

Up == /\ AtPrompt /\ splan.keys /\ prompt.history.entries # <<>>
      /\ LET h == Previous(prompt.history, prompt.line.text)
         IN  prompt' = [prompt EXCEPT !.history = h, !.line = Field(Entry(h)),
                            !.began = IF prompt.history.at = 0 THEN prompt.line.text ELSE @]
Down == /\ AtPrompt /\ splan.keys /\ prompt.history.at > 0
        /\ LET h == Next(prompt.history)
           IN  prompt' = [prompt EXCEPT !.history = h,
                   !.line = Field(IF h.at = 0 THEN prompt.history.stashed ELSE Entry(h))]

\* Enter: a blank line is not an entry, and the walk goes on; Ctrl+C the same.
Enter == /\ AtPrompt /\ splan.length > 0
         /\ prompt' = NewLine(IF Trimmed(prompt.line.text) = <<>> THEN prompt
                              ELSE [prompt EXCEPT !.history = Push(@, prompt.line.text)])
Cancel == AtPrompt /\ splan.keys /\ prompt' = NewLine(prompt)
\* Ctrl+D on an empty line leaves.
Leave == /\ AtPrompt /\ splan.keys /\ prompt.line.text = <<>>
         /\ job' = [job EXCEPT !.state = "left"] /\ UNCHANGED <<splan, prompt, disk, pipes>>

Key == /\ (\E c \in splan.letters : Typed(c)) \/ Edit \/ Up \/ Down \/ Enter \/ Cancel
       /\ UNCHANGED <<splan, disk, job, pipes>>

(***************************************************************************)
(* Files.  A path is a sequence of names; the disk holds what is there.    *)
(***************************************************************************)
Resolve(d, arg) == d.cwd \o arg
IsDir(d, p) == p = <<>> \/ (p \in DOMAIN d.files /\ d.files[p] = Folder)
IsFile(d, p) == p \in DOMAIN d.files /\ d.files[p] \notin {Folder, Nothing}
Put(d, p, what) == [d EXCEPT !.files[p] = what]
Fits(d, p) == p \in DOMAIN d.files /\ IsDir(d, Front(p)) /\ ~IsDir(d, p)
Fails(d) == [d EXCEPT !.status = 1]

\* cd, cd somewhere, cd - ; the folder left is remembered.
Cd(d, arg) ==
    LET to == CASE arg = <<"-">> -> d.previous [] arg = <<"~">> -> <<>> [] OTHER -> Resolve(d, arg)
    IN  IF to # Nothing /\ IsDir(d, to) THEN [d EXCEPT !.cwd = to, !.previous = d.cwd] ELSE Fails(d)

\* Each of the arguments in turn, whatever became of those before; the status
\* remembers a failure.  The file system may refuse any of them.
Each(one(_, _), d, args) ==
    FoldLeft(LAMBDA all, arg : UNION {one(e, arg) : e \in all}, {d}, args)
Perhaps(d, done) == {done, Fails(d)}

MkDir(d, arg) ==
    LET p == Resolve(d, arg)
        upTo(k) == {SubSeq(p, 1, j) : j \in 1..k}
        with(k) == [d EXCEPT !.files = [q \in DOMAIN @ |-> IF q \in upTo(k) THEN Folder ELSE @[q]]]
    IN  IF upTo(Len(p)) \subseteq DOMAIN d.files /\ \A q \in upTo(Len(p)) : ~IsFile(d, q)
        THEN {with(Len(p))} \cup {Fails(with(k)) : k \in 0..Len(p) - 1}
        ELSE {Fails(d)}

RemoveFile(d, arg) ==
    LET p == Resolve(d, arg)
    IN  IF IsFile(d, p) THEN Perhaps(d, Put(d, p, Nothing)) ELSE {Fails(d)}
Touch(d, arg) ==
    LET p == Resolve(d, arg)
    IN  IF IsDir(d, p) \/ IsFile(d, p) THEN {d}
        ELSE IF Fits(d, p) THEN Perhaps(d, Put(d, p, <<"empty">>)) ELSE {Fails(d)}

\* Bug: a move removes the source whether or not its copy came about.
OutcomesUnchecked(d, how, from, to) ==
    LET copied == Put(d, to, d.files[from])
        broken == Put(d, to, <<"part">>)
    IN  IF ~IsFile(d, from) \/ ~Fits(d, to) THEN {Fails(d)}
        ELSE IF from = to THEN IF how = "mv" THEN Perhaps(d, d) ELSE {Fails(d)}
        ELSE IF how = "cp" THEN {copied, Fails(d), Fails(broken)}
        ELSE {Put(copied, from, Nothing), Fails(Put(broken, from, Nothing)), Fails(copied)}

\* What becomes of a file that is copied or moved: all of it, nothing, a copy
\* that broke off in the file it was replacing, or, when it has to cross to
\* another drive, a copy whose source cannot be removed.
Outcomes(d, how, from, to) ==
    LET copied == Put(d, to, d.files[from])
        broken == Put(d, to, <<"part">>)
    IN  IF ~IsFile(d, from) \/ ~Fits(d, to) THEN {Fails(d)}
        ELSE IF from = to THEN IF how = "mv" THEN Perhaps(d, d) ELSE {Fails(d)}
        ELSE IF how = "cp" THEN {copied, Fails(d), Fails(broken)}
        ELSE {Put(copied, from, Nothing), Fails(d), Fails(broken), Fails(copied)}

Transfer(d, how, sources, target) ==
    LET to  == Resolve(d, target)
        one(e, arg) ==
          LET from == Resolve(d, arg)
          IN  IF IsDir(e, from) THEN {Fails(e)}
              ELSE Outcomes(e, how, from, IF IsDir(d, to) THEN to \o <<Last(from)>> ELSE to)
    IN  IF Len(sources) > 1 /\ ~IsDir(d, to) THEN {Fails(d)} ELSE Each(one, d, sources)

Do(c) ==
    /\ AtPrompt
    /\ LET d == [disk EXCEPT !.status = 0]
       IN  disk' \in CASE c[1] = "cd" -> {Cd(d, c[2])}
                       [] c[1] = "mkdir" -> Each(MkDir, d, c[2])
                       [] c[1] = "rm" -> Each(RemoveFile, d, c[2])
                       [] c[1] = "touch" -> Each(Touch, d, c[2])
                       [] OTHER -> Transfer(d, c[1], c[2], c[3])
    /\ UNCHANGED <<splan, prompt, job, pipes>>
FileCommand == \E c \in splan.commands : Do(c)

(***************************************************************************)
(* A pipeline: stages [name, n, redirects] in order.  A stage that runs is *)
(* a process with an input and two outputs (Sink), what it has read and    *)
(* what it has yet to write.                                               *)
(***************************************************************************)
Inherit == <<"inherit">>
Builtins == {"echo", "cat", "exit"}

\* streams: redirections left to right, and 2>&1 behind them all.

Streams(c, in, out) ==
    LET own == FoldLeft(LAMBDA s, r : CASE r[1] = "<" -> [s EXCEPT !.in = <<"file", r[2]>>]
                                        [] r[1] \in {">", ">>"} -> [s EXCEPT !.out = <<"file", r[2]>>]
                                        [] r[1] \in {"2>", "2>>"} -> [s EXCEPT !.err = <<"file", r[2]>>]
                                        [] OTHER -> s,
                        [in |-> in, out |-> out, err |-> Inherit], c.redirects)
    IN  IF \E r \in ToSet(c.redirects) : r[1] = "2>&1" THEN [own EXCEPT !.err = own.out] ELSE own

\* Opened one by one, and > and 2> empty their file; one that cannot be read
\* ends it there.
Bad(c) == {k \in DOMAIN c.redirects : c.redirects[k][1] = "<" /\ job.files[c.redirects[k][2]] < 0}
Emptied(c) ==
    LET good == {k \in DOMAIN c.redirects : \A b \in Bad(c) : k < b}
    IN  [f \in DOMAIN job.files |->
            IF \E k \in good : c.redirects[k] \in {<<">", f>>, <<"2>", f>>} THEN 0
            ELSE IF \E k \in good : c.redirects[k] \in {<<">>", f>>, <<"2>>", f>>}
            THEN Max({0, job.files[f]}) ELSE job.files[f]]

Stages == DOMAIN job.stages
Running(i) == i \in DOMAIN job.procs /\ ~job.procs[i].ended
InShell == \E i \in DOMAIN job.procs : Running(i) /\ job.procs[i].builtin

\* Who still holds an end of the pipe behind stage i: the shell keeps the
\* reading end until it hands it to the next stage, or gives up.
\* Bug: the shell keeps the writing ends to the end of the line.
WriterKept(i) == \/ Running(i) /\ <<"pipe", i>> \in {job.procs[i].out, job.procs[i].err}
                 \/ job.state = "starting" /\ i < job.at

WriterOpen(i) == Running(i) /\ <<"pipe", i>> \in {job.procs[i].out, job.procs[i].err}
ReaderOpen(i) == \/ Running(i + 1) /\ job.procs[i + 1].in = <<"pipe", i>>
                 \/ job.state = "starting" /\ job.at = i + 1

Process(c, s) ==
    [in |-> s.in, out |-> s.out, err |-> s.err, name |-> c.name, builtin |-> c.name \in Builtins,
     reads |-> c.name \notin {"echo", "gen", "warn"}, got |-> 0, left |-> c.n,
     grumbles |-> IF c.name = "warn" THEN c.n ELSE 0, ended |-> FALSE]

StartPipeline ==
    /\ AtPrompt
    /\ \E p \in splan.pipelines :
         job' = [job EXCEPT !.state = "starting", !.stages = p]
    /\ pipes' = [i \in 1..MaxStages |-> 0]
    /\ UNCHANGED <<splan, prompt, disk>>

\* One stage: its streams, then the builtin begun or the program started.  A
\* stage that cannot be set up ends the line; what was started goes on alone.
StartStage ==
    /\ job.state = "starting" /\ job.at \in Stages /\ ~InShell
    /\ LET i == job.at
           c == job.stages[i]
           s == Streams(c, IF i = 1 THEN Inherit ELSE <<"pipe", i - 1>>,
                           IF i = Len(job.stages) THEN Inherit ELSE <<"pipe", i>>)
           opened == [job EXCEPT !.files = Emptied(c)]
       IN  job' = CASE Bad(c) # {} \/ c.name = "missing" -> [opened EXCEPT !.state = "failed"]
                    [] Bad(c) = {} /\ c.name = "exit" -> [opened EXCEPT !.state = "left"]
                    [] OTHER -> [opened EXCEPT !.procs = Append(@, Process(c, s)), !.at = @ + 1]
    /\ UNCHANGED <<splan, prompt, disk, pipes>>

\* A process takes a unit in; at the end of its input it stops reading.  A
\* program that only looks at the head stops by itself.
Taken(i, p) == [job EXCEPT !.procs[i] = p]
Input(p) == IF p.in[1] = "pipe" THEN pipes[p.in[2]] ELSE IF p.in[1] = "file" THEN job.files[p.in[2]] ELSE 0
AtEnd(p) == IF p.in[1] = "pipe" THEN pipes[p.in[2]] = 0 /\ ~WriterOpen(p.in[2]) ELSE Input(p) = p.got
Reads(i) ==
    /\ Running(i) /\ job.procs[i].reads
    /\ LET p == job.procs[i]
       IN  \/ /\ AtEnd(p)
              /\ job' = Taken(i, [p EXCEPT !.reads = FALSE]) /\ UNCHANGED pipes
           \/ /\ ~AtEnd(p) /\ Input(p) > 0 /\ (p.name = "cat" => p.left = 0)
              /\ job' = Taken(i, [p EXCEPT !.left = @ + 1, !.got = @ + 1, !.reads = p.name # "head"])
              /\ pipes' = IF p.in[1] = "pipe" THEN [pipes EXCEPT ![p.in[2]] = @ - 1] ELSE pipes
    /\ UNCHANGED <<splan, prompt, disk>>

\* A unit out, to where the stream leads; a pipe nobody reads ends the writer.
Written(i, p, sink) ==
    CASE sink[1] = "pipe" ->
            IF ReaderOpen(sink[2])
            THEN /\ pipes[sink[2]] < PipeSize
                 /\ pipes' = [pipes EXCEPT ![sink[2]] = @ + 1] /\ job' = Taken(i, p)
            ELSE job' = Taken(i, [p EXCEPT !.ended = TRUE]) /\ UNCHANGED pipes
      [] sink[1] = "file" -> job' = [Taken(i, p) EXCEPT !.files[sink[2]] = @ + 1] /\ UNCHANGED pipes
      [] OTHER -> job' = [Taken(i, p) EXCEPT !.shown = @ + 1] /\ UNCHANGED pipes
Writes(i) ==
    /\ Running(i)
    /\ LET p == job.procs[i]
       IN  \/ /\ p.grumbles > 0
              /\ Written(i, [p EXCEPT !.grumbles = @ - 1], p.err)
           \/ /\ p.grumbles = 0 /\ p.left > 0 /\ (p.reads => p.name = "cat")
              /\ Written(i, [p EXCEPT !.left = @ - 1], p.out)
    /\ UNCHANGED <<splan, prompt, disk>>
Ends(i) ==
    /\ Running(i) /\ LET p == job.procs[i] IN ~p.reads /\ p.left = 0 /\ p.grumbles = 0
    /\ job' = [job EXCEPT !.procs[i].ended = TRUE]
    /\ UNCHANGED <<splan, prompt, disk, pipes>>

\* The shell waits for the programs; then the prompt comes back.
Waited == /\ job.state = "starting" /\ job.at > Len(job.stages)
          /\ \A i \in DOMAIN job.procs : ~Running(i)
          /\ job' = [job EXCEPT !.state = "done"]
          /\ UNCHANGED <<splan, prompt, disk, pipes>>

ShellStep == StartStage \/ Waited
ProcessStep(i) == Reads(i) \/ Writes(i) \/ Ends(i)

ShellInit ==
    /\ splan \in ShellPlans
    /\ prompt = [line |-> Field(<<>>), began |-> Nothing,
                 history |-> [entries |-> <<>>, at |-> 0, stashed |-> Nothing]]
    /\ disk = [files |-> splan.disk, cwd |-> <<>>, previous |-> Nothing, status |-> 0]
    /\ job = [state |-> "prompt", stages |-> <<>>, at |-> 1, procs |-> <<>>, shown |-> 0,
              files |-> splan.texts]
    /\ pipes = [i \in 1..MaxStages |-> 0]
ShellNext ==
    \/ Key \/ Leave \/ FileCommand \/ StartPipeline \/ ShellStep
    \/ \E i \in 1..MaxStages : ProcessStep(i)

\* The system schedules every process, and the shell.
ShellFairness ==
    WF_shellVars(ShellStep) /\ \A i \in 1..MaxStages : WF_shellVars(ProcessStep(i))

(***************************************************************************)
(* Properties.                                                             *)
(***************************************************************************)
\* A line comes to an end whatever the pipes hold: every process gets its
\* input, its end of input or its broken pipe.
PipelineEnds == (job.state = "starting") ~> (job.state # "starting")

\* What the stages make of each other's output one after the other, without a
\* pipe, and where it goes.
Composed ==
    LET ops(c) == {r[1] : r \in ToSet(c.redirects)}
        arg(c, op) == LET k == SelectLastInSeq(c.redirects, LAMBDA r : r[1] \in op) IN c.redirects[k][2]
        put(files, f, op, n) == [files EXCEPT ![f] = IF op THEN n ELSE Max({0, @}) + n]
        run(s, i) ==
          LET c   == job.stages[i]
              in  == IF "<" \in ops(c) THEN s.files[arg(c, {"<"})] ELSE s.flow
              out == CASE c.name \in {"echo", "gen", "warn"} -> c.n
                       [] c.name = "head" -> Min({1, in}) [] OTHER -> in
              err == IF c.name = "warn" THEN c.n ELSE 0
              both == "2>&1" \in ops(c)
              sum == IF both THEN out + err ELSE out
              toFile == ops(c) \cap {">", ">>"} # {}
              last == i = Len(job.stages)
              f1 == IF toFile THEN put(s.files, arg(c, {">", ">>"}), ">" \in ops(c), sum) ELSE s.files
              f2 == IF ~both /\ "2>" \in ops(c) THEN put(f1, arg(c, {"2>"}), TRUE, err) ELSE f1
          IN  [flow |-> IF toFile THEN 0 ELSE sum, files |-> f2,
               shown |-> s.shown + (IF last /\ ~toFile THEN sum ELSE 0)
                                 + (IF ~both /\ "2>" \notin ops(c) THEN err ELSE 0)]
    IN  FoldLeft(run, [flow |-> 0, shown |-> 0, files |-> splan.texts], [i \in Stages |-> i])

\* Programs and builtins run at their own speed, through pipes of any size and
\* over ends that close early; what the user sees, and the files, are what the
\* stages make of each other's output.
OutputAsComposed ==
    job.state = "done" => job.shown = Composed.shown /\ job.files = Composed.files

\* Where cp or mv is to put what it finds at a path.
Place(c, from) ==
    LET to == Resolve(disk, c[3]) IN IF IsDir(disk, to) THEN to \o <<Last(from)>> ELSE to
Sources(c) == {Resolve(disk, a) : a \in ToSet(c[2])}
Transfers(c) == c[1] \in {"cp", "mv"}
NamesApart(c) == \A s, t \in Sources(c) : Last(s) = Last(t) => s = t
There(files, p) == IF p \in DOMAIN files THEN files[p] ELSE Nothing

\* The paths a command names, and the files of its sources it must not lose.
Named(c) ==
    CASE c[1] = "cd"    -> {}
      [] c[1] = "mkdir" -> {SubSeq(s, 1, k) : s \in Sources(c), k \in 1..Max({Len(s) : s \in Sources(c)})}
      [] c[1] = "cp"    -> {Place(c, s) : s \in Sources(c)}
      [] c[1] = "mv"    -> Sources(c) \cup {Place(c, s) : s \in Sources(c)}
      [] OTHER          -> Sources(c)
Survives(c, s) ==
    IsFile(disk, s) => disk.files[s] \in {There(disk'.files, s), There(disk'.files, Place(c, s))}

\* What a command that reports success has done.
Performed(c) ==
    CASE c[1] = "rm"    -> \A s \in Sources(c) : ~IsFile(disk', s) /\ ~IsDir(disk', s)
      [] c[1] = "mkdir" -> \A s \in Sources(c) : IsDir(disk', s)
      [] c[1] = "touch" -> \A s \in Sources(c) : IsDir(disk', s) \/ IsFile(disk', s)
      [] Transfers(c)   -> \A s \in Sources(c) :
                             /\ There(disk'.files, Place(c, s)) = There(disk.files, s)
                             /\ s # Place(c, s) =>
                                  There(disk'.files, s) = IF c[1] = "mv" THEN Nothing ELSE disk.files[s]
      [] OTHER          -> TRUE

\* README: "`rm`, `cp` and `mv` handle files only": a file command changes no
\* path it does not name and takes no folder away; only rm makes a file go,
\* only cp and mv replace one, and what they were given is still where it was
\* or where it was to go, also where they fail half way; and a command that
\* reports no failure has done all of what it was asked.  Sources that share a
\* name overwrite one another in the folder they go to: see SourcesSurvive.
FilesHandled ==
    [][\A c \in splan.commands : Do(c) /\ (Transfers(c) => NamesApart(c)) =>
        /\ \A p \in DOMAIN disk.files :
             /\ disk'.files[p] # disk.files[p] => p \in Named(c)
             /\ disk.files[p] = Folder => disk'.files[p] = Folder
             /\ IsFile(disk, p) /\ c[1] \in {"mkdir", "touch"} => disk'.files[p] = disk.files[p]
        /\ Transfers(c) => \A s \in Sources(c) : Survives(c, s)
        /\ disk'.status = 0 => Performed(c)
      ]_disk

\* Not kept (builtins.rs, of several sources without a folder to go to: "Otherwise
\* each would overwrite the last and only the final one would survive, silently"):
\* with a folder they do too, where they have one name.
SourcesSurvive ==
    [][\A c \in splan.commands : Do(c) /\ Transfers(c) => \A s \in Sources(c) : Survives(c, s)]_disk

\* The way back down from a walk begun at this prompt ends at the line it began
\* from, edited entries and all.
WalkReturns ==
    [][Down /\ prompt'.history.at = 0 /\ prompt.began # Nothing
        => prompt'.line.text = prompt.began]_shellVars

\* Not kept (README): the history "keeps the half-typed line you were on when you started
\* walking back".
HalfTypedKept ==
    [][Down /\ prompt'.history.at = 0 => prompt'.line.text = prompt.began]_shellVars
=============================================================================
