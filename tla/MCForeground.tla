---------------------------- MODULE MCForeground ----------------------------
(***************************************************************************)
(* The parts a person meets, each in small instances of its own: the       *)
(* terminal pane, the shell and the words it reads, what is drawn, the     *)
(* questions of setup and setup itself.  They share nothing: a behaviour   *)
(* is one of one part, and the others rest in an initial state of theirs.  *)
(***************************************************************************)
EXTENDS Prompt, Setup, TLC

VARIABLES
    part,                                                  \* the part that runs
    tplan, grid, pty, wrote,                               \* Terminal
    splan, prompt, files, job, pipes,                      \* Shell
    words,                                                 \* ShellParse: a pipeline
    shown                                                  \* Screen: what is drawn

Parts == {"terminal", "shell", "words", "screen", "prompt", "setup"}

-----------------------------------------------------------------------------
(***************************************************************************)
(* Terminal: a program that only prints; wide and narrow screens with      *)
(* regions, the other screen and resizes; erasing and shifting; the rest.  *)
(***************************************************************************)
X == <<"print", "x">>
TermPlan(cols, rows, length, sizes, plain, writes) ==
    [cols |-> cols, rows |-> rows, length |-> length, sizes |-> sizes, plain |-> plain,
     writes |-> writes]
MCTermPlans ==
    {TermPlan(2, 2, 7, {}, TRUE, {<<X>>, <<<<"control", "cr">>, <<"control", "lf">>>>}),
     TermPlan(3, 3, 3, {<<2, 1>>, <<4, 2>>}, FALSE,
        {<<X, X, X>>, <<<<"control", "lf">>>>, <<<<"mode", TRUE, 1049>>>>,
         <<<<"mode", FALSE, 1049>>>>, <<<<"region", "r", 1, 2>>>>, <<<<"region", "s", 1, 1>>>>,
         <<<<"region", "u", 1, 1>>>>, <<<<"move", "H", 3, 3>>>>}),
     TermPlan(3, 2, 2, {<<2, 2>>}, FALSE,
        {<<<<"shift", c, 2>>>> : c \in {"@", "P", "X", "L", "M", "S", "T"}}
          \cup {<<<<"erase", c, n>>>> : c \in {"J", "K"}, n \in 0 .. 2}
          \cup {<<X, X, <<"ask", "n">>>>, <<<<"ask", "n">>>>, <<<<"ask", "c">>>>,
                <<<<"style", <<1, 38, 5, 9, 40>>>>>>}),
     TermPlan(9, 2, 2, {}, FALSE,
        {<<<<"control", "tab">>>>, <<<<"control", "bs">>>>, <<<<"mode", FALSE, 25>>>>,
         <<<<"title", "t">>>>}
          \cup {<<<<"escape", b>>>> : b \in {"D", "M", "E", "c"}}
          \cup {<<<<"move", c, 2, 2>>>> :
                  c \in {"A", "B", "C", "D", "E", "F", "G", "d", "H"}})}

Pane == INSTANCE Terminal WITH TermPlans <- MCTermPlans, MaxHistory <- 2

-----------------------------------------------------------------------------
(***************************************************************************)
(* Shell: pipelines of three stages whose builtins write no more than a    *)
(* pipe holds; lines typed, completed and fetched back; file commands.     *)
(***************************************************************************)
Stage(name, n, redirects) == [name |-> name, n |-> n, redirects |-> redirects]
Plain(name) == Stage(name, 0, <<>>)
Texts == {"f", "g", "h", "k", "m"}
Quiet ==
    [letters |-> {}, length |-> 0, keys |-> FALSE, names |-> <<>>, disk |-> <<>>,
     commands |-> {}, pipelines |-> {}, texts |-> [f \in Texts |-> -1]]

Firsts ==
    {Stage("gen", 3, <<>>), Stage("echo", 2, <<>>), Stage("warn", 1, <<<<"2>&1">>>>),
     Stage("gen", 2, <<<<">", "f">>>>), Stage("head", 0, <<<<"<", "h">>>>)}
Middles ==
    {Plain("cat"), Plain("head"), Plain("sort"), Plain("missing"), Plain("exit"),
     Stage("sort", 0, <<<<"2>&1">>, <<">", "k">>>>), Stage("sort", 0, <<<<"<", "h">>>>),
     Stage("sort", 0, <<<<">", "k">>, <<"<", "m">>>>)}
Lasts ==
    {Plain("sort"), Stage("warn", 1, <<<<"2>&1">>, <<">>", "g">>>>),
     Stage("head", 0, <<<<"<", "h">>>>)}
Piped ==
    [Quiet EXCEPT !.pipelines = {p \in {<<a, b, c>> : a \in Firsts, b \in Middles, c \in Lasts} :
                                   p[2].name = "cat" => p[1].n <= 2},
                  !.texts["g"] = 1, !.texts["h"] = 3]

TypedLines ==
    {[Quiet EXCEPT !.letters = {"a", " "}, !.length = 2, !.keys = TRUE],
     [Quiet EXCEPT !.letters = {"a"}, !.length = 1, !.keys = TRUE,
        !.names = <<[name |-> <<"a", "b">>, dir |-> TRUE], [name |-> <<"a", "c">>, dir |-> FALSE]>>]}

Paths == {<<"d">>, <<"e">>, <<"x">>, <<"d", "x">>, <<"d", "e">>, <<"e", "x">>}
Tree ==
    [p \in Paths |-> CASE p = <<"d">> -> <<"folder">> [] p = <<"x">> -> <<"one">>
                       [] p = <<"d", "e">> -> <<"two">> [] OTHER -> <<"none">>]
Commands ==
    [Quiet EXCEPT !.disk = Tree,
       !.commands = {<<"cd", a>> : a \in {<<"d">>, <<"-">>, <<"~">>}}
              \cup {<<"mkdir", <<<<"e">>>>>>, <<"touch", <<<<"x">>, <<"d", "x">>>>>>}
              \cup {<<"rm", gone>> : gone \in {<<<<"d">>, <<"x">>>>, <<<<"x">>>>, <<<<"d", "e">>>>}}
              \cup {<<how, from, to>> : how \in {"cp", "mv"},
                       from \in {<<<<"x">>>>, <<<<"x">>, <<"e">>>>, <<<<"d">>>>, <<<<"x">>, <<"d", "x">>>>},
                       to \in {<<"d">>, <<"e">>, <<"x">>}}]
MCShellPlans == {Quiet, Piped, Commands} \cup TypedLines

Sh == INSTANCE Shell WITH
    ShellPlans <- MCShellPlans, PipeSize <- 2, MaxEntries <- 2, MaxStages <- 3, disk <- files

-----------------------------------------------------------------------------
(***************************************************************************)
(* ShellParse: words that are operators, blanks, variables or nothing, in  *)
(* one command or two, with and without redirections; and variables whose  *)
(* values hold blanks and operators, or that are not set.                  *)
(***************************************************************************)
MCVars == (<<"a">> :> <<"x", " ", "y">>) @@ (<<"b">> :> <<"|", ">">>)
Read == INSTANCE ShellParse WITH Vars <- MCVars, Home <- <<"h">>

Letters == {"a", " ", "$", "|", ">", "\"", "%"}
Texts2 == UNION {[1 .. n -> Letters] : n \in 0 .. 2}
Short  == {<<>>, <<"a">>, <<"$", "a">>, <<"|", ">">>}
Command(ws, rs) == [words |-> ws, redirects |-> rs]
Redirects == {<<>>, <<<<"2>&1">>>>, <<<<">>", <<"a", " ">>>>>>, <<<<"<", <<"$">>>>, <<"2>", <<"a">>>>>>}
Pipelines ==
    {<<Command(<<v, w>>, <<>>)>> : v, w \in Texts2}
        \cup {<<Command(<<v>>, rs), Command(<<<<"a">>, w>>, r2)>> :
                v, w \in Short, rs, r2 \in Redirects}
MCWords ==
    {[pipeline |-> p, name |-> <<>>] : p \in Pipelines}
        \cup {[pipeline |-> <<>>, name |-> n] : n \in UNION {[1 .. k -> {"a", "b", "1"}] : k \in 1 .. 2}}
NoWords == [pipeline |-> <<>>, name |-> <<>>]

-----------------------------------------------------------------------------
(***************************************************************************)
(* Screen: windows on both sides of every limit, lines of four characters  *)
(* with hits anywhere, paths with terms that overlap, every environment.   *)
(***************************************************************************)
Draws == INSTANCE Screen

Windows == {[is |-> "window", w |-> w, h |-> h, wanted |-> b, dialog |-> n] :
              w \in {0, 1, 14, 15, 16, 89, 90, 99, 100}, h \in {0, 1, 2, 3, 4, 15, 16, 17},
              b \in BOOLEAN, n \in {3, 70}}
Panels == {[is |-> "panel", w |-> w, h |-> h, from |-> f, at |-> a] :
             w \in {1, 2, 9, 12}, h \in 0 .. 5, f, a \in 0 .. 6}
Characters == {"a", "b", "cont"}
Lines == {[is |-> "line", text |-> t, cols |-> c, len |-> n] :
            t \in UNION {[1 .. k -> {"a"}] : k \in 0 .. 4},
            c \in {<<>>} \cup {<<i>> : i \in 0 .. 4} \cup {<<i, j>> : i \in 0 .. 2, j \in 2 .. 4}
                 \cup {<<0, 1, 3>>, <<0, 2, 4>>}, n \in 1 .. 2}
Ways == {[is |-> "path", path |-> q, terms |-> ts] :
           q \in UNION {[1 .. k -> Characters \cup {"A"}] : k \in 1 .. 4},
           ts \in {<<>>, <<<<"a">>>>, <<<<"a", "b">>, <<"b">>>>, <<<<"a", "b", "a">>, <<"b">>>>,
                    <<<<"b", "a">>, <<"a", "a">>>>}}
Themes == {[is |-> "theme", noColor |-> n, windows |-> o, truecolor |-> t, colors256 |-> c,
            wt |-> FALSE, panels |-> p, mib |-> m] :
             n, o, t, c, p \in BOOLEAN, m \in {99, 100, 400, 1024}}
MCShown == Windows \cup Panels \cup Lines \cup Ways \cup Themes
NothingShown == [is |-> "nothing"]

-----------------------------------------------------------------------------
(***************************************************************************)
(* Setup: three ways of staying current, two selections of drives.         *)
(* Machines: one without Batuta; one where an older build serves drive C   *)
(* and owns a shortcut; one where that build could only be moved aside, so *)
(* that it still runs from there.                                          *)
(***************************************************************************)
MCPlans ==
    {[resident |-> "service", drives |-> "CD", hotkey |-> <<"a">>, path |-> TRUE],
     [resident |-> "task", drives |-> "C", hotkey |-> <<"b">>, path |-> FALSE],
     [resident |-> "manual", drives |-> "C", hotkey |-> <<>>, path |-> TRUE]}

NoService ==
    [registered |-> FALSE, state |-> "stopped", build |-> "none", image |-> "dest", drives |-> "C"]
Bare ==
    [exe |-> [dest |-> "none", aside |-> "none"], svc |-> NoService, helpers |-> {},
     run |-> <<>>, disk |-> [task |-> FALSE, config |-> "C", snap |-> <<>>]]
Index(on, fresh) == <<[drives |-> on, fresh |-> fresh]>>
MCMachines ==
    {Bare,
     [exe |-> [dest |-> "old", aside |-> "none"],
      svc |-> [registered |-> TRUE, state |-> "running", build |-> "old", image |-> "dest",
               drives |-> "C"],
      helpers |-> {[image |-> "dest", key |-> "a", holds |-> TRUE]}, run |-> <<"a">>,
      disk |-> [task |-> FALSE, config |-> "C", snap |-> Index("C", TRUE)]],
     [exe |-> [dest |-> "new", aside |-> "old"],
      svc |-> [registered |-> TRUE, state |-> "running", build |-> "old", image |-> "aside",
               drives |-> "CD"],
      helpers |-> {[image |-> "aside", key |-> "b", holds |-> TRUE]}, run |-> <<"b">>,
      disk |-> [task |-> TRUE, config |-> "CD", snap |-> Index("CD", FALSE)]]}

\* PATH, with empty entries: without the entry, and with it spelled otherwise.
MCPaths == {<<"x", "", "y", "">>, <<"x", "", "batuta/", "y">>}

\* Prompt: one drive that can be indexed beside one that cannot, and none that can.
MCDriveLists == {<<FALSE, TRUE>>, <<FALSE>>}

-----------------------------------------------------------------------------
Init ==
    /\ part \in Parts
    /\ tplan \in IF part = "terminal" THEN MCTermPlans ELSE {CHOOSE p \in MCTermPlans : p.plain}
    /\ splan \in IF part = "shell" THEN MCShellPlans ELSE {Quiet}
    /\ words \in IF part = "words" THEN MCWords ELSE {NoWords}
    /\ shown \in IF part = "screen" THEN MCShown ELSE {NothingShown}
    /\ IF part = "prompt" THEN TRUE ELSE face = "wizard" /\ drives = <<FALSE>>
    /\ IF part = "setup" THEN TRUE ELSE user = [run |-> <<>>, path |-> <<"x", "", "y", "">>]
    /\ Pane!TermInit /\ Sh!ShellInit /\ PromptInit /\ SetupInit

paneVars  == <<tplan, grid, pty, wrote>>
shellVars == <<splan, prompt, files, job, pipes>>
vars == <<part, words, shown, paneVars, shellVars, promptVars, setupVars>>

\* The shell reads the words once, and the frame is drawn once.
RunWords ==
    /\ part = "words" /\ words # NoWords /\ words' = NoWords
    /\ UNCHANGED <<part, shown, paneVars, shellVars, promptVars, setupVars>>
RunScreen ==
    /\ part = "screen" /\ shown # NothingShown /\ shown' = NothingShown
    /\ UNCHANGED <<part, words, paneVars, shellVars, promptVars, setupVars>>
RunPane ==
    /\ part = "terminal" /\ Pane!TermNext
    /\ UNCHANGED <<part, words, shown, shellVars, promptVars, setupVars>>
RunShell ==
    /\ part = "shell" /\ Sh!ShellNext
    /\ UNCHANGED <<part, words, shown, paneVars, promptVars, setupVars>>
RunPrompt ==
    /\ part = "prompt" /\ PromptNext
    /\ UNCHANGED <<part, words, shown, paneVars, shellVars, setupVars>>
RunSetup ==
    /\ part = "setup" /\ SetupNext
    /\ UNCHANGED <<part, words, shown, paneVars, shellVars, promptVars>>

Next == RunWords \/ RunScreen \/ RunPane \/ RunShell \/ RunPrompt \/ RunSetup

\* What the modules assume, each for the part that runs: the event loop pumps
\* once a turn; processes and the shell are scheduled; somebody types or the
\* input ends; a helper goes on retrying, and other programs let go of keys.
Fairness ==
    /\ WF_paneVars(part = "terminal" /\ Pane!Pump)
    /\ WF_shellVars(part = "shell" /\ Sh!ShellStep)
    /\ \A i \in 1 .. 3 : WF_shellVars(part = "shell" /\ Sh!ProcessStep(i))
    /\ WF_promptVars(part = "prompt" /\ (Line \/ EndOfInput))
    /\ WF_setupVars(part = "setup" /\ HelperRetries)
    /\ WF_setupVars(part = "setup" /\ \E k \in Keys : OtherReleases(k))

Spec == Init /\ [][Next]_vars /\ Fairness

-----------------------------------------------------------------------------
\* grid.rs, session.rs: whatever a program writes, erases, scrolls and resizes,
\* the screen is whole and what leaves it at the top is in the history once,
\* and every report the program asks for goes to it.
PaneRight == []Pane!GridWhole /\ []Pane!NothingLostUpwards /\ Pane!AskedIsAnswered

\* run.rs: output goes where the redirections say at the moment of each, in
\* order and whole, and a pipeline whose output fits its pipes ends.
PipelinesRun == []Sh!OutputAsComposed /\ Sh!PipelineEnds

\* builtins.rs, line.rs: at the prompt, a file command changes what it names and
\* nothing else, loses no file it was to copy or move (unless two of them have one
\* name), and has done all of it when it reports no failure; and walking up the
\* history and down again gives back the line that was being typed.
PromptKeeps == Sh!FilesHandled /\ Sh!WalkReturns

\* parse.rs: a word that was quoted is one word again, with nothing in it taken
\* for an operator; a variable's value is never split or read as one.
WordsAsMeant ==
    [][RunWords => Read!QuotedAsMeant(words.pipeline) /\ Read!ExpandedIsOneWord(words.name)]_vars

\* ui.rs, layout.rs, theme.rs: panes, rows, carets, marks and colours, for every
\* size and text.
Sound(frame) ==
    CASE frame.is = "window" ->
           Draws!PanesFit(Draws!Rect(0, 0, frame.w, frame.h), frame.wanted, frame.dialog)
      [] frame.is = "panel" ->
           Draws!SelectedDrawn(Draws!Rect(3, 2, frame.w, frame.h), frame.from, frame.at)
      [] frame.is = "line" -> Draws!LineKept(frame.text, frame.cols, frame.len)
      [] frame.is = "path" -> Draws!PathKept(frame.path, frame.terms)
      [] frame.is = "theme" -> Draws!ThemeReadable(frame)
      [] OTHER -> TRUE
DrawnAsMeant == [][RunScreen => Sound(shown)]_vars

\* prompt.rs, hotkey: setup does not ask for ever, and the shortcut an older
\* build holds is taken over once it lets go.
SetupEnds == AskingEnds /\ ShortcutTakenOver

=============================================================================
