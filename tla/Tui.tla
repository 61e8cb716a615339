-------------------------------- MODULE Tui ---------------------------------
(***************************************************************************)
(* The full-screen program: struct App (app.rs) and the loop that draws    *)
(* it, reads bursts of keys and asks an index for the rows on the screen   *)
(* (mod.rs).  Files are deleted and indexed while it runs; a scan for      *)
(* duplicates runs on a thread of its own.  The explorer and the terminal  *)
(* are modules of their own: here they are views one enters and leaves.    *)
(***************************************************************************)
EXTENDS Integers, Sequences, SequencesExt, FiniteSets

CONSTANTS
    UiPlans,   \* what a behaviour starts from and which keys it may see
    Ahead      \* rows of the size view asked for beyond the screen (64)

\* A path has characters.  A plan is steady if nothing in it changes the list
\* the search shows, and the screen has room for a row.
ASSUME UiAssumption ==
    /\ Ahead \in Nat
    /\ \A p \in UiPlans :
          /\ p.files \subseteq Seq(STRING) \ {<<>>}
          /\ p.listed \in [SUBSET p.files -> Seq(p.files)]
          /\ \A some \in SUBSET p.files : ToSet(p.listed[some]) = some
          /\ p.groupsOf \in Seq(SUBSET p.files)
          /\ p.heights \subseteq Nat
          /\ p.steady => 0 \notin p.heights /\ p.groups \cap {"query", "tab", "views", "sort", "live"} = {}

VARIABLES
    uplan,     \* the plan of this behaviour
    app,       \* struct App
    loop,      \* event_loop: pc, visible, fetched_for, pending, whether keys rest
    scan,      \* dupe_job and its worker
    world,     \* the files on the disk, the files in the index, a clock
    seen       \* history: what was drawn, asked and answered

uiVars == <<uplan, app, loop, scan, world, seen>>

Absent == <<>>         \* no row, no path, no view
May(group) == group \in uplan.groups

Least(a, b) == IF a < b THEN a ELSE b
Most(a, b)  == IF a < b THEN b ELSE a
Slice(s, from, n) == SubSeq(s, from + 1, Least(from + n, Len(s)))

NewApp ==
    [mode |-> "search", query |-> <<>>, sort |-> "name", kind |-> "all",
     rows |-> <<>>, win |-> 0, sel |-> 0, total |-> 0,
     dupes |-> <<>>, dupesWindow |-> <<>>, dupesPending |-> TRUE,
     confirmDelete |-> Absent, pendingFile |-> Absent, cameFrom |-> "none",
     explorer |-> Absent, terminal |-> FALSE, rail |-> TRUE,
     dirty |-> TRUE, quit |-> FALSE, status |-> ""]

UiInit ==
    /\ uplan \in UiPlans
    /\ app = NewApp
    /\ \E h \in uplan.heights :
          loop = [pc |-> "frame", visible |-> h, fetched |-> -1, pending |-> TRUE, rested |-> TRUE]
    /\ scan = [pc |-> "none", groups |-> <<>>]
    /\ world = [disk |-> uplan.files, index |-> uplan.files, changes |-> 0]
    /\ seen = [dialog |-> Absent, list |-> <<>>, about |-> Absent,
               stepped |-> Absent, opened |-> "none", failed |-> FALSE]

(***************************************************************************)
(* What an index answers (query.rs).                                       *)
(***************************************************************************)
\* Files in the order an index lists them.
Listed(files) == uplan.listed[files]
IsDir(p) == p \in uplan.dirs
Includes(p, q) == \E i \in 0 .. Len(p) - Len(q) : SubSeq(p, i + 1, i + Len(q)) = q

About(a) == <<a.mode, a.query, a.sort, a.kind>>

\* The whole list a request is about, of which a window comes back.
ListFor(a, visible) ==
    LET indexed == Listed(world.index)
        found   == Listed({p \in world.index :
                      Includes(p, a.query) /\ (a.kind = "all" \/ IsDir(p) = (a.kind = "dirs"))})
    IN  IF a.mode = "bloat" THEN Slice(indexed, 0, a.win + Most(visible, 1) + Ahead)
        ELSE IF a.sort = "name" THEN found ELSE Reverse(found)

\* Copies still indexed; a group of one is none.  A divider heads each group.
Groups ==
    LET live(i) == Listed(uplan.groupsOf[i] \cap world.index)
        groups[i \in 0 .. Len(uplan.groupsOf)] ==
            IF i = 0 THEN <<>> ELSE IF Len(live(i)) > 1 THEN Append(groups[i - 1], live(i)) ELSE groups[i - 1]
    IN  groups[Len(uplan.groupsOf)]
Entries(groups) ==
    LET entries[i \in 0 .. Len(groups)] ==
            IF i = 0 THEN <<>> ELSE entries[i - 1] \o <<Absent>> \o groups[i]
    IN  entries[Len(groups)]

(***************************************************************************)
(* struct App.                                                             *)
(***************************************************************************)
\* current: the row under the cursor, if it is loaded and no divider.
Current(a) ==
    LET loaded == IF a.mode = "dupes" THEN a.dupesWindow ELSE a.rows
        i      == a.sel - a.win + 1
    IN  IF i \in DOMAIN loaded THEN loaded[i] ELSE Absent

ResetScroll(a) == [a EXCEPT !.sel = 0, !.win = 0, !.dirty = TRUE]
SetQuery(a, q) == IF a.query = q THEN a ELSE ResetScroll([a EXCEPT !.query = q])

\* Bug: the window moves and nothing asks for its rows.
ScrollQuietly(a, visible) ==
    LET start == IF a.sel < a.win THEN a.sel
                 ELSE IF a.sel >= a.win + visible THEN a.sel + 1 - visible ELSE a.win
    IN  IF visible = 0 THEN a ELSE [a EXCEPT !.win = start]

ScrollIntoView(a, visible) ==
    LET start == IF a.sel < a.win THEN a.sel
                 ELSE IF a.sel >= a.win + visible THEN a.sel + 1 - visible ELSE a.win
    IN  IF visible = 0 \/ start = a.win THEN a ELSE [a EXCEPT !.win = start, !.dirty = TRUE]

MoveSelection(a, delta, visible) ==
    IF a.total = 0 THEN [a EXCEPT !.sel = 0, !.win = 0]
    ELSE ScrollIntoView([a EXCEPT !.sel = Most(0, Least(@ + delta, a.total - 1))], visible)
GoFirst(a, visible) == ScrollIntoView([a EXCEPT !.sel = 0], visible)
GoLast(a, visible)  == ScrollIntoView([a EXCEPT !.sel = Most(a.total - 1, 0)], visible)

Clamped(a) ==
    IF a.total = 0 THEN [a EXCEPT !.sel = 0, !.win = 0]
    ELSE [a EXCEPT !.sel = Least(@, a.total - 1), !.win = Least(@, a.total - 1)]

ApplyRows(a, rows, total, visible) ==
    LET c == Clamped([a EXCEPT !.rows = rows, !.total = total, !.dirty = FALSE])
    IN  IF total # 0 /\ visible > 0 /\ c.sel >= c.win + visible
        THEN [c EXCEPT !.win = c.sel + 1 - visible, !.dirty = TRUE] ELSE c
ApplyBloat(a, rows, visible) ==
    ApplyRows(a, Slice(rows, Least(a.win, Len(rows)), Most(visible, 1)), Len(rows), visible)

WindowDupes(a, visible) ==
    Clamped([a EXCEPT !.dupesWindow = Slice(a.dupes, Least(a.win, Len(a.dupes)), Most(visible, 1)),
                      !.total = Len(a.dupes), !.dirty = FALSE])

ApplyDupes(a, groups, visible) ==
    LET b == [a EXCEPT !.dupes = Entries(groups), !.dupesPending = FALSE]
    IN  IF a.mode = "dupes" THEN WindowDupes(b, visible) ELSE b

\* parent_dir, and complete_selection: what Tab makes of the query.
SlashIn(p) == {i \in DOMAIN p : p[i] = "/"}
ParentDir(p) ==
    LET at == CHOOSE i \in SlashIn(p) : \A j \in SlashIn(p) : j <= i
    IN  IF SlashIn(p) = {} \/ at = 1 \/ at = Len(p) THEN Absent ELSE SubSeq(p, 1, at - 1)
CompleteSelection(a) ==
    LET row == Current(a)
    IN  IF a.mode # "search" THEN Absent
        ELSE IF a.pendingFile # Absent THEN a.pendingFile
        ELSE IF row = Absent \/ (~IsDir(row) /\ (a.query = row \/ ParentDir(row) = Absent))
        THEN Absent
        ELSE (IF IsDir(row) THEN row ELSE ParentDir(row)) \o <<"/">>

Complete(a) ==
    LET text == CompleteSelection(a)
        row  == Current(a)
    IN  IF text = Absent THEN a
        ELSE SetQuery([a EXCEPT !.pendingFile =
                          IF @ # Absent \/ row = Absent \/ IsDir(row) THEN Absent ELSE row], text)

NextMode(m) == CASE m = "search" -> "bloat" [] m = "bloat" -> "dupes" [] OTHER -> "search"
NextSort(s) == CASE s = "name" -> "size" [] s = "size" -> "modified" [] OTHER -> "name"
NextKind(k) == CASE k = "all" -> "files" [] k = "files" -> "dirs" [] OTHER -> "all"
ToggleDupes(a) == ResetScroll([a EXCEPT !.mode = IF @ = "dupes" THEN "search" ELSE "dupes"])

(***************************************************************************)
(* One turn of the loop: draw, take a finished scan, read a burst of keys, *)
(* ask for rows once no key came for a moment.                             *)
(***************************************************************************)
\* Bug: a scan that died is waited for.
FrameWaitingOn ==
    /\ loop.pc = "frame" /\ scan.pc # "answered"
    /\ loop' = [loop EXCEPT !.pc = "keys"]
    /\ UNCHANGED <<uplan, app, scan, world, seen>>

\* The frame drawn, and apply_dupe_result on what the scan sent before it.
Frame ==
    /\ loop.pc = "frame"
    /\ \E h \in (IF May("resize") THEN uplan.heights ELSE {loop.visible}) :
         /\ loop' = [loop EXCEPT !.pc = "keys", !.visible = h, !.pending = @ \/ h # loop.fetched]
         /\ app' = CASE scan.pc = "answered" -> [ApplyDupes(app, scan.groups, h) EXCEPT !.status = ""]
                     [] scan.pc = "failed" -> [app EXCEPT !.status = "error", !.dupesPending = TRUE]
                     [] scan.pc = "died" -> [app EXCEPT !.status = "error", !.dupesPending = FALSE]
                     [] OTHER -> app
    /\ scan' = IF scan.pc = "running" THEN scan ELSE [pc |-> "none", groups |-> <<>>]
    /\ seen' = [seen EXCEPT !.dialog = app.confirmDelete]
    /\ UNCHANGED <<uplan, world>>

\* The end of a burst: quit, refresh, or draw again.
Quitting == loop.pc = "keys" /\ app.quit /\ loop' = [loop EXCEPT !.pc = "quit"]
            /\ UNCHANGED <<uplan, app, scan, world, seen>>

AnswerRows(a, visible) ==
    LET list == ListFor(a, visible)
        b    == IF a.mode = "bloat" THEN ApplyBloat(a, list, visible)
                ELSE ApplyRows(a, Slice(list, a.win, Most(visible, 1)), Len(list), visible)
    IN  [b EXCEPT !.status = IF a.dirty THEN "" ELSE @]

\* refresh.
Refresh ==
    LET v == loop.visible
    IN  \/ /\ app.mode \in {"terminal", "explore"}
           /\ app' = [app EXCEPT !.dirty = FALSE]
           /\ UNCHANGED <<scan, seen>>
        \/ /\ app.mode = "dupes" /\ app.dupesPending
           /\ app' = [app EXCEPT !.dirty = FALSE]
           /\ scan' = IF scan.pc = "none" THEN [scan EXCEPT !.pc = "running"] ELSE scan
           /\ UNCHANGED seen
        \/ /\ app.mode = "dupes" /\ ~app.dupesPending
           /\ app' = WindowDupes(app, v)
           /\ UNCHANGED <<scan, seen>>
        \/ /\ app.mode \in {"search", "bloat"}
           /\ app' = AnswerRows(app, v)
           /\ seen' = [seen EXCEPT !.list = ListFor(app, v), !.about = About(app), !.failed = FALSE]
           /\ UNCHANGED scan
        \/ /\ app.mode \in {"search", "bloat"} /\ May("errors")
           /\ app' = [ApplyRows(app, <<>>, 0, v) EXCEPT !.status = "error"]
           /\ seen' = [seen EXCEPT !.failed = TRUE]
           /\ UNCHANGED scan

Rested ==
    /\ loop.pc = "keys" /\ ~app.quit
    /\ IF app.dirty \/ loop.pending
       THEN /\ Refresh
            /\ loop' = [loop EXCEPT !.pc = "frame", !.rested = TRUE, !.pending = FALSE,
                                    !.fetched = loop.visible]
       ELSE /\ loop' = [loop EXCEPT !.pc = "frame", !.rested = TRUE]
            /\ UNCHANGED <<app, scan, seen>>
    /\ UNCHANGED <<uplan, world>>

\* A key came less than 30 ms ago: draw again and ask nothing.
StillTyping ==
    /\ loop.pc = "keys" /\ ~app.quit /\ ~loop.rested
    /\ loop' = [loop EXCEPT !.pc = "frame"]
    /\ UNCHANGED <<uplan, app, scan, world, seen>>

(***************************************************************************)
(* Keys (handle_key).                                                      *)
(***************************************************************************)
\* Every key but Tab ends what a first Tab began.
KeyTo(a) ==
    /\ app' = [a EXCEPT !.pendingFile = Absent]
    /\ loop' = [loop EXCEPT !.pending = TRUE, !.rested = FALSE]
    /\ seen' = [seen EXCEPT !.stepped = Absent]
    /\ UNCHANGED <<uplan, scan>>
Reading == loop.pc = "keys" /\ ~app.quit
Asked   == app.confirmDelete # Absent
Listing == Reading /\ ~Asked /\ app.mode \in {"search", "bloat", "dupes"}

QueryKey ==
    /\ Listing /\ May("query")
    /\ \/ \E c \in uplan.letters :
             Len(app.query) < uplan.typed /\ KeyTo(ResetScroll([app EXCEPT !.query = Append(@, c)]))
       \/ app.query # <<>> /\ KeyTo(ResetScroll([app EXCEPT !.query = Front(@)]))
       \/ app.query # <<>> /\ KeyTo(ResetScroll([app EXCEPT !.query = <<>>]))
    /\ UNCHANGED world

MoveKeys ==
    /\ Listing /\ May("move")
    /\ LET v == loop.visible
       IN  \E a \in {GoFirst(app, v), GoLast(app, v)} \cup
                    {MoveSelection(app, d, v) : d \in {-1, 1, -v, v}} : KeyTo(a)
    /\ UNCHANGED world

\* The wheel moves the selection in every view but the terminal, and is no key.
Wheel ==
    /\ Reading /\ May("wheel") /\ app.mode # "terminal"
    /\ \E d \in {-3, 3} : app' = MoveSelection(app, d, loop.visible)
    /\ UNCHANGED <<uplan, loop, scan, world, seen>>

ViewKey ==
    /\ Listing
    /\ \/ May("views") /\ KeyTo(ResetScroll([app EXCEPT !.mode = NextMode(@)]))
       \/ May("views") /\ KeyTo(ToggleDupes(app))
       \/ May("views") /\ KeyTo(IF app.mode = "dupes" THEN [app EXCEPT !.dupesPending = TRUE]
                               ELSE [app EXCEPT !.dirty = TRUE])                   \* F5
       \/ May("sort") /\ KeyTo(ResetScroll([app EXCEPT !.sort = NextSort(@)]))
       \/ May("sort") /\ KeyTo(ResetScroll([app EXCEPT !.kind = NextKind(@)]))
       \/ May("sort") /\ KeyTo([app EXCEPT !.rail = ~@])
    /\ UNCHANGED world

TabKey ==
    /\ Listing /\ May("tab")
    /\ app' = Complete(app)
    /\ loop' = [loop EXCEPT !.pending = TRUE, !.rested = FALSE]
    /\ seen' = [seen EXCEPT !.stepped =
                   IF @ = Absent /\ app.mode = "search" /\ CompleteSelection(app) # Absent
                      /\ ~IsDir(Current(app)) THEN Current(app) ELSE Absent]
    /\ UNCHANGED <<uplan, scan, world>>

\* Enter and Shift+Enter: shown or opened if it is still there, then the end.
ActKey ==
    /\ Listing /\ May("act")
    /\ LET p == Current(app)
       IN  IF p \in world.disk
           THEN \E ok \in BOOLEAN : KeyTo([app EXCEPT !.quit = ok, !.status = IF ok THEN @ ELSE "error"])
           ELSE KeyTo([app EXCEPT !.status = IF p = Absent THEN @ ELSE "gone"])
    /\ UNCHANGED world

AskDelete ==
    /\ Listing /\ May("delete")
    /\ KeyTo([app EXCEPT !.confirmDelete = Current(app),
                         !.status = IF Current(app) = Absent THEN "none" ELSE @])
    /\ UNCHANGED world

\* confirm_delete: a directory goes with all it holds.
Removed(p) == {q \in world.disk : q = p \/ (IsDir(p) /\ Includes(q, p \o <<"/">>))}
\* Bug: y deletes the row that is highlighted by then.
ConfirmDeleteRow ==
    /\ Reading /\ Asked /\ Current(app) \in world.disk
    /\ world' = [world EXCEPT !.disk = @ \ Removed(Current(app))]
    /\ KeyTo([app EXCEPT !.confirmDelete = Absent, !.dirty = TRUE])

ConfirmDelete ==
    /\ Reading /\ Asked
    /\ LET p == app.confirmDelete
           a == [app EXCEPT !.confirmDelete = Absent]
       IN  \/ /\ p \in world.disk
              /\ world' = [world EXCEPT !.disk = @ \ Removed(p)]
              /\ KeyTo([a EXCEPT !.dirty = TRUE, !.status = "deleted"])
           \/ /\ p \notin world.disk \/ May("errors")
              /\ KeyTo([a EXCEPT !.status = "error"])
              /\ UNCHANGED world
CancelDelete ==
    /\ Reading /\ Asked
    /\ KeyTo([app EXCEPT !.confirmDelete = Absent, !.status = "cancelled"])
    /\ UNCHANGED world
OtherKeyWhileAsked == Reading /\ Asked /\ KeyTo(app) /\ UNCHANGED world

\* enter_explorer: on the folder of the highlighted row; leave_explorer.
EnterTree ==
    /\ Listing /\ May("explore")
    /\ KeyTo([app EXCEPT !.explorer = <<Current(app)>>, !.mode = "explore", !.status = "",
                         !.dirty = TRUE])
    /\ UNCHANGED world
LeaveTree ==
    /\ Reading /\ ~Asked /\ app.mode = "explore"
    /\ KeyTo([app EXCEPT !.mode = "search", !.dirty = TRUE, !.status = ""])
    /\ UNCHANGED world

\* enter_terminal from a list or from the explorer, unless no shell starts.
EnterTerminal ==
    /\ Listing \/ (Reading /\ ~Asked /\ app.mode = "explore")
    /\ May("terminal")
    /\ \/ /\ app' = [app EXCEPT !.pendingFile = Absent, !.cameFrom = app.mode,
                                !.terminal = TRUE, !.mode = "terminal", !.status = ""]
          /\ loop' = [loop EXCEPT !.pending = TRUE, !.rested = FALSE]
          /\ seen' = [seen EXCEPT !.stepped = Absent, !.opened = app.mode]
          /\ UNCHANGED <<uplan, scan>>
       \/ May("errors") /\ KeyTo([app EXCEPT !.status = "error"])
    /\ UNCHANGED world

LeaveTerminal ==
    /\ Reading /\ app.mode = "terminal"
    /\ KeyTo([app EXCEPT !.terminal = FALSE, !.dirty = TRUE, !.status = "", !.cameFrom = "none",
                         !.mode = IF app.cameFrom = "none" THEN "search" ELSE app.cameFrom])
    /\ UNCHANGED world

QuitKey ==
    /\ Listing \/ (Reading /\ app.mode = "terminal")
    /\ KeyTo([app EXCEPT !.quit = TRUE]) /\ UNCHANGED world

(***************************************************************************)
(* The worker of a scan, and everybody else.                               *)
(***************************************************************************)
\* Worker.answer, over a connection of its own or the local index.
ScanAnswers ==
    /\ scan.pc = "running"
    /\ \/ scan' = [pc |-> "answered", groups |-> Groups]
       \/ May("errors") /\ \E end \in {"failed", "died"} : scan' = [scan EXCEPT !.pc = end]
    /\ UNCHANGED <<uplan, app, loop, world, seen>>

FileGoes ==
    /\ May("others") /\ world.changes < uplan.changes
    /\ \E p \in world.disk : world' = [world EXCEPT !.disk = @ \ Removed(p), !.changes = @ + 1]
    /\ UNCHANGED <<uplan, app, loop, scan, seen>>

IndexFollows ==
    /\ May("live") /\ world.index # world.disk
    /\ world' = [world EXCEPT !.index = world.disk]
    /\ UNCHANGED <<uplan, app, loop, scan, seen>>

KeyPress == \/ QueryKey \/ MoveKeys \/ ViewKey \/ TabKey \/ ActKey \/ AskDelete \/ ConfirmDelete
            \/ CancelDelete \/ OtherKeyWhileAsked \/ EnterTree \/ LeaveTree \/ EnterTerminal
            \/ LeaveTerminal \/ QuitKey

UiNext == Frame \/ Quitting \/ Rested \/ StillTyping \/ Wheel \/ KeyPress
          \/ ScanAnswers \/ FileGoes \/ IndexFollows

\* The loop and the worker run; keys, other programs and the index need not.
\* A user rests now and then: StillTyping cannot go on for ever.
UiSpec ==
    /\ UiInit /\ [][UiNext]_uiVars
    /\ WF_uiVars(Frame) /\ SF_uiVars(Rested) /\ WF_uiVars(ScanAnswers)

(***************************************************************************)
(* Properties.                                                             *)
(***************************************************************************)
Settled == loop.pc = "frame" /\ ~app.dirty /\ ~loop.pending /\ ~seen.failed
           /\ app.mode \in {"search", "bloat"}

\* app.rs, fetch and apply_rows (dirty, pending, fetched_for): with nothing left
\* to ask, the rows on the screen are those of the query, the view, the order
\* and the filter on the screen, at the place scrolled to; and in a list that
\* keeps its length the cursor is on a row, whatever was typed, moved, turned
\* and resized.  It need not be in one that does not (CursorShown).
RowsOfThisQuery ==
    Settled => /\ seen.about = About(app)
               /\ app.rows # <<>> => app.rows = Slice(seen.list, app.win, Most(loop.visible, 1))
               /\ uplan.steady /\ app.total > 0 => Current(app) # Absent

\* Not kept (app.rs, apply_rows): "A live index can shrink between the request and the
\* response; fix the window rather than leaving the cursor pointing at nothing".
CursorShown == Settled /\ app.total > 0 => Current(app) # Absent

\* A scan that lands changes nothing of another view on the screen.
ScanKeepsToItsView ==
    Frame /\ app.mode # "dupes"
        => <<app'.rows, app'.win, app'.sel, app'.total>> = <<app.rows, app.win, app.sel, app.total>>

\* A second Tab names the file the first one was pressed on, although the rows
\* were asked for again in between.
SecondTabNamesFile == TabKey /\ seen.stepped # Absent => app'.query = seen.stepped

\* What y deletes is what the dialog was raised about.
DeletesWhatWasAsked ==
    ConfirmDelete /\ world'.disk # world.disk
        => world.disk \ world'.disk = Removed(app.confirmDelete)

\* Leaving the terminal goes back to the view it was opened from.
TerminalUnwinds == LeaveTerminal => app'.mode = seen.opened

\* app.rs, mod.rs: what was true when a key was pressed or a scan was started
\* is acted on, however rows and views move under it meanwhile: Tab completes
\* the file it was pressed on, y deletes what the dialog was raised about, a
\* scan that lands fills its own view only, and the terminal gives back the
\* view it was opened from.
ActsAsAsked ==
    [][ScanKeepsToItsView /\ SecondTabNamesFile /\ DeletesWhatWasAsked /\ TerminalUnwinds]_uiVars

\* Not kept (app.rs, confirm_delete): "Nothing is removed until the user answers, and the
\* prompt names the exact path so there is no doubt about what is about to go":
\* a path goes only after a frame showed the prompt naming it.
DeletesWhatWasShown ==
    [][KeyPress /\ world'.disk # world.disk => seen.dialog = app.confirmDelete]_uiVars

\* A duplicate view that waits for a scan gets one, or is told why not.
ScanEnds ==
    app.mode = "dupes" /\ app.dupesPending
        ~> ~app.dupesPending \/ app.status = "error" \/ app.mode # "dupes" \/ app.quit
=============================================================================
