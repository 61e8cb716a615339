------------------------------ MODULE Explorer ------------------------------
(***************************************************************************)
(* The explorer: a tree of folders, an editor for one file, a path bar     *)
(* (state.rs), and what the application around it does with what a key     *)
(* asks for: open, save, leave (mod.rs).  Saving and loading take several  *)
(* steps (file.rs), between which other programs use the disk.             *)
(***************************************************************************)
EXTENDS TextFile, TreeView

CONSTANTS
    Plans,      \* what a behaviour starts from and what may happen in it
    Letters,    \* characters that are typed
    Visible,    \* lines of the editor on the screen
    MaxTries    \* attempts at replacing a file (5)

VARIABLES
    plan,   \* the plan of this behaviour
    x,      \* struct Explorer, and of struct App the mode and confirm_discard
    disk,   \* the files, those with a temporary file beside them, a clock
    job,    \* the load or save in progress
    g       \* history: bytes known of the open file, and how the last key went

explorerVars == <<plan, x, disk, job, g>>

None == <<>>

\* A file, if there is one: what it holds, when it was written, and whether it may be.
Version(f) ==
    f # None => f = <<[bytes |-> f[1].bytes, mtime |-> f[1].mtime, readonly |-> f[1].readonly]>>

\* A behaviour begins with files that were written before it; what is typed and
\* written is made of bytes; and the screen shows something of a text.
ExplorerAssumption ==
    /\ Letters \subseteq Byte /\ Visible \in Nat \ {0}
    /\ \A q \in Plans :
        /\ DOMAIN q.files = Files /\ q.others \subseteq Seq(Byte)
        /\ \A p \in Files : q.files[p] # None =>
               /\ Version(q.files[p]) /\ q.files[p][1].mtime = 0
               /\ q.files[p][1].bytes \in Seq(Byte)
ASSUME ExplorerAssumption

Idle == [pc |-> "idle", path |-> <<>>, then |-> None, tries |-> 0, loaded |-> None,
         bytes |-> <<>>]

NewExplorer(root) ==
    [mode |-> "explore", tree |-> NewTree(root), rows |-> <<>>, synced |-> FALSE,
     focus |-> "tree", lastPane |-> "tree", doc |-> None, notice |-> "",
     path |-> Field(root), top |-> 1, find |-> NewFind, ask |-> None]

ExplorerInit ==
    /\ plan \in Plans
    /\ x = [NewExplorer(Root) EXCEPT !.mode = "search"]
    /\ disk = [file |-> plan.files, tmp |-> {}, clock |-> 1, locked |-> {}]
    /\ job = Idle
    /\ g = [loaded |-> <<>>, base |-> <<>>, raced |-> FALSE, from |-> Cursor(1, 0)]

There == {p \in Files : disk.file[p] # None}
Bytes(p) == disk.file[p][1].bytes
StampOf(p) == IF p \in There
              THEN <<[len |-> Len(Bytes(p)), mtime |-> disk.file[p][1].mtime]>>
              ELSE None
File(bytes, time) == <<[bytes |-> bytes, mtime |-> time, readonly |-> FALSE]>>

Doc == x.doc[1]
B == Doc.buf
Opened == x.doc # None
Dirty(y) == y.doc # None /\ Modified(y.doc[1].buf)
Allowed(group) == group \in plan.groups

(***************************************************************************)
(* Views.                                                                  *)
(***************************************************************************)

Scrolled(y) ==
    IF y.doc = None THEN y ELSE
    LET l == y.doc[1].buf.cursor.line
    IN  [y EXCEPT !.top = IF l < @ THEN l
                          ELSE IF l >= @ + Visible THEN l + 1 - Visible ELSE @]

TreeRows == Rows(x.tree, There, disk.locked)

\* sync, once no key came for a moment: what the next frame draws.
Sync ==
    /\ x.mode = "explore" /\ ~x.synced /\ job = Idle /\ Allowed("tree")
    /\ LET n == Len(TreeRows)
       IN  x' = [x EXCEPT !.synced = TRUE, !.rows = TreeRows,
                          !.tree = [Walked(@, There, disk.locked) EXCEPT
                              !.selected = IF @ > n THEN IF n = 0 THEN 1 ELSE n ELSE @]]
    /\ UNCHANGED <<plan, disk, job, g>>

(***************************************************************************)
(* Opening a file.                                                         *)
(***************************************************************************)
\* Explorer::load, up to reading the file.
Opening(y, p) == [y EXCEPT !.top = 1, !.path = Field(p), !.find = NewFind, !.ask = None]

StartLoad(y, p) ==
    /\ x' = Opening(y, p)
    /\ job' = [Idle EXCEPT !.pc = "read", !.path = p]
    /\ UNCHANGED <<plan, disk, g>>

ReadFile ==
    /\ job.pc = "read"
    /\ LET p == job.path
           loaded == IF p \notin There \/ TooLarge(Bytes(p)) THEN Rejected
                     ELSE Inspect(Bytes(p))
       IN  IF loaded = Rejected
           THEN /\ x' = [x EXCEPT !.doc = None, !.focus = "editor",
                           !.notice = IF p \in There THEN "refused" ELSE "unreadable"]
                /\ job' = Idle
                /\ UNCHANGED g
           ELSE /\ job' = [job EXCEPT !.pc = "stamp", !.loaded = loaded, !.bytes = Bytes(p)]
                /\ g' = [g EXCEPT !.raced = FALSE]
                /\ UNCHANGED x
    /\ UNCHANGED <<plan, disk>>

\* The stamp of the file is taken after its bytes were read.
TakeStamp ==
    /\ job.pc = "stamp"
    /\ x' = [x EXCEPT !.notice = "", !.focus = "editor",
                      !.doc = <<[path |-> job.path, buf |-> job.loaded[1],
                                 stamp |-> StampOf(job.path)]>>]
    /\ g' = [g EXCEPT !.loaded = job.bytes, !.base = job.bytes]
    /\ job' = Idle
    /\ UNCHANGED <<plan, disk>>

(***************************************************************************)
(* Saving.                                                                 *)
(***************************************************************************)
\* What a save is done for: None, or the exit that waits for it.
Leave == <<"leave">>
Quit  == <<"quit">>

\* resolve_discard: leave, quit, or open another file.
Exit(y, e) ==
    IF e \in Files THEN StartLoad(y, e)
    ELSE /\ x' = [y EXCEPT !.ask = None, !.mode = IF e = Leave THEN "search" ELSE "quit"]
         /\ job' = Idle
         /\ UNCHANGED <<plan, disk, g>>

StartSave(then) ==
    LET p == Doc.path
    IN  /\ disk.clock < plan.writes
        /\ x' = [x EXCEPT !.ask = None]
        /\ job' = IF p \notin There THEN [Idle EXCEPT !.pc = "create", !.path = p, !.then = then]
                  ELSE IF disk.file[p][1].readonly \/ (Doc.stamp # None /\ Doc.stamp # StampOf(p))
                  THEN Idle
                  ELSE [Idle EXCEPT !.pc = "temp", !.path = p, !.then = then]
        /\ UNCHANGED <<plan, disk, g>>

Put(d, p, bytes) == [d EXCEPT !.file[p] = File(bytes, d.clock), !.clock = @ + 1]

SaveFails ==
    /\ disk' = [disk EXCEPT !.tmp = @ \ {job.path}]
    /\ job' = Idle
    /\ UNCHANGED <<plan, x, g>>

\* A file that is not there is written in place, in more than one step.
CreateFile ==
    /\ job.pc \in {"create", "fill"} /\ Allowed("save")
    /\ LET half == SubSeq(ToBytes(B), 1, Len(ToBytes(B)) \div 2)
       IN  disk' = Put(disk, job.path, IF job.pc = "create" THEN half ELSE ToBytes(B))
    /\ job' = [job EXCEPT !.pc = IF @ = "create" THEN "fill" ELSE "saved"]
    /\ UNCHANGED <<plan, x, g>>

\* Bug: the file is written over in place.
WriteInPlace ==
    /\ job.pc = "temp"
    /\ disk' = Put(disk, job.path, SubSeq(ToBytes(B), 1, Len(ToBytes(B)) \div 2))
    /\ job' = [job EXCEPT !.pc = "fill"]
    /\ UNCHANGED <<plan, x, g>>

\* The temporary file is written and flushed.
WriteTemp ==
    /\ job.pc = "temp"
    /\ disk' = [disk EXCEPT !.tmp = @ \cup {job.path}]
    /\ job' = [job EXCEPT !.pc = "replace"]
    /\ UNCHANGED <<plan, x, g>>

ReplaceFile ==
    /\ job.pc = "replace" /\ job.path \in There
    /\ disk' = [Put(disk, job.path, ToBytes(B)) EXCEPT !.tmp = @ \ {job.path}]
    /\ job' = [job EXCEPT !.pc = "saved"]
    /\ UNCHANGED <<plan, x, g>>

\* Somebody holds the file open: tried again a few times.
ReplaceBusy ==
    /\ job.pc = "replace" /\ Allowed("busy") /\ job.tries + 1 < MaxTries
    /\ job' = [job EXCEPT !.tries = @ + 1]
    /\ UNCHANGED <<plan, x, disk, g>>

\* A full disk, a file that vanished, or the last attempt.
SaveError ==
    /\ \/ job.pc = "replace" /\ (job.path \notin There \/ Allowed("busy"))
       \/ job.pc \in {"create", "fill", "temp"} /\ Allowed("busy")
    /\ SaveFails

\* mark_saved and a new stamp; then what the save was done for.
MarkSaved ==
    /\ job.pc = "saved"
    /\ g' = [g EXCEPT !.base = ToBytes(B)]
    /\ LET y == [x EXCEPT !.doc[1].buf = Written(@), !.doc[1].stamp = StampOf(job.path)]
       IN  IF job.then = None \/ job.then[1] \in {Leave, Quit}
           THEN /\ x' = [y EXCEPT !.mode = IF job.then = None THEN @
                            ELSE IF job.then[1] = Leave THEN "search" ELSE "quit"]
                /\ job' = Idle
           ELSE /\ x' = Opening(y, job.then[1])
                /\ job' = [Idle EXCEPT !.pc = "read", !.path = job.then[1]]
    /\ UNCHANGED <<plan, disk>>

(***************************************************************************)
(* The dialog that guards unsaved changes.                                 *)
(***************************************************************************)

Guarded(y, e) ==
    IF Dirty(y)
    THEN /\ x' = [y EXCEPT !.ask = <<e>>]
         /\ UNCHANGED <<plan, disk, job, g>>
    ELSE Exit(y, e)

AnswerDiscard ==
    /\ x.mode = "explore" /\ x.ask # None /\ job = Idle
    /\ \/ StartSave(x.ask)
       \/ Exit(x, x.ask[1])
       \/ x' = [x EXCEPT !.ask = None] /\ UNCHANGED <<plan, disk, job, g>>

\* The window's own close button ends the program from any view.
CloseWindow ==
    /\ x.mode = "explore" /\ job = Idle /\ Allowed("leave")
    /\ x' = [x EXCEPT !.mode = "closed"]
    /\ UNCHANGED <<plan, disk, job, g>>

(***************************************************************************)
(* Keys.                                                                   *)
(***************************************************************************)
Listening == x.mode = "explore" /\ x.ask = None /\ job = Idle
Key == Listening /\ ~x.find.open

Now(y) == x' = y /\ UNCHANGED <<plan, disk, job, g>>
Buffer(b) == Scrolled([x EXCEPT !.doc[1].buf = b])

EnterExplorer ==
    /\ x.mode = "search" /\ job = Idle
    /\ \E p \in plan.enter :
         IF p \in Dirs THEN Now(NewExplorer(p))
         ELSE LET y == NewExplorer(Parent(p))
              IN  StartLoad([y EXCEPT !.tree = Reveal(@, p)], p)

CtrlKey ==
    /\ Key
    /\ \/ Allowed("save") /\ Opened /\ StartSave(None)
       \/ Allowed("leave") /\ \E e \in {Leave, Quit} : Guarded(x, e)
       \/ Allowed("tree") /\ Now([x EXCEPT !.tree = Refreshed(@), !.synced = FALSE])
       \/ /\ Allowed("panes")
          /\ \E y \in {[x EXCEPT !.focus = IF @ \in {"tree", "path"} THEN "editor" ELSE @],
                       [x EXCEPT !.focus = "tree"],
                       [x EXCEPT !.focus = "path",
                                 !.lastPane = IF x.focus # "path" THEN x.focus ELSE @],
                       [x EXCEPT !.focus = IF @ = "path" THEN x.lastPane ELSE @]} : Now(y)

EmptyEditorLeft ==
    /\ Key /\ Allowed("panes") /\ x.focus = "editor" /\ ~Opened /\ Now([x EXCEPT !.focus = "tree"])

MoveKey ==
    /\ Key /\ x.focus = "editor" /\ Opened
    /\ \/ \E b \in {Right(B), Up(B), Home(B), End(B),
                    Goto(B, Cursor(B.cursor.line + Visible, 0)),
                    Goto(B, Cursor(IF B.cursor.line > Visible THEN B.cursor.line - Visible
                                   ELSE 1, 0))} : Now(Buffer(b))
       \/ ~AtStart(B) /\ Now(Buffer(Left(B)))
       \/ ~OnLastLine(B) /\ Now(Buffer(Down(B)))
       \/ /\ Allowed("panes")
          /\ \/ AtStart(B) /\ Now([Buffer(Left(B)) EXCEPT !.focus = "tree"])
             \/ /\ OnLastLine(B)
                /\ Now([Buffer(Down(B)) EXCEPT !.focus = "path", !.lastPane = "editor"])

Spaces == <<"sp", "sp">>   \* what Tab inserts (four of them)

EditKey ==
    /\ Key /\ Allowed("edit") /\ x.focus = "editor" /\ Opened
    /\ \/ \E c \in Letters \cup {NL} :
            /\ IF Coalesces(B, <<>>, c # NL) THEN Len(Last(B.undo).inserted) < plan.run
               ELSE Len(B.undo) < plan.edits
            /\ Now(Buffer(InsertChar(B, c)))
       \/ /\ Len(B.undo) < plan.edits
          /\ \E b \in {InsertStr(B, Spaces), Backspace(B), Delete(B)} : Now(Buffer(b))
       \/ \E b \in {Undo(B), Redo(B)} : Now(Buffer(b))

TreeKey ==
    /\ Key /\ Allowed("tree") /\ x.focus = "tree"
    /\ LET rows == TreeRows
           here == Here(x.tree, rows)
           t    == Walked(x.tree, There, disk.locked)
           Tree(u) == Now([x EXCEPT !.tree = u, !.synced = FALSE])
       IN  \/ Tree([t EXCEPT !.selected = IF @ > 1 THEN @ - 1 ELSE 1])
           \/ IF t.selected < Len(rows) THEN Tree([t EXCEPT !.selected = @ + 1])
              ELSE Now([x EXCEPT !.tree = t, !.lastPane = "tree", !.focus = "path"])
           \/ Tree([t EXCEPT !.selected = 1])
           \/ Tree([t EXCEPT !.selected = IF rows = <<>> THEN 1 ELSE Len(rows)])
           \/ /\ here # NoRow
              /\ IF here.dir /\ here.expanded THEN Tree(Collapse(t, here.path))
                 ELSE \E i \in DOMAIN rows :
                         rows[i].path = Parent(here.path) /\ Tree([t EXCEPT !.selected = i])
           \/ IF here.dir /\ ~here.expanded THEN Tree(Expand(t, here.path))
              ELSE Now([x EXCEPT !.tree = t, !.focus = "editor"])
           \/ /\ here # NoRow
              /\ IF here.dir THEN Tree(Toggle(t, here.path))
                 ELSE here.path \in Files /\ Guarded([x EXCEPT !.tree = t], here.path)

PathKey ==
    /\ Key /\ Allowed("path") /\ x.focus = "path"
    /\ LET f == x.path
           p == f.text
       IN  \/ \E h \in {FieldLeft(f), FieldRight(f), FieldHome(f), FieldEnd(f),
                        FieldBackspace(f), FieldDelete(f)} : Now([x EXCEPT !.path = h])
           \/ \E c \in Letters \cup {"/"} :
                 Len(p) < plan.run /\ Now([x EXCEPT !.path = FieldInsert(f, c)])
           \/ Now([x EXCEPT !.focus = x.lastPane])
           \/ Now([x EXCEPT !.path = Field(Completed(p, There, disk.locked))])
           \/ IF p \in Dirs
              THEN Now([x EXCEPT !.tree = NewTree(p), !.synced = FALSE, !.focus = "tree"])
              ELSE IF p \in There THEN Guarded(x, p)
              ELSE Now([x EXCEPT !.notice = "no such path"])

(***************************************************************************)
(* Find.                                                                   *)
(***************************************************************************)
OnHit(f) ==
    IF f.current = 0 THEN [x EXCEPT !.find = f]
    ELSE Scrolled([x EXCEPT !.find = f, !.doc[1].buf = Goto(@, f.hits[f.current])])

StartFind ==
    /\ Key /\ Allowed("find") /\ Opened
    /\ x' = [OnHit(OpenFind(x.find, B.cursor, B.lines)) EXCEPT !.focus = "editor"]
    /\ g' = [g EXCEPT !.from = B.cursor]
    /\ UNCHANGED <<plan, disk, job>>

\* F3 and Shift+F3 once the prompt is closed.
StepFind(forward) ==
    /\ Key /\ Allowed("find") /\ Opened /\ x.find.field.text # <<>>
    /\ LET f == Rescan(x.find, B.lines, B.cursor)
       IN  Now(OnHit(IF forward THEN NextHit(f) ELSE PreviousHit(f)))

AcceptFind == Listening /\ x.find.open /\ Now([x EXCEPT !.find.open = FALSE])

\* Bug: Esc leaves the cursor on the last hit.
AbandonFindOnHit == AcceptFind

\* Esc puts the cursor back where the search began.
AbandonFind ==
    /\ Listening /\ x.find.open
    /\ Now(Scrolled([x EXCEPT !.find.open = FALSE, !.doc[1].buf = Goto(@, x.find.origin)]))

FindKey ==
    /\ Listening /\ x.find.open
    /\ LET f == x.find
       IN  \/ \E h \in {NextHit(f), PreviousHit(f), [f EXCEPT !.field = FieldLeft(@)],
                        [f EXCEPT !.field = FieldRight(@)], FindBackspace(f, B.lines)} : Now(OnHit(h))
           \/ \E c \in Letters :
                 Len(f.field.text) < 2 /\ Now(OnHit(FindInsert(f, c, B.lines)))

(***************************************************************************)
(* Other programs.                                                         *)
(***************************************************************************)
OtherProgram ==
    /\ x.mode = "explore" /\ disk.clock < plan.writes /\ Allowed("others")
    /\ \/ \E p \in plan.shared :
            /\ \/ \E bytes \in plan.others : disk' = Put(disk, p, bytes)
               \/ p \in There /\ disk' = [disk EXCEPT !.file[p] = None, !.clock = @ + 1]
               \/ p \in There /\ disk' = [disk EXCEPT !.file[p][1].readonly = TRUE,
                                                     !.clock = @ + 1]
            /\ g' = [g EXCEPT !.raced = @ \/ (job.path = p /\ job.pc # "read")]
       \/ \E d \in Dirs \ (disk.locked \cup {Root}) :
            /\ disk' = [disk EXCEPT !.locked = @ \cup {d}, !.clock = @ + 1]
            /\ UNCHANGED g
    /\ UNCHANGED <<plan, x, job>>

\* The process ends at any moment: what it had written of a file stays.
Killed ==
    /\ x.mode = "explore" /\ job.pc \in {"temp", "replace", "create", "fill"}
    /\ x' = [x EXCEPT !.mode = "closed"]
    /\ job' = Idle
    /\ UNCHANGED <<plan, disk, g>>

ExplorerNext ==
    \/ EnterExplorer \/ Sync
    \/ ReadFile \/ TakeStamp
    \/ CreateFile \/ WriteTemp \/ ReplaceFile \/ ReplaceBusy \/ SaveError \/ MarkSaved
    \/ AnswerDiscard \/ CloseWindow
    \/ CtrlKey \/ EmptyEditorLeft \/ MoveKey \/ EditKey \/ TreeKey \/ PathKey
    \/ StartFind \/ StepFind(TRUE) \/ StepFind(FALSE) \/ AcceptFind \/ AbandonFind \/ FindKey
    \/ OtherProgram \/ Killed

(***************************************************************************)
(* Properties.                                                             *)
(***************************************************************************)
\* Undone as far as it goes.
AllUndone(b) ==
    LET back[n \in 0 .. Len(b.undo)] == IF n = 0 THEN b ELSE Undo(back[n - 1])
    IN  back[Len(b.undo)]

\* buffer.rs: a buffer that does not call itself modified holds, byte for byte,
\* what was last read from or written to its file, whatever was typed, saved,
\* undone and redone in between; undoing everything gives the file as it was
\* opened, with every line ending it had, and a redo takes one undo back.
BufferTrue ==
    Opened =>
        /\ ~Modified(B) => ToBytes(B) = g.base
        /\ ToBytes(AllUndone(B)) = g.loaded
        /\ B.undo # <<>> => /\ Redo(Undo(B)).lines = B.lines
                           /\ Redo(Undo(B)).eols = B.eols

\* Every cursor and caret stands inside its text, and the editor's is on the
\* screen unless a file is being loaded (a column past a shorter line slices out
\* of bounds, which aborts).
CursorsInside ==
    /\ Opened => /\ B.cursor.line \in 1 .. Len(B.lines)
                 /\ B.cursor.col \in 0 .. LineLen(B, B.cursor.line)
                 /\ Len(B.eols) = Len(B.lines)
                 /\ job = Idle => B.cursor.line \in x.top .. x.top + Visible - 1
    /\ CaretInside(x.path) /\ CaretInside(x.find.field)

\* state.rs, tree.rs, find.rs: what is drawn selected is what a key acts on.
\* Cursors stand inside their text; the open find prompt counts the hit the
\* cursor is on, one in the text as it is now; and the row under the tree's
\* selection is the row drawn, whatever others create or delete meanwhile.
SelectionTrue ==
    /\ CursorsInside
    /\ x.find.open /\ x.find.current # 0 =>
         /\ x.find.hits = Matches(B.lines, x.find.field.text)
         /\ B.cursor = x.find.hits[x.find.current]
    /\ x.synced => Here(x.tree, TreeRows) = Here(x.tree, x.rows)

AbandonReturns == AbandonFind => x'.doc[1].buf.cursor = g.from
StepsThroughHits ==
    StepFind(TRUE) =>
        LET hits == Matches(B.lines, x.find.field.text)
            n    == Len(hits)
        IN  \A i \in 1 .. n : B.cursor = hits[i] =>
                x'.doc[1].buf.cursor = hits[(i % n) + 1]

\* find.rs: Esc in the prompt puts the cursor back where it was when the prompt
\* opened, however many hits were visited; and from a hit F3 goes to the next
\* one, around the end, in the text as it is now, so that it visits all of them.
FindKeepsPlace == [][AbandonReturns /\ StepsThroughHits]_explorerVars

\* A file that exists changes only to a whole version: another program's, or
\* all of the buffer.  A save that fails, or a process that is killed, never
\* leaves a part of it (temp_beside, replace_file).
OnlyWholeVersions ==
    \A p \in Files :
        /\ ~g.raced
        /\ disk.file[p] # None /\ disk'.file[p] # None /\ disk'.file[p] # disk.file[p]
        => \/ x.mode = "explore" /\ job' = job
           \/ disk'.file[p][1].bytes = ToBytes(B)

\* A save replaces only what this session read or wrote itself.
OnlyKnownReplaced == ReplaceFile /\ ~g.raced => Bytes(job.path) = g.base

\* No temporary file stays behind a save that ended, well or not.
NoTempLeft == x.mode = "explore" /\ job = Idle => disk.tmp = {}

\* Unsaved changes go away only in answer to the dialog: opening another file,
\* leaving and quitting ask first.  The window's close button does not
\* (UnsavedAlwaysAsked).
UnsavedAsked ==
    Dirty(x) /\ (x'.mode \in {"search", "quit"} \/ (job'.pc = "read" /\ job.pc # "read"))
        => x.ask # None \/ job.then # None \/ x.mode = "search"

\* textfile.rs, state.rs: nobody's text is lost.  A file only ever changes to a
\* whole version; a save replaces nothing but what this session read or wrote
\* (unless another program wrote in the middle of a load or a save of that
\* file, README 6); a save that ended leaves no temporary file; and unsaved
\* changes are never dropped without the dialog.
SaveKeepsFiles ==
    [][OnlyWholeVersions /\ OnlyKnownReplaced /\ NoTempLeft' /\ UnsavedAsked]_explorerVars

\* Not kept (README): "Leaving with unsaved changes asks first".
UnsavedAlwaysAsked ==
    [][Dirty(x) /\ x.mode = "explore" /\ x'.mode # "explore"
        => x.ask # None \/ job # Idle]_explorerVars

ExplorerSpec == ExplorerInit /\ [][ExplorerNext]_explorerVars
=============================================================================
