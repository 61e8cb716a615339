--------------------------- MODULE ExplorerProofs ---------------------------
(***************************************************************************)
(* Explorer: nobody's text is lost, for any files of any bytes, any keys   *)
(* and whatever other programs do.                                         *)
(*                                                                         *)
(* Files (SaveKeepsFiles).  What a step of a save does to a file says      *)
(* little of itself; what makes it safe was looked at several steps        *)
(* earlier.  The invariant, ExplorerInv, carries that along: what each     *)
(* stage of a job knows of its file (Staged), what the stamp kept with the *)
(* open text is worth after others wrote (Stamped, which needs that no     *)
(* file is dated in the future, Dated), and whose the temporary file is    *)
(* (Working).  The text itself stays a value nobody looks into.            *)
(*                                                                         *)
(* Text (BufferTrue).  A text is its lines; a replacement puts lines       *)
(* between two places (PutBetween), and putting back what was there undoes *)
(* it (PutBack, EndsBack).  A buffer has a History: the text between any   *)
(* two edits, those undone included, each edit leading from one to the     *)
(* next (Takes).  Every key of the editor keeps one, typing into an edit   *)
(* included (ApplyMore); the text of a file that is opened has one whose   *)
(* text is the bytes that were read (ParsedIs).  Alive adds what the       *)
(* buffer remembers: which of those texts was read, which was saved.       *)
(*                                                                         *)
(* Find (FindKeepsPlace).  Hits are places of the text, in its order       *)
(* (MatchesAre); while the prompt is open the cursor stands on the current *)
(* one and the place the search began at is still one of the text          *)
(* (FindOf, a part of TextInv).                                            *)
(***************************************************************************)
EXTENDS Explorer, DataLemmas

Fields == {"mode", "tree", "rows", "synced", "focus", "lastPane", "doc", "notice", "path", "top",
           "find", "ask"}
Stages == {"idle", "read", "stamp", "create", "fill", "temp", "replace", "saved"}
Saving == job.pc \in {"create", "fill", "temp", "replace", "saved"}

\* An open file, if there is one.
IsDoc(d) == d # None => /\ d = <<[path |-> d[1].path, buf |-> d[1].buf, stamp |-> d[1].stamp]>>
                        /\ d[1].path \in Files

Shapes ==
    /\ DOMAIN x = Fields
    /\ x.mode \in {"explore", "search", "quit", "closed"}
    /\ IsDoc(x.doc)
    /\ DOMAIN disk = {"file", "tmp", "clock", "locked"}
    /\ DOMAIN disk.file = Files
    /\ \A p \in Files : Version(disk.file[p])
    /\ DOMAIN job = {"pc", "path", "then", "tries", "loaded", "bytes"}
    /\ job.pc \in Stages
    /\ job.pc = "idle" => job = Idle
    /\ DOMAIN g = {"loaded", "base", "raced", "from"}
    /\ g.raced \in BOOLEAN

\* Nothing is dated later than now, and what is written next is dated later.
Dated ==
    /\ disk.clock \in Nat
    /\ \A p \in There : disk.file[p][1].mtime \in Nat /\ disk.file[p][1].mtime < disk.clock
    /\ Opened /\ Doc.stamp # None =>
           Doc.stamp[1].mtime \in Nat /\ Doc.stamp[1].mtime < disk.clock

\* A job is about the view on the screen, a save, the dialog and a search about
\* the open file, and a temporary file about the save that is at it.
Working ==
    /\ x.mode # "explore" => job = Idle
    /\ Saving => Opened /\ job.path = Doc.path
    /\ x.ask # None \/ x.find.open => Opened /\ job = Idle
    /\ x.ask # None => ~x.find.open
    /\ job.pc = "stamp" => job.path \in Files
    /\ x.mode \in {"explore", "search"} =>
           disk.tmp \subseteq (IF job.pc = "replace" THEN {job.path} ELSE {})

\* What each stage of a load or a save knows of its file.
Staged ==
    ~g.raced =>
        /\ job.pc = "create" => job.path \notin There
        /\ job.pc \in {"temp", "replace"} => job.path \in There /\ Bytes(job.path) = g.base
        /\ job.pc = "stamp" => job.path \in There /\ Bytes(job.path) = job.bytes
        /\ job.pc = "saved" => job.path \in There /\ Bytes(job.path) = ToBytes(B)

\* A file with the time of the stamp holds what was read or written with it.
Stamped ==
    ~g.raced /\ Opened /\ job.pc # "stamp" =>
        /\ Doc.stamp # None
        /\ Doc.path \in There /\ disk.file[Doc.path][1].mtime = Doc.stamp[1].mtime =>
               Bytes(Doc.path) = g.base

ExplorerInv == Shapes /\ Dated /\ Working /\ Staged /\ Stamped

(***************************************************************************)
(* Steps that leave files and jobs alone.                                  *)
(***************************************************************************)
\* y is what is on the screen now, but for the text and what surrounds it.
Same(y) ==
    /\ DOMAIN y = Fields
    /\ y.mode = x.mode
    /\ y.doc = None <=> x.doc = None
    /\ y.ask # None \/ y.find.open => x.doc # None
    /\ y.ask # None => ~y.find.open
    /\ IsDoc(y.doc)
    /\ y.doc # None => y.doc[1].path = Doc.path /\ y.doc[1].stamp = Doc.stamp

\* Whatever else is typed, chosen or drawn.
Still ==
    /\ x.mode = "explore" /\ job = Idle
    /\ Same(x') /\ job' = job /\ disk' = disk
    /\ DOMAIN g' = DOMAIN g /\ g'.raced = g.raced /\ g'.base = g.base

\* What SaveKeepsFiles says of a step, and the invariant behind it.
Kept == ExplorerInv' /\ OnlyWholeVersions /\ OnlyKnownReplaced /\ UnsavedAsked

LEMMA StillKeeps ==
    ASSUME ExplorerInv, Still PROVE Kept
<1>1. /\ job.pc = "idle" /\ job'.pc = "idle" /\ job'.path = job.path
      /\ DOMAIN x' = Fields /\ x'.mode = "explore" /\ IsDoc(x'.doc)
    BY DEF Still, Same, Idle
<1>2. Shapes'
    BY <1>1 DEF ExplorerInv, Shapes, Still, IsDoc, Version, None
<1>3. There' = There /\ \A p \in Files : disk'.file[p] = disk.file[p]
    BY DEF Still, There
<1>4. Opened' => Opened /\ x'.doc[1].path = Doc.path /\ x'.doc[1].stamp = Doc.stamp
    BY DEF Still, Same, Opened, None
<1>5. Dated'
    BY <1>3, <1>4 DEF ExplorerInv, Dated, Still, Doc
<1>6. Working'
    BY <1>1, <1>4 DEF ExplorerInv, Working, Still, Saving, Same, Opened
<1>7. Staged'
    BY <1>1 DEF Staged
<1>8. Stamped'
    BY <1>1, <1>3, <1>4 DEF ExplorerInv, Stamped, Still, Doc, Bytes, IsDoc
<1>9. OnlyWholeVersions /\ OnlyKnownReplaced /\ UnsavedAsked
    BY <1>1 DEF OnlyWholeVersions, OnlyKnownReplaced, ReplaceFile, UnsavedAsked, Still
<1> QED BY <1>2, <1>5, <1>6, <1>7, <1>8, <1>9 DEF Kept, ExplorerInv

\* The screen may be given any tree, rows, focus, line, find or text.
LEMMA Redrawn ==
    ASSUME Shapes, NEW y, Same(y)
    PROVE  /\ \A v : /\ Same([y EXCEPT !.tree = v]) /\ Same([y EXCEPT !.synced = v])
                     /\ Same([y EXCEPT !.rows = v]) /\ Same([y EXCEPT !.focus = v])
                     /\ Same([y EXCEPT !.lastPane = v]) /\ Same([y EXCEPT !.top = v])
                     /\ Same([y EXCEPT !.path = v]) /\ Same([y EXCEPT !.notice = v])
                     /\ y.doc # None /\ y.ask = None => Same([y EXCEPT !.find = v])
                     /\ y.doc # None /\ ~y.find.open => Same([y EXCEPT !.ask = v])
           /\ Same([y EXCEPT !.ask = None])
           /\ y.doc # None => \A b : Same([y EXCEPT !.doc[1].buf = b])
<1>1. \A v : /\ Same([y EXCEPT !.tree = v]) /\ Same([y EXCEPT !.synced = v])
             /\ Same([y EXCEPT !.rows = v]) /\ Same([y EXCEPT !.focus = v])
             /\ Same([y EXCEPT !.lastPane = v]) /\ Same([y EXCEPT !.top = v])
             /\ Same([y EXCEPT !.path = v]) /\ Same([y EXCEPT !.notice = v])
             /\ y.doc # None /\ y.ask = None => Same([y EXCEPT !.find = v])
             /\ y.doc # None /\ ~y.find.open => Same([y EXCEPT !.ask = v])
    BY DEF Same, Fields
<1>0. Same([y EXCEPT !.ask = None])
    BY DEF Same, Fields
<1>2. ASSUME y.doc # None, NEW b PROVE Same([y EXCEPT !.doc[1].buf = b])
  <2> DEFINE z == [y EXCEPT !.doc[1].buf = b]
             d == y.doc[1]
  <2>1. y.doc = <<[path |-> d.path, buf |-> d.buf, stamp |-> d.stamp]>> /\ d.path \in Files
      BY <1>2 DEF Same, IsDoc
  <2>2. z = [y EXCEPT !.doc = [y.doc EXCEPT ![1] = [d EXCEPT !.buf = b]]]
      OBVIOUS
  <2>3. [d EXCEPT !.buf = b] = [path |-> d.path, buf |-> b, stamp |-> d.stamp]
      BY <2>1
  <2>4. [y.doc EXCEPT ![1] = [d EXCEPT !.buf = b]]
            = <<[path |-> d.path, buf |-> b, stamp |-> d.stamp]>>
      BY <2>1, <2>3
  <2>5. z.doc = <<[path |-> d.path, buf |-> b, stamp |-> d.stamp]>>
      BY <2>2, <2>4 DEF Same, Fields
  <2>6. DOMAIN z = Fields /\ z.mode = x.mode /\ z.ask = y.ask /\ z.find = y.find
      BY DEF Same, Fields
  <2>7. z.doc # None /\ IsDoc(z.doc)
      BY <2>1, <2>5 DEF IsDoc, None
  <2>8. z.doc[1].path = d.path /\ z.doc[1].stamp = d.stamp
      BY <2>5
  <2>9. Same(z)
      BY <1>2, <2>6, <2>7, <2>8 DEF Same
  <2> QED BY <2>9
<1> QED BY <1>0, <1>1, <1>2

LEMMA SameScreen ==
    ASSUME ExplorerInv PROVE Same(x)
BY DEF ExplorerInv, Shapes, Working, Same, Opened, Doc

LEMMA SameScrolled ==
    ASSUME ExplorerInv, NEW y, Same(y) PROVE Same(Scrolled(y))
<1>1. \A v : Same([y EXCEPT !.top = v])
    BY Redrawn DEF ExplorerInv
<1> QED BY <1>1 DEF Scrolled

(***************************************************************************)
(* Steps that begin a load or a save, or end the view.                     *)
(***************************************************************************)
\* y is a screen a load may begin from: with the text there is, or none.
Ready(y) ==
    /\ DOMAIN y = Fields /\ y.mode = "explore"
    /\ y.doc = None \/ y.doc = x.doc

LEMMA LoadKeeps ==
    ASSUME ExplorerInv, job = Idle, x.mode \in {"explore", "search"},
           NEW y, NEW p, Ready(y), StartLoad(y, p),
           Dirty(x) => x.ask # None \/ x.mode = "search"
    PROVE  Kept
<1>1. /\ job.pc = "idle" /\ job'.pc = "read" /\ DOMAIN job' = DOMAIN job
      /\ job'.path = p
    BY DEF StartLoad, Idle, ExplorerInv, Shapes
<1>2. /\ DOMAIN x' = Fields /\ x'.mode = "explore" /\ x'.ask = None
      /\ ~x'.find.open /\ (x'.doc = None \/ x'.doc = x.doc)
    BY DEF StartLoad, Opening, Ready, Fields, NewFind
<1>3. UNCHANGED <<plan, disk, g>>
    BY DEF StartLoad
<1>4. Shapes'
    BY <1>1, <1>2, <1>3 DEF ExplorerInv, Shapes, IsDoc, Version, Stages, Idle
<1>5. Dated' /\ Stamped'
    BY <1>1, <1>2, <1>3 DEF ExplorerInv, Dated, Stamped, There, Opened, Doc, Bytes
<1>6. Working' /\ Staged'
    BY <1>1, <1>2, <1>3 DEF ExplorerInv, Working, Staged, Saving
<1>7. OnlyWholeVersions /\ OnlyKnownReplaced /\ UnsavedAsked
    BY <1>1, <1>2, <1>3 DEF OnlyWholeVersions, OnlyKnownReplaced, ReplaceFile, UnsavedAsked
<1> QED BY <1>4, <1>5, <1>6, <1>7 DEF Kept, ExplorerInv

LEMMA ExitKeeps ==
    ASSUME ExplorerInv, job = Idle, x.mode = "explore",
           NEW y, NEW e, Ready(y), y.doc = x.doc, y.find = x.find, Exit(y, e),
           Dirty(x) => x.ask # None
    PROVE  Kept
<1>1. CASE e \in Files
    BY <1>1, LoadKeeps DEF Exit
<1>2. CASE e \notin Files
  <2>1. /\ job.pc = "idle" /\ job' = job /\ UNCHANGED <<plan, disk, g>>
      BY <1>2 DEF Exit, Idle
  <2>2. /\ DOMAIN x' = Fields /\ x'.mode \in {"search", "quit"} /\ x'.ask = None
        /\ x'.find = x.find /\ x'.doc = x.doc
      BY <1>2 DEF Exit, Ready, Fields
  <2>3. Shapes'
      BY <2>1, <2>2 DEF ExplorerInv, Shapes, IsDoc, Version, Idle
  <2>4. Dated' /\ Stamped'
      BY <2>1, <2>2 DEF ExplorerInv, Dated, Stamped, There, Opened, Doc, Bytes
  <2>5. Working' /\ Staged'
      BY <2>1, <2>2 DEF ExplorerInv, Working, Staged, Saving, Opened
  <2>6. OnlyWholeVersions /\ OnlyKnownReplaced /\ UnsavedAsked
      BY <2>1, <2>2 DEF OnlyWholeVersions, OnlyKnownReplaced, ReplaceFile, UnsavedAsked
  <2> QED BY <2>3, <2>4, <2>5, <2>6 DEF Kept, ExplorerInv
<1> QED BY <1>1, <1>2

\* A file of the stamp's length and time is the one that was read or written.
LEMMA SaveKeeps ==
    ASSUME ExplorerInv, job = Idle, x.mode = "explore", Opened, ~x.find.open, NEW then,
           StartSave(then)
    PROVE  Kept
<1> DEFINE p == Doc.path
<1>1. /\ job.pc = "idle" /\ DOMAIN job' = DOMAIN job /\ UNCHANGED <<plan, disk, g>>
    BY DEF StartSave, Idle, ExplorerInv, Shapes
<1>2. /\ DOMAIN x' = Fields /\ x'.mode = "explore" /\ x'.ask = None /\ x'.doc = x.doc
      /\ x'.find = x.find
    BY DEF StartSave, ExplorerInv, Shapes, Fields
<1>3. \/ job' = Idle
      \/ job'.pc = "create" /\ job'.path = p /\ p \notin There
      \/ /\ job'.pc = "temp" /\ job'.path = p /\ p \in There
         /\ Doc.stamp # None => Doc.stamp = StampOf(p)
    BY DEF StartSave, Idle
<1>4. job'.pc \in {"idle", "create", "temp"} /\ (job'.pc = "idle" => job' = Idle)
    BY <1>3 DEF Idle
<1>5. Shapes'
    BY <1>1, <1>2, <1>4 DEF ExplorerInv, Shapes, IsDoc, Version, Stages
<1>6. Dated' /\ Stamped'
    BY <1>1, <1>2, <1>4 DEF ExplorerInv, Dated, Stamped, There, Opened, Doc, Bytes
<1>7. Working'
    BY <1>1, <1>2, <1>3, <1>4 DEF ExplorerInv, Working, Saving, Opened, Doc, Idle
<1>8. Staged'
  <2>1. ~g.raced /\ p \in There /\ Doc.stamp = StampOf(p) => Bytes(p) = g.base
      BY <1>1 DEF ExplorerInv, Stamped, StampOf
  <2>2. ~g.raced => Doc.stamp # None
      BY <1>1 DEF ExplorerInv, Stamped
  <2> QED BY <1>1, <1>2, <1>3, <1>4, <2>1, <2>2 DEF Staged, There, Bytes, Idle
<1>9. OnlyWholeVersions /\ OnlyKnownReplaced /\ UnsavedAsked
    BY <1>1, <1>2, <1>4 DEF OnlyWholeVersions, OnlyKnownReplaced, ReplaceFile, UnsavedAsked
<1> QED BY <1>5, <1>6, <1>7, <1>8, <1>9 DEF Kept, ExplorerInv

LEMMA GuardedKeeps ==
    ASSUME ExplorerInv, job = Idle, x.mode = "explore",
           NEW y, NEW e, y.doc = x.doc, y.find = x.find, ~x.find.open, Same(y), Guarded(y, e)
    PROVE  Kept
<1>1. CASE Dirty(y)
  <2>1. Same([y EXCEPT !.ask = <<e>>])
      BY <1>1, Redrawn DEF Dirty, ExplorerInv
  <2>2. Still
      BY <1>1, <2>1 DEF Guarded, Still
  <2> QED BY <2>2, StillKeeps
<1>2. CASE ~Dirty(y)
  <2>1. ~Dirty(x)
      BY <1>2 DEF Dirty
  <2>2. Ready(y)
      BY DEF Ready, Same
  <2> QED BY <1>2, <2>1, <2>2, ExitKeeps DEF Guarded
<1> QED BY <1>1, <1>2

(***************************************************************************)
(* Keys, and the dialog.                                                   *)
(***************************************************************************)
LEMMA NowKeeps ==
    ASSUME ExplorerInv, job = Idle, x.mode = "explore", NEW y, Same(y), Now(y)
    PROVE  Kept
BY StillKeeps DEF Now, Still

LEMMA ScreenKeys ==
    ASSUME ExplorerInv, Sync \/ EmptyEditorLeft \/ AcceptFind
    PROVE  Kept
<1>1. Same(x) /\ job = Idle /\ x.mode = "explore"
    BY SameScreen DEF Sync, EmptyEditorLeft, AcceptFind, Key, Listening
<1>2. CASE Sync
  <2>1. PICK rows, tree : /\ x' = [x EXCEPT !.synced = TRUE, !.rows = rows, !.tree = tree]
                          /\ UNCHANGED <<plan, disk, job, g>>
      BY <1>2 DEF Sync
  <2>2. Same(x')
      BY <1>1, <2>1 DEF Same, Fields
  <2> QED BY <1>1, <2>1, <2>2, StillKeeps DEF Still
<1>3. CASE EmptyEditorLeft
    BY <1>1, <1>3, Redrawn, NowKeeps DEF EmptyEditorLeft, ExplorerInv
<1>4. CASE AcceptFind
  <2>1. Same([x EXCEPT !.find.open = FALSE])
      BY <1>1, <1>4 DEF Same, Fields, AcceptFind, Listening
  <2> QED BY <1>1, <1>4, <2>1, NowKeeps DEF AcceptFind
<1> QED BY <1>2, <1>3, <1>4

LEMMA CtrlKeys ==
    ASSUME ExplorerInv, CtrlKey PROVE Kept
<1>1. Same(x) /\ job = Idle /\ x.mode = "explore" /\ ~x.find.open
    BY SameScreen DEF CtrlKey, Key, Listening
<1>2. CASE Opened /\ StartSave(None)
    BY <1>1, <1>2, SaveKeeps
<1>3. CASE \E e \in {Leave, Quit} : Guarded(x, e)
    BY <1>1, <1>3, GuardedKeeps
<1>4. CASE Now([x EXCEPT !.tree = Refreshed(@), !.synced = FALSE])
  <2>1. Same([x EXCEPT !.tree = Refreshed(@), !.synced = FALSE])
      BY <1>1 DEF Same, Fields
  <2> QED BY <1>1, <1>4, <2>1, NowKeeps
<1>5. CASE \E y \in {[x EXCEPT !.focus = IF @ \in {"tree", "path"} THEN "editor" ELSE @],
                     [x EXCEPT !.focus = "tree"],
                     [x EXCEPT !.focus = "path",
                               !.lastPane = IF x.focus # "path" THEN x.focus ELSE @],
                     [x EXCEPT !.focus = IF @ = "path" THEN x.lastPane ELSE @]} : Now(y)
  <2>1. PICK y : Same(y) /\ Now(y)
      BY <1>1, <1>5 DEF Same, Fields
  <2> QED BY <1>1, <2>1, NowKeeps
<1> QED BY <1>2, <1>3, <1>4, <1>5 DEF CtrlKey

\* The editor's keys give the open file another text or cursor.
LEMMA BufferKeys ==
    ASSUME ExplorerInv, MoveKey \/ EditKey PROVE Kept
<1>1. Same(x) /\ job = Idle /\ x.mode = "explore" /\ x.doc # None
    BY SameScreen DEF MoveKey, EditKey, Key, Listening, Opened
<1>2. \A b : Same(Buffer(b))
    BY <1>1, Redrawn, SameScrolled DEF Buffer, ExplorerInv
<1>3. \A b : Same([Buffer(b) EXCEPT !.focus = "tree"])
    BY <1>2, Redrawn DEF ExplorerInv
<1>4. \A b : Same([Buffer(b) EXCEPT !.focus = "path", !.lastPane = "editor"])
    BY <1>2 DEF Same, Fields
<1>5. \/ \E b : Now(Buffer(b))
      \/ \E b : Now([Buffer(b) EXCEPT !.focus = "tree"])
      \/ \E b : Now([Buffer(b) EXCEPT !.focus = "path", !.lastPane = "editor"])
    BY DEF MoveKey, EditKey
<1> QED BY <1>1, <1>2, <1>3, <1>4, <1>5, NowKeeps

LEMMA TreeKeys ==
    ASSUME ExplorerInv, TreeKey PROVE Kept
<1>1. Same(x) /\ job = Idle /\ x.mode = "explore" /\ ~x.find.open
    BY SameScreen DEF TreeKey, Key, Listening
<1>2. \A t : /\ Same([x EXCEPT !.tree = t, !.synced = FALSE])
             /\ Same([x EXCEPT !.tree = t, !.lastPane = "tree", !.focus = "path"])
             /\ Same([x EXCEPT !.tree = t, !.focus = "editor"])
             /\ Same([x EXCEPT !.tree = t])
             /\ [x EXCEPT !.tree = t].doc = x.doc /\ [x EXCEPT !.tree = t].find = x.find
    BY <1>1 DEF Same, Fields
<1>3. \/ \E t : \/ Now([x EXCEPT !.tree = t, !.synced = FALSE])
                \/ Now([x EXCEPT !.tree = t, !.lastPane = "tree", !.focus = "path"])
                \/ Now([x EXCEPT !.tree = t, !.focus = "editor"])
      \/ \E t, p : Guarded([x EXCEPT !.tree = t], p)
    BY DEF TreeKey
<1> QED BY <1>1, <1>2, <1>3, NowKeeps, GuardedKeeps

LEMMA PathKeys ==
    ASSUME ExplorerInv, PathKey PROVE Kept
<1>1. Same(x) /\ job = Idle /\ x.mode = "explore" /\ ~x.find.open
    BY SameScreen DEF PathKey, Key, Listening
<1>2. \A v : /\ Same([x EXCEPT !.path = v]) /\ Same([x EXCEPT !.focus = v])
             /\ Same([x EXCEPT !.notice = v])
             /\ Same([x EXCEPT !.tree = v, !.synced = FALSE, !.focus = "tree"])
    BY <1>1 DEF Same, Fields
<1>3. \/ \E v : \/ Now([x EXCEPT !.path = v]) \/ Now([x EXCEPT !.focus = v])
                \/ Now([x EXCEPT !.notice = v])
                \/ Now([x EXCEPT !.tree = v, !.synced = FALSE, !.focus = "tree"])
      \/ \E p : Guarded(x, p)
    BY DEF PathKey
<1> QED BY <1>1, <1>2, <1>3, NowKeeps, GuardedKeeps

LEMMA SameOnHit ==
    ASSUME ExplorerInv, Opened, x.ask = None, NEW f PROVE Same(OnHit(f))
<1>1. Same(x) /\ Same([x EXCEPT !.find = f]) /\ [x EXCEPT !.find = f].doc = x.doc
    BY SameScreen DEF Same, Fields, Opened
<1>2. \A b : Same([x EXCEPT !.find = f, !.doc[1].buf = b])
    BY <1>1, Redrawn DEF ExplorerInv, Opened
<1> QED BY <1>1, <1>2, SameScrolled DEF OnHit

LEMMA FindKeys ==
    ASSUME ExplorerInv, StartFind \/ StepFind(TRUE) \/ StepFind(FALSE) \/ AbandonFind \/ FindKey
    PROVE  Kept
<1>1. /\ Same(x) /\ job = Idle /\ x.mode = "explore"
      /\ x.ask = None /\ Opened
    BY SameScreen DEF StartFind, StepFind, AbandonFind, FindKey, Key, Listening, ExplorerInv, Working
<1>2. CASE StartFind
  <2>1. PICK f : x' = [OnHit(f) EXCEPT !.focus = "editor"]
      BY <1>2 DEF StartFind
  <2>2. Same(x')
      BY <1>1, <2>1, SameOnHit, Redrawn DEF ExplorerInv
  <2> QED BY <1>1, <1>2, <2>2, StillKeeps DEF StartFind, Still, ExplorerInv, Shapes
<1>3. CASE StepFind(TRUE) \/ StepFind(FALSE)
  <2>1. PICK f : Now(OnHit(f))
      BY <1>3 DEF StepFind
  <2> QED BY <1>1, <2>1, SameOnHit, NowKeeps
<1>4. CASE FindKey
  <2>1. PICK f : Now(OnHit(f))
      BY <1>4 DEF FindKey
  <2> QED BY <1>1, <2>1, SameOnHit, NowKeeps
<1>5. CASE AbandonFind
  <2>1. Same([x EXCEPT !.find.open = FALSE]) /\ [x EXCEPT !.find.open = FALSE].doc # None
      BY <1>1 DEF Same, Fields, Opened
  <2>2. \A b : Same([x EXCEPT !.find.open = FALSE, !.doc[1].buf = b])
      BY <2>1, Redrawn DEF ExplorerInv
  <2> QED BY <1>1, <1>5, <2>2, SameScrolled, NowKeeps DEF AbandonFind
<1> QED BY <1>2, <1>3, <1>4, <1>5

LEMMA AnswerKeeps ==
    ASSUME ExplorerInv, AnswerDiscard PROVE Kept
<1>1. /\ Same(x) /\ job = Idle /\ x.mode = "explore" /\ x.ask # None
      /\ Opened /\ ~x.find.open
    BY SameScreen DEF AnswerDiscard, ExplorerInv, Working
<1>2. CASE StartSave(x.ask)
    BY <1>1, <1>2, SaveKeeps
<1>3. CASE Exit(x, x.ask[1])
    BY <1>1, <1>3, ExitKeeps DEF Ready, Same
<1>4. CASE Now([x EXCEPT !.ask = None])
    BY <1>1, <1>4, Redrawn, NowKeeps DEF ExplorerInv
<1> QED BY <1>2, <1>3, <1>4 DEF AnswerDiscard, Now

LEMMA CloseKeeps ==
    ASSUME ExplorerInv, CloseWindow \/ Killed PROVE Kept
<1>1. /\ x.mode = "explore" /\ x' = [x EXCEPT !.mode = "closed"] /\ job' = Idle
      /\ UNCHANGED <<plan, disk, g>>
    BY DEF CloseWindow, Killed
<1>2. /\ DOMAIN x' = Fields /\ x'.mode = "closed" /\ x'.doc = x.doc /\ x'.find = x.find
      /\ x'.ask = x.ask /\ job'.pc = "idle" /\ DOMAIN job' = DOMAIN job
    BY <1>1 DEF ExplorerInv, Shapes, Fields, Idle
<1>3. Shapes'
    BY <1>1, <1>2 DEF ExplorerInv, Shapes, IsDoc, Version, Stages, Idle
<1>4. Dated' /\ Working' /\ Staged'
    BY <1>1, <1>2 DEF ExplorerInv, Dated, Working, Staged, There, Opened, Doc, Saving
<1>5. Stamped'
    BY <1>1, <1>2 DEF CloseWindow, Killed, ExplorerInv, Stamped, There, Opened, Doc, Bytes, Idle
<1>6. OnlyWholeVersions /\ OnlyKnownReplaced /\ UnsavedAsked
    BY <1>1, <1>2 DEF OnlyWholeVersions, OnlyKnownReplaced, ReplaceFile, UnsavedAsked, CloseWindow,
                      Killed
<1> QED BY <1>3, <1>4, <1>5, <1>6 DEF Kept, ExplorerInv

LEMMA EnterKeeps ==
    ASSUME ExplorerInv, EnterExplorer PROVE Kept
<1>1. x.mode = "search" /\ job = Idle /\ job.pc = "idle"
    BY DEF EnterExplorer, Idle
<1>2. ASSUME NEW p, Now(NewExplorer(p)) PROVE Kept
  <2>1. /\ DOMAIN x' = Fields /\ x'.mode = "explore" /\ x'.doc = None /\ x'.ask = None
        /\ ~x'.find.open /\ UNCHANGED <<plan, disk, job, g>>
      BY <1>2 DEF Now, NewExplorer, NewFind, Fields
  <2>2. Shapes' /\ Dated' /\ Stamped'
      BY <1>1, <2>1 DEF ExplorerInv, Shapes, Dated, Stamped, IsDoc, There, Opened
  <2>3. Working' /\ Staged'
      BY <1>1, <2>1 DEF ExplorerInv, Working, Staged, Saving
  <2>4. OnlyWholeVersions /\ OnlyKnownReplaced /\ UnsavedAsked
      BY <1>1, <2>1 DEF OnlyWholeVersions, OnlyKnownReplaced, ReplaceFile, UnsavedAsked
  <2> QED BY <2>2, <2>3, <2>4 DEF Kept, ExplorerInv
<1>3. ASSUME NEW y, NEW p, StartLoad(y, p), DOMAIN y = Fields, y.mode = "explore", y.doc = None
      PROVE  Kept
    BY <1>1, <1>3, LoadKeeps DEF Ready
<1>4. \A r, t : LET y == [NewExplorer(r) EXCEPT !.tree = t]
                IN  DOMAIN y = Fields /\ y.mode = "explore" /\ y.doc = None
    BY DEF NewExplorer, Fields
<1>5. \/ \E p : Now(NewExplorer(p))
      \/ \E p, r, t : StartLoad([NewExplorer(r) EXCEPT !.tree = t], p)
    BY DEF EnterExplorer
<1> QED BY <1>2, <1>3, <1>4, <1>5

(***************************************************************************)
(* The steps of a load and of a save.                                      *)
(***************************************************************************)
LEMMA ReadKeeps ==
    ASSUME ExplorerInv, ReadFile PROVE Kept
<1> DEFINE p == job.path
<1>1. job.pc = "read" /\ UNCHANGED <<plan, disk>> /\ x.mode = "explore"
    BY DEF ReadFile, ExplorerInv, Working, Idle
<1>2. \/ /\ job' = Idle /\ UNCHANGED g
         /\ \E n : x' = [x EXCEPT !.doc = None, !.focus = "editor", !.notice = n]
      \/ /\ p \in There /\ UNCHANGED x /\ g' = [g EXCEPT !.raced = FALSE]
         /\ \E l : job' = [job EXCEPT !.pc = "stamp", !.loaded = l, !.bytes = Bytes(p)]
    BY Zenon DEF ReadFile
<1>3. CASE job' = Idle
  <2>1. /\ DOMAIN x' = Fields /\ x'.mode = "explore" /\ x'.doc = None /\ x'.ask = x.ask
        /\ x'.find = x.find /\ UNCHANGED g
        /\ job'.pc = "idle" /\ DOMAIN job' = DOMAIN job
      BY <1>1, <1>2, <1>3, ZenonT(30) DEF ExplorerInv, Shapes, Fields, Idle
  <2>2. Shapes' /\ Dated' /\ Stamped'
      BY <1>1, <1>3, <2>1 DEF ExplorerInv, Shapes, Dated, Stamped, IsDoc, There, Opened, Idle,
                              Version, Stages
  <2>3. Working' /\ Staged'
      BY <1>1, <1>3, <2>1 DEF ExplorerInv, Working, Staged, Saving, Idle
  <2>4. OnlyWholeVersions /\ OnlyKnownReplaced /\ UnsavedAsked
      BY <1>1, <2>1 DEF OnlyWholeVersions, OnlyKnownReplaced, ReplaceFile, UnsavedAsked
  <2> QED BY <2>2, <2>3, <2>4 DEF Kept, ExplorerInv
<1>4. CASE job' # Idle
  <2>1. /\ p \in There /\ UNCHANGED x /\ DOMAIN g' = DOMAIN g /\ g'.raced = FALSE
        /\ job'.pc = "stamp" /\ job'.path = p /\ job'.bytes = Bytes(p) /\ DOMAIN job' = DOMAIN job
      BY <1>2, <1>4 DEF ExplorerInv, Shapes
  <2>2. Shapes'
      BY <1>1, <2>1 DEF ExplorerInv, Shapes, Stages, IsDoc, Version
  <2>5. Dated' /\ Stamped'
      BY <1>1, <2>1 DEF ExplorerInv, Dated, Stamped, There, Opened, Doc
  <2>3. Working' /\ Staged'
      BY <1>1, <2>1 DEF ExplorerInv, Working, Staged, Saving, There, Bytes, Opened, Idle
  <2>4. OnlyWholeVersions /\ OnlyKnownReplaced /\ UnsavedAsked
      BY <1>1, <2>1 DEF OnlyWholeVersions, OnlyKnownReplaced, ReplaceFile, UnsavedAsked
  <2> QED BY <2>2, <2>3, <2>4, <2>5 DEF Kept, ExplorerInv
<1> QED BY <1>3, <1>4

LEMMA StampKeeps ==
    ASSUME ExplorerInv, TakeStamp PROVE Kept
<1> DEFINE p == job.path
           s == StampOf(p)
           b == job.loaded[1]
<1>1. /\ job.pc = "stamp" /\ UNCHANGED <<plan, disk>> /\ x.mode = "explore" /\ p \in Files
      /\ x.ask = None /\ ~x.find.open /\ job' = Idle
      /\ job'.pc = "idle" /\ DOMAIN job' = DOMAIN job
    BY DEF TakeStamp, ExplorerInv, Shapes, Working, Idle
<1>2. x'.doc = <<[path |-> p, buf |-> b, stamp |-> s]>>
    BY DEF TakeStamp, ExplorerInv, Shapes, Fields
<1>3. x'.doc # None /\ IsDoc(x'.doc) /\ x'.doc[1].path = p /\ x'.doc[1].stamp = s
    BY <1>1, <1>2 DEF None, IsDoc
<1>4. /\ DOMAIN x' = Fields /\ x'.mode = "explore" /\ x'.ask = None /\ ~x'.find.open
      /\ DOMAIN g' = DOMAIN g /\ g'.raced = g.raced /\ g'.base = job.bytes
    BY <1>1 DEF TakeStamp, ExplorerInv, Shapes, Fields
<1>5. s # None => /\ p \in There
                  /\ s[1].mtime = disk.file[p][1].mtime
    BY DEF StampOf
<1>6. Shapes'
    BY <1>1, <1>3, <1>4 DEF ExplorerInv, Shapes, Idle, Version, IsDoc, Stages
<1>7. Dated'
    BY <1>1, <1>3, <1>4, <1>5 DEF ExplorerInv, Dated, There, Doc
<1>8. Stamped'
  <2>1. ~g.raced => p \in There /\ Bytes(p) = job.bytes /\ s # None
      BY <1>1 DEF ExplorerInv, Staged, StampOf, None
  <2> QED BY <1>1, <1>3, <1>4, <2>1 DEF Stamped, There, Doc, Bytes
<1>9. Working' /\ Staged'
    BY <1>1, <1>3, <1>4 DEF ExplorerInv, Working, Staged, Saving, Opened
<1>10. OnlyWholeVersions /\ OnlyKnownReplaced /\ UnsavedAsked
    BY <1>1, <1>4 DEF OnlyWholeVersions, OnlyKnownReplaced, ReplaceFile, UnsavedAsked
<1> QED BY <1>6, <1>7, <1>8, <1>9, <1>10 DEF Kept, ExplorerInv

\* What Put makes of the disk.
LEMMA PutWrites ==
    ASSUME Shapes, Dated, NEW p \in Files, NEW bytes
    PROVE  LET d == Put(disk, p, bytes)
           IN  /\ DOMAIN d = DOMAIN disk /\ d.tmp = disk.tmp /\ d.locked = disk.locked
               /\ d.clock = disk.clock + 1
               /\ DOMAIN d.file = Files
               /\ \A q \in Files \ {p} : d.file[q] = disk.file[q]
               /\ d.file[p] # None /\ Version(d.file[p])
               /\ d.file[p][1].bytes = bytes /\ d.file[p][1].mtime = disk.clock
BY DEF Put, File, Version, Shapes, None

\* Every step that writes a file of its own, at a time later than any other.
Wrote(p, bytes) ==
    /\ DOMAIN disk' = DOMAIN disk
    /\ disk'.clock = disk.clock + 1
    /\ DOMAIN disk'.file = Files
    /\ \A q \in Files \ {p} : disk'.file[q] = disk.file[q]
    /\ disk'.file[p] # None /\ Version(disk'.file[p])
    /\ disk'.file[p][1].bytes = bytes /\ disk'.file[p][1].mtime = disk.clock

\* A write keeps the dates in order; and a file that was written is not the one
\* the stamp was taken of.
LEMMA WroteKeeps ==
    ASSUME ExplorerInv, NEW p \in Files, NEW bytes, Wrote(p, bytes), UNCHANGED x
    PROVE  /\ DOMAIN disk' = DOMAIN disk /\ DOMAIN disk'.file = Files
           /\ \A q \in Files : Version(disk'.file[q])
           /\ Dated'
           /\ g' = g => Stamped' \/ job'.pc # job.pc
<1>1. \A q \in Files : Version(disk'.file[q])
    BY DEF ExplorerInv, Shapes, Wrote
<1>2. Dated'
    BY DEF ExplorerInv, Shapes, Dated, Wrote, There, Opened, Doc
<1>3. ASSUME g' = g, job'.pc = job.pc PROVE Stamped'
    BY <1>3 DEF ExplorerInv, Stamped, Dated, Wrote, There, Opened, Doc, Bytes
<1> QED BY <1>1, <1>2, <1>3 DEF Wrote

LEMMA WroteStamped ==
    ASSUME ExplorerInv, NEW bytes, Opened, Wrote(Doc.path, bytes), x' = x, g' = g,
           job.pc # "stamp"
    PROVE  Stamped'
<1>1. ~g.raced => /\ Doc.stamp # None /\ Doc.stamp[1].mtime \in Nat
                  /\ Doc.stamp[1].mtime < disk.clock
    BY DEF ExplorerInv, Stamped, Dated
<1>2. disk'.file[Doc.path][1].mtime = disk.clock /\ disk.clock \in Nat
    BY DEF Wrote, ExplorerInv, Dated
<1>3. ~g.raced => disk'.file[Doc.path][1].mtime # Doc.stamp[1].mtime
    BY <1>1, <1>2
<1>4. Doc' = Doc
    BY DEF Doc
<1> QED BY <1>1, <1>3, <1>4 DEF Stamped

LEMMA CreateKeeps ==
    ASSUME ExplorerInv, CreateFile PROVE Kept
<1> DEFINE p == job.path
           half == SubSeq(ToBytes(B), 1, Len(ToBytes(B)) \div 2)
<1>1. /\ job.pc \in {"create", "fill"} /\ UNCHANGED <<plan, x, g>>
      /\ Opened /\ p = Doc.path /\ p \in Files /\ x.mode = "explore"
    BY DEF CreateFile, ExplorerInv, Shapes, Working, IsDoc, Saving, Opened, Doc, Idle
<1>2. /\ DOMAIN job' = DOMAIN job /\ job'.path = p
      /\ job'.pc = IF job.pc = "create" THEN "fill" ELSE "saved"
    BY DEF CreateFile, ExplorerInv, Shapes
<1>3. PICK bytes : /\ disk' = Put(disk, p, bytes)
                   /\ job.pc = "fill" => bytes = ToBytes(B)
  <2>1. CASE job.pc = "create"
      BY <2>1 DEF CreateFile
  <2>2. CASE job.pc # "create"
      BY <2>2 DEF CreateFile
  <2> QED BY <2>1, <2>2
<1>4. Wrote(p, bytes) /\ disk'.tmp = disk.tmp
    BY <1>1, <1>3, PutWrites DEF Wrote, ExplorerInv
<1>5. Shapes' /\ Dated'
    BY <1>1, <1>2, <1>4, WroteKeeps DEF ExplorerInv, Shapes, Stages, IsDoc
<1>6. Stamped'
    BY <1>1, <1>4, WroteStamped
<1>7. Working'
    BY <1>1, <1>2, <1>4 DEF ExplorerInv, Working, Saving, Opened, Doc, Idle
<1>8. Staged'
  <2>1. job'.pc = "saved" => disk'.file[p] # None /\ disk'.file[p][1].bytes = ToBytes(B)
      BY <1>1, <1>2, <1>3, <1>4 DEF Wrote
  <2>2. (ToBytes(B))' = ToBytes(B)
      BY <1>1 DEF B, Doc
  <2> QED BY <1>1, <1>2, <2>1, <2>2 DEF Staged, There, Bytes
<1>9. OnlyWholeVersions
  <2> SUFFICES ASSUME NEW q \in Files, ~g.raced, disk.file[q] # None,
                      disk'.file[q] # disk.file[q]
               PROVE  disk'.file[q][1].bytes = ToBytes(B)
      BY DEF OnlyWholeVersions
  <2>1. q = p
      BY <1>4 DEF Wrote
  <2>2. job.pc = "fill"
      BY <1>1, <2>1 DEF ExplorerInv, Staged, There
  <2> QED BY <1>3, <1>4, <2>1, <2>2 DEF Wrote
<1>10. OnlyKnownReplaced /\ UnsavedAsked
    BY <1>1, <1>2 DEF OnlyKnownReplaced, ReplaceFile, UnsavedAsked
<1> QED BY <1>5, <1>6, <1>7, <1>8, <1>9, <1>10 DEF Kept, ExplorerInv

LEMMA ReplaceKeeps ==
    ASSUME ExplorerInv, ReplaceFile PROVE Kept
<1> DEFINE p == job.path
           bytes == ToBytes(B)
<1>1. /\ job.pc = "replace" /\ UNCHANGED <<plan, x, g>>
      /\ Opened /\ p = Doc.path /\ p \in Files /\ x.mode = "explore"
    BY DEF ReplaceFile, ExplorerInv, Shapes, Working, IsDoc, Saving, Opened, Doc, Idle
<1>2. DOMAIN job' = DOMAIN job /\ job'.path = p /\ job'.pc = "saved"
    BY DEF ReplaceFile, ExplorerInv, Shapes
<1>3. disk' = [Put(disk, p, bytes) EXCEPT !.tmp = @ \ {p}]
    BY DEF ReplaceFile
<1>4. Wrote(p, bytes) /\ disk'.tmp = disk.tmp \ {p}
  <2> DEFINE d == Put(disk, p, bytes)
  <2>1. /\ DOMAIN d = DOMAIN disk /\ d.tmp = disk.tmp
        /\ d.clock = disk.clock + 1
        /\ DOMAIN d.file = Files
        /\ \A q \in Files \ {p} : d.file[q] = disk.file[q]
        /\ d.file[p] # None /\ Version(d.file[p])
        /\ d.file[p][1].bytes = bytes /\ d.file[p][1].mtime = disk.clock
      BY <1>1, PutWrites DEF ExplorerInv
  <2>2. disk' = [d EXCEPT !.tmp = @ \ {p}]
      BY <1>3
  <2> HIDE DEF d, bytes
  <2>3. DOMAIN disk' = DOMAIN disk /\ disk'.file = d.file /\ disk'.clock = d.clock
        /\ disk'.tmp = disk.tmp \ {p}
      BY <2>1, <2>2 DEF ExplorerInv, Shapes
  <2> QED BY <2>1, <2>3 DEF Wrote
<1>5. Shapes' /\ Dated'
    BY <1>1, <1>2, <1>4, WroteKeeps DEF ExplorerInv, Shapes, Stages, IsDoc
<1>6. Stamped'
    BY <1>1, <1>4, WroteStamped
<1>7. Working'
    BY <1>1, <1>2, <1>4 DEF ExplorerInv, Working, Saving, Opened, Doc, Idle
<1>8. Staged'
  <2>1. (ToBytes(B))' = ToBytes(B)
      BY <1>1 DEF B, Doc
  <2> QED BY <1>1, <1>2, <1>4, <2>1 DEF Staged, There, Bytes, Wrote
<1>9. OnlyWholeVersions
    BY <1>4 DEF OnlyWholeVersions, Wrote
<1>10. OnlyKnownReplaced /\ UnsavedAsked
    BY <1>1, <1>2 DEF OnlyKnownReplaced, UnsavedAsked, ExplorerInv, Staged
<1> QED BY <1>5, <1>6, <1>7, <1>8, <1>9, <1>10 DEF Kept, ExplorerInv

LEMMA TempKeeps ==
    ASSUME ExplorerInv, WriteTemp PROVE Kept
<1> DEFINE p == job.path
<1>1. /\ job.pc = "temp" /\ UNCHANGED <<plan, x, g>> /\ Opened /\ p = Doc.path
      /\ x.mode = "explore"
    BY DEF WriteTemp, ExplorerInv, Working, Saving, Idle
<1>2. /\ DOMAIN job' = DOMAIN job /\ job'.path = p /\ job'.pc = "replace"
      /\ DOMAIN disk' = DOMAIN disk /\ disk'.file = disk.file /\ disk'.clock = disk.clock
      /\ disk'.tmp = disk.tmp \cup {p}
    BY DEF WriteTemp, ExplorerInv, Shapes
<1>3. Shapes'
    BY <1>1, <1>2 DEF ExplorerInv, Shapes, Stages, IsDoc, Version
<1>4. Dated' /\ Stamped' /\ Staged'
    BY <1>1, <1>2 DEF ExplorerInv, Dated, Stamped, Staged, There, Opened, Doc, Bytes
<1>5. Working'
    BY <1>1, <1>2 DEF ExplorerInv, Working, Saving, Opened, Doc, Idle
<1>6. OnlyWholeVersions /\ OnlyKnownReplaced /\ UnsavedAsked
    BY <1>1, <1>2 DEF OnlyWholeVersions, OnlyKnownReplaced, ReplaceFile, UnsavedAsked
<1> QED BY <1>3, <1>4, <1>5, <1>6 DEF Kept, ExplorerInv

LEMMA BusyKeeps ==
    ASSUME ExplorerInv, ReplaceBusy PROVE Kept
<1>1. /\ job.pc = "replace" /\ UNCHANGED <<plan, x, disk, g>> /\ x.mode = "explore"
      /\ DOMAIN job' = DOMAIN job /\ job'.path = job.path /\ job'.pc = "replace"
    BY DEF ReplaceBusy, ExplorerInv, Shapes, Working, Idle
<1>2. Shapes'
    BY <1>1 DEF ExplorerInv, Shapes, Stages, IsDoc, Version
<1>3. Dated' /\ Stamped' /\ Staged'
    BY <1>1 DEF ExplorerInv, Dated, Stamped, Staged, There, Opened, Doc, Bytes
<1>4. Working'
    BY <1>1 DEF ExplorerInv, Working, Saving, Opened, Doc, Idle
<1>5. OnlyWholeVersions /\ OnlyKnownReplaced /\ UnsavedAsked
  <2>1. ~ReplaceFile
      BY <1>1 DEF ReplaceFile, ExplorerInv, Shapes
  <2> QED BY <1>1, <2>1 DEF OnlyWholeVersions, OnlyKnownReplaced, UnsavedAsked
<1> QED BY <1>2, <1>3, <1>4, <1>5 DEF Kept, ExplorerInv

LEMMA ErrorKeeps ==
    ASSUME ExplorerInv, SaveError PROVE Kept
<1>1. /\ Saving /\ job.pc # "saved" /\ UNCHANGED <<plan, x, g>> /\ job' = Idle
      /\ x.mode = "explore" /\ job'.pc = "idle" /\ DOMAIN job' = DOMAIN job
    BY DEF SaveError, SaveFails, ExplorerInv, Shapes, Working, Saving, Idle
<1>2. /\ DOMAIN disk' = DOMAIN disk /\ disk'.file = disk.file /\ disk'.clock = disk.clock
      /\ disk'.tmp = disk.tmp \ {job.path}
    BY DEF SaveError, SaveFails, ExplorerInv, Shapes
<1>3. Shapes'
    BY <1>1, <1>2 DEF ExplorerInv, Shapes, Stages, IsDoc, Version
<1>4. Dated' /\ Stamped' /\ Staged'
    BY <1>1, <1>2 DEF ExplorerInv, Dated, Stamped, Staged, Saving, There, Opened, Doc, Bytes
<1>5. Working'
    BY <1>1, <1>2 DEF ExplorerInv, Working, Saving, Opened, Doc, Idle
<1>6. OnlyWholeVersions /\ OnlyKnownReplaced /\ UnsavedAsked
    BY <1>1, <1>2 DEF OnlyWholeVersions, OnlyKnownReplaced, ReplaceFile, UnsavedAsked,
                           ExplorerInv, Staged
<1> QED BY <1>3, <1>4, <1>5, <1>6 DEF Kept, ExplorerInv

LEMMA SavedKeeps ==
    ASSUME ExplorerInv, MarkSaved PROVE Kept
<1> DEFINE p == job.path
           s == StampOf(p)
           b == Written(B)
           y == [x EXCEPT !.doc[1].buf = Written(@), !.doc[1].stamp = s]
<1>1. /\ job.pc = "saved" /\ UNCHANGED <<plan, disk>> /\ Opened /\ p = Doc.path /\ p \in Files
      /\ x.mode = "explore" /\ x.ask = None /\ ~x.find.open
    BY DEF MarkSaved, ExplorerInv, Shapes, Working, Saving, IsDoc, Opened, Doc, Idle
<1>2. y.doc = <<[path |-> p, buf |-> b, stamp |-> s]>>
  <2> DEFINE z == [x EXCEPT !.doc[1].buf = b]
             d == x.doc[1]
             e == z.doc[1]
  <2>1. x.doc = <<[path |-> p, buf |-> d.buf, stamp |-> d.stamp]>>
      BY <1>1 DEF ExplorerInv, Shapes, IsDoc, Opened, Doc
  <2>2. z.doc = [x.doc EXCEPT ![1] = [d EXCEPT !.buf = b]]
      BY DEF ExplorerInv, Shapes, Fields
  <2>3. d = [path |-> p, buf |-> d.buf, stamp |-> d.stamp]
      BY <2>1
  <2>4. [d EXCEPT !.buf = b] = [path |-> p, buf |-> b, stamp |-> d.stamp]
      BY <2>3
  <2>5. z.doc = <<[path |-> p, buf |-> b, stamp |-> d.stamp]>>
      BY <2>1, <2>2, <2>4
  <2>6. e = [path |-> p, buf |-> b, stamp |-> d.stamp]
      BY <2>5
  <2>7. y = [z EXCEPT !.doc[1].stamp = s]
      BY DEF B, Doc
  <2>8. DOMAIN z = Fields
      BY DEF ExplorerInv, Shapes
  <2> HIDE DEF z, b, s
  <2>9. y.doc = [z.doc EXCEPT ![1] = [e EXCEPT !.stamp = s]]
      BY <2>7, <2>8 DEF Fields
  <2>10. [e EXCEPT !.stamp = s] = [path |-> p, buf |-> b, stamp |-> s]
      BY <2>6
  <2> QED BY <2>5, <2>9, <2>10
<1>3. /\ DOMAIN y = Fields /\ y.mode = "explore" /\ y.ask = x.ask /\ y.find = x.find
    BY <1>1 DEF ExplorerInv, Shapes, Fields
<1>4. y.doc # None /\ IsDoc(y.doc) /\ y.doc[1].path = p /\ y.doc[1].stamp = s
    BY <1>1, <1>2 DEF None, IsDoc
<1>5. \/ /\ job.then = None \/ job.then[1] \in {Leave, Quit}
         /\ \E m \in {"explore", "search", "quit"} :
               x' = [y EXCEPT !.mode = m] /\ (job.then = None => m = "explore")
         /\ job' = Idle
      \/ /\ job.then # None /\ x' = Opening(y, job.then[1])
         /\ job' = [Idle EXCEPT !.pc = "read", !.path = job.then[1]]
    BY <1>3 DEF MarkSaved
<1>6. /\ DOMAIN g' = DOMAIN g /\ g'.raced = g.raced /\ g'.base = ToBytes(B)
    BY DEF MarkSaved, ExplorerInv, Shapes
<1> HIDE DEF y, s, b
<1>7. /\ job' = Idle => job'.pc = "idle"
      /\ job'.pc \in {"idle", "read"} /\ DOMAIN job' = DOMAIN job
      /\ job'.pc = "idle" => job' = Idle
  <2>1. CASE job' = Idle
      BY <2>1 DEF Idle, ExplorerInv, Shapes
  <2>2. CASE job' = [Idle EXCEPT !.pc = "read", !.path = job.then[1]]
      BY <2>2 DEF Idle, ExplorerInv, Shapes
  <2> QED BY <1>5, <2>1, <2>2
<1>8. /\ DOMAIN x' = Fields /\ x'.doc = y.doc /\ x'.ask = None /\ ~x'.find.open
      /\ x'.mode \in {"explore", "search", "quit"}
      /\ x'.mode # "explore" => job' = Idle /\ job.then # None
      /\ job'.pc = "read" => job.then # None
  <2>1. CASE \E m \in {"explore", "search", "quit"} :
                /\ x' = [y EXCEPT !.mode = m] /\ (job.then = None => m = "explore")
                /\ job' = Idle
      BY <1>1, <1>3, <1>7, <2>1 DEF Fields
  <2>2. CASE job.then # None /\ x' = Opening(y, job.then[1])
      BY <1>1, <1>3, <2>2 DEF Opening, Fields, NewFind
  <2> QED BY <1>5, <2>1, <2>2
<1>9. s # None => /\ p \in There
                  /\ s[1].mtime = disk.file[p][1].mtime
    BY DEF StampOf, s
<1>10. Shapes'
    BY <1>1, <1>4, <1>6, <1>7, <1>8 DEF ExplorerInv, Shapes, Version, IsDoc, Stages
<1>11. Dated'
    BY <1>1, <1>4, <1>6, <1>8, <1>9 DEF ExplorerInv, Dated, There, Doc
<1>12. Stamped'
  <2>1. ~g.raced => p \in There /\ Bytes(p) = ToBytes(B) /\ s # None
      BY <1>1 DEF ExplorerInv, Staged, StampOf, None, s
  <2> QED BY <1>1, <1>4, <1>6, <1>8, <2>1 DEF Stamped, There, Doc, Bytes
<1>13. Working' /\ Staged'
    BY <1>1, <1>7, <1>8 DEF ExplorerInv, Working, Staged, Saving, Opened
<1>14. OnlyWholeVersions /\ OnlyKnownReplaced /\ UnsavedAsked
    BY <1>1, <1>7, <1>8 DEF OnlyWholeVersions, OnlyKnownReplaced, ReplaceFile, UnsavedAsked
<1> QED BY <1>10, <1>11, <1>12, <1>13, <1>14 DEF Kept, ExplorerInv

(***************************************************************************)
(* Other programs.                                                         *)
(***************************************************************************)
\* What another program makes of file p: nothing, a file dated now, or the
\* same text under other rights.
Touched(p) ==
    /\ DOMAIN disk' = DOMAIN disk /\ disk'.tmp = disk.tmp /\ disk'.clock = disk.clock + 1
    /\ DOMAIN disk'.file = Files
    /\ \A q \in Files \ {p} : disk'.file[q] = disk.file[q]
    /\ p \in Files /\ disk'.file[p] # None =>
           /\ Version(disk'.file[p])
           /\ \/ disk'.file[p][1].mtime = disk.clock
              \/ /\ disk.file[p] # None
                 /\ disk'.file[p][1].bytes = disk.file[p][1].bytes
                 /\ disk'.file[p][1].mtime = disk.file[p][1].mtime

LEMMA RightsMarked ==
    ASSUME NEW f, Version(f), f # None, NEW mark
    PROVE  [f EXCEPT ![1] = [f[1] EXCEPT !.readonly = mark]]
               = <<[bytes |-> f[1].bytes, mtime |-> f[1].mtime, readonly |-> mark]>>
<1>1. /\ f = <<[bytes |-> f[1].bytes, mtime |-> f[1].mtime, readonly |-> f[1].readonly]>>
    BY DEF Version
<1>2. f[1] = [bytes |-> f[1].bytes, mtime |-> f[1].mtime, readonly |-> f[1].readonly]
    BY <1>1
<1>3. [f[1] EXCEPT !.readonly = mark]
          = [bytes |-> f[1].bytes, mtime |-> f[1].mtime, readonly |-> mark]
    BY <1>2
<1> QED BY <1>1, <1>3

LEMMA OthersTouch ==
    ASSUME ExplorerInv, NEW p, NEW bytes,
           \/ disk' = Put(disk, p, bytes)
           \/ p \in There /\ disk' = [disk EXCEPT !.file[p] = None, !.clock = @ + 1]
           \/ p \in There /\ disk' = [disk EXCEPT !.file[p][1].readonly = TRUE, !.clock = @ + 1]
    PROVE  Touched(p)
<1>1. CASE disk' = Put(disk, p, bytes) /\ p \in Files
    BY <1>1, PutWrites DEF Touched, ExplorerInv
<1>2. CASE disk' = Put(disk, p, bytes) /\ p \notin Files
    BY <1>2 DEF Touched, Put, ExplorerInv, Shapes
<1>3. CASE p \in There /\ disk' = [disk EXCEPT !.file[p] = None, !.clock = @ + 1]
    BY <1>3 DEF Touched, ExplorerInv, Shapes, There
<1>4. CASE p \in There /\ disk' = [disk EXCEPT !.file[p][1].readonly = TRUE, !.clock = @ + 1]
  <2> DEFINE f == disk.file[p]
             r == [f[1] EXCEPT !.readonly = TRUE]
  <2>1. Version(f) /\ p \in Files /\ f # None
      BY <1>4 DEF ExplorerInv, Shapes, There
  <2>2. [f EXCEPT ![1] = r] = <<[bytes |-> f[1].bytes, mtime |-> f[1].mtime, readonly |-> TRUE]>>
      BY <2>1, RightsMarked
  <2>4. /\ DOMAIN disk' = DOMAIN disk /\ disk'.tmp = disk.tmp /\ disk'.clock = disk.clock + 1
        /\ disk'.file = [disk.file EXCEPT ![p] = [f EXCEPT ![1] = r]]
      BY <1>4 DEF ExplorerInv, Shapes
  <2>5. disk'.file[p] = <<[bytes |-> f[1].bytes, mtime |-> f[1].mtime, readonly |-> TRUE]>>
      BY <2>1, <2>2, <2>4 DEF ExplorerInv, Shapes
  <2> HIDE DEF f
  <2>6. Version(disk'.file[p]) /\ disk'.file[p] # None
      BY <2>5 DEF Version, None
  <2>7. disk'.file[p][1].bytes = f[1].bytes /\ disk'.file[p][1].mtime = f[1].mtime
      BY <2>5
  <2> QED BY <2>1, <2>4, <2>6, <2>7 DEF Touched, ExplorerInv, Shapes, f
<1> QED BY <1>1, <1>2, <1>3, <1>4

LEMMA OthersKeep ==
    ASSUME ExplorerInv, OtherProgram PROVE Kept
<1>1. UNCHANGED <<plan, x, job>> /\ x.mode = "explore"
    BY DEF OtherProgram
<1>2. \/ \E p : Touched(p) /\ g' = [g EXCEPT !.raced = @ \/ (job.path = p /\ job.pc # "read")]
      \/ UNCHANGED g /\ \E d : disk' = [disk EXCEPT !.locked = @ \cup {d}, !.clock = @ + 1]
    BY OthersTouch DEF OtherProgram
<1>3. OnlyWholeVersions /\ OnlyKnownReplaced /\ UnsavedAsked
  <2>1. ~ReplaceFile
      BY <1>1 DEF ReplaceFile, ExplorerInv, Shapes
  <2> QED BY <1>1, <2>1 DEF OnlyWholeVersions, OnlyKnownReplaced, UnsavedAsked
<1>4. CASE \E p : Touched(p) /\ g' = [g EXCEPT !.raced = @ \/ (job.path = p /\ job.pc # "read")]
  <2>1. PICK p : Touched(p) /\ g' = [g EXCEPT !.raced = @ \/ (job.path = p /\ job.pc # "read")]
      BY <1>4
  <2>2. /\ DOMAIN g' = DOMAIN g /\ g'.base = g.base /\ g'.raced \in BOOLEAN
        /\ ~g'.raced => ~g.raced /\ (job.path # p \/ job.pc = "read")
      BY <2>1 DEF ExplorerInv, Shapes
  <2>3. Shapes'
    <3>1. \A q \in Files : Version(disk'.file[q])
        BY <2>1 DEF Touched, Version, ExplorerInv, Shapes
    <3> QED BY <1>1, <2>1, <2>2, <3>1 DEF Touched, ExplorerInv, Shapes, IsDoc
  <2>4. Dated'
      BY <1>1, <2>1 DEF Touched, ExplorerInv, Dated, There, Opened, Doc
  <2>5. Stamped'
      BY <1>1, <2>1, <2>2 DEF Touched, ExplorerInv, Dated, Stamped, There, Opened, Doc, Bytes, Shapes,
                              IsDoc
  <2>6. Working'
      BY <1>1, <2>1 DEF Touched, ExplorerInv, Working, Saving, Opened, Doc
  <2>7. Staged'
      BY <1>1, <2>1, <2>2 DEF Touched, ExplorerInv, Staged, There, Bytes, B, Doc, Shapes, IsDoc, Working,
                              Saving, Opened
  <2> QED BY <1>3, <2>3, <2>4, <2>5, <2>6, <2>7 DEF Kept, ExplorerInv
<1>5. CASE UNCHANGED g /\ \E d : disk' = [disk EXCEPT !.locked = @ \cup {d}, !.clock = @ + 1]
  <2>1. /\ DOMAIN disk' = DOMAIN disk /\ disk'.tmp = disk.tmp /\ disk'.clock = disk.clock + 1
        /\ disk'.file = disk.file
      BY <1>5 DEF ExplorerInv, Shapes
  <2>2. Shapes' /\ Dated'
      BY <1>1, <1>5, <2>1 DEF ExplorerInv, Shapes, Dated, There, Opened, Doc, IsDoc, Version
  <2>3. Stamped' /\ Staged' /\ Working'
      BY <1>1, <1>5, <2>1 DEF ExplorerInv, Stamped, Staged, Working, Saving, There, Opened, Doc,
                              Bytes, B
  <2> QED BY <1>3, <2>2, <2>3 DEF Kept, ExplorerInv
<1> QED BY <1>2, <1>4, <1>5

(***************************************************************************)
(* The theorem.                                                            *)
(***************************************************************************)
LEMMA ExplorerStarts ==
    ASSUME ExplorerInit PROVE ExplorerInv
<1>1. PICK q \in Plans : plan = q
    BY DEF ExplorerInit
<1>2. /\ DOMAIN q.files = Files
      /\ \A p \in Files : Version(q.files[p]) /\ (q.files[p] # None => q.files[p][1].mtime = 0)
    BY <1>1, ExplorerAssumption DEF ExplorerAssumption, Version
<1>3. disk = [file |-> q.files, tmp |-> {}, clock |-> 1, locked |-> {}] /\ job = Idle
    BY <1>1 DEF ExplorerInit
<1>4. /\ DOMAIN x = Fields /\ x.mode = "search" /\ x.doc = None /\ x.ask = None
      /\ ~x.find.open
    BY DEF ExplorerInit, NewExplorer, NewFind, Fields
<1>5. DOMAIN g = {"loaded", "base", "raced", "from"} /\ g.raced \in BOOLEAN
    BY DEF ExplorerInit
<1>6. Shapes
    BY <1>2, <1>3, <1>4, <1>5 DEF Shapes, Idle, Stages, IsDoc
<1>7. Dated /\ Stamped
    BY <1>2, <1>3, <1>4 DEF Dated, Stamped, There, Opened
<1>8. Working /\ Staged
    BY <1>3, <1>4 DEF Working, Staged, Saving, Idle
<1> QED BY <1>6, <1>7, <1>8 DEF ExplorerInv

LEMMA ExplorerSteps ==
    ASSUME ExplorerInv, ExplorerNext PROVE Kept
BY ScreenKeys, CtrlKeys, BufferKeys, TreeKeys, PathKeys, FindKeys, AnswerKeeps, CloseKeeps,
   EnterKeeps, ReadKeeps, StampKeeps, CreateKeeps, ReplaceKeeps, TempKeeps, BusyKeeps, ErrorKeeps,
   SavedKeeps, OthersKeep
   DEF ExplorerNext

LEMMA ExplorerRests ==
    ASSUME ExplorerInv, UNCHANGED explorerVars PROVE ExplorerInv'
<1> USE DEF explorerVars
<1>1. Shapes' /\ Dated'
    BY DEF ExplorerInv, Shapes, Dated, There, Opened, Doc, IsDoc, Version
<1>2. Working' /\ Staged' /\ Stamped'
    BY DEF ExplorerInv, Working, Staged, Stamped, Saving, There, Opened, Doc, Bytes, B
<1> QED BY <1>1, <1>2 DEF ExplorerInv

\* Every moment of every behaviour: what a save relies on holds.
THEOREM SaveKnows == ExplorerSpec => []ExplorerInv
<1>1. ExplorerInv /\ [ExplorerNext]_explorerVars => ExplorerInv'
    BY ExplorerSteps, ExplorerRests DEF Kept
<1> QED BY <1>1, ExplorerStarts, PTL DEF ExplorerSpec

\* textfile.rs, state.rs: for any files, plans of keys, other programs, letters
\* and screen, and whenever the process is killed: a file that exists changes
\* only to a whole version, a save replaces only what this session read or
\* wrote, a save that ended leaves no temporary file, and unsaved text goes away
\* only in answer to the dialog.
THEOREM NobodysTextIsLost == ExplorerSpec => SaveKeepsFiles
<1>1. ASSUME ExplorerInv, ExplorerInv', [ExplorerNext]_explorerVars
      PROVE  [OnlyWholeVersions /\ OnlyKnownReplaced /\ NoTempLeft' /\ UnsavedAsked]_explorerVars
  <2>1. CASE ExplorerNext
    <3>1. NoTempLeft'
        BY <1>1 DEF ExplorerInv, Working, NoTempLeft, Idle
    <3> QED BY <1>1, <2>1, <3>1, ExplorerSteps DEF Kept
  <2> QED BY <1>1, <2>1
<1> QED BY <1>1, SaveKnows, PTL DEF SaveKeepsFiles, ExplorerSpec

(***************************************************************************)
(* Texts and their lines.                                                  *)
(***************************************************************************)
Chars == Byte \cup {NL}
Texts == Seq(Chars)
LineSet == Seq(Byte)
Lines == {ls \in Seq(LineSet) : Len(ls) > 0}

\* Induction over sequences.
LEMMA SeqInduct ==
    ASSUME NEW S, NEW P, <<>> \in P,
           \A s \in Seq(S) : \A e \in S : s \in P => Append(s, e) \in P
    PROVE  \A s \in Seq(S) : s \in P
<1> DEFINE N == {n \in Nat : \A s \in Seq(S) : Len(s) = n => s \in P}
<1>1. 0 \in N
    BY EmptySeq
<1>2. ASSUME NEW n \in N PROVE n + 1 \in N
  <2> SUFFICES ASSUME NEW s \in Seq(S), Len(s) = n + 1 PROVE s \in P
      OBVIOUS
  <2>1. s # <<>>
      BY EmptySeq
  <2>2. PICK t \in Seq(S), e \in S : s = Append(t, e)
      BY <2>1, SequenceEmptyOrAppend
  <2>3. Len(t) = n
      BY <2>2, AppendProperties, LenProperties
  <2> QED BY <2>2, <2>3
<1>3. N = Nat
  <2>1. N \in SUBSET Nat
      OBVIOUS
  <2> HIDE DEF N
  <2> QED BY <1>1, <1>2, <2>1, Induct
<1> QED BY <1>3, LenProperties

\* One more character of a text.
Typed(ls, c) == IF c = NL THEN Append(ls, <<>>) ELSE [ls EXCEPT ![Len(ls)] = Append(@, c)]

LEMMA TypedIs ==
    ASSUME NEW ls \in Lines, NEW c \in Chars
    PROVE  /\ Typed(ls, c) \in Lines
           /\ c = NL => /\ Len(Typed(ls, c)) = Len(ls) + 1
                        /\ \A i \in 1 .. Len(ls) : Typed(ls, c)[i] = ls[i]
                        /\ Typed(ls, c)[Len(ls) + 1] = <<>>
           /\ c # NL => /\ Len(Typed(ls, c)) = Len(ls)
                        /\ \A i \in 1 .. Len(ls) :
                             Typed(ls, c)[i] = IF i = Len(ls) THEN Append(ls[i], c) ELSE ls[i]
<1>1. ls \in Seq(LineSet) /\ Len(ls) \in Nat /\ Len(ls) > 0
    BY LenProperties DEF Lines
<1>2. CASE c = NL
  <2>1. <<>> \in LineSet
      BY EmptySeq DEF LineSet
  <2>2. /\ Append(ls, <<>>) \in Seq(LineSet) /\ Len(Append(ls, <<>>)) = Len(ls) + 1
        /\ \A i \in 1 .. Len(ls) : Append(ls, <<>>)[i] = ls[i]
        /\ Append(ls, <<>>)[Len(ls) + 1] = <<>>
      BY <1>1, <2>1, AppendProperties
  <2> QED BY <1>1, <1>2, <2>2 DEF Typed, Lines
<1>3. CASE c # NL
  <2> DEFINE e == Append(ls[Len(ls)], c)
  <2>1. ls[Len(ls)] \in LineSet /\ c \in Byte /\ Len(ls) \in 1 .. Len(ls)
      BY <1>1, <1>3, ElementOfSeq DEF Chars
  <2>2. e \in LineSet
      BY <2>1, AppendProperties DEF LineSet
  <2>3. Typed(ls, c) = [ls EXCEPT ![Len(ls)] = e]
      BY <1>3 DEF Typed
  <2> HIDE DEF e
  <2>4. /\ [ls EXCEPT ![Len(ls)] = e] \in Seq(LineSet) /\ Len([ls EXCEPT ![Len(ls)] = e]) = Len(ls)
        /\ \A i \in 1 .. Len(ls) : [ls EXCEPT ![Len(ls)] = e][i] = IF i = Len(ls) THEN e ELSE ls[i]
      BY <1>1, <2>1, <2>2, ExceptSeq
  <2> QED BY <1>1, <1>3, <2>3, <2>4 DEF Lines, e
<1> QED BY <1>2, <1>3

\* The lines of every beginning of a text.
Splits(f, text) ==
    /\ f \in [0 .. Len(text) -> Lines] /\ f[0] = << <<>> >>
    /\ \A k \in 1 .. Len(text) : f[k] = Typed(f[k - 1], text[k])

LEMMA SplitUnfolded ==
    ASSUME NEW text \in Texts
    PROVE  \E f : Splits(f, text) /\ Split(text) = f[Len(text)]
<1> DEFINE N == Len(text)
           base == << <<>> >>
           G == [p \in Lines \X (1 .. N) |-> Typed(p[1], text[p[2]])]
           Folds(it) == it = [s \in SUBSET (1 .. N) |-> IF s = {} THEN base
                                ELSE Typed(it[s \ {Max(s)}], text[Max(s)])]
           it == CHOOSE it : Folds(it)
<1>1. N \in Nat /\ DOMAIN text = 1 .. N /\ \A i \in 1 .. N : text[i] \in Chars
    BY LenProperties, ElementOfSeq DEF Texts
<1>2. base \in Lines
  <2>1. <<>> \in LineSet
      BY EmptySeq DEF LineSet
  <2> QED BY <2>1 DEF Lines
<1>4. Split(text) = it[1 .. N]
    BY <1>1, Zenon DEF Split, FoldLeft, MapThenFoldSet, Typed
<1>5. G \in [Lines \X (1 .. N) -> Lines]
    BY <1>1, TypedIs
<1> HIDE DEF N, base
<1>6. \E f : Folds(f)
  <2>1. PICK f : FoldsBy(f, N, Lines, base, G)
    <3> HIDE DEF G
    <3> QED BY <1>1, <1>2, <1>5, FoldSolved
  <2>2. ASSUME NEW s \in SUBSET (1 .. N), s # {}
        PROVE  G[<<f[s \ {Max(s)}], Max(s)>>] = Typed(f[s \ {Max(s)}], text[Max(s)])
    <3>1. Max(s) \in 1 .. N
        BY <1>1, <2>2, MaxInSet
    <3>2. f[s \ {Max(s)}] \in Lines
        BY <2>1 DEF FoldsBy
    <3> QED BY <3>1, <3>2
  <2>3. \A s \in SUBSET (1 .. N) :
          f[s] = IF s = {} THEN base ELSE Typed(f[s \ {Max(s)}], text[Max(s)])
    <3> HIDE DEF G
    <3> QED BY <2>1, <2>2 DEF FoldsBy
  <2>4. f = [s \in SUBSET (1 .. N) |-> f[s]]
      BY <2>1 DEF FoldsBy
  <2> QED BY <2>3, <2>4
<1>7. Folds(it)
  <2> HIDE DEF Folds
  <2> QED BY <1>6
<1> HIDE DEF it
<1>8. \A s \in SUBSET (1 .. N) :
        it[s] = IF s = {} THEN base ELSE Typed(it[s \ {Max(s)}], text[Max(s)])
    BY <1>7
<1>9. it[1 .. 0] = base
  <2>1. 1 .. 0 = {} /\ {} \in SUBSET (1 .. N)
      OBVIOUS
  <2> QED BY <1>8, <2>1, Zenon
<1>10. ASSUME NEW k \in 1 .. N
       PROVE  it[1 .. k] = Typed(it[1 .. k - 1], text[k])
  <2>1. Max(1 .. k) = k /\ (1 .. k) \ {k} = 1 .. k - 1
      BY <1>1, MaxOfStretch
  <2>2. 1 .. k \in SUBSET (1 .. N) /\ k \in 1 .. k
      BY <1>1
  <2> QED BY <1>8, <2>1, <2>2, Zenon
<1> HIDE DEF Folds
<1> DEFINE f == [k \in 0 .. N |-> it[1 .. k]]
<1>11. f[0] = base /\ (\A k \in 1 .. N : f[k] = Typed(f[k - 1], text[k])) /\ f[N] = it[1 .. N]
    BY <1>1, <1>9, <1>10
<1>12. f \in [0 .. N -> Lines]
  <2>0. DOMAIN f = 0 .. N /\ f = [k \in DOMAIN f |-> f[k]]
      OBVIOUS
  <2> HIDE DEF f
  <2> DEFINE S == {k \in 0 .. N : f[k] \in Lines}
  <2>1. 0 \in S
      BY <1>1, <1>2, <1>11
  <2>2. ASSUME NEW k \in S, k < N PROVE k + 1 \in S
    <3>1. k + 1 \in 1 .. N /\ (k + 1) - 1 = k
        BY <1>1, <2>2
    <3>2. f[k + 1] = Typed(f[k], text[k + 1])
        BY <1>11, <3>1
    <3> QED BY <1>1, <3>1, <3>2, TypedIs
  <2>3. S = 0 .. N
    <3>1. S \in SUBSET (0 .. N)
        OBVIOUS
    <3> HIDE DEF S
    <3> QED BY <1>1, <2>1, <2>2, <3>1, InductUpTo
  <2> QED BY <2>0, <2>3
<1> HIDE DEF f
<1> QED BY <1>4, <1>11, <1>12 DEF Splits, N, base

LEMMA SplitIs ==
    ASSUME NEW text \in Texts PROVE Split(text) \in Lines
<1>1. PICK f : Splits(f, text) /\ Split(text) = f[Len(text)]
    BY SplitUnfolded
<1>2. Len(text) \in 0 .. Len(text)
    BY LenProperties DEF Texts
<1> QED BY <1>1, <1>2 DEF Splits

LEMMA SplitNothing == Split(<<>>) = << <<>> >>
<1>1. <<>> \in Texts /\ Len(<<>>) = 0
    BY EmptySeq DEF Texts
<1> QED BY <1>1, SplitUnfolded DEF Splits

LEMMA SplitTyped ==
    ASSUME NEW text \in Texts, NEW c \in Chars
    PROVE  Split(Append(text, c)) = Typed(Split(text), c)
<1> DEFINE n == Len(text)
           more == Append(text, c)
<1>1. /\ n \in Nat /\ more \in Texts /\ Len(more) = n + 1 /\ more[n + 1] = c
      /\ \A i \in 1 .. n : more[i] = text[i]
    BY AppendProperties, LenProperties DEF Texts
<1> HIDE DEF more
<1>2. PICK f : Splits(f, text) /\ Split(text) = f[n]
    BY SplitUnfolded
<1>3. PICK h : Splits(h, more) /\ Split(more) = h[n + 1]
    BY <1>1, SplitUnfolded
<1> HIDE DEF n
<1> DEFINE S == {k \in 0 .. n : h[k] = f[k]}
<1>4. 0 \in S
    BY <1>1, <1>2, <1>3 DEF Splits
<1>5. ASSUME NEW k \in S, k < n PROVE k + 1 \in S
  <2>1. k + 1 \in 1 .. n /\ k + 1 \in 1 .. n + 1 /\ (k + 1) - 1 = k /\ h[k] = f[k]
      BY <1>1, <1>5
  <2>2. h[k + 1] = Typed(h[k], more[k + 1]) /\ f[k + 1] = Typed(f[k], text[k + 1])
      BY <1>1, <1>2, <1>3, <2>1 DEF Splits, n
  <2> QED BY <1>1, <2>1, <2>2
<1>6. S = 0 .. n
  <2>1. S \in SUBSET (0 .. n)
      OBVIOUS
  <2> HIDE DEF S
  <2> QED BY <1>1, <1>4, <1>5, <2>1, InductUpTo
<1>7. h[n] = f[n]
    BY <1>1, <1>6
<1>8. h[n + 1] = Typed(h[n], c)
  <2>1. n + 1 \in 1 .. n + 1 /\ (n + 1) - 1 = n
      BY <1>1
  <2>2. h[n + 1] = Typed(h[(n + 1) - 1], more[n + 1])
      BY <1>1, <1>3, <2>1 DEF Splits
  <2> QED BY <1>1, <2>1, <2>2
<1> QED BY <1>2, <1>3, <1>7, <1>8 DEF more

LEMMA ListOf ==
    ASSUME NEW n \in Nat, NEW S, NEW f \in [1 .. n -> S]
    PROVE  f \in Seq(S) /\ Len(f) = n
<1>1. f \in Seq(S)
    BY SeqDef
<1>2. DOMAIN f = 1 .. Len(f) /\ Len(f) \in Nat
    BY <1>1, LenProperties
<1> QED BY <1>1, <1>2

\* A list of lines put behind another, the first of one ending the last of the
\* other.
Glue(a, b) == [i \in 1 .. Len(a) + Len(b) - 1 |->
                 IF i < Len(a) THEN a[i] ELSE IF i = Len(a) THEN a[i] \o b[1]
                 ELSE b[i - Len(a) + 1]]

LEMMA LinesAre ==
    ASSUME NEW ls \in Lines
    PROVE  /\ ls \in Seq(LineSet) /\ Len(ls) \in Nat /\ Len(ls) > 0
           /\ \A i \in 1 .. Len(ls) : ls[i] \in LineSet
BY LenProperties, ElementOfSeq DEF Lines

LEMMA SameLines ==
    ASSUME NEW a \in Lines, NEW b \in Lines, Len(a) = Len(b), \A i \in 1 .. Len(a) : a[i] = b[i]
    PROVE  a = b
BY SeqEqual DEF Lines

LEMMA GlueIs ==
    ASSUME NEW a \in Lines, NEW b \in Lines
    PROVE  /\ Glue(a, b) \in Lines /\ Len(Glue(a, b)) = Len(a) + Len(b) - 1
           /\ \A i \in 1 .. Len(a) + Len(b) - 1 :
                Glue(a, b)[i] = IF i < Len(a) THEN a[i] ELSE IF i = Len(a) THEN a[i] \o b[1]
                                ELSE b[i - Len(a) + 1]
<1>1. Len(a) \in Nat /\ Len(a) > 0 /\ Len(b) \in Nat /\ Len(b) > 0
    BY LinesAre
<1>2. a[Len(a)] \o b[1] \in LineSet
  <2>1. a[Len(a)] \in LineSet /\ b[1] \in LineSet
      BY <1>1, LinesAre
  <2> QED BY <2>1, ConcatProperties DEF LineSet
<1>3. Glue(a, b) \in [1 .. Len(a) + Len(b) - 1 -> LineSet]
    BY <1>1, <1>2, LinesAre DEF Glue
<1>4. Glue(a, b) \in Seq(LineSet) /\ Len(Glue(a, b)) = Len(a) + Len(b) - 1
    BY <1>1, <1>3, ListOf
<1> QED BY <1>1, <1>4 DEF Lines, Glue

LEMMA TypedConcat ==
    ASSUME NEW s \in LineSet, NEW t \in LineSet, NEW c \in Byte
    PROVE  s \o Append(t, c) = Append(s \o t, c)
<1>1. <<c>> \in Seq(Byte) /\ s \o t \in Seq(Byte)
    BY ConcatProperties DEF LineSet
<1>2. Append(t, c) = t \o <<c>> /\ Append(s \o t, c) = (s \o t) \o <<c>>
    BY <1>1, AppendIsConcat DEF LineSet
<1> QED BY <1>1, <1>2, ConcatAssociative DEF LineSet

LEMMA GlueTyped ==
    ASSUME NEW a \in Lines, NEW b \in Lines, NEW c \in Chars
    PROVE  Glue(a, Typed(b, c)) = Typed(Glue(a, b), c)
<1> DEFINE m == Len(a)  n == Len(b)
           ab == Glue(a, b)
           d == Typed(b, c)
           ad == Glue(a, d)
           e == Typed(ab, c)
<1>1. m \in Nat /\ m > 0 /\ n \in Nat /\ n > 0
    BY LinesAre
<1>2. /\ ab \in Lines /\ Len(ab) = m + n - 1
      /\ \A i \in 1 .. m + n - 1 :
           ab[i] = IF i < m THEN a[i] ELSE IF i = m THEN a[i] \o b[1] ELSE b[i - m + 1]
    BY GlueIs
<1>3. d \in Lines
    BY TypedIs
<1>4. /\ ad \in Lines /\ Len(ad) = m + Len(d) - 1
      /\ \A i \in 1 .. m + Len(d) - 1 :
           ad[i] = IF i < m THEN a[i] ELSE IF i = m THEN a[i] \o d[1] ELSE d[i - m + 1]
  <2> HIDE DEF d
  <2> QED BY <1>3, GlueIs
<1> HIDE DEF ab
<1>5. /\ e \in Lines
      /\ c = NL => /\ Len(e) = Len(ab) + 1
                   /\ \A i \in 1 .. Len(ab) : e[i] = ab[i]
                   /\ e[Len(ab) + 1] = <<>>
      /\ c # NL => /\ Len(e) = Len(ab)
                   /\ \A i \in 1 .. Len(ab) : e[i] = IF i = Len(ab) THEN Append(ab[i], c) ELSE ab[i]
    BY <1>2, TypedIs
<1>6. /\ c = NL => /\ Len(d) = n + 1 /\ (\A i \in 1 .. n : d[i] = b[i]) /\ d[n + 1] = <<>>
      /\ c # NL => /\ Len(d) = n
                   /\ \A i \in 1 .. n : d[i] = IF i = n THEN Append(b[i], c) ELSE b[i]
    BY TypedIs
<1>7. a[m] \in LineSet /\ b[1] \in LineSet
    BY <1>1, LinesAre
<1> HIDE DEF d, e, m, n, ad
<1>8. CASE c = NL
  <2>0. Len(d) = n + 1 /\ Len(e) = Len(ab) + 1 /\ Len(ab) = m + n - 1 /\ Len(ad) = m + Len(d) - 1
      BY <1>2, <1>4, <1>5, <1>6, <1>8
  <2>1. Len(e) = m + n /\ Len(ad) = m + n
      BY <1>1, <2>0
  <2>2. \A i \in 1 .. m + n : ad[i] = e[i]
    <3> SUFFICES ASSUME NEW i \in 1 .. m + n PROVE ad[i] = e[i]
        OBVIOUS
    <3>1. CASE i = m + n
      <4>1. ad[i] = d[n + 1]
        <5>1. i \in 1 .. m + Len(d) - 1 /\ ~(i < m) /\ i # m /\ i - m + 1 = n + 1
            BY <1>1, <2>0, <3>1
        <5>2. ad[i] = d[i - m + 1]
            BY <1>4, <5>1
        <5> QED BY <5>1, <5>2
      <4>2. e[i] = <<>>
          BY <1>1, <1>2, <1>5, <1>8, <3>1
      <4> QED BY <1>6, <1>8, <4>1, <4>2
    <3>2. CASE i < m + n
      <4>1. i \in 1 .. m + n - 1 /\ e[i] = ab[i]
          BY <1>1, <1>2, <1>5, <1>8, <3>2
      <4>2. ad[i] = IF i < m THEN a[i] ELSE IF i = m THEN a[i] \o d[1] ELSE d[i - m + 1]
          BY <1>1, <1>4, <1>6, <1>8
      <4>3. d[1] = b[1] /\ (i > m => d[i - m + 1] = b[i - m + 1])
          BY <1>1, <1>6, <1>8, <4>1
      <4>4. ab[i] = IF i < m THEN a[i] ELSE IF i = m THEN a[i] \o b[1] ELSE b[i - m + 1]
          BY <1>2, <4>1
      <4>5. ~(i < m) /\ i # m => i > m
          BY <1>1
      <4> QED BY <4>1, <4>2, <4>3, <4>4, <4>5, Zenon
    <3> QED BY <1>1, <3>1, <3>2
  <2>3. ad = e
      BY <1>4, <1>5, <2>1, <2>2, SameLines
  <2> QED BY <2>3 DEF d, e, ab, ad
<1>9. CASE c # NL
  <2>1. Len(e) = m + n - 1 /\ Len(ad) = m + n - 1
      BY <1>1, <1>2, <1>4, <1>5, <1>6, <1>9
  <2>2. a[m] \o Append(b[1], c) = Append(a[m] \o b[1], c)
      BY <1>7, <1>9, TypedConcat DEF Chars
  <2>3. \A i \in 1 .. m + n - 1 : ad[i] = e[i]
    <3> SUFFICES ASSUME NEW i \in 1 .. m + n - 1 PROVE ad[i] = e[i]
        OBVIOUS
    <3>1. ad[i] = IF i < m THEN a[i] ELSE IF i = m THEN a[i] \o d[1] ELSE d[i - m + 1]
        BY <1>1, <1>4, <1>6, <1>9
    <3>2. e[i] = IF i = m + n - 1 THEN Append(ab[i], c) ELSE ab[i]
        BY <1>1, <1>2, <1>5, <1>9
    <3>3. CASE i < m
        BY <1>1, <1>2, <3>1, <3>2, <3>3
    <3>4. CASE i = m
      <4>0. 1 \in 1 .. n /\ m \in 1 .. m + n - 1 /\ ~(m < m) /\ (m = m + n - 1 <=> n = 1) /\ (1 = n <=> n = 1)
          BY <1>1
      <4>1. d[1] = IF 1 = n THEN Append(b[1], c) ELSE b[1]
          BY <1>6, <1>9, <4>0, Zenon
      <4>2. ab[m] = a[m] \o b[1]
          BY <1>2, <4>0, Zenon
      <4>3. ad[m] = a[m] \o d[1] /\ e[m] = IF n = 1 THEN Append(ab[m], c) ELSE ab[m]
          BY <3>1, <3>2, <3>4, <4>0, Zenon
      <4>4. CASE n = 1
          BY <2>2, <4>1, <4>2, <4>3, <4>4, <3>4, Zenon
      <4>5. CASE n # 1
          BY <4>0, <4>1, <4>2, <4>3, <4>5, <3>4, Zenon
      <4> QED BY <4>4, <4>5
    <3>5. CASE i > m
      <4>1. ab[i] = b[i - m + 1] /\ i - m + 1 \in 1 .. n /\ (i = m + n - 1 <=> i - m + 1 = n)
          BY <1>1, <1>2, <3>5
      <4>2. d[i - m + 1] = IF i - m + 1 = n THEN Append(b[i - m + 1], c) ELSE b[i - m + 1]
          BY <1>6, <1>9, <4>1
      <4> QED BY <1>1, <3>1, <3>2, <3>5, <4>1, <4>2
    <3> QED BY <1>1, <3>3, <3>4, <3>5
  <2>4. ad = e
      BY <1>4, <1>5, <2>1, <2>3, SameLines
  <2> QED BY <2>4 DEF d, e, ab, ad
<1> QED BY <1>8, <1>9

LEMMA EmptyLine ==
    /\ <<>> \in LineSet /\ << <<>> >> \in Lines /\ Len(<< <<>> >>) = 1 /\ <<>> \in Texts
<1>1. <<>> \in LineSet
    BY EmptySeq DEF LineSet
<1> QED BY <1>1, EmptySeq DEF Lines, Texts

LEMMA GlueNothing ==
    ASSUME NEW a \in Lines
    PROVE  Glue(a, << <<>> >>) = a /\ Glue(<< <<>> >>, a) = a
<1> DEFINE b == << <<>> >>
<1>1. b \in Lines /\ Len(b) = 1 /\ b[1] = <<>>
    BY EmptyLine
<1> HIDE DEF b
<1>2. Len(a) \in Nat /\ Len(a) > 0 /\ a[Len(a)] \in Seq(Byte) /\ a[1] \in Seq(Byte)
    BY LinesAre DEF LineSet
<1>3. a[Len(a)] \o <<>> = a[Len(a)] /\ <<>> \o a[1] = a[1]
    BY <1>2, ConcatEmptySeq
<1>4. Glue(a, b) = a
  <2>1. /\ Glue(a, b) \in Lines /\ Len(Glue(a, b)) = Len(a) + Len(b) - 1
        /\ \A i \in 1 .. Len(a) + Len(b) - 1 :
             Glue(a, b)[i] = IF i < Len(a) THEN a[i] ELSE IF i = Len(a) THEN a[i] \o b[1]
                             ELSE b[i - Len(a) + 1]
      BY <1>1, GlueIs
  <2>2. Len(Glue(a, b)) = Len(a) /\ \A i \in 1 .. Len(a) : Glue(a, b)[i] = a[i]
      BY <1>1, <1>2, <1>3, <2>1
  <2> QED BY <2>1, <2>2, SameLines
<1>5. Glue(b, a) = a
  <2>1. /\ Glue(b, a) \in Lines /\ Len(Glue(b, a)) = Len(b) + Len(a) - 1
        /\ \A i \in 1 .. Len(b) + Len(a) - 1 :
             Glue(b, a)[i] = IF i < Len(b) THEN b[i] ELSE IF i = Len(b) THEN b[i] \o a[1]
                             ELSE a[i - Len(b) + 1]
      BY <1>1, GlueIs
  <2>3. Len(Glue(b, a)) = Len(a)
      BY <1>1, <1>2, <2>1
  <2>4. b[1] \o a[1] = a[1]
      BY <1>1, <1>3
  <2>2. Len(Glue(b, a)) = Len(a) /\ \A i \in 1 .. Len(a) : Glue(b, a)[i] = a[i]
    <3> SUFFICES ASSUME NEW i \in 1 .. Len(a) PROVE Glue(b, a)[i] = a[i]
        BY <2>3
    <3>1. Glue(b, a)[i] = IF i < 1 THEN b[i] ELSE IF i = 1 THEN b[i] \o a[1] ELSE a[i - 1 + 1]
        BY <1>1, <1>2, <2>1
    <3>2. CASE i = 1
      <4>1. ~(1 < 1)
          OBVIOUS
      <4> QED BY <2>4, <3>1, <3>2, <4>1, Zenon
    <3>3. CASE i > 1
      <4>1. i - 1 + 1 = i /\ ~(i < 1) /\ i # 1
          BY <1>2, <3>3
      <4> QED BY <3>1, <4>1, Zenon
    <3> QED BY <1>2, <3>2, <3>3
  <2> QED BY <2>1, <2>2, SameLines
<1> QED BY <1>4, <1>5 DEF b

\* The lines of a text and another behind it.
LEMMA SplitConcat ==
    ASSUME NEW s \in Texts, NEW t \in Texts
    PROVE  Split(s \o t) = Glue(Split(s), Split(t))
<1> DEFINE P == {u \in Texts : Split(s \o u) = Glue(Split(s), Split(u))}
<1>1. <<>> \in P
  <2>1. s \o <<>> = s
      BY ConcatEmptySeq DEF Texts
  <2> QED BY <2>1, EmptyLine, SplitNothing, SplitIs, GlueNothing
<1>2. ASSUME NEW u \in Seq(Chars), NEW c \in Chars, u \in P
      PROVE  Append(u, c) \in P
  <2>1. Append(u, c) \in Texts /\ Append(u, c) = u \o <<c>> /\ s \o u \in Texts
      BY AppendProperties, AppendIsConcat, ConcatProperties DEF Texts
  <2>2. s \o Append(u, c) = Append(s \o u, c)
    <3>1. <<c>> \in Seq(Chars)
        OBVIOUS
    <3>2. Append(s \o u, c) = (s \o u) \o <<c>>
        BY <2>1, AppendIsConcat DEF Texts
    <3> QED BY <2>1, <3>1, <3>2, ConcatAssociative DEF Texts
  <2>3. Split(s \o Append(u, c)) = Typed(Glue(Split(s), Split(u)), c)
      BY <1>2, <2>1, <2>2, SplitTyped
  <2>4. Glue(Split(s), Split(Append(u, c))) = Typed(Glue(Split(s), Split(u)), c)
      BY <1>2, SplitTyped, SplitIs, GlueTyped DEF Texts
  <2> QED BY <2>1, <2>3, <2>4
<1>3. \A u \in Seq(Chars) : u \in P
  <2> HIDE DEF P
  <2> QED BY <1>1, <1>2, SeqInduct
<1> QED BY <1>3 DEF Texts

LEMMA LinesAreTexts ==
    ASSUME NEW l \in LineSet PROVE l \in Texts /\ <<l>> \in Lines /\ Len(<<l>>) = 1
<1>1. l \in Texts
  <2>1. Byte \subseteq Chars
      BY DEF Chars
  <2> QED BY <2>1, SeqMonotonic DEF Texts, LineSet
<1> QED BY <1>1 DEF Lines

\* A text without a line's end is one line.
LEMMA SplitLine ==
    ASSUME NEW l \in LineSet PROVE Split(l) = <<l>>
<1> DEFINE P == {u \in LineSet : Split(u) = <<u>>}
<1>1. <<>> \in P
    BY EmptyLine, SplitNothing
<1>2. ASSUME NEW u \in Seq(Byte), NEW c \in Byte, u \in P
      PROVE  Append(u, c) \in P
  <2>1. c \in Chars /\ c # NL /\ u \in Texts /\ <<u>> \in Lines /\ Len(<<u>>) = 1
      BY ByteAssumption, LinesAreTexts DEF ByteAssumption, Chars, LineSet
  <2>2. Split(Append(u, c)) = Typed(<<u>>, c)
      BY <1>2, <2>1, SplitTyped
  <2>3. Typed(<<u>>, c) = <<Append(u, c)>>
      BY <2>1 DEF Typed
  <2> QED BY <2>2, <2>3, AppendProperties DEF LineSet
<1>3. \A u \in Seq(Byte) : u \in P
  <2> HIDE DEF P
  <2> QED BY <1>1, <1>2, SeqInduct
<1> QED BY <1>3 DEF LineSet

\* The lines of a text between the beginning of a line and the end of one.
LEMMA SplitAround ==
    ASSUME NEW h \in LineSet, NEW t \in LineSet, NEW text \in Texts
    PROVE  LET k == Len(Split(text))
               new == Split(h \o text \o t)
           IN  /\ new \in Lines /\ Len(new) = k
               /\ \A j \in 1 .. k :
                    new[j] = (IF j = 1 THEN h ELSE <<>>) \o Split(text)[j]
                             \o (IF j = k THEN t ELSE <<>>)
<1> DEFINE T == Split(text)
           k == Len(T)
           A == Glue(<<h>>, T)
           new == Split(h \o text \o t)
<1>1. T \in Lines /\ k \in Nat /\ k > 0 /\ h \in Texts /\ t \in Texts /\ h \o text \in Texts
      /\ <<h>> \in Lines /\ Len(<<h>>) = 1 /\ <<t>> \in Lines /\ Len(<<t>>) = 1
    BY SplitIs, LinesAre, LinesAreTexts, ConcatProperties DEF Texts
<1>2. Split(h \o text) = A
    BY <1>1, SplitConcat, SplitLine
<1>3. new = Glue(A, <<t>>)
    BY <1>1, <1>2, SplitConcat, SplitLine
<1>4. \A j \in 1 .. k : T[j] \in Seq(Byte) /\ T[j] \o <<>> = T[j] /\ <<>> \o T[j] = T[j]
    BY <1>1, LinesAre, ConcatEmptySeq DEF LineSet
<1> HIDE DEF T
<1>5. A \in Lines /\ Len(A) = k /\ \A j \in 1 .. k : A[j] = IF j = 1 THEN h \o T[j] ELSE T[j]
  <2> DEFINE H == <<h>>
  <2>1. H \in Lines /\ Len(H) = 1 /\ H[1] = h
      BY <1>1
  <2> HIDE DEF H
  <2>2. /\ Glue(H, T) \in Lines /\ Len(Glue(H, T)) = Len(H) + Len(T) - 1
        /\ \A j \in 1 .. Len(H) + Len(T) - 1 :
             Glue(H, T)[j] = IF j < Len(H) THEN H[j] ELSE IF j = Len(H) THEN H[j] \o T[1]
                             ELSE T[j - Len(H) + 1]
      BY <1>1, <2>1, GlueIs
  <2>3. A = Glue(H, T)
      BY DEF H
  <2> HIDE DEF A
  <2> QED BY <1>1, <2>1, <2>2, <2>3
<1>6. \A j \in 1 .. k : A[j] \in Seq(Byte) /\ A[j] \o <<>> = A[j]
    BY <1>5, LinesAre, ConcatEmptySeq DEF LineSet
<1> HIDE DEF A
<1>7. new \in Lines /\ Len(new) = k /\ \A j \in 1 .. k : new[j] = IF j = k THEN A[j] \o t ELSE A[j]
  <2> DEFINE H == <<t>>
  <2>1. H \in Lines /\ Len(H) = 1 /\ H[1] = t
      BY <1>1
  <2>3. new = Glue(A, H)
      BY <1>3
  <2> HIDE DEF H
  <2>2. /\ Glue(A, H) \in Lines /\ Len(Glue(A, H)) = Len(A) + Len(H) - 1
        /\ \A j \in 1 .. Len(A) + Len(H) - 1 :
             Glue(A, H)[j] = IF j < Len(A) THEN A[j] ELSE IF j = Len(A) THEN A[j] \o H[1]
                             ELSE H[j - Len(A) + 1]
      BY <1>5, <2>1, GlueIs
  <2> HIDE DEF new, k
  <2> QED BY <1>1, <1>5, <2>1, <2>2, <2>3
<1> HIDE DEF new, k
<1>8. \A j \in 1 .. k : new[j] = (IF j = 1 THEN h ELSE <<>>) \o T[j] \o (IF j = k THEN t ELSE <<>>)
    BY <1>4, <1>5, <1>6, <1>7
<1> QED BY <1>1, <1>7, <1>8 DEF new, k, T

(***************************************************************************)
(* Texts put together.                                                     *)
(***************************************************************************)
\* What each beginning of a list of sequences adds up to.
Adds(f, q, S) ==
    /\ f \in [0 .. Len(q) -> Seq(S)] /\ f[0] = <<>>
    /\ \A k \in 1 .. Len(q) : f[k] = f[k - 1] \o q[k]

LEMMA FlattenUnfolded ==
    ASSUME NEW S, NEW q \in Seq(Seq(S))
    PROVE  \E f : Adds(f, q, S) /\ FlattenSeq(q) = f[Len(q)]
<1> DEFINE n == Len(q)
           G == [p \in Seq(S) \X (1 .. n) |-> p[1] \o q[p[2]]]
<1>1. n \in Nat /\ \A k \in 1 .. n : q[k] \in Seq(S)
    BY LenProperties, ElementOfSeq
<1>2. G \in [Seq(S) \X (1 .. n) -> Seq(S)]
  <2>1. \A v \in Seq(S), k \in 1 .. n : v \o q[k] \in Seq(S)
      BY <1>1, ConcatProperties
  <2> QED BY <2>1
<1>3. PICK f : Recurs(f, n, Seq(S), <<>>, G)
  <2> HIDE DEF G
  <2> QED BY <1>1, <1>2, EmptySeq, RecursionSolved
<1>4. f \in [0 .. n -> Seq(S)] /\ f[0] = <<>> /\ \A k \in 1 .. n : f[k] = f[k - 1] \o q[k]
  <2>1. f \in [0 .. n -> Seq(S)] /\ f[0] = <<>> /\ \A k \in 1 .. n : f[k] = G[<<f[k - 1], k>>]
    <3> HIDE DEF G
    <3> QED BY <1>3 DEF Recurs
  <2>2. \A k \in 1 .. n : k - 1 \in 0 .. n
      BY <1>1
  <2> QED BY <2>1, <2>2
<1> HIDE DEF G
<1>5. CASE n = 0
  <2>1. q = <<>>
      BY <1>5, EmptySeq
  <2> QED BY <1>1, <1>4, <1>5, <2>1 DEF Adds, FlattenSeq
<1>6. CASE n # 0
  <2> DEFINE Flat(h) == h = [i \in 1 .. n |-> IF i = 1 THEN q[i] ELSE h[i - 1] \o q[i]]
             h == CHOOSE h : Flat(h)
  <2>1. FlattenSeq(q) = h[n]
      BY <1>6 DEF FlattenSeq
  <2>2. Flat([i \in 1 .. n |-> f[i]])
    <3>1. f[1] = q[1]
      <4>1. 1 \in 1 .. n /\ 1 - 1 = 0
          BY <1>1, <1>6
      <4>2. f[1] = <<>> \o q[1] /\ q[1] \in Seq(S)
          BY <1>1, <1>4, <4>1
      <4> QED BY <4>2, ConcatEmptySeq
    <3>2. \A i \in 1 .. n : i # 1 => i - 1 \in 1 .. n
        BY <1>1
    <3> QED BY <1>4, <3>1, <3>2
  <2>3. Flat(h)
    <3> HIDE DEF Flat
    <3> QED BY <2>2
  <2>4. \A i \in 1 .. n : h[i] = IF i = 1 THEN q[i] ELSE h[i - 1] \o q[i]
      BY <2>3
  <2> HIDE DEF h, n
  <2> DEFINE K == {k \in 0 .. n : k = 0 \/ h[k] = f[k]}
  <2>5. ASSUME NEW k \in K, k < n PROVE k + 1 \in K
    <3>1. k + 1 \in 1 .. n /\ k + 1 \in 0 .. n /\ (k + 1) - 1 = k /\ k \in 0 .. n
        BY <1>1, <2>5
    <3>2. CASE k = 0
      <4>0. 1 \in 1 .. n /\ 1 - 1 = 0
          BY <3>1, <3>2
      <4>1. h[1] = q[1] /\ f[1] = <<>> \o q[1]
          BY <1>4, <2>4, <4>0
      <4>2. f[1] = q[1]
          BY <1>1, <4>0, <4>1, ConcatEmptySeq
      <4> QED BY <3>1, <3>2, <4>1, <4>2
    <3>3. CASE k # 0
      <4>1. h[k] = f[k] /\ k + 1 # 1
          BY <2>5, <3>1, <3>3
      <4>2. h[k + 1] = h[k] \o q[k + 1] /\ f[k + 1] = f[k] \o q[k + 1]
          BY <1>4, <2>4, <3>1, <4>1
      <4> QED BY <3>1, <4>1, <4>2
    <3> QED BY <3>2, <3>3
  <2>6. K = 0 .. n
    <3>1. K \in SUBSET (0 .. n) /\ 0 \in K
        BY <1>1
    <3> HIDE DEF K
    <3> QED BY <1>1, <2>5, <3>1, InductUpTo
  <2>7. h[n] = f[n]
      BY <1>1, <1>6, <2>6
  <2> QED BY <1>4, <2>1, <2>7 DEF Adds, n
<1> QED BY <1>5, <1>6

LEMMA FlattenIs ==
    ASSUME NEW S, NEW q \in Seq(Seq(S)) PROVE FlattenSeq(q) \in Seq(S)
<1>1. PICK f : Adds(f, q, S) /\ FlattenSeq(q) = f[Len(q)]
    BY FlattenUnfolded
<1>2. Len(q) \in 0 .. Len(q)
    BY LenProperties
<1> QED BY <1>1, <1>2 DEF Adds

LEMMA FlattenNothing == FlattenSeq(<<>>) = <<>>
BY DEF FlattenSeq

LEMMA FlattenMore ==
    ASSUME NEW S, NEW q \in Seq(Seq(S)), NEW s \in Seq(S)
    PROVE  FlattenSeq(Append(q, s)) = FlattenSeq(q) \o s
<1> DEFINE n == Len(q)
           more == Append(q, s)
<1>1. /\ n \in Nat /\ more \in Seq(Seq(S)) /\ Len(more) = n + 1 /\ more[n + 1] = s
      /\ \A i \in 1 .. n : more[i] = q[i]
    BY AppendProperties, LenProperties
<1> HIDE DEF more
<1>2. PICK f : Adds(f, q, S) /\ FlattenSeq(q) = f[n]
    BY FlattenUnfolded
<1>3. PICK h : Adds(h, more, S) /\ FlattenSeq(more) = h[n + 1]
    BY <1>1, FlattenUnfolded
<1>4. h[0] = f[0] /\ (\A k \in 1 .. n : f[k] = f[k - 1] \o q[k])
      /\ \A k \in 1 .. n + 1 : h[k] = h[k - 1] \o more[k]
    BY <1>1, <1>2, <1>3 DEF Adds
<1> HIDE DEF n
<1> DEFINE K == {k \in 0 .. n : h[k] = f[k]}
<1>5. ASSUME NEW k \in K, k < n PROVE k + 1 \in K
  <2>1. k + 1 \in 1 .. n /\ k + 1 \in 1 .. n + 1 /\ (k + 1) - 1 = k /\ h[k] = f[k]
        /\ k + 1 \in 0 .. n
      BY <1>1, <1>5
  <2>2. h[k + 1] = h[k] \o q[k + 1] /\ f[k + 1] = f[k] \o q[k + 1]
      BY <1>1, <1>4, <2>1
  <2> QED BY <1>1, <2>1, <2>2, Zenon
<1>6. K = 0 .. n
  <2>1. K \in SUBSET (0 .. n) /\ 0 \in K
      BY <1>1, <1>4
  <2> HIDE DEF K
  <2> QED BY <1>1, <1>5, <2>1, InductUpTo
<1>7. h[n] = f[n] /\ n + 1 \in 1 .. n + 1 /\ (n + 1) - 1 = n
  <2>1. n \in 0 .. n /\ n + 1 \in 1 .. n + 1 /\ (n + 1) - 1 = n
      BY <1>1
  <2> QED BY <1>6, <2>1, Zenon
<1>8. h[n + 1] = h[n] \o s
    BY <1>1, <1>4, <1>7
<1> QED BY <1>2, <1>3, <1>7, <1>8 DEF more

LEMMA GlueLast ==
    ASSUME NEW a \in Lines, NEW l \in LineSet
    PROVE  Glue(Append(a, <<>>), <<l>>) = Append(a, l)
<1> DEFINE n == Len(a)
           b == Append(a, <<>>)
           c == <<l>>
           d == Append(a, l)
<1>1. n \in Nat /\ n > 0 /\ a \in Seq(LineSet)
    BY LinesAre
<1>2. /\ b \in Lines /\ Len(b) = n + 1 /\ b[n + 1] = <<>> /\ \A i \in 1 .. n : b[i] = a[i]
    BY <1>1, EmptyLine, AppendProperties DEF Lines
<1>3. /\ d \in Lines /\ Len(d) = n + 1 /\ d[n + 1] = l /\ \A i \in 1 .. n : d[i] = a[i]
    BY <1>1, AppendProperties DEF Lines
<1>4. c \in Lines /\ Len(c) = 1 /\ c[1] = l
    BY LinesAreTexts
<1>5. <<>> \o l = l
    BY ConcatEmptySeq DEF LineSet
<1> HIDE DEF b, c, d
<1>6. /\ Glue(b, c) \in Lines /\ Len(Glue(b, c)) = Len(b) + Len(c) - 1
      /\ \A j \in 1 .. Len(b) + Len(c) - 1 :
           Glue(b, c)[j] = IF j < Len(b) THEN b[j] ELSE IF j = Len(b) THEN b[j] \o c[1]
                           ELSE c[j - Len(b) + 1]
    BY <1>2, <1>4, GlueIs
<1>7. Len(Glue(b, c)) = n + 1
    BY <1>1, <1>2, <1>4, <1>6
<1>8. ASSUME NEW j \in 1 .. n + 1 PROVE Glue(b, c)[j] = d[j]
  <2>1. Glue(b, c)[j] = IF j < n + 1 THEN b[j] ELSE IF j = n + 1 THEN b[j] \o c[1]
                        ELSE c[j - (n + 1) + 1]
      BY <1>1, <1>2, <1>4, <1>6
  <2>2. CASE j = n + 1
    <3>1. ~(n + 1 < n + 1)
        BY <1>1
    <3> QED BY <1>2, <1>3, <1>4, <1>5, <2>1, <2>2, <3>1, Zenon
  <2>3. CASE j < n + 1
    <3>1. j \in 1 .. n
        BY <1>1, <2>3
    <3> QED BY <1>2, <1>3, <2>1, <2>3, <3>1
  <2> QED BY <1>1, <2>2, <2>3
<1>9. Glue(b, c) = d
    BY <1>3, <1>6, <1>7, <1>8, SameLines
<1> QED BY <1>9 DEF b, c, d

\* Each line behind the mark of the end of the one before.
Marked(ls) == [i \in 1 .. Len(ls) |-> <<NL>> \o ls[i]]

LEMMA MarkedIs ==
    ASSUME NEW ls \in Seq(LineSet)
    PROVE  /\ Marked(ls) \in Seq(Texts)
           /\ \A l \in LineSet : Marked(Append(ls, l)) = Append(Marked(ls), <<NL>> \o l)
<1>1. \A l \in LineSet : <<NL>> \o l \in Texts
  <2>1. <<NL>> \in Texts
      BY DEF Texts, Chars
  <2> QED BY <2>1, LinesAreTexts, ConcatProperties DEF Texts
<1>2. \A k \in Seq(LineSet) : Marked(k) \in Seq(Texts) /\ Len(Marked(k)) = Len(k)
  <2> SUFFICES ASSUME NEW k \in Seq(LineSet)
               PROVE  Marked(k) \in Seq(Texts) /\ Len(Marked(k)) = Len(k)
      OBVIOUS
  <2>1. Len(k) \in Nat /\ Marked(k) \in [1 .. Len(k) -> Texts]
      BY <1>1, LenProperties, ElementOfSeq DEF Marked
  <2> QED BY <2>1, ListOf
<1>3. ASSUME NEW l \in LineSet
      PROVE  Marked(Append(ls, l)) = Append(Marked(ls), <<NL>> \o l)
  <2> DEFINE n == Len(ls)
             more == Append(ls, l)
             e == <<NL>> \o l
  <2>1. /\ n \in Nat /\ more \in Seq(LineSet) /\ Len(more) = n + 1 /\ more[n + 1] = l
        /\ \A i \in 1 .. n : more[i] = ls[i]
      BY AppendProperties, LenProperties
  <2> HIDE DEF more
  <2>2. Marked(more) \in Seq(Texts) /\ Len(Marked(more)) = n + 1
        /\ Marked(ls) \in Seq(Texts) /\ Len(Marked(ls)) = n
      BY <1>2, <2>1
  <2>3. e \in Texts
      BY <1>1
  <2>4. Marked(more)[n + 1] = e /\ \A i \in 1 .. n : Marked(more)[i] = Marked(ls)[i]
    <3>1. \A i \in 1 .. n + 1 : Marked(more)[i] = <<NL>> \o more[i]
        BY <2>1 DEF Marked
    <3>2. \A i \in 1 .. n : Marked(ls)[i] = <<NL>> \o ls[i]
        BY <2>1 DEF Marked
    <3>3. n + 1 \in 1 .. n + 1 /\ \A i \in 1 .. n : i \in 1 .. n + 1
        BY <2>1
    <3>4. Marked(more)[n + 1] = <<NL>> \o more[n + 1]
        BY <3>1, <3>3
    <3>5. ASSUME NEW i \in 1 .. n PROVE Marked(more)[i] = Marked(ls)[i]
      <4>1. Marked(more)[i] = <<NL>> \o more[i] /\ Marked(ls)[i] = <<NL>> \o ls[i]
          BY <3>1, <3>2, <3>3
      <4> QED BY <2>1, <4>1, Zenon
    <3>6. Marked(more)[n + 1] = e
        BY <2>1, <3>4, Zenon
    <3> QED BY <3>5, <3>6
  <2> HIDE DEF e
  <2>5. /\ Append(Marked(ls), e) \in Seq(Texts) /\ Len(Append(Marked(ls), e)) = n + 1
        /\ Append(Marked(ls), e)[n + 1] = e
        /\ \A i \in 1 .. n : Append(Marked(ls), e)[i] = Marked(ls)[i]
      BY <2>2, <2>3, AppendProperties
  <2>6. \A i \in 1 .. n + 1 : Marked(more)[i] = Append(Marked(ls), e)[i]
    <3> SUFFICES ASSUME NEW i \in 1 .. n + 1 PROVE Marked(more)[i] = Append(Marked(ls), e)[i]
        OBVIOUS
    <3>1. i = n + 1 \/ i \in 1 .. n
        BY <2>1
    <3> QED BY <2>4, <2>5, <3>1
  <2>7. Marked(more) = Append(Marked(ls), e)
      BY <2>2, <2>5, <2>6, SeqEqual
  <2> QED BY <2>7 DEF more, e
<1> QED BY <1>2, <1>3

\* The lines of marked lines are those lines, below an empty one.
LEMMA SplitMarked ==
    ASSUME NEW ls \in Seq(LineSet)
    PROVE  LET F == FlattenSeq(Marked(ls))
           IN  /\ F \in Texts /\ Split(F) = << <<>> >> \o ls
               /\ ls # <<>> => F # <<>> /\ F[1] = NL
<1> DEFINE F(k) == FlattenSeq(Marked(k))
           P == {k \in Seq(LineSet) : /\ F(k) \in Texts /\ Split(F(k)) = << <<>> >> \o k
                                      /\ k # <<>> => F(k) # <<>> /\ F(k)[1] = NL}
<1>1. <<>> \in P
  <2>1. Marked(<<>>) = <<>>
      BY DEF Marked
  <2>2. << <<>> >> \o <<>> = << <<>> >> /\ <<>> \in Seq(LineSet)
      BY EmptyLine, EmptySeq, ConcatEmptySeq DEF Lines
  <2> QED BY <2>1, <2>2, FlattenNothing, SplitNothing, EmptyLine
<1>2. ASSUME NEW k \in Seq(LineSet), NEW l \in LineSet, k \in P
      PROVE  Append(k, l) \in P
  <2> DEFINE e == <<NL>> \o l
             head == Append(F(k), NL)
  <2>1. Append(k, l) \in Seq(LineSet) /\ NL \in Chars /\ <<NL>> \in Texts /\ l \in Texts
    <3>1. NL \in Chars /\ <<NL>> \in Texts
        BY DEF Chars, Texts
    <3> QED BY <3>1, AppendProperties, LinesAreTexts
  <2>2. e \in Texts /\ Marked(k) \in Seq(Texts)
        /\ Marked(Append(k, l)) = Append(Marked(k), e)
      BY <2>1, MarkedIs, ConcatProperties DEF Texts
  <2>3. F(Append(k, l)) = F(k) \o e
    <3> HIDE DEF e
    <3> QED BY <2>2, FlattenMore DEF Texts
  <2>4. F(k) \o e = head \o l /\ head \in Texts /\ head \o l \in Texts
    <3>1. head = F(k) \o <<NL>> /\ head \in Texts
        BY <1>2, <2>1, AppendIsConcat, AppendProperties DEF Texts
    <3> QED BY <1>2, <2>1, <3>1, ConcatAssociative, ConcatProperties DEF Texts
  <2>5. Split(head) = Append(Split(F(k)), <<>>)
      BY <1>2, <2>1, SplitTyped DEF Typed
  <2>6. Split(F(k) \o e) = Append(Split(F(k)), l)
    <3>1. Split(head \o l) = Glue(Split(head), <<l>>)
        BY <2>1, <2>4, SplitConcat, SplitLine
    <3> QED BY <1>2, <2>4, <2>5, <3>1, SplitIs, GlueLast
  <2>7. Append(<< <<>> >> \o k, l) = << <<>> >> \o Append(k, l)
    <3>1. << <<>> >> \in Seq(LineSet) /\ <<l>> \in Seq(LineSet)
        BY EmptyLine DEF Lines
    <3>2. Append(<< <<>> >> \o k, l) = (<< <<>> >> \o k) \o <<l>> /\ Append(k, l) = k \o <<l>>
        BY <3>1, AppendIsConcat, ConcatProperties
    <3> QED BY <3>1, <3>2, ConcatAssociative
  <2>8. (F(k) \o e) # <<>> /\ (F(k) \o e)[1] = NL
    <3>1. F(k) \in Texts /\ (k # <<>> => F(k) # <<>> /\ F(k)[1] = NL)
        BY <1>2
    <3>2. Len(F(k)) \in Nat /\ Len(e) = 1 + Len(l) /\ e[1] = NL /\ Len(l) \in Nat
        BY <2>1, ConcatProperties, LenProperties DEF Texts
    <3>3. Len(F(k) \o e) = Len(F(k)) + Len(e)
          /\ \A i \in 1 .. Len(F(k)) + Len(e) :
                (F(k) \o e)[i] = IF i <= Len(F(k)) THEN F(k)[i] ELSE e[i - Len(F(k))]
        BY <2>2, <3>1, ConcatProperties DEF Texts
    <3>4. k = <<>> => Len(F(k)) = 0
        BY FlattenNothing DEF Marked
    <3>5. F(k) # <<>> => Len(F(k)) > 0
        BY <3>1, EmptySeq DEF Texts
    <3> HIDE DEF e, F
    <3>6. Len(F(k) \o e) > 0 /\ 1 \in 1 .. Len(F(k)) + Len(e)
        BY <3>2, <3>3
    <3>7. (F(k) \o e)[1] = NL
      <4>1. CASE k = <<>>
        <5>1. ~(1 <= Len(F(k))) /\ 1 - Len(F(k)) = 1
            BY <3>4, <4>1
        <5> QED BY <3>2, <3>3, <3>6, <5>1
      <4>2. CASE k # <<>>
        <5>1. 1 <= Len(F(k))
            BY <3>1, <3>2, <3>5, <4>2
        <5> QED BY <3>1, <3>3, <3>6, <4>2, <5>1
      <4> QED BY <4>1, <4>2
    <3> QED BY <3>6, <3>7
  <2> QED BY <1>2, <2>1, <2>3, <2>4, <2>6, <2>7, <2>8
<1>3. \A k \in Seq(LineSet) : k \in P
  <2> HIDE DEF P
  <2> QED BY <1>1, <1>2, SeqInduct
<1> QED BY <1>3

\* Lines that are joined and split again are the same lines.
LEMMA SplitJoined ==
    ASSUME NEW ls \in Lines PROVE Joined(ls) \in Texts /\ Split(Joined(ls)) = ls
<1> DEFINE F == FlattenSeq(Marked(ls))
           u == Tail(F)
           two == << <<>>, <<>> >>
<1>1. F \in Texts /\ F # <<>> /\ F[1] = NL /\ Split(F) = << <<>> >> \o ls
  <2>1. ls \in Seq(LineSet) /\ ls # <<>>
      BY LinesAre
  <2> QED BY <2>1, SplitMarked
<1>2. Joined(ls) = u
    BY DEF Joined, Marked
<1> HIDE DEF F
<1>3. u \in Texts /\ F = <<NL>> \o u
  <2>1. Len(F) \in Nat /\ Len(F) > 0
      BY <1>1, EmptySeq, LenProperties DEF Texts
  <2>2. /\ u \in Seq(Chars) /\ Len(u) = Len(F) - 1 /\ \A i \in 1 .. Len(u) : u[i] = F[i + 1]
      BY <1>1, HeadTailProperties DEF Texts
  <2> HIDE DEF u
  <2>3. <<NL>> \in Seq(Chars)
      BY DEF Chars
  <2>4. /\ <<NL>> \o u \in Seq(Chars) /\ Len(<<NL>> \o u) = 1 + Len(u)
        /\ \A i \in 1 .. 1 + Len(u) :
              (<<NL>> \o u)[i] = IF i <= 1 THEN <<NL>>[i] ELSE u[i - 1]
      BY <2>2, <2>3, ConcatProperties
  <2>5. \A i \in 1 .. Len(F) : F[i] = (<<NL>> \o u)[i]
    <3> SUFFICES ASSUME NEW i \in 1 .. Len(F) PROVE F[i] = (<<NL>> \o u)[i]
        OBVIOUS
    <3>1. i \in 1 .. 1 + Len(u)
        BY <2>1, <2>2
    <3>2. CASE i = 1
      <4>1. (<<NL>> \o u)[1] = <<NL>>[1]
          BY <2>4, <3>1, <3>2
      <4>2. <<NL>>[1] = NL
          OBVIOUS
      <4> QED BY <1>1, <3>2, <4>1, <4>2, Zenon
    <3>3. CASE i > 1
      <4>1. i - 1 \in 1 .. Len(u) /\ (i - 1) + 1 = i /\ ~(i <= 1)
          BY <2>1, <2>2, <3>3
      <4>2. u[i - 1] = F[i]
          BY <2>2, <4>1
      <4>3. (<<NL>> \o u)[i] = u[i - 1]
          BY <2>4, <3>1, <4>1, Zenon
      <4> QED BY <4>2, <4>3, Zenon
    <3>4. i = 1 \/ i > 1
        BY <2>1
    <3> QED BY <3>2, <3>3, <3>4, Zenon
  <2>6. Len(F) = Len(<<NL>> \o u)
      BY <2>1, <2>2, <2>4
  <2> QED BY <1>1, <2>2, <2>4, <2>5, <2>6, SeqEqual DEF Texts
<1> HIDE DEF u
<1> DEFINE U == Split(u)
<1>4. U \in Lines /\ Len(U) \in Nat /\ Len(U) > 0 /\ Len(ls) \in Nat /\ Len(ls) > 0
    BY <1>3, SplitIs, LinesAre
<1>5. Split(<<NL>>) = two /\ <<NL>> \in Texts
  <2>1. <<NL>> = Append(<<>>, NL) /\ NL \in Chars
      BY DEF Chars
  <2>2. Split(Append(<<>>, NL)) = Typed(<< <<>> >>, NL)
      BY <2>1, EmptyLine, SplitTyped, SplitNothing
  <2>3. Typed(<< <<>> >>, NL) = two
    <3> DEFINE t == Typed(<< <<>> >>, NL)
    <3>1. t \in Lines /\ Len(t) = 2 /\ t[1] = <<>> /\ t[2] = <<>>
      <4>1. NL \in Chars /\ 1 + 1 = 2 /\ 1 \in 1 .. 1
          BY DEF Chars
      <4> DEFINE o == << <<>> >>
      <4>2. o \in Lines /\ Len(o) = 1 /\ o[1] = <<>>
          BY EmptyLine
      <4> HIDE DEF o
      <4>3. /\ Typed(o, NL) \in Lines /\ Len(Typed(o, NL)) = Len(o) + 1
            /\ \A i \in 1 .. Len(o) : Typed(o, NL)[i] = o[i]
            /\ Typed(o, NL)[Len(o) + 1] = <<>>
          BY <4>1, <4>2, TypedIs
      <4>4. Typed(o, NL) \in Lines /\ Len(Typed(o, NL)) = 2 /\ Typed(o, NL)[1] = <<>>
            /\ Typed(o, NL)[2] = <<>>
          BY <4>1, <4>2, <4>3
      <4> QED BY <4>4 DEF o
    <3>2. two \in Lines /\ Len(two) = 2 /\ two[1] = <<>> /\ two[2] = <<>>
        BY EmptyLine DEF Lines
    <3> HIDE DEF t, two
    <3>3. \A i \in 1 .. 2 : t[i] = two[i]
        BY <3>1, <3>2
    <3>4. t = two
        BY <3>1, <3>2, <3>3, SameLines
    <3> QED BY <3>4 DEF t
  <2> QED BY <2>1, <2>2, <2>3 DEF Texts
<1>6. Split(F) = Glue(two, U)
    BY <1>3, <1>5, SplitConcat
<1>7. two \in Lines /\ Len(two) = 2 /\ two[1] = <<>> /\ two[2] = <<>>
    BY EmptyLine DEF Lines
<1> HIDE DEF U, two
<1>8. /\ Len(Glue(two, U)) = Len(two) + Len(U) - 1
      /\ \A j \in 1 .. Len(two) + Len(U) - 1 :
           Glue(two, U)[j] = IF j < Len(two) THEN two[j] ELSE IF j = Len(two) THEN two[j] \o U[1]
                           ELSE U[j - Len(two) + 1]
    BY <1>4, <1>7, GlueIs
<1> DEFINE e == << <<>> >>
<1>9. e \in Seq(LineSet) /\ Len(e) = 1 /\ ls \in Seq(LineSet)
    BY EmptyLine, LinesAre DEF Lines
<1> HIDE DEF e
<1>10. /\ Len(e \o ls) = Len(e) + Len(ls)
       /\ \A i \in 1 .. Len(e) + Len(ls) :
             (e \o ls)[i] = IF i <= Len(e) THEN e[i] ELSE ls[i - Len(e)]
    BY <1>9, ConcatProperties
<1>11. Glue(two, U) = e \o ls
    BY <1>1, <1>6 DEF e
<1>12. Len(U) = Len(ls)
    BY <1>4, <1>7, <1>8, <1>9, <1>10, <1>11
<1>13. U[1] \in Seq(Byte) /\ two[2] \o U[1] = U[1]
  <2>1. U[1] \in Seq(Byte)
      BY <1>4, LinesAre DEF LineSet
  <2> QED BY <1>7, <2>1, ConcatEmptySeq
<1>14. ASSUME NEW j \in 1 .. Len(ls) PROVE U[j] = ls[j]
  <2>1. /\ j + 1 \in 1 .. Len(two) + Len(U) - 1 /\ j + 1 \in 1 .. Len(e) + Len(ls)
        /\ ~(j + 1 < 2) /\ (j + 1) - 2 + 1 = j /\ ~(j + 1 <= 1) /\ (j + 1) - 1 = j
        /\ (j + 1 = 2 <=> j = 1)
      BY <1>4, <1>7, <1>9, <1>12
  <2>2. (e \o ls)[j + 1] = ls[j]
      BY <1>9, <1>10, <2>1
  <2>3. Glue(two, U)[j + 1] = IF j + 1 < 2 THEN two[j + 1] ELSE IF j + 1 = 2 THEN two[j + 1] \o U[1]
                              ELSE U[(j + 1) - 2 + 1]
      BY <1>7, <1>8, <2>1
  <2>4. CASE j = 1
      BY <1>11, <1>13, <2>1, <2>2, <2>3, <2>4
  <2>5. CASE j # 1
      BY <1>11, <2>1, <2>2, <2>3, <2>5
  <2> QED BY <2>4, <2>5
<1>15. U = ls
    BY <1>4, <1>12, <1>14, SameLines
<1> QED BY <1>2, <1>3, <1>15 DEF U

(***************************************************************************)
(* Places in lines, and what stands before, between and behind them.       *)
(***************************************************************************)
Place == [line : Nat \ {0}, col : Nat]
Inside(ls, c) == c \in Place /\ c.line <= Len(ls) /\ c.col <= Len(ls[c.line])
InOrderOf(f, t) == f.line < t.line \/ (f.line = t.line /\ f.col <= t.col)

LineTo(ls, c) == SubSeq(ls[c.line], 1, c.col)
LineFrom(ls, c) == SubSeq(ls[c.line], c.col + 1, Len(ls[c.line]))

LEMMA CutLine ==
    ASSUME NEW l \in LineSet, NEW m \in Nat, NEW n \in Nat, m <= n, n <= Len(l)
    PROVE  /\ Len(l) \in Nat
           /\ SubSeq(l, m + 1, n) \in LineSet /\ Len(SubSeq(l, m + 1, n)) = n - m
           /\ SubSeq(l, 1, m) \o SubSeq(l, m + 1, n) = SubSeq(l, 1, n)
           /\ SubSeq(l, 1, n) \o SubSeq(l, n + 1, Len(l)) = l
           /\ SubSeq(l, 1, n) \in LineSet /\ Len(SubSeq(l, 1, n)) = n
           /\ SubSeq(l, n + 1, Len(l)) \in LineSet /\ Len(SubSeq(l, n + 1, Len(l))) = Len(l) - n
<1>1. Len(l) \in Nat /\ \A i \in 1 .. Len(l) : l[i] \in Byte
    BY LenProperties, ElementOfSeq DEF LineSet
<1>2. SubSeq(l, m + 1, n) \in LineSet /\ Len(SubSeq(l, m + 1, n)) = n - m
    BY <1>1, SubSeqProperties DEF LineSet
<1>3. SubSeq(l, 1, n) \in LineSet /\ Len(SubSeq(l, 1, n)) = n
    BY <1>1, SubSeqProperties DEF LineSet
<1>4. SubSeq(l, n + 1, Len(l)) \in LineSet /\ Len(SubSeq(l, n + 1, Len(l))) = Len(l) - n
    BY <1>1, SubSeqProperties DEF LineSet
<1>5. SubSeq(l, 1, m) \o SubSeq(l, m + 1, n) = SubSeq(l, 1, n)
  <2>1. 1 \in 1 .. Len(l) + 1 /\ m \in 1 - 1 .. Len(l) /\ n \in m .. Len(l)
      BY <1>1
  <2> QED BY <2>1, ConcatAdjacentSubSeq DEF LineSet
<1>6. SubSeq(l, 1, n) \o SubSeq(l, n + 1, Len(l)) = l
  <2>1. 1 \in 1 .. Len(l) + 1 /\ n \in 1 - 1 .. Len(l) /\ Len(l) \in n .. Len(l)
      BY <1>1
  <2> QED BY <2>1, ConcatAdjacentSubSeq, SubSeqFull DEF LineSet
<1> QED BY <1>1, <1>2, <1>3, <1>4, <1>5, <1>6

LEMMA CutConcat ==
    ASSUME NEW s \in LineSet, NEW t \in LineSet
    PROVE  /\ s \o t \in LineSet /\ Len(s \o t) = Len(s) + Len(t) /\ Len(s) \in Nat /\ Len(t) \in Nat
           /\ SubSeq(s \o t, 1, Len(s)) = s
           /\ SubSeq(s \o t, Len(s) + 1, Len(s \o t)) = t
<1>1. s \o t \in LineSet /\ Len(s \o t) = Len(s) + Len(t) /\ Len(s) \in Nat /\ Len(t) \in Nat
    BY ConcatProperties, LenProperties DEF LineSet
<1>2. SubSeq(s \o t, Len(s) + 1, Len(s) + Len(t)) = t
    BY LastOfConcat DEF LineSet
<1>3. SubSeq(s \o t, 0 + 1, Len(s)) = SubSeq(s, 0 + 1, Len(s))
    BY <1>1, FirstOfConcat DEF LineSet
<1>4. SubSeq(s, 1, Len(s)) = s
    BY SubSeqFull DEF LineSet
<1> QED BY <1>1, <1>2, <1>3, <1>4

LEMMA InsideIs ==
    ASSUME NEW ls \in Lines, NEW c, Inside(ls, c)
    PROVE  /\ c.line \in 1 .. Len(ls) /\ c.line \in Nat /\ c.col \in Nat /\ ls[c.line] \in LineSet
           /\ c.col <= Len(ls[c.line]) /\ Len(ls[c.line]) \in Nat
           /\ LineTo(ls, c) \in LineSet /\ Len(LineTo(ls, c)) = c.col
           /\ LineFrom(ls, c) \in LineSet /\ Len(LineFrom(ls, c)) = Len(ls[c.line]) - c.col
           /\ LineTo(ls, c) \o LineFrom(ls, c) = ls[c.line]
<1>1. c.line \in 1 .. Len(ls) /\ c.line \in Nat /\ c.col \in Nat /\ c.col <= Len(ls[c.line])
    BY LinesAre DEF Inside, Place
<1>2. ls[c.line] \in LineSet
    BY <1>1, LinesAre
<1> DEFINE l == ls[c.line]
           n == c.col
<1>3. n \in Nat /\ n <= n /\ n <= Len(l) /\ l \in LineSet
    BY <1>1, <1>2
<1>4. LineTo(ls, c) = SubSeq(l, 1, n) /\ LineFrom(ls, c) = SubSeq(l, n + 1, Len(l))
    BY DEF LineTo, LineFrom
<1> HIDE DEF l, n
<1>5. /\ Len(l) \in Nat
      /\ SubSeq(l, 1, n) \o SubSeq(l, n + 1, Len(l)) = l
      /\ SubSeq(l, 1, n) \in LineSet /\ Len(SubSeq(l, 1, n)) = n
      /\ SubSeq(l, n + 1, Len(l)) \in LineSet /\ Len(SubSeq(l, n + 1, Len(l))) = Len(l) - n
    BY <1>3, CutLine, ZenonT(30)
<1> QED BY <1>1, <1>2, <1>4, <1>5 DEF l, n

\* The lines between two places, and lines with others put between two places.
Between(ls, f, t) ==
    [j \in 1 .. t.line - f.line + 1 |->
        IF f.line = t.line THEN SubSeq(ls[f.line], f.col + 1, t.col)
        ELSE IF j = 1 THEN LineFrom(ls, f)
        ELSE IF j = t.line - f.line + 1 THEN LineTo(ls, t)
        ELSE ls[f.line + j - 1]]

NewLines(ls, f, t, k) == f.line - 1 + k + (Len(ls) - t.line)

PutBetween(ls, f, t, new) ==
    [i \in 1 .. NewLines(ls, f, t, Len(new)) |->
        IF i < f.line THEN ls[i]
        ELSE IF i >= f.line + Len(new) THEN ls[i - (f.line + Len(new) - 1) + t.line]
        ELSE (IF i = f.line THEN LineTo(ls, f) ELSE <<>>) \o new[i - f.line + 1]
             \o (IF i = f.line + Len(new) - 1 THEN LineFrom(ls, t) ELSE <<>>)]

\* The endings of such lines: those of `keep`, or `most`, between the places.
PutEnds(es, f, t, k, keep, most) ==
    [i \in 1 .. NewLines(es, f, t, k) |->
        IF i < f.line THEN es[i]
        ELSE IF i >= f.line + k - 1 THEN es[i - (f.line + k - 1) + t.line]
        ELSE IF i - f.line + 1 <= Len(keep) THEN keep[i - f.line + 1] ELSE most]

\* The end of lines put behind a place.
EndOf(f, new) == Cursor(f.line + Len(new) - 1, (IF Len(new) = 1 THEN f.col ELSE 0) + Len(new[Len(new)]))

LEMMA BetweenIs ==
    ASSUME NEW ls \in Lines, NEW f, NEW t, Inside(ls, f), Inside(ls, t), InOrderOf(f, t)
    PROVE  /\ Between(ls, f, t) \in Lines /\ Len(Between(ls, f, t)) = t.line - f.line + 1
           /\ EndOf(f, Between(ls, f, t)) = t
<1> DEFINE r == t.line - f.line + 1
           R == Between(ls, f, t)
<1>1. /\ f.line \in 1 .. Len(ls) /\ t.line \in 1 .. Len(ls) /\ f.line <= t.line /\ Len(ls) \in Nat
      /\ f.col \in Nat /\ t.col \in Nat /\ r \in Nat /\ r > 0
    BY InsideIs, LinesAre DEF InOrderOf
<1>2. f.line = t.line => /\ SubSeq(ls[f.line], f.col + 1, t.col) \in LineSet
                         /\ Len(SubSeq(ls[f.line], f.col + 1, t.col)) = t.col - f.col
  <2> SUFFICES ASSUME f.line = t.line
               PROVE  /\ SubSeq(ls[f.line], f.col + 1, t.col) \in LineSet
                      /\ Len(SubSeq(ls[f.line], f.col + 1, t.col)) = t.col - f.col
      OBVIOUS
  <2> DEFINE l == ls[f.line]
             m == f.col
             n == t.col
  <2>1. l \in LineSet /\ m <= n /\ n <= Len(l) /\ m \in Nat /\ n \in Nat
      BY <1>1, InsideIs DEF InOrderOf
  <2> HIDE DEF l, m, n
  <2>2. SubSeq(l, m + 1, n) \in LineSet /\ Len(SubSeq(l, m + 1, n)) = n - m
      BY <2>1, CutLine, ZenonT(30)
  <2> QED BY <2>2 DEF l, m, n
<1>3. LineFrom(ls, f) \in LineSet /\ LineTo(ls, t) \in LineSet /\ Len(LineTo(ls, t)) = t.col
    BY InsideIs
<1>4. \A j \in 1 .. r : f.line + j - 1 \in 1 .. Len(ls) /\ ls[f.line + j - 1] \in LineSet
    BY <1>1, LinesAre
<1>5. R \in [1 .. r -> LineSet]
    BY <1>2, <1>3, <1>4 DEF Between
<1>6. R \in Seq(LineSet) /\ Len(R) = r
    BY <1>1, <1>5, ListOf
<1>7. EndOf(f, R) = t
  <2>1. R[r] = IF f.line = t.line THEN SubSeq(ls[f.line], f.col + 1, t.col) ELSE LineTo(ls, t)
    <3>1. r \in 1 .. r /\ (r = 1 => f.line = t.line)
        BY <1>1
    <3> QED BY <3>1 DEF Between
  <2>2. t = Cursor(t.line, t.col)
      BY DEF Inside, Place, Cursor
  <2>3. f.line + r - 1 = t.line /\ (r = 1 <=> f.line = t.line)
      BY <1>1
  <2>4. (IF r = 1 THEN f.col ELSE 0) + Len(R[r]) = t.col
    <3> HIDE DEF R, r
    <3>1. CASE f.line = t.line
      <4>1. Len(R[r]) = t.col - f.col /\ r = 1
          BY <1>2, <2>1, <2>3, <3>1
      <4> QED BY <1>1, <4>1
    <3>2. CASE f.line # t.line
      <4>1. Len(R[r]) = t.col /\ r # 1
          BY <1>3, <2>1, <2>3, <3>2
      <4> QED BY <1>1, <4>1
    <3> QED BY <3>1, <3>2
  <2> HIDE DEF R, r
  <2> QED BY <1>6, <2>2, <2>3, <2>4 DEF EndOf
<1> QED BY <1>1, <1>6, <1>7 DEF Lines

\* The same, line by line.
IsPut(ls, f, t, new, k, p) ==
    LET n == f.line - 1 + k + (Len(ls) - t.line)
    IN  /\ n \in Nat /\ n >= f.line + k - 1 /\ p \in Lines /\ Len(p) = n
        /\ \A i \in 1 .. n :
             /\ i < f.line => p[i] = ls[i]
             /\ i >= f.line + k => /\ i - (f.line + k - 1) + t.line \in 1 .. Len(ls)
                                  /\ p[i] = ls[i - (f.line + k - 1) + t.line]
             /\ f.line <= i /\ i < f.line + k =>
                  p[i] = (IF i = f.line THEN LineTo(ls, f) ELSE <<>>) \o new[i - f.line + 1]
                         \o (IF i = f.line + k - 1 THEN LineFrom(ls, t) ELSE <<>>)

LEMMA PutIs ==
    ASSUME NEW ls \in Lines, NEW f, NEW t, Inside(ls, f), Inside(ls, t), InOrderOf(f, t),
           NEW new \in Lines
    PROVE  IsPut(ls, f, t, new, Len(new), PutBetween(ls, f, t, new))
<1> DEFINE k == Len(new)
           n == NewLines(ls, f, t, k)
           p == PutBetween(ls, f, t, new)
<1>1. /\ f.line \in 1 .. Len(ls) /\ t.line \in 1 .. Len(ls) /\ f.line <= t.line /\ Len(ls) \in Nat
      /\ k \in Nat /\ k > 0
    BY InsideIs, LinesAre DEF InOrderOf
<1>2. n \in Nat /\ n >= f.line + k - 1 /\ n = f.line - 1 + k + (Len(ls) - t.line)
    BY <1>1 DEF NewLines
<1>3. <<>> \in LineSet /\ LineTo(ls, f) \in LineSet /\ LineFrom(ls, t) \in LineSet
    BY EmptyLine, InsideIs
<1> DEFINE e(i) == (IF i = f.line THEN LineTo(ls, f) ELSE <<>>) \o new[i - f.line + 1]
                   \o (IF i = f.line + k - 1 THEN LineFrom(ls, t) ELSE <<>>)
<1>4. ASSUME NEW i \in 1 .. n
      PROVE  /\ i < f.line => ls[i] \in LineSet
             /\ i >= f.line + k => /\ i - (f.line + k - 1) + t.line \in 1 .. Len(ls)
                                   /\ ls[i - (f.line + k - 1) + t.line] \in LineSet
             /\ f.line <= i /\ i < f.line + k => e(i) \in LineSet
  <2>1. i < f.line => ls[i] \in LineSet
      BY <1>1, LinesAre
  <2>2. i >= f.line + k => /\ i - (f.line + k - 1) + t.line \in 1 .. Len(ls)
                           /\ ls[i - (f.line + k - 1) + t.line] \in LineSet
      BY <1>1, <1>2, LinesAre, SMTT(30)
  <2>3. ASSUME f.line <= i, i < f.line + k PROVE e(i) \in LineSet
    <3> DEFINE a == IF i = f.line THEN LineTo(ls, f) ELSE <<>>
               b == new[i - f.line + 1]
               c == IF i = f.line + k - 1 THEN LineFrom(ls, t) ELSE <<>>
    <3>1. a \in LineSet /\ c \in LineSet
        BY <1>3
    <3>2. b \in LineSet
        BY <1>1, <2>3, LinesAre
    <3>3. e(i) = a \o b \o c
        OBVIOUS
    <3> HIDE DEF a, b, c, e
    <3> QED BY <3>1, <3>2, <3>3, ConcatProperties DEF LineSet
  <2> QED BY <2>1, <2>2, <2>3
<1>5. p = [i \in 1 .. n |-> IF i < f.line THEN ls[i]
                            ELSE IF i >= f.line + k THEN ls[i - (f.line + k - 1) + t.line] ELSE e(i)]
    BY DEF PutBetween
<1> HIDE DEF e, p, n, k
<1>6. \A i \in 1 .. n : p[i] = IF i < f.line THEN ls[i]
                            ELSE IF i >= f.line + k THEN ls[i - (f.line + k - 1) + t.line] ELSE e(i)
    BY <1>5
<1>7. p \in [1 .. n -> LineSet]
  <2>1. ASSUME NEW i \in 1 .. n PROVE p[i] \in LineSet
    <3>1. i < f.line \/ i >= f.line + k \/ (f.line <= i /\ i < f.line + k /\ ~(i < f.line) /\ ~(i >= f.line + k))
        BY <1>1, <1>2
    <3> QED BY <1>4, <1>6, <3>1, Zenon
  <2>2. p = [i \in 1 .. n |-> p[i]]
      BY <1>5
  <2> QED BY <2>1, <2>2
<1>8. p \in Seq(LineSet) /\ Len(p) = n
    BY <1>2, <1>7, ListOf
<1>9. \A i \in 1 .. n : /\ i < f.line => p[i] = ls[i]
                        /\ i >= f.line + k => p[i] = ls[i - (f.line + k - 1) + t.line]
                        /\ f.line <= i /\ i < f.line + k => p[i] = e(i)
    BY <1>1, <1>2, <1>6
<1>10. n > 0
    BY <1>1, <1>2
<1> QED BY <1>1, <1>2, <1>4, <1>8, <1>9, <1>10 DEF IsPut, Lines, n, p, k, e, NewLines

IsSplice(S, s, m, n, t, k, p) ==
    LET N == m - 1 + k + (Len(s) - n)
    IN  /\ N \in Nat /\ p \in Seq(S) /\ Len(p) = N
        /\ \A i \in 1 .. N :
             /\ i < m => p[i] = s[i]
             /\ m <= i /\ i < m + k => p[i] = t[i - m + 1]
             /\ i >= m + k => p[i] = s[i - (m + k - 1) + n]

LEMMA SpliceIs ==
    ASSUME NEW S, NEW s \in Seq(S), NEW t \in Seq(S), NEW m \in Nat, NEW n \in Nat,
           1 <= m, m <= n, n <= Len(s)
    PROVE  IsSplice(S, s, m, n, t, Len(t), Splice(s, m, n, t))
<1> DEFINE a == SubSeq(s, 1, m - 1)
           b == SubSeq(s, n + 1, Len(s))
           k == Len(t)
           u == a \o t
           p == u \o b
           N == m - 1 + k + (Len(s) - n)
<1>1. Len(s) \in Nat /\ k \in Nat /\ N \in Nat /\ \A i \in 1 .. Len(s) : s[i] \in S
    BY LenProperties, ElementOfSeq
<1>2. a \in Seq(S) /\ Len(a) = m - 1 /\ \A i \in 1 .. m - 1 : a[i] = s[i]
  <2>1. /\ a \in Seq(S) /\ Len(a) = IF 1 <= m - 1 THEN m - 1 - 1 + 1 ELSE 0
        /\ \A i \in 1 .. m - 1 - 1 + 1 : a[i] = s[1 + i - 1]
      BY <1>1, SubSeqProperties
  <2> HIDE DEF a
  <2> QED BY <1>1, <2>1
<1>3. b \in Seq(S) /\ Len(b) = Len(s) - n /\ \A i \in 1 .. Len(s) - n : b[i] = s[n + i]
  <2>1. /\ b \in Seq(S) /\ Len(b) = IF n + 1 <= Len(s) THEN Len(s) - (n + 1) + 1 ELSE 0
        /\ \A i \in 1 .. Len(s) - (n + 1) + 1 : b[i] = s[n + 1 + i - 1]
      BY <1>1, SubSeqProperties
  <2> HIDE DEF b
  <2> QED BY <1>1, <2>1
<1>4. Splice(s, m, n, t) = p
    BY DEF Splice
<1> HIDE DEF a, b
<1>5. /\ u \in Seq(S) /\ Len(u) = Len(a) + k
      /\ \A i \in 1 .. Len(a) + k : u[i] = IF i <= Len(a) THEN a[i] ELSE t[i - Len(a)]
    BY <1>2, ConcatProperties
<1> HIDE DEF u
<1>6. /\ p \in Seq(S) /\ Len(p) = Len(u) + Len(b)
      /\ \A i \in 1 .. Len(u) + Len(b) : p[i] = IF i <= Len(u) THEN u[i] ELSE b[i - Len(u)]
  <2>1. u \in Seq(S) /\ b \in Seq(S)
      BY <1>3, <1>5
  <2> QED BY <2>1, ConcatProperties
<1> HIDE DEF p, k, N
<1>7. Len(p) = N
    BY <1>1, <1>2, <1>3, <1>5, <1>6 DEF N
<1>8. ASSUME NEW i \in 1 .. N
      PROVE  /\ i < m => p[i] = s[i]
             /\ m <= i /\ i < m + k => p[i] = t[i - m + 1]
             /\ i >= m + k => p[i] = s[i - (m + k - 1) + n]
  <2>1. i \in 1 .. Len(u) + Len(b)
      BY <1>6, <1>7
  <2>2. CASE i < m
    <3>1. i <= Len(u) /\ i <= Len(a) /\ i \in 1 .. Len(a) + k /\ i \in 1 .. m - 1
          /\ ~(m <= i /\ i < m + k) /\ ~(i >= m + k)
        BY <1>1, <1>2, <1>5, <2>2
    <3> QED BY <1>2, <1>5, <1>6, <2>1, <3>1
  <2>3. CASE m <= i /\ i < m + k
    <3>1. i <= Len(u) /\ ~(i <= Len(a)) /\ i \in 1 .. Len(a) + k /\ i - Len(a) = i - m + 1
          /\ ~(i < m) /\ ~(i >= m + k)
        BY <1>1, <1>2, <1>5, <2>3
    <3> QED BY <1>5, <1>6, <2>1, <3>1
  <2>4. CASE i >= m + k
    <3>1. ~(i <= Len(u)) /\ i - Len(u) \in 1 .. Len(s) - n /\ n + (i - Len(u)) = i - (m + k - 1) + n
          /\ ~(i < m) /\ ~(i < m + k)
        BY <1>1, <1>2, <1>3, <1>5, <2>1, <2>4
    <3>2. p[i] = b[i - Len(u)] /\ b[i - Len(u)] = s[n + (i - Len(u))]
        BY <1>3, <1>6, <2>1, <3>1
    <3> QED BY <3>1, <3>2
  <2> QED BY <1>1, <2>2, <2>3, <2>4
<1> QED BY <1>1, <1>4, <1>6, <1>7, <1>8 DEF IsSplice, N, k

LEMMA SplitOne ==
    ASSUME NEW text \in Texts, Len(Split(text)) = 1 PROVE Split(text) = <<text>>
<1> DEFINE P == {u \in Texts : Len(Split(u)) = 1 => Split(u) = <<u>>}
<1>1. <<>> \in P
    BY EmptyLine, SplitNothing
<1>2. ASSUME NEW u \in Seq(Chars), NEW c \in Chars, u \in P PROVE Append(u, c) \in P
  <2> DEFINE a == Split(u)
  <2>1. u \in Texts /\ Append(u, c) \in Texts /\ a \in Lines /\ Len(a) \in Nat /\ Len(a) > 0
      BY AppendProperties, SplitIs, LinesAre DEF Texts
  <2>2. Split(Append(u, c)) = Typed(a, c)
      BY <2>1, SplitTyped
  <2>3. Len(a) = 1 => a = <<u>>
      BY <1>2
  <2> HIDE DEF a
  <2>4. /\ c = NL => Len(Typed(a, c)) = Len(a) + 1
        /\ c # NL => Len(Typed(a, c)) = Len(a)
      BY <2>1, TypedIs
  <2>5. c # NL => Typed(<<u>>, c) = <<Append(u, c)>>
      BY DEF Typed
  <2>6. ASSUME Len(Split(Append(u, c))) = 1 PROVE Split(Append(u, c)) = <<Append(u, c)>>
    <3>1. c # NL /\ Len(a) = 1
        BY <2>1, <2>2, <2>4, <2>6
    <3> QED BY <2>2, <2>3, <2>5, <3>1
  <2> QED BY <2>1, <2>6
<1>3. \A u \in Seq(Chars) : u \in P
  <2> HIDE DEF P
  <2> QED BY <1>1, <1>2, SeqInduct
<1> QED BY <1>3 DEF Texts

LEMMA AdvanceIs ==
    ASSUME NEW text \in Texts, NEW f \in Place
    PROVE  Advance(f, text) = EndOf(f, Split(text))
<1> DEFINE a == Split(text)
<1>1. Len(a) \in Nat /\ Len(a) > 0 /\ f.line \in Nat /\ f.col \in Nat
    BY SplitIs, LinesAre DEF Place
<1>2. CASE Len(a) = 1
  <2>1. a = <<text>>
      BY <1>2, SplitOne
  <2> HIDE DEF a
  <2>2. a[Len(a)] = text
      BY <2>1
  <2>3. f.line + Len(a) - 1 = f.line
      BY <1>1, <1>2
  <2> QED BY <1>2, <2>2, <2>3 DEF Advance, EndOf, a
<1>3. CASE Len(a) # 1
  <2> HIDE DEF a
  <2>1. Last(a) = a[Len(a)] /\ Len(a[Len(a)]) \in Nat
    <3>1. a \in Lines /\ Len(a) \in 1 .. Len(a)
        BY <1>1, SplitIs DEF a
    <3>2. a[Len(a)] \in LineSet
        BY <3>1, LinesAre
    <3> QED BY <3>2, LenProperties DEF Last, LineSet
  <2>2. 0 + Len(a[Len(a)]) = Len(a[Len(a)])
      BY <2>1
  <2> QED BY <1>3, <2>1, <2>2 DEF Advance, EndOf, a
<1> QED BY <1>2, <1>3

\* What is cut out between two places is the lines between them.
LEMMA SliceIs ==
    ASSUME NEW b, b.lines \in Lines, NEW f, NEW t,
           Inside(b.lines, f), Inside(b.lines, t), InOrderOf(f, t)
    PROVE  Slice(b, f, t) \in Texts /\ Split(Slice(b, f, t)) = Between(b.lines, f, t)
<1> DEFINE ls == b.lines
           r == t.line - f.line + 1
           R == Between(ls, f, t)
<1>1. /\ f.line \in 1 .. Len(ls) /\ t.line \in 1 .. Len(ls) /\ f.line <= t.line /\ Len(ls) \in Nat
      /\ f.col \in Nat /\ t.col \in Nat /\ r \in Nat /\ r > 0
    BY InsideIs, LinesAre DEF InOrderOf
<1>2. R \in Lines /\ Len(R) = r
    BY BetweenIs
<1>3. CASE f.line = t.line
  <2> DEFINE l == SubSeq(ls[f.line], f.col + 1, t.col)
  <2>1. ls[f.line] \in LineSet /\ f.col <= t.col /\ t.col <= Len(ls[f.line])
      BY <1>3, InsideIs DEF InOrderOf
  <2>2. l \in LineSet
      BY <1>1, <2>1, CutLine
  <2>3. R[1] = l
    <3>1. 1 \in 1 .. r
        BY <1>1
    <3> QED BY <1>3, <3>1 DEF Between
  <2>4. Slice(b, f, t) = l
      BY <1>3 DEF Slice
  <2> HIDE DEF l
  <2>5. <<l>> \in Lines /\ Len(<<l>>) = 1 /\ <<l>>[1] = l
      BY <2>2, LinesAreTexts
  <2>6. R = <<l>>
    <3>1. r = 1
        BY <1>1, <1>3
    <3> DEFINE o == <<l>>
    <3>2. o \in Lines /\ Len(o) = 1 /\ o[1] = l
        BY <2>5
    <3> HIDE DEF o, R
    <3>3. \A i \in 1 .. 1 : R[i] = o[i]
        BY <2>3, <3>2
    <3>4. R = o
        BY <1>2, <3>1, <3>2, <3>3, SameLines
    <3> QED BY <3>4 DEF o
  <2> QED BY <2>2, <2>4, <2>6, SplitLine, LinesAreTexts
<1>4. CASE f.line # t.line
  <2> DEFINE h == LineFrom(ls, f)
             m == SubSeq(ls, f.line + 1, t.line - 1)
             e == LineTo(ls, t)
             hm == <<h>> \o m
             q == hm \o <<e>>
  <2>1. h \in LineSet /\ e \in LineSet /\ <<h>> \in Seq(LineSet) /\ <<e>> \in Seq(LineSet)
        /\ Len(<<h>>) = 1 /\ Len(<<e>>) = 1
      BY InsideIs
  <2>2. m \in Seq(LineSet) /\ Len(m) = r - 2 /\ \A i \in 1 .. r - 2 : m[i] = ls[f.line + i]
    <3>1. \A i \in f.line + 1 .. t.line - 1 : ls[i] \in LineSet
        BY <1>1, LinesAre
    <3>2. /\ m \in Seq(LineSet)
          /\ Len(m) = IF f.line + 1 <= t.line - 1 THEN t.line - 1 - (f.line + 1) + 1 ELSE 0
          /\ \A i \in 1 .. t.line - 1 - (f.line + 1) + 1 : m[i] = ls[f.line + 1 + i - 1]
      <4>1. f.line + 1 \in Int /\ t.line - 1 \in Int
          BY <1>1
      <4> QED BY <3>1, <4>1, SubSeqProperties
    <3> HIDE DEF m
    <3>3. Len(m) = r - 2
        BY <1>1, <1>4, <3>2
    <3>4. ASSUME NEW i \in 1 .. r - 2 PROVE m[i] = ls[f.line + i]
      <4>1. i \in 1 .. t.line - 1 - (f.line + 1) + 1 /\ f.line + 1 + i - 1 = f.line + i
          BY <1>1, SMTT(30)
      <4> QED BY <3>2, <4>1
    <3> QED BY <3>2, <3>3, <3>4
  <2>3. Slice(b, f, t) = Joined(q)
      BY <1>4 DEF Slice, Head_, Tail_, LineTo, LineFrom, LineLen
  <2> DEFINE H == <<h>>
             E == <<e>>
  <2>4. H \in Seq(LineSet) /\ Len(H) = 1 /\ H[1] = h /\ E \in Seq(LineSet) /\ Len(E) = 1 /\ E[1] = e
        /\ hm = H \o m
      BY <2>1
  <2>5. q = hm \o E
      OBVIOUS
  <2>6. /\ R[1] = h /\ R[r] = e /\ \A j \in 1 .. r : j # 1 /\ j # r => R[j] = ls[f.line + j - 1]
    <3>1. 1 \in 1 .. r /\ r \in 1 .. r /\ r # 1
        BY <1>1, <1>4
    <3> QED BY <1>4, <3>1 DEF Between
  <2> HIDE DEF h, m, e, H, E
  <2>7. /\ hm \in Seq(LineSet) /\ Len(hm) = Len(H) + Len(m)
        /\ \A i \in 1 .. Len(H) + Len(m) : hm[i] = IF i <= Len(H) THEN H[i] ELSE m[i - Len(H)]
      BY <2>2, <2>4, ConcatProperties
  <2> HIDE DEF hm
  <2>8. /\ q \in Seq(LineSet) /\ Len(q) = Len(hm) + Len(E)
        /\ \A i \in 1 .. Len(hm) + Len(E) : q[i] = IF i <= Len(hm) THEN hm[i] ELSE E[i - Len(hm)]
      BY <2>4, <2>5, <2>7, ConcatProperties
  <2> HIDE DEF q, R, r
  <2>9. r >= 2
      BY <1>1, <1>4 DEF r
  <2>10. Len(hm) = r - 1 /\ Len(q) = r
      BY <1>1, <2>2, <2>4, <2>7, <2>8
  <2>11. ASSUME NEW j \in 1 .. r PROVE q[j] = R[j]
    <3>1. CASE j = r
      <4>1. ~(r <= r - 1) /\ r - (r - 1) = 1 /\ r \in 1 .. (r - 1) + 1
          BY <1>1
      <4>2. q[r] = E[1]
          BY <2>4, <2>8, <2>10, <4>1
      <4> QED BY <2>4, <2>6, <3>1, <4>2
    <3>2. CASE j = 1
      <4>1. 1 <= r - 1 /\ 1 \in 1 .. (r - 1) + 1 /\ 1 <= 1 /\ 1 \in 1 .. 1 + (r - 2)
          BY <2>9, <1>1
      <4>2. q[1] = hm[1] /\ hm[1] = H[1]
          BY <2>2, <2>4, <2>7, <2>8, <2>10, <4>1
      <4> QED BY <2>4, <2>6, <3>2, <4>2
    <3>3. CASE j # 1 /\ j # r
      <4>1. j <= r - 1 /\ j \in 1 .. (r - 1) + 1 /\ ~(j <= 1) /\ j \in 1 .. 1 + (r - 2)
            /\ j - 1 \in 1 .. r - 2 /\ f.line + (j - 1) = f.line + j - 1
          BY <1>1, <2>9, <3>3
      <4>2. q[j] = hm[j] /\ hm[j] = m[j - 1]
          BY <2>2, <2>4, <2>7, <2>8, <2>10, <4>1
      <4>3. m[j - 1] = ls[f.line + (j - 1)]
          BY <2>2, <4>1
      <4> QED BY <2>6, <3>3, <4>1, <4>2, <4>3
    <3> QED BY <3>1, <3>2, <3>3
  <2>12. q \in Lines
      BY <2>8, <2>9, <2>10 DEF Lines
  <2>13. q = R
      BY <1>2, <2>10, <2>11, <2>12, SameLines
  <2> QED BY <2>3, <2>12, <2>13, SplitJoined DEF R
<1> QED BY <1>3, <1>4

IsPutEnds(es, f, t, k, keep, most, p) ==
    LET n == f.line - 1 + k + (Len(es) - t.line)
    IN  /\ n \in Nat /\ n >= f.line + k - 1 /\ p \in Seq(LineSet) /\ Len(p) = n
        /\ \A i \in 1 .. n :
             /\ i < f.line => p[i] = es[i]
             /\ i >= f.line + k - 1 => /\ i - (f.line + k - 1) + t.line \in 1 .. Len(es)
                                      /\ p[i] = es[i - (f.line + k - 1) + t.line]
             /\ f.line <= i /\ i < f.line + k - 1 =>
                  p[i] = IF i - f.line + 1 <= Len(keep) THEN keep[i - f.line + 1] ELSE most

LEMMA PutEndsIs ==
    ASSUME NEW es \in Seq(LineSet), NEW f \in Place, NEW t \in Place, f.line <= t.line,
           t.line <= Len(es), NEW k \in Nat, k > 0, NEW keep \in Seq(LineSet), NEW most \in LineSet
    PROVE  IsPutEnds(es, f, t, k, keep, most, PutEnds(es, f, t, k, keep, most))
<1> DEFINE n == NewLines(es, f, t, k)
           p == PutEnds(es, f, t, k, keep, most)
           e(i) == IF i - f.line + 1 <= Len(keep) THEN keep[i - f.line + 1] ELSE most
<1>1. f.line \in Nat /\ f.line > 0 /\ t.line \in Nat /\ Len(es) \in Nat /\ Len(keep) \in Nat
    BY LenProperties DEF Place
<1>2. n \in Nat /\ n >= f.line + k - 1 /\ n = f.line - 1 + k + (Len(es) - t.line)
    BY <1>1 DEF NewLines
<1>3. ASSUME NEW i \in 1 .. n
      PROVE  /\ i < f.line => es[i] \in LineSet
             /\ i >= f.line + k - 1 => /\ i - (f.line + k - 1) + t.line \in 1 .. Len(es)
                                   /\ es[i - (f.line + k - 1) + t.line] \in LineSet
             /\ f.line <= i /\ i < f.line + k - 1 => e(i) \in LineSet
  <2>1. i < f.line => es[i] \in LineSet
      BY <1>1, ElementOfSeq
  <2>2. i >= f.line + k - 1 => i - (f.line + k - 1) + t.line \in 1 .. Len(es)
    <3> HIDE DEF n, p, e
    <3> QED BY <1>1, <1>2, SMTT(30)
  <2>3. i >= f.line + k - 1 => es[i - (f.line + k - 1) + t.line] \in LineSet
      BY <2>2, ElementOfSeq
  <2>4. ASSUME f.line <= i PROVE e(i) \in LineSet
    <3>1. i - f.line + 1 <= Len(keep) => i - f.line + 1 \in 1 .. Len(keep)
        BY <1>1, <2>4
    <3> QED BY <3>1, ElementOfSeq
  <2> QED BY <2>1, <2>2, <2>3, <2>4
<1>5. p = [i \in 1 .. n |-> IF i < f.line THEN es[i]
                            ELSE IF i >= f.line + k - 1 THEN es[i - (f.line + k - 1) + t.line] ELSE e(i)]
    BY DEF PutEnds
<1> HIDE DEF e, p, n
<1>6. \A i \in 1 .. n : p[i] = IF i < f.line THEN es[i]
                            ELSE IF i >= f.line + k - 1 THEN es[i - (f.line + k - 1) + t.line] ELSE e(i)
    BY <1>5
<1>7. ASSUME NEW i \in 1 .. n
      PROVE  /\ p[i] \in LineSet
             /\ i < f.line => p[i] = es[i]
             /\ i >= f.line + k - 1 => p[i] = es[i - (f.line + k - 1) + t.line]
             /\ f.line <= i /\ i < f.line + k - 1 => p[i] = e(i)
  <2>1. \/ i < f.line /\ ~(i >= f.line + k - 1) /\ ~(f.line <= i)
        \/ i >= f.line + k - 1 /\ ~(i < f.line) /\ ~(i < f.line + k - 1)
        \/ f.line <= i /\ i < f.line + k - 1 /\ ~(i < f.line) /\ ~(i >= f.line + k - 1)
      BY <1>1, <1>2
  <2> QED BY <1>3, <1>6, <2>1, Zenon
<1>8. p \in Seq(LineSet) /\ Len(p) = n
  <2>1. p = [i \in 1 .. n |-> p[i]]
      BY <1>5
  <2>2. p \in [1 .. n -> LineSet]
      BY <1>7, <2>1
  <2> QED BY <1>2, <2>2, ListOf
<1> QED BY <1>1, <1>2, <1>3, <1>7, <1>8 DEF IsPutEnds, n, p, e, NewLines

LEMMA ClampIs ==
    ASSUME NEW b, b.lines \in Lines, NEW c, Inside(b.lines, c)
    PROVE  Clamp(b, c) = c
<1>1. c.line <= Len(b.lines) /\ c.col <= Len(b.lines[c.line]) /\ c.line \in Nat /\ c.col \in Nat
      /\ Len(b.lines) \in Nat /\ Len(b.lines[c.line]) \in Nat
    BY InsideIs, LinesAre DEF Inside
<1>2. Cursor(c.line, c.col) = c
    BY DEF Inside, Place, Cursor
<1> QED BY <1>1, <1>2 DEF Clamp, LineLen

DocOf(b) == [lines |-> b.lines, eols |-> b.eols]

Replaced(d, f, t, text, keep, most) ==
    [lines |-> PutBetween(d.lines, f, t, Split(text)),
     eols |-> PutEnds(d.eols, f, t, Len(Split(text)), keep, most)]

Turned(b, d) == [b EXCEPT !.lines = d.lines, !.eols = d.eols]

\* What a replacement does to the lines and their endings.
LEMMA ReplaceIs ==
    ASSUME NEW b, b.lines \in Lines, b.eols \in Seq(LineSet), Len(b.eols) = Len(b.lines),
           b.dominant \in LineSet, NEW f, NEW t, Inside(b.lines, f), Inside(b.lines, t),
           InOrderOf(f, t), NEW text \in Texts, NEW keep \in Seq(LineSet)
    PROVE  Replace(b, f, t, text, keep)
             = Turned(b, Replaced(DocOf(b), f, t, text, keep, b.dominant))
<1> DEFINE ls == b.lines
           es == b.eols
           T == Split(text)
           k == Len(T)
           h == LineTo(ls, f)
           e == LineFrom(ls, t)
           new == Split(h \o text \o e)
           ends == [i \in 1 .. Len(new) |-> IF i = Len(new) THEN es[t.line]
                      ELSE IF i <= Len(keep) THEN keep[i] ELSE b.dominant]
           n == NewLines(ls, f, t, k)
<1>1. /\ f.line \in 1 .. Len(ls) /\ t.line \in 1 .. Len(ls) /\ f.line <= t.line /\ Len(ls) \in Nat
      /\ f.line \in Nat /\ t.line \in Nat /\ f.col \in Nat /\ t.col \in Nat
      /\ f \in Place /\ t \in Place
    BY InsideIs, LinesAre DEF InOrderOf, Inside
<1>2. Clamp(b, Earlier(f, t)) = f /\ Clamp(b, Later(f, t)) = t
  <2>1. Earlier(f, t) = f /\ Later(f, t) = t
      BY <1>1 DEF Earlier, Later, Before, InOrderOf
  <2> QED BY <2>1, ClampIs
<1>3. Replace(b, f, t, text, keep)
        = [b EXCEPT !.lines = Splice(ls, f.line, t.line, new), !.eols = Splice(es, f.line, t.line, ends)]
    BY <1>2 DEF Replace, Head_, Tail_, LineLen, LineTo, LineFrom
<1>4. T \in Lines /\ k \in Nat /\ k > 0
    BY SplitIs, LinesAre
<1>5. h \in LineSet /\ e \in LineSet
    BY InsideIs
<1> HIDE DEF h, e
<1>6. /\ new \in Lines /\ Len(new) = k
      /\ \A j \in 1 .. k : new[j] = (IF j = 1 THEN h ELSE <<>>) \o T[j] \o (IF j = k THEN e ELSE <<>>)
  <2>1. h \in LineSet /\ e \in LineSet /\ text \in Texts
      BY <1>5
  <2>2. LET kk == Len(Split(text))
            nn == Split(h \o text \o e)
        IN  /\ nn \in Lines /\ Len(nn) = kk
            /\ \A j \in 1 .. kk : nn[j] = (IF j = 1 THEN h ELSE <<>>) \o Split(text)[j]
                                           \o (IF j = kk THEN e ELSE <<>>)
      BY ONLY <2>1, SplitAround, ZenonT(30)
  <2> QED BY <2>2, Zenon
<1>7. n \in Nat /\ n = f.line - 1 + k + (Len(ls) - t.line)
    BY <1>1, <1>4 DEF NewLines
<1> HIDE DEF T, k, n, new
<1>8. Splice(ls, f.line, t.line, new) = PutBetween(ls, f, t, T)
  <2> DEFINE s == Splice(ls, f.line, t.line, new)
             p == PutBetween(ls, f, t, T)
  <2>1. /\ s \in Seq(LineSet) /\ Len(s) = n
        /\ \A i \in 1 .. n :
             /\ i < f.line => s[i] = ls[i]
             /\ f.line <= i /\ i < f.line + k => s[i] = new[i - f.line + 1]
             /\ i >= f.line + k => s[i] = ls[i - (f.line + k - 1) + t.line]
    <3>1. 1 <= f.line /\ t.line <= Len(ls) /\ ls \in Seq(LineSet) /\ new \in Seq(LineSet)
        BY <1>1, <1>6, LinesAre
    <3>2. IsSplice(LineSet, ls, f.line, t.line, new, Len(new), s)
        BY <1>1, <3>1, SpliceIs
    <3> HIDE DEF s
    <3> QED BY <1>6, <1>7, <3>2 DEF IsSplice
  <2>2. /\ n = NewLines(ls, f, t, Len(T)) /\ p \in Lines /\ Len(p) = n
        /\ \A i \in 1 .. n :
             /\ i < f.line => p[i] = ls[i]
             /\ i >= f.line + k => p[i] = ls[i - (f.line + k - 1) + t.line]
             /\ f.line <= i /\ i < f.line + k =>
                  p[i] = (IF i = f.line THEN h ELSE <<>>) \o T[i - f.line + 1]
                         \o (IF i = f.line + k - 1 THEN e ELSE <<>>)
    <3>1. IsPut(ls, f, t, T, Len(T), p)
        BY <1>4, PutIs
    <3> HIDE DEF p
    <3>2. IsPut(ls, f, t, T, k, p)
        BY <3>1 DEF k
    <3>3. n = NewLines(ls, f, t, Len(T))
        BY DEF n, k
    <3> QED BY <1>7, <3>2, <3>3 DEF IsPut, h, e
  <2> HIDE DEF s, p
  <2>3. ASSUME NEW i \in 1 .. n PROVE s[i] = p[i]
    <3>1. CASE i < f.line
        BY <2>1, <2>2, <3>1
    <3>2. CASE i >= f.line + k
        BY <2>1, <2>2, <3>2
    <3>3. CASE f.line <= i /\ i < f.line + k
      <4>1. i - f.line + 1 \in 1 .. k /\ (i - f.line + 1 = 1 <=> i = f.line)
            /\ (i - f.line + 1 = k <=> i = f.line + k - 1)
        <5>1. i \in Int /\ f.line \in Int /\ k \in Int /\ f.line <= i /\ i < f.line + k
            BY <1>1, <1>4, <1>7, <3>3
        <5>2. i - f.line + 1 \in 1 .. k
            BY <5>1
        <5>3. i - f.line + 1 = 1 <=> i = f.line
            BY <5>1
        <5>4. i - f.line + 1 = k <=> i = f.line + k - 1
            BY <5>1
        <5> QED BY <5>2, <5>3, <5>4
      <4>2. s[i] = new[i - f.line + 1]
          BY <2>1, <3>3
      <4>3. new[i - f.line + 1] = (IF i - f.line + 1 = 1 THEN h ELSE <<>>) \o T[i - f.line + 1]
                                  \o (IF i - f.line + 1 = k THEN e ELSE <<>>)
          BY <1>6, <4>1
      <4>4. p[i] = (IF i = f.line THEN h ELSE <<>>) \o T[i - f.line + 1]
                   \o (IF i = f.line + k - 1 THEN e ELSE <<>>)
          BY <2>2, <3>3
      <4>5. /\ (IF i - f.line + 1 = 1 THEN h ELSE <<>>) = (IF i = f.line THEN h ELSE <<>>)
            /\ (IF i - f.line + 1 = k THEN e ELSE <<>>) = (IF i = f.line + k - 1 THEN e ELSE <<>>)
          BY <4>1
      <4> QED BY <4>2, <4>3, <4>4, <4>5, Zenon
    <3> QED BY <1>1, <1>4, <3>1, <3>2, <3>3
  <2>4. s = p
      BY <2>1, <2>2, <2>3, SeqEqual DEF Lines
  <2> QED BY <2>4 DEF s, p
<1>9. Splice(es, f.line, t.line, ends) = PutEnds(es, f, t, k, keep, b.dominant)
  <2> DEFINE s == Splice(es, f.line, t.line, ends)
             p == PutEnds(es, f, t, k, keep, b.dominant)
  <2>1. ends \in Seq(LineSet) /\ Len(ends) = k
    <3>1. es[t.line] \in LineSet
        BY <1>1, ElementOfSeq
    <3>2. \A i \in 1 .. k : i <= Len(keep) => keep[i] \in LineSet
      <4>1. Len(keep) \in Nat
          BY LenProperties
      <4> QED BY <1>4, <4>1, ElementOfSeq
    <3>3. ends \in [1 .. k -> LineSet]
        BY <1>6, <3>1, <3>2
    <3> HIDE DEF ends
    <3> QED BY <1>4, <3>3, ListOf
  <2>2. \A i \in 1 .. k : ends[i] = IF i = k THEN es[t.line]
                                    ELSE IF i <= Len(keep) THEN keep[i] ELSE b.dominant
      BY <1>6
  <2> HIDE DEF ends
  <2>3. /\ s \in Seq(LineSet) /\ Len(s) = n
        /\ \A i \in 1 .. n :
             /\ i < f.line => s[i] = es[i]
             /\ f.line <= i /\ i < f.line + k => s[i] = ends[i - f.line + 1]
             /\ i >= f.line + k => s[i] = es[i - (f.line + k - 1) + t.line]
    <3>1. 1 <= f.line /\ t.line <= Len(es)
        BY <1>1
    <3>2. IsSplice(LineSet, es, f.line, t.line, ends, Len(ends), s)
        BY <1>1, <2>1, <3>1, SpliceIs
    <3> HIDE DEF s
    <3> QED BY <1>1, <1>7, <2>1, <3>2 DEF IsSplice
  <2>4. /\ n = NewLines(es, f, t, k) /\ p \in Seq(LineSet) /\ Len(p) = n
        /\ \A i \in 1 .. n :
             /\ i < f.line => p[i] = es[i]
             /\ i >= f.line + k - 1 => p[i] = es[i - (f.line + k - 1) + t.line]
             /\ f.line <= i /\ i < f.line + k - 1 =>
                  p[i] = IF i - f.line + 1 <= Len(keep) THEN keep[i - f.line + 1] ELSE b.dominant
    <3>1. n = NewLines(es, f, t, k)
        BY <1>7 DEF NewLines
    <3>2. IsPutEnds(es, f, t, k, keep, b.dominant, p)
      <4>1. t.line <= Len(es) /\ es \in Seq(LineSet) /\ b.dominant \in LineSet
          BY <1>1
      <4> HIDE DEF ls, es
      <4> QED BY <1>1, <1>4, <4>1, PutEndsIs
    <3> HIDE DEF p
    <3> QED BY <1>1, <1>7, <3>1, <3>2 DEF IsPutEnds
  <2> HIDE DEF s, p
  <2>5. ASSUME NEW i \in 1 .. n PROVE s[i] = p[i]
    <3>1. CASE i < f.line
        BY <2>3, <2>4, <3>1
    <3>2. CASE i >= f.line + k
      <4>1. i >= f.line + k - 1
          BY <1>1, <1>4, <3>2
      <4> QED BY <2>3, <2>4, <3>2, <4>1
    <3>3. CASE f.line <= i /\ i < f.line + k
      <4>1. i - f.line + 1 \in 1 .. k /\ (i - f.line + 1 = k <=> i = f.line + k - 1)
          BY <1>1, <1>4, <3>3, SMTT(30)
      <4>2. s[i] = ends[i - f.line + 1]
          BY <2>3, <3>3
      <4>3. ends[i - f.line + 1] = IF i - f.line + 1 = k THEN es[t.line]
                 ELSE IF i - f.line + 1 <= Len(keep) THEN keep[i - f.line + 1] ELSE b.dominant
          BY <2>2, <4>1
      <4>4. CASE i = f.line + k - 1
        <5>1. i >= f.line + k - 1 /\ i - (f.line + k - 1) + t.line = t.line
            BY <1>1, <1>4, <4>4
        <5>2. p[i] = es[t.line]
            BY <2>4, <5>1
        <5> QED BY <4>1, <4>2, <4>3, <4>4, <5>2
      <4>5. CASE i # f.line + k - 1
        <5>1. i < f.line + k - 1
            BY <1>1, <1>4, <3>3, <4>5
        <5>2. p[i] = IF i - f.line + 1 <= Len(keep) THEN keep[i - f.line + 1] ELSE b.dominant
            BY <2>4, <3>3, <5>1
        <5> QED BY <4>1, <4>2, <4>3, <4>5, <5>2, Zenon
      <4> QED BY <4>4, <4>5
    <3> QED BY <1>1, <1>4, <3>1, <3>2, <3>3
  <2>6. s = p
      BY <2>3, <2>4, <2>5, SeqEqual
  <2> QED BY <2>6 DEF s, p
<1> QED BY <1>3, <1>8, <1>9 DEF T, k, Turned, Replaced, DocOf

LEMMA ThreeLines ==
    ASSUME NEW a \in LineSet, NEW b \in LineSet, NEW c \in LineSet
    PROVE  /\ a \o b \o c \in LineSet /\ Len(a \o b \o c) = Len(a) + Len(b) + Len(c)
           /\ Len(a) \in Nat /\ Len(b) \in Nat /\ Len(c) \in Nat
           /\ a \o b \o c = a \o (b \o c)
           /\ <<>> \o a = a /\ a \o <<>> = a
<1>1. a \o b \in LineSet /\ Len(a \o b) = Len(a) + Len(b) /\ Len(a) \in Nat /\ Len(b) \in Nat
    BY CutConcat
<1>2. (a \o b) \o c \in LineSet /\ Len((a \o b) \o c) = Len(a \o b) + Len(c) /\ Len(c) \in Nat
    BY <1>1, CutConcat
<1>3. (a \o b) \o c = a \o (b \o c)
    BY ConcatAssociative DEF LineSet
<1>4. <<>> \o a = a /\ a \o <<>> = a
    BY ConcatEmptySeq DEF LineSet
<1> QED BY <1>1, <1>2, <1>3, <1>4

\* Lines put between two places: both ends of them, and what is around them.
IsAround(ls, f, t, new, k, p, e) ==
    /\ Inside(p, f) /\ Inside(p, e) /\ InOrderOf(f, e) /\ e.line = f.line + k - 1
    /\ LineTo(p, f) = LineTo(ls, f) /\ LineFrom(p, e) = LineFrom(ls, t)
    /\ LineTo(p, e) = (IF k = 1 THEN LineTo(ls, f) ELSE <<>>) \o new[k]

LEMMA PutAround ==
    ASSUME NEW ls \in Lines, NEW f, NEW t, Inside(ls, f), Inside(ls, t), InOrderOf(f, t),
           NEW new \in Lines
    PROVE  IsAround(ls, f, t, new, Len(new), PutBetween(ls, f, t, new), EndOf(f, new))
<1> DEFINE p == PutBetween(ls, f, t, new)
           e == EndOf(f, new)
           k == Len(new)
           h == LineTo(ls, f)
           d == LineFrom(ls, t)
           N == f.line - 1 + k + (Len(ls) - t.line)
<1>1. /\ f.line \in Nat /\ f.line > 0 /\ t.line \in Nat /\ f.line <= t.line /\ t.line <= Len(ls)
      /\ Len(ls) \in Nat /\ k \in Nat /\ k > 0 /\ f.col \in Nat /\ f \in Place
      /\ h \in LineSet /\ d \in LineSet /\ Len(h) = f.col /\ <<>> \in LineSet /\ Len(<<>>) = 0
  <2>1. /\ f.line \in Nat /\ f.line > 0 /\ t.line \in Nat /\ f.line <= t.line /\ t.line <= Len(ls)
        /\ Len(ls) \in Nat /\ k \in Nat /\ k > 0 /\ f.col \in Nat /\ f \in Place
      BY InsideIs, LinesAre DEF InOrderOf, Inside, Place
  <2>2. h \in LineSet /\ d \in LineSet /\ Len(h) = f.col
      BY InsideIs
  <2> QED BY <2>1, <2>2, EmptyLine
<1>2. IsPut(ls, f, t, new, k, p)
    BY PutIs
<1> HIDE DEF p, h, d
<1>3. /\ N \in Nat /\ N >= f.line + k - 1 /\ p \in Lines /\ Len(p) = N
      /\ \A i \in 1 .. N : f.line <= i /\ i < f.line + k =>
             p[i] = (IF i = f.line THEN h ELSE <<>>) \o new[i - f.line + 1]
                    \o (IF i = f.line + k - 1 THEN d ELSE <<>>)
    BY <1>2 DEF IsPut, h, d
<1> HIDE DEF k, N
<1>4. new[1] \in LineSet /\ new[k] \in LineSet
  <2>1. 1 \in 1 .. k /\ k \in 1 .. k
      BY <1>1
  <2> QED BY <2>1, LinesAre DEF k
<1>5. Len(new[k]) \in Nat
    BY <1>4, LenProperties DEF LineSet
<1>6. /\ e.line = f.line + k - 1 /\ e.col = (IF k = 1 THEN f.col ELSE 0) + Len(new[k])
      /\ e.line \in Nat /\ e.line > 0 /\ e.col \in Nat /\ e \in Place /\ e.line <= N /\ f.line <= N
  <2>1. e.line = f.line + k - 1 /\ e.col = (IF k = 1 THEN f.col ELSE 0) + Len(new[k])
      BY DEF EndOf, Cursor, k
  <2>2. e = [line |-> e.line, col |-> e.col]
      BY DEF EndOf, Cursor
  <2> HIDE DEF e
  <2>3. e.line \in Nat /\ e.line > 0 /\ e.col \in Nat /\ e.line <= N /\ f.line <= N
      BY <1>1, <1>3, <1>5, <2>1
  <2>4. e \in Place
      BY <2>2, <2>3 DEF Place
  <2> QED BY <2>1, <2>3, <2>4
<1> HIDE DEF e
<1> DEFINE a1 == IF k = 1 THEN d ELSE <<>>
           a2 == IF k = 1 THEN h ELSE <<>>
<1>7. a1 \in LineSet /\ a2 \in LineSet
    BY <1>1
<1>8. p[f.line] = h \o new[1] \o a1
  <2>1. f.line \in 1 .. N /\ f.line <= f.line /\ f.line < f.line + k /\ f.line - f.line + 1 = 1
      BY <1>1, <1>6
  <2>2. p[f.line] = (IF f.line = f.line THEN h ELSE <<>>) \o new[f.line - f.line + 1]
                    \o (IF f.line = f.line + k - 1 THEN d ELSE <<>>)
      BY <1>3, <2>1
  <2>3. (f.line = f.line + k - 1) <=> (k = 1)
      BY <1>1
  <2>4. (IF f.line = f.line + k - 1 THEN d ELSE <<>>) = a1
      BY <2>3
  <2> QED BY <2>1, <2>2, <2>4
<1>9. p[e.line] = a2 \o new[k] \o d
  <2>1. e.line \in 1 .. N /\ f.line <= e.line /\ e.line < f.line + k /\ e.line - f.line + 1 = k
        /\ e.line = f.line + k - 1
      BY <1>1, <1>6
  <2>2. p[e.line] = (IF e.line = f.line THEN h ELSE <<>>) \o new[e.line - f.line + 1]
                    \o (IF e.line = f.line + k - 1 THEN d ELSE <<>>)
      BY <1>3, <2>1
  <2>3. (e.line = f.line) <=> (k = 1)
      BY <1>1, <1>6
  <2>4. (IF e.line = f.line THEN h ELSE <<>>) = a2
      BY <2>3
  <2> QED BY <2>1, <2>2, <2>4
<1> HIDE DEF a1
<1>10. Len(a2) = IF k = 1 THEN f.col ELSE 0
    BY <1>1
<1> HIDE DEF a2
<1>11. /\ h \o new[1] \o a1 = h \o (new[1] \o a1)
       /\ new[1] \o a1 \in LineSet /\ Len(new[1] \o a1) \in Nat
       /\ Len(h \o (new[1] \o a1)) = Len(h) + Len(new[1] \o a1)
  <2>1. h \o new[1] \o a1 = h \o (new[1] \o a1)
    <3> DEFINE w == new[1]
    <3>1. h \in Seq(Byte) /\ w \in Seq(Byte) /\ a1 \in Seq(Byte)
        BY <1>1, <1>4, <1>7 DEF LineSet
    <3> HIDE DEF w
    <3>2. (h \o w) \o a1 = h \o (w \o a1)
        BY <3>1, ConcatAssociative
    <3> QED BY <3>2 DEF w
  <2>2. new[1] \o a1 \in LineSet
      BY <1>4, <1>7, CutConcat
  <2> QED BY <1>1, <2>1, <2>2, CutConcat
<1>12. /\ a2 \o new[k] \in LineSet /\ Len(a2 \o new[k]) = Len(a2) + Len(new[k]) /\ Len(d) \in Nat
       /\ Len((a2 \o new[k]) \o d) = Len(a2 \o new[k]) + Len(d)
  <2>1. a2 \o new[k] \in LineSet /\ Len(a2 \o new[k]) = Len(a2) + Len(new[k])
      BY <1>4, <1>7, CutConcat
  <2> QED BY <1>1, <2>1, CutConcat
<1>13. e.col = Len(a2 \o new[k])
    BY <1>6, <1>10, <1>12
<1>14. Inside(p, f)
  <2>1. f.col <= Len(p[f.line])
      BY <1>1, <1>8, <1>11
  <2> QED BY <1>1, <1>3, <1>6, <2>1 DEF Inside
<1>15. Inside(p, e)
  <2>1. e.col <= Len(p[e.line])
      BY <1>6, <1>9, <1>12, <1>13
  <2> QED BY <1>3, <1>6, <2>1 DEF Inside
<1>16. InOrderOf(f, e)
    BY <1>1, <1>5, <1>6 DEF InOrderOf
<1>17. LineTo(p, f) = h
  <2>1. SubSeq(h \o (new[1] \o a1), 1, Len(h)) = h
      BY <1>1, <1>11, CutConcat
  <2> QED BY <1>1, <1>8, <1>11, <2>1 DEF LineTo
<1> DEFINE u == a2 \o new[k]
<1>18. LineTo(p, e) = u /\ LineFrom(p, e) = d
  <2>1. SubSeq(u \o d, 1, Len(u)) = u /\ SubSeq(u \o d, Len(u) + 1, Len(u \o d)) = d
      BY <1>1, <1>12, CutConcat
  <2> QED BY <1>9, <1>13, <2>1 DEF LineTo, LineFrom
<1> QED BY <1>6, <1>14, <1>15, <1>16, <1>17, <1>18 DEF IsAround, p, e, k, h, d, a2

\* Putting back what was between two places undoes a replacement.
LEMMA PutBack ==
    ASSUME NEW ls \in Lines, NEW f, NEW t, Inside(ls, f), Inside(ls, t), InOrderOf(f, t),
           NEW new \in Lines
    PROVE  PutBetween(PutBetween(ls, f, t, new), f, EndOf(f, new), Between(ls, f, t)) = ls
<1> DEFINE p == PutBetween(ls, f, t, new)
           e == EndOf(f, new)
           R == Between(ls, f, t)
           q == PutBetween(p, f, e, R)
           k == Len(new)
           r == t.line - f.line + 1
           N == f.line - 1 + k + (Len(ls) - t.line)
           M == f.line - 1 + r + (Len(p) - e.line)
           h == LineTo(ls, f)
           d == LineFrom(ls, t)
<1>1. /\ f.line \in Nat /\ f.line > 0 /\ t.line \in Nat /\ f.line <= t.line /\ t.line <= Len(ls)
      /\ Len(ls) \in Nat /\ k \in Nat /\ k > 0 /\ f.col \in Nat /\ t.col \in Nat
  <2>1. f \in Place /\ t \in Place /\ t.line <= Len(ls)
      BY DEF Inside
  <2> QED BY <2>1, InsideIs, LinesAre DEF InOrderOf, Place
<1>2. h \in LineSet /\ d \in LineSet /\ h \o LineFrom(ls, f) = ls[f.line]
      /\ LineTo(ls, t) \o d = ls[t.line] /\ LineTo(ls, t) \in LineSet /\ LineFrom(ls, f) \in LineSet
    BY InsideIs
<1>3. R \in Lines /\ Len(R) = r
    BY BetweenIs
<1>4. /\ Inside(p, f) /\ Inside(p, e) /\ InOrderOf(f, e)
      /\ e.line = f.line + k - 1 /\ LineTo(p, f) = h /\ LineFrom(p, e) = d
  <2>1. IsAround(ls, f, t, new, k, p, e)
      BY PutAround
  <2> HIDE DEF p, e, k, h, d
  <2> QED BY <2>1 DEF IsAround, h, d
<1>5. IsPut(ls, f, t, new, k, p)
    BY PutIs
<1>6. p \in Lines
  <2> HIDE DEF p
  <2> QED BY <1>5 DEF IsPut
<1>7. IsPut(p, f, e, R, r, q)
  <2> HIDE DEF p, e, R
  <2>1. IsPut(p, f, e, R, Len(R), q)
      BY <1>3, <1>4, <1>6, PutIs
  <2> HIDE DEF q
  <2> QED BY <1>3, <2>1
<1>8. \A j \in 1 .. r : R[j] = IF f.line = t.line THEN SubSeq(ls[f.line], f.col + 1, t.col)
                               ELSE IF j = 1 THEN LineFrom(ls, f)
                               ELSE IF j = r THEN LineTo(ls, t)
                               ELSE ls[f.line + j - 1]
    BY DEF Between
<1> HIDE DEF p, e, R, q, h, d, k
<1>9. /\ N \in Nat /\ N >= f.line + k - 1 /\ Len(p) = N
      /\ \A i \in 1 .. N :
             /\ i < f.line => p[i] = ls[i]
             /\ i >= f.line + k => p[i] = ls[i - (f.line + k - 1) + t.line]
    BY <1>5 DEF IsPut
<1>10. /\ q \in Lines /\ Len(q) = M
       /\ \A i \in 1 .. M :
             /\ i < f.line => q[i] = p[i]
             /\ i >= f.line + r => q[i] = p[i - (f.line + r - 1) + e.line]
             /\ f.line <= i /\ i < f.line + r =>
                  q[i] = (IF i = f.line THEN h ELSE <<>>) \o R[i - f.line + 1]
                         \o (IF i = f.line + r - 1 THEN d ELSE <<>>)
    BY <1>4, <1>7 DEF IsPut
<1>11. /\ M = Len(ls) /\ Len(p) = f.line - 1 + k + (Len(ls) - t.line)
       /\ e.line = f.line + k - 1
  <2>1. Len(p) = f.line - 1 + k + (Len(ls) - t.line) /\ e.line = f.line + k - 1
      BY <1>4, <1>9
  <2>2. Len(p) - e.line = Len(ls) - t.line
    <3>1. (f.line - 1 + k + (Len(ls) - t.line)) - (f.line + k - 1) = Len(ls) - t.line
        BY <1>1
    <3> QED BY <2>1, <3>1
  <2>3. f.line - 1 + r + (Len(ls) - t.line) = Len(ls)
      BY <1>1
  <2>4. M = f.line - 1 + r + (Len(ls) - t.line)
      BY <2>2
  <2> QED BY <2>1, <2>3, <2>4
<1>12. ASSUME NEW i \in 1 .. Len(ls) PROVE q[i] = ls[i]
  <2>1. ls[i] \in LineSet /\ i \in 1 .. M /\ <<>> \in LineSet
      BY <1>11, LinesAre, EmptyLine
  <2>2. CASE i < f.line
    <3>1. i \in 1 .. N
        BY <1>1, <1>9, <2>2
    <3> HIDE DEF N, M
    <3> QED BY <1>9, <1>10, <2>1, <2>2, <3>1
  <2>3. CASE i > t.line
    <3> DEFINE j == i - (f.line + r - 1) + e.line
    <3>1. i >= f.line + r /\ j \in 1 .. N /\ j >= f.line + k /\ j - (f.line + k - 1) + t.line = i
      <4>1. f.line + r - 1 = t.line
          BY <1>1
      <4>2. j = i - t.line + (f.line + k - 1)
          BY <1>1, <1>11
      <4> HIDE DEF r, j, M
      <4>3. i \in Nat /\ i <= Len(ls)
          BY <1>1
      <4>4. i >= f.line + r
        <5>1. f.line + r = t.line + 1
            BY <1>1 DEF r
        <5> QED BY <1>1, <2>3, <4>3, <5>1
      <4>5. j \in 1 .. N /\ j >= f.line + k
          BY <1>1, <2>3, <4>2, <4>3, SMTT(30)
      <4>6. j - (f.line + k - 1) + t.line = i
          BY <1>1, <4>2, <4>3
      <4> QED BY <4>4, <4>5, <4>6
    <3> HIDE DEF N, M, r
    <3>2. q[i] = p[j]
        BY <1>10, <2>1, <3>1
    <3> HIDE DEF j
    <3>3. p[j] = ls[j - (f.line + k - 1) + t.line]
        BY <1>9, <3>1
    <3> QED BY <3>1, <3>2, <3>3
  <2>4. CASE f.line <= i /\ i <= t.line
    <3>1. i < f.line + r /\ f.line + r - 1 = t.line /\ i - f.line + 1 \in 1 .. r
          /\ f.line + (i - f.line + 1) - 1 = i /\ r \in Nat
        BY <1>1, <2>4
    <3> DEFINE j == i - f.line + 1
    <3>2. q[i] = (IF i = f.line THEN h ELSE <<>>) \o R[j] \o (IF i = t.line THEN d ELSE <<>>)
      <4> HIDE DEF N, M, r
      <4> QED BY <1>10, <2>1, <2>4, <3>1
    <3>3. j = 1 <=> i = f.line
        BY <1>1
    <3>4. j = r <=> i = t.line
        BY <1>1
    <3>5. R[j] = IF f.line = t.line THEN SubSeq(ls[f.line], f.col + 1, t.col)
                 ELSE IF i = f.line THEN LineFrom(ls, f)
                 ELSE IF i = t.line THEN LineTo(ls, t)
                 ELSE ls[i]
      <4> HIDE DEF r, j
      <4>1. f.line + j - 1 = i
          BY <3>1 DEF j
      <4>2. j \in 1 .. r
          BY <3>1 DEF j
      <4>3. R[j] = IF f.line = t.line THEN SubSeq(ls[f.line], f.col + 1, t.col)
                               ELSE IF j = 1 THEN LineFrom(ls, f)
                               ELSE IF j = r THEN LineTo(ls, t)
                               ELSE ls[f.line + j - 1]
          BY <1>8, <4>2
      <4> QED BY <3>3, <3>4, <4>1, <4>3
    <3> HIDE DEF j, r, N, M
    <3>6. CASE f.line = t.line
      <4> DEFINE l == ls[f.line]
                 m == SubSeq(l, f.col + 1, t.col)
      <4>1. i = f.line /\ i = t.line /\ f.col <= t.col
          BY <1>1, <2>4, <3>6 DEF InOrderOf
      <4>2. t.col <= Len(l)
          BY <3>6 DEF Inside
      <4>3. l \in LineSet /\ R[j] = m
          BY <2>1, <3>5, <3>6, <4>1
      <4>4. SubSeq(l, 1, f.col) \o m = SubSeq(l, 1, t.col)
            /\ SubSeq(l, 1, t.col) \o SubSeq(l, t.col + 1, Len(l)) = l
        <5>1. l \in LineSet /\ f.col \in Nat /\ t.col \in Nat /\ f.col <= t.col /\ t.col <= Len(l)
            BY <1>1, <4>1, <4>2, <4>3
        <5> HIDE DEF l
        <5>2. SubSeq(l, 1, f.col) \o SubSeq(l, f.col + 1, t.col) = SubSeq(l, 1, t.col)
            BY <5>1, CutLine
        <5>3. SubSeq(l, 1, t.col) \o SubSeq(l, t.col + 1, Len(l)) = l
            BY <5>1, CutLine
        <5> QED BY <5>2, <5>3
      <4>5. h = SubSeq(l, 1, f.col) /\ d = SubSeq(l, t.col + 1, Len(l))
          BY <3>6 DEF h, d, LineTo, LineFrom
      <4>6. q[i] = (h \o m) \o d
          BY <3>2, <4>1, <4>3
      <4> HIDE DEF m
      <4> QED BY <4>1, <4>4, <4>5, <4>6
    <3>7. CASE f.line # t.line /\ i = f.line
      <4>1. i # t.line /\ R[j] = LineFrom(ls, f)
          BY <3>5, <3>7
      <4>2. q[i] = (h \o LineFrom(ls, f)) \o <<>>
          BY <3>2, <3>7, <4>1
      <4>3. ls[i] \o <<>> = ls[i]
          BY <2>1, ThreeLines
      <4> QED BY <1>2, <3>7, <4>2, <4>3
    <3>8. CASE f.line # t.line /\ i = t.line
      <4>1. i # f.line /\ R[j] = LineTo(ls, t)
          BY <3>5, <3>8
      <4>2. q[i] = (<<>> \o LineTo(ls, t)) \o d
          BY <3>2, <3>8, <4>1
      <4>3. <<>> \o LineTo(ls, t) = LineTo(ls, t)
          BY <1>2, <2>1, ThreeLines
      <4> QED BY <1>2, <3>8, <4>2, <4>3
    <3>9. CASE i # f.line /\ i # t.line
      <4>1. f.line # t.line
          BY <1>1, <2>4, <3>9
      <4>2. R[j] = ls[i]
          BY <3>5, <3>9, <4>1
      <4>3. q[i] = (<<>> \o ls[i]) \o <<>>
          BY <3>2, <3>9, <4>2
      <4>4. <<>> \o ls[i] = ls[i] /\ ls[i] \o <<>> = ls[i]
          BY <2>1, ThreeLines
      <4> QED BY <4>3, <4>4
    <3> QED BY <3>6, <3>7, <3>8, <3>9
  <2> QED BY <1>1, <2>2, <2>3, <2>4
<1>13. q = ls
  <2> HIDE DEF M
  <2> QED BY <1>10, <1>11, <1>12, SameLines
<1> QED BY <1>13 DEF p, e, R, q

\* Putting the endings back with them.
LEMMA EndsBack ==
    ASSUME NEW es \in Seq(LineSet), NEW f \in Place, NEW t \in Place, f.line <= t.line,
           t.line <= Len(es), NEW k \in Nat, k > 0, NEW keep \in Seq(LineSet), NEW most \in LineSet,
           NEW e \in Place, e.line = f.line + k - 1
    PROVE  /\ SubSeq(es, f.line, t.line - 1) \in Seq(LineSet)
           /\ PutEnds(PutEnds(es, f, t, k, keep, most), f, e, t.line - f.line + 1,
                   SubSeq(es, f.line, t.line - 1), most) = es
<1> DEFINE p == PutEnds(es, f, t, k, keep, most)
           r == t.line - f.line + 1
           R == SubSeq(es, f.line, t.line - 1)
           q == PutEnds(p, f, e, r, R, most)
           N == f.line - 1 + k + (Len(es) - t.line)
           M == f.line - 1 + r + (Len(p) - e.line)
<1>1. /\ f.line \in Nat /\ f.line > 0 /\ t.line \in Nat /\ Len(es) \in Nat /\ e.line \in Nat
      /\ r \in Nat /\ r > 0 /\ f.line + r - 1 = t.line
    BY LenProperties DEF Place
<1>2. IsPutEnds(es, f, t, k, keep, most, p)
    BY PutEndsIs
<1>3. /\ R \in Seq(LineSet) /\ Len(R) = t.line - f.line
      /\ \A i \in 1 .. t.line - f.line : R[i] = es[f.line + i - 1]
  <2>1. \A i \in f.line .. t.line - 1 : es[i] \in LineSet
      BY <1>1, ElementOfSeq
  <2>2. /\ R \in Seq(LineSet)
        /\ Len(R) = IF f.line <= t.line - 1 THEN t.line - 1 - f.line + 1 ELSE 0
        /\ \A i \in 1 .. t.line - 1 - f.line + 1 : R[i] = es[f.line + i - 1]
    <3>1. f.line \in Int /\ t.line - 1 \in Int
        BY <1>1
    <3> QED BY <2>1, <3>1, SubSeqProperties
  <2> HIDE DEF R
  <2>3. t.line - 1 - f.line + 1 = t.line - f.line /\ f.line <= t.line
        /\ (~(f.line <= t.line - 1) => t.line - f.line = 0)
      BY <1>1
  <2>4. Len(R) = t.line - f.line
      BY <2>2, <2>3
  <2> QED BY <2>2, <2>3, <2>4
<1> HIDE DEF p, R, r
<1>4. /\ N \in Nat /\ N >= f.line + k - 1 /\ p \in Seq(LineSet) /\ Len(p) = N
      /\ \A i \in 1 .. N :
             /\ i < f.line => p[i] = es[i]
             /\ i >= f.line + k - 1 => p[i] = es[i - (f.line + k - 1) + t.line]
    BY <1>2 DEF IsPutEnds
<1>5. IsPutEnds(p, f, e, r, R, most, q)
  <2>1. f.line <= e.line /\ e.line <= Len(p)
      BY <1>1, <1>4
  <2> QED BY <1>1, <1>3, <1>4, <2>1, PutEndsIs
<1> HIDE DEF q
<1>6. /\ q \in Seq(LineSet) /\ Len(q) = M
      /\ \A i \in 1 .. M :
             /\ i < f.line => q[i] = p[i]
             /\ i >= f.line + r - 1 => q[i] = p[i - (f.line + r - 1) + e.line]
             /\ f.line <= i /\ i < f.line + r - 1 =>
                  q[i] = IF i - f.line + 1 <= Len(R) THEN R[i - f.line + 1] ELSE most
    BY <1>5 DEF IsPutEnds
<1>7. M = Len(es)
  <2>1. Len(p) - e.line = Len(es) - t.line
    <3>1. (f.line - 1 + k + (Len(es) - t.line)) - (f.line + k - 1) = Len(es) - t.line
        BY <1>1
    <3> QED BY <1>4, <3>1
  <2>2. f.line - 1 + r + (Len(es) - t.line) = Len(es)
    <3>1. f.line - 1 + r = t.line
        BY <1>1
    <3>2. t.line + (Len(es) - t.line) = Len(es)
        BY <1>1, SMTT(30)
    <3> QED BY <3>1, <3>2
  <2>3. M = f.line - 1 + r + (Len(es) - t.line)
      BY <2>1
  <2> QED BY <2>2, <2>3
<1>8. ASSUME NEW i \in 1 .. Len(es) PROVE q[i] = es[i]
  <2>1. i \in Nat /\ i > 0 /\ i <= Len(es) /\ i \in 1 .. M
      BY <1>1, <1>7
  <2>2. CASE i < f.line
    <3>1. i \in 1 .. N
        BY <1>1, <1>4, <2>1, <2>2
    <3> HIDE DEF N, M
    <3> QED BY <1>4, <1>6, <2>1, <2>2, <3>1
  <2>3. CASE i >= t.line
    <3> DEFINE j == i - (f.line + r - 1) + e.line
    <3>1. j = i - t.line + (f.line + k - 1)
        BY <1>1, <2>1
    <3>2. i >= f.line + r - 1
        BY <1>1, <2>3
    <3> HIDE DEF M
    <3>3. q[i] = p[j]
        BY <1>6, <2>1, <3>2
    <3> HIDE DEF j
    <3>4. j \in 1 .. N /\ j >= f.line + k - 1
      <4>0. i - t.line \in Nat /\ f.line + k - 1 \in Nat /\ f.line + k - 1 > 0
          BY <1>1, <2>1, <2>3
      <4>1. j \in Int /\ j >= f.line + k - 1 /\ j > 0
        <5> DEFINE u == i - t.line
                   v == f.line + k - 1
        <5>1. u \in Nat /\ v \in Nat /\ v > 0 /\ j = u + v
            BY <3>1, <4>0
        <5> HIDE DEF u, v
        <5>2. u + v \in Int /\ u + v >= v /\ u + v > 0
            BY <5>1
        <5>3. v = f.line + k - 1
            BY DEF v
        <5> QED BY <5>1, <5>2, <5>3
      <4>2. j <= N
        <5>1. N = (f.line + k - 1) + (Len(es) - t.line) /\ j = (f.line + k - 1) + (i - t.line)
            BY <1>1, <2>1, <3>1, SMTT(30)
        <5>2. i - t.line <= Len(es) - t.line /\ i - t.line \in Int /\ Len(es) - t.line \in Int
              /\ f.line + k - 1 \in Int
            BY <1>1, <2>1
        <5> HIDE DEF N
        <5> QED BY <5>1, <5>2
      <4> HIDE DEF N
      <4> QED BY <1>4, <4>1, <4>2
    <3>5. j - (f.line + k - 1) + t.line = i
        BY <1>1, <2>1, <3>1
    <3> HIDE DEF N
    <3>6. p[j] = es[j - (f.line + k - 1) + t.line]
        BY <1>4, <3>4
    <3> QED BY <3>3, <3>5, <3>6
  <2>4. CASE f.line <= i /\ i < t.line
    <3>1. /\ i < f.line + r - 1 /\ i - f.line + 1 \in 1 .. t.line - f.line
          /\ i - f.line + 1 <= t.line - f.line /\ f.line + (i - f.line + 1) - 1 = i
      <4>1. i < f.line + r - 1
          BY <1>1, <2>1, <2>4
      <4>2. i - f.line + 1 \in 1 .. t.line - f.line /\ i - f.line + 1 <= t.line - f.line
        <5>1. i - f.line \in Nat /\ i - f.line < t.line - f.line /\ t.line - f.line \in Nat
          <6>1. i - f.line \in Nat /\ t.line - f.line \in Nat
            <7>1. i \in Nat /\ f.line \in Nat /\ t.line \in Nat /\ f.line <= i /\ f.line <= t.line
                BY <1>1, <2>1, <2>4
            <7>2. i - f.line \in Nat
                BY <7>1
            <7>3. t.line - f.line \in Nat
                BY <7>1
            <7> QED BY <7>2, <7>3
          <6>2. i - f.line < t.line - f.line
              BY <1>1, <2>1, <2>4
          <6> QED BY <6>1, <6>2
        <5> QED BY <5>1
      <4>3. f.line + (i - f.line + 1) - 1 = i
          BY <1>1, <2>1
      <4> QED BY <4>1, <4>2, <4>3
    <3>2. q[i] = R[i - f.line + 1]
      <4> HIDE DEF N, M
      <4>1. q[i] = IF i - f.line + 1 <= Len(R) THEN R[i - f.line + 1] ELSE most
          BY <1>6, <2>1, <2>4, <3>1
      <4> QED BY <1>3, <3>1, <4>1
    <3>3. R[i - f.line + 1] = es[f.line + (i - f.line + 1) - 1]
        BY <1>3, <3>1
    <3> QED BY <3>1, <3>2, <3>3
  <2> QED BY <1>1, <2>1, <2>2, <2>3, <2>4, SMTT(30)
<1>9. q = es
  <2> HIDE DEF M
  <2> QED BY <1>6, <1>7, <1>8, SeqEqual
<1> QED BY <1>3, <1>9 DEF q, p, r, R

\* Typing within a line leaves the endings.
LEMMA EndsStay ==
    ASSUME NEW es \in Seq(LineSet), NEW e \in Place, e.line <= Len(es), NEW most \in LineSet
    PROVE  PutEnds(es, e, e, 1, <<>>, most) = es
<1> DEFINE q == PutEnds(es, e, e, 1, <<>>, most)
           N == e.line - 1 + 1 + (Len(es) - e.line)
<1>1. e.line \in Nat /\ e.line > 0 /\ Len(es) \in Nat /\ N = Len(es) /\ e.line <= e.line
    BY LenProperties DEF Place
<1>2. IsPutEnds(es, e, e, 1, <<>>, most, q)
  <2>1. <<>> \in Seq(LineSet) /\ 1 \in Nat /\ 1 > 0
      OBVIOUS
  <2> QED BY <1>1, <2>1, PutEndsIs
<1> HIDE DEF q
<1>3. /\ q \in Seq(LineSet) /\ Len(q) = N
      /\ \A i \in 1 .. N :
             /\ i < e.line => q[i] = es[i]
             /\ i >= e.line + 1 - 1 => q[i] = es[i - (e.line + 1 - 1) + e.line]
    BY <1>2 DEF IsPutEnds
<1>4. ASSUME NEW i \in 1 .. Len(es) PROVE q[i] = es[i]
  <2>1. i \in 1 .. N
      BY <1>1
  <2>2. CASE i < e.line
    <3> HIDE DEF N
    <3> QED BY <1>3, <2>1, <2>2
  <2>3. CASE i >= e.line
    <3>1. i >= e.line + 1 - 1 /\ i - (e.line + 1 - 1) + e.line = i
        BY <1>1, <2>3
    <3> HIDE DEF N
    <3>2. q[i] = es[i - (e.line + 1 - 1) + e.line]
        BY <1>3, <2>1, <3>1
    <3> QED BY <3>1, <3>2
  <2> QED BY <1>1, <2>2, <2>3
<1>5. q = es
  <2> HIDE DEF N
  <2> QED BY <1>1, <1>3, <1>4, SeqEqual
<1> QED BY <1>5 DEF q

\* A character typed at the end of lines put in is as if put in with them.
LEMMA PutMore ==
    ASSUME NEW ls \in Lines, NEW f, NEW t, Inside(ls, f), Inside(ls, t), InOrderOf(f, t),
           NEW new \in Lines, NEW c \in Byte
    PROVE  LET e == EndOf(f, new)
               two == Typed(new, c)
           IN  /\ PutBetween(PutBetween(ls, f, t, new), e, e, << <<c>> >>)
                    = PutBetween(ls, f, t, two)
               /\ EndOf(e, << <<c>> >>) = EndOf(f, two)
               /\ two \in Lines /\ Len(two) = Len(new) /\ << <<c>> >> \in Lines
<1> DEFINE p == PutBetween(ls, f, t, new)
           e == EndOf(f, new)
           one == << <<c>> >>
           two == Typed(new, c)
           q == PutBetween(p, e, e, one)
           w == PutBetween(ls, f, t, two)
           k == Len(new)
           h == LineTo(ls, f)
           d == LineFrom(ls, t)
           N == f.line - 1 + k + (Len(ls) - t.line)
           M == e.line - 1 + 1 + (Len(p) - e.line)
           lead == IF k = 1 THEN h ELSE <<>>
<1>1. /\ f.line \in Nat /\ f.line > 0 /\ t.line \in Nat /\ f.line <= t.line /\ t.line <= Len(ls)
      /\ Len(ls) \in Nat /\ k \in Nat /\ k > 0 /\ f.col \in Nat /\ f \in Place
  <2>1. f \in Place /\ t \in Place /\ t.line <= Len(ls)
      BY DEF Inside
  <2> QED BY <2>1, InsideIs, LinesAre DEF InOrderOf, Place
<1>2. h \in LineSet /\ d \in LineSet /\ <<>> \in LineSet /\ <<c>> \in LineSet /\ lead \in LineSet
  <2>1. h \in LineSet /\ d \in LineSet /\ <<>> \in LineSet
      BY InsideIs, EmptyLine
  <2>2. <<c>> \in LineSet
      BY DEF LineSet
  <2> QED BY <2>1, <2>2
<1>3. c \in Chars /\ c # NL
    BY ByteAssumption DEF ByteAssumption, Chars
<1>4. /\ two \in Lines /\ Len(two) = k
      /\ \A i \in 1 .. k : two[i] = IF i = k THEN Append(new[i], c) ELSE new[i]
    BY <1>3, TypedIs
<1>5. one \in Lines /\ Len(one) = 1 /\ one[1] = <<c>>
    BY <1>2, LinesAreTexts
<1>6. /\ Inside(p, e) /\ e.line = f.line + k - 1 /\ LineFrom(p, e) = d
      /\ LineTo(p, e) = lead \o new[k]
  <2>1. IsAround(ls, f, t, new, k, p, e)
      BY PutAround
  <2> HIDE DEF p, e, k, h, d
  <2> QED BY <2>1 DEF IsAround, h, d
<1>7. IsPut(ls, f, t, new, k, p)
    BY PutIs
<1>8. IsPut(ls, f, t, two, k, w)
  <2> HIDE DEF two, k
  <2>1. IsPut(ls, f, t, two, Len(two), w)
      BY <1>4, PutIs
  <2> HIDE DEF w
  <2> QED BY <1>4, <2>1
<1>9. e.col \in Nat /\ e \in Place
    BY <1>6 DEF Inside, Place
<1>10. /\ EndOf(e, one) = Cursor(e.line, e.col + 1)
       /\ EndOf(f, two) = Cursor(e.line, e.col + 1)
  <2>1. EndOf(e, one) = Cursor(e.line + 1 - 1, e.col + Len(one[1]))
    <3> HIDE DEF e, one
    <3> QED BY <1>5 DEF EndOf
  <2>2. Len(one[1]) = 1
      BY <1>5
  <2>3. e.line + 1 - 1 = e.line
      BY <1>1, <1>6
  <2>4. two[k] = Append(new[k], c) /\ Len(Append(new[k], c)) = Len(new[k]) + 1 /\ Len(new[k]) \in Nat
    <3>1. k \in 1 .. k
        BY <1>1
    <3>2. new[k] \in LineSet
        BY <3>1, LinesAre
    <3> HIDE DEF two, k
    <3>3. two[k] = Append(new[k], c)
        BY <1>4, <3>1
    <3> QED BY <3>2, <3>3, AppendProperties, LenProperties DEF LineSet
  <2>5. e.col = (IF k = 1 THEN f.col ELSE 0) + Len(new[k])
      BY DEF EndOf, Cursor
  <2>6. EndOf(f, two) = Cursor(f.line + k - 1, (IF k = 1 THEN f.col ELSE 0) + Len(two[k]))
    <3> HIDE DEF two, k
    <3> QED BY <1>4 DEF EndOf
  <2>7. (IF k = 1 THEN f.col ELSE 0) + Len(two[k]) = e.col + 1
    <3> DEFINE m == Len(new[k])
               a == IF k = 1 THEN f.col ELSE 0
    <3>1. m \in Nat /\ a \in Nat /\ e.col = a + m /\ Len(two[k]) = m + 1
        BY <1>1, <2>4, <2>5
    <3> HIDE DEF two, k, e, m, a
    <3>2. a + (m + 1) = (a + m) + 1
        BY <3>1
    <3> QED BY <3>1, <3>2 DEF a
  <2> HIDE DEF two, k, e, one
  <2> QED BY <1>6, <2>1, <2>2, <2>3, <2>6, <2>7
<1> HIDE DEF p, e, one, two, w, k, h, d, lead
<1>11. p \in Lines /\ Len(p) = N /\ N \in Nat
    BY <1>7 DEF IsPut
<1>12. IsPut(p, e, e, one, 1, q)
  <2>1. InOrderOf(e, e)
      BY <1>9, <1>1, <1>6 DEF InOrderOf
  <2>2. IsPut(p, e, e, one, Len(one), q)
      BY <1>5, <1>6, <1>11, <2>1, PutIs
  <2> HIDE DEF q
  <2> QED BY <1>5, <2>2
<1> HIDE DEF q
<1>13. /\ q \in Lines /\ Len(q) = M
       /\ \A i \in 1 .. M :
             /\ i < e.line => q[i] = p[i]
             /\ i >= e.line + 1 => q[i] = p[i - (e.line + 1 - 1) + e.line]
             /\ e.line <= i /\ i < e.line + 1 =>
                  q[i] = (IF i = e.line THEN LineTo(p, e) ELSE <<>>) \o one[i - e.line + 1]
                         \o (IF i = e.line + 1 - 1 THEN LineFrom(p, e) ELSE <<>>)
    BY <1>12 DEF IsPut
<1>14. M = N /\ e.line \in Nat /\ e.line > 0
    BY <1>1, <1>6, <1>11
<1>15. /\ w \in Lines /\ Len(w) = N
       /\ \A i \in 1 .. N :
             /\ i < f.line => w[i] = p[i]
             /\ i >= f.line + k => w[i] = p[i]
             /\ f.line <= i /\ i < f.line + k =>
                  /\ p[i] = (IF i = f.line THEN h ELSE <<>>) \o new[i - f.line + 1]
                         \o (IF i = f.line + k - 1 THEN d ELSE <<>>)
                  /\ w[i] = (IF i = f.line THEN h ELSE <<>>) \o two[i - f.line + 1]
                         \o (IF i = f.line + k - 1 THEN d ELSE <<>>)
    BY <1>7, <1>8 DEF IsPut, h, d
<1> HIDE DEF N, M
<1>16. ASSUME NEW i \in 1 .. N PROVE q[i] = w[i]
  <2>1. i \in Int /\ i > 0 /\ i \in 1 .. M /\ e.line = f.line + k - 1
      BY <1>6, <1>14
  <2>2. CASE i # e.line
    <3>1. q[i] = p[i]
      <4>1. CASE i < e.line
          BY <1>13, <2>1, <4>1
      <4>2. CASE i >= e.line + 1
        <5>1. i - (e.line + 1 - 1) + e.line = i
            BY <1>14, <2>1
        <5>2. q[i] = p[i - (e.line + 1 - 1) + e.line]
            BY <1>13, <2>1, <4>2
        <5> QED BY <5>1, <5>2
      <4> QED BY <1>14, <2>1, <2>2, <4>1, <4>2
    <3>2. CASE f.line <= i /\ i < f.line + k
      <4>1. i - f.line + 1 \in 1 .. k
        <5>1. i - f.line \in Nat /\ i - f.line < k
            BY <1>1, <2>1, <3>2
        <5> QED BY <1>1, <5>1
      <4>2. i - f.line + 1 # k
          BY <1>1, <2>1, <2>2
      <4>3. two[i - f.line + 1] = new[i - f.line + 1]
          BY <1>4, <4>1, <4>2
      <4>4. w[i] = p[i]
          BY <1>15, <3>2, <4>3, ZenonT(30)
      <4> QED BY <3>1, <4>4
    <3>3. CASE ~(f.line <= i /\ i < f.line + k)
      <4>1. i < f.line \/ i >= f.line + k
          BY <1>1, <2>1, <3>3
      <4> QED BY <1>15, <3>1, <4>1
    <3> QED BY <3>2, <3>3
  <2>3. CASE i = e.line
    <3>1. e.line <= i /\ i < e.line + 1 /\ i - e.line + 1 = 1 /\ i = e.line + 1 - 1
        BY <1>14, <2>3
    <3>2. q[i] = LineTo(p, e) \o one[1] \o LineFrom(p, e)
      <4>1. q[i] = (IF i = e.line THEN LineTo(p, e) ELSE <<>>) \o one[i - e.line + 1]
                         \o (IF i = e.line + 1 - 1 THEN LineFrom(p, e) ELSE <<>>)
          BY <1>13, <2>1, <3>1
      <4> QED BY <2>3, <3>1, <4>1
    <3>3. q[i] = ((lead \o new[k]) \o <<c>>) \o d
        BY <1>5, <1>6, <3>2
    <3>4. f.line <= i /\ i < f.line + k /\ i - f.line + 1 = k /\ i = f.line + k - 1
          /\ (i = f.line <=> k = 1)
        BY <1>1, <2>1, <2>3
    <3>5. w[i] = (lead \o two[k]) \o d
      <4>1. w[i] = (IF i = f.line THEN h ELSE <<>>) \o two[i - f.line + 1]
                         \o (IF i = f.line + k - 1 THEN d ELSE <<>>)
          BY <1>15, <3>4
      <4>2. (IF i = f.line THEN h ELSE <<>>) = lead
          BY <3>4 DEF lead
      <4> QED BY <3>4, <4>1, <4>2
    <3>6. two[k] = Append(new[k], c) /\ new[k] \in LineSet
      <4>1. k \in 1 .. k
          BY <1>1
      <4> QED BY <1>4, <4>1, LinesAre DEF k
    <3>7. (lead \o new[k]) \o <<c>> = lead \o (new[k] \o <<c>>)
      <4> DEFINE u == new[k]
                 o == <<c>>
      <4>1. lead \in Seq(Byte) /\ u \in Seq(Byte) /\ o \in Seq(Byte)
          BY <1>2, <3>6 DEF LineSet
      <4> HIDE DEF u, o
      <4>2. (lead \o u) \o o = lead \o (u \o o)
          BY <4>1, ConcatAssociative
      <4> QED BY <4>2 DEF u, o
    <3>8. new[k] \o <<c>> = Append(new[k], c)
        BY <3>6, AppendIsConcat DEF LineSet
    <3> QED BY <3>3, <3>5, <3>6, <3>7, <3>8
  <2> QED BY <2>2, <2>3
<1>17. q = w
    BY <1>13, <1>14, <1>15, <1>16, SameLines
<1> QED BY <1>4, <1>5, <1>10, <1>17 DEF p, e, one, two, q, w, k

(***************************************************************************)
(* The history of a text.                                                  *)
(***************************************************************************)
Docs == {d \in [lines : Lines, eols : Seq(LineSet)] : Len(d.eols) = Len(d.lines)}
Edits == [from : Place, removed : Texts, eols : Seq(LineSet), inserted : Texts,
            before : Place, after : Place]
Buffers == [lines : Lines, eols : Seq(LineSet), trailing : BOOLEAN, bom : BOOLEAN,
            dominant : LineSet, cursor : Place, undo : Seq(Edits), redo : Seq(Edits),
            savedAt : Int, coalescing : BOOLEAN]
\* What edit e did to the document d.
Takes(e, d, d2, most) ==
    LET f == e.from
        t == Advance(f, e.removed)
    IN  /\ Inside(d.lines, f) /\ Inside(d.lines, t) /\ InOrderOf(f, t)
        /\ Split(e.removed) = Between(d.lines, f, t)
        /\ e.eols = SubSeq(d.eols, f.line, t.line - 1)
        /\ d2 = Replaced(d, f, t, e.inserted, <<>>, most)
        /\ e.after = Advance(f, e.inserted)

LEMMA ReplacedIs ==
    ASSUME NEW d \in Docs, NEW f, NEW t, Inside(d.lines, f), Inside(d.lines, t), InOrderOf(f, t),
           NEW text \in Texts, NEW keep \in Seq(LineSet), NEW most \in LineSet
    PROVE  LET r == Replaced(d, f, t, text, keep, most)
               u == Advance(f, text)
           IN  /\ r \in Docs
               /\ Inside(r.lines, f) /\ Inside(r.lines, u) /\ InOrderOf(f, u)
<1> DEFINE ls == d.lines
           es == d.eols
           T == Split(text)
           k == Len(T)
           p == PutBetween(ls, f, t, T)
           q == PutEnds(es, f, t, k, keep, most)
           r == Replaced(d, f, t, text, keep, most)
           u == Advance(f, text)
<1>1. ls \in Lines /\ es \in Seq(LineSet) /\ Len(es) = Len(ls)
    BY DEF Docs
<1>2. T \in Lines /\ k \in Nat /\ k > 0
    BY SplitIs, LinesAre
<1>3. f \in Place /\ t \in Place /\ f.line <= t.line /\ t.line <= Len(es)
    BY <1>1 DEF Inside, InOrderOf, Place
<1>4. u = EndOf(f, T)
    BY <1>3, AdvanceIs
<1>5. IsPut(ls, f, t, T, k, p)
  <2> HIDE DEF ls, T
  <2> QED BY <1>1, <1>2, PutIs DEF ls
<1>6. IsAround(ls, f, t, T, k, p, u)
  <2>1. IsAround(ls, f, t, T, k, p, EndOf(f, T))
    <3> HIDE DEF ls, T
    <3> QED BY <1>1, <1>2, PutAround DEF ls
  <2> QED BY <1>4, <2>1
<1>7. IsPutEnds(es, f, t, k, keep, most, q)
  <2> HIDE DEF es, k
  <2> QED BY <1>1, <1>2, <1>3, PutEndsIs
<1>8. r.lines = p /\ r.eols = q /\ r = [lines |-> p, eols |-> q]
    BY DEF Replaced
<1> HIDE DEF ls, es, T, k, p, q, r, u
<1>9. p \in Lines /\ q \in Seq(LineSet) /\ Len(p) = Len(q)
    BY <1>1, <1>5, <1>7 DEF IsPut, IsPutEnds
<1>10. r \in Docs
    BY <1>8, <1>9 DEF Docs
<1>11. Inside(p, f) /\ Inside(p, u) /\ InOrderOf(f, u)
    BY <1>6 DEF IsAround
<1> QED BY <1>8, <1>10, <1>11 DEF r, u

LEMMA TakesOn ==
    ASSUME NEW e \in Edits, NEW d \in Docs, NEW d2, NEW most \in LineSet, Takes(e, d, d2, most)
    PROVE  LET t == Advance(e.from, e.removed)
               u == Advance(e.from, e.inserted)
           IN  /\ Inside(d.lines, e.from) /\ Inside(d.lines, t) /\ InOrderOf(e.from, t)
               /\ d2 = Replaced(d, e.from, t, e.inserted, <<>>, most) /\ d2 \in Docs
               /\ Inside(d2.lines, e.from) /\ Inside(d2.lines, u) /\ InOrderOf(e.from, u)
               /\ Replaced(d2, e.from, u, e.removed, e.eols, most) = d
<1> DEFINE f == e.from
           t == Advance(f, e.removed)
           u == Advance(f, e.inserted)
           ls == d.lines
           es == d.eols
           T == Split(e.inserted)
           R == Split(e.removed)
           k == Len(T)
           p == PutBetween(ls, f, t, T)
           q == PutEnds(es, f, t, k, <<>>, most)
<1>1. /\ f \in Place /\ e.removed \in Texts /\ e.inserted \in Texts
      /\ ls \in Lines /\ es \in Seq(LineSet) /\ Len(es) = Len(ls)
    BY DEF Edits, Docs
<1>2. /\ Inside(ls, f) /\ Inside(ls, t) /\ InOrderOf(f, t) /\ R = Between(ls, f, t)
      /\ e.eols = SubSeq(es, f.line, t.line - 1)
      /\ d2 = Replaced(d, f, t, e.inserted, <<>>, most)
    BY DEF Takes
<1>3. <<>> \in Seq(LineSet)
    OBVIOUS
<1>4. d2 \in Docs /\ Inside(d2.lines, f) /\ Inside(d2.lines, u) /\ InOrderOf(f, u)
  <2> HIDE DEF f, t
  <2> QED BY <1>1, <1>2, <1>3, ReplacedIs
<1>5. T \in Lines /\ k \in Nat /\ k > 0 /\ R \in Lines
    BY <1>1, SplitIs, LinesAre
<1>6. u = EndOf(f, T)
    BY <1>1, AdvanceIs
<1>7. d2.lines = p /\ d2.eols = q
    BY <1>2 DEF Replaced
<1>8. PutBetween(p, f, u, R) = ls
  <2>1. PutBetween(PutBetween(ls, f, t, T), f, EndOf(f, T), Between(ls, f, t)) = ls
    <3> HIDE DEF f, t, ls, T
    <3> QED BY <1>1, <1>2, <1>5, PutBack
  <2> QED BY <1>2, <1>6, <2>1
<1>9. t.line \in Nat /\ f.line \in Nat /\ f.line <= t.line /\ t.line <= Len(es) /\ t \in Place
  <2> HIDE DEF f, t, ls, es
  <2> QED BY <1>1, <1>2 DEF Inside, InOrderOf, Place
<1>10. u.line = f.line + k - 1 /\ u \in Place
  <2>1. u \in Place
      BY <1>4 DEF Inside
  <2>2. u.line = f.line + k - 1
      BY <1>6 DEF EndOf, Cursor
  <2> QED BY <2>1, <2>2
<1>11. Len(R) = t.line - f.line + 1
  <2> HIDE DEF f, t, ls, R
  <2> QED BY <1>1, <1>2, BetweenIs
<1>12. PutEnds(q, f, u, Len(R), e.eols, most) = es
  <2>1. PutEnds(PutEnds(es, f, t, k, <<>>, most), f, u, t.line - f.line + 1,
                SubSeq(es, f.line, t.line - 1), most) = es
    <3> DEFINE none == <<>>
               r == t.line - f.line + 1
    <3>1. /\ none \in Seq(LineSet) /\ es \in Seq(LineSet) /\ f \in Place /\ t \in Place
          /\ f.line <= t.line /\ t.line <= Len(es) /\ k \in Nat /\ k > 0
          /\ u \in Place /\ u.line = f.line + k - 1
        BY <1>1, <1>3, <1>5, <1>9, <1>10
    <3> HIDE DEF f, t, es, k, u, none
    <3>2. /\ SubSeq(es, f.line, t.line - 1) \in Seq(LineSet)
          /\ PutEnds(PutEnds(es, f, t, k, none, most), f, u, t.line - f.line + 1,
                   SubSeq(es, f.line, t.line - 1), most) = es
        BY <3>1, EndsBack
    <3> QED BY <3>2 DEF none
  <2> HIDE DEF f, t, es, k, u, R
  <2> QED BY <1>2, <1>11, <2>1
<1>13. Replaced(d2, f, u, e.removed, e.eols, most) = [lines |-> ls, eols |-> es]
    BY <1>7, <1>8, <1>12 DEF Replaced
<1>14. d = [lines |-> ls, eols |-> es]
    BY DEF Docs
<1> HIDE DEF ls, es
<1> QED BY <1>2, <1>4, <1>13, <1>14

LEMMA ReplaceTurns ==
    ASSUME NEW b \in Buffers, DocOf(b) \in Docs, NEW f, NEW t,
           Inside(b.lines, f), Inside(b.lines, t), InOrderOf(f, t),
           NEW text \in Texts, NEW keep \in Seq(LineSet)
    PROVE  Replace(b, f, t, text, keep)
             = Turned(b, Replaced(DocOf(b), f, t, text, keep, b.dominant))
<1>1. b.lines \in Lines /\ b.eols \in Seq(LineSet) /\ Len(b.eols) = Len(b.lines)
      /\ b.dominant \in LineSet
    BY DEF Buffers, Docs, DocOf
<1> QED BY <1>1, ReplaceIs

LEMMA ClampInside ==
    ASSUME NEW b, b.lines \in Lines, NEW c \in Place
    PROVE  Inside(b.lines, Clamp(b, c)) /\ Clamp(b, c) \in Place
<1> DEFINE n == Len(b.lines)
           l == IF c.line > n THEN n ELSE c.line
           m == Len(b.lines[l])
           k == IF c.col > m THEN m ELSE c.col
<1>1. n \in Nat /\ n > 0 /\ c.line \in Nat /\ c.line > 0 /\ c.col \in Nat
    BY LinesAre DEF Place
<1>2. l \in 1 .. n
  <2> HIDE DEF n
  <2> QED BY <1>1
<1> HIDE DEF l
<1>3. m \in Nat
    BY <1>2, LinesAre, LenProperties DEF LineSet
<1>4. Clamp(b, c) = Cursor(l, k)
    BY DEF Clamp, LineLen, l
<1> HIDE DEF m, n
<1>5. k \in Nat /\ k <= m
    BY <1>1, <1>3
<1>6. l \in Nat /\ l > 0 /\ l <= n
    BY <1>1, <1>2
<1> HIDE DEF k
<1>7. Cursor(l, k) \in Place /\ Cursor(l, k).line = l /\ Cursor(l, k).col = k
    BY <1>5, <1>6 DEF Cursor, Place
<1> QED BY <1>4, <1>5, <1>6, <1>7 DEF Inside, m, n

\* D holds the text between any two edits, those undone included.
History(b, D) ==
    /\ b \in Buffers /\ D \in [Nat -> Docs]
    /\ DocOf(b) = D[Len(b.undo)]
    /\ Inside(b.lines, b.cursor)
    /\ \A k \in 1 .. Len(b.undo) : Takes(b.undo[k], D[k - 1], D[k], b.dominant)
    /\ \A k \in 1 .. Len(b.redo) :
         Takes(b.redo[k], D[Len(b.undo) + Len(b.redo) - k], D[Len(b.undo) + Len(b.redo) - k + 1],
               b.dominant)

LEMMA HistoryIs ==
    ASSUME NEW b, NEW D, History(b, D)
    PROVE  /\ Len(b.undo) \in Nat /\ Len(b.redo) \in Nat /\ DocOf(b) \in Docs
           /\ b.undo \in Seq(Edits) /\ b.redo \in Seq(Edits) /\ b.dominant \in LineSet
           /\ b.lines \in Lines /\ b.eols \in Seq(LineSet) /\ Len(b.eols) = Len(b.lines)
           /\ \A k \in 1 .. Len(b.undo) : b.undo[k] \in Edits
           /\ \A k \in 1 .. Len(b.redo) : b.redo[k] \in Edits
           /\ \A k \in Nat : D[k] \in Docs
           /\ b.undo = <<>> <=> Len(b.undo) = 0
           /\ b.redo = <<>> <=> Len(b.redo) = 0
<1>1. /\ b.undo \in Seq(Edits) /\ b.redo \in Seq(Edits) /\ b.dominant \in LineSet
      /\ b.lines \in Lines /\ b.eols \in Seq(LineSet) /\ \A k \in Nat : D[k] \in Docs
    BY DEF History, Buffers
<1>2. Len(b.undo) \in Nat /\ Len(b.redo) \in Nat
    BY <1>1, LenProperties
<1>3. DocOf(b) \in Docs
    BY <1>1, <1>2 DEF History
<1>4. Len(b.eols) = Len(b.lines)
    BY <1>3 DEF Docs, DocOf
<1>5. \A k \in 1 .. Len(b.undo) : b.undo[k] \in Edits
    BY <1>1, ElementOfSeq
<1>6. \A k \in 1 .. Len(b.redo) : b.redo[k] \in Edits
    BY <1>1, ElementOfSeq
<1>7. (b.undo = <<>> <=> Len(b.undo) = 0) /\ (b.redo = <<>> <=> Len(b.redo) = 0)
    BY <1>1, EmptySeq
<1> QED BY <1>1, <1>2, <1>3, <1>4, <1>5, <1>6, <1>7

LEMMA FrontLast ==
    ASSUME NEW S, NEW s \in Seq(S), Len(s) > 0
    PROVE  /\ Last(s) = s[Len(s)] /\ s[Len(s)] \in S
           /\ Front(s) \in Seq(S) /\ Len(Front(s)) = Len(s) - 1
           /\ \A i \in 1 .. Len(s) - 1 : Front(s)[i] = s[i]
<1> DEFINE n == Len(s)
<1>1. n \in Nat /\ n > 0 /\ \A i \in 1 .. n : s[i] \in S
    BY LenProperties, ElementOfSeq
<1>2. Last(s) = s[n] /\ Front(s) = SubSeq(s, 1, n - 1)
    BY DEF Last, Front
<1> HIDE DEF n
<1>3. /\ SubSeq(s, 1, n - 1) \in Seq(S)
      /\ Len(SubSeq(s, 1, n - 1)) = IF 1 <= n - 1 THEN n - 1 - 1 + 1 ELSE 0
      /\ \A i \in 1 .. n - 1 - 1 + 1 : SubSeq(s, 1, n - 1)[i] = s[1 + i - 1]
  <2>1. \A i \in 1 .. n - 1 : s[i] \in S
      BY <1>1
  <2>2. 1 \in Int /\ n - 1 \in Int
      BY <1>1
  <2> QED BY <2>1, <2>2, SubSeqProperties
<1> DEFINE f == SubSeq(s, 1, n - 1)
<1> HIDE DEF f
<1>4. Len(f) = n - 1
    BY <1>1, <1>3 DEF f
<1>5. \A i \in 1 .. n - 1 : f[i] = s[i]
    BY <1>1, <1>3 DEF f
<1>6. n \in 1 .. n
    BY <1>1
<1> QED BY <1>1, <1>2, <1>3, <1>4, <1>5, <1>6 DEF n, f

\* z is the buffer b at another point of its history.
Became(z, b, d, c, undo, redo) ==
    /\ z \in Buffers
    /\ z.lines = d.lines /\ z.eols = d.eols /\ z.trailing = b.trailing /\ z.bom = b.bom
    /\ z.dominant = b.dominant /\ z.cursor = c /\ z.undo = undo /\ z.redo = redo
    /\ z.savedAt = b.savedAt /\ z.coalescing = FALSE

LEMMA TurnedIs ==
    ASSUME NEW b \in Buffers, NEW d \in Docs
    PROVE  LET r == Turned(b, d)
           IN  /\ r \in Buffers /\ r.lines = d.lines /\ r.eols = d.eols
               /\ r.trailing = b.trailing /\ r.bom = b.bom /\ r.dominant = b.dominant
               /\ r.cursor = b.cursor /\ r.undo = b.undo /\ r.redo = b.redo
               /\ r.savedAt = b.savedAt /\ r.coalescing = b.coalescing
<1>1. d.lines \in Lines /\ d.eols \in Seq(LineSet)
    BY DEF Docs
<1>2. Turned(b, d) \in Buffers
    BY <1>1 DEF Turned, Buffers
<1>3. LET r == Turned(b, d)
      IN  /\ r.lines = d.lines /\ r.eols = d.eols
          /\ r.trailing = b.trailing /\ r.bom = b.bom /\ r.dominant = b.dominant
          /\ r.cursor = b.cursor /\ r.undo = b.undo /\ r.redo = b.redo
          /\ r.savedAt = b.savedAt /\ r.coalescing = b.coalescing
    BY DEF Turned, Buffers
<1> QED BY <1>2, <1>3

LEMMA MovedIs ==
    ASSUME NEW b \in Buffers, NEW d \in Docs, NEW c \in Place, NEW u \in Seq(Edits),
           NEW v \in Seq(Edits), NEW z
    PROVE  /\ z = [Turned(b, d) EXCEPT !.cursor = c, !.coalescing = FALSE, !.undo = u, !.redo = v]
                => Became(z, b, d, c, u, v)
           /\ z = [Turned(b, d) EXCEPT !.cursor = c, !.coalescing = FALSE, !.redo = v, !.undo = u]
                => Became(z, b, d, c, u, v)
<1> DEFINE r == Turned(b, d)
<1>1. /\ r \in Buffers /\ r.lines = d.lines /\ r.eols = d.eols
      /\ r.trailing = b.trailing /\ r.bom = b.bom /\ r.dominant = b.dominant
      /\ r.savedAt = b.savedAt
    BY TurnedIs
<1> HIDE DEF r
<1>2. ASSUME z = [r EXCEPT !.cursor = c, !.coalescing = FALSE, !.undo = u, !.redo = v]
      PROVE  Became(z, b, d, c, u, v)
  <2>1. z \in Buffers
      BY <1>1, <1>2 DEF Buffers
  <2>2. /\ z.lines = r.lines /\ z.eols = r.eols /\ z.trailing = r.trailing /\ z.bom = r.bom
        /\ z.dominant = r.dominant /\ z.cursor = c /\ z.undo = u /\ z.redo = v
        /\ z.savedAt = r.savedAt /\ z.coalescing = FALSE
      BY <1>1, <1>2 DEF Buffers
  <2> QED BY <1>1, <2>1, <2>2 DEF Became
<1>3. ASSUME z = [r EXCEPT !.cursor = c, !.coalescing = FALSE, !.redo = v, !.undo = u]
      PROVE  Became(z, b, d, c, u, v)
  <2>1. z \in Buffers
      BY <1>1, <1>3 DEF Buffers
  <2>2. /\ z.lines = r.lines /\ z.eols = r.eols /\ z.trailing = r.trailing /\ z.bom = r.bom
        /\ z.dominant = r.dominant /\ z.cursor = c /\ z.undo = u /\ z.redo = v
        /\ z.savedAt = r.savedAt /\ z.coalescing = FALSE
      BY <1>1, <1>3 DEF Buffers
  <2> QED BY <1>1, <2>1, <2>2 DEF Became
<1> QED BY <1>2, <1>3 DEF r

LEMMA UndoIs ==
    ASSUME NEW b, NEW D, History(b, D), Len(b.undo) > 0
    PROVE  LET n == Len(b.undo)
               e == b.undo[n]
           IN  \E c \in Place :
                 /\ Inside(D[n - 1].lines, c)
                 /\ Became(Undo(b), b, D[n - 1], c, Front(b.undo), Append(b.redo, e))
<1> DEFINE n == Len(b.undo)
           e == b.undo[n]
           d == D[n - 1]
           u == Advance(e.from, e.inserted)
           r == Turned(b, d)
           c == Clamp(r, e.before)
<1>1. n \in Nat /\ n > 0 /\ n \in 1 .. n /\ n - 1 \in Nat /\ b.undo # <<>> /\ b \in Buffers
    BY HistoryIs DEF History
<1>2. e \in Edits /\ d \in Docs /\ DocOf(b) = D[n] /\ DocOf(b) \in Docs /\ b.dominant \in LineSet
    BY <1>1, HistoryIs DEF History
<1>3. Takes(e, d, D[n], b.dominant)
    BY <1>1 DEF History
<1>4. Last(b.undo) = e
    BY <1>1, HistoryIs, FrontLast
<1>5. /\ e.from \in Place /\ e.removed \in Texts /\ e.eols \in Seq(LineSet) /\ e.before \in Place
    BY <1>2 DEF Edits
<1> HIDE DEF e, d
<1>6. /\ Inside(D[n].lines, e.from) /\ Inside(D[n].lines, u) /\ InOrderOf(e.from, u)
      /\ Replaced(D[n], e.from, u, e.removed, e.eols, b.dominant) = d
    BY <1>2, <1>3, TakesOn
<1>7. D[n].lines = b.lines
    BY <1>2 DEF DocOf
<1>8. Replace(b, e.from, u, e.removed, e.eols) = r
  <2>1. Replace(b, e.from, u, e.removed, e.eols)
          = Turned(b, Replaced(DocOf(b), e.from, u, e.removed, e.eols, b.dominant))
    <3> HIDE DEF u
    <3>1. Inside(b.lines, e.from) /\ Inside(b.lines, u) /\ InOrderOf(e.from, u)
        BY <1>6, <1>7
    <3> QED BY <1>1, <1>2, <1>5, <3>1, ReplaceTurns
  <2> QED BY <1>2, <1>6, <2>1
<1>9. r.lines = d.lines /\ r.undo = b.undo /\ r.redo = b.redo
    BY <1>1, <1>2, TurnedIs
<1>10. d.lines \in Lines
    BY <1>2 DEF Docs
<1>11. c \in Place /\ Inside(d.lines, c)
  <2> HIDE DEF r
  <2> QED BY <1>5, <1>9, <1>10, ClampInside
<1>12. Undo(b) = [r EXCEPT !.cursor = c, !.coalescing = FALSE,
                           !.undo = Front(b.undo), !.redo = Append(b.redo, e)]
  <2>1. Undo(b) = [r EXCEPT !.cursor = c, !.coalescing = FALSE,
                           !.undo = Front(@), !.redo = Append(@, e)]
    <3> HIDE DEF r, u
    <3> QED BY <1>1, <1>4, <1>8 DEF Undo, u
  <2> HIDE DEF r
  <2> QED BY <1>9, <2>1
<1>13. Front(b.undo) \in Seq(Edits) /\ Append(b.redo, e) \in Seq(Edits)
    BY <1>1, <1>2, HistoryIs, FrontLast, AppendProperties
<1>14. Became(Undo(b), b, d, c, Front(b.undo), Append(b.redo, e))
  <2> DEFINE u2 == Front(b.undo)
             v2 == Append(b.redo, e)
  <2>1. u2 \in Seq(Edits) /\ v2 \in Seq(Edits) /\ b \in Buffers /\ d \in Docs /\ c \in Place
      BY <1>1, <1>2, <1>11, <1>13
  <2>2. Undo(b) = [Turned(b, d) EXCEPT !.cursor = c, !.coalescing = FALSE, !.undo = u2, !.redo = v2]
      BY <1>12
  <2> HIDE DEF c, u2, v2
  <2>3. Became(Undo(b), b, d, c, u2, v2)
      BY <2>1, <2>2, MovedIs
  <2> QED BY <2>3 DEF u2, v2
<1> QED BY <1>11, <1>14 DEF d, e

LEMMA RedoIs ==
    ASSUME NEW b, NEW D, History(b, D), Len(b.redo) > 0
    PROVE  LET n == Len(b.undo)
               e == b.redo[Len(b.redo)]
           IN  \E c \in Place :
                 /\ Inside(D[n + 1].lines, c)
                 /\ Became(Redo(b), b, D[n + 1], c, Append(b.undo, e), Front(b.redo))
<1> DEFINE n == Len(b.undo)
           m == Len(b.redo)
           e == b.redo[m]
           d == D[n + 1]
           t == Advance(e.from, e.removed)
           r == Turned(b, d)
           c == Clamp(r, e.after)
<1>1. n \in Nat /\ m \in Nat /\ m > 0 /\ m \in 1 .. m /\ b.redo # <<>> /\ b \in Buffers
    BY HistoryIs DEF History
<1>2. e \in Edits /\ d \in Docs /\ DocOf(b) = D[n] /\ DocOf(b) \in Docs /\ b.dominant \in LineSet
  <2>1. e \in Edits
      BY <1>1, HistoryIs
  <2>2. d \in Docs
    <3>1. n + 1 \in Nat
        BY <1>1
    <3> QED BY <3>1, HistoryIs
  <2> QED BY <2>1, <2>2, HistoryIs DEF History
<1>3. Takes(e, D[n], d, b.dominant)
  <2>1. Takes(e, D[n + m - m], D[n + m - m + 1], b.dominant)
      BY <1>1 DEF History
  <2>2. n + m - m = n
      BY <1>1
  <2> QED BY <2>1, <2>2
<1>4. Last(b.redo) = e
    BY <1>1, HistoryIs, FrontLast
<1>5. /\ e.from \in Place /\ e.inserted \in Texts /\ <<>> \in Seq(LineSet) /\ e.after \in Place
    BY <1>2 DEF Edits
<1> HIDE DEF e, d
<1>6. /\ Inside(D[n].lines, e.from) /\ Inside(D[n].lines, t) /\ InOrderOf(e.from, t)
      /\ d = Replaced(D[n], e.from, t, e.inserted, <<>>, b.dominant)
    BY <1>2, <1>3, TakesOn
<1>7. D[n].lines = b.lines
    BY <1>2 DEF DocOf
<1>8. Replace(b, e.from, t, e.inserted, <<>>) = r
  <2>1. Replace(b, e.from, t, e.inserted, <<>>)
          = Turned(b, Replaced(DocOf(b), e.from, t, e.inserted, <<>>, b.dominant))
    <3> HIDE DEF t
    <3>1. Inside(b.lines, e.from) /\ Inside(b.lines, t) /\ InOrderOf(e.from, t)
        BY <1>6, <1>7
    <3> QED BY <1>1, <1>2, <1>5, <3>1, ReplaceTurns
  <2> QED BY <1>2, <1>6, <2>1
<1>9. r.lines = d.lines /\ r.undo = b.undo /\ r.redo = b.redo
    BY <1>1, <1>2, TurnedIs
<1>10. d.lines \in Lines
    BY <1>2 DEF Docs
<1>11. c \in Place /\ Inside(d.lines, c)
  <2> HIDE DEF r
  <2> QED BY <1>5, <1>9, <1>10, ClampInside
<1>12. Redo(b) = [r EXCEPT !.cursor = c, !.coalescing = FALSE,
                           !.redo = Front(b.redo), !.undo = Append(b.undo, e)]
  <2>1. Redo(b) = [r EXCEPT !.cursor = c, !.coalescing = FALSE,
                           !.redo = Front(@), !.undo = Append(@, e)]
    <3> HIDE DEF r, t
    <3> QED BY <1>1, <1>4, <1>8 DEF Redo, t
  <2> HIDE DEF r
  <2> QED BY <1>9, <2>1
<1>13. Front(b.redo) \in Seq(Edits) /\ Append(b.undo, e) \in Seq(Edits)
    BY <1>1, <1>2, HistoryIs, FrontLast, AppendProperties
<1>14. Became(Redo(b), b, d, c, Append(b.undo, e), Front(b.redo))
  <2> DEFINE u2 == Append(b.undo, e)
             v2 == Front(b.redo)
  <2>1. u2 \in Seq(Edits) /\ v2 \in Seq(Edits) /\ b \in Buffers /\ d \in Docs /\ c \in Place
      BY <1>1, <1>2, <1>11, <1>13
  <2>2. Redo(b) = [Turned(b, d) EXCEPT !.cursor = c, !.coalescing = FALSE, !.redo = v2, !.undo = u2]
      BY <1>12
  <2> HIDE DEF c, u2, v2
  <2>3. Became(Redo(b), b, d, c, u2, v2)
      BY <2>1, <2>2, MovedIs
  <2> QED BY <2>3 DEF u2, v2
<1> QED BY <1>11, <1>14 DEF d, e

LEMMA UndoKeeps ==
    ASSUME NEW b, NEW D, History(b, D), Len(b.undo) > 0
    PROVE  /\ History(Undo(b), D) /\ Len(Undo(b).undo) = Len(b.undo) - 1
           /\ Len(Undo(b).redo) = Len(b.redo) + 1
           /\ Undo(b).trailing = b.trailing /\ Undo(b).bom = b.bom
           /\ Undo(b).savedAt = b.savedAt /\ ~Undo(b).coalescing
<1> DEFINE n == Len(b.undo)
           m == Len(b.redo)
           e == b.undo[n]
           z == Undo(b)
           most == b.dominant
<1>1. PICK c \in Place :
        /\ Inside(D[n - 1].lines, c)
        /\ Became(z, b, D[n - 1], c, Front(b.undo), Append(b.redo, e))
    BY UndoIs
<1>2. /\ n \in Nat /\ n > 0 /\ m \in Nat /\ n - 1 \in Nat /\ b.undo \in Seq(Edits)
      /\ b.redo \in Seq(Edits) /\ e \in Edits /\ D[n - 1] \in Docs /\ D \in [Nat -> Docs]
  <2>1. n \in Nat /\ n > 0 /\ m \in Nat /\ n - 1 \in Nat /\ n \in 1 .. n
      BY HistoryIs
  <2> HIDE DEF e
  <2>2. D[n - 1] \in Docs /\ D \in [Nat -> Docs]
      BY <2>1, HistoryIs DEF History
  <2> QED BY <2>1, <2>2, HistoryIs DEF e
<1> HIDE DEF z
<1>3. /\ z \in Buffers /\ z.lines = D[n - 1].lines /\ z.eols = D[n - 1].eols /\ z.cursor = c
      /\ z.undo = Front(b.undo) /\ z.redo = Append(b.redo, e) /\ z.dominant = most
      /\ z.trailing = b.trailing /\ z.bom = b.bom /\ z.savedAt = b.savedAt /\ z.coalescing = FALSE
    BY <1>1 DEF Became
<1>4. Len(z.undo) = n - 1 /\ \A k \in 1 .. n - 1 : z.undo[k] = b.undo[k]
    BY <1>2, <1>3, FrontLast
<1>5. Len(z.redo) = m + 1 /\ z.redo[m + 1] = e /\ \A k \in 1 .. m : z.redo[k] = b.redo[k]
    BY <1>2, <1>3, AppendProperties
<1>6. DocOf(z) = D[n - 1]
  <2> DEFINE d == D[n - 1]
  <2>1. d \in Docs /\ z.lines = d.lines /\ z.eols = d.eols
      BY <1>2, <1>3
  <2> HIDE DEF d
  <2>2. d = [lines |-> d.lines, eols |-> d.eols]
      BY <2>1 DEF Docs
  <2>3. DocOf(z) = d
      BY <2>1, <2>2 DEF DocOf
  <2> QED BY <2>3 DEF d
<1>7. /\ \A k \in 1 .. n : Takes(b.undo[k], D[k - 1], D[k], most)
      /\ \A k \in 1 .. m : Takes(b.redo[k], D[n + m - k], D[n + m - k + 1], most)
    BY DEF History
<1>8. Takes(e, D[n - 1], D[n], most)
  <2>1. n \in 1 .. n
      BY <1>2
  <2> QED BY <1>7, <2>1
<1> HIDE DEF e, n, m, most
<1>9. ASSUME NEW k \in 1 .. n - 1 PROVE Takes(z.undo[k], D[k - 1], D[k], z.dominant)
  <2>1. k \in 1 .. n
      BY <1>2
  <2> QED BY <1>3, <1>4, <1>7, <2>1
<1>10. ASSUME NEW k \in 1 .. m + 1
       PROVE  Takes(z.redo[k], D[n - 1 + (m + 1) - k], D[n - 1 + (m + 1) - k + 1], z.dominant)
  <2>1. n - 1 + (m + 1) - k = n + m - k
      BY <1>2
  <2>2. CASE k = m + 1
    <3>1. n + m - k = n - 1 /\ n + m - k + 1 = n
        BY <1>2, <2>2
    <3>2. z.redo[k] = e
        BY <1>5, <2>2
    <3> QED BY <1>3, <1>8, <2>1, <3>1, <3>2
  <2>3. CASE k # m + 1
    <3>1. k \in 1 .. m
        BY <1>2, <2>3
    <3>2. z.redo[k] = b.redo[k]
        BY <1>5, <3>1
    <3>3. Takes(b.redo[k], D[n + m - k], D[n + m - k + 1], most)
        BY <1>7, <3>1
    <3> QED BY <1>3, <2>1, <3>2, <3>3
  <2> QED BY <2>2, <2>3
<1>11. Inside(z.lines, z.cursor)
    BY <1>1, <1>3
<1>12. History(z, D)
    BY <1>2, <1>3, <1>4, <1>5, <1>6, <1>9, <1>10, <1>11 DEF History
<1> QED BY <1>3, <1>4, <1>5, <1>12 DEF z, n, m

LEMMA RedoKeeps ==
    ASSUME NEW b, NEW D, History(b, D), Len(b.redo) > 0
    PROVE  /\ History(Redo(b), D) /\ Len(Redo(b).undo) = Len(b.undo) + 1
           /\ Len(Redo(b).redo) = Len(b.redo) - 1
           /\ Redo(b).trailing = b.trailing /\ Redo(b).bom = b.bom
           /\ Redo(b).savedAt = b.savedAt /\ ~Redo(b).coalescing
<1> DEFINE n == Len(b.undo)
           m == Len(b.redo)
           e == b.redo[m]
           z == Redo(b)
           most == b.dominant
<1>1. PICK c \in Place :
        /\ Inside(D[n + 1].lines, c)
        /\ Became(z, b, D[n + 1], c, Append(b.undo, e), Front(b.redo))
    BY RedoIs
<1>2. /\ n \in Nat /\ m > 0 /\ m \in Nat /\ n + 1 \in Nat /\ b.undo \in Seq(Edits)
      /\ b.redo \in Seq(Edits) /\ e \in Edits /\ D[n + 1] \in Docs /\ D \in [Nat -> Docs]
  <2>1. n \in Nat /\ m > 0 /\ m \in Nat /\ n + 1 \in Nat /\ m \in 1 .. m
      BY HistoryIs
  <2> HIDE DEF e
  <2>2. D[n + 1] \in Docs /\ D \in [Nat -> Docs]
      BY <2>1, HistoryIs DEF History
  <2> QED BY <2>1, <2>2, HistoryIs DEF e
<1> HIDE DEF z
<1>3. /\ z \in Buffers /\ z.lines = D[n + 1].lines /\ z.eols = D[n + 1].eols /\ z.cursor = c
      /\ z.undo = Append(b.undo, e) /\ z.redo = Front(b.redo) /\ z.dominant = most
      /\ z.trailing = b.trailing /\ z.bom = b.bom /\ z.savedAt = b.savedAt /\ z.coalescing = FALSE
    BY <1>1 DEF Became
<1>4. Len(z.redo) = m - 1 /\ \A k \in 1 .. m - 1 : z.redo[k] = b.redo[k]
    BY <1>2, <1>3, FrontLast
<1>5. Len(z.undo) = n + 1 /\ z.undo[n + 1] = e /\ \A k \in 1 .. n : z.undo[k] = b.undo[k]
    BY <1>2, <1>3, AppendProperties
<1>6. DocOf(z) = D[n + 1]
  <2> DEFINE d == D[n + 1]
  <2>1. d \in Docs /\ z.lines = d.lines /\ z.eols = d.eols
      BY <1>2, <1>3
  <2> HIDE DEF d
  <2>2. d = [lines |-> d.lines, eols |-> d.eols]
      BY <2>1 DEF Docs
  <2>3. DocOf(z) = d
      BY <2>1, <2>2 DEF DocOf
  <2> QED BY <2>3 DEF d
<1>7. /\ \A k \in 1 .. n : Takes(b.undo[k], D[k - 1], D[k], most)
      /\ \A k \in 1 .. m : Takes(b.redo[k], D[n + m - k], D[n + m - k + 1], most)
    BY DEF History
<1>8. Takes(e, D[n], D[n + 1], most)
  <2>1. m \in 1 .. m
      BY <1>2
  <2>2. n + m - m = n
      BY <1>2
  <2> QED BY <1>7, <2>1, <2>2
<1> HIDE DEF e, n, m, most
<1>9. ASSUME NEW k \in 1 .. m - 1
      PROVE  Takes(z.redo[k], D[n + 1 + (m - 1) - k], D[n + 1 + (m - 1) - k + 1], z.dominant)
  <2>1. k \in 1 .. m /\ n + 1 + (m - 1) - k = n + m - k
      BY <1>2
  <2>2. z.redo[k] = b.redo[k]
      BY <1>4
  <2>3. Takes(b.redo[k], D[n + m - k], D[n + m - k + 1], most)
      BY <1>7, <2>1
  <2> QED BY <1>3, <2>1, <2>2, <2>3
<1>10. ASSUME NEW k \in 1 .. n + 1 PROVE Takes(z.undo[k], D[k - 1], D[k], z.dominant)
  <2>1. CASE k = n + 1
    <3>1. k - 1 = n
        BY <1>2, <2>1
    <3>2. z.undo[k] = e
        BY <1>5, <2>1
    <3> QED BY <1>3, <1>8, <2>1, <3>1, <3>2
  <2>2. CASE k # n + 1
    <3>1. k \in 1 .. n
        BY <1>2, <2>2
    <3> QED BY <1>3, <1>5, <1>7, <3>1
  <2> QED BY <2>1, <2>2
<1>11. Inside(z.lines, z.cursor)
    BY <1>1, <1>3
<1>12. History(z, D)
    BY <1>2, <1>3, <1>4, <1>5, <1>6, <1>9, <1>10, <1>11 DEF History
<1> QED BY <1>3, <1>4, <1>5, <1>12 DEF z, n, m

LEMMA RedoneIs ==
    ASSUME NEW b, NEW D, History(b, D), b.undo # <<>>
    PROVE  Redo(Undo(b)).lines = b.lines /\ Redo(Undo(b)).eols = b.eols
<1> DEFINE z == Undo(b)
           w == Redo(z)
<1>1. Len(b.undo) > 0 /\ Len(b.undo) \in Nat /\ Len(b.redo) \in Nat
    BY HistoryIs
<1>2. History(z, D) /\ Len(z.undo) = Len(b.undo) - 1 /\ Len(z.redo) = Len(b.redo) + 1
    BY <1>1, UndoKeeps
<1> HIDE DEF z
<1>3. Len(z.redo) > 0
    BY <1>1, <1>2
<1>4. History(w, D) /\ Len(w.undo) = Len(z.undo) + 1
    BY <1>2, <1>3, RedoKeeps
<1> HIDE DEF w
<1>5. Len(w.undo) = Len(b.undo)
    BY <1>1, <1>2, <1>4
<1>6. DocOf(w) = DocOf(b)
    BY <1>4, <1>5 DEF History
<1>7. w.lines = b.lines /\ w.eols = b.eols
    BY <1>6 DEF DocOf
<1> QED BY <1>7 DEF w, z

\* The bytes of a document, written the way b is.
BytesOf(d, b) == ToBytes([lines |-> d.lines, eols |-> d.eols, trailing |-> b.trailing, bom |-> b.bom])

LEMMA BytesAre ==
    ASSUME NEW b PROVE ToBytes(b) = BytesOf(DocOf(b), b)
BY DEF ToBytes, BytesOf, DocOf, Ended

LEMMA BytesAgree ==
    ASSUME NEW d, NEW b, NEW z, z.trailing = b.trailing, z.bom = b.bom
    PROVE  BytesOf(d, z) = BytesOf(d, b)
BY DEF BytesOf

\* A text knows how it was opened, and whether it is as it was last saved.
Remembers(b, D, loaded, base) ==
    /\ History(b, D)
    /\ BytesOf(D[0], b) = loaded
    /\ b.savedAt # NoSave => /\ b.savedAt \in 0 .. Len(b.undo) + Len(b.redo)
                             /\ BytesOf(D[b.savedAt], b) = base
    /\ b.coalescing => b.savedAt < Len(b.undo)

\* What an edit takes out and what it leaves.
LEMMA EditIs ==
    ASSUME NEW b, NEW D, History(b, D), NEW from, NEW to,
           Inside(b.lines, from), Inside(b.lines, to), InOrderOf(from, to), NEW text \in Texts
    PROVE  LET f       == Clamp(b, Earlier(from, to))
               t       == Clamp(b, Later(from, to))
               R       == Replaced(DocOf(b), from, to, text, <<>>, b.dominant)
               removed == Slice(b, from, to)
               after   == Advance(from, text)
           IN  /\ f = from /\ t = to /\ Replace(b, from, to, text, <<>>) = Turned(b, R)
               /\ R \in Docs /\ Inside(R.lines, after) /\ after \in Place
               /\ removed \in Texts /\ Split(removed) = Between(b.lines, from, to)
               /\ Advance(from, removed) = to
               /\ SubSeq(b.eols, from.line, to.line - 1) \in Seq(LineSet)
               /\ from \in Place /\ to \in Place
<1> DEFINE ls == b.lines
           R == Replaced(DocOf(b), from, to, text, <<>>, b.dominant)
           removed == Slice(b, from, to)
           after == Advance(from, text)
<1>1. /\ b \in Buffers /\ ls \in Lines /\ b.eols \in Seq(LineSet) /\ Len(b.eols) = Len(ls)
      /\ DocOf(b) \in Docs /\ DocOf(b).lines = ls /\ b.dominant \in LineSet
  <2>1. DocOf(b).lines = ls
      BY DEF DocOf
  <2> QED BY <2>1, HistoryIs DEF History
<1>2. from \in Place /\ to \in Place /\ from.line <= to.line /\ to.line <= Len(b.eols)
    BY <1>1 DEF Inside, InOrderOf, Place
<1>3. Earlier(from, to) = from /\ Later(from, to) = to
    BY <1>2 DEF Earlier, Later, Before, InOrderOf, Place
<1>4. Clamp(b, from) = from /\ Clamp(b, to) = to
    BY <1>1, ClampIs
<1> DEFINE none == <<>>
<1>5. none \in Seq(LineSet)
    OBVIOUS
<1>6. Replace(b, from, to, text, none) = Turned(b, Replaced(DocOf(b), from, to, text, none, b.dominant))
  <2> HIDE DEF none
  <2> QED BY <1>1, <1>5, ReplaceTurns
<1>7. R \in Docs /\ Inside(R.lines, after)
  <2>1. LET r == Replaced(DocOf(b), from, to, text, none, b.dominant)
            u == Advance(from, text)
        IN  /\ r \in Docs
            /\ Inside(r.lines, from) /\ Inside(r.lines, u) /\ InOrderOf(from, u)
    <3> DEFINE d == DocOf(b)
               most == b.dominant
    <3>1. d \in Docs /\ Inside(d.lines, from) /\ Inside(d.lines, to) /\ most \in LineSet
        BY <1>1
    <3> HIDE DEF none, d, most
    <3>2. LET r == Replaced(d, from, to, text, none, most)
              u == Advance(from, text)
          IN  /\ r \in Docs
              /\ Inside(r.lines, from) /\ Inside(r.lines, u) /\ InOrderOf(from, u)
        BY <1>5, <3>1, ReplacedIs
    <3> QED BY <3>2 DEF d, most
  <2> QED BY <2>1
<1>8. after \in Place
    BY <1>7 DEF Inside
<1>9. removed \in Texts /\ Split(removed) = Between(ls, from, to)
    BY <1>1, SliceIs
<1>10. Advance(from, removed) = to
  <2>1. EndOf(from, Between(ls, from, to)) = to
      BY <1>1, BetweenIs
  <2>2. Advance(from, removed) = EndOf(from, Split(removed))
    <3> HIDE DEF removed
    <3> QED BY <1>2, <1>9, AdvanceIs
  <2> QED BY <1>9, <2>1, <2>2
<1>11. SubSeq(b.eols, from.line, to.line - 1) \in Seq(LineSet)
  <2>1. from.line \in Nat /\ from.line > 0 /\ to.line \in Nat /\ Len(b.eols) \in Nat
      BY <1>1, <1>2, LenProperties DEF Place
  <2>2. \A i \in from.line .. to.line - 1 : b.eols[i] \in LineSet
    <3>1. \A i \in from.line .. to.line - 1 : i \in 1 .. Len(b.eols)
        BY <1>2, <2>1
    <3> QED BY <1>1, <3>1, ElementOfSeq
  <2>3. from.line \in Int /\ to.line - 1 \in Int
      BY <2>1
  <2> QED BY <2>2, <2>3, SubSeqProperties
<1> QED BY <1>2, <1>3, <1>4, <1>6, <1>7, <1>8, <1>9, <1>10, <1>11

LEMMA ApplyFresh ==
    ASSUME NEW b, NEW D, NEW loaded, NEW base, Remembers(b, D, loaded, base), NEW from, NEW to,
           Inside(b.lines, from), Inside(b.lines, to), InOrderOf(from, to), NEW text \in Texts,
           NEW co \in BOOLEAN, ~Coalesces(b, Slice(b, from, to), co)
    PROVE  \E D2 : Remembers(Apply(b, from, to, text, co), D2, loaded, base)
<1> DEFINE n == Len(b.undo)
           R == Replaced(DocOf(b), from, to, text, <<>>, b.dominant)
           removed == Slice(b, from, to)
           after == Advance(from, text)
           ends == SubSeq(b.eols, from.line, to.line - 1)
           e == [from |-> from, removed |-> removed, eols |-> ends, inserted |-> text,
                 before |-> b.cursor, after |-> after]
           r == Turned(b, R)
           z == Apply(b, from, to, text, co)
           D2 == [k \in Nat |-> IF k <= n THEN D[k] ELSE R]
           most == b.dominant
<1>1. /\ History(b, D) /\ b \in Buffers /\ n \in Nat /\ b.undo \in Seq(Edits) /\ b.cursor \in Place
      /\ most \in LineSet /\ D \in [Nat -> Docs] /\ DocOf(b) = D[n] /\ DocOf(b) \in Docs
      /\ b.savedAt \in Int
    BY HistoryIs DEF Remembers, History, Buffers
<1>2. /\ Clamp(b, Earlier(from, to)) = from /\ Clamp(b, Later(from, to)) = to
      /\ Replace(b, from, to, text, <<>>) = r
      /\ R \in Docs /\ Inside(R.lines, after) /\ after \in Place
      /\ removed \in Texts /\ Split(removed) = Between(b.lines, from, to)
      /\ Advance(from, removed) = to /\ ends \in Seq(LineSet) /\ from \in Place /\ to \in Place
    BY <1>1, EditIs
<1>3. z = [[r EXCEPT !.cursor = after, !.redo = <<>>] EXCEPT
             !.savedAt = IF @ > n THEN NoSave ELSE @,
             !.undo = Append(@, e), !.coalescing = co]
  <2> HIDE DEF r, removed, after, ends, R, n
  <2> QED BY <1>2, Zenon DEF Apply, removed, after, ends, n
<1>4. e \in Edits
  <2> HIDE DEF removed, after, ends
  <2> QED BY <1>1, <1>2 DEF Edits
<1>5. /\ r \in Buffers /\ r.lines = R.lines /\ r.eols = R.eols
      /\ r.trailing = b.trailing /\ r.bom = b.bom /\ r.dominant = most
      /\ r.undo = b.undo /\ r.savedAt = b.savedAt
  <2> HIDE DEF R
  <2> QED BY <1>1, <1>2, TurnedIs
<1>6. e.from = from /\ e.removed = removed /\ e.inserted = text /\ e.after = after /\ e.eols = ends
    OBVIOUS
<1> HIDE DEF r, e, z
<1> DEFINE s == IF b.savedAt > n THEN NoSave ELSE b.savedAt
<1>7. s \in Int /\ s <= n /\ (s # NoSave => s = b.savedAt)
    BY <1>1 DEF NoSave
<1>8. Append(b.undo, e) \in Seq(Edits) /\ <<>> \in Seq(Edits)
    BY <1>1, <1>4, AppendProperties
<1>9. z = [[r EXCEPT !.cursor = after, !.redo = <<>>] EXCEPT
             !.savedAt = s, !.undo = Append(b.undo, e), !.coalescing = co]
  <2> DEFINE q == [r EXCEPT !.cursor = after, !.redo = <<>>]
  <2>1. q.savedAt = b.savedAt /\ q.undo = b.undo
      BY <1>5 DEF Buffers
  <2> HIDE DEF q, after, n
  <2>2. z = [q EXCEPT !.savedAt = IF q.savedAt > n THEN NoSave ELSE q.savedAt,
                      !.undo = Append(q.undo, e), !.coalescing = co]
      BY <1>3 DEF q
  <2> QED BY <2>1, <2>2 DEF q
<1> HIDE DEF s, after
<1>10. z \in Buffers
    BY <1>2, <1>5, <1>7, <1>8, <1>9 DEF Buffers
<1>11. /\ z.lines = R.lines /\ z.eols = R.eols /\ z.trailing = b.trailing /\ z.bom = b.bom
       /\ z.dominant = most /\ z.cursor = after /\ z.redo = <<>> /\ z.savedAt = s
       /\ z.undo = Append(b.undo, e) /\ z.coalescing = co
  <2> HIDE DEF R, most
  <2> QED BY <1>5, <1>9 DEF Buffers
<1>12. Len(z.undo) = n + 1 /\ z.undo[n + 1] = e /\ \A k \in 1 .. n : z.undo[k] = b.undo[k]
    BY <1>1, <1>4, <1>11, AppendProperties
<1>13. Len(z.redo) = 0
    BY <1>11
<1>14. D2 \in [Nat -> Docs] /\ D2[n + 1] = R /\ \A k \in 0 .. n : D2[k] = D[k]
  <2> HIDE DEF R, n
  <2>1. D2 \in [Nat -> Docs]
      BY <1>1, <1>2
  <2>2. n + 1 \in Nat /\ ~(n + 1 <= n)
      BY <1>1
  <2>3. D2[n + 1] = R
      BY <2>2
  <2>4. \A k \in 0 .. n : D2[k] = D[k]
      BY <1>1
  <2> QED BY <2>1, <2>3, <2>4
<1> HIDE DEF D2
<1>15. DocOf(z) = D2[n + 1]
  <2>1. R = [lines |-> R.lines, eols |-> R.eols]
    <3> HIDE DEF R
    <3> QED BY <1>2 DEF Docs
  <2> HIDE DEF R
  <2> QED BY <1>11, <1>14, <2>1 DEF DocOf
<1>16. Takes(e, D[n], R, most)
  <2>1. D[n].lines = b.lines /\ D[n].eols = b.eols
      BY <1>1 DEF DocOf
  <2> HIDE DEF R, removed, most
  <2>2. Takes(e, DocOf(b), R, most)
    <3>1. DocOf(b).lines = b.lines /\ DocOf(b).eols = b.eols
        BY DEF DocOf
    <3> DEFINE d == DocOf(b)
    <3> HIDE DEF d
    <3>2. d.lines = b.lines /\ d.eols = b.eols
        BY <3>1 DEF d
    <3>3. R = Replaced(d, from, to, text, <<>>, most)
        BY DEF R, most, d
    <3>4. after = Advance(from, text)
        BY DEF after
    <3>5. Takes(e, d, R, most)
        BY <1>2, <1>6, <3>2, <3>3, <3>4 DEF Takes
    <3> QED BY <3>5 DEF d
  <2> QED BY <1>1, <2>2
<1>17. \A k \in 1 .. n : Takes(b.undo[k], D[k - 1], D[k], most)
    BY <1>1 DEF History
<1> HIDE DEF R, n, most, removed
<1>18. ASSUME NEW k \in 1 .. n + 1 PROVE Takes(z.undo[k], D2[k - 1], D2[k], z.dominant)
  <2>1. CASE k = n + 1
    <3>1. k - 1 = n /\ n \in 0 .. n
        BY <1>1, <2>1
    <3>2. D2[k - 1] = D[n] /\ D2[k] = R /\ z.undo[k] = e
        BY <1>12, <1>14, <2>1, <3>1
    <3> QED BY <1>11, <1>16, <3>2
  <2>2. CASE k # n + 1
    <3>1. k \in 1 .. n /\ k \in 0 .. n /\ k - 1 \in 0 .. n
        BY <1>1, <2>2
    <3>2. D2[k - 1] = D[k - 1] /\ D2[k] = D[k] /\ z.undo[k] = b.undo[k]
        BY <1>12, <1>14, <3>1
    <3> QED BY <1>11, <1>17, <3>1, <3>2
  <2> QED BY <2>1, <2>2
<1>19. Inside(z.lines, z.cursor)
    BY <1>2, <1>11
<1>20. History(z, D2)
  <2>1. \A k \in 1 .. Len(z.redo) : FALSE
      BY <1>13
  <2> QED BY <1>10, <1>12, <1>14, <1>15, <1>18, <1>19, <2>1 DEF History
<1>21. BytesOf(D2[0], z) = loaded
  <2>1. D2[0] = D[0]
      BY <1>1, <1>14
  <2>2. BytesOf(D[0], z) = BytesOf(D[0], b)
      BY <1>11, BytesAgree
  <2> QED BY <2>1, <2>2 DEF Remembers
<1>22. z.savedAt # NoSave => /\ z.savedAt \in 0 .. Len(z.undo) + Len(z.redo)
                             /\ BytesOf(D2[z.savedAt], z) = base
  <2> SUFFICES ASSUME s # NoSave
               PROVE  s \in 0 .. (n + 1) + 0 /\ BytesOf(D2[s], z) = base
      BY <1>11, <1>12, <1>13
  <2>1. s = b.savedAt /\ s \in 0 .. n
    <3>1. s \in 0 .. n + Len(b.redo)
        BY <1>7 DEF Remembers, n
    <3>2. Len(b.redo) \in Nat
        BY <1>1, HistoryIs
    <3> QED BY <1>1, <1>7, <3>1, <3>2
  <2>2. BytesOf(D[s], b) = base
      BY <2>1 DEF Remembers
  <2>3. BytesOf(D[s], z) = BytesOf(D[s], b)
      BY <1>11, BytesAgree
  <2>4. D2[s] = D[s]
      BY <1>14, <2>1
  <2>5. s \in 0 .. (n + 1) + 0
      BY <1>1, <2>1
  <2> QED BY <2>2, <2>3, <2>4, <2>5
<1>23. z.savedAt < Len(z.undo)
    BY <1>1, <1>7, <1>11, <1>12
<1>24. Remembers(z, D2, loaded, base)
    BY <1>20, <1>21, <1>22, <1>23 DEF Remembers
<1> QED BY <1>24 DEF z

\* One more character of a run of typing: entry n grows, the text after it changes.
LEMMA GrownIs ==
    ASSUME NEW d \in Docs, NEW e \in Edits, NEW d2, NEW most \in LineSet, Takes(e, d, d2, most),
           NEW c \in Byte, NEW e1 \in Edits,
           e1.from = e.from, e1.removed = e.removed, e1.eols = e.eols,
           e1.inserted = e.inserted \o <<c>>, e1.after = Advance(e.after, <<c>>)
    PROVE  Takes(e1, d, Replaced(d2, e.after, e.after, <<c>>, <<>>, most), most)
<1> DEFINE f == e.from
           t == Advance(f, e.removed)
           a == e.after
           T == Split(e.inserted)
           ls == d.lines
           es == d.eols
           two == Typed(T, c)
           none == <<>>
           new == e.inserted \o <<c>>
<1>1. /\ f \in Place /\ e.inserted \in Texts /\ e.removed \in Texts /\ ls \in Lines
      /\ es \in Seq(LineSet) /\ Len(es) = Len(ls) /\ none \in Seq(LineSet)
    BY DEF Edits, Docs
<1>2. /\ Inside(ls, f) /\ Inside(ls, t) /\ InOrderOf(f, t)
      /\ Split(e.removed) = Between(ls, f, t) /\ e.eols = SubSeq(es, f.line, t.line - 1)
      /\ d2 = Replaced(d, f, t, e.inserted, none, most) /\ a = Advance(f, e.inserted)
    BY DEF Takes
<1>3. T \in Lines /\ Len(T) \in Nat /\ Len(T) > 0
    BY <1>1, SplitIs, LinesAre
<1>4. a = EndOf(f, T)
    BY <1>1, <1>2, AdvanceIs
<1>5. c \in Chars /\ <<c>> \in LineSet /\ <<c>> \in Texts /\ Split(<<c>>) = << <<c>> >>
  <2>1. <<c>> \in LineSet
      BY DEF LineSet
  <2> QED BY <2>1, SplitLine, LinesAreTexts DEF Chars
<1>6. new = Append(e.inserted, c) /\ new \in Texts
  <2>1. e.inserted \in Seq(Chars)
      BY <1>1 DEF Texts
  <2> DEFINE q == e.inserted
  <2> HIDE DEF q
  <2>2. q \in Seq(Chars) /\ c \in Chars
      BY <1>5, <2>1 DEF q
  <2>3. q \o <<c>> = Append(q, c)
      BY <2>2
  <2>4. Append(q, c) \in Seq(Chars)
      BY <2>2, AppendProperties
  <2> QED BY <2>3, <2>4 DEF q, Texts
<1>7. Split(new) = two
    BY <1>1, <1>5, <1>6, SplitTyped
<1>8. /\ PutBetween(PutBetween(ls, f, t, T), a, a, << <<c>> >>) = PutBetween(ls, f, t, two)
      /\ EndOf(a, << <<c>> >>) = EndOf(f, two) /\ Len(two) = Len(T)
  <2> HIDE DEF ls, f, t, T
  <2>1. LET v == EndOf(f, T)
            w == Typed(T, c)
        IN  /\ PutBetween(PutBetween(ls, f, t, T), v, v, << <<c>> >>) = PutBetween(ls, f, t, w)
            /\ EndOf(v, << <<c>> >>) = EndOf(f, w)
            /\ w \in Lines /\ Len(w) = Len(T) /\ << <<c>> >> \in Lines
      BY <1>1, <1>2, <1>3, PutMore
  <2> QED BY <1>4, <2>1
<1>9. d2.lines = PutBetween(ls, f, t, T) /\ d2.eols = PutEnds(es, f, t, Len(T), none, most)
    BY <1>2 DEF Replaced
<1>10. d2 \in Docs /\ Inside(d2.lines, a)
  <2>1. LET r == Replaced(d, f, t, e.inserted, none, most)
            u == Advance(f, e.inserted)
        IN  /\ r \in Docs
            /\ Inside(r.lines, f) /\ Inside(r.lines, u) /\ InOrderOf(f, u)
    <3> DEFINE ins == e.inserted
    <3> HIDE DEF f, t, none, ins
    <3>0. ins \in Texts /\ Inside(d.lines, f) /\ Inside(d.lines, t)
        BY <1>1, <1>2 DEF ins
    <3>1. LET r == Replaced(d, f, t, ins, none, most)
              u == Advance(f, ins)
          IN  /\ r \in Docs
              /\ Inside(r.lines, f) /\ Inside(r.lines, u) /\ InOrderOf(f, u)
        BY <1>1, <1>2, <3>0, ReplacedIs
    <3> QED BY <3>1 DEF ins
  <2> QED BY <1>2, <2>1
<1>11. d2.eols \in Seq(LineSet) /\ a \in Place /\ a.line <= Len(d2.eols)
    BY <1>10 DEF Docs, Inside
<1>12. PutEnds(d2.eols, a, a, 1, none, most) = d2.eols
  <2>1. \A q \in Seq(LineSet), p \in Place : p.line <= Len(q) => PutEnds(q, p, p, 1, <<>>, most) = q
      BY EndsStay
  <2> HIDE DEF a
  <2> QED BY <1>11, <2>1
<1>13. Len(<< <<c>> >>) = 1
    OBVIOUS
<1>14. Replaced(d2, a, a, <<c>>, none, most) = Replaced(d, f, t, new, none, most)
  <2>1. Replaced(d2, a, a, <<c>>, none, most)
          = [lines |-> PutBetween(d2.lines, a, a, << <<c>> >>),
             eols |-> PutEnds(d2.eols, a, a, 1, none, most)]
      BY <1>5, <1>13 DEF Replaced
  <2>2. Replaced(d, f, t, new, none, most)
          = [lines |-> PutBetween(ls, f, t, two), eols |-> PutEnds(es, f, t, Len(two), none, most)]
      BY <1>7 DEF Replaced
  <2> HIDE DEF ls, es, f, t, T, two, new, none, a
  <2> QED BY <1>8, <1>9, <1>12, <2>1, <2>2
<1>15. e1.after = Advance(f, new)
  <2>1. Advance(f, new) = EndOf(f, two)
      BY <1>1, <1>6, <1>7, AdvanceIs
  <2>2. Advance(a, <<c>>) = EndOf(a, << <<c>> >>)
      BY <1>5, <1>11, AdvanceIs
  <2> QED BY <1>8, <2>1, <2>2
<1> HIDE DEF f, t, ls, es, new, a, none
<1>16. Takes(e1, d, Replaced(d, f, t, new, none, most), most)
  <2>1. e1.from = f /\ e1.inserted = new
      BY DEF f, new
  <2>2. Advance(e1.from, e1.removed) = t
      BY DEF t, f
  <2> QED BY <1>2, <1>15, <2>1, <2>2 DEF Takes, ls, es, none
<1> QED BY <1>14, <1>16 DEF a, none

LEMMA ApplyMore ==
    ASSUME NEW b, NEW D, NEW loaded, NEW base, Remembers(b, D, loaded, base), NEW c \in Byte,
           Coalesces(b, Slice(b, b.cursor, b.cursor), TRUE)
    PROVE  \E D2 : Remembers(Apply(b, b.cursor, b.cursor, <<c>>, TRUE), D2, loaded, base)
<1> DEFINE n == Len(b.undo)
           at == b.cursor
           e0 == b.undo[n]
           R == Replaced(DocOf(b), at, at, <<c>>, <<>>, b.dominant)
           after == Advance(at, <<c>>)
           e1 == [e0 EXCEPT !.inserted = @ \o <<c>>, !.after = after]
           r == Turned(b, R)
           z == Apply(b, at, at, <<c>>, TRUE)
           D2 == [k \in Nat |-> IF k < n THEN D[k] ELSE R]
           most == b.dominant
<1>1. /\ History(b, D) /\ b \in Buffers /\ n \in Nat /\ b.undo \in Seq(Edits) /\ at \in Place
      /\ most \in LineSet /\ D \in [Nat -> Docs] /\ DocOf(b) = D[n] /\ DocOf(b) \in Docs
      /\ b.savedAt \in Int /\ Inside(b.lines, at)
    BY HistoryIs DEF Remembers, History, Buffers
<1>2. b.coalescing /\ n > 0 /\ Last(b.undo).after = at
    BY <1>1, HistoryIs DEF Coalesces
<1>3. Last(b.undo) = e0 /\ e0 \in Edits /\ e0.after = at
    BY <1>1, <1>2, FrontLast
<1>4. <<c>> \in Texts /\ InOrderOf(at, at)
  <2>1. c \in Chars
      BY DEF Chars
  <2> QED BY <1>1, <2>1 DEF Texts, InOrderOf, Place
<1>5. /\ Clamp(b, Earlier(at, at)) = at /\ Clamp(b, Later(at, at)) = at
      /\ Replace(b, at, at, <<c>>, <<>>) = r
      /\ R \in Docs /\ Inside(R.lines, after) /\ after \in Place
  <2> DEFINE text == <<c>>
  <2>1. text \in Texts
      BY <1>4
  <2> HIDE DEF text
  <2>2. LET f       == Clamp(b, Earlier(at, at))
            t       == Clamp(b, Later(at, at))
            RR      == Replaced(DocOf(b), at, at, text, <<>>, b.dominant)
            removed == Slice(b, at, at)
            aft     == Advance(at, text)
        IN  /\ f = at /\ t = at /\ Replace(b, at, at, text, <<>>) = Turned(b, RR)
            /\ RR \in Docs /\ Inside(RR.lines, aft) /\ aft \in Place
            /\ removed \in Texts /\ Split(removed) = Between(b.lines, at, at)
            /\ Advance(at, removed) = at
            /\ SubSeq(b.eols, at.line, at.line - 1) \in Seq(LineSet)
            /\ at \in Place /\ at \in Place
    <3> HIDE DEF at
    <3>1. Inside(b.lines, at)
        BY <1>1
    <3> QED BY <1>1, <1>4, <2>1, <3>1, EditIs
  <2> QED BY <2>2 DEF text
<1>6. e1 \in Edits /\ e1.from = e0.from /\ e1.removed = e0.removed /\ e1.eols = e0.eols
      /\ e1.inserted = e0.inserted \o <<c>> /\ e1.after = after
  <2> DEFINE ins == e0.inserted \o <<c>>
  <2>1. ins \in Texts
    <3>1. e0.inserted \in Seq(Chars) /\ <<c>> \in Seq(Chars)
        BY <1>3, <1>4 DEF Edits, Texts
    <3> HIDE DEF e0
    <3> QED BY <3>1, ConcatProperties DEF Texts
  <2>2. e1 = [e0 EXCEPT !.inserted = ins, !.after = after]
      OBVIOUS
  <2> HIDE DEF ins, after, e0, e1
  <2>3. e1 \in Edits /\ e1.from = e0.from /\ e1.removed = e0.removed /\ e1.eols = e0.eols
        /\ e1.inserted = ins /\ e1.after = after
      BY <1>3, <1>5, <2>1, <2>2 DEF Edits
  <2> QED BY <2>3 DEF ins
<1>7. /\ r \in Buffers /\ r.lines = R.lines /\ r.eols = R.eols
      /\ r.trailing = b.trailing /\ r.bom = b.bom /\ r.dominant = most
      /\ r.undo = b.undo /\ r.savedAt = b.savedAt /\ r.coalescing = b.coalescing
  <2> HIDE DEF R
  <2> QED BY <1>1, <1>5, TurnedIs
<1> DEFINE u1 == [b.undo EXCEPT ![n] = e1]
<1>8. z = [[r EXCEPT !.cursor = after, !.redo = <<>>] EXCEPT
             !.undo[n].inserted = @ \o <<c>>, !.undo[n].after = after]
  <2>1. Coalesces(b, Slice(b, at, at), TRUE)
      OBVIOUS
  <2> HIDE DEF r, R, n, at, after
  <2> QED BY <1>5, <2>1, Zenon DEF Apply, n, after
<1>9. n \in 1 .. n /\ n \in DOMAIN b.undo
  <2>1. DOMAIN b.undo = 1 .. n
      BY <1>1, LenProperties
  <2> QED BY <1>1, <1>2, <2>1
<1>10. z = [[r EXCEPT !.cursor = after, !.redo = <<>>] EXCEPT !.undo = u1]
  <2> DEFINE q == [r EXCEPT !.cursor = after, !.redo = <<>>]
  <2>1. q.undo = b.undo
      BY <1>7 DEF Buffers
  <2> HIDE DEF q, after, n, e0, e1
  <2>2. z = [q EXCEPT !.undo[n].inserted = @ \o <<c>>, !.undo[n].after = after]
      BY <1>8 DEF q
  <2>3. z = [q EXCEPT !.undo = [b.undo EXCEPT ![n] = [b.undo[n] EXCEPT !.inserted = @ \o <<c>>,
                                                                    !.after = after]]]
    <3> HIDE DEF z
    <3>0. n \in DOMAIN b.undo
        BY <1>9
    <3>1. [q EXCEPT !.undo[n].inserted = @ \o <<c>>]
            = [q EXCEPT !.undo = [b.undo EXCEPT ![n] = [b.undo[n] EXCEPT !.inserted = @ \o <<c>>]]]
        BY <2>1
    <3> QED BY <2>1, <2>2, <3>0, <3>1
  <2>4. e1 = [b.undo[n] EXCEPT !.inserted = @ \o <<c>>, !.after = after]
      BY DEF e1, e0
  <2> QED BY <2>3, <2>4 DEF q
<1>11. u1 \in Seq(Edits) /\ Len(u1) = n /\ u1[n] = e1 /\ \A k \in 1 .. n - 1 : u1[k] = b.undo[k]
  <2> HIDE DEF n, e1, e0
  <2>1. u1 \in Seq(Edits) /\ Len(u1) = Len(b.undo)
      BY <1>1, <1>6, <1>9, ExceptSeq
  <2>2. u1[n] = e1 /\ \A k \in 1 .. n - 1 : u1[k] = b.undo[k]
    <3>1. DOMAIN b.undo = 1 .. n
        BY <1>1, LenProperties DEF n
    <3>2. \A k \in 1 .. n - 1 : k \in 1 .. n /\ k # n
        BY <1>1
    <3> QED BY <1>9, <3>1, <3>2
  <2> QED BY <2>1, <2>2 DEF n
<1> HIDE DEF e1, e0, after, z, r, u1
<1>12. z \in Buffers
  <2> DEFINE none == <<>>
  <2>1. none \in Seq(Edits)
      OBVIOUS
  <2>2. z = [[r EXCEPT !.cursor = after, !.redo = none] EXCEPT !.undo = u1]
      BY <1>10
  <2> HIDE DEF none
  <2> QED BY <1>5, <1>7, <1>11, <2>1, <2>2 DEF Buffers
<1>13. /\ z.lines = R.lines /\ z.eols = R.eols /\ z.trailing = b.trailing /\ z.bom = b.bom
       /\ z.dominant = most /\ z.cursor = after /\ z.redo = <<>> /\ z.savedAt = b.savedAt
       /\ z.undo = u1 /\ z.coalescing = b.coalescing
  <2> HIDE DEF R, most
  <2> QED BY <1>7, <1>10 DEF Buffers
<1>14. D2 \in [Nat -> Docs] /\ D2[n] = R /\ \A k \in 0 .. n - 1 : D2[k] = D[k]
  <2> HIDE DEF R, n
  <2>1. D2 \in [Nat -> Docs]
      BY <1>1, <1>5
  <2>2. n \in Nat /\ ~(n < n)
      BY <1>1
  <2>3. D2[n] = R
      BY <2>2
  <2>4. \A k \in 0 .. n - 1 : k \in Nat /\ k < n
      BY <1>1
  <2>5. \A k \in 0 .. n - 1 : D2[k] = D[k]
      BY <2>4
  <2> QED BY <2>1, <2>3, <2>5
<1> HIDE DEF D2
<1>15. DocOf(z) = D2[n]
  <2>1. R = [lines |-> R.lines, eols |-> R.eols]
    <3> HIDE DEF R
    <3> QED BY <1>5 DEF Docs
  <2> HIDE DEF R
  <2> QED BY <1>13, <1>14, <2>1 DEF DocOf
<1>16. n - 1 \in Nat /\ D[n - 1] \in Docs /\ Takes(e0, D[n - 1], D[n], most)
  <2>1. n - 1 \in Nat
      BY <1>1, <1>2
  <2>2. Takes(b.undo[n], D[n - 1], D[n], most)
    <3>1. n \in 1 .. n
        BY <1>9
    <3> QED BY <1>1, <3>1 DEF History
  <2> QED BY <1>1, <2>1, <2>2 DEF e0
<1>17. Takes(e1, D[n - 1], R, most)
  <2> DEFINE d0 == D[n - 1]
             d2 == D[n]
  <2>1. R = Replaced(d2, e0.after, e0.after, <<c>>, <<>>, most)
    <3> HIDE DEF n, at, most
    <3> QED BY <1>1, <1>3 DEF at, most
  <2>2. d0 \in Docs /\ Takes(e0, d0, d2, most) /\ e1.after = Advance(e0.after, <<c>>)
    <3>1. Advance(e0.after, <<c>>) = after
        BY <1>3 DEF after
    <3> QED BY <1>6, <1>16, <3>1
  <2> HIDE DEF d0, d2, R, most
  <2>3. Takes(e1, d0, Replaced(d2, e0.after, e0.after, <<c>>, <<>>, most), most)
      BY <1>1, <1>3, <1>6, <2>2, GrownIs
  <2>4. Takes(e1, d0, R, most)
      BY <2>1, <2>3
  <2> QED BY <2>4 DEF d0
<1>18. \A k \in 1 .. n : Takes(b.undo[k], D[k - 1], D[k], most)
    BY <1>1 DEF History
<1> HIDE DEF R, n, most
<1>19. ASSUME NEW k \in 1 .. n PROVE Takes(z.undo[k], D2[k - 1], D2[k], z.dominant)
  <2>1. k - 1 \in 0 .. n - 1
      BY <1>1
  <2>2. CASE k = n
    <3>1. D2[k - 1] = D[n - 1] /\ D2[k] = R /\ z.undo[k] = e1
        BY <1>11, <1>13, <1>14, <2>1, <2>2
    <3> QED BY <1>13, <1>17, <3>1
  <2>3. CASE k # n
    <3>1. k \in 1 .. n - 1 /\ k \in 0 .. n - 1
        BY <1>1, <2>3
    <3>2. D2[k - 1] = D[k - 1] /\ D2[k] = D[k] /\ z.undo[k] = b.undo[k]
        BY <1>11, <1>13, <1>14, <2>1, <3>1
    <3> QED BY <1>13, <1>18, <3>2
  <2> QED BY <2>2, <2>3
<1>20. Inside(z.lines, z.cursor)
    BY <1>5, <1>13
<1>21. Len(z.redo) = 0 /\ Len(z.undo) = n
    BY <1>11, <1>13
<1>22. History(z, D2)
  <2>1. \A k \in 1 .. Len(z.redo) : FALSE
      BY <1>21
  <2> QED BY <1>12, <1>14, <1>15, <1>19, <1>20, <1>21, <2>1 DEF History
<1>23. BytesOf(D2[0], z) = loaded
  <2>1. D2[0] = D[0]
    <3>1. 0 \in 0 .. n - 1
        BY <1>1, <1>2
    <3> QED BY <1>14, <3>1
  <2>2. BytesOf(D[0], z) = BytesOf(D[0], b)
      BY <1>13, BytesAgree
  <2> QED BY <2>1, <2>2 DEF Remembers
<1>24. b.savedAt < n
    BY <1>2 DEF Remembers, n
<1>25. z.savedAt # NoSave => /\ z.savedAt \in 0 .. Len(z.undo) + Len(z.redo)
                             /\ BytesOf(D2[z.savedAt], z) = base
  <2> SUFFICES ASSUME b.savedAt # NoSave
               PROVE  b.savedAt \in 0 .. n + 0 /\ BytesOf(D2[b.savedAt], z) = base
      BY <1>13, <1>21
  <2>1. b.savedAt \in 0 .. n - 1
    <3>1. b.savedAt \in 0 .. n + Len(b.redo) /\ Len(b.redo) \in Nat
        BY <1>1, HistoryIs DEF Remembers, n
    <3> QED BY <1>1, <1>24, <3>1
  <2>2. BytesOf(D[b.savedAt], b) = base
      BY DEF Remembers
  <2>3. BytesOf(D[b.savedAt], z) = BytesOf(D[b.savedAt], b)
      BY <1>13, BytesAgree
  <2>4. D2[b.savedAt] = D[b.savedAt]
      BY <1>14, <2>1
  <2>5. b.savedAt \in 0 .. n + 0
      BY <1>1, <2>1
  <2> QED BY <2>2, <2>3, <2>4, <2>5
<1>26. z.savedAt < Len(z.undo)
    BY <1>13, <1>21, <1>24
<1>27. Remembers(z, D2, loaded, base)
    BY <1>22, <1>23, <1>25, <1>26 DEF Remembers
<1> QED BY <1>27 DEF z

(***************************************************************************)
(* Every key of the editor.                                                *)
(***************************************************************************)
Alive(b, loaded, base) == \E D : Remembers(b, D, loaded, base)

LEMMA ApplyKeeps ==
    ASSUME NEW b, NEW loaded, NEW base, Alive(b, loaded, base), NEW from, NEW to,
           Inside(b.lines, from), Inside(b.lines, to), InOrderOf(from, to), NEW text \in Texts,
           NEW co \in BOOLEAN,
           co => from = b.cursor /\ to = b.cursor /\ \E c \in Byte : text = <<c>>
    PROVE  Alive(Apply(b, from, to, text, co), loaded, base)
<1>1. PICK D : Remembers(b, D, loaded, base)
    BY DEF Alive
<1>2. CASE Coalesces(b, Slice(b, from, to), co)
  <2>1. co = TRUE
      BY <1>2 DEF Coalesces
  <2>2. PICK c \in Byte : text = <<c>>
      BY <2>1
  <2>3. from = b.cursor /\ to = b.cursor
      BY <2>1
  <2>4. Coalesces(b, Slice(b, b.cursor, b.cursor), TRUE)
      BY <1>2, <2>1, <2>3
  <2>5. \E D2 : Remembers(Apply(b, b.cursor, b.cursor, <<c>>, TRUE), D2, loaded, base)
      BY <1>1, <2>4, ApplyMore
  <2> QED BY <2>1, <2>2, <2>3, <2>5 DEF Alive
<1>3. CASE ~Coalesces(b, Slice(b, from, to), co)
    BY <1>1, <1>3, ApplyFresh DEF Alive
<1> QED BY <1>2, <1>3

LEMMA AliveIs ==
    ASSUME NEW b, NEW loaded, NEW base, Alive(b, loaded, base)
    PROVE  /\ b \in Buffers /\ b.lines \in Lines /\ b.cursor \in Place /\ Inside(b.lines, b.cursor)
           /\ b.cursor.line \in Nat /\ b.cursor.line > 0 /\ b.cursor.line <= Len(b.lines)
           /\ b.cursor.col \in Nat /\ b.cursor.col <= Len(b.lines[b.cursor.line])
           /\ Len(b.lines) \in Nat /\ Len(b.eols) = Len(b.lines)
           /\ \A l \in 1 .. Len(b.lines) : b.lines[l] \in LineSet /\ Len(b.lines[l]) \in Nat
           /\ b.undo = <<>> <=> Len(b.undo) = 0
<1>1. PICK D : History(b, D)
    BY DEF Alive, Remembers
<1>2. b \in Buffers /\ b.lines \in Lines /\ Inside(b.lines, b.cursor) /\ Len(b.eols) = Len(b.lines)
      /\ (b.undo = <<>> <=> Len(b.undo) = 0)
    BY <1>1, HistoryIs DEF History
<1>3. \A l \in 1 .. Len(b.lines) : b.lines[l] \in LineSet /\ Len(b.lines[l]) \in Nat
    BY <1>2, LinesAre, LenProperties DEF LineSet
<1>4. Len(b.lines) \in Nat
    BY <1>2, LinesAre
<1> QED BY <1>2, <1>3, <1>4 DEF Inside, Place

LEMMA CursorIn ==
    ASSUME NEW ls \in Lines, NEW l \in Nat, l > 0, l <= Len(ls), NEW c \in Nat, c <= Len(ls[l])
    PROVE  Inside(ls, Cursor(l, c)) /\ Cursor(l, c).line = l /\ Cursor(l, c).col = c
BY DEF Inside, Cursor, Place

LEMMA TypingKeeps ==
    ASSUME NEW b, NEW loaded, NEW base, Alive(b, loaded, base)
    PROVE  /\ \A c \in Chars : Alive(InsertChar(b, c), loaded, base)
           /\ \A text \in Texts : Alive(InsertStr(b, text), loaded, base)
<1>1. Inside(b.lines, b.cursor) /\ InOrderOf(b.cursor, b.cursor)
    BY AliveIs DEF InOrderOf
<1>2. ASSUME NEW c \in Chars PROVE Alive(InsertChar(b, c), loaded, base)
  <2> DEFINE text == <<c>>
             co == c # NL
  <2>1. text \in Texts /\ co \in BOOLEAN
      BY DEF Texts
  <2>2. co => \E d \in Byte : text = <<d>>
      BY DEF Chars
  <2> HIDE DEF text, co
  <2>3. Alive(Apply(b, b.cursor, b.cursor, text, co), loaded, base)
      BY <1>1, <2>1, <2>2, ApplyKeeps
  <2> QED BY <2>3 DEF InsertChar, text, co
<1>3. ASSUME NEW text \in Texts PROVE Alive(InsertStr(b, text), loaded, base)
  <2> DEFINE co == FALSE
  <2>1. co \in BOOLEAN /\ ~co
      OBVIOUS
  <2> HIDE DEF co
  <2>2. Alive(Apply(b, b.cursor, b.cursor, text, co), loaded, base)
      BY <1>1, <2>1, ApplyKeeps
  <2> QED BY <2>2 DEF InsertStr, co
<1> QED BY <1>2, <1>3

LEMMA CuttingKeeps ==
    ASSUME NEW b, NEW loaded, NEW base, Alive(b, loaded, base)
    PROVE  Alive(Backspace(b), loaded, base) /\ Alive(Delete(b), loaded, base)
<1> DEFINE at == b.cursor
           l == at.line
           c == at.col
           ls == b.lines
           none == <<>>
           co == FALSE
<1>1. /\ ls \in Lines /\ Inside(ls, at) /\ l \in Nat /\ l > 0 /\ l <= Len(ls) /\ c \in Nat
      /\ c <= Len(ls[l]) /\ Len(ls) \in Nat
      /\ \A i \in 1 .. Len(ls) : ls[i] \in LineSet /\ Len(ls[i]) \in Nat
    BY AliveIs
<1>2. none \in Texts /\ co \in BOOLEAN /\ ~co
    BY EmptyLine
<1> HIDE DEF at, l, c, ls, none, co
<1>3. ASSUME NEW f, NEW t, Inside(ls, f), Inside(ls, t), InOrderOf(f, t)
      PROVE  Alive(Apply(b, f, t, none, co), loaded, base)
  <2>1. Inside(b.lines, f) /\ Inside(b.lines, t)
      BY <1>3 DEF ls
  <2> QED BY <1>2, <1>3, <2>1, ApplyKeeps
<1>4. at.line = l /\ at.col = c
    BY DEF l, c
<1>5. ASSUME c > 0 PROVE Alive(Apply(b, Cursor(l, c - 1), at, none, co), loaded, base)
  <2>1. c - 1 \in Nat /\ c - 1 <= Len(ls[l])
    <3>1. Len(ls[l]) \in Nat
        BY <1>1
    <3> QED BY <1>1, <1>5, <3>1
  <2>2. Inside(ls, Cursor(l, c - 1)) /\ Cursor(l, c - 1).line = l /\ Cursor(l, c - 1).col = c - 1
      BY <1>1, <2>1, CursorIn
  <2>3. InOrderOf(Cursor(l, c - 1), at)
      BY <1>1, <1>4, <2>2 DEF InOrderOf
  <2> QED BY <1>1, <1>3, <2>2, <2>3
<1>6. ASSUME l > 1
      PROVE  Alive(Apply(b, Cursor(l - 1, LineLen(b, l - 1)), at, none, co), loaded, base)
  <2> DEFINE m == LineLen(b, l - 1)
  <2>1. l - 1 \in Nat /\ l - 1 > 0 /\ l - 1 <= Len(ls) /\ l - 1 \in 1 .. Len(ls)
      BY <1>1, <1>6
  <2>2. m = Len(ls[l - 1]) /\ m \in Nat
      BY <1>1, <2>1 DEF LineLen, ls
  <2> HIDE DEF m
  <2>3. Inside(ls, Cursor(l - 1, m)) /\ Cursor(l - 1, m).line = l - 1
      BY <1>1, <2>1, <2>2, CursorIn, SMTT(30)
  <2>4. InOrderOf(Cursor(l - 1, m), at)
      BY <1>1, <1>4, <2>3 DEF InOrderOf
  <2>5. Alive(Apply(b, Cursor(l - 1, m), at, none, co), loaded, base)
      BY <1>1, <1>3, <2>3, <2>4
  <2> QED BY <2>5 DEF m
<1>7. ASSUME c < LineLen(b, l)
      PROVE  Alive(Apply(b, at, Cursor(l, c + 1), none, co), loaded, base)
  <2>1. c + 1 \in Nat /\ c + 1 <= Len(ls[l])
    <3>1. Len(ls[l]) \in Nat /\ LineLen(b, l) = Len(ls[l])
        BY <1>1 DEF LineLen, ls
    <3> QED BY <1>1, <1>7, <3>1
  <2>2. Inside(ls, Cursor(l, c + 1)) /\ Cursor(l, c + 1).line = l /\ Cursor(l, c + 1).col = c + 1
      BY <1>1, <2>1, CursorIn
  <2>3. InOrderOf(at, Cursor(l, c + 1))
      BY <1>1, <1>4, <2>2 DEF InOrderOf
  <2> QED BY <1>1, <1>3, <2>2, <2>3
<1>8. ASSUME l < Len(ls) PROVE Alive(Apply(b, at, Cursor(l + 1, 0), none, co), loaded, base)
  <2>1. l + 1 \in Nat /\ l + 1 > 0 /\ l + 1 <= Len(ls) /\ l + 1 \in 1 .. Len(ls)
      BY <1>1, <1>8
  <2>2. 0 \in Nat /\ 0 <= Len(ls[l + 1])
      BY <1>1, <2>1
  <2>3. Inside(ls, Cursor(l + 1, 0)) /\ Cursor(l + 1, 0).line = l + 1
      BY <1>1, <2>1, <2>2, CursorIn
  <2>4. InOrderOf(at, Cursor(l + 1, 0))
      BY <1>1, <1>4, <2>3 DEF InOrderOf
  <2> QED BY <1>1, <1>3, <2>3, <2>4
<1>9. Alive(Backspace(b), loaded, base)
  <2>1. Backspace(b) = IF c > 0 THEN Apply(b, Cursor(l, c - 1), at, none, co)
                       ELSE IF l > 1 THEN Apply(b, Cursor(l - 1, LineLen(b, l - 1)), at, none, co)
                       ELSE b
      BY DEF Backspace, at, l, c, none, co
  <2> QED BY <1>5, <1>6, <2>1, Zenon
<1>10. Alive(Delete(b), loaded, base)
  <2>1. Delete(b) = IF c < LineLen(b, l) THEN Apply(b, at, Cursor(l, c + 1), none, co)
                    ELSE IF l < Len(ls) THEN Apply(b, at, Cursor(l + 1, 0), none, co)
                    ELSE b
      BY DEF Delete, at, l, c, none, co, ls
  <2> QED BY <1>7, <1>8, <2>1, Zenon
<1> QED BY <1>9, <1>10

LEMMA BackAndForthKeeps ==
    ASSUME NEW b, NEW loaded, NEW base, Alive(b, loaded, base)
    PROVE  Alive(Undo(b), loaded, base) /\ Alive(Redo(b), loaded, base)
<1>1. PICK D : Remembers(b, D, loaded, base)
    BY DEF Alive
<1>2. History(b, D) /\ Len(b.undo) \in Nat /\ Len(b.redo) \in Nat
      /\ (b.undo = <<>> <=> Len(b.undo) = 0) /\ (b.redo = <<>> <=> Len(b.redo) = 0)
    BY <1>1, HistoryIs DEF Remembers
<1>3. ASSUME NEW z, History(z, D), z.trailing = b.trailing, z.bom = b.bom, z.savedAt = b.savedAt,
             ~z.coalescing, Len(z.undo) + Len(z.redo) = Len(b.undo) + Len(b.redo)
      PROVE  Alive(z, loaded, base)
  <2>1. \A d : BytesOf(d, z) = BytesOf(d, b)
      BY <1>3, BytesAgree
  <2>2. Remembers(z, D, loaded, base)
      BY <1>1, <1>3, <2>1 DEF Remembers
  <2> QED BY <2>2 DEF Alive
<1>4. Alive(Undo(b), loaded, base)
  <2>1. CASE Len(b.undo) = 0
      BY <1>2, <2>1 DEF Undo
  <2>2. CASE Len(b.undo) > 0
    <3> DEFINE z == Undo(b)
    <3>1. /\ History(z, D) /\ Len(z.undo) = Len(b.undo) - 1 /\ Len(z.redo) = Len(b.redo) + 1
          /\ z.trailing = b.trailing /\ z.bom = b.bom /\ z.savedAt = b.savedAt /\ ~z.coalescing
        BY <1>2, <2>2, UndoKeeps
    <3> HIDE DEF z
    <3>2. \A n \in Nat, m \in Nat : (n - 1) + (m + 1) = n + m
        OBVIOUS
    <3>3. Len(z.undo) + Len(z.redo) = Len(b.undo) + Len(b.redo)
        BY <1>2, <3>1, <3>2, Zenon
    <3>4. Alive(z, loaded, base)
        BY <1>3, <3>1, <3>3
    <3> QED BY <3>4 DEF z
  <2> QED BY <1>2, <2>1, <2>2
<1>5. Alive(Redo(b), loaded, base)
  <2>1. CASE Len(b.redo) = 0
      BY <1>2, <2>1 DEF Redo
  <2>2. CASE Len(b.redo) > 0
    <3> DEFINE z == Redo(b)
    <3>1. /\ History(z, D) /\ Len(z.undo) = Len(b.undo) + 1 /\ Len(z.redo) = Len(b.redo) - 1
          /\ z.trailing = b.trailing /\ z.bom = b.bom /\ z.savedAt = b.savedAt /\ ~z.coalescing
        BY <1>2, <2>2, RedoKeeps
    <3> HIDE DEF z
    <3>2. \A n \in Nat, m \in Nat : (n + 1) + (m - 1) = n + m
        OBVIOUS
    <3>3. Len(z.undo) + Len(z.redo) = Len(b.undo) + Len(b.redo)
        BY <1>2, <3>1, <3>2, Zenon
    <3>4. Alive(z, loaded, base)
        BY <1>3, <3>1, <3>3
    <3> QED BY <3>4 DEF z
  <2> QED BY <1>2, <2>1, <2>2
<1> QED BY <1>4, <1>5

LEMMA MovingKeeps ==
    ASSUME NEW b, NEW loaded, NEW base, Alive(b, loaded, base), NEW at, Inside(b.lines, at)
    PROVE  Alive(MoveTo(b, at), loaded, base)
<1> DEFINE z == MoveTo(b, at)
<1>1. PICK D : Remembers(b, D, loaded, base)
    BY DEF Alive
<1>2. History(b, D) /\ b \in Buffers /\ at \in Place
    BY <1>1 DEF Remembers, History, Inside
<1>3. /\ z \in Buffers /\ z.lines = b.lines /\ z.eols = b.eols /\ z.trailing = b.trailing
      /\ z.bom = b.bom /\ z.dominant = b.dominant /\ z.cursor = at /\ z.undo = b.undo
      /\ z.redo = b.redo /\ z.savedAt = b.savedAt /\ z.coalescing = FALSE
    BY <1>2 DEF MoveTo, Buffers
<1> HIDE DEF z
<1>4. DocOf(z) = DocOf(b)
    BY <1>3 DEF DocOf
<1>5. History(z, D)
    BY <1>2, <1>3, <1>4 DEF History
<1>6. \A d : BytesOf(d, z) = BytesOf(d, b)
    BY <1>3, BytesAgree
<1>7. Remembers(z, D, loaded, base)
    BY <1>1, <1>3, <1>5, <1>6 DEF Remembers
<1> QED BY <1>7 DEF Alive, z

LEMMA GoingKeeps ==
    ASSUME NEW b, NEW loaded, NEW base, Alive(b, loaded, base), NEW at \in Place
    PROVE  Alive(Goto(b, at), loaded, base)
<1>1. Inside(b.lines, Clamp(b, at))
    BY AliveIs, ClampInside
<1> QED BY <1>1, MovingKeeps DEF Goto

LEMMA MovesKeep ==
    ASSUME NEW b, NEW loaded, NEW base, Alive(b, loaded, base)
    PROVE  /\ Alive(Left(b), loaded, base) /\ Alive(Right(b), loaded, base)
           /\ Alive(Up(b), loaded, base) /\ Alive(Down(b), loaded, base)
           /\ Alive(Home(b), loaded, base) /\ Alive(End(b), loaded, base)
<1> DEFINE at == b.cursor
           l == at.line
           c == at.col
           ls == b.lines
<1>1. /\ ls \in Lines /\ Inside(ls, at) /\ l \in Nat /\ l > 0 /\ l <= Len(ls) /\ c \in Nat
      /\ c <= Len(ls[l]) /\ Len(ls) \in Nat
      /\ \A i \in 1 .. Len(ls) : ls[i] \in LineSet /\ Len(ls[i]) \in Nat
    BY AliveIs
<1> HIDE DEF at, l, c, ls
<1>2. ASSUME NEW p, Inside(ls, p) PROVE Alive(MoveTo(b, p), loaded, base)
  <2>1. Inside(b.lines, p)
      BY <1>2 DEF ls
  <2> QED BY <2>1, MovingKeeps
<1>3. \A i : LineLen(b, i) = Len(ls[i])
    BY DEF LineLen, ls
<1>4. Len(ls[l]) \in Nat
    BY <1>1
<1>5. c > 0 => Inside(ls, Cursor(l, c - 1))
  <2> SUFFICES ASSUME c > 0 PROVE Inside(ls, Cursor(l, c - 1))
      OBVIOUS
  <2>1. c - 1 \in Nat /\ c - 1 <= Len(ls[l])
      BY <1>1, <1>4
  <2> QED BY <1>1, <2>1, CursorIn
<1>6. c < Len(ls[l]) => Inside(ls, Cursor(l, c + 1))
  <2> SUFFICES ASSUME c < Len(ls[l]) PROVE Inside(ls, Cursor(l, c + 1))
      OBVIOUS
  <2>1. c + 1 \in Nat /\ c + 1 <= Len(ls[l])
      BY <1>1, <1>4
  <2> QED BY <1>1, <2>1, CursorIn
<1>7. l > 1 => Inside(ls, Cursor(l - 1, LineLen(b, l - 1)))
  <2> SUFFICES ASSUME l > 1 PROVE Inside(ls, Cursor(l - 1, Len(ls[l - 1])))
      BY <1>3
  <2>1. l - 1 \in Nat /\ l - 1 > 0 /\ l - 1 <= Len(ls) /\ l - 1 \in 1 .. Len(ls)
      BY <1>1
  <2> DEFINE m == Len(ls[l - 1])
  <2>2. m \in Nat /\ m <= Len(ls[l - 1])
      BY <1>1, <2>1
  <2> HIDE DEF m
  <2>3. Inside(ls, Cursor(l - 1, m))
      BY <1>1, <2>1, <2>2, CursorIn
  <2> QED BY <2>3 DEF m
<1>8. l < Len(ls) => Inside(ls, Cursor(l + 1, 0))
  <2> SUFFICES ASSUME l < Len(ls) PROVE Inside(ls, Cursor(l + 1, 0))
      OBVIOUS
  <2>1. l + 1 \in Nat /\ l + 1 > 0 /\ l + 1 <= Len(ls) /\ l + 1 \in 1 .. Len(ls)
      BY <1>1
  <2>2. 0 \in Nat /\ 0 <= Len(ls[l + 1])
      BY <1>1, <2>1
  <2> QED BY <1>1, <2>1, <2>2, CursorIn
<1>9. Inside(ls, Cursor(l, 0)) /\ Inside(ls, Cursor(l, Len(ls[l])))
  <2>1. 0 \in Nat /\ 0 <= Len(ls[l]) /\ Len(ls[l]) <= Len(ls[l])
      BY <1>4
  <2> QED BY <1>1, <1>4, <2>1, CursorIn
<1>10. at.line = l /\ at.col = c
    BY DEF l, c
<1>11. Alive(Left(b), loaded, base)
  <2> DEFINE p == IF c > 0 THEN Cursor(l, c - 1)
                  ELSE IF l > 1 THEN Cursor(l - 1, LineLen(b, l - 1)) ELSE at
  <2>1. Inside(ls, p)
      BY <1>1, <1>5, <1>7, Zenon
  <2>2. Left(b) = MoveTo(b, p)
      BY DEF Left, at, l, c
  <2> QED BY <1>2, <2>1, <2>2
<1>12. Alive(Right(b), loaded, base)
  <2> DEFINE p == IF c < LineLen(b, l) THEN Cursor(l, c + 1)
                  ELSE IF l < Len(ls) THEN Cursor(l + 1, 0) ELSE at
  <2>1. Inside(ls, p)
      BY <1>1, <1>3, <1>6, <1>8, Zenon
  <2>2. Right(b) = MoveTo(b, p)
      BY DEF Right, at, l, c, ls
  <2> QED BY <1>2, <2>1, <2>2
<1>13. Alive(Home(b), loaded, base) /\ Alive(End(b), loaded, base)
  <2>1. Home(b) = MoveTo(b, Cursor(l, 0)) /\ End(b) = MoveTo(b, Cursor(l, Len(ls[l])))
      BY <1>3 DEF Home, End, at, l
  <2> QED BY <1>2, <1>9, <2>1
<1>14. Alive(Up(b), loaded, base)
  <2>1. CASE l = 1
    <3>1. Up(b) = MoveTo(b, at)
        BY <2>1 DEF Up, at, l
    <3> QED BY <1>1, <1>2, <3>1
  <2>2. CASE l # 1
    <3>1. l - 1 \in Nat /\ l - 1 > 0
        BY <1>1, <2>2
    <3>2. Cursor(l - 1, c) \in Place
        BY <1>1, <3>1 DEF Cursor, Place
    <3>3. Up(b) = Goto(b, Cursor(l - 1, c))
        BY <2>2 DEF Up, at, l, c
    <3> QED BY <3>2, <3>3, GoingKeeps
  <2> QED BY <2>1, <2>2
<1>15. Alive(Down(b), loaded, base)
  <2>1. CASE l = Len(ls)
    <3>1. Down(b) = MoveTo(b, at)
        BY <2>1 DEF Down, OnLastLine, at, l, ls
    <3> QED BY <1>1, <1>2, <3>1
  <2>2. CASE l # Len(ls)
    <3>1. l + 1 \in Nat /\ l + 1 > 0
        BY <1>1
    <3>2. Cursor(l + 1, c) \in Place
        BY <1>1, <3>1 DEF Cursor, Place
    <3>3. Down(b) = Goto(b, Cursor(l + 1, c))
        BY <2>2 DEF Down, OnLastLine, at, l, c, ls
    <3> QED BY <3>2, <3>3, GoingKeeps
  <2> QED BY <2>1, <2>2
<1> QED BY <1>11, <1>12, <1>13, <1>14, <1>15

LEMMA WrittenKeeps ==
    ASSUME NEW b, NEW loaded, NEW base, Alive(b, loaded, base)
    PROVE  Alive(Written(b), loaded, ToBytes(b))
<1> DEFINE z == Written(b)
           n == Len(b.undo)
<1>1. PICK D : Remembers(b, D, loaded, base)
    BY DEF Alive
<1>2. History(b, D) /\ b \in Buffers /\ n \in Nat /\ Len(b.redo) \in Nat
    BY <1>1, HistoryIs DEF Remembers, History
<1>3. /\ z \in Buffers /\ z.lines = b.lines /\ z.eols = b.eols /\ z.trailing = b.trailing
      /\ z.bom = b.bom /\ z.dominant = b.dominant /\ z.cursor = b.cursor /\ z.undo = b.undo
      /\ z.redo = b.redo /\ z.savedAt = n /\ z.coalescing = FALSE
  <2> HIDE DEF n
  <2>1. n \in Int
      BY <1>2
  <2>2. z = [b EXCEPT !.savedAt = n, !.coalescing = FALSE]
      BY DEF Written, n
  <2> HIDE DEF z
  <2> QED BY <1>2, <2>1, <2>2 DEF Buffers
<1> HIDE DEF z
<1>4. DocOf(z) = DocOf(b)
    BY <1>3 DEF DocOf
<1>5. History(z, D)
    BY <1>2, <1>3, <1>4 DEF History
<1>6. \A d : BytesOf(d, z) = BytesOf(d, b)
    BY <1>3, BytesAgree
<1>7. BytesOf(D[n], b) = ToBytes(b)
    BY <1>2, BytesAre DEF History
<1>8. n \in 0 .. n + Len(b.redo)
  <2> HIDE DEF n
  <2> QED BY <1>2
<1>9. Remembers(z, D, loaded, ToBytes(b))
    BY <1>1, <1>3, <1>5, <1>6, <1>7, <1>8 DEF Remembers
<1> QED BY <1>9 DEF Alive, z

\* What the history is kept for.
LEMMA UnmodifiedIs ==
    ASSUME NEW b, NEW loaded, NEW base, Alive(b, loaded, base)
    PROVE  /\ ~Modified(b) => ToBytes(b) = base
           /\ b.undo # <<>> => /\ Redo(Undo(b)).lines = b.lines
                              /\ Redo(Undo(b)).eols = b.eols
<1>1. PICK D : Remembers(b, D, loaded, base)
    BY DEF Alive
<1>2. History(b, D) /\ Len(b.undo) \in Nat
    BY <1>1, HistoryIs DEF Remembers
<1>3. ASSUME ~Modified(b) PROVE ToBytes(b) = base
  <2>1. b.savedAt = Len(b.undo) /\ b.savedAt # NoSave
      BY <1>2, <1>3 DEF Modified, NoSave
  <2>2. BytesOf(D[b.savedAt], b) = base
      BY <1>1, <2>1 DEF Remembers
  <2>3. ToBytes(b) = BytesOf(D[Len(b.undo)], b)
      BY <1>2, BytesAre DEF History
  <2> QED BY <2>1, <2>2, <2>3
<1> QED BY <1>2, <1>3, RedoneIs

(***************************************************************************)
(* Undone as far as it goes.                                               *)
(***************************************************************************)
\* The buffers an undo of b may lead to.
UndoneFrom(b, D) == {z \in Buffers : History(z, D) /\ z.trailing = b.trailing /\ z.bom = b.bom}

LEMMA UndoneStays ==
    ASSUME NEW b, NEW D, NEW z \in UndoneFrom(b, D)
    PROVE  /\ Undo(z) \in UndoneFrom(b, D)
           /\ Len(z.undo) \in Nat /\ (Len(z.undo) > 0 => Len(Undo(z).undo) = Len(z.undo) - 1)
<1>1. History(z, D) /\ Len(z.undo) \in Nat /\ (z.undo = <<>> <=> Len(z.undo) = 0)
      /\ z.trailing = b.trailing /\ z.bom = b.bom
    BY HistoryIs DEF UndoneFrom
<1>2. CASE Len(z.undo) = 0
  <2>1. Undo(z) = z
      BY <1>1, <1>2 DEF Undo
  <2> QED BY <1>1, <1>2, <2>1
<1>3. CASE Len(z.undo) > 0
  <2> DEFINE u == Undo(z)
  <2>1. /\ History(u, D) /\ Len(u.undo) = Len(z.undo) - 1
        /\ u.trailing = z.trailing /\ u.bom = z.bom
      BY <1>1, <1>3, UndoKeeps
  <2> HIDE DEF u
  <2>2. u \in UndoneFrom(b, D)
      BY <1>1, <2>1 DEF UndoneFrom, History
  <2> QED BY <1>1, <2>1, <2>2 DEF u
<1> QED BY <1>1, <1>2, <1>3

LEMMA AllUndoneIs ==
    ASSUME NEW b, NEW loaded, NEW base, Alive(b, loaded, base)
    PROVE  ToBytes(AllUndone(b)) = loaded
<1>0. PICK D : Remembers(b, D, loaded, base)
    BY DEF Alive
<1> DEFINE N == Len(b.undo)
           T == UndoneFrom(b, D)
           G == [p \in T \X (1 .. N) |-> Undo(p[1])]
           Def(f) == f = [n \in 0 .. N |-> IF n = 0 THEN b ELSE Undo(f[n - 1])]
           f == CHOOSE f : Def(f)
<1>1. History(b, D) /\ N \in Nat /\ b \in T
    BY <1>0, HistoryIs DEF Remembers, UndoneFrom, History
<1>2. AllUndone(b) = f[N]
    BY Zenon DEF AllUndone
<1>3. \A z \in T : Undo(z) \in T
    BY UndoneStays
<1>4. \A z \in T : Len(z.undo) \in Nat /\ (Len(z.undo) > 0 => Len(Undo(z).undo) = Len(z.undo) - 1)
    BY UndoneStays
<1> HIDE DEF T, N
<1>5. G \in [T \X (1 .. N) -> T]
    BY <1>3
<1>6. \E h : Def(h)
  <2>1. PICK h : Recurs(h, N, T, b, G)
    <3> HIDE DEF G
    <3> QED BY <1>1, <1>5, RecursionSolved
  <2>2. ASSUME NEW i \in 1 .. N PROVE h[i] = Undo(h[i - 1])
    <3>1. i - 1 \in 0 .. N
        BY <1>1
    <3>2. h[i - 1] \in T /\ h[i] = G[<<h[i - 1], i>>]
      <4> HIDE DEF G
      <4> QED BY <2>1, <3>1 DEF Recurs
    <3> QED BY <3>2
  <2>3. h[0] = b /\ h = [i \in 0 .. N |-> h[i]]
    <3> HIDE DEF G
    <3> QED BY <2>1 DEF Recurs
  <2> HIDE DEF G
  <2>4. ASSUME NEW i \in 0 .. N PROVE h[i] = IF i = 0 THEN b ELSE Undo(h[i - 1])
    <3>1. i = 0 \/ (i # 0 /\ i \in 1 .. N)
        BY <1>1
    <3> QED BY <2>2, <2>3, <3>1, Zenon
  <2> QED BY <2>3, <2>4
<1>7. Def(f)
  <2> HIDE DEF Def
  <2> QED BY <1>6
<1> HIDE DEF f, G
<1>8. \A i \in 0 .. N : f[i] = IF i = 0 THEN b ELSE Undo(f[i - 1])
    BY <1>7
<1> HIDE DEF Def
<1> DEFINE S == {i \in 0 .. N : f[i] \in T /\ Len(f[i].undo) = N - i}
<1>9. 0 \in S
  <2>1. 0 \in 0 .. N /\ N - 0 = N
      BY <1>1
  <2>2. f[0] = b
      BY <1>8, <2>1
  <2> QED BY <1>1, <2>1, <2>2 DEF N
<1>10. ASSUME NEW i \in S, i < N PROVE i + 1 \in S
  <2>1. i + 1 \in 0 .. N /\ i + 1 # 0 /\ (i + 1) - 1 = i
      BY <1>1, <1>10
  <2>2. f[i + 1] = Undo(f[i])
      BY <1>8, <2>1
  <2>3. f[i] \in T /\ Len(f[i].undo) = N - i /\ N - i > 0 /\ (N - i) - 1 = N - (i + 1)
      BY <1>1, <1>10
  <2>4. Undo(f[i]) \in T /\ Len(Undo(f[i]).undo) = Len(f[i].undo) - 1
      BY <1>3, <1>4, <2>3
  <2> QED BY <2>1, <2>2, <2>3, <2>4
<1>11. N \in S
  <2>1. S = 0 .. N
    <3>1. S \in SUBSET (0 .. N)
        OBVIOUS
    <3> HIDE DEF S
    <3> QED BY <1>1, <1>9, <1>10, <3>1, InductUpTo
  <2>2. N \in 0 .. N
      BY <1>1
  <2> QED BY <2>1, <2>2
<1> DEFINE z == f[N]
<1>12. z \in T /\ Len(z.undo) = 0
  <2>1. Len(z.undo) = N - N /\ z \in T
      BY <1>11
  <2> QED BY <1>1, <2>1
<1> HIDE DEF z
<1>13. History(z, D) /\ z.trailing = b.trailing /\ z.bom = b.bom
    BY <1>12 DEF T, UndoneFrom
<1>14. ToBytes(z) = BytesOf(D[0], z)
    BY <1>12, <1>13, BytesAre DEF History
<1>15. BytesOf(D[0], z) = BytesOf(D[0], b)
    BY <1>13, BytesAgree
<1> QED BY <1>0, <1>2, <1>14, <1>15 DEF Remembers, z

(***************************************************************************)
(* What a load makes of the bytes of a file.                               *)
(***************************************************************************)
\* The bytes of a file, endings as the editor sees them.
Seen(text) == [i \in 1 .. Len(text) |-> IF text[i] = "lf" THEN NL ELSE text[i]]
\* Lines written with a line feed each.
Fed(ps) == [i \in 1 .. Len(ps) |-> ps[i] \o Lf]
\* ps are the lines of text that end, l is what follows them.
Cut(text, ps, l) ==
    /\ ps \in Seq(LineSet) /\ l \in LineSet
    /\ Split(Seen(text)) = Append(ps, l)
    /\ FlattenSeq(Fed(ps)) \o l = text
    /\ EndsInLf(text) <=> ps # <<>> /\ l = <<>>

LEMMA LfIsLine == Lf \in LineSet /\ Crlf \in LineSet /\ "lf" \in Byte /\ "cr" \in Byte
                  /\ NL \notin Byte /\ Lf # Crlf
<1>1. "lf" \in Byte /\ "cr" \in Byte /\ NL \notin Byte
    BY ByteAssumption DEF ByteAssumption
<1>2. <<"lf">> \in Seq(Byte) /\ <<"cr", "lf">> \in Seq(Byte)
    BY <1>1
<1>3. Len(<<"lf">>) = 1 /\ Len(<<"cr", "lf">>) = 2
    OBVIOUS
<1>4. <<"lf">> # <<"cr", "lf">>
    BY <1>3
<1> QED BY <1>1, <1>2, <1>4 DEF LineSet, Lf, Crlf

LEMMA SeenIs ==
    ASSUME NEW text \in LineSet
    PROVE  /\ Seen(text) \in Texts /\ Len(Seen(text)) = Len(text)
           /\ \A c \in Byte :
                Seen(Append(text, c)) = Append(Seen(text), IF c = "lf" THEN NL ELSE c)
<1> DEFINE n == Len(text)
           M(c) == IF c = "lf" THEN NL ELSE c
<1>1. n \in Nat /\ text \in Seq(Byte) /\ \A i \in 1 .. n : text[i] \in Byte
    BY LenProperties, ElementOfSeq DEF LineSet
<1>2. \A c \in Byte : M(c) \in Chars
    BY DEF Chars
<1>3. Seen(text) = [i \in 1 .. n |-> M(text[i])]
    BY DEF Seen
<1> HIDE DEF M, n
<1>4. Seen(text) \in Seq(Chars) /\ Len(Seen(text)) = n
  <2>1. Seen(text) \in [1 .. n -> Chars]
      BY <1>1, <1>2, <1>3
  <2> QED BY <1>1, <2>1, ListOf
<1>5. ASSUME NEW c \in Byte PROVE Seen(Append(text, c)) = Append(Seen(text), M(c))
  <2> DEFINE s == Append(text, c)
             a == Seen(s)
             z == Append(Seen(text), M(c))
  <2>1. s \in Seq(Byte) /\ Len(s) = n + 1 /\ s[n + 1] = c /\ \A i \in 1 .. n : s[i] = text[i]
      BY <1>1, AppendProperties DEF n
  <2>2. z \in Seq(Chars) /\ Len(z) = n + 1 /\ z[n + 1] = M(c)
        /\ \A i \in 1 .. n : z[i] = Seen(text)[i]
      BY <1>2, <1>4, AppendProperties
  <2>3. a = [i \in 1 .. n + 1 |-> M(s[i])]
      BY <2>1 DEF Seen, M
  <2>4. \A i \in 1 .. n + 1 : s[i] \in Byte
      BY <1>1, <2>1, ElementOfSeq
  <2> HIDE DEF s, z, a
  <2>5. a \in Seq(Chars) /\ Len(a) = n + 1
    <3>1. a \in [1 .. n + 1 -> Chars]
        BY <1>2, <2>3, <2>4
    <3>2. n + 1 \in Nat
        BY <1>1
    <3> QED BY <3>1, <3>2, ListOf
  <2>6. ASSUME NEW i \in 1 .. n + 1 PROVE a[i] = z[i]
    <3>1. a[i] = M(s[i])
        BY <2>3
    <3>2. CASE i = n + 1
        BY <2>1, <2>2, <3>1, <3>2
    <3>3. CASE i # n + 1
      <4>1. i \in 1 .. n
          BY <1>1, <3>3
      <4>2. Seen(text)[i] = M(text[i])
          BY <1>3, <4>1
      <4>3. s[i] = text[i] /\ z[i] = Seen(text)[i]
          BY <2>1, <2>2, <4>1
      <4> QED BY <3>1, <4>2, <4>3
    <3> QED BY <3>2, <3>3
  <2>7. a = z
      BY <2>2, <2>5, <2>6, SeqEqual
  <2> QED BY <2>7 DEF a, z, s
<1> QED BY <1>4, <1>5 DEF M, n, Texts

LEMMA FedIs ==
    ASSUME NEW ps \in Seq(LineSet)
    PROVE  /\ Fed(ps) \in Seq(Seq(Byte)) /\ Len(Fed(ps)) = Len(ps)
           /\ \A i \in 1 .. Len(ps) : Fed(ps)[i] = ps[i] \o Lf
           /\ \A l \in LineSet : Fed(Append(ps, l)) = Append(Fed(ps), l \o Lf)
<1> DEFINE n == Len(ps)
           M(s) == s \o Lf
<1>1. n \in Nat /\ \A i \in 1 .. n : ps[i] \in LineSet
    BY LenProperties, ElementOfSeq
<1>2. \A s \in LineSet : M(s) \in LineSet
    BY LfIsLine, CutConcat
<1>3. Fed(ps) = [i \in 1 .. n |-> M(ps[i])]
    BY DEF Fed
<1> HIDE DEF M, n
<1>4. Fed(ps) \in Seq(LineSet) /\ Len(Fed(ps)) = n /\ \A i \in 1 .. n : Fed(ps)[i] = M(ps[i])
  <2>1. Fed(ps) \in [1 .. n -> LineSet]
      BY <1>1, <1>2, <1>3
  <2> QED BY <1>1, <1>3, <2>1, ListOf
<1>5. ASSUME NEW c \in LineSet PROVE Fed(Append(ps, c)) = Append(Fed(ps), M(c))
  <2> DEFINE s == Append(ps, c)
             a == Fed(s)
             z == Append(Fed(ps), M(c))
  <2>1. s \in Seq(LineSet) /\ Len(s) = n + 1 /\ s[n + 1] = c /\ \A i \in 1 .. n : s[i] = ps[i]
      BY <1>1, AppendProperties DEF n
  <2>2. z \in Seq(LineSet) /\ Len(z) = n + 1 /\ z[n + 1] = M(c)
        /\ \A i \in 1 .. n : z[i] = Fed(ps)[i]
      BY <1>2, <1>4, AppendProperties
  <2>3. a = [i \in 1 .. n + 1 |-> M(s[i])]
      BY <2>1 DEF Fed, M
  <2>4. \A i \in 1 .. n + 1 : s[i] \in LineSet
      BY <1>1, <2>1, ElementOfSeq
  <2> HIDE DEF s, z, a
  <2>5. a \in Seq(LineSet) /\ Len(a) = n + 1
    <3>1. a \in [1 .. n + 1 -> LineSet]
        BY <1>2, <2>3, <2>4
    <3>2. n + 1 \in Nat
        BY <1>1
    <3> QED BY <3>1, <3>2, ListOf
  <2>6. ASSUME NEW i \in 1 .. n + 1 PROVE a[i] = z[i]
    <3>1. a[i] = M(s[i])
        BY <2>3
    <3>2. CASE i = n + 1
        BY <2>1, <2>2, <3>1, <3>2
    <3>3. CASE i # n + 1
      <4>1. i \in 1 .. n
          BY <1>1, <3>3
      <4>2. s[i] = ps[i] /\ z[i] = Fed(ps)[i]
          BY <2>1, <2>2, <4>1
      <4> QED BY <1>4, <3>1, <4>1, <4>2
    <3> QED BY <3>2, <3>3
  <2>7. a = z
      BY <2>2, <2>5, <2>6, SeqEqual
  <2> QED BY <2>7 DEF a, z, s
<1> QED BY <1>4, <1>5 DEF M, n, LineSet

LEMMA LineConcat ==
    ASSUME NEW a \in LineSet, NEW b \in LineSet, NEW c \in LineSet, NEW e \in Byte
    PROVE  /\ a \o b \in LineSet /\ (a \o b) \o c = a \o (b \o c) /\ a \o <<>> = a
           /\ a \o <<e>> = Append(a, e) /\ Append(a, e) \in LineSet /\ Append(a, e) # <<>>
           /\ Last(Append(a, e)) = e /\ <<e>> \in LineSet
<1>0. a \o b \in LineSet
    BY CutConcat
<1>1. a \o b \in LineSet /\ (a \o b) \o c = a \o (b \o c) /\ a \o <<>> = a
  <2>1. a \o b \o c = a \o (b \o c) /\ a \o <<>> = a
      BY ThreeLines
  <2> QED BY <1>0, <2>1
<1>2. a \in Seq(Byte) /\ Len(a) \in Nat
    BY LenProperties DEF LineSet
<1>3. a \o <<e>> = Append(a, e)
    BY <1>2
<1>4. Append(a, e) \in Seq(Byte) /\ Len(Append(a, e)) = Len(a) + 1 /\ Append(a, e)[Len(a) + 1] = e
    BY <1>2, AppendProperties
<1>5. Append(a, e) # <<>>
    BY <1>2, <1>4
<1>6. Last(Append(a, e)) = e
    BY <1>4 DEF Last
<1>7. <<e>> \in Seq(Byte)
    OBVIOUS
<1> QED BY <1>1, <1>3, <1>4, <1>5, <1>6, <1>7 DEF LineSet

LEMMA CutMore ==
    ASSUME NEW text \in LineSet, NEW ps, NEW l, Cut(text, ps, l), NEW c \in Byte
    PROVE  \E qs, k : Cut(Append(text, c), qs, k)
<1> DEFINE t2 == Append(text, c)
           ls == Append(ps, l)
           F == FlattenSeq(Fed(ps))
<1>1. ps \in Seq(LineSet) /\ l \in LineSet /\ Split(Seen(text)) = ls /\ F \o l = text
    BY DEF Cut
<1>2. /\ Fed(ps) \in Seq(Seq(Byte)) /\ Fed(Append(ps, l)) = Append(Fed(ps), l \o Lf)
      /\ F \in LineSet
  <2>1. Fed(ps) \in Seq(Seq(Byte)) /\ Fed(Append(ps, l)) = Append(Fed(ps), l \o Lf)
      BY <1>1, FedIs
  <2> QED BY <2>1, FlattenIs DEF LineSet
<1>3. /\ ls \in Lines /\ ls \in Seq(LineSet) /\ ls # <<>> /\ Len(ls) = Len(ps) + 1
      /\ ls[Len(ps) + 1] = l /\ Len(ps) \in Nat /\ \A i \in 1 .. Len(ps) : ls[i] = ps[i]
  <2>1. /\ ls \in Seq(LineSet) /\ Len(ls) = Len(ps) + 1 /\ ls[Len(ps) + 1] = l
        /\ \A i \in 1 .. Len(ps) : ls[i] = ps[i]
      BY <1>1, AppendProperties
  <2>2. Len(ps) \in Nat
      BY <1>1, LenProperties
  <2> HIDE DEF ls
  <2>3. ls # <<>> /\ Len(ls) > 0
      BY <2>1, <2>2
  <2> QED BY <2>1, <2>2, <2>3 DEF Lines
<1>4. t2 \in LineSet /\ t2 # <<>> /\ Last(t2) = c /\ text \o <<c>> = t2 /\ <<c>> \in LineSet
    BY LineConcat
<1>5. EndsInLf(t2) <=> c = "lf"
    BY <1>4 DEF EndsInLf
<1>6. Seen(text) \in Texts /\ Seen(t2) = Append(Seen(text), IF c = "lf" THEN NL ELSE c)
    BY SeenIs
<1>7. CASE c = "lf"
  <2>1. Split(Seen(t2)) = Append(ls, <<>>)
    <3>1. NL \in Chars /\ Seen(t2) = Append(Seen(text), NL)
        BY <1>6, <1>7 DEF Chars
    <3>2. Split(Seen(t2)) = Typed(ls, NL)
        BY <1>1, <1>6, <3>1, SplitTyped
    <3> QED BY <3>2 DEF Typed
  <2>2. FlattenSeq(Fed(ls)) \o <<>> = t2
    <3>1. l \o Lf \in LineSet
        BY <1>1, LfIsLine, CutConcat
    <3>2. FlattenSeq(Append(Fed(ps), l \o Lf)) = F \o (l \o Lf)
        BY <1>2, <3>1, FlattenMore DEF LineSet
    <3>3. F \o (l \o Lf) = (F \o l) \o Lf
      <4> HIDE DEF F
      <4>1. F \in LineSet /\ l \in LineSet /\ Lf \in LineSet
          BY <1>1, <1>2, LfIsLine
      <4> QED BY <4>1, LineConcat, LfIsLine
    <3>4. Lf = <<c>>
        BY <1>7 DEF Lf
    <3>5. t2 \o <<>> = t2
        BY <1>4, ThreeLines
    <3> HIDE DEF t2, F, ls
    <3>6. FlattenSeq(Fed(ls)) = t2
        BY <1>1, <1>2, <1>4, <3>2, <3>3, <3>4 DEF ls
    <3> QED BY <3>5, <3>6
  <2>3. <<>> \in LineSet
      BY EmptyLine
  <2>4. Cut(t2, ls, <<>>)
      BY <1>3, <1>5, <1>7, <2>1, <2>2, <2>3 DEF Cut
  <2> QED BY <2>4
<1>8. CASE c # "lf"
  <2> DEFINE k == Append(l, c)
  <2>1. k \in LineSet /\ k # <<>>
      BY <1>1, LineConcat
  <2>2. Split(Seen(t2)) = Append(ps, k)
    <3>1. c \in Chars /\ c # NL /\ Seen(t2) = Append(Seen(text), c)
        BY <1>6, <1>8, LfIsLine DEF Chars
    <3>2. Split(Seen(t2)) = Typed(ls, c)
        BY <1>1, <1>6, <3>1, SplitTyped
    <3> DEFINE a == Typed(ls, c)
               z == Append(ps, k)
    <3>3. /\ a \in Lines /\ Len(a) = Len(ls)
          /\ \A i \in 1 .. Len(ls) : a[i] = IF i = Len(ls) THEN Append(ls[i], c) ELSE ls[i]
      <4> HIDE DEF ls
      <4> QED BY <1>3, <3>1, TypedIs
    <3>4. /\ z \in Seq(LineSet) /\ Len(z) = Len(ps) + 1 /\ z[Len(ps) + 1] = k
          /\ \A i \in 1 .. Len(ps) : z[i] = ps[i]
        BY <1>1, <2>1, AppendProperties
    <3> HIDE DEF a, z, ls
    <3>5. z \in Lines
        BY <1>3, <3>4 DEF Lines
    <3>6. ASSUME NEW i \in 1 .. Len(a) PROVE a[i] = z[i]
      <4>1. i \in 1 .. Len(ls)
          BY <3>3
      <4>2. CASE i = Len(ps) + 1
        <5>1. i = Len(ls) /\ ls[i] = l
            BY <1>3, <4>2
        <5>2. a[i] = Append(ls[i], c)
            BY <3>3, <4>1, <5>1
        <5> QED BY <3>4, <4>2, <5>1, <5>2
      <4>3. CASE i # Len(ps) + 1
        <5>1. i \in 1 .. Len(ps) /\ i # Len(ls)
            BY <1>3, <4>1, <4>3
        <5>2. a[i] = ls[i]
            BY <3>3, <4>1, <5>1
        <5> QED BY <1>3, <3>4, <5>1, <5>2
      <4> QED BY <4>2, <4>3
    <3>7. a = z
        BY <1>3, <3>3, <3>4, <3>5, <3>6, SameLines
    <3> QED BY <3>2, <3>7 DEF a, z
  <2>3. F \o k = t2
    <3>1. k = l \o <<c>>
        BY <1>1, LineConcat, ZenonT(30)
    <3>2. F \o (l \o <<c>>) = (F \o l) \o <<c>>
      <4> DEFINE u == <<c>>
      <4>1. F \in LineSet /\ l \in LineSet /\ u \in LineSet
          BY <1>1, <1>2, <1>4
      <4> HIDE DEF F, u
      <4>2. F \o (l \o u) = (F \o l) \o u
          BY <4>1, LineConcat, LfIsLine
      <4> QED BY <4>2 DEF u
    <3> HIDE DEF t2, F, k
    <3> QED BY <1>1, <1>4, <3>1, <3>2
  <2>4. Cut(t2, ps, k)
    <3> HIDE DEF k, t2
    <3> QED BY <1>1, <1>5, <1>8, <2>1, <2>2, <2>3 DEF Cut, F
  <2> QED BY <2>4
<1> QED BY <1>7, <1>8

LEMMA CutIs ==
    ASSUME NEW text \in LineSet PROVE \E ps, l : Cut(text, ps, l)
<1> DEFINE P == {t \in LineSet : \E ps, l : Cut(t, ps, l)}
<1>1. <<>> \in P
  <2>1. Seen(<<>>) = <<>>
    <3>1. Len(<<>>) = 0 /\ 1 .. 0 = {}
        OBVIOUS
    <3> QED BY <3>1 DEF Seen
  <2>2. Split(Seen(<<>>)) = Append(<<>>, <<>>)
    <3>1. Append(<<>>, <<>>) = << <<>> >>
        OBVIOUS
    <3> QED BY <2>1, <3>1, SplitNothing
  <2>3. Fed(<<>>) = <<>>
    <3>1. Len(<<>>) = 0 /\ 1 .. 0 = {}
        OBVIOUS
    <3> QED BY <3>1 DEF Fed
  <2>4. FlattenSeq(Fed(<<>>)) \o <<>> = <<>>
      BY <2>3, FlattenNothing
  <2>5. ~EndsInLf(<<>>)
      BY DEF EndsInLf
  <2>6. <<>> \in LineSet /\ <<>> \in Seq(LineSet)
      BY EmptyLine
  <2>7. Cut(<<>>, <<>>, <<>>)
      BY <2>2, <2>4, <2>5, <2>6 DEF Cut
  <2> QED BY <2>6, <2>7
<1>2. \A t \in LineSet : \A c \in Byte : t \in P => Append(t, c) \in P
    BY CutMore, LineConcat
<1>3. \A t \in Seq(Byte) : t \in P
  <2> HIDE DEF P
  <2> QED BY <1>1, <1>2, SeqInduct DEF LineSet
<1> QED BY <1>3 DEF LineSet

LEMMA BareIs ==
    ASSUME NEW p \in LineSet
    PROVE  /\ Bare(p) \in LineSet
           /\ Bare(p) \o (IF Bare(p) # p THEN Crlf ELSE Lf) = p \o Lf
<1>1. CASE p # <<>> /\ Last(p) = "cr"
  <2> DEFINE h == Front(p)
  <2>1. p \in Seq(Byte) /\ Len(p) > 0
      BY <1>1, EmptySeq, LenProperties DEF LineSet
  <2>2. h \in Seq(Byte) /\ Len(h) = Len(p) - 1 /\ (\A i \in 1 .. Len(p) - 1 : h[i] = p[i])
        /\ p[Len(p)] = "cr" /\ Len(p) \in Nat
    <3>1. Len(p) \in Nat
        BY <2>1, LenProperties
    <3> HIDE DEF h
    <3> QED BY <1>1, <2>1, <3>1, FrontLast DEF h
  <2>3. Bare(p) = h
      BY <1>1 DEF Bare
  <2> HIDE DEF h
  <2>4. h # p
      BY <2>2
  <2>5. p = Append(h, "cr")
    <3> DEFINE z == Append(h, "cr")
    <3>1. /\ z \in Seq(Byte) /\ Len(z) = Len(h) + 1 /\ z[Len(h) + 1] = "cr"
          /\ \A i \in 1 .. Len(h) : z[i] = h[i]
        BY <2>2, LfIsLine, AppendProperties
    <3> HIDE DEF z
    <3>2. Len(z) = Len(p) /\ z[Len(p)] = p[Len(p)] /\ \A i \in 1 .. Len(p) - 1 : z[i] = p[i]
        BY <2>2, <3>1
    <3>3. \A i \in 1 .. Len(p) : i = Len(p) \/ i \in 1 .. Len(p) - 1
        BY <2>2
    <3>4. \A i \in 1 .. Len(p) : z[i] = p[i]
        BY <3>2, <3>3, Zenon
    <3>5. z = p
        BY <2>1, <3>1, <3>2, <3>4, SeqEqual
    <3> QED BY <3>5 DEF z
  <2>6. h \o Crlf = p \o Lf
    <3> DEFINE cr == <<"cr">>
    <3>1. h \in LineSet /\ cr \in LineSet /\ Lf \in LineSet /\ "cr" \in Byte
        BY <2>2, LfIsLine DEF LineSet
    <3>2. Crlf = cr \o Lf
        BY DEF Crlf, Lf
    <3>3. h \o cr = Append(h, "cr")
        BY <3>1, LineConcat
    <3> HIDE DEF cr
    <3>4. h \o (cr \o Lf) = (h \o cr) \o Lf
        BY <3>1, LineConcat, LfIsLine
    <3> QED BY <2>5, <3>2, <3>3, <3>4
  <2> QED BY <2>2, <2>3, <2>4, <2>6 DEF LineSet
<1>2. CASE ~(p # <<>> /\ Last(p) = "cr")
    BY <1>2 DEF Bare
<1> QED BY <1>1, <1>2

\* The pieces of a text, with its line feeds where they were, make up the text.
LEMMA PiecesAre ==
    ASSUME NEW text \in LineSet
    PROVE  LET ps == Pieces(text)
               n == Len(ps)
           IN  /\ ps \in Lines
               /\ FlattenSeq([i \in 1 .. n |->
                      ps[i] \o (IF i < n \/ EndsInLf(text) THEN Lf ELSE <<>>)]) = text
<1>1. PICK qs, l : Cut(text, qs, l)
    BY CutIs
<1> DEFINE all == Append(qs, l)
           ps == Pieces(text)
           n == Len(ps)
           m == Len(qs)
           W == [i \in 1 .. n |-> ps[i] \o (IF i < n \/ EndsInLf(text) THEN Lf ELSE <<>>)]
<1>2. /\ qs \in Seq(LineSet) /\ l \in LineSet /\ Split(Seen(text)) = all
      /\ FlattenSeq(Fed(qs)) \o l = text /\ (EndsInLf(text) <=> qs # <<>> /\ l = <<>>)
    BY <1>1 DEF Cut
<1>3. /\ all \in Seq(LineSet) /\ Len(all) = m + 1 /\ all[m + 1] = l /\ m \in Nat
      /\ \A i \in 1 .. m : all[i] = qs[i]
    BY <1>2, AppendProperties, LenProperties
<1>4. qs = <<>> <=> m = 0
    BY <1>2, EmptySeq
<1>5. ps = IF Len(all) > 1 /\ Last(all) = <<>> THEN Front(all) ELSE all
  <2>1. [i \in 1 .. Len(text) |-> IF text[i] = "lf" THEN NL ELSE text[i]] = Seen(text)
      BY DEF Seen
  <2> HIDE DEF all
  <2> QED BY <1>2, <2>1, Zenon DEF Pieces
<1>6. Last(all) = l
  <2> HIDE DEF all
  <2> QED BY <1>3 DEF Last
<1>7. /\ Fed(qs) \in Seq(Seq(Byte)) /\ Len(Fed(qs)) = m
      /\ \A i \in 1 .. m : Fed(qs)[i] = qs[i] \o Lf
    BY <1>2, FedIs
<1> HIDE DEF ps, W
<1>8. CASE EndsInLf(text)
  <2>1. Len(all) > 1 /\ Last(all) = <<>> /\ m > 0
    <3> HIDE DEF all, m
    <3> QED BY <1>2, <1>3, <1>4, <1>6, <1>8
  <2>2. Front(all) = qs
    <3>1. Front(all) \in Seq(LineSet) /\ Len(Front(all)) = Len(all) - 1
          /\ \A i \in 1 .. Len(all) - 1 : Front(all)[i] = all[i]
      <4> HIDE DEF all
      <4>1. Len(all) > 0
          BY <2>1
      <4> QED BY <1>3, <4>1, FrontLast
    <3> DEFINE f == Front(all)
    <3> HIDE DEF f, all, m
    <3>2. Len(f) = m /\ \A i \in 1 .. m : f[i] = qs[i]
        BY <1>3, <3>1 DEF f
    <3>3. f = qs
        BY <1>2, <3>1, <3>2, SeqEqual DEF f, m
    <3> QED BY <3>3 DEF f
  <2>3. ps = qs /\ n = m
      BY <1>5, <2>1, <2>2
  <2>4. ps \in Lines
      BY <1>2, <2>1, <2>3 DEF Lines
  <2>5. W = Fed(qs)
    <3>1. W = [i \in 1 .. m |-> qs[i] \o Lf]
        BY <1>8, <2>3 DEF W
    <3> QED BY <3>1 DEF Fed
  <2>6. FlattenSeq(W) = text
    <3>1. FlattenSeq(Fed(qs)) \in LineSet
        BY <1>7, FlattenIs DEF LineSet
    <3>2. FlattenSeq(Fed(qs)) \o <<>> = FlattenSeq(Fed(qs))
        BY <3>1, ThreeLines
    <3>3. l = <<>>
        BY <1>2, <1>8
    <3> QED BY <1>2, <2>5, <3>2, <3>3
  <2> QED BY <2>4, <2>6 DEF W, ps
<1>9. CASE ~EndsInLf(text)
  <2>1. ~(Len(all) > 1 /\ Last(all) = <<>>)
    <3> HIDE DEF all, m
    <3> QED BY <1>2, <1>3, <1>4, <1>6, <1>9
  <2>2. ps = all /\ n = m + 1
      BY <1>3, <1>5, <2>1
  <2>3. ps \in Lines
    <3> HIDE DEF all
    <3> QED BY <1>3, <2>2 DEF Lines
  <2> DEFINE Z == Append(Fed(qs), l)
  <2>4. Z \in Seq(Seq(Byte)) /\ Len(Z) = m + 1 /\ Z[m + 1] = l /\ \A i \in 1 .. m : Z[i] = Fed(qs)[i]
    <3>1. l \in Seq(Byte)
        BY <1>2 DEF LineSet
    <3> HIDE DEF m
    <3> QED BY <1>7, <3>1, AppendProperties
  <2>5. W = [i \in 1 .. m + 1 |-> all[i] \o (IF i < m + 1 THEN Lf ELSE <<>>)]
      BY <1>9, <2>2 DEF W
  <2>6. ASSUME NEW i \in 1 .. m + 1 PROVE W[i] = Z[i]
    <3> HIDE DEF Z, all, m
    <3>1. W[i] = all[i] \o (IF i < m + 1 THEN Lf ELSE <<>>)
        BY <2>5
    <3>2. CASE i = m + 1
      <4>0. ~(i < m + 1) /\ all[i] = l
          BY <1>3, <3>2
      <4>1. W[i] = l \o <<>>
          BY <3>1, <4>0, Zenon
      <4>2. l \o <<>> = l
          BY <1>2, ThreeLines
      <4> QED BY <2>4, <3>2, <4>1, <4>2
    <3>3. CASE i # m + 1
      <4>1. i \in 1 .. m /\ i < m + 1
          BY <1>3, <3>3
      <4>2. W[i] = qs[i] \o Lf
          BY <1>3, <3>1, <4>1
      <4> QED BY <1>7, <2>4, <4>1, <4>2
    <3> QED BY <3>2, <3>3
  <2>7. W = Z
    <3>1. DOMAIN W = 1 .. m + 1 /\ W = [i \in 1 .. m + 1 |-> W[i]]
        BY <2>5
    <3>2. Z = [i \in 1 .. m + 1 |-> Z[i]]
      <4>1. Z = [i \in 1 .. Len(Z) |-> Z[i]]
        <5> HIDE DEF Z
        <5> QED BY <2>4
      <4> HIDE DEF Z
      <4> QED BY <2>4, <4>1
    <3> HIDE DEF Z
    <3>3. [i \in 1 .. m + 1 |-> W[i]] = [i \in 1 .. m + 1 |-> Z[i]]
        BY <2>6, Zenon
    <3> QED BY <3>1, <3>2, <3>3
  <2>8. FlattenSeq(Z) = FlattenSeq(Fed(qs)) \o l
      BY <1>2, <1>7, FlattenMore DEF LineSet
  <2> HIDE DEF Z
  <2>9. FlattenSeq(W) = text
      BY <1>2, <2>7, <2>8
  <2> QED BY <2>3, <2>9 DEF W, ps
<1> QED BY <1>8, <1>9

LEMMA ParsedIs ==
    ASSUME NEW text \in LineSet, NEW bom \in BOOLEAN
    PROVE  LET b == Parsed(text, bom)
               all == (IF bom THEN <<"bom">> ELSE <<>>) \o text
           IN  Alive(b, all, all)
<1> DEFINE b == Parsed(text, bom)
           mark == IF bom THEN <<"bom">> ELSE <<>>
           all == mark \o text
           ps == Pieces(text)
           n == Len(ps)
           E(i) == i < n \/ EndsInLf(text)
           lines == [i \in 1 .. n |-> IF E(i) THEN Bare(ps[i]) ELSE ps[i]]
           most == Dominant(text)
           ends == [i \in 1 .. n |-> IF ~E(i) THEN most
                                    ELSE IF lines[i] # ps[i] THEN Crlf ELSE Lf]
           W == [i \in 1 .. n |-> ps[i] \o (IF E(i) THEN Lf ELSE <<>>)]
           none == <<>>
<1>1. ps \in Lines /\ FlattenSeq(W) = text
    BY PiecesAre
<1>2. n \in Nat /\ n > 0 /\ \A i \in 1 .. n : ps[i] \in LineSet
  <2> HIDE DEF ps
  <2> QED BY <1>1, LinesAre
<1>3. most \in LineSet /\ Lf \in LineSet /\ Crlf \in LineSet
  <2>1. most \in {Lf, Crlf}
      BY DEF Dominant
  <2> HIDE DEF most
  <2> QED BY <2>1, LfIsLine
<1>4. EndsInLf(text) \in BOOLEAN /\ none \in Seq(Edits)
    BY DEF EndsInLf
<1>5. b = [lines |-> lines, eols |-> ends, trailing |-> EndsInLf(text), bom |-> bom,
           dominant |-> most, cursor |-> Cursor(1, 0), undo |-> none, redo |-> none,
           savedAt |-> 0, coalescing |-> FALSE]
    BY Zenon DEF Parsed, FromParts
<1> HIDE DEF ps, n, most, b, none
<1>6. lines \in Seq(LineSet) /\ Len(lines) = n /\ \A i \in 1 .. n : lines[i] \in LineSet
  <2>1. lines \in [1 .. n -> LineSet]
      BY <1>2, BareIs
  <2> HIDE DEF lines
  <2> QED BY <1>2, <2>1, ListOf
<1>7. \A i \in 1 .. n : lines[i] = IF E(i) THEN Bare(ps[i]) ELSE ps[i]
    OBVIOUS
<1> HIDE DEF lines
<1>8. ends \in Seq(LineSet) /\ Len(ends) = n
  <2>1. ends \in [1 .. n -> LineSet]
      BY <1>3
  <2> HIDE DEF ends
  <2> QED BY <1>2, <2>1, ListOf
<1>9. \A i \in 1 .. n : ends[i] = IF ~E(i) THEN most ELSE IF lines[i] # ps[i] THEN Crlf ELSE Lf
    OBVIOUS
<1> HIDE DEF ends
<1>10. lines \in Lines
    BY <1>2, <1>6 DEF Lines
<1>11. Cursor(1, 0) \in Place /\ Inside(lines, Cursor(1, 0))
  <2>1. Len(lines[1]) \in Nat
    <3>1. 1 \in 1 .. n
        BY <1>2
    <3>2. lines[1] \in LineSet
        BY <1>6, <3>1
    <3> QED BY <3>2, LenProperties DEF LineSet
  <2>2. 1 \in Nat /\ 1 > 0 /\ 1 <= Len(lines) /\ 0 \in Nat /\ 0 <= Len(lines[1])
      BY <1>2, <1>6, <2>1
  <2>3. Inside(lines, Cursor(1, 0))
      BY <1>10, <2>2, CursorIn
  <2> QED BY <2>3 DEF Inside
<1> DEFINE at == Cursor(1, 0)
           tr == EndsInLf(text)
<1> HIDE DEF at, tr
<1>12. b = [lines |-> lines, eols |-> ends, trailing |-> tr, bom |-> bom,
           dominant |-> most, cursor |-> at, undo |-> none, redo |-> none,
           savedAt |-> 0, coalescing |-> FALSE]
    BY <1>5 DEF at, tr
<1>13. /\ b \in Buffers /\ b.lines = lines /\ b.eols = ends /\ b.trailing = tr /\ b.bom = bom
       /\ b.undo = none /\ b.redo = none /\ b.savedAt = 0 /\ b.cursor = at /\ b.coalescing = FALSE
  <2>1. at \in Place /\ tr \in BOOLEAN
      BY <1>4, <1>11 DEF at, tr
  <2> QED BY <1>3, <1>4, <1>8, <1>10, <1>12, <2>1 DEF Buffers
<1>14. Len(b.undo) = 0 /\ Len(b.redo) = 0
    BY <1>13 DEF none
<1>15. DocOf(b) \in Docs
    BY <1>6, <1>8, <1>10, <1>13 DEF DocOf, Docs
<1> DEFINE doc == DocOf(b)
           D == [k \in Nat |-> doc]
<1> HIDE DEF doc
<1>16. D \in [Nat -> Docs] /\ D[0] = doc
    BY <1>15 DEF doc
<1> HIDE DEF D
<1>17. History(b, D)
  <2>1. Inside(b.lines, b.cursor)
      BY <1>11, <1>13 DEF at
  <2>2. \A k \in 1 .. 0 : FALSE
      OBVIOUS
  <2>3. DocOf(b) = D[Len(b.undo)]
      BY <1>14, <1>16 DEF doc
  <2> QED BY <1>13, <1>14, <1>16, <2>1, <2>2, <2>3 DEF History
<1>18. ToBytes(b) = all
  <2> DEFINE V == [i \in 1 .. Len(b.lines) |->
                     b.lines[i] \o (IF Ended(b, i) THEN b.eols[i] ELSE <<>>)]
  <2>1. ToBytes(b) = mark \o FlattenSeq(V)
      BY <1>13 DEF ToBytes
  <2>2. V = [i \in 1 .. n |-> lines[i] \o (IF E(i) THEN ends[i] ELSE <<>>)]
    <3>1. \A i : Ended(b, i) <=> E(i)
        BY <1>6, <1>13 DEF Ended, tr
    <3> HIDE DEF E
    <3> QED BY <1>6, <1>13, <3>1
  <2>3. ASSUME NEW i \in 1 .. n
        PROVE  lines[i] \o (IF E(i) THEN ends[i] ELSE <<>>) = ps[i] \o (IF E(i) THEN Lf ELSE <<>>)
    <3> DEFINE e == E(i)
    <3>1. lines[i] = IF e THEN Bare(ps[i]) ELSE ps[i]
        BY <1>7
    <3>2. ends[i] = IF ~e THEN most ELSE IF lines[i] # ps[i] THEN Crlf ELSE Lf
        BY <1>9
    <3>3. Bare(ps[i]) \o (IF Bare(ps[i]) # ps[i] THEN Crlf ELSE Lf) = ps[i] \o Lf
        BY <1>2, BareIs
    <3> HIDE DEF e
    <3>4. lines[i] \o (IF e THEN ends[i] ELSE <<>>) = ps[i] \o (IF e THEN Lf ELSE <<>>)
      <4>1. CASE e
        <5>1. lines[i] = Bare(ps[i])
            BY <3>1, <4>1
        <5>2. ends[i] = IF Bare(ps[i]) # ps[i] THEN Crlf ELSE Lf
            BY <3>2, <4>1, <5>1
        <5> QED BY <3>3, <4>1, <5>1, <5>2, Zenon
      <4>2. CASE ~e
          BY <3>1, <4>2
      <4> QED BY <4>1, <4>2
    <3> QED BY <3>4 DEF e
  <2>4. V = W
    <3>1. [i \in 1 .. n |-> lines[i] \o (IF E(i) THEN ends[i] ELSE <<>>)] = W
        BY <2>3, Zenon
    <3> QED BY <2>2, <3>1
  <2> HIDE DEF V, W
  <2> QED BY <1>1, <2>1, <2>4
<1>19. BytesOf(D[0], b) = all
    BY <1>16, <1>18, BytesAre DEF doc
<1>20. Remembers(b, D, all, all)
  <2>1. 0 \in 0 .. 0 + 0
      OBVIOUS
  <2> QED BY <1>13, <1>14, <1>17, <1>19, <2>1 DEF Remembers
<1> HIDE DEF all
<1>21. Alive(b, all, all)
    BY <1>20 DEF Alive
<1> QED BY <1>21 DEF all, b

\* A file that is opened is the file as it is written back.
LEMMA InspectIs ==
    ASSUME NEW bytes \in Seq(Byte), Inspect(bytes) # Rejected
    PROVE  Alive(Inspect(bytes)[1], bytes, bytes)
<1> DEFINE bom == bytes # <<>> /\ bytes[1] = "bom"
           text == IF bom THEN Tail(bytes) ELSE bytes
           b == Parsed(text, bom)
           mark == IF bom THEN <<"bom">> ELSE <<>>
<1>1. Inspect(bytes) = <<b>>
    BY DEF Inspect
<1>2. text \in LineSet /\ mark \o text = bytes
  <2>1. CASE bom
    <3>1. bytes # <<>> /\ bytes[1] = "bom"
        BY <2>1
    <3>2. Tail(bytes) \in Seq(Byte) /\ bytes = <<bytes[1]>> \o Tail(bytes)
        BY <3>1, HeadTailProperties
    <3> QED BY <2>1, <3>1, <3>2 DEF LineSet
  <2>2. CASE ~bom
    <3> HIDE DEF bom
    <3> QED BY <2>2, ThreeLines DEF LineSet
  <2> QED BY <2>1, <2>2
<1>3. bom \in BOOLEAN
    OBVIOUS
<1> HIDE DEF bom, text
<1>4. Alive(b, mark \o text, mark \o text)
    BY <1>2, <1>3, ParsedIs
<1> HIDE DEF b, mark
<1> QED BY <1>1, <1>2, <1>4

(***************************************************************************)
(* Find.                                                                   *)
(***************************************************************************)
\* Columns of matches of w in a line, from col on, left to right.
HitList(line, w, col, s) ==
    /\ s \in Seq(Nat)
    /\ \A k \in 1 .. Len(s) : col <= s[k] /\ s[k] + Len(w) <= Len(line)
    /\ \A i, j \in 1 .. Len(s) : i < j => s[i] < s[j]

LEMMA HitListMore ==
    ASSUME NEW line \in LineSet, NEW w \in LineSet, Len(w) > 0, NEW col \in Nat,
           col + Len(w) <= Len(line), NEW s, HitList(line, w, col + Len(w), s)
    PROVE  HitList(line, w, col, <<col>> \o s)
<1> DEFINE z == <<col>> \o s
           n == Len(s)
           m == Len(line)
           v == Len(w)
<1>1. s \in Seq(Nat) /\ n \in Nat /\ v \in Nat /\ v > 0 /\ m \in Nat
      /\ \A k \in 1 .. n : s[k] \in Nat /\ col + v <= s[k] /\ s[k] + v <= m
  <2>1. s \in Seq(Nat) /\ \A k \in 1 .. n : col + v <= s[k] /\ s[k] + v <= m
      BY DEF HitList
  <2>2. n \in Nat /\ v \in Nat /\ m \in Nat
      BY <2>1, LenProperties DEF LineSet
  <2>3. \A k \in 1 .. n : s[k] \in Nat
      BY <2>1, ElementOfSeq
  <2> QED BY <2>1, <2>2, <2>3
<1>2. \A i, j \in 1 .. n : i < j => s[i] < s[j]
    BY DEF HitList
<1>3. /\ z \in Seq(Nat) /\ Len(z) = n + 1 /\ z[1] = col
      /\ \A k \in 1 .. n + 1 : k # 1 => z[k] = s[k - 1]
  <2> DEFINE one == <<col>>
  <2>1. one \in Seq(Nat) /\ Len(one) = 1 /\ one[1] = col
      OBVIOUS
  <2> HIDE DEF one, n
  <2>2. one \o s \in Seq(Nat) /\ Len(one \o s) = 1 + n
        /\ \A i \in 1 .. 1 + n : (one \o s)[i] = IF i <= 1 THEN one[i] ELSE s[i - 1]
    <3>1. one \o s \in Seq(Nat) /\ Len(one \o s) = Len(one) + Len(s)
          /\ \A i \in 1 .. Len(one) + Len(s) :
               (one \o s)[i] = IF i <= Len(one) THEN one[i] ELSE s[i - Len(one)]
      <4>1. s \in Seq(Nat) /\ one \in Seq(Nat)
          BY <1>1, <2>1
      <4> QED BY ONLY <4>1, ConcatProperties, Zenon
    <3>2. Len(one) = 1 /\ Len(s) = n
        BY <2>1 DEF n
    <3> QED BY <3>1, <3>2, Zenon
  <2>3. 1 + n = n + 1 /\ 1 \in 1 .. 1 + n
      BY <1>1
  <2>4. \A k \in 1 .. n + 1 : k # 1 => ~(k <= 1)
      BY <1>1
  <2> QED BY <2>1, <2>2, <2>3, <2>4 DEF one
<1> HIDE DEF z, n, m, v
<1>4. \A k \in 1 .. n + 1 : k = 1 \/ (k # 1 /\ k - 1 \in 1 .. n)
    BY <1>1
<1>5. col <= col /\ col + v <= m
    BY DEF v, m
<1>6. ASSUME NEW k \in 1 .. n + 1 PROVE col <= z[k] /\ z[k] + v <= m
  <2>1. CASE k = 1
      BY <1>3, <1>5, <2>1
  <2>2. CASE k # 1
    <3>1. k - 1 \in 1 .. n /\ z[k] = s[k - 1]
        BY <1>3, <1>4, <2>2
    <3>2. s[k - 1] \in Nat /\ col + v <= s[k - 1] /\ s[k - 1] + v <= m
        BY <1>1, <3>1
    <3>3. col <= s[k - 1]
        BY <1>1, <3>2
    <3> QED BY <3>1, <3>2, <3>3
  <2> QED BY <2>1, <2>2
<1>7. ASSUME NEW i \in 1 .. n + 1, NEW j \in 1 .. n + 1, i < j PROVE z[i] < z[j]
  <2>1. j # 1 /\ j - 1 \in 1 .. n /\ z[j] = s[j - 1]
      BY <1>1, <1>3, <1>4, <1>7
  <2>2. CASE i = 1
    <3>1. s[j - 1] \in Nat /\ col + v <= s[j - 1]
        BY <1>1, <2>1
    <3>2. col < s[j - 1]
        BY <1>1, <3>1
    <3> QED BY <1>3, <2>1, <2>2, <3>2
  <2>3. CASE i # 1
    <3>1. i - 1 \in 1 .. n /\ z[i] = s[i - 1] /\ i - 1 < j - 1
        BY <1>3, <1>4, <1>7, <2>3
    <3> QED BY <1>2, <2>1, <3>1
  <2> QED BY <2>2, <2>3
<1>8. HitList(line, w, col, z)
    BY <1>3, <1>6, <1>7 DEF HitList, v, m
<1> QED BY <1>8 DEF z

LEMMA HitListLess ==
    ASSUME NEW line, NEW w, NEW col \in Nat, NEW s, HitList(line, w, col + 1, s)
    PROVE  HitList(line, w, col, s)
<1>1. s \in Seq(Nat) /\ \A k \in 1 .. Len(s) : col + 1 <= s[k] /\ s[k] + Len(w) <= Len(line)
    BY DEF HitList
<1>2. \A k \in 1 .. Len(s) : s[k] \in Nat
    BY <1>1, ElementOfSeq
<1>3. \A k \in 1 .. Len(s) : col <= s[k]
    BY <1>1, <1>2
<1> QED BY <1>1, <1>3 DEF HitList

LEMMA HitListNone ==
    ASSUME NEW line, NEW w, NEW col PROVE HitList(line, w, col, <<>>)
<1>1. Len(<<>>) = 0 /\ <<>> \in Seq(Nat) /\ 1 .. 0 = {}
    OBVIOUS
<1> QED BY <1>1 DEF HitList

LEMMA HitsOnLineIs ==
    ASSUME NEW line \in LineSet, NEW w \in LineSet, w # <<>>
    PROVE  HitList(line, w, 0, HitsOnLine(line, w))
<1> DEFINE m == Len(line)
           v == Len(w)
           Next(h, c) == IF c + v > m THEN <<>>
                         ELSE IF IsAt(line, w, c) THEN <<c>> \o h[c + v] ELSE h[c + 1]
           Def(h) == h = [c \in Nat |-> Next(h, c)]
           f == CHOOSE h : Def(h)
<1>1. m \in Nat /\ v \in Nat /\ v > 0
    BY LenProperties, EmptySeq DEF LineSet
<1>2. HitsOnLine(line, w) = f[0]
    BY Zenon DEF HitsOnLine
<1> HIDE DEF m, v
<1>3. \E h : Def(h)
  <2> DEFINE T == [Nat -> Seq(Nat)]
             \* From the end of the line back: k columns known.
             Known(h, k) == /\ h \in T
                            /\ \A c \in Nat : c + k > m => h[c] = Next(h, c)
             S == {k \in 0 .. m + 1 : \E h : Known(h, k)}
  <2>1. 0 \in S
    <3> DEFINE h == [c \in Nat |-> <<>>]
    <3>1. h \in T /\ \A c \in Nat : h[c] = <<>>
        OBVIOUS
    <3> HIDE DEF h
    <3>2. ASSUME NEW c \in Nat, c + 0 > m PROVE h[c] = Next(h, c)
      <4>1. c + v > m
          BY <1>1, <3>2
      <4> QED BY <3>1, <4>1
    <3>3. Known(h, 0)
        BY <3>1, <3>2
    <3>4. 0 \in 0 .. m + 1
        BY <1>1
    <3> QED BY <3>3, <3>4
  <2>2. ASSUME NEW k \in S, k < m + 1 PROVE k + 1 \in S
    <3>1. PICK h : Known(h, k)
        BY <2>2
    <3> DEFINE at == m - k
               g2 == [h EXCEPT ![at] = Next(h, at)]
    <3>2. at \in Nat /\ at + k = m /\ k \in Nat /\ k + 1 \in 0 .. m + 1
        BY <1>1, <2>2
    <3>3. h \in T /\ DOMAIN h = Nat
        BY <3>1
    <3> HIDE DEF at
    <3>4. Next(h, at) \in Seq(Nat)
      <4>1. at + v \in Nat /\ at + 1 \in Nat
          BY <1>1, <3>2
      <4>2. h[at + v] \in Seq(Nat) /\ h[at + 1] \in Seq(Nat)
          BY <3>3, <4>1
      <4>3. <<at>> \in Seq(Nat) /\ <<>> \in Seq(Nat)
          BY <3>2
      <4>4. <<at>> \o h[at + v] \in Seq(Nat)
        <5> DEFINE a == <<at>>
                   z == h[at + v]
        <5>1. a \in Seq(Nat) /\ z \in Seq(Nat)
            BY <4>2, <4>3
        <5> HIDE DEF a, z
        <5>2. a \o z \in Seq(Nat)
            BY <5>1, ConcatProperties
        <5> QED BY <5>2 DEF a, z
      <4> QED BY <4>2, <4>3, <4>4, Zenon
    <3>5. g2 \in T /\ g2[at] = Next(h, at) /\ \A c \in Nat : c # at => g2[c] = h[c]
      <4> DEFINE q == Next(h, at)
      <4>1. q \in Seq(Nat)
          BY <3>4
      <4> HIDE DEF q, Next
      <4>2. g2 = [h EXCEPT ![at] = q]
          BY DEF q
      <4> QED BY <3>2, <3>3, <4>1, <4>2 DEF q
    <3> HIDE DEF g2
    <3>6. ASSUME NEW c \in Nat, c + (k + 1) > m PROVE g2[c] = Next(g2, c)
      <4>1. c + v # at /\ c + 1 # at /\ c + v \in Nat /\ c + 1 \in Nat
          BY <1>1, <3>2, <3>6
      <4>2. g2[c + v] = h[c + v] /\ g2[c + 1] = h[c + 1]
          BY <3>5, <4>1
      <4>3. Next(g2, c) = Next(h, c)
          BY <4>2
      <4>4. CASE c = at
          BY <3>5, <4>3, <4>4
      <4>5. CASE c # at
        <5>1. c + k > m
            BY <1>1, <3>2, <3>6, <4>5
        <5>2. h[c] = Next(h, c)
            BY <3>1, <5>1
        <5> HIDE DEF Next
        <5> QED BY <3>5, <4>3, <4>5, <5>2
      <4> HIDE DEF Next
      <4> QED BY <4>4, <4>5
    <3>7. Known(g2, k + 1)
      <4> HIDE DEF Next
      <4> QED BY <3>5, <3>6
    <3> HIDE DEF Known
    <3> QED BY <3>2, <3>7
  <2>3. m + 1 \in S
    <3>1. S = 0 .. m + 1
      <4>1. S \in SUBSET (0 .. m + 1) /\ m + 1 \in Nat
          BY <1>1
      <4> HIDE DEF S
      <4> QED BY <2>1, <2>2, <4>1, InductUpTo
    <3>2. m + 1 \in 0 .. m + 1
        BY <1>1
    <3> QED BY <3>1, <3>2
  <2>4. PICK h : Known(h, m + 1)
      BY <2>3
  <2>5. h \in T /\ \A c \in Nat : c + (m + 1) > m => h[c] = Next(h, c)
      BY <2>4
  <2>6. \A c \in Nat : c + (m + 1) > m
      BY <1>1
  <2> HIDE DEF Next
  <2>7. \A c \in Nat : h[c] = Next(h, c)
      BY <2>5, <2>6
  <2>8. h = [c \in Nat |-> h[c]]
      BY <2>5
  <2>9. Def(h)
      BY <2>7, <2>8
  <2> QED BY <2>9
<1>4. Def(f)
  <2> HIDE DEF Def
  <2> QED BY <1>3
<1> HIDE DEF f
<1>5. \A c \in Nat : f[c] = Next(f, c)
  <2> HIDE DEF Next
  <2> QED BY <1>4
<1> DEFINE S == {k \in Nat : \A c \in Nat : c + k > m => HitList(line, w, c, f[c])}
<1>6. 0 \in S
  <2>1. ASSUME NEW c \in Nat, c + 0 > m PROVE HitList(line, w, c, f[c])
    <3>1. c + v > m
        BY <1>1, <2>1
    <3>2. f[c] = <<>>
        BY <1>5, <3>1
    <3> QED BY <3>2, HitListNone
  <2> QED BY <2>1
<1>7. ASSUME NEW k \in S PROVE k + 1 \in S
  <2>1. k \in Nat /\ \A c \in Nat : c + k > m => HitList(line, w, c, f[c])
      BY <1>7
  <2>2. ASSUME NEW c \in Nat, c + (k + 1) > m PROVE HitList(line, w, c, f[c])
    <3>1. c + v \in Nat /\ c + 1 \in Nat /\ (c + v) + k > m /\ (c + 1) + k > m
        BY <1>1, <2>1, <2>2
    <3>2. HitList(line, w, c + v, f[c + v]) /\ HitList(line, w, c + 1, f[c + 1])
        BY <2>1, <3>1
    <3>3. f[c] = Next(f, c)
        BY <1>5
    <3>4. CASE c + v > m
        BY <3>3, <3>4, HitListNone
    <3>5. CASE ~(c + v > m) /\ IsAt(line, w, c)
      <4>1. f[c] = <<c>> \o f[c + v]
          BY <3>3, <3>5
      <4>2. c + v <= m
          BY <1>1, <3>5
      <4>3. HitList(line, w, c, <<c>> \o f[c + v])
          BY <1>1, <3>2, <4>2, HitListMore DEF v, m
      <4> QED BY <4>1, <4>3
    <3>6. CASE ~(c + v > m) /\ ~IsAt(line, w, c)
      <4>1. f[c] = f[c + 1]
          BY <3>3, <3>6
      <4> QED BY <3>2, <4>1, HitListLess
    <3> QED BY <3>4, <3>5, <3>6
  <2>3. k + 1 \in Nat
      BY <2>1
  <2> QED BY <2>2, <2>3
<1>8. S = Nat
  <2>1. S \in SUBSET Nat
      OBVIOUS
  <2> HIDE DEF S
  <2> QED BY <1>6, <1>7, <2>1, Induct
<1>9. HitList(line, w, 0, f[0])
  <2>1. m + 1 \in Nat /\ 0 + (m + 1) > m /\ 0 \in Nat
      BY <1>1
  <2>2. m + 1 \in S
    <3> HIDE DEF S
    <3> QED BY <1>8, <2>1
  <2>3. \A c \in Nat : c + (m + 1) > m => HitList(line, w, c, f[c])
      BY <2>2
  <2> QED BY <2>1, <2>3
<1> QED BY <1>2, <1>9

\* Places in the first n lines of a text, in the order of the text.
AreHits(lines, n, s) ==
    /\ s \in Seq(Place)
    /\ \A k \in 1 .. Len(s) : Inside(lines, s[k]) /\ s[k].line <= n
    /\ \A i, j \in 1 .. Len(s) : i < j => Before(s[i], s[j])

LEMMA OnLineAre ==
    ASSUME NEW lines \in Lines, NEW w \in LineSet, w # <<>>, NEW n \in 1 .. Len(lines)
    PROVE  LET cols == HitsOnLine(lines[n], w)
               s    == [k \in 1 .. Len(cols) |-> Cursor(n, cols[k])]
           IN  AreHits(lines, n, s) /\ \A k \in 1 .. Len(s) : s[k].line = n
<1> DEFINE line == lines[n]
           cols == HitsOnLine(line, w)
           m == Len(cols)
           s == [k \in 1 .. m |-> Cursor(n, cols[k])]
<1>1. line \in LineSet /\ n \in Nat /\ n > 0 /\ n <= Len(lines)
    BY LinesAre
<1>2. HitList(line, w, 0, cols)
    BY <1>1, HitsOnLineIs
<1>3. cols \in Seq(Nat) /\ m \in Nat /\ Len(w) \in Nat /\ Len(line) \in Nat
    BY <1>1, <1>2, LenProperties DEF HitList, LineSet
<1>4. \A k \in 1 .. m : cols[k] \in Nat /\ cols[k] + Len(w) <= Len(line)
    BY <1>2, <1>3, ElementOfSeq DEF HitList
<1>5. \A i, j \in 1 .. m : i < j => cols[i] < cols[j]
    BY <1>2 DEF HitList
<1> HIDE DEF cols, m, line
<1>6. ASSUME NEW k \in 1 .. m
      PROVE  /\ Cursor(n, cols[k]) \in Place /\ Inside(lines, Cursor(n, cols[k]))
             /\ Cursor(n, cols[k]).line = n /\ Cursor(n, cols[k]).col = cols[k]
  <2> DEFINE c == cols[k]
  <2>1. c \in Nat /\ c <= Len(lines[n])
    <3>1. c \in Nat /\ c + Len(w) <= Len(line)
        BY <1>4
    <3> HIDE DEF c
    <3>2. c <= Len(line)
        BY <1>3, <3>1
    <3> QED BY <3>1, <3>2 DEF line
  <2> HIDE DEF c
  <2>2. Inside(lines, Cursor(n, c)) /\ Cursor(n, c).line = n /\ Cursor(n, c).col = c
      BY <1>1, <2>1, CursorIn
  <2>3. Cursor(n, c) \in Place
      BY <2>2 DEF Inside
  <2> QED BY <2>2, <2>3 DEF c
<1>7. s \in Seq(Place) /\ Len(s) = m /\ \A k \in 1 .. m : s[k] = Cursor(n, cols[k])
  <2>1. s \in [1 .. m -> Place] /\ \A k \in 1 .. m : s[k] = Cursor(n, cols[k])
      BY <1>6
  <2> HIDE DEF s
  <2> QED BY <1>3, <2>1, ListOf
<1> HIDE DEF s
<1>8. \A k \in 1 .. m : Inside(lines, s[k]) /\ s[k].line = n /\ s[k].line <= n /\ s[k].col = cols[k]
    BY <1>1, <1>6, <1>7
<1>9. \A i, j \in 1 .. m : i < j => Before(s[i], s[j])
    BY <1>5, <1>8 DEF Before
<1>10. AreHits(lines, n, s) /\ \A k \in 1 .. Len(s) : s[k].line = n
    BY <1>7, <1>8, <1>9 DEF AreHits
<1> QED BY <1>10 DEF s, m, cols, line

LEMMA HitsJoin ==
    ASSUME NEW lines \in Lines, NEW n \in Nat, NEW s, AreHits(lines, n, s), NEW t,
           AreHits(lines, n + 1, t), \A k \in 1 .. Len(t) : t[k].line = n + 1
    PROVE  AreHits(lines, n + 1, s \o t)
<1> DEFINE a == Len(s)
           b == Len(t)
           z == s \o t
<1>1. s \in Seq(Place) /\ t \in Seq(Place) /\ a \in Nat /\ b \in Nat
    BY LenProperties DEF AreHits
<1>2. /\ z \in Seq(Place) /\ Len(z) = a + b
      /\ \A i \in 1 .. a + b : z[i] = IF i <= a THEN s[i] ELSE t[i - a]
    BY ONLY <1>1, ConcatProperties, Zenon
<1>3. \A k \in 1 .. a : Inside(lines, s[k]) /\ s[k].line <= n /\ s[k] \in Place
    BY <1>1, ElementOfSeq DEF AreHits
<1>4. \A k \in 1 .. b : Inside(lines, t[k]) /\ t[k].line = n + 1 /\ t[k] \in Place
    BY <1>1, ElementOfSeq DEF AreHits
<1>5. /\ \A i, j \in 1 .. a : i < j => Before(s[i], s[j])
      /\ \A i, j \in 1 .. b : i < j => Before(t[i], t[j])
    BY DEF AreHits
<1> HIDE DEF z, a, b
<1>6. \A i \in 1 .. a + b : (i <= a /\ i \in 1 .. a) \/ (~(i <= a) /\ i - a \in 1 .. b)
    BY <1>1
<1>7. ASSUME NEW i \in 1 .. a + b PROVE Inside(lines, z[i]) /\ z[i].line <= n + 1
  <2>1. CASE i <= a
    <3>1. z[i] = s[i] /\ i \in 1 .. a
        BY <1>2, <1>6, <2>1
    <3>2. s[i].line <= n /\ s[i].line \in Nat /\ Inside(lines, s[i])
        BY <1>3, <3>1 DEF Place
    <3> QED BY <3>1, <3>2
  <2>2. CASE ~(i <= a)
    <3>1. z[i] = t[i - a] /\ i - a \in 1 .. b
        BY <1>2, <1>6, <2>2
    <3>2. t[i - a].line = n + 1 /\ Inside(lines, t[i - a])
        BY <1>4, <3>1
    <3> QED BY <3>1, <3>2
  <2> QED BY <2>1, <2>2
<1>8. ASSUME NEW i \in 1 .. a + b, NEW j \in 1 .. a + b, i < j PROVE Before(z[i], z[j])
  <2>1. CASE j <= a
    <3>1. i <= a
        BY <1>1, <1>8, <2>1
    <3>2. z[i] = s[i] /\ i \in 1 .. a /\ z[j] = s[j] /\ j \in 1 .. a
        BY <1>2, <1>6, <2>1, <3>1
    <3> QED BY <1>5, <1>8, <3>2
  <2>2. CASE ~(j <= a) /\ i <= a
    <3>1. z[i] = s[i] /\ i \in 1 .. a /\ z[j] = t[j - a] /\ j - a \in 1 .. b
        BY <1>2, <1>6, <2>2
    <3>2. s[i].line \in Nat /\ s[i].line <= n /\ t[j - a].line = n + 1
        BY <1>3, <1>4, <3>1 DEF Place
    <3>3. s[i].line < t[j - a].line
        BY <3>2
    <3> QED BY <3>1, <3>3 DEF Before
  <2>3. CASE ~(j <= a) /\ ~(i <= a)
    <3>1. z[i] = t[i - a] /\ i - a \in 1 .. b /\ z[j] = t[j - a] /\ j - a \in 1 .. b
        BY <1>2, <1>6, <2>3
    <3>2. i - a < j - a
        BY <1>1, <1>8
    <3> QED BY <1>5, <3>1, <3>2
  <2> QED BY <2>1, <2>2, <2>3
<1>9. AreHits(lines, n + 1, z)
    BY <1>2, <1>7, <1>8 DEF AreHits
<1> QED BY <1>9 DEF z

LEMMA MatchesAre ==
    ASSUME NEW lines \in Lines, NEW w \in LineSet
    PROVE  AreHits(lines, Len(lines), Matches(lines, w))
<1> DEFINE L == Len(lines)
           none == <<>>
<1>0. \A n : AreHits(lines, n, none)
  <2>1. Len(<<>>) = 0 /\ <<>> \in Seq(Place) /\ 1 .. 0 = {}
      OBVIOUS
  <2> QED BY <2>1 DEF AreHits
<1>1. CASE w = <<>>
    BY <1>0, <1>1 DEF Matches
<1>2. CASE w # <<>>
  <2> DEFINE On(n) == LET cols == HitsOnLine(lines[n], w)
                      IN  [k \in 1 .. Len(cols) |-> Cursor(n, cols[k])]
             Q(n) == [i \in 1 .. n |-> On(i)]
             S == {n \in 0 .. L : AreHits(lines, n, FlattenSeq(Q(n)))}
  <2>1. L \in Nat
      BY LinesAre
  <2>2. \A n \in 1 .. L : AreHits(lines, n, On(n)) /\ \A k \in 1 .. Len(On(n)) : On(n)[k].line = n
      BY <1>2, OnLineAre
  <2>3. Matches(lines, w) = FlattenSeq(Q(L))
      BY <1>2 DEF Matches
  <2> HIDE DEF On, L
  <2>4. \A n \in 1 .. L : On(n) \in Seq(Place)
      BY <2>2 DEF AreHits
  <2>5. \A n \in 0 .. L : Q(n) \in Seq(Seq(Place)) /\ Len(Q(n)) = n
    <3> SUFFICES ASSUME NEW n \in 0 .. L PROVE Q(n) \in Seq(Seq(Place)) /\ Len(Q(n)) = n
        OBVIOUS
    <3>1. Q(n) \in [1 .. n -> Seq(Place)]
        BY <2>1, <2>4
    <3>2. n \in Nat
        BY <2>1
    <3> HIDE DEF Q
    <3> QED BY <3>1, <3>2, ListOf
  <2>6. \A n : \A i \in 1 .. n : Q(n)[i] = On(i)
      OBVIOUS
  <2>7. Q(0) = <<>>
    <3>1. 1 .. 0 = {}
        OBVIOUS
    <3> QED BY <3>1
  <2> HIDE DEF Q
  <2>8. 0 \in S
    <3>1. FlattenSeq(Q(0)) = none
        BY <2>7, FlattenNothing
    <3>2. 0 \in 0 .. L
        BY <2>1
    <3> QED BY <1>0, <3>1, <3>2
  <2>9. ASSUME NEW n \in S, n < L PROVE n + 1 \in S
    <3>1. n \in Nat /\ n \in 0 .. L /\ n + 1 \in 1 .. L /\ n + 1 \in 0 .. L
        BY <2>1, <2>9
    <3> DEFINE z == Append(Q(n), On(n + 1))
    <3>2. /\ z \in Seq(Seq(Place)) /\ Len(z) = n + 1 /\ z[n + 1] = On(n + 1)
          /\ \A i \in 1 .. n : z[i] = Q(n)[i]
        BY <2>4, <2>5, <3>1, AppendProperties
    <3> HIDE DEF z
    <3>3. ASSUME NEW i \in 1 .. n + 1 PROVE Q(n + 1)[i] = z[i]
      <4>1. Q(n + 1)[i] = On(i)
          BY <2>6
      <4>2. CASE i = n + 1
          BY <3>2, <4>1, <4>2
      <4>3. CASE i # n + 1
        <5>1. i \in 1 .. n
            BY <3>1, <4>3
        <5> QED BY <2>6, <3>2, <4>1, <5>1
      <4> QED BY <4>2, <4>3
    <3>4. Q(n + 1) = z
        BY <2>5, <3>1, <3>2, <3>3, SeqEqual
    <3>5. FlattenSeq(z) = FlattenSeq(Q(n)) \o On(n + 1)
        BY <2>4, <2>5, <3>1, FlattenMore DEF z
    <3>6. AreHits(lines, n + 1, FlattenSeq(Q(n)) \o On(n + 1))
      <4>1. AreHits(lines, n, FlattenSeq(Q(n)))
          BY <2>9
      <4> QED BY <2>2, <3>1, <4>1, HitsJoin
    <3> QED BY <3>1, <3>4, <3>5, <3>6
  <2>10. L \in S
    <3>1. S = 0 .. L
      <4>1. S \in SUBSET (0 .. L)
          OBVIOUS
      <4> HIDE DEF S
      <4> QED BY <2>1, <2>8, <2>9, <4>1, InductUpTo
    <3>2. L \in 0 .. L
        BY <2>1
    <3> QED BY <3>1, <3>2
  <2> QED BY <2>3, <2>10 DEF L
<1> QED BY <1>1, <1>2

LEMMA FirstFromIs ==
    ASSUME NEW lines, NEW n, NEW hits, AreHits(lines, n, hits), NEW at
    PROVE  /\ FirstFrom(hits, at) \in 0 .. Len(hits) /\ Len(hits) \in Nat
           /\ hits # <<>> => FirstFrom(hits, at) # 0
           /\ \A i \in 1 .. Len(hits) : at = hits[i] => FirstFrom(hits, at) = i
<1> DEFINE m == Len(hits)
           later == {i \in DOMAIN hits : ~Before(hits[i], at)}
           least == CHOOSE i \in later : \A j \in later : i <= j
<1>1. hits \in Seq(Place) /\ m \in Nat /\ DOMAIN hits = 1 .. m /\ (hits = <<>> <=> m = 0)
    BY LenProperties, EmptySeq DEF AreHits
<1>2. FirstFrom(hits, at) = IF hits = <<>> THEN 0 ELSE IF later = {} THEN 1 ELSE least
    BY DEF FirstFrom
<1>3. later # {} => /\ least \in later /\ \A j \in later : least <= j
  <2> SUFFICES ASSUME later # {} PROVE least \in later /\ \A j \in later : least <= j
      OBVIOUS
  <2>1. later \in SUBSET Nat
      BY <1>1
  <2> HIDE DEF later
  <2>2. \E i \in later : \A j \in later : i <= j
      BY <2>1, LeastOf
  <2> QED BY <2>2
<1>4. \A i \in later : i \in 1 .. m
    BY <1>1
<1>5. ASSUME NEW i \in 1 .. m, at = hits[i] PROVE FirstFrom(hits, at) = i
  <2>1. hits[i] \in Place /\ ~Before(hits[i], hits[i])
    <3>1. hits[i] \in Place
        BY <1>1, ElementOfSeq
    <3> QED BY <3>1 DEF Before, Place
  <2>2. i \in later
      BY <1>1, <1>5, <2>1
  <2>3. \A j \in 1 .. m : j < i => j \notin later
      BY <1>5 DEF AreHits
  <2> HIDE DEF later, least
  <2>4. least \in later /\ least <= i /\ least \in 1 .. m /\ later # {}
      BY <1>3, <1>4, <2>2
  <2>5. ~(least < i)
      BY <2>3, <2>4
  <2>6. least = i
      BY <1>1, <2>4, <2>5
  <2>7. hits # <<>>
      BY <1>1
  <2> QED BY <1>2, <2>4, <2>6, <2>7
<1>6. FirstFrom(hits, at) \in 0 .. m /\ (hits # <<>> => FirstFrom(hits, at) # 0)
  <2> HIDE DEF later, least
  <2>1. CASE hits = <<>>
      BY <1>1, <1>2, <2>1
  <2>2. CASE hits # <<>> /\ later = {}
      BY <1>1, <1>2, <2>2
  <2>3. CASE hits # <<>> /\ later # {}
    <3>1. least \in 1 .. m
        BY <1>3, <1>4, <2>3
    <3> QED BY <1>1, <1>2, <2>3, <3>1
  <2> QED BY <2>1, <2>2, <2>3
<1> QED BY <1>1, <1>5, <1>6

(***************************************************************************)
(* The text on the screen.                                                 *)
(***************************************************************************)
Finds == [field : [text : LineSet, caret : Nat], open : BOOLEAN, origin : Place,
          hits : Seq(Place), current : Nat]

\* The open file, if there is one, remembers how it was read and last saved.
TextOf(doc, loaded, base) == doc # None => Alive(doc[1].buf, loaded, base)

\* A search that is on began at a place of the text, knows the hits in it, and
\* the cursor stands on the current one.
FindOf(f, doc, from) ==
    /\ f \in Finds /\ f.field.caret <= Len(f.field.text) /\ f.current <= Len(f.hits)
    /\ from \in Place
    /\ f.open => /\ doc # None
                 /\ f.origin = from /\ Inside(doc[1].buf.lines, from)
                 /\ f.hits = Matches(doc[1].buf.lines, f.field.text)
                 /\ f.current # 0 => doc[1].buf.cursor = f.hits[f.current]

FilesOfBytes == \A p \in There : Bytes(p) \in Seq(Byte)
JobOfText == job.pc = "stamp" => Alive(job.loaded[1], job.bytes, job.bytes)

TextInv ==
    /\ plan \in Plans /\ FilesOfBytes /\ JobOfText
    /\ TextOf(x.doc, g.loaded, g.base)
    /\ FindOf(x.find, x.doc, g.from)

\* Whatever leaves the text, or closes it, and the search with it.
Carried ==
    /\ plan' = plan
    /\ job'.pc # "stamp" \/ job' = job
    /\ x'.doc = x.doc \/ x'.doc = None
    /\ x'.find = x.find \/ x'.find = NewFind
    /\ g'.loaded = g.loaded /\ g'.base = g.base /\ g'.from = g.from

LEMMA NewFindIs == NewFind \in Finds /\ ~NewFind.open /\ NewFind.current = 0
                   /\ NewFind.field.caret <= Len(NewFind.field.text) /\ NewFind.hits = <<>>
                   /\ NewFind.field.text = <<>>
BY DEF NewFind, Finds, Field, Cursor, Place, LineSet

LEMMA CarriedKeeps ==
    ASSUME ExplorerInv', TextInv, Carried, FilesOfBytes' PROVE TextInv'
<1>1. plan' \in Plans /\ JobOfText'
    BY DEF TextInv, Carried, JobOfText
<1>2. TextOf(x'.doc, g'.loaded, g'.base)
    BY DEF TextInv, Carried, TextOf
<1>3. x'.find.open => x'.doc # None
    BY DEF ExplorerInv, Working, Opened
<1>4. FindOf(x'.find, x'.doc, g'.from)
    BY <1>3, NewFindIs DEF TextInv, Carried, FindOf
<1> QED BY <1>1, <1>2, <1>4 DEF TextInv

\* Steps that write no file.
LEMMA FilesStay ==
    ASSUME TextInv, disk'.file = disk.file PROVE FilesOfBytes'
BY DEF TextInv, FilesOfBytes, There, Bytes

LEMMA NowCarries ==
    ASSUME NEW y, Now(y), y.doc = x.doc, y.find = x.find PROVE Carried /\ disk'.file = disk.file
BY DEF Now, Carried

LEMMA LoadCarries ==
    ASSUME NEW y, NEW p, DOMAIN y = Fields, y.doc = x.doc \/ y.doc = None, StartLoad(y, p)
    PROVE  Carried /\ disk'.file = disk.file
<1>1. job'.pc = "read"
    BY DEF StartLoad, Idle
<1>2. x'.doc = y.doc /\ x'.find = NewFind
    BY DEF StartLoad, Opening, Fields
<1> QED BY <1>1, <1>2 DEF StartLoad, Carried

LEMMA ExitCarries ==
    ASSUME NEW y, NEW e, DOMAIN y = Fields, y.doc = x.doc, y.find = x.find, Exit(y, e)
    PROVE  Carried /\ disk'.file = disk.file
<1>1. CASE e \in Files
    BY <1>1, LoadCarries DEF Exit
<1>2. CASE e \notin Files
  <2>1. PICK m : x' = [y EXCEPT !.ask = None, !.mode = m]
      BY <1>2 DEF Exit
  <2>2. job' = Idle /\ UNCHANGED <<plan, disk, g>>
      BY <1>2 DEF Exit
  <2>3. x'.doc = x.doc /\ x'.find = x.find
      BY <2>1 DEF Fields
  <2>4. job'.pc # "stamp"
      BY <2>2 DEF Idle
  <2> QED BY <2>2, <2>3, <2>4 DEF Carried
<1> QED BY <1>1, <1>2

LEMMA SaveCarries ==
    ASSUME ExplorerInv, NEW then, StartSave(then) PROVE Carried /\ disk'.file = disk.file
<1>1. x'.doc = x.doc /\ x'.find = x.find
    BY DEF StartSave, ExplorerInv, Shapes, Fields
<1>2. job'.pc # "stamp"
    BY DEF StartSave, Idle
<1> QED BY <1>1, <1>2 DEF StartSave, Carried

LEMMA GuardedCarries ==
    ASSUME NEW y, NEW e, DOMAIN y = Fields, y.doc = x.doc, y.find = x.find, Guarded(y, e)
    PROVE  Carried /\ disk'.file = disk.file
<1>1. CASE Dirty(y)
    BY <1>1 DEF Guarded, Carried, Fields
<1>2. CASE ~Dirty(y)
    BY <1>2, ExitCarries DEF Guarded
<1> QED BY <1>1, <1>2

LEMMA ScreenCarries ==
    ASSUME ExplorerInv,
           Sync \/ EmptyEditorLeft \/ CtrlKey \/ TreeKey \/ PathKey
           \/ AnswerDiscard \/ CloseWindow \/ Killed
    PROVE  Carried /\ disk'.file = disk.file
<1>0. DOMAIN x = Fields
    BY DEF ExplorerInv, Shapes
<1>1. CASE Sync
    BY <1>0, <1>1 DEF Sync, Carried, Fields
<1>2. CASE EmptyEditorLeft
  <2>1. [x EXCEPT !.focus = "tree"].doc = x.doc /\ [x EXCEPT !.focus = "tree"].find = x.find
      BY <1>0 DEF Fields
  <2> QED BY <1>2, <2>1, NowCarries DEF EmptyEditorLeft
<1>3. CASE CtrlKey
  <2>1. CASE Opened /\ StartSave(None)
      BY <2>1, SaveCarries
  <2>2. CASE \E e \in {Leave, Quit} : Guarded(x, e)
      BY <1>0, <2>2, GuardedCarries
  <2>3. CASE Now([x EXCEPT !.tree = Refreshed(@), !.synced = FALSE])
    <3> DEFINE y == [x EXCEPT !.tree = Refreshed(@), !.synced = FALSE]
    <3>1. y.doc = x.doc /\ y.find = x.find
        BY <1>0 DEF Fields
    <3> QED BY <2>3, <3>1, NowCarries
  <2>4. CASE \E y \in {[x EXCEPT !.focus = IF @ \in {"tree", "path"} THEN "editor" ELSE @],
                       [x EXCEPT !.focus = "tree"],
                       [x EXCEPT !.focus = "path",
                                 !.lastPane = IF x.focus # "path" THEN x.focus ELSE @],
                       [x EXCEPT !.focus = IF @ = "path" THEN x.lastPane ELSE @]} : Now(y)
    <3>1. PICK y \in {[x EXCEPT !.focus = IF @ \in {"tree", "path"} THEN "editor" ELSE @],
                      [x EXCEPT !.focus = "tree"],
                      [x EXCEPT !.focus = "path",
                                !.lastPane = IF x.focus # "path" THEN x.focus ELSE @],
                      [x EXCEPT !.focus = IF @ = "path" THEN x.lastPane ELSE @]} : Now(y)
        BY <2>4
    <3>2. y.doc = x.doc /\ y.find = x.find
        BY <1>0, <3>1 DEF Fields
    <3> QED BY <3>1, <3>2, NowCarries
  <2> QED BY <1>3, <2>1, <2>2, <2>3, <2>4 DEF CtrlKey
<1>4. CASE TreeKey
  <2>1. \A t : /\ [x EXCEPT !.tree = t, !.synced = FALSE].doc = x.doc
               /\ [x EXCEPT !.tree = t, !.synced = FALSE].find = x.find
               /\ [x EXCEPT !.tree = t, !.lastPane = "tree", !.focus = "path"].doc = x.doc
               /\ [x EXCEPT !.tree = t, !.lastPane = "tree", !.focus = "path"].find = x.find
               /\ [x EXCEPT !.tree = t, !.focus = "editor"].doc = x.doc
               /\ [x EXCEPT !.tree = t, !.focus = "editor"].find = x.find
               /\ [x EXCEPT !.tree = t].doc = x.doc /\ [x EXCEPT !.tree = t].find = x.find
               /\ DOMAIN [x EXCEPT !.tree = t] = Fields
      BY <1>0 DEF Fields
  <2>2. \/ \E t : \/ Now([x EXCEPT !.tree = t, !.synced = FALSE])
                  \/ Now([x EXCEPT !.tree = t, !.lastPane = "tree", !.focus = "path"])
                  \/ Now([x EXCEPT !.tree = t, !.focus = "editor"])
        \/ \E t, p : Guarded([x EXCEPT !.tree = t], p)
      BY <1>4 DEF TreeKey
  <2> QED BY <2>1, <2>2, NowCarries, GuardedCarries
<1>5. CASE PathKey
  <2>1. \A v : /\ [x EXCEPT !.path = v].doc = x.doc /\ [x EXCEPT !.path = v].find = x.find
               /\ [x EXCEPT !.focus = v].doc = x.doc /\ [x EXCEPT !.focus = v].find = x.find
               /\ [x EXCEPT !.notice = v].doc = x.doc /\ [x EXCEPT !.notice = v].find = x.find
               /\ [x EXCEPT !.tree = v, !.synced = FALSE, !.focus = "tree"].doc = x.doc
               /\ [x EXCEPT !.tree = v, !.synced = FALSE, !.focus = "tree"].find = x.find
      BY <1>0 DEF Fields
  <2>2. \/ \E v : \/ Now([x EXCEPT !.path = v]) \/ Now([x EXCEPT !.focus = v])
                  \/ Now([x EXCEPT !.notice = v])
                  \/ Now([x EXCEPT !.tree = v, !.synced = FALSE, !.focus = "tree"])
        \/ \E p : Guarded(x, p)
      BY <1>5 DEF PathKey
  <2> QED BY <1>0, <2>1, <2>2, NowCarries, GuardedCarries
<1>6. CASE AnswerDiscard
  <2>1. CASE StartSave(x.ask)
      BY <2>1, SaveCarries
  <2>2. CASE Exit(x, x.ask[1])
      BY <1>0, <2>2, ExitCarries
  <2>3. CASE x' = [x EXCEPT !.ask = None] /\ UNCHANGED <<plan, disk, job, g>>
      BY <1>0, <2>3 DEF Carried, Fields
  <2> QED BY <1>6, <2>1, <2>2, <2>3 DEF AnswerDiscard
<1>7. CASE CloseWindow \/ Killed
    BY <1>0, <1>7 DEF CloseWindow, Killed, Carried, Fields, Idle
<1> QED BY <1>1, <1>2, <1>3, <1>4, <1>5, <1>6, <1>7

(***************************************************************************)
(* Steps of a load and of a save, and what others write.                   *)
(***************************************************************************)
LEMMA BytesTyped ==
    ASSUME NEW b, NEW loaded, NEW base, Alive(b, loaded, base)
    PROVE  ToBytes(b) \in Seq(Byte)
<1> DEFINE line(i) == b.lines[i] \o (IF Ended(b, i) THEN b.eols[i] ELSE <<>>)
           q == [i \in 1 .. Len(b.lines) |-> line(i)]
           mark == IF b.bom THEN <<"bom">> ELSE <<>>
<1>1. /\ b \in Buffers /\ Len(b.lines) \in Nat /\ Len(b.eols) = Len(b.lines)
      /\ \A l \in 1 .. Len(b.lines) : b.lines[l] \in LineSet
    BY AliveIs
<1>2. b.eols \in Seq(LineSet)
    BY <1>1 DEF Buffers
<1>3. ASSUME NEW i \in 1 .. Len(b.lines) PROVE line(i) \in Seq(Byte)
  <2>1. b.eols[i] \in LineSet
      BY <1>1, <1>2
  <2>2. (IF Ended(b, i) THEN b.eols[i] ELSE <<>>) \in LineSet
      BY <2>1, EmptyLine
  <2>3. b.lines[i] \in LineSet
      BY <1>1
  <2> QED BY <2>2, <2>3, LineConcat DEF LineSet
<1>4. mark \in Seq(Byte)
    BY ByteAssumption DEF ByteAssumption
<1>5. q \in [1 .. Len(b.lines) -> Seq(Byte)]
    BY <1>3
<1>6. q \in Seq(Seq(Byte))
    BY <1>1, <1>5, ListOf
<1>7. FlattenSeq(q) \in Seq(Byte)
    BY <1>6, FlattenIs
<1>8. ToBytes(b) = mark \o FlattenSeq(q)
    BY DEF ToBytes
<1> HIDE DEF q, mark
<1> QED BY <1>4, <1>7, <1>8

\* A file that is written holds bytes.
LEMMA FilesWritten ==
    ASSUME TextInv,
           \A q \in Files : disk'.file[q] # None =>
               \/ disk'.file[q][1].bytes \in Seq(Byte)
               \/ disk.file[q] # None /\ disk'.file[q][1].bytes = disk.file[q][1].bytes
    PROVE  FilesOfBytes'
BY DEF TextInv, FilesOfBytes, There, Bytes

LEMMA WroteBytes ==
    ASSUME TextInv, NEW p, NEW bytes \in Seq(Byte), Wrote(p, bytes) PROVE FilesOfBytes'
<1>1. \A q \in Files : disk'.file[q] # None =>
               \/ disk'.file[q][1].bytes \in Seq(Byte)
               \/ disk.file[q] # None /\ disk'.file[q][1].bytes = disk.file[q][1].bytes
    BY DEF Wrote
<1> QED BY <1>1, FilesWritten

LEMMA PutWrote ==
    ASSUME ExplorerInv, NEW p \in Files, NEW bytes,
           disk' = Put(disk, p, bytes) \/ disk' = [Put(disk, p, bytes) EXCEPT !.tmp = @ \ {p}]
    PROVE  Wrote(p, bytes)
<1> DEFINE d == Put(disk, p, bytes)
<1>1. /\ DOMAIN d = DOMAIN disk
      /\ d.clock = disk.clock + 1
      /\ DOMAIN d.file = Files
      /\ \A q \in Files \ {p} : d.file[q] = disk.file[q]
      /\ d.file[p] # None /\ Version(d.file[p])
      /\ d.file[p][1].bytes = bytes /\ d.file[p][1].mtime = disk.clock
    BY PutWrites DEF ExplorerInv
<1>2. disk' = d \/ disk' = [d EXCEPT !.tmp = @ \ {p}]
    OBVIOUS
<1> HIDE DEF d
<1>3. DOMAIN disk' = DOMAIN disk /\ disk'.file = d.file /\ disk'.clock = d.clock
    BY <1>1, <1>2 DEF ExplorerInv, Shapes
<1> QED BY <1>1, <1>3 DEF Wrote

LEMMA SaveStepsCarry ==
    ASSUME ExplorerInv, TextInv, CreateFile \/ WriteTemp \/ ReplaceFile \/ ReplaceBusy \/ SaveError
    PROVE  Carried /\ FilesOfBytes'
<1>1. /\ Saving /\ Opened /\ job.path = Doc.path /\ job.path \in Files
      /\ DOMAIN job = {"pc", "path", "then", "tries", "loaded", "bytes"}
    BY DEF ExplorerInv, Shapes, Working, Saving, CreateFile, WriteTemp, ReplaceFile, ReplaceBusy,
           SaveError, IsDoc, Opened, Doc
<1>2. UNCHANGED <<plan, x, g>> /\ job'.pc # "stamp"
  <2>1. CASE CreateFile \/ WriteTemp \/ ReplaceFile \/ ReplaceBusy
      BY <1>1, <2>1 DEF CreateFile, WriteTemp, ReplaceFile, ReplaceBusy
  <2>2. CASE SaveError
      BY <2>2 DEF SaveError, SaveFails, Idle
  <2> QED BY <2>1, <2>2
<1>3. Carried
    BY <1>2 DEF Carried
<1>4. ToBytes(B) \in Seq(Byte)
    BY <1>1, BytesTyped DEF TextInv, TextOf, Opened, B, Doc
<1>5. CASE CreateFile
  <2> DEFINE half == SubSeq(ToBytes(B), 1, Len(ToBytes(B)) \div 2)
  <2>1. half \in Seq(Byte)
    <3> DEFINE s == ToBytes(B)
    <3>1. Len(s) \in Nat
        BY <1>4
    <3>2. Len(s) \div 2 \in Nat /\ Len(s) \div 2 <= Len(s)
        BY <3>1
    <3> HIDE DEF s
    <3>3. SubSeq(s, 1, Len(s) \div 2) \in Seq(Byte)
        BY <1>4, <3>2, CutLine DEF s, LineSet
    <3> QED BY <3>3 DEF s
  <2>2. \/ disk' = Put(disk, job.path, half) \/ disk' = Put(disk, job.path, ToBytes(B))
    <3>1. CASE job.pc = "create"
        BY <1>5, <3>1 DEF CreateFile
    <3>2. CASE job.pc # "create"
        BY <1>5, <3>2 DEF CreateFile
    <3> QED BY <3>1, <3>2
  <2> HIDE DEF half
  <2> QED BY <1>1, <1>3, <1>4, <2>1, <2>2, PutWrote, WroteBytes
<1>6. CASE ReplaceFile
    BY <1>1, <1>3, <1>4, <1>6, PutWrote, WroteBytes DEF ReplaceFile
<1>7. CASE WriteTemp \/ ReplaceBusy \/ SaveError
  <2>1. disk'.file = disk.file
      BY <1>7 DEF WriteTemp, ReplaceBusy, SaveError, SaveFails, ExplorerInv, Shapes
  <2> QED BY <1>3, <2>1, FilesStay
<1> QED BY <1>5, <1>6, <1>7

LEMMA OthersCarry ==
    ASSUME ExplorerInv, TextInv, OtherProgram PROVE Carried /\ FilesOfBytes'
<1>1. UNCHANGED <<plan, x, job>>
    BY DEF OtherProgram
<1>2. g'.loaded = g.loaded /\ g'.base = g.base /\ g'.from = g.from
    BY DEF OtherProgram, ExplorerInv, Shapes
<1>3. Carried
    BY <1>1, <1>2 DEF Carried
<1>4. plan.others \subseteq Seq(Byte)
    BY ExplorerAssumption DEF ExplorerAssumption, TextInv
<1>5. \/ \E p : \/ \E bytes \in Seq(Byte) : disk' = Put(disk, p, bytes)
                \/ p \in There /\ disk' = [disk EXCEPT !.file[p] = None, !.clock = @ + 1]
                \/ p \in There /\ disk' = [disk EXCEPT !.file[p][1].readonly = TRUE,
                                                      !.clock = @ + 1]
      \/ \E d : disk' = [disk EXCEPT !.locked = @ \cup {d}, !.clock = @ + 1]
    BY <1>4 DEF OtherProgram
<1>6. ASSUME NEW p, NEW bytes \in Seq(Byte), disk' = Put(disk, p, bytes) PROVE FilesOfBytes'
  <2>1. CASE p \in Files
      BY <1>6, <2>1, PutWrote, WroteBytes
  <2>2. CASE p \notin Files
    <3>1. /\ disk'.file = [disk.file EXCEPT ![p] = File(bytes, disk.clock)]
          /\ DOMAIN disk.file = Files
        BY <1>6 DEF Put, ExplorerInv, Shapes
    <3>2. \A q \in Files : disk'.file[q] = disk.file[q]
        BY <2>2, <3>1
    <3> QED BY <3>2, FilesWritten
  <2> QED BY <2>1, <2>2
<1>7. ASSUME NEW p \in There, disk' = [disk EXCEPT !.file[p] = None, !.clock = @ + 1]
      PROVE  FilesOfBytes'
  <2>1. disk'.file = [disk.file EXCEPT ![p] = None] /\ DOMAIN disk.file = Files
      BY <1>7 DEF ExplorerInv, Shapes
  <2>2. \A q \in Files : disk'.file[q] # None => disk'.file[q] = disk.file[q]
      BY <2>1
  <2> QED BY <2>2, FilesWritten
<1>8. ASSUME NEW p \in There,
             disk' = [disk EXCEPT !.file[p][1].readonly = TRUE, !.clock = @ + 1]
      PROVE  FilesOfBytes'
  <2> DEFINE f == disk.file[p]
             r == [f[1] EXCEPT !.readonly = TRUE]
  <2>1. Version(f) /\ p \in Files /\ f # None
      BY DEF ExplorerInv, Shapes, There
  <2>2. [f EXCEPT ![1] = r] = <<[bytes |-> f[1].bytes, mtime |-> f[1].mtime, readonly |-> TRUE]>>
      BY <2>1, RightsMarked
  <2>3. /\ disk'.file = [disk.file EXCEPT ![p] = [f EXCEPT ![1] = r]]
        /\ DOMAIN disk.file = Files
      BY <1>8 DEF ExplorerInv, Shapes
  <2>4. disk'.file[p] = <<[bytes |-> f[1].bytes, mtime |-> f[1].mtime, readonly |-> TRUE]>>
      BY <2>1, <2>2, <2>3
  <2>5. disk'.file[p][1].bytes = disk.file[p][1].bytes
      BY <2>4
  <2>6. \A q \in Files \ {p} : disk'.file[q] = disk.file[q]
      BY <2>3
  <2>7. \A q \in Files : disk'.file[q] # None =>
               \/ disk'.file[q][1].bytes \in Seq(Byte)
               \/ disk.file[q] # None /\ disk'.file[q][1].bytes = disk.file[q][1].bytes
      BY <2>1, <2>5, <2>6
  <2> QED BY <2>7, FilesWritten
<1>9. ASSUME NEW d, disk' = [disk EXCEPT !.locked = @ \cup {d}, !.clock = @ + 1]
      PROVE  FilesOfBytes'
  <2>1. disk'.file = disk.file
      BY <1>9 DEF ExplorerInv, Shapes
  <2> QED BY <2>1, FilesStay
<1> QED BY <1>3, <1>5, <1>6, <1>7, <1>8, <1>9

\* A load: nothing, or the buffer made of the bytes that were read.
LEMMA EnterCarries ==
    ASSUME ExplorerInv, EnterExplorer PROVE Carried /\ disk'.file = disk.file
<1>1. \/ \E p : Now(NewExplorer(p))
      \/ \E p, r, t : StartLoad([NewExplorer(r) EXCEPT !.tree = t], p)
    BY DEF EnterExplorer
<1>2. \A r, t : LET y == [NewExplorer(r) EXCEPT !.tree = t]
                IN  DOMAIN y = Fields /\ y.doc = None
    BY DEF NewExplorer, Fields
<1>3. \A p : NewExplorer(p).doc = None /\ NewExplorer(p).find = NewFind
    BY DEF NewExplorer
<1>4. CASE \E p : Now(NewExplorer(p))
    BY <1>3, <1>4 DEF Now, Carried
<1> QED BY <1>1, <1>2, <1>4, LoadCarries

LEMMA ReadText ==
    ASSUME ExplorerInv, ExplorerInv', TextInv, ReadFile PROVE TextInv'
<1> DEFINE p == job.path
           loaded == IF p \notin There \/ TooLarge(Bytes(p)) THEN Rejected
                     ELSE Inspect(Bytes(p))
<1>1. UNCHANGED <<plan, disk>> /\ DOMAIN x = Fields
    BY DEF ReadFile, ExplorerInv, Shapes
<1>2. FilesOfBytes'
    BY <1>1, FilesStay
<1>3. CASE loaded = Rejected
  <2>1. PICK n : x' = [x EXCEPT !.doc = None, !.focus = "editor", !.notice = n]
      BY <1>3 DEF ReadFile
  <2>2. job' = Idle /\ UNCHANGED g
      BY <1>3 DEF ReadFile
  <2>3. x'.doc = None /\ x'.find = x.find
      BY <1>1, <2>1 DEF Fields
  <2>4. Carried
      BY <1>1, <2>2, <2>3 DEF Carried, Idle
  <2> QED BY <1>2, <2>4, CarriedKeeps
<1>4. CASE loaded # Rejected
  <2>1. /\ job' = [job EXCEPT !.pc = "stamp", !.loaded = loaded, !.bytes = Bytes(p)]
        /\ g' = [g EXCEPT !.raced = FALSE] /\ UNCHANGED x
      BY <1>4 DEF ReadFile
  <2>2. p \in There /\ loaded = Inspect(Bytes(p))
      BY <1>4
  <2>3. Bytes(p) \in Seq(Byte)
      BY <2>2 DEF TextInv, FilesOfBytes
  <2>4. Alive(Inspect(Bytes(p))[1], Bytes(p), Bytes(p))
      BY <1>4, <2>2, <2>3, InspectIs
  <2> HIDE DEF loaded
  <2>5. job'.loaded = loaded /\ job'.bytes = Bytes(p)
      BY <2>1 DEF ExplorerInv, Shapes
  <2>6. JobOfText'
      BY <2>2, <2>4, <2>5 DEF JobOfText
  <2>7. g'.loaded = g.loaded /\ g'.base = g.base /\ g'.from = g.from
      BY <2>1 DEF ExplorerInv, Shapes
  <2> QED BY <1>1, <1>2, <2>1, <2>6, <2>7 DEF TextInv
<1> QED BY <1>3, <1>4

LEMMA StampText ==
    ASSUME ExplorerInv, ExplorerInv', TextInv, TakeStamp PROVE TextInv'
<1>1. /\ UNCHANGED <<plan, disk>> /\ DOMAIN x = Fields /\ job.pc = "stamp" /\ job' = Idle
      /\ DOMAIN g = {"loaded", "base", "raced", "from"}
    BY DEF TakeStamp, ExplorerInv, Shapes
<1>2. FilesOfBytes' /\ JobOfText' /\ plan' \in Plans
    BY <1>1, FilesStay DEF JobOfText, Idle, TextInv
<1>3. x'.doc = <<[path |-> job.path, buf |-> job.loaded[1], stamp |-> StampOf(job.path)]>>
      /\ x'.find = x.find
    BY <1>1 DEF TakeStamp, Fields
<1>4. g'.loaded = job.bytes /\ g'.base = job.bytes /\ g'.from = g.from
    BY <1>1 DEF TakeStamp
<1>5. x'.doc[1].buf = job.loaded[1]
    BY <1>3
<1>6. TextOf(x'.doc, g'.loaded, g'.base)
    BY <1>1, <1>4, <1>5 DEF TextInv, JobOfText, TextOf
<1>7. ~x.find.open
    BY <1>1 DEF ExplorerInv, Working, Idle
<1>8. FindOf(x'.find, x'.doc, g'.from)
    BY <1>3, <1>4, <1>7 DEF TextInv, FindOf
<1> QED BY <1>2, <1>6, <1>8 DEF TextInv

\* What was written is what the buffer now calls unmodified.
LEMMA SavedText ==
    ASSUME ExplorerInv, ExplorerInv', TextInv, MarkSaved PROVE TextInv'
<1> DEFINE s == StampOf(job.path)
           b == Written(B)
           d == Doc
           z == [x EXCEPT !.doc[1].buf = b]
           y == [x EXCEPT !.doc[1].buf = Written(@), !.doc[1].stamp = s]
<1>1. /\ job.pc = "saved" /\ UNCHANGED <<plan, disk>> /\ Opened /\ DOMAIN x = Fields
      /\ ~x.find.open /\ IsDoc(x.doc)
    BY DEF MarkSaved, ExplorerInv, Shapes, Working, Saving, Idle
<1>2. y.doc = <<[path |-> d.path, buf |-> b, stamp |-> s]>> /\ y.find = x.find /\ DOMAIN y = Fields
  <2> DEFINE e == z.doc[1]
  <2>1. x.doc = <<[path |-> d.path, buf |-> d.buf, stamp |-> d.stamp]>>
      BY <1>1 DEF IsDoc, Opened, Doc
  <2>2. z.doc = [x.doc EXCEPT ![1] = [d EXCEPT !.buf = b]] /\ z.find = x.find /\ DOMAIN z = Fields
      BY <1>1 DEF Doc, Fields
  <2>3. d = [path |-> d.path, buf |-> d.buf, stamp |-> d.stamp]
      BY <2>1 DEF Doc
  <2> HIDE DEF b, d, s
  <2>4. [d EXCEPT !.buf = b] = [path |-> d.path, buf |-> b, stamp |-> d.stamp]
      BY <2>3
  <2>5. z.doc = <<[path |-> d.path, buf |-> b, stamp |-> d.stamp]>>
      BY <2>1, <2>2, <2>4
  <2>6. e = [path |-> d.path, buf |-> b, stamp |-> d.stamp]
      BY <2>5
  <2>7. y = [z EXCEPT !.doc[1].stamp = s]
      BY DEF B, Doc, b
  <2> HIDE DEF z, y
  <2>9. y.doc = [z.doc EXCEPT ![1] = [e EXCEPT !.stamp = s]] /\ y.find = z.find
        /\ DOMAIN y = Fields
      BY <2>2, <2>7 DEF Fields
  <2> HIDE DEF e
  <2>10. [e EXCEPT !.stamp = s] = [path |-> d.path, buf |-> b, stamp |-> s]
      BY <2>6
  <2> QED BY <2>2, <2>5, <2>9, <2>10
<1>3. \/ \E m : x' = [y EXCEPT !.mode = m] /\ job' = Idle
      \/ x' = Opening(y, job.then[1]) /\ job' = [Idle EXCEPT !.pc = "read", !.path = job.then[1]]
    BY DEF MarkSaved
<1>4. Alive(B, g.loaded, g.base)
    BY <1>1 DEF TextInv, TextOf, Opened, B, Doc
<1>5. Alive(b, g.loaded, ToBytes(B))
    BY <1>4, WrittenKeeps
<1>6. g'.loaded = g.loaded /\ g'.base = ToBytes(B) /\ g'.from = g.from
    BY DEF MarkSaved, ExplorerInv, Shapes
<1> HIDE DEF y, z, b, d, s
<1>7. x'.doc = y.doc /\ (x'.find = x.find \/ x'.find = NewFind) /\ job'.pc # "stamp"
  <2>1. CASE \E m : x' = [y EXCEPT !.mode = m] /\ job' = Idle
      BY <1>2, <2>1 DEF Fields, Idle
  <2>2. CASE /\ x' = Opening(y, job.then[1])
             /\ job' = [Idle EXCEPT !.pc = "read", !.path = job.then[1]]
      BY <1>2, <2>2 DEF Fields, Idle, Opening
  <2> QED BY <1>3, <2>1, <2>2
<1>8. x'.doc[1].buf = b
    BY <1>2, <1>7
<1>9. TextOf(x'.doc, g'.loaded, g'.base)
    BY <1>5, <1>6, <1>8 DEF TextOf
<1>10. FindOf(x'.find, x'.doc, g'.from)
    BY <1>1, <1>6, <1>7, NewFindIs DEF TextInv, FindOf
<1>11. FilesOfBytes' /\ JobOfText' /\ plan' \in Plans
    BY <1>1, <1>7, FilesStay DEF JobOfText, TextInv
<1> QED BY <1>9, <1>10, <1>11 DEF TextInv

(***************************************************************************)
(* Keys that change the text or move in it.                                *)
(***************************************************************************)
\* A screen whose open file has another text.
LEMMA TextPut ==
    ASSUME NEW y, DOMAIN y = Fields, IsDoc(y.doc), y.doc # None, NEW b
    PROVE  LET z == [y EXCEPT !.doc[1].buf = b]
           IN  /\ DOMAIN z = Fields /\ z.doc # None /\ z.doc[1].buf = b /\ z.find = y.find
<1> DEFINE z == [y EXCEPT !.doc[1].buf = b]
           d == y.doc[1]
<1>1. y.doc = <<[path |-> d.path, buf |-> d.buf, stamp |-> d.stamp]>>
    BY DEF IsDoc
<1>2. z.doc = [y.doc EXCEPT ![1] = [d EXCEPT !.buf = b]] /\ z.find = y.find /\ DOMAIN z = Fields
    BY DEF Fields
<1>3. d = [path |-> d.path, buf |-> d.buf, stamp |-> d.stamp]
    BY <1>1
<1> HIDE DEF d, z
<1>4. [d EXCEPT !.buf = b] = [path |-> d.path, buf |-> b, stamp |-> d.stamp]
    BY <1>3
<1>5. z.doc = <<[path |-> d.path, buf |-> b, stamp |-> d.stamp]>>
    BY <1>1, <1>2, <1>4
<1>6. z.doc # None /\ z.doc[1].buf = b
    BY <1>5 DEF None
<1> QED BY <1>2, <1>6 DEF z

LEMMA ScrolledIs ==
    ASSUME NEW y, DOMAIN y = Fields
    PROVE  Scrolled(y).doc = y.doc /\ Scrolled(y).find = y.find /\ DOMAIN Scrolled(y) = Fields
<1>1. \A v : /\ [y EXCEPT !.top = v].doc = y.doc /\ [y EXCEPT !.top = v].find = y.find
             /\ DOMAIN [y EXCEPT !.top = v] = Fields
    BY DEF Fields
<1> QED BY <1>1 DEF Scrolled

LEMMA BufferIs ==
    ASSUME ExplorerInv, Opened, NEW b
    PROVE  /\ Buffer(b).doc # None /\ Buffer(b).doc[1].buf = b /\ Buffer(b).find = x.find
           /\ DOMAIN Buffer(b) = Fields
<1>1. DOMAIN x = Fields /\ IsDoc(x.doc) /\ x.doc # None
    BY DEF ExplorerInv, Shapes, Opened
<1> DEFINE z == [x EXCEPT !.doc[1].buf = b]
<1>2. DOMAIN z = Fields /\ z.doc # None /\ z.doc[1].buf = b /\ z.find = x.find
    BY <1>1, TextPut
<1> HIDE DEF z
<1>3. Scrolled(z).doc = z.doc /\ Scrolled(z).find = z.find /\ DOMAIN Scrolled(z) = Fields
    BY <1>2, ScrolledIs
<1>4. Buffer(b) = Scrolled(z)
    BY DEF Buffer, z
<1> QED BY <1>2, <1>3, <1>4

LEMMA NowText ==
    ASSUME ExplorerInv, TextInv, job = Idle, ~x.find.open, NEW y, Now(y),
           y.doc # None, Alive(y.doc[1].buf, g.loaded, g.base), y.find = x.find
    PROVE  TextInv'
<1>1. UNCHANGED <<plan, disk, job, g>> /\ x'.doc = y.doc /\ x'.find = x.find
    BY DEF Now
<1>2. FilesOfBytes' /\ JobOfText' /\ plan' \in Plans
    BY <1>1, FilesStay DEF TextInv, JobOfText
<1>3. TextOf(x'.doc, g'.loaded, g'.base)
    BY <1>1 DEF TextOf
<1>4. FindOf(x'.find, x'.doc, g'.from)
    BY <1>1 DEF TextInv, FindOf
<1> QED BY <1>2, <1>3, <1>4 DEF TextInv

LEMMA BufferText ==
    ASSUME ExplorerInv, TextInv, Key, Opened
    PROVE  \A b : Alive(b, g.loaded, g.base) /\ Now(Buffer(b)) => TextInv'
<1> SUFFICES ASSUME NEW b, Alive(b, g.loaded, g.base), Now(Buffer(b)) PROVE TextInv'
    OBVIOUS
<1> DEFINE y == Buffer(b)
<1>1. y.doc # None /\ y.doc[1].buf = b /\ y.find = x.find
    BY BufferIs
<1>2. Now(y)
    OBVIOUS
<1> HIDE DEF y
<1> QED BY <1>1, <1>2, NowText DEF Key, Listening

LEMMA MoveText ==
    ASSUME ExplorerInv, TextInv, MoveKey PROVE TextInv'
<1> DEFINE down == Cursor(B.cursor.line + Visible, 0)
           up == Cursor(IF B.cursor.line > Visible THEN B.cursor.line - Visible ELSE 1, 0)
<1>1. Key /\ Opened /\ Listening /\ job = Idle /\ ~x.find.open
    BY DEF MoveKey, Key, Listening
<1>2. Alive(B, g.loaded, g.base)
    BY <1>1 DEF TextInv, TextOf, Opened, B, Doc
<1>3. /\ Alive(Left(B), g.loaded, g.base) /\ Alive(Right(B), g.loaded, g.base)
      /\ Alive(Up(B), g.loaded, g.base) /\ Alive(Down(B), g.loaded, g.base)
      /\ Alive(Home(B), g.loaded, g.base) /\ Alive(End(B), g.loaded, g.base)
    BY <1>2, MovesKeep
<1>4. down \in Place /\ up \in Place
  <2>1. B.cursor.line \in Nat /\ B.cursor.line > 0
      BY <1>2, AliveIs
  <2>2. Visible \in Nat
      BY ExplorerAssumption DEF ExplorerAssumption
  <2>3. /\ B.cursor.line + Visible \in Nat \ {0}
        /\ (IF B.cursor.line > Visible THEN B.cursor.line - Visible ELSE 1) \in Nat \ {0}
      BY <2>1, <2>2
  <2> QED BY <2>3 DEF Cursor, Place
<1>5. Alive(Goto(B, down), g.loaded, g.base) /\ Alive(Goto(B, up), g.loaded, g.base)
    BY <1>2, <1>4, GoingKeeps
<1>6. \/ \E b \in {Right(B), Up(B), Home(B), End(B), Goto(B, down), Goto(B, up), Left(B), Down(B)} :
            \/ Now(Buffer(b)) \/ Now([Buffer(b) EXCEPT !.focus = "tree"])
            \/ Now([Buffer(b) EXCEPT !.focus = "path", !.lastPane = "editor"])
    BY DEF MoveKey
<1> HIDE DEF down, up
<1>7. PICK b : /\ Alive(b, g.loaded, g.base)
               /\ \/ Now(Buffer(b)) \/ Now([Buffer(b) EXCEPT !.focus = "tree"])
                  \/ Now([Buffer(b) EXCEPT !.focus = "path", !.lastPane = "editor"])
    BY <1>3, <1>5, <1>6
<1>8. /\ Buffer(b).doc # None /\ Buffer(b).doc[1].buf = b /\ Buffer(b).find = x.find
      /\ DOMAIN Buffer(b) = Fields
    BY <1>1, BufferIs
<1> DEFINE y == Buffer(b)
           y1 == [y EXCEPT !.focus = "tree"]
           y2 == [y EXCEPT !.focus = "path", !.lastPane = "editor"]
<1>9. Now(y) \/ Now(y1) \/ Now(y2)
    BY <1>7
<1>10. y.doc # None /\ y.doc[1].buf = b /\ y.find = x.find /\ DOMAIN y = Fields
    BY <1>8
<1> HIDE DEF y
<1>11. y1.doc = y.doc /\ y1.find = y.find /\ y2.doc = y.doc /\ y2.find = y.find
    BY <1>10 DEF Fields
<1> HIDE DEF y1, y2
<1>12. Now(y) => TextInv'
    BY <1>1, <1>7, <1>10, NowText
<1>13. Now(y1) => TextInv'
    BY <1>1, <1>7, <1>10, <1>11, NowText
<1>14. Now(y2) => TextInv'
    BY <1>1, <1>7, <1>10, <1>11, NowText
<1> QED BY <1>9, <1>12, <1>13, <1>14

LEMMA EditText ==
    ASSUME ExplorerInv, TextInv, EditKey PROVE TextInv'
<1>1. Key /\ Opened
    BY DEF EditKey
<1>2. Alive(B, g.loaded, g.base)
    BY <1>1 DEF TextInv, TextOf, Opened, B, Doc
<1>3. Letters \cup {NL} \subseteq Chars /\ Spaces \in Texts
  <2>1. "sp" \in Chars
      BY ByteAssumption DEF ByteAssumption, Chars
  <2>2. Letters \subseteq Byte
      BY ExplorerAssumption DEF ExplorerAssumption
  <2> QED BY <2>1, <2>2 DEF Chars, Texts, Spaces
<1>4. /\ \A c \in Chars : Alive(InsertChar(B, c), g.loaded, g.base)
      /\ \A text \in Texts : Alive(InsertStr(B, text), g.loaded, g.base)
    BY <1>2, TypingKeeps
<1>5. Alive(Backspace(B), g.loaded, g.base) /\ Alive(Delete(B), g.loaded, g.base)
    BY <1>2, CuttingKeeps
<1>6. Alive(Undo(B), g.loaded, g.base) /\ Alive(Redo(B), g.loaded, g.base)
    BY <1>2, BackAndForthKeeps
<1>7. \/ \E c \in Letters \cup {NL} : Now(Buffer(InsertChar(B, c)))
      \/ \E b \in {InsertStr(B, Spaces), Backspace(B), Delete(B)} : Now(Buffer(b))
      \/ \E b \in {Undo(B), Redo(B)} : Now(Buffer(b))
    BY DEF EditKey
<1>8. PICK b : Alive(b, g.loaded, g.base) /\ Now(Buffer(b))
    BY <1>3, <1>4, <1>5, <1>6, <1>7
<1> QED BY <1>1, <1>8, BufferText

(***************************************************************************)
(* Find.                                                                   *)
(***************************************************************************)
\* A search that fits the text on the screen.
Fits(f, from) ==
    /\ f \in Finds /\ f.field.caret <= Len(f.field.text) /\ f.current <= Len(f.hits)
    /\ f.hits = Matches(B.lines, f.field.text)
    /\ f.open => f.origin = from /\ Inside(B.lines, from)

\* Going to a place of the text.
LEMMA GoneIs ==
    ASSUME NEW b, NEW loaded, NEW base, Alive(b, loaded, base), NEW at, Inside(b.lines, at)
    PROVE  /\ Goto(b, at).lines = b.lines /\ Goto(b, at).cursor = at
           /\ Alive(Goto(b, at), loaded, base)
<1>1. b \in Buffers /\ b.lines \in Lines
    BY AliveIs
<1>2. Clamp(b, at) = at
    BY <1>1, ClampIs
<1>3. Goto(b, at) = MoveTo(b, at)
    BY <1>2 DEF Goto
<1>4. MoveTo(b, at).lines = b.lines /\ MoveTo(b, at).cursor = at
    BY <1>1 DEF MoveTo, Buffers
<1>5. Alive(MoveTo(b, at), loaded, base)
    BY MovingKeeps
<1> QED BY <1>3, <1>4, <1>5

LEMMA HitIs ==
    ASSUME TextInv, Opened, NEW f, NEW from, Fits(f, from), f.current # 0
    PROVE  Inside(B.lines, f.hits[f.current])
<1>1. f.field.text \in LineSet
    BY DEF Fits, Finds
<1>2. B.lines \in Lines
    BY AliveIs DEF TextInv, TextOf, Opened, B, Doc
<1>3. AreHits(B.lines, Len(B.lines), f.hits)
    BY <1>1, <1>2, MatchesAre DEF Fits
<1>4. f.current \in 1 .. Len(f.hits)
    BY DEF Fits, Finds
<1> QED BY <1>3, <1>4 DEF AreHits

\* What is on the screen once the cursor went to the current hit.
LEMMA OnHitIs ==
    ASSUME ExplorerInv, TextInv, Opened, NEW f, NEW from, Fits(f, from)
    PROVE  LET y == OnHit(f)
           IN  /\ DOMAIN y = Fields /\ y.doc # None /\ y.find = f
               /\ y.doc[1].buf.lines = B.lines
               /\ Alive(y.doc[1].buf, g.loaded, g.base)
               /\ f.current = 0 => y.doc[1].buf = B
               /\ f.current # 0 => y.doc[1].buf.cursor = f.hits[f.current]
<1>1. DOMAIN x = Fields /\ IsDoc(x.doc) /\ x.doc # None
    BY DEF ExplorerInv, Shapes, Opened
<1>2. Alive(B, g.loaded, g.base)
    BY DEF TextInv, TextOf, Opened, B, Doc
<1> DEFINE z == [x EXCEPT !.find = f]
<1>3. DOMAIN z = Fields /\ z.doc = x.doc /\ z.find = f
    BY <1>1 DEF Fields
<1>4. z.doc[1].buf = B
    BY <1>3 DEF B, Doc
<1>5. CASE f.current = 0
  <2>1. OnHit(f) = z
      BY <1>5 DEF OnHit
  <2> HIDE DEF z
  <2> QED BY <1>1, <1>2, <1>3, <1>4, <1>5, <2>1
<1>6. CASE f.current # 0
  <2> DEFINE at == f.hits[f.current]
             b == Goto(B, at)
             u == [z EXCEPT !.doc[1].buf = b]
  <2>1. Inside(B.lines, at)
      BY <1>6, HitIs
  <2> HIDE DEF at
  <2>2. b.lines = B.lines /\ b.cursor = at /\ Alive(b, g.loaded, g.base)
      BY <1>2, <2>1, GoneIs
  <2>3. OnHit(f) = Scrolled(u)
      BY <1>4, <1>6 DEF OnHit, at, B, Doc
  <2> HIDE DEF b, z
  <2>4. DOMAIN u = Fields /\ u.doc # None /\ u.doc[1].buf = b /\ u.find = z.find
      BY <1>1, <1>3, TextPut
  <2> HIDE DEF u
  <2>5. Scrolled(u).doc = u.doc /\ Scrolled(u).find = u.find /\ DOMAIN Scrolled(u) = Fields
      BY <2>4, ScrolledIs
  <2> QED BY <1>3, <1>6, <2>2, <2>3, <2>4, <2>5 DEF at
<1> QED BY <1>5, <1>6

LEMMA OnHitText ==
    ASSUME ExplorerInv, TextInv, Opened, job = Idle, UNCHANGED <<plan, disk, job>>,
           NEW f, Fits(f, g'.from), g'.from \in Place, g'.loaded = g.loaded, g'.base = g.base,
           x'.doc = OnHit(f).doc, x'.find = OnHit(f).find
    PROVE  TextInv'
<1> DEFINE y == OnHit(f)
<1>1. /\ y.doc # None /\ y.find = f /\ y.doc[1].buf.lines = B.lines
      /\ Alive(y.doc[1].buf, g.loaded, g.base)
      /\ f.current # 0 => y.doc[1].buf.cursor = f.hits[f.current]
    BY OnHitIs
<1>2. x'.doc = y.doc /\ x'.find = f
    BY <1>1
<1> HIDE DEF y
<1>3. TextOf(x'.doc, g'.loaded, g'.base)
    BY <1>1, <1>2 DEF TextOf
<1>4. FindOf(f, y.doc, g'.from)
    BY <1>1 DEF Fits, FindOf
<1>5. FilesOfBytes' /\ JobOfText' /\ plan' \in Plans
    BY FilesStay DEF TextInv, JobOfText
<1> QED BY <1>2, <1>3, <1>4, <1>5 DEF TextInv

LEMMA RescanIs ==
    ASSUME NEW f \in Finds, NEW lines \in Lines, NEW at
    PROVE  LET r == Rescan(f, lines, at)
           IN  /\ r \in Finds /\ r.field = f.field /\ r.open = f.open /\ r.origin = f.origin
               /\ r.hits = Matches(lines, f.field.text) /\ r.current = FirstFrom(r.hits, at)
               /\ r.current <= Len(r.hits)
<1> DEFINE hits == Matches(lines, f.field.text)
           i == FirstFrom(hits, at)
<1>1. f.field.text \in LineSet
    BY DEF Finds
<1>2. AreHits(lines, Len(lines), hits)
    BY <1>1, MatchesAre
<1> HIDE DEF hits
<1>3. i \in 0 .. Len(hits) /\ Len(hits) \in Nat
    BY <1>2, FirstFromIs
<1>4. hits \in Seq(Place)
    BY <1>2 DEF AreHits
<1> HIDE DEF i
<1>5. i \in Nat /\ i <= Len(hits)
    BY <1>3
<1>6. Rescan(f, lines, at) = [f EXCEPT !.hits = hits, !.current = i]
    BY DEF Rescan, hits, i
<1>7. [f EXCEPT !.hits = hits, !.current = i] \in Finds
    BY <1>4, <1>5 DEF Finds
<1> QED BY <1>5, <1>6, <1>7 DEF Finds, hits, i

LEMMA NextIs ==
    ASSUME NEW n \in Nat \ {0}, NEW i \in Nat, i <= n
    PROVE  /\ (i % n) + 1 \in Nat /\ (i % n) + 1 <= n /\ (i % n) + 1 # 0
           /\ i \in {0, 1} => n \in Nat
           /\ i \notin {0, 1} => i - 1 \in Nat /\ i - 1 <= n
<1>1. i % n \in 0 .. n - 1
    OBVIOUS
<1> QED BY <1>1

\* The hit after and the hit before, and the ends of the prompt's own line.
LEMMA TurnsFit ==
    ASSUME NEW f, NEW from, Fits(f, from)
    PROVE  Fits(NextHit(f), from) /\ Fits(PreviousHit(f), from)
<1>0. f \in Finds /\ f.current \in Nat /\ Len(f.hits) \in Nat /\ f.current <= Len(f.hits)
    BY DEF Fits, Finds
<1>1. CASE f.hits = <<>>
  <2>1. NextHit(f) = [f EXCEPT !.current = f.current]
        /\ PreviousHit(f) = [f EXCEPT !.current = f.current]
      BY <1>1 DEF NextHit, PreviousHit
  <2>2. [f EXCEPT !.current = f.current] = f
      BY <1>0 DEF Finds
  <2> QED BY <2>1, <2>2
<1>2. CASE f.hits # <<>>
  <2>1. Len(f.hits) \in Nat \ {0}
      BY <1>0, <1>2 DEF Finds
  <2>2. /\ (f.current % Len(f.hits)) + 1 \in Nat
        /\ (f.current % Len(f.hits)) + 1 <= Len(f.hits)
        /\ (IF f.current \in {0, 1} THEN Len(f.hits) ELSE f.current - 1) \in Nat
        /\ (IF f.current \in {0, 1} THEN Len(f.hits) ELSE f.current - 1) <= Len(f.hits)
      BY <1>0, <2>1, NextIs
  <2>3. \A k \in Nat : k <= Len(f.hits) => Fits([f EXCEPT !.current = k], from)
      BY <1>0 DEF Fits, Finds
  <2>4. NextHit(f) = [f EXCEPT !.current = (f.current % Len(f.hits)) + 1]
      BY <1>2 DEF NextHit
  <2>5. PreviousHit(f)
          = [f EXCEPT !.current = IF f.current \in {0, 1} THEN Len(f.hits) ELSE f.current - 1]
      BY <1>2 DEF PreviousHit
  <2> QED BY <2>2, <2>3, <2>4, <2>5
<1> QED BY <1>1, <1>2

LEMMA Halves ==
    ASSUME NEW l \in LineSet, NEW n \in Nat, n <= Len(l)
    PROVE  /\ SubSeq(l, 1, n) \in LineSet /\ Len(SubSeq(l, 1, n)) = n
           /\ SubSeq(l, n + 1, Len(l)) \in LineSet
<1>1. n <= n
    OBVIOUS
<1> QED BY <1>1, CutLine

\* The line of a prompt.
IsField(h) == h \in [text : LineSet, caret : Nat] /\ h.caret <= Len(h.text)

LEMMA FieldsAre ==
    ASSUME NEW h, IsField(h)
    PROVE  /\ IsField(FieldLeft(h)) /\ FieldLeft(h).text = h.text
           /\ IsField(FieldRight(h)) /\ FieldRight(h).text = h.text
           /\ IsField(FieldEnd(h)) /\ FieldEnd(h).text = h.text
           /\ h.caret # 0 => IsField(FieldBackspace(h))
           /\ \A c \in Byte : IsField(FieldInsert(h, c))
<1> DEFINE t == h.text
           k == h.caret
<1>1. t \in LineSet /\ k \in Nat /\ k <= Len(t) /\ Len(t) \in Nat
    BY DEF IsField, LineSet
<1>2. h = [text |-> t, caret |-> k]
    BY DEF IsField
<1> HIDE DEF t, k
<1>3. /\ FieldLeft(h) = [text |-> t, caret |-> IF k = 0 THEN 0 ELSE k - 1]
      /\ FieldRight(h) = [text |-> t, caret |-> IF k = Len(t) THEN k ELSE k + 1]
      /\ FieldEnd(h) = [text |-> t, caret |-> Len(t)]
    BY <1>2 DEF FieldLeft, FieldRight, FieldEnd
<1>4. \A n \in Nat : n <= Len(t) => IsField([text |-> t, caret |-> n])
    BY <1>1 DEF IsField
<1>5. /\ (IF k = 0 THEN 0 ELSE k - 1) \in Nat /\ (IF k = 0 THEN 0 ELSE k - 1) <= Len(t)
      /\ (IF k = Len(t) THEN k ELSE k + 1) \in Nat /\ (IF k = Len(t) THEN k ELSE k + 1) <= Len(t)
    BY <1>1
<1>6. ASSUME k # 0 PROVE IsField(FieldBackspace(h))
  <2> DEFINE m == k - 1
             u == SubSeq(t, 1, m) \o SubSeq(t, m + 2, Len(t))
  <2>1. m \in Nat /\ m <= Len(t) /\ m + 1 \in Nat /\ m + 1 <= Len(t) /\ (m + 1) + 1 = m + 2
      BY <1>1, <1>6
  <2>2. FieldBackspace(h) = [text |-> u, caret |-> m]
    <3>1. [h EXCEPT !.caret = @ - 1] = [text |-> t, caret |-> m]
        BY <1>2
    <3> DEFINE r == [text |-> t, caret |-> m]
    <3>2. FieldDelete(r) = [r EXCEPT !.text = SubSeq(r.text, 1, r.caret)
                                       \o SubSeq(r.text, r.caret + 2, Len(r.text))]
        BY DEF FieldDelete
    <3>3. r.text = t /\ r.caret = m
        OBVIOUS
    <3>4. FieldDelete(r) = [r EXCEPT !.text = u]
        BY <3>2, <3>3
    <3> HIDE DEF u
    <3>5. [r EXCEPT !.text = u] = [text |-> u, caret |-> m]
        OBVIOUS
    <3> HIDE DEF r
    <3>6. h.caret # 0
        BY <1>6 DEF k
    <3>7. FieldBackspace(h) = FieldDelete([h EXCEPT !.caret = @ - 1])
        BY <3>6 DEF FieldBackspace
    <3> QED BY <3>1, <3>4, <3>5, <3>7 DEF r
  <2> HIDE DEF m
  <2>3. SubSeq(t, 1, m) \in LineSet /\ Len(SubSeq(t, 1, m)) = m
      BY <1>1, <2>1, Halves
  <2>4. SubSeq(t, (m + 1) + 1, Len(t)) \in LineSet
      BY <1>1, <2>1, Halves
  <2>5. SubSeq(t, m + 2, Len(t)) \in LineSet
      BY <2>1, <2>4
  <2> DEFINE a == SubSeq(t, 1, m)
             z == SubSeq(t, m + 2, Len(t))
  <2>6. a \in LineSet /\ Len(a) = m /\ z \in LineSet /\ u = a \o z
      BY <2>3, <2>5
  <2> HIDE DEF a, z, u
  <2>8. u \in LineSet /\ Len(u) = Len(a) + Len(z) /\ Len(z) \in Nat
      BY <2>6, CutConcat
  <2>7. m <= Len(u)
      BY <2>1, <2>6, <2>8
  <2> QED BY <2>1, <2>2, <2>7, <2>8 DEF IsField
<1>7. ASSUME NEW c \in Byte PROVE IsField(FieldInsert(h, c))
  <2> DEFINE a == SubSeq(t, 1, k)
             z == SubSeq(t, k + 1, Len(t))
             u == a \o <<c>> \o z
  <2>1. a \in LineSet /\ Len(a) = k /\ z \in LineSet
      BY <1>1, Halves
  <2>2. FieldInsert(h, c) = [text |-> u, caret |-> k + 1]
      BY <1>2 DEF FieldInsert
  <2> HIDE DEF a, z
  <2>3. <<c>> \in LineSet /\ Len(<<c>>) = 1
      BY DEF LineSet
  <2>4. u \in LineSet /\ Len(u) = Len(a) + Len(<<c>>) + Len(z) /\ Len(z) \in Nat
      BY <2>1, <2>3, ThreeLines
  <2> HIDE DEF u
  <2>5. k + 1 \in Nat /\ k + 1 <= Len(u)
      BY <1>1, <2>1, <2>3, <2>4
  <2> QED BY <2>2, <2>4, <2>5 DEF IsField
<1>8. IsField(FieldLeft(h)) /\ IsField(FieldRight(h)) /\ IsField(FieldEnd(h))
    BY <1>1, <1>3, <1>4, <1>5
<1>9. FieldLeft(h).text = t /\ FieldRight(h).text = t /\ FieldEnd(h).text = t
    BY <1>3
<1> QED BY <1>6, <1>7, <1>8, <1>9 DEF t, k

LEMMA RescanFits ==
    ASSUME TextInv, Opened, NEW f \in Finds, f.field.caret <= Len(f.field.text), NEW at, NEW from,
           f.open => f.origin = from /\ Inside(B.lines, from)
    PROVE  Fits(Rescan(f, B.lines, at), from)
<1>1. B.lines \in Lines
    BY AliveIs DEF TextInv, TextOf, Opened, B, Doc
<1> DEFINE r == Rescan(f, B.lines, at)
<1>2. /\ r \in Finds /\ r.field = f.field /\ r.open = f.open /\ r.origin = f.origin
      /\ r.hits = Matches(B.lines, f.field.text) /\ r.current <= Len(r.hits)
    BY <1>1, RescanIs
<1> HIDE DEF r
<1> QED BY <1>2 DEF Fits, r

\* A search as it was, but for its prompt's line.
LEMMA FieldPut ==
    ASSUME NEW f \in Finds, NEW h, IsField(h)
    PROVE  LET z == [f EXCEPT !.field = h]
           IN  /\ z \in Finds /\ z.field = h /\ z.open = f.open /\ z.origin = f.origin
               /\ z.hits = f.hits /\ z.current = f.current
BY DEF Finds, IsField

LEMMA OpenFits ==
    ASSUME TextInv, Opened PROVE Fits(OpenFind(x.find, B.cursor, B.lines), B.cursor)
<1> DEFINE f == x.find
           h == FieldEnd(f.field)
           z == [f EXCEPT !.open = TRUE, !.origin = B.cursor, !.field = h]
<1>1. f \in Finds /\ IsField(f.field)
    BY DEF TextInv, FindOf, Finds, IsField
<1>2. Inside(B.lines, B.cursor) /\ B.cursor \in Place
    BY AliveIs DEF TextInv, TextOf, Opened, B, Doc
<1>3. IsField(h)
    BY <1>1, FieldsAre
<1>4. OpenFind(f, B.cursor, B.lines) = Rescan(z, B.lines, z.origin)
    BY DEF OpenFind, Refresh
<1> HIDE DEF h
<1>5. z \in Finds /\ z.field = h /\ z.open /\ z.origin = B.cursor
    BY <1>1, <1>2, <1>3 DEF Finds, IsField
<1> HIDE DEF z
<1>6. z.field.caret <= Len(z.field.text)
    BY <1>3, <1>5 DEF IsField
<1> QED BY <1>2, <1>4, <1>5, <1>6, RescanFits

LEMMA PromptFits ==
    ASSUME TextInv, Opened, x.find.open
    PROVE  LET f == x.find
           IN  /\ Fits(f, g.from) /\ Fits(NextHit(f), g.from) /\ Fits(PreviousHit(f), g.from)
               /\ Fits([f EXCEPT !.field = FieldLeft(@)], g.from)
               /\ Fits([f EXCEPT !.field = FieldRight(@)], g.from)
               /\ Fits(FindBackspace(f, B.lines), g.from)
               /\ \A c \in Byte : Fits(FindInsert(f, c, B.lines), g.from)
<1> DEFINE f == x.find
           h == f.field
<1>1. Fits(f, g.from) /\ f \in Finds /\ IsField(h) /\ Inside(B.lines, g.from)
      /\ f.origin = g.from
    BY DEF TextInv, FindOf, Fits, B, Doc, Finds, IsField
<1>2. Fits(NextHit(f), g.from) /\ Fits(PreviousHit(f), g.from)
    BY <1>1, TurnsFit
<1>3. /\ IsField(FieldLeft(h)) /\ FieldLeft(h).text = h.text
      /\ IsField(FieldRight(h)) /\ FieldRight(h).text = h.text
      /\ h.caret # 0 => IsField(FieldBackspace(h))
      /\ \A c \in Byte : IsField(FieldInsert(h, c))
    BY <1>1, FieldsAre
<1>4. ASSUME NEW k, IsField(k), k.text = h.text PROVE Fits([f EXCEPT !.field = k], g.from)
  <2> DEFINE z == [f EXCEPT !.field = k]
  <2>1. /\ z \in Finds /\ z.field = k /\ z.open = f.open /\ z.origin = f.origin
        /\ z.hits = f.hits /\ z.current = f.current
      BY <1>1, <1>4, FieldPut
  <2> HIDE DEF z
  <2> QED BY <1>1, <1>4, <2>1 DEF Fits, IsField, z
<1>5. ASSUME NEW k, IsField(k) PROVE Fits(Refresh([f EXCEPT !.field = k], B.lines), g.from)
  <2> DEFINE z == [f EXCEPT !.field = k]
  <2>1. /\ z \in Finds /\ z.field = k /\ z.open = f.open /\ z.origin = f.origin
      BY <1>1, <1>5, FieldPut
  <2>2. Refresh(z, B.lines) = Rescan(z, B.lines, z.origin)
      BY DEF Refresh
  <2> HIDE DEF z
  <2>3. z.field.caret <= Len(z.field.text)
      BY <1>5, <2>1 DEF IsField
  <2>4. Fits(Rescan(z, B.lines, z.origin), g.from)
      BY <1>1, <2>1, <2>3, RescanFits
  <2> QED BY <2>2, <2>4 DEF z
<1>6. [f EXCEPT !.field = FieldLeft(@)] = [f EXCEPT !.field = FieldLeft(h)]
      /\ [f EXCEPT !.field = FieldRight(@)] = [f EXCEPT !.field = FieldRight(h)]
    OBVIOUS
<1>7. Fits(FindBackspace(f, B.lines), g.from)
  <2>1. CASE h.caret = 0
      BY <1>1, <2>1 DEF FindBackspace
  <2>2. CASE h.caret # 0
    <3>1. FindBackspace(f, B.lines) = Refresh([f EXCEPT !.field = FieldBackspace(h)], B.lines)
        BY <2>2 DEF FindBackspace
    <3> QED BY <1>3, <1>5, <2>2, <3>1
  <2> QED BY <2>1, <2>2
<1>8. ASSUME NEW c \in Byte PROVE Fits(FindInsert(f, c, B.lines), g.from)
  <2>1. FindInsert(f, c, B.lines) = Refresh([f EXCEPT !.field = FieldInsert(h, c)], B.lines)
      BY DEF FindInsert
  <2> QED BY <1>3, <1>5, <2>1
<1> QED BY <1>1, <1>2, <1>3, <1>4, <1>6, <1>7, <1>8

LEMMA FindText ==
    ASSUME ExplorerInv, TextInv, StartFind \/ StepFind(TRUE) \/ StepFind(FALSE) \/ FindKey
    PROVE  TextInv'
<1>1. Opened /\ job = Idle /\ g.from \in Place
    BY DEF StartFind, StepFind, FindKey, Key, Listening, ExplorerInv, Working, TextInv, FindOf
<1>2. Inside(B.lines, B.cursor) /\ B.cursor \in Place
    BY <1>1, AliveIs DEF TextInv, TextOf, Opened, B, Doc
<1>3. CASE StartFind
  <2> DEFINE f == OpenFind(x.find, B.cursor, B.lines)
             y == OnHit(f)
  <2>1. Fits(f, B.cursor)
      BY <1>1, OpenFits
  <2>2. x' = [y EXCEPT !.focus = "editor"] /\ g' = [g EXCEPT !.from = B.cursor]
        /\ UNCHANGED <<plan, disk, job>>
      BY <1>3 DEF StartFind
  <2> HIDE DEF f
  <2>3. DOMAIN y = Fields
      BY <1>1, <2>1, OnHitIs
  <2> HIDE DEF y
  <2>4. x'.doc = y.doc /\ x'.find = y.find
      BY <2>2, <2>3 DEF Fields
  <2>5. g'.from = B.cursor /\ g'.loaded = g.loaded /\ g'.base = g.base
      BY <2>2 DEF ExplorerInv, Shapes
  <2> QED BY <1>1, <1>2, <2>1, <2>2, <2>4, <2>5, OnHitText DEF y
<1>4. ASSUME NEW f, Fits(f, g.from), Now(OnHit(f)) PROVE TextInv'
  <2>1. UNCHANGED <<plan, disk, job, g>> /\ x' = OnHit(f)
      BY <1>4 DEF Now
  <2>2. g'.from = g.from /\ g'.loaded = g.loaded /\ g'.base = g.base
      BY <2>1
  <2> QED BY <1>1, <1>4, <2>1, <2>2, OnHitText
<1>5. CASE StepFind(TRUE) \/ StepFind(FALSE)
  <2> DEFINE f == Rescan(x.find, B.lines, B.cursor)
  <2>1. x.find \in Finds /\ x.find.field.caret <= Len(x.find.field.text) /\ ~x.find.open
      BY <1>5 DEF TextInv, FindOf, StepFind, Key
  <2>2. Fits(f, g.from)
      BY <1>1, <2>1, RescanFits
  <2>3. Now(OnHit(NextHit(f))) \/ Now(OnHit(PreviousHit(f)))
      BY <1>5 DEF StepFind
  <2> HIDE DEF f
  <2>4. Fits(NextHit(f), g.from) /\ Fits(PreviousHit(f), g.from)
      BY <2>2, TurnsFit
  <2> QED BY <1>4, <2>3, <2>4
<1>6. CASE FindKey
  <2> DEFINE f == x.find
  <2>1. x.find.open
      BY <1>6 DEF FindKey
  <2>2. /\ Fits(NextHit(f), g.from) /\ Fits(PreviousHit(f), g.from)
        /\ Fits([f EXCEPT !.field = FieldLeft(@)], g.from)
        /\ Fits([f EXCEPT !.field = FieldRight(@)], g.from)
        /\ Fits(FindBackspace(f, B.lines), g.from)
        /\ \A c \in Byte : Fits(FindInsert(f, c, B.lines), g.from)
      BY <1>1, <2>1, PromptFits
  <2>3. Letters \subseteq Byte
      BY ExplorerAssumption DEF ExplorerAssumption
  <2>4. \/ \E h \in {NextHit(f), PreviousHit(f), [f EXCEPT !.field = FieldLeft(@)],
                     [f EXCEPT !.field = FieldRight(@)], FindBackspace(f, B.lines)} :
              Now(OnHit(h))
        \/ \E c \in Letters : Now(OnHit(FindInsert(f, c, B.lines)))
      BY <1>6 DEF FindKey
  <2> HIDE DEF f
  <2> QED BY <1>4, <2>2, <2>3, <2>4
<1> QED BY <1>3, <1>5, <1>6

\* Closing the prompt, with the cursor where it is or back where it was.
LEMMA ClosedFind ==
    ASSUME TextInv, NEW f, f = [x.find EXCEPT !.open = FALSE], NEW doc
    PROVE  FindOf(f, doc, g.from)
BY DEF TextInv, FindOf, Finds

LEMMA AcceptText ==
    ASSUME ExplorerInv, TextInv, AcceptFind PROVE TextInv'
<1>1. /\ x' = [x EXCEPT !.find.open = FALSE] /\ UNCHANGED <<plan, disk, job, g>>
      /\ DOMAIN x = Fields
    BY DEF AcceptFind, Now, ExplorerInv, Shapes
<1>2. x'.find = [x.find EXCEPT !.open = FALSE] /\ x'.doc = x.doc
    BY <1>1 DEF Fields
<1>3. FindOf(x'.find, x'.doc, g.from)
    BY <1>2, ClosedFind
<1>4. FilesOfBytes' /\ JobOfText' /\ plan' \in Plans
    BY <1>1, FilesStay DEF TextInv, JobOfText
<1> QED BY <1>1, <1>2, <1>3, <1>4 DEF TextInv, TextOf

LEMMA AbandonIs ==
    ASSUME ExplorerInv, TextInv, AbandonFind
    PROVE  /\ Opened /\ x'.doc # None /\ x'.doc[1].buf.cursor = g.from
           /\ Alive(x'.doc[1].buf, g.loaded, g.base)
           /\ x'.find = [x.find EXCEPT !.open = FALSE] /\ UNCHANGED <<plan, disk, job, g>>
<1> DEFINE z == [x EXCEPT !.find.open = FALSE]
           at == x.find.origin
           b == Goto(B, at)
           u == [z EXCEPT !.doc[1].buf = b]
<1>1. /\ Opened /\ x.find.open /\ DOMAIN x = Fields /\ IsDoc(x.doc) /\ x.doc # None
      /\ x' = Scrolled([x EXCEPT !.find.open = FALSE, !.doc[1].buf = Goto(@, x.find.origin)])
      /\ UNCHANGED <<plan, disk, job, g>>
    BY DEF AbandonFind, Now, ExplorerInv, Shapes, Working, Opened
<1>2. Alive(B, g.loaded, g.base) /\ at = g.from /\ Inside(B.lines, at)
    BY <1>1 DEF TextInv, TextOf, FindOf, Opened, B, Doc
<1>3. DOMAIN z = Fields /\ z.doc = x.doc /\ z.find = [x.find EXCEPT !.open = FALSE]
    BY <1>1 DEF Fields
<1>4. z.doc[1].buf = B
    BY <1>3 DEF B, Doc
<1>5. x' = Scrolled(u)
    BY <1>1, <1>4 DEF B, Doc
<1> HIDE DEF at, z
<1>6. b.cursor = at /\ Alive(b, g.loaded, g.base)
    BY <1>2, GoneIs
<1> HIDE DEF b
<1>7. DOMAIN u = Fields /\ u.doc # None /\ u.doc[1].buf = b /\ u.find = z.find
    BY <1>1, <1>3, TextPut
<1> HIDE DEF u
<1>8. Scrolled(u).doc = u.doc /\ Scrolled(u).find = u.find
    BY <1>7, ScrolledIs
<1> QED BY <1>1, <1>2, <1>3, <1>5, <1>6, <1>7, <1>8

LEMMA AbandonText ==
    ASSUME ExplorerInv, TextInv, AbandonFind PROVE TextInv'
<1>1. /\ x'.doc # None /\ Alive(x'.doc[1].buf, g.loaded, g.base)
      /\ x'.find = [x.find EXCEPT !.open = FALSE] /\ UNCHANGED <<plan, disk, job, g>>
    BY AbandonIs
<1>2. FindOf(x'.find, x'.doc, g.from)
    BY <1>1, ClosedFind
<1>3. FilesOfBytes' /\ JobOfText' /\ plan' \in Plans
    BY <1>1, FilesStay DEF TextInv, JobOfText
<1> QED BY <1>1, <1>2, <1>3 DEF TextInv, TextOf

(***************************************************************************)
(* The theorems.                                                           *)
(***************************************************************************)
LEMMA TextStarts ==
    ASSUME ExplorerInit PROVE TextInv
<1>1. plan \in Plans /\ disk.file = plan.files /\ job = Idle /\ x.doc = None /\ x.find = NewFind
      /\ g.from = Cursor(1, 0)
    BY DEF ExplorerInit, NewExplorer
<1>2. FilesOfBytes
    BY <1>1, ExplorerAssumption DEF ExplorerAssumption, FilesOfBytes, There, Bytes
<1>3. JobOfText
    BY <1>1 DEF JobOfText, Idle
<1>4. FindOf(x.find, x.doc, g.from)
    BY <1>1, NewFindIs DEF FindOf, Cursor, Place
<1> QED BY <1>1, <1>2, <1>3, <1>4 DEF TextInv, TextOf

LEMMA TextSteps ==
    ASSUME ExplorerInv, ExplorerInv', TextInv, ExplorerNext PROVE TextInv'
<1>1. CASE Sync \/ EmptyEditorLeft \/ CtrlKey \/ TreeKey \/ PathKey
           \/ AnswerDiscard \/ CloseWindow \/ Killed
    BY <1>1, ScreenCarries, FilesStay, CarriedKeeps
<1>2. CASE CreateFile \/ WriteTemp \/ ReplaceFile \/ ReplaceBusy \/ SaveError
    BY <1>2, SaveStepsCarry, CarriedKeeps
<1>3. CASE OtherProgram
    BY <1>3, OthersCarry, CarriedKeeps
<1>4. CASE EnterExplorer
    BY <1>4, EnterCarries, FilesStay, CarriedKeeps
<1>5. CASE ReadFile \/ TakeStamp \/ MarkSaved
    BY <1>5, ReadText, StampText, SavedText
<1>6. CASE MoveKey \/ EditKey
    BY <1>6, MoveText, EditText
<1>7. CASE StartFind \/ StepFind(TRUE) \/ StepFind(FALSE) \/ AcceptFind \/ AbandonFind \/ FindKey
    BY <1>7, FindText, AcceptText, AbandonText
<1> QED BY <1>1, <1>2, <1>3, <1>4, <1>5, <1>6, <1>7 DEF ExplorerNext

LEMMA TextRests ==
    ASSUME TextInv, UNCHANGED explorerVars PROVE TextInv'
BY DEF explorerVars, TextInv, FilesOfBytes, JobOfText, There, Bytes

\* Every moment of every behaviour: the text remembers how it was opened and
\* saved, and a search stands in it.
THEOREM TextKnown == ExplorerSpec => []TextInv
<1>1. ExplorerInv /\ ExplorerInv' /\ TextInv /\ [ExplorerNext]_explorerVars => TextInv'
    BY TextSteps, TextRests
<1>2. ExplorerInit => TextInv
    BY TextStarts
<1> QED BY <1>1, <1>2, SaveKnows, PTL DEF ExplorerSpec

\* buffer.rs: for any files of any bytes, and any keys, saves and other
\* programs: a buffer that does not call itself modified is the file as it was
\* last read or written, undoing everything gives the file as it was opened, and
\* a redo takes one undo back.
THEOREM TheBufferIsTrue == ExplorerSpec => []BufferTrue
<1>1. TextInv => BufferTrue
  <2> SUFFICES ASSUME TextInv, Opened
               PROVE  /\ ~Modified(B) => ToBytes(B) = g.base
                      /\ ToBytes(AllUndone(B)) = g.loaded
                      /\ B.undo # <<>> => /\ Redo(Undo(B)).lines = B.lines
                                         /\ Redo(Undo(B)).eols = B.eols
      BY DEF BufferTrue
  <2>1. Alive(B, g.loaded, g.base)
      BY DEF TextInv, TextOf, Opened, B, Doc
  <2>2. ToBytes(AllUndone(B)) = g.loaded
      BY <2>1, AllUndoneIs
  <2> QED BY <2>1, <2>2, UnmodifiedIs
<1> QED BY <1>1, TextKnown, PTL

LEMMA StepsOn ==
    ASSUME ExplorerInv, TextInv, StepFind(TRUE) PROVE StepsThroughHits
<1> DEFINE f == Rescan(x.find, B.lines, B.cursor)
           n == Len(f.hits)
           k == (f.current % n) + 1
           y == OnHit(NextHit(f))
<1> SUFFICES ASSUME NEW i \in 1 .. Len(Matches(B.lines, x.find.field.text)),
                    B.cursor = Matches(B.lines, x.find.field.text)[i]
             PROVE  x'.doc[1].buf.cursor
                      = Matches(B.lines, x.find.field.text)
                          [(i % Len(Matches(B.lines, x.find.field.text))) + 1]
    BY DEF StepsThroughHits
<1>1. /\ Opened /\ x' = y /\ x.find \in Finds /\ ~x.find.open
      /\ x.find.field.caret <= Len(x.find.field.text)
    BY DEF StepFind, Now, Key, TextInv, FindOf
<1>2. B.lines \in Lines
    BY <1>1, AliveIs DEF TextInv, TextOf, Opened, B, Doc
<1>3. /\ f.hits = Matches(B.lines, x.find.field.text) /\ f \in Finds
      /\ f.current = FirstFrom(f.hits, B.cursor)
    BY <1>1, <1>2, RescanIs
<1>4. Fits(f, g.from)
    BY <1>1, RescanFits
<1> HIDE DEF f
<1>5. x.find.field.text \in LineSet
    BY <1>1 DEF Finds
<1>6. AreHits(B.lines, Len(B.lines), f.hits)
    BY <1>2, <1>3, <1>5, MatchesAre
<1>7. i \in 1 .. Len(f.hits) /\ B.cursor = f.hits[i]
    BY <1>3
<1>8. f.current = i /\ n \in Nat /\ i \in 1 .. n
    BY <1>3, <1>6, <1>7, FirstFromIs
<1>9. f.hits # <<>> /\ n \in Nat \ {0}
    BY <1>7, <1>8
<1>10. NextHit(f) = [f EXCEPT !.current = k]
    BY <1>9 DEF NextHit
<1>11. k \in Nat /\ k # 0
  <2> HIDE DEF n
  <2>1. n \in Nat \ {0} /\ i \in Nat /\ i <= n
      BY <1>8, <1>9
  <2>2. (i % n) + 1 \in Nat /\ (i % n) + 1 # 0
      BY <2>1, NextIs
  <2> QED BY <1>8, <2>2
<1>12. NextHit(f).current = k /\ NextHit(f).hits = f.hits
    BY <1>3, <1>10 DEF Finds
<1>13. Fits(NextHit(f), g.from)
    BY <1>4, TurnsFit
<1> DEFINE w == NextHit(f)
<1>14. w.current # 0 /\ Fits(w, g.from)
    BY <1>11, <1>12, <1>13
<1>15. y.doc[1].buf.cursor = w.hits[w.current]
    BY <1>1, <1>14, OnHitIs
<1>16. y.doc[1].buf.cursor = f.hits[k]
    BY <1>12, <1>15
<1> HIDE DEF y
<1> QED BY <1>1, <1>3, <1>8, <1>16

\* find.rs: for any text and any search: Esc puts the cursor back where it was
\* when the prompt opened, and from a hit F3 goes to the next, around the end.
THEOREM FindReturns == ExplorerSpec => FindKeepsPlace
<1>1. ASSUME ExplorerInv, TextInv, [ExplorerNext]_explorerVars
      PROVE  [AbandonReturns /\ StepsThroughHits]_explorerVars
  <2>1. AbandonReturns
      BY <1>1, AbandonIs DEF AbandonReturns
  <2>2. StepsThroughHits
    <3>1. CASE StepFind(TRUE)
        BY <1>1, <3>1, StepsOn
    <3>2. CASE ~StepFind(TRUE)
        BY <3>2 DEF StepsThroughHits
    <3> QED BY <3>1, <3>2
  <2> QED BY <2>1, <2>2
<1> QED BY <1>1, SaveKnows, TextKnown, PTL DEF FindKeepsPlace, ExplorerSpec

=============================================================================
