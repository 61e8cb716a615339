--------------------------- MODULE ForegroundProofs ---------------------------
(***************************************************************************)
(* What the parts a person sits before keep, for any number of rows, keys, *)
(* drives and programs.                                                    *)
(*                                                                         *)
(* Tui: once nothing is left to ask, the rows on the screen are the answer *)
(* to the question on the screen; and what a key or a scan does is what it *)
(* was begun for.  RowsOfThisQuery speaks of the moments at rest, and says *)
(* nothing of how they are reached.  The invariant, UiInv, does: whatever  *)
(* may part rows and question sets dirty or pending (Asking), the height   *)
(* the rows were fetched for is the window's unless a fetch is owed        *)
(* (Fresh), and what two keys share - the file a first Tab named, the view *)
(* the terminal was opened from - is kept between them (Kept).  In a       *)
(* steady plan there is one list, and the cursor stays on a row of it      *)
(* within the window (SteadyApp, SteadyRows).                              *)
(*                                                                         *)
(* Prompt: the answers recorded are those of the questions come past       *)
(* (Came), each suits its question, and a dialog only ever marks drives    *)
(* that can be indexed.                                                    *)
(*                                                                         *)
(* Setup: where the executable is at each step (ExeKept), what a service   *)
(* that was stopped for it is started with (NewStarts), that a shortcut    *)
(* reported on is registered and waited for (KeyHeld), and what an         *)
(* uninstall has come past (GoneSoFar).                                    *)
(***************************************************************************)
EXTENDS Tui, Prompt, Setup, DataLemmas, FiniteSetTheorems

-----------------------------------------------------------------------------
\* The rows on the screen

Fields == {"mode", "query", "sort", "kind", "rows", "win", "sel", "total", "dupes", "dupesWindow",
           "dupesPending", "confirmDelete", "pendingFile", "cameFrom", "explorer", "terminal", "rail",
           "dirty", "quit", "status"}

\* struct App, as far as the cursor goes: an empty list has it at its top.
AppTypes(a) ==
    /\ DOMAIN a = Fields
    /\ a.sel \in Nat /\ a.win \in Nat /\ a.total \in Nat /\ Len(a.dupes) \in Nat
    /\ a.total = 0 => a.sel = 0 /\ a.win = 0

\* b is a with the cursor moved: it is on a row, within the window if that has
\* room, and a window that moved asks for its rows.
Scrolled(a, b, visible) ==
    /\ AppTypes(b)
    /\ \A f \in Fields \ {"sel", "win", "dirty"} : b[f] = a[f]
    /\ a.total = 0 => b.sel = a.sel /\ b.win = a.win /\ b.dirty = a.dirty
    /\ a.total # 0 => /\ b.sel < a.total
                      /\ (b.win = a.win /\ b.dirty = a.dirty) \/ b.dirty = TRUE
                      /\ visible > 0 => b.win <= b.sel /\ b.sel < b.win + visible

\* scroll_into_view: the window follows a cursor put on a row.
LEMMA ScrollIntoViewMoves ==
    ASSUME NEW a, AppTypes(a), NEW visible \in Nat, NEW sel \in Nat,
           IF a.total = 0 THEN sel = 0 ELSE sel < a.total
    PROVE  Scrolled(a, ScrollIntoView([a EXCEPT !.sel = sel], visible), visible)
  <1> DEFINE b == [a EXCEPT !.sel = sel]
             start == IF b.sel < b.win THEN b.sel
                      ELSE IF b.sel >= b.win + visible THEN b.sel + 1 - visible ELSE b.win
             c == ScrollIntoView(b, visible)
  <1>1. /\ DOMAIN b = Fields /\ b.sel = sel /\ \A f \in Fields \ {"sel"} : b[f] = a[f]
        /\ b.win = a.win /\ b.total = a.total /\ b.dirty = a.dirty /\ b.dupes = a.dupes
    BY DEF AppTypes, Fields
  <1>2. c = IF visible = 0 \/ start = b.win THEN b ELSE [b EXCEPT !.win = start, !.dirty = TRUE]
    BY DEF ScrollIntoView
  <1> HIDE DEF b, c
  <1>3. ASSUME visible = 0 \/ start = b.win
        PROVE  Scrolled(a, c, visible)
    <2>1. c = b
      BY <1>2, <1>3
    <2> QED
      BY <1>1, <1>3, <2>1 DEF Scrolled, AppTypes, Fields
  <1>4. ASSUME ~(visible = 0 \/ start = b.win)
        PROVE  Scrolled(a, c, visible)
    <2>1. c = [b EXCEPT !.win = start, !.dirty = TRUE]
      BY <1>2, <1>4
    <2>2. start \in Nat /\ start <= sel /\ sel < start + visible /\ a.total # 0
      BY <1>1, <1>4 DEF AppTypes
    <2> HIDE DEF start
    <2>3. /\ DOMAIN c = Fields /\ c.win = start /\ c.dirty = TRUE /\ c.sel = sel
          /\ \A f \in Fields \ {"sel", "win", "dirty"} : c[f] = a[f]
          /\ c.total = a.total /\ c.dupes = a.dupes
      BY <1>1, <2>1 DEF Fields
    <2> QED
      BY <2>2, <2>3 DEF Scrolled, AppTypes
  <1> QED
    BY <1>3, <1>4 DEF b, c

\* move_selection, go_first, go_last.
LEMMA MovesAreScrolls ==
    ASSUME NEW a, AppTypes(a), NEW visible \in Nat, NEW d \in Int
    PROVE  /\ Scrolled(a, MoveSelection(a, d, visible), visible)
           /\ Scrolled(a, GoFirst(a, visible), visible)
           /\ Scrolled(a, GoLast(a, visible), visible)
  <1> DEFINE sel == Most(0, Least(a.sel + d, a.total - 1))
  <1>1. ASSUME a.total = 0
        PROVE  Scrolled(a, MoveSelection(a, d, visible), visible)
    <2>1. MoveSelection(a, d, visible) = [a EXCEPT !.sel = 0, !.win = 0]
      BY <1>1 DEF MoveSelection
    <2>2. Scrolled(a, [a EXCEPT !.sel = 0, !.win = 0], visible)
      BY <1>1 DEF Scrolled, AppTypes, Fields
    <2> QED
      BY <2>1, <2>2
  <1>2. ASSUME a.total # 0
        PROVE  Scrolled(a, MoveSelection(a, d, visible), visible)
    <2>1. sel \in Nat /\ sel < a.total
      BY <1>2 DEF AppTypes, Most, Least
    <2>2. MoveSelection(a, d, visible) = ScrollIntoView([a EXCEPT !.sel = sel], visible)
      BY <1>2 DEF MoveSelection
    <2> HIDE DEF sel
    <2> QED
      BY <1>2, <2>1, <2>2, ScrollIntoViewMoves
  <1>3. Scrolled(a, GoFirst(a, visible), visible)
    <2>1. IF a.total = 0 THEN 0 = 0 ELSE 0 < a.total
      BY DEF AppTypes
    <2> QED
      BY <2>1, ScrollIntoViewMoves DEF GoFirst
  <1>4. Scrolled(a, GoLast(a, visible), visible)
    <2> DEFINE last == Most(a.total - 1, 0)
    <2>1. last \in Nat /\ IF a.total = 0 THEN last = 0 ELSE last < a.total
      BY DEF AppTypes, Most
    <2>2. GoLast(a, visible) = ScrollIntoView([a EXCEPT !.sel = last], visible)
      BY DEF GoLast
    <2> HIDE DEF last
    <2> QED
      BY <2>1, <2>2, ScrollIntoViewMoves
  <1> QED
    BY <1>1, <1>2, <1>3, <1>4

\* Rows put under the cursor: it stays among them, and a window that had to
\* move for that asks again.
RowsPut(a, b, rows, total, visible) ==
    /\ AppTypes(b) /\ b.rows = rows /\ b.total = total
    /\ \A f \in Fields \ {"rows", "win", "sel", "total", "dirty"} : b[f] = a[f]
    /\ total # 0 => b.sel = Least(a.sel, total - 1)
    /\ ~b.dirty => /\ total # 0 => b.win = Least(a.win, total - 1)
                   /\ total # 0 /\ visible > 0 => b.sel < b.win + visible
    /\ total # 0 /\ a.win <= a.sel => b.win <= b.sel

\* The clamps that end every apply.
LEMMA ClampedKeeps ==
    ASSUME NEW a, DOMAIN a = Fields, a.sel \in Nat, a.win \in Nat, a.total \in Nat, Len(a.dupes) \in Nat
    PROVE  LET b == Clamped(a)
           IN  /\ AppTypes(b) /\ \A f \in Fields \ {"sel", "win"} : b[f] = a[f]
               /\ a.total # 0 => b.sel = Least(a.sel, a.total - 1) /\ b.win = Least(a.win, a.total - 1)
  <1> DEFINE sel == IF a.total = 0 THEN 0 ELSE Least(a.sel, a.total - 1)
             win == IF a.total = 0 THEN 0 ELSE Least(a.win, a.total - 1)
             b == Clamped(a)
  <1>1. b = [a EXCEPT !.sel = sel, !.win = win]
    BY DEF Clamped
  <1>2. sel \in Nat /\ win \in Nat /\ (a.total = 0 => sel = 0 /\ win = 0)
        /\ (a.total # 0 => sel = Least(a.sel, a.total - 1) /\ win = Least(a.win, a.total - 1))
    BY DEF Least
  <1> HIDE DEF b, sel, win
  <1>3. /\ DOMAIN b = Fields /\ b.sel = sel /\ b.win = win /\ b.total = a.total /\ b.dupes = a.dupes
        /\ \A f \in Fields \ {"sel", "win"} : b[f] = a[f]
    BY <1>1 DEF Fields
  <1>4. AppTypes(b)
    BY <1>2, <1>3 DEF AppTypes
  <1> QED
    BY <1>2, <1>3, <1>4 DEF b

\* apply_rows.
LEMMA ApplyRowsPuts ==
    ASSUME NEW a, AppTypes(a), NEW rows, NEW total \in Nat, NEW visible \in Nat
    PROVE  RowsPut(a, ApplyRows(a, rows, total, visible), rows, total, visible)
  <1> DEFINE b == [a EXCEPT !.rows = rows, !.total = total, !.dirty = FALSE]
             c == Clamped(b)
             d == ApplyRows(a, rows, total, visible)
  <1>1. /\ DOMAIN b = Fields /\ b.rows = rows /\ b.total = total /\ b.dirty = FALSE
        /\ \A f \in Fields \ {"rows", "total", "dirty"} : b[f] = a[f]
        /\ b.sel = a.sel /\ b.win = a.win /\ a.sel \in Nat /\ a.win \in Nat
        /\ b.dupes = a.dupes /\ Len(a.dupes) \in Nat
    BY DEF AppTypes, Fields
  <1>2. d = IF total # 0 /\ visible > 0 /\ c.sel >= c.win + visible
            THEN [c EXCEPT !.win = c.sel + 1 - visible, !.dirty = TRUE] ELSE c
    BY DEF ApplyRows
  <1> HIDE DEF b, d
  <1>3. /\ AppTypes(c) /\ \A f \in Fields \ {"sel", "win"} : c[f] = b[f]
        /\ total # 0 => c.sel = Least(a.sel, total - 1) /\ c.win = Least(a.win, total - 1)
    BY <1>1, ClampedKeeps
  <1> HIDE DEF c
  <1>4. /\ c.rows = rows /\ c.total = total /\ c.dirty = FALSE
        /\ \A f \in Fields \ {"rows", "win", "sel", "total", "dirty"} : c[f] = a[f]
    BY <1>1, <1>3 DEF Fields
  <1>5. ASSUME total # 0 /\ visible > 0 /\ c.sel >= c.win + visible
        PROVE  RowsPut(a, d, rows, total, visible)
    <2> DEFINE win == c.sel + 1 - visible
    <2>1. win \in Nat /\ win <= c.sel
      BY <1>3, <1>5 DEF AppTypes
    <2>2. d = [c EXCEPT !.win = win, !.dirty = TRUE]
      BY <1>2, <1>5
    <2> HIDE DEF win
    <2>3. /\ DOMAIN d = Fields /\ d.win = win /\ d.dirty = TRUE /\ d.sel = c.sel
          /\ \A f \in Fields \ {"win", "dirty"} : d[f] = c[f]
          /\ d.total = c.total /\ d.dupes = c.dupes /\ d.rows = c.rows
      BY <1>3, <2>2 DEF AppTypes, Fields
    <2>4. AppTypes(d)
      BY <1>3, <1>4, <1>5, <2>1, <2>3 DEF AppTypes
    <2> QED
      BY <1>3, <1>4, <1>5, <2>1, <2>3, <2>4 DEF RowsPut
  <1>6. ASSUME ~(total # 0 /\ visible > 0 /\ c.sel >= c.win + visible)
        PROVE  RowsPut(a, d, rows, total, visible)
    <2>1. d = c
      BY <1>2, <1>6
    <2>2. total # 0 /\ visible > 0 => c.sel < c.win + visible
      BY <1>3, <1>6 DEF AppTypes
    <2>3. total # 0 /\ a.win <= a.sel => c.win <= c.sel
      BY <1>1, <1>3 DEF Least
    <2> QED
      BY <1>3, <1>4, <2>1, <2>2, <2>3 DEF RowsPut
  <1> QED
    BY <1>5, <1>6 DEF d

\* A list an index answers is one of its files.
LEMMA AnswerType ==
    ASSUME uplan \in UiPlans, world.index \in SUBSET uplan.files,
           NEW a, a.win \in Nat, NEW visible \in Nat
    PROVE  ListFor(a, visible) \in Seq(uplan.files)
  <1> DEFINE wanted == {p \in world.index :
                          Includes(p, a.query) /\ (a.kind = "all" \/ IsDir(p) = (a.kind = "dirs"))}
             indexed == Listed(world.index)
             found == Listed(wanted)
  <1>1. indexed \in Seq(uplan.files) /\ found \in Seq(uplan.files)
    <2>1. wanted \in SUBSET uplan.files
      OBVIOUS
    <2> HIDE DEF wanted
    <2> QED
      BY <2>1, UiAssumption DEF Listed
  <1> HIDE DEF wanted
  <1>2. Reverse(found) \in Seq(uplan.files)
    <2> HIDE DEF found
    <2> QED
      BY <1>1 DEF Reverse
  <1>3. Slice(indexed, 0, a.win + Most(visible, 1) + Ahead) \in Seq(uplan.files)
    <2> DEFINE n == Least(0 + (a.win + Most(visible, 1) + Ahead), Len(indexed))
    <2>1. n \in 0 .. Len(indexed)
      BY <1>1, UiAssumption DEF Least, Most
    <2> HIDE DEF n, indexed
    <2>2. SubSeq(indexed, 1, n) \in Seq(uplan.files)
      <3>1. n \in Int /\ 1 \in Int /\ \A i \in 1 .. n : indexed[i] \in uplan.files
        BY <1>1, <2>1
      <3> QED
        BY <3>1, SubSeqProperties
    <2> QED
      BY <2>2 DEF Slice, n
  <1>4. ListFor(a, visible) \in {Slice(indexed, 0, a.win + Most(visible, 1) + Ahead), found, Reverse(found)}
    BY DEF ListFor, wanted, indexed, found
  <1> HIDE DEF indexed, found
  <1> QED
    BY <1>1, <1>2, <1>3, <1>4

\* Rows fetched for a window are the list's at that window, if any are left.
LEMMA SliceKept ==
    ASSUME NEW T, NEW list \in Seq(T), NEW win \in Nat, NEW n \in Nat, Slice(list, win, n) # <<>>
    PROVE  Len(list) # 0 /\ win = Least(win, Len(list) - 1)
  <1>1. Len(list) \in Nat
    OBVIOUS
  <1>2. win + 1 <= Least(win + n, Len(list))
    <2> SUFFICES ASSUME win + 1 > Least(win + n, Len(list))
                 PROVE  Slice(list, win, n) = <<>>
      BY <1>1 DEF Least
    <2>1. Least(win + n, Len(list)) \in Int
      BY <1>1 DEF Least
    <2> QED
      BY <2>1, SubSeqEmpty DEF Slice
  <1> QED
    BY <1>1, <1>2 DEF Least

\* refresh of a list.
LEMMA AnswerRowsFetches ==
    ASSUME uplan \in UiPlans, world.index \in SUBSET uplan.files,
           NEW a, AppTypes(a), NEW visible \in Nat
    PROVE  LET b == AnswerRows(a, visible)
               list == ListFor(a, visible)
           IN  /\ AppTypes(b)
               /\ \A f \in Fields \ {"rows", "win", "sel", "total", "dirty", "status"} : b[f] = a[f]
               /\ ~b.dirty /\ b.rows # <<>> => b.total # 0 /\ b.rows = Slice(list, b.win, Most(visible, 1))
               /\ a.mode # "bloat" =>
                    /\ b.total = Len(list) /\ b.rows = Slice(list, a.win, Most(visible, 1))
                    /\ b.total # 0 => b.sel = Least(a.sel, b.total - 1)
                    /\ ~b.dirty /\ b.total # 0 =>
                         /\ b.win = Least(a.win, b.total - 1)
                         /\ visible > 0 => b.sel < b.win + visible
                    /\ b.total # 0 /\ a.win <= a.sel => b.win <= b.sel
  <1> DEFINE list == ListFor(a, visible)
             n == Most(visible, 1)
             from == IF a.mode = "bloat" THEN Least(a.win, Len(list)) ELSE a.win
             rows == Slice(list, from, n)
             c == ApplyRows(a, rows, Len(list), visible)
             b == AnswerRows(a, visible)
  <1>1. list \in Seq(uplan.files) /\ Len(list) \in Nat /\ n \in Nat /\ from \in Nat
        /\ a.win \in Nat
    <2>1. a.win \in Nat /\ n \in Nat
      BY DEF AppTypes, Most
    <2>2. list \in Seq(uplan.files)
      BY <2>1, AnswerType
    <2> HIDE DEF list
    <2> QED
      BY <2>1, <2>2 DEF Least
  <1>2. b = [c EXCEPT !.status = IF a.dirty THEN "" ELSE @]
    BY DEF AnswerRows, ApplyBloat
  <1> HIDE DEF list, n, rows, b
  <1>3. RowsPut(a, c, rows, Len(list), visible)
    BY <1>1, ApplyRowsPuts
  <1> HIDE DEF c, from
  <1>4. AppTypes(b) /\ \A f \in Fields \ {"status"} : b[f] = c[f]
    BY <1>2, <1>3 DEF RowsPut, AppTypes, Fields
  <1>5. /\ b.rows = rows /\ b.total = Len(list) /\ b.sel = c.sel /\ b.win = c.win /\ b.dirty = c.dirty
    BY <1>3, <1>4 DEF RowsPut, Fields
  <1>6. ASSUME ~b.dirty, b.rows # <<>>
        PROVE  b.total # 0 /\ b.rows = Slice(list, b.win, n)
    <2>1. Len(list) # 0 /\ from = Least(from, Len(list) - 1)
      BY <1>1, <1>5, <1>6, SliceKept DEF rows
    <2>2. b.win = Least(a.win, Len(list) - 1)
      BY <1>3, <1>5, <1>6, <2>1 DEF RowsPut
    <2>3. Least(a.win, Len(list) - 1) = from
      BY <1>1, <2>1 DEF Least, from
    <2> QED
      BY <1>5, <2>1, <2>2, <2>3 DEF rows
  <1>7. \A f \in Fields \ {"rows", "win", "sel", "total", "dirty", "status"} : b[f] = a[f]
    BY <1>3, <1>4 DEF RowsPut, Fields
  <1>8. a.mode # "bloat" => rows = Slice(list, a.win, n)
    BY DEF rows, from
  <1> QED
    BY <1>3, <1>4, <1>5, <1>6, <1>7, <1>8 DEF RowsPut, list, n, b

\* The groups a scan finds are lists of files, and so are the entries made of
\* them and the dividers.
LEMMA GroupsType ==
    ASSUME uplan \in UiPlans, world.index \in SUBSET uplan.files
    PROVE  Groups \in Seq(Seq(uplan.files))
  <1> DEFINE n == Len(uplan.groupsOf)
             T == Seq(Seq(uplan.files))
             live(i) == Listed(uplan.groupsOf[i] \cap world.index)
             More(found, i) == IF Len(live(i)) > 1 THEN Append(found, live(i)) ELSE found
             G == [p \in T \X (1 .. n) |-> More(p[1], p[2])]
             Def(f) == f = [i \in 0 .. n |-> IF i = 0 THEN <<>> ELSE More(f[i - 1], i)]
             f == CHOOSE f : Def(f)
  <1>1. n \in Nat /\ uplan.groupsOf \in Seq(SUBSET uplan.files)
    <2>1. uplan.groupsOf \in Seq(SUBSET uplan.files)
      BY UiAssumption
    <2> QED
      BY <2>1, LenProperties
  <1>2. ASSUME NEW found \in T, NEW i \in 1 .. n
        PROVE  More(found, i) \in T
    <2>1. uplan.groupsOf[i] \in SUBSET uplan.files
      BY <1>1
    <2>2. uplan.groupsOf[i] \cap world.index \in SUBSET uplan.files
      BY <2>1
    <2>3. live(i) \in Seq(uplan.files)
      BY <2>2, UiAssumption DEF Listed
    <2> HIDE DEF live
    <2>4. Append(found, live(i)) \in T
      BY <2>3, AppendProperties
    <2> QED
      BY <2>4
  <1>3. <<>> \in T
    OBVIOUS
  <1> HIDE DEF More, T, n
  <1>4. G \in [T \X (1 .. n) -> T]
    BY <1>2
  <1>5. \E g : Def(g)
    <2>1. PICK g : Recurs(g, n, T, <<>>, G)
      <3> HIDE DEF G
      <3> QED
        BY <1>1, <1>3, <1>4, RecursionSolved
    <2>2. ASSUME NEW i \in 1 .. n
          PROVE  g[i] = More(g[i - 1], i)
      <3>1. i - 1 \in 0 .. n
        BY <1>1
      <3>2. g[i - 1] \in T /\ g[i] = G[<<g[i - 1], i>>]
        <4> HIDE DEF G
        <4> QED
          BY <2>1, <3>1 DEF Recurs
      <3> QED
        BY <3>2
    <2>3. g[0] = <<>> /\ g = [i \in 0 .. n |-> g[i]]
      <3> HIDE DEF G
      <3> QED
        BY <2>1 DEF Recurs
    <2> HIDE DEF G
    <2>4. Def(g)
      <3>1. ASSUME NEW i \in 0 .. n
            PROVE  g[i] = IF i = 0 THEN <<>> ELSE More(g[i - 1], i)
        <4>1. i = 0 \/ (i # 0 /\ i \in 1 .. n)
          BY <1>1
        <4> QED
          BY <2>2, <2>3, <4>1, Zenon
      <3> QED
        BY <2>3, <3>1
    <2> QED
      BY <2>4
  <1>6. Def(f)
    <2> HIDE DEF Def
    <2> QED
      BY <1>5
  <1> HIDE DEF f, G
  <1>7. f[n] \in T
    <2>1. f[0] \in T
      BY <1>1, <1>3, <1>6
    <2>2. ASSUME NEW i \in 1 .. n, f[i - 1] \in T
          PROVE  f[i] \in T
      <3>1. f[i] = More(f[i - 1], i)
        BY <1>1, <1>6
      <3> QED
        BY <1>2, <2>2, <3>1
    <2> QED
      BY <1>1, <2>1, <2>2, StaysIn
  <1> QED
    BY <1>7, Zenon DEF Groups, f, n, T, More

\* Entries: the rows of the duplicates view.
LEMMA EntriesLength ==
    ASSUME NEW Files, NEW groups \in Seq(Seq(Files))
    PROVE  Len(Entries(groups)) \in Nat
  <1> DEFINE n == Len(groups)
             T == Seq(Files \cup {Absent})
             More(list, i) == list \o <<Absent>> \o groups[i]
             G == [p \in T \X (1 .. n) |-> More(p[1], p[2])]
             Def(f) == f = [i \in 0 .. n |-> IF i = 0 THEN <<>> ELSE More(f[i - 1], i)]
             f == CHOOSE f : Def(f)
  <1>1. n \in Nat
    OBVIOUS
  <1>2. ASSUME NEW list \in T, NEW i \in 1 .. n
        PROVE  More(list, i) \in T
    <2>1. <<Absent>> \in T
      OBVIOUS
    <2>2. groups[i] \in T
      <3>1. groups[i] \in Seq(Files)
        OBVIOUS
      <3> QED
        BY <3>1
    <2> DEFINE first == list \o <<Absent>>
    <2>3. first \in T
      BY <2>1, ConcatProperties
    <2> HIDE DEF first
    <2>4. first \o groups[i] \in T
      BY <2>2, <2>3, ConcatProperties
    <2> QED
      BY <2>4 DEF first
  <1>3. <<>> \in T
    OBVIOUS
  <1> HIDE DEF More, T, n
  <1>4. G \in [T \X (1 .. n) -> T]
    BY <1>2
  <1>5. \E g : Def(g)
    <2>1. PICK g : Recurs(g, n, T, <<>>, G)
      <3> HIDE DEF G
      <3> QED
        BY <1>1, <1>3, <1>4, RecursionSolved
    <2>2. ASSUME NEW i \in 1 .. n
          PROVE  g[i] = More(g[i - 1], i)
      <3>1. i - 1 \in 0 .. n
        BY <1>1
      <3>2. g[i - 1] \in T /\ g[i] = G[<<g[i - 1], i>>]
        <4> HIDE DEF G
        <4> QED
          BY <2>1, <3>1 DEF Recurs
      <3> QED
        BY <3>2
    <2>3. g[0] = <<>> /\ g = [i \in 0 .. n |-> g[i]]
      <3> HIDE DEF G
      <3> QED
        BY <2>1 DEF Recurs
    <2> HIDE DEF G
    <2>4. Def(g)
      <3>1. ASSUME NEW i \in 0 .. n
            PROVE  g[i] = IF i = 0 THEN <<>> ELSE More(g[i - 1], i)
        <4>1. i = 0 \/ (i # 0 /\ i \in 1 .. n)
          BY <1>1
        <4> QED
          BY <2>2, <2>3, <4>1, Zenon
      <3> QED
        BY <2>3, <3>1
    <2> QED
      BY <2>4
  <1>6. Def(f)
    <2> HIDE DEF Def
    <2> QED
      BY <1>5
  <1> HIDE DEF f, G
  <1>7. f[n] \in T
    <2>1. f[0] \in T
      BY <1>1, <1>3, <1>6
    <2>2. ASSUME NEW i \in 1 .. n, f[i - 1] \in T
          PROVE  f[i] \in T
      <3>1. f[i] = More(f[i - 1], i)
        BY <1>1, <1>6
      <3> QED
        BY <1>2, <2>2, <3>1
    <2> QED
      BY <1>1, <2>1, <2>2, StaysIn
  <1>8. Entries(groups) = f[n]
    BY Zenon DEF Entries, f, n, More
  <1> QED
    BY <1>7, <1>8 DEF T

\* window_dupes touches the cursor and what is shown.
LEMMA WindowDupesKeeps ==
    ASSUME NEW a, AppTypes(a), NEW visible
    PROVE  /\ AppTypes(WindowDupes(a, visible))
           /\ \A f \in Fields \ {"dupesWindow", "sel", "win", "total", "dirty"} : WindowDupes(a, visible)[f] = a[f]
  <1> DEFINE window == Slice(a.dupes, Least(a.win, Len(a.dupes)), Most(visible, 1))
             b == [a EXCEPT !.dupesWindow = window, !.total = Len(a.dupes), !.dirty = FALSE]
  <1>1. WindowDupes(a, visible) = Clamped(b)
    BY DEF WindowDupes
  <1> HIDE DEF window
  <1>2. /\ DOMAIN b = Fields /\ b.sel \in Nat /\ b.win \in Nat /\ b.total \in Nat /\ Len(b.dupes) \in Nat
        /\ \A f \in Fields \ {"dupesWindow", "total", "dirty"} : b[f] = a[f]
    BY DEF AppTypes, Fields
  <1> HIDE DEF b
  <1> QED
    BY <1>1, <1>2, ClampedKeeps

\* The records keep their shape, and lists hold files of the plan.
UiTypes ==
    /\ uplan \in UiPlans /\ AppTypes(app)
    /\ DOMAIN loop = {"pc", "visible", "fetched", "pending", "rested"}
    /\ loop.visible \in uplan.heights
    /\ DOMAIN world = {"disk", "index", "changes"}
    /\ world.index \in SUBSET uplan.files /\ world.disk \in SUBSET uplan.files
    /\ DOMAIN seen = {"dialog", "list", "about", "stepped", "opened", "failed"}
    /\ DOMAIN scan = {"pc", "groups"} /\ scan.groups \in Seq(Seq(uplan.files))

\* What a first Tab began, and where the terminal was opened from.
Kept ==
    /\ seen.stepped = app.pendingFile
    /\ app.pendingFile # Absent => app.mode = "search"
    /\ app.mode = "terminal" => app.cameFrom = seen.opened /\ app.cameFrom \notin {"none", "terminal"}

\* With nothing left to ask, what is in memory was fetched for the screen's height
\* and is the answer to the last question, which is the one on the screen.
Asking == app.dirty \/ loop.pending \/ seen.failed \/ app.mode \notin {"search", "bloat"}
Fresh ==
    /\ ~loop.pending => loop.visible = loop.fetched
    /\ ~Asking => /\ seen.about = About(app)
                  /\ app.rows # <<>> => /\ app.total # 0
                                        /\ app.rows = Slice(seen.list, app.win, Most(loop.visible, 1))

\* In a steady plan: the one list there is.
TheList == ListFor([mode |-> "search", query |-> <<>>, sort |-> "name", kind |-> "all", win |-> 0], 0)
SteadyApp(a) ==
    /\ a.mode \in {"search", "explore", "terminal"} /\ a.cameFrom \in {"none", "search", "explore"}
    /\ a.query = <<>> /\ a.sort = "name" /\ a.kind = "all"
    /\ a.total \in {0, Len(TheList)} /\ a.win <= a.sel /\ (a.total # 0 => a.sel < a.total)
SteadyRows ==
    ~Asking => /\ app.total = Len(TheList)
               /\ app.rows = Slice(TheList, app.win, Most(loop.visible, 1))
               /\ app.total # 0 => app.sel < app.win + loop.visible

UiInv == UiTypes /\ Kept /\ Fresh /\ (uplan.steady => SteadyApp(app) /\ SteadyRows)

\* A steady plan has no key that changes what is asked.
LEMMA NotSteady ==
    ASSUME uplan \in UiPlans, NEW g \in {"query", "tab", "views", "sort", "live"}, May(g)
    PROVE  ~uplan.steady
  BY UiAssumption DEF May

\* A steady plan has room for a row.
LEMMA HeightsAre ==
    ASSUME uplan \in UiPlans, NEW h \in uplan.heights
    PROVE  h \in Nat /\ (uplan.steady => h > 0)
  <1>1. h \in Nat
    BY UiAssumption
  <1>2. uplan.steady => 0 \notin uplan.heights
    BY UiAssumption, Zenon
  <1> QED
    BY <1>1, <1>2

\* What a key may make of the application.
KeyApp(a) ==
    /\ AppTypes(a)
    /\ a.mode = "terminal" => app.mode = "terminal" /\ a.cameFrom = app.cameFrom
    /\ uplan.steady => SteadyApp(a)

\* The fields of a view and its cursor.
ViewFields == {"mode", "cameFrom", "query", "sort", "kind", "sel", "win", "total", "dupes"}

\* A key that leaves view and cursor alone.
LEMMA ViewAlone ==
    ASSUME UiInv, NEW a, DOMAIN a = Fields, \A f \in ViewFields : a[f] = app[f]
    PROVE  KeyApp(a)
  BY DEF UiInv, UiTypes, KeyApp, AppTypes, SteadyApp, ViewFields

\* reset_scroll.
LEMMA ResetView ==
    ASSUME NEW a, DOMAIN a = Fields, a.total \in Nat, Len(a.dupes) \in Nat
    PROVE  /\ AppTypes(ResetScroll(a))
           /\ \A f \in Fields \ {"sel", "win", "dirty"} : ResetScroll(a)[f] = a[f]
  BY DEF ResetScroll, AppTypes, Fields

\* A key has the rows asked for again, and the lists it may have been about are
\* as they were.
LEMMA KeyStep ==
    ASSUME UiInv, NEW a, KeyApp(a), KeyTo(a),
           DOMAIN world' = DOMAIN world, world'.index = world.index, world'.disk \in SUBSET world.disk
    PROVE  UiInv'
  <1>1. /\ UNCHANGED <<uplan, scan>> /\ app' = [a EXCEPT !.pendingFile = Absent]
        /\ loop' = [loop EXCEPT !.pending = TRUE, !.rested = FALSE]
        /\ seen' = [seen EXCEPT !.stepped = Absent]
    BY DEF KeyTo
  <1>2. DOMAIN a = Fields
    BY DEF KeyApp, AppTypes
  <1>3. /\ DOMAIN app' = Fields /\ app'.pendingFile = Absent
        /\ \A f \in Fields \ {"pendingFile"} : app'[f] = a[f]
    BY <1>1, <1>2 DEF Fields
  <1>4. /\ DOMAIN loop' = DOMAIN loop /\ loop'.visible = loop.visible /\ loop'.pending = TRUE
        /\ DOMAIN seen' = DOMAIN seen /\ seen'.stepped = Absent /\ seen'.opened = seen.opened
    BY <1>1 DEF UiInv, UiTypes
  <1>5. AppTypes(app')
    BY <1>3 DEF KeyApp, AppTypes, Fields
  <1>6. UiTypes'
    BY <1>1, <1>4, <1>5 DEF UiInv, UiTypes, AppTypes
  <1>7. app'.mode = a.mode /\ app'.cameFrom = a.cameFrom
    BY <1>3 DEF Fields
  <1>8. Kept'
    BY <1>3, <1>4, <1>7 DEF KeyApp, UiInv, Kept
  <1>9. Fresh' /\ SteadyRows'
    BY <1>4 DEF Fresh, SteadyRows, Asking
  <1>10. TheList' = TheList
    BY <1>1 DEF TheList, ListFor, Listed, Includes, IsDir, Slice, Most, Least
  <1>11. uplan.steady => SteadyApp(app)'
    BY <1>3, <1>10 DEF KeyApp, SteadyApp, Fields
  <1> QED
    BY <1>1, <1>6, <1>8, <1>9, <1>11 DEF UiInv

\* What an action that is not KeyTo leaves to show: its view, and what is kept.
LEMMA AskingStep ==
    ASSUME UiInv, UNCHANGED <<uplan, scan, world>>, AppTypes(app'), loop'.pending = TRUE,
           DOMAIN loop' = DOMAIN loop, loop'.visible = loop.visible, DOMAIN seen' = DOMAIN seen,
           Kept', uplan.steady => SteadyApp(app')
    PROVE  UiInv'
  <1>1. UiTypes'
    BY DEF UiInv, UiTypes, AppTypes
  <1>2. Fresh' /\ SteadyRows'
    BY DEF Fresh, SteadyRows, Asking
  <1>3. TheList' = TheList
    BY DEF TheList, ListFor, Listed, Includes, IsDir, Slice, Most, Least
  <1>4. uplan.steady => SteadyApp(app)'
    BY <1>3 DEF SteadyApp
  <1> QED
    BY <1>1, <1>2, <1>4 DEF UiInv

\* Tab completes a selection; on a file it remembers it for the next Tab.
LEMMA TabKeeps == UiInv /\ TabKey => UiInv'
  <1> SUFFICES ASSUME UiInv, TabKey
               PROVE  UiInv'
    OBVIOUS
  <1> DEFINE text == CompleteSelection(app)
             row == Current(app)
             file == IF app.pendingFile # Absent \/ row = Absent \/ IsDir(row) THEN Absent ELSE row
             b == [app EXCEPT !.pendingFile = file]
  <1>0. AppTypes(app) /\ DOMAIN app = Fields /\ app.total \in Nat /\ Len(app.dupes) \in Nat
    BY DEF UiInv, UiTypes, AppTypes
  <1>1. /\ UNCHANGED <<uplan, scan, world>> /\ app' = Complete(app)
        /\ loop' = [loop EXCEPT !.pending = TRUE, !.rested = FALSE]
        /\ seen' = [seen EXCEPT !.stepped =
                     IF @ = Absent /\ app.mode = "search" /\ text # Absent /\ ~IsDir(row) THEN row ELSE Absent]
        /\ ~uplan.steady /\ app.mode # "terminal"
    BY NotSteady DEF TabKey, Listing, UiInv, UiTypes
  <1>2. /\ DOMAIN loop' = DOMAIN loop /\ loop'.visible = loop.visible /\ loop'.pending = TRUE
        /\ DOMAIN seen' = DOMAIN seen
        /\ seen'.stepped = IF seen.stepped = Absent /\ app.mode = "search" /\ text # Absent /\ ~IsDir(row)
                           THEN row ELSE Absent
    BY <1>1 DEF UiInv, UiTypes
  <1>3. app' = IF text = Absent THEN app ELSE SetQuery(b, text)
    BY <1>1 DEF Complete
  <1>4. /\ text # Absent => app.mode = "search" /\ (app.pendingFile = Absent => row # Absent)
        /\ app.mode = "search" /\ app.pendingFile # Absent => text = app.pendingFile
    BY DEF CompleteSelection
  <1> HIDE DEF text, row
  <1>5. /\ DOMAIN b = Fields /\ b.pendingFile = file /\ b.mode = app.mode
        /\ b.total = app.total /\ b.dupes = app.dupes /\ AppTypes(b)
    BY <1>0 DEF Fields, AppTypes
  <1> HIDE DEF b, file
  <1>6. text # Absent => AppTypes(app') /\ app'.pendingFile = file /\ app'.mode = app.mode
    <2> DEFINE c == [b EXCEPT !.query = text]
    <2>1. DOMAIN c = Fields /\ c.pendingFile = file /\ c.mode = app.mode /\ c.total = app.total /\ c.dupes = app.dupes
      BY <1>5 DEF Fields
    <2>2. SetQuery(b, text) = IF b.query = text THEN b ELSE ResetScroll(c)
      BY DEF SetQuery
    <2> HIDE DEF c
    <2>3. AppTypes(ResetScroll(c)) /\ ResetScroll(c).pendingFile = file /\ ResetScroll(c).mode = app.mode
      BY <1>0, <2>1, ResetView DEF Fields
    <2> QED
      BY <1>3, <1>5, <2>2, <2>3
  <1>7. AppTypes(app') /\ app'.mode = app.mode
    BY <1>0, <1>3, <1>6
  <1>8. seen'.stepped = app'.pendingFile
    <2>1. seen.stepped = app.pendingFile
      BY DEF UiInv, Kept
    <2>2. CASE text = Absent
      BY <1>2, <1>3, <1>4, <2>1, <2>2 DEF UiInv, Kept
    <2>3. CASE text # Absent
      BY <1>2, <1>4, <1>6, <2>1, <2>3 DEF file
    <2> QED
      BY <2>2, <2>3
  <1>9. Kept'
    <2>1. app'.pendingFile # Absent => app'.mode = "search"
      BY <1>3, <1>4, <1>6, <1>7 DEF UiInv, Kept
    <2> QED
      BY <1>1, <1>7, <1>8, <2>1 DEF Kept
  <1> QED
    BY <1>1, <1>2, <1>7, <1>9, AskingStep

\* The terminal remembers the view it was opened from.
LEMMA EnterTerminalKeeps ==
    ASSUME UiInv, EnterTerminal, ~KeyTo([app EXCEPT !.status = "error"])
    PROVE  UiInv'
  <1>0. AppTypes(app) /\ DOMAIN app = Fields
    BY DEF UiInv, UiTypes, AppTypes
  <1>1. /\ UNCHANGED <<uplan, scan, world>> /\ app.mode \in {"search", "bloat", "dupes", "explore"}
        /\ app' = [app EXCEPT !.pendingFile = Absent, !.cameFrom = app.mode,
                              !.terminal = TRUE, !.mode = "terminal", !.status = ""]
        /\ loop' = [loop EXCEPT !.pending = TRUE, !.rested = FALSE]
        /\ seen' = [seen EXCEPT !.stepped = Absent, !.opened = app.mode]
    BY DEF EnterTerminal, Listing
  <1>2. /\ DOMAIN loop' = DOMAIN loop /\ loop'.visible = loop.visible /\ loop'.pending = TRUE
        /\ DOMAIN seen' = DOMAIN seen /\ seen'.stepped = Absent /\ seen'.opened = app.mode
    BY <1>1 DEF UiInv, UiTypes
  <1>3. /\ DOMAIN app' = Fields /\ app'.pendingFile = Absent /\ app'.cameFrom = app.mode /\ app'.mode = "terminal"
        /\ \A f \in ViewFields \ {"mode", "cameFrom"} : app'[f] = app[f]
    BY <1>0, <1>1 DEF Fields, ViewFields
  <1>4. AppTypes(app')
    BY <1>0, <1>3 DEF AppTypes, ViewFields
  <1>5. Kept'
    BY <1>1, <1>2, <1>3 DEF Kept
  <1>6. uplan.steady => SteadyApp(app')
    BY <1>1, <1>3 DEF UiInv, SteadyApp, ViewFields
  <1> QED
    BY <1>1, <1>2, <1>4, <1>5, <1>6, AskingStep

\* One step per kind of key.
LEMMA KeysKeep == UiInv /\ KeyPress => UiInv'
  <1> SUFFICES ASSUME UiInv, KeyPress
               PROVE  UiInv'
    OBVIOUS
  <1>0. /\ uplan \in UiPlans /\ AppTypes(app) /\ DOMAIN app = Fields /\ app.total \in Nat /\ Len(app.dupes) \in Nat
        /\ DOMAIN world = {"disk", "index", "changes"} /\ loop.visible \in uplan.heights
    BY DEF UiInv, UiTypes, AppTypes
  <1>v. loop.visible \in Nat
    BY <1>0, HeightsAre
  <1>w. ASSUME UNCHANGED world
        PROVE  DOMAIN world' = DOMAIN world /\ world'.index = world.index /\ world'.disk \in SUBSET world.disk
    BY <1>w
  \* What leaves the view alone.
  <1>a. ASSUME NEW a, DOMAIN a = Fields, \A f \in ViewFields : a[f] = app[f], KeyTo(a), UNCHANGED world
        PROVE  UiInv'
    <2>1. KeyApp(a)
      BY <1>a, ViewAlone
    <2> QED
      BY <1>a, <1>w, <2>1, KeyStep
  \* What goes to the tree or back from it.
  <1>m. ASSUME NEW a, DOMAIN a = Fields, a.mode \in {"search", "explore"},
               \A f \in ViewFields \ {"mode"} : a[f] = app[f], KeyTo(a), UNCHANGED world
        PROVE  UiInv'
    <2>1. AppTypes(a)
      BY <1>m DEF UiInv, UiTypes, AppTypes, ViewFields
    <2>2. uplan.steady => SteadyApp(a)
      BY <1>m DEF UiInv, SteadyApp, ViewFields
    <2>3. KeyApp(a)
      BY <1>m, <2>1, <2>2 DEF KeyApp
    <2> QED
      BY <1>m, <1>w, <2>3, KeyStep
  \* What shows another list, at its top.
  <1>r. ASSUME NEW a, DOMAIN a = Fields, a.total = app.total, a.dupes = app.dupes, a.mode # "terminal",
               ~uplan.steady, KeyTo(ResetScroll(a)), UNCHANGED world
        PROVE  UiInv'
    <2>1. AppTypes(ResetScroll(a)) /\ ResetScroll(a).mode = a.mode
      BY <1>0, <1>r, ResetView DEF Fields
    <2>2. KeyApp(ResetScroll(a))
      BY <1>r, <2>1 DEF KeyApp
    <2> QED
      BY <1>r, <1>w, <2>2, KeyStep
  <1>1. CASE QueryKey
    <2>1. ~uplan.steady /\ app.mode # "terminal" /\ UNCHANGED world
      BY <1>0, <1>1, NotSteady DEF QueryKey, Listing
    <2>2. PICK q : KeyTo(ResetScroll([app EXCEPT !.query = q]))
      BY <1>1 DEF QueryKey
    <2> DEFINE a == [app EXCEPT !.query = q]
    <2>3. DOMAIN a = Fields /\ a.total = app.total /\ a.dupes = app.dupes /\ a.mode = app.mode
      BY <1>0 DEF Fields
    <2>4. KeyTo(ResetScroll(a))
      BY <2>2
    <2> HIDE DEF a
    <2> QED
      BY <1>r, <2>1, <2>3, <2>4
  <1>2. CASE MoveKeys
    <2>1. /\ app.mode # "terminal" /\ UNCHANGED world
          /\ \E a \in {GoFirst(app, loop.visible), GoLast(app, loop.visible)} \cup
                    {MoveSelection(app, d, loop.visible) : d \in {-1, 1, -loop.visible, loop.visible}} : KeyTo(a)
      BY <1>2 DEF MoveKeys, Listing
    <2>2. PICK a : KeyTo(a) /\ Scrolled(app, a, loop.visible)
      <3>1. \A d \in {-1, 1, -loop.visible, loop.visible} : d \in Int
        BY <1>v
      <3> QED
        BY <1>0, <1>v, <2>1, <3>1, MovesAreScrolls
    <2>3. KeyApp(a)
      <3>1. a.mode = app.mode /\ a.cameFrom = app.cameFrom /\ a.query = app.query /\ a.sort = app.sort
            /\ a.kind = app.kind /\ a.total = app.total /\ AppTypes(a)
        BY <2>2 DEF Scrolled, Fields
      <3>2. uplan.steady => a.win <= a.sel /\ (a.total # 0 => a.sel < a.total)
        <4>1. uplan.steady => loop.visible > 0 /\ app.win <= app.sel
          BY <1>0, HeightsAre DEF UiInv, SteadyApp
        <4> QED
          BY <2>2, <3>1, <4>1 DEF Scrolled
      <3> QED
        BY <2>1, <3>1, <3>2 DEF KeyApp, UiInv, SteadyApp
    <2> QED
      BY <1>w, <2>1, <2>2, <2>3, KeyStep
  <1>3. CASE ViewKey
    <2>1. app.mode \in {"search", "bloat", "dupes"} /\ UNCHANGED world
      BY <1>3 DEF ViewKey, Listing
    <2>2. ~uplan.steady
      BY <1>0, <1>3, NotSteady DEF ViewKey
    <2>3. ASSUME NEW m, m # "terminal", KeyTo(ResetScroll([app EXCEPT !.mode = m]))
          PROVE  UiInv'
      <3> DEFINE a == [app EXCEPT !.mode = m]
      <3>1. DOMAIN a = Fields /\ a.total = app.total /\ a.dupes = app.dupes /\ a.mode = m
        BY <1>0 DEF Fields
      <3>2. KeyTo(ResetScroll(a))
        BY <2>3
      <3> HIDE DEF a
      <3> QED
        BY <1>r, <2>1, <2>2, <2>3, <3>1, <3>2
    <2>4. NextMode(app.mode) # "terminal" /\ (IF app.mode = "dupes" THEN "search" ELSE "dupes") # "terminal"
      BY <2>1 DEF NextMode
    <2>5. CASE KeyTo(ResetScroll([app EXCEPT !.mode = NextMode(@)]))
      BY <2>3, <2>4, <2>5
    <2>6. CASE KeyTo(ToggleDupes(app))
      BY <2>3, <2>4, <2>6 DEF ToggleDupes
    <2>7. CASE KeyTo(IF app.mode = "dupes" THEN [app EXCEPT !.dupesPending = TRUE] ELSE [app EXCEPT !.dirty = TRUE])
      <3> DEFINE a == IF app.mode = "dupes" THEN [app EXCEPT !.dupesPending = TRUE] ELSE [app EXCEPT !.dirty = TRUE]
      <3>1. DOMAIN a = Fields /\ \A f \in ViewFields : a[f] = app[f]
        BY <1>0 DEF Fields, ViewFields
      <3>2. KeyTo(a)
        BY <2>7
      <3> HIDE DEF a
      <3> QED
        BY <1>a, <2>1, <3>1, <3>2
    <2>8. CASE KeyTo(ResetScroll([app EXCEPT !.sort = NextSort(@)]))
      <3> DEFINE a == [app EXCEPT !.sort = NextSort(@)]
      <3>1. DOMAIN a = Fields /\ a.total = app.total /\ a.dupes = app.dupes /\ a.mode = app.mode
        BY <1>0 DEF Fields
      <3>2. KeyTo(ResetScroll(a))
        BY <2>8
      <3> HIDE DEF a
      <3> QED
        BY <1>r, <2>1, <2>2, <3>1, <3>2
    <2>9. CASE KeyTo(ResetScroll([app EXCEPT !.kind = NextKind(@)]))
      <3> DEFINE a == [app EXCEPT !.kind = NextKind(@)]
      <3>1. DOMAIN a = Fields /\ a.total = app.total /\ a.dupes = app.dupes /\ a.mode = app.mode
        BY <1>0 DEF Fields
      <3>2. KeyTo(ResetScroll(a))
        BY <2>9
      <3> HIDE DEF a
      <3> QED
        BY <1>r, <2>1, <2>2, <3>1, <3>2
    <2>10. CASE KeyTo([app EXCEPT !.rail = ~@])
      <3> DEFINE a == [app EXCEPT !.rail = ~@]
      <3>1. DOMAIN a = Fields /\ \A f \in ViewFields : a[f] = app[f]
        BY <1>0 DEF Fields, ViewFields
      <3>2. KeyTo(a)
        BY <2>10
      <3> HIDE DEF a
      <3> QED
        BY <1>a, <2>1, <3>1, <3>2
    <2> QED
      BY <1>3, <2>5, <2>6, <2>7, <2>8, <2>9, <2>10 DEF ViewKey
  <1>4. CASE TabKey
    BY <1>4, TabKeeps
  <1>5. CASE ActKey
    <2>1. PICK ok, status : KeyTo([app EXCEPT !.quit = ok, !.status = status])
                            \/ KeyTo([app EXCEPT !.status = status])
      BY <1>5 DEF ActKey
    <2>2. UNCHANGED world
      BY <1>5 DEF ActKey
    <2> DEFINE a == [app EXCEPT !.quit = ok, !.status = status]
               b == [app EXCEPT !.status = status]
    <2>3. DOMAIN a = Fields /\ \A f \in ViewFields : a[f] = app[f]
      BY <1>0 DEF Fields, ViewFields
    <2>4. DOMAIN b = Fields /\ \A f \in ViewFields : b[f] = app[f]
      BY <1>0 DEF Fields, ViewFields
    <2>5. KeyTo(a) \/ KeyTo(b)
      BY <2>1
    <2> HIDE DEF a, b
    <2> QED
      BY <1>a, <2>2, <2>3, <2>4, <2>5
  <1>6. CASE AskDelete
    <2>1. PICK row, status : KeyTo([app EXCEPT !.confirmDelete = row, !.status = status])
      BY <1>6 DEF AskDelete
    <2>2. UNCHANGED world
      BY <1>6 DEF AskDelete
    <2> DEFINE a == [app EXCEPT !.confirmDelete = row, !.status = status]
    <2>3. DOMAIN a = Fields /\ \A f \in ViewFields : a[f] = app[f]
      BY <1>0 DEF Fields, ViewFields
    <2>4. KeyTo(a)
      BY <2>1
    <2> HIDE DEF a
    <2> QED
      BY <1>a, <2>2, <2>3, <2>4
  <1>7. CASE ConfirmDelete
    <2>1. PICK dirty, status : KeyTo([[app EXCEPT !.confirmDelete = Absent] EXCEPT !.dirty = dirty, !.status = status])
                               \/ KeyTo([[app EXCEPT !.confirmDelete = Absent] EXCEPT !.status = status])
      BY <1>7 DEF ConfirmDelete
    <2>2. DOMAIN world' = DOMAIN world /\ world'.index = world.index /\ world'.disk \in SUBSET world.disk
      BY <1>0, <1>7 DEF ConfirmDelete
    <2> DEFINE c == [app EXCEPT !.confirmDelete = Absent]
    <2>3. DOMAIN c = Fields /\ \A f \in ViewFields : c[f] = app[f]
      BY <1>0 DEF Fields, ViewFields
    <2> HIDE DEF c
    <2> DEFINE a == [c EXCEPT !.dirty = dirty, !.status = status]
               b == [c EXCEPT !.status = status]
    <2>4. DOMAIN a = Fields /\ \A f \in ViewFields : a[f] = app[f]
      BY <2>3 DEF Fields, ViewFields
    <2>5. DOMAIN b = Fields /\ \A f \in ViewFields : b[f] = app[f]
      BY <2>3 DEF Fields, ViewFields
    <2>6. KeyTo(a) \/ KeyTo(b)
      BY <2>1 DEF c
    <2> HIDE DEF a, b
    <2>7. KeyApp(a) /\ KeyApp(b)
      BY <2>4, <2>5, ViewAlone
    <2> QED
      BY <2>2, <2>6, <2>7, KeyStep
  <1>8. CASE CancelDelete
    <2> DEFINE a == [app EXCEPT !.confirmDelete = Absent, !.status = "cancelled"]
    <2>1. DOMAIN a = Fields /\ \A f \in ViewFields : a[f] = app[f]
      BY <1>0 DEF Fields, ViewFields
    <2>2. KeyTo(a) /\ UNCHANGED world
      BY <1>8 DEF CancelDelete
    <2> HIDE DEF a
    <2> QED
      BY <1>a, <2>1, <2>2
  <1>9. CASE OtherKeyWhileAsked
    <2>1. KeyTo(app) /\ UNCHANGED world
      BY <1>9 DEF OtherKeyWhileAsked
    <2> QED
      BY <1>0, <1>a, <2>1
  <1>10. CASE EnterTree
    <2> DEFINE a == [app EXCEPT !.explorer = <<Current(app)>>, !.mode = "explore", !.status = "", !.dirty = TRUE]
    <2>1. DOMAIN a = Fields /\ a.mode = "explore" /\ \A f \in ViewFields \ {"mode"} : a[f] = app[f]
      BY <1>0 DEF Fields, ViewFields
    <2>2. KeyTo(a) /\ UNCHANGED world
      BY <1>10 DEF EnterTree
    <2> HIDE DEF a
    <2> QED
      BY <1>m, <2>1, <2>2
  <1>11. CASE LeaveTree
    <2> DEFINE a == [app EXCEPT !.mode = "search", !.dirty = TRUE, !.status = ""]
    <2>1. DOMAIN a = Fields /\ a.mode = "search" /\ \A f \in ViewFields \ {"mode"} : a[f] = app[f]
      BY <1>0 DEF Fields, ViewFields
    <2>2. KeyTo(a) /\ UNCHANGED world
      BY <1>11 DEF LeaveTree
    <2> HIDE DEF a
    <2> QED
      BY <1>m, <2>1, <2>2
  <1>12. CASE EnterTerminal
    <2>1. CASE KeyTo([app EXCEPT !.status = "error"])
      <3> DEFINE a == [app EXCEPT !.status = "error"]
      <3>1. DOMAIN a = Fields /\ \A f \in ViewFields : a[f] = app[f]
        BY <1>0 DEF Fields, ViewFields
      <3>2. KeyTo(a) /\ UNCHANGED world
        BY <1>12, <2>1 DEF EnterTerminal
      <3> HIDE DEF a
      <3> QED
        BY <1>a, <3>1, <3>2
    <2>2. CASE ~KeyTo([app EXCEPT !.status = "error"])
      BY <1>12, <2>2, EnterTerminalKeeps
    <2> QED
      BY <2>1, <2>2
  <1>13. CASE LeaveTerminal
    <2> DEFINE mode == IF app.cameFrom = "none" THEN "search" ELSE app.cameFrom
               a == [app EXCEPT !.terminal = FALSE, !.dirty = TRUE, !.status = "", !.cameFrom = "none", !.mode = mode]
    <2>1. app.mode = "terminal" /\ UNCHANGED world /\ KeyTo(a)
      BY <1>13 DEF LeaveTerminal
    <2>2. mode = app.cameFrom /\ mode # "terminal"
      BY <2>1 DEF UiInv, Kept
    <2> HIDE DEF mode
    <2>3. DOMAIN a = Fields /\ a.mode = mode /\ a.cameFrom = "none"
          /\ \A f \in ViewFields \ {"mode", "cameFrom"} : a[f] = app[f]
      BY <1>0 DEF Fields, ViewFields
    <2> HIDE DEF a
    <2>4. AppTypes(a)
      BY <2>3 DEF UiInv, UiTypes, AppTypes, ViewFields
    <2>5. uplan.steady => SteadyApp(a)
      BY <2>1, <2>2, <2>3 DEF UiInv, Kept, SteadyApp, ViewFields
    <2>6. KeyApp(a)
      BY <2>2, <2>3, <2>4, <2>5 DEF KeyApp
    <2> QED
      BY <1>w, <2>1, <2>6, KeyStep
  <1>14. CASE QuitKey
    <2> DEFINE a == [app EXCEPT !.quit = TRUE]
    <2>1. DOMAIN a = Fields /\ \A f \in ViewFields : a[f] = app[f]
      BY <1>0 DEF Fields, ViewFields
    <2>2. KeyTo(a) /\ UNCHANGED world
      BY <1>14 DEF QuitKey
    <2> HIDE DEF a
    <2> QED
      BY <1>a, <2>1, <2>2
  <1> QED
    BY <1>1, <1>2, <1>3, <1>4, <1>5, <1>6, <1>7, <1>8, <1>9, <1>10, <1>11, <1>12, <1>13, <1>14 DEF KeyPress

\* A scan that landed: another view's cursor and rows are as they were.
LEMMA ApplyDupesKeeps ==
    ASSUME NEW a, AppTypes(a), NEW Files, NEW groups \in Seq(Seq(Files)), NEW visible
    PROVE  LET b == ApplyDupes(a, groups, visible)
           IN  /\ AppTypes(b)
               /\ \A f \in Fields \ {"rows", "dupes", "dupesWindow", "dupesPending", "sel", "win", "total", "dirty"} :
                    b[f] = a[f]
               /\ a.mode # "dupes" => \A f \in Fields \ {"dupes", "dupesPending"} : b[f] = a[f]
  <1> DEFINE entries == Entries(groups)
             b == [a EXCEPT !.dupes = entries, !.dupesPending = FALSE]
  <1>1. Len(entries) \in Nat
    BY EntriesLength
  <1> HIDE DEF entries
  <1>2. /\ AppTypes(b) /\ DOMAIN b = Fields /\ b.mode = a.mode
        /\ \A f \in Fields \ {"dupes", "dupesPending"} : b[f] = a[f]
    BY <1>1 DEF AppTypes, Fields
  <1>3. ApplyDupes(a, groups, visible) = IF a.mode = "dupes" THEN WindowDupes(b, visible) ELSE b
    BY <1>2 DEF ApplyDupes, entries
  <1> HIDE DEF b
  <1>4. AppTypes(WindowDupes(b, visible))
        /\ \A f \in Fields \ {"dupesWindow", "sel", "win", "total", "dirty"} : WindowDupes(b, visible)[f] = b[f]
    BY <1>2, WindowDupesKeeps
  <1> QED
    BY <1>2, <1>3, <1>4 DEF Fields

\* A frame puts the groups a scan landed, then the height of the list.
LEMMA FrameKeeps == UiInv /\ Frame => UiInv'
  <1> SUFFICES ASSUME UiInv, Frame
               PROVE  UiInv'
    OBVIOUS
  <1>0. AppTypes(app) /\ DOMAIN app = Fields /\ DOMAIN scan = {"pc", "groups"} /\ scan.groups \in Seq(Seq(uplan.files))
    BY DEF UiInv, UiTypes, AppTypes
  <1>1. PICK h \in uplan.heights :
           /\ loop' = [loop EXCEPT !.pc = "keys", !.visible = h, !.pending = @ \/ h # loop.fetched]
           /\ app' = CASE scan.pc = "answered" -> [ApplyDupes(app, scan.groups, h) EXCEPT !.status = ""]
                     [] scan.pc = "failed" -> [app EXCEPT !.status = "error", !.dupesPending = TRUE]
                     [] scan.pc = "died" -> [app EXCEPT !.status = "error", !.dupesPending = FALSE]
                     [] OTHER -> app
    BY DEF Frame, UiInv, UiTypes
  <1>2. /\ UNCHANGED <<uplan, world>>
        /\ scan' = IF scan.pc = "running" THEN scan ELSE [pc |-> "none", groups |-> <<>>]
        /\ seen' = [seen EXCEPT !.dialog = app.confirmDelete]
    BY DEF Frame
  <1>3. /\ DOMAIN loop' = DOMAIN loop /\ loop'.visible = h /\ loop'.fetched = loop.fetched
        /\ ~loop'.pending => ~loop.pending /\ h = loop.fetched
    BY <1>1 DEF UiInv, UiTypes
  <1>4. /\ DOMAIN seen' = DOMAIN seen /\ seen'.stepped = seen.stepped /\ seen'.opened = seen.opened
        /\ seen'.about = seen.about /\ seen'.list = seen.list /\ seen'.failed = seen.failed
    BY <1>2 DEF UiInv, UiTypes
  <1>5. DOMAIN scan' = DOMAIN scan /\ scan'.groups \in Seq(Seq(uplan.files))
    <2>1. <<>> \in Seq(Seq(uplan.files))
      OBVIOUS
    <2>2. DOMAIN [pc |-> "none", groups |-> <<>>] = {"pc", "groups"} /\ [pc |-> "none", groups |-> <<>>].groups = <<>>
      OBVIOUS
    <2> QED
      BY <1>0, <1>2, <2>1, <2>2, Zenon
  <1>6. /\ AppTypes(app')
        /\ \A f \in {"mode", "query", "sort", "kind", "pendingFile", "cameFrom"} : app'[f] = app[f]
        /\ app.mode # "dupes" => \A f \in {"rows", "win", "sel", "total", "dirty"} : app'[f] = app[f]
    <2> DEFINE b == ApplyDupes(app, scan.groups, h)
    <2>1. CASE scan.pc = "answered"
      <3>1. app' = [b EXCEPT !.status = ""]
        BY <1>1, <2>1
      <3>2. /\ AppTypes(b)
            /\ \A f \in Fields \ {"rows", "dupes", "dupesWindow", "dupesPending", "sel", "win", "total", "dirty"} :
                 b[f] = app[f]
            /\ app.mode # "dupes" => \A f \in Fields \ {"dupes", "dupesPending"} : b[f] = app[f]
        BY <1>0, ApplyDupesKeeps
      <3> HIDE DEF b
      <3>3. DOMAIN app' = Fields /\ \A f \in Fields \ {"status"} : app'[f] = b[f]
        BY <3>1, <3>2 DEF AppTypes, Fields
      <3>4. AppTypes(app')
        BY <3>2, <3>3 DEF AppTypes, Fields
      <3> QED
        BY <3>2, <3>3, <3>4 DEF Fields
    <2>2. CASE scan.pc # "answered"
      <3>1. DOMAIN app' = Fields /\ \A f \in Fields \ {"status", "dupesPending"} : app'[f] = app[f]
        BY <1>0, <1>1, <2>2 DEF Fields
      <3> QED
        BY <1>0, <3>1 DEF AppTypes, Fields
    <2> QED
      BY <2>1, <2>2
  <1>7. UiTypes'
    BY <1>2, <1>3, <1>4, <1>5, <1>6 DEF UiInv, UiTypes, AppTypes
  <1>8. Kept'
    BY <1>4, <1>6 DEF UiInv, Kept
  <1>9. TheList' = TheList
    BY <1>2 DEF TheList, ListFor, Listed, Includes, IsDir, Slice, Most, Least
  <1>10. ASSUME ~Asking'
         PROVE  ~Asking /\ loop'.visible = loop.visible /\ app.mode # "dupes" /\ About(app') = About(app)
    BY <1>3, <1>4, <1>6, <1>10 DEF Asking, About, UiInv, Fresh
  <1>11. Fresh'
    <2>1. ~loop'.pending => loop'.visible = loop'.fetched
      BY <1>3
    <2>2. ASSUME ~Asking'
          PROVE  /\ seen'.about = About(app')
                 /\ app'.rows # <<>> => app'.total # 0 /\ app'.rows = Slice(seen'.list, app'.win, Most(loop'.visible, 1))
      BY <1>4, <1>6, <1>10, <2>2 DEF UiInv, Fresh
    <2> QED
      BY <2>1, <2>2 DEF Fresh, About, Slice, Most, Least
  <1>12. uplan.steady => SteadyApp(app)' /\ SteadyRows'
    <2>1. ASSUME uplan.steady
          PROVE  SteadyApp(app)' /\ app.mode # "dupes"
      BY <1>6, <1>9, <2>1 DEF UiInv, SteadyApp
    <2>2. ASSUME uplan.steady, ~Asking'
          PROVE  /\ app'.total = Len(TheList)
                 /\ app'.rows = Slice(TheList, app'.win, Most(loop'.visible, 1))
                 /\ app'.total # 0 => app'.sel < app'.win + loop'.visible
      BY <1>6, <1>10, <2>1, <2>2 DEF UiInv, SteadyRows
    <2> QED
      BY <1>9, <2>1, <2>2 DEF SteadyRows, Slice, Most, Least
  <1> QED
    BY <1>2, <1>7, <1>8, <1>11, <1>12 DEF UiInv

\* The wheel scrolls with no key and no refresh.
LEMMA WheelKeeps == UiInv /\ Wheel => UiInv'
  <1> SUFFICES ASSUME UiInv, Wheel
               PROVE  UiInv'
    OBVIOUS
  <1>0. AppTypes(app) /\ loop.visible \in Nat /\ (uplan.steady => loop.visible > 0)
    BY HeightsAre DEF UiInv, UiTypes
  <1>1. UNCHANGED <<uplan, loop, scan, world, seen>> /\ Scrolled(app, app', loop.visible)
    <2>1. \A d \in {-3, 3} : d \in Int
      OBVIOUS
    <2> QED
      BY <1>0, <2>1, MovesAreScrolls DEF Wheel
  <1>2. /\ AppTypes(app') /\ app'.mode = app.mode /\ app'.cameFrom = app.cameFrom /\ app'.query = app.query
        /\ app'.sort = app.sort /\ app'.kind = app.kind /\ app'.pendingFile = app.pendingFile
        /\ app'.rows = app.rows /\ app'.total = app.total
    BY <1>1 DEF Scrolled, Fields
  <1>3. ~app'.dirty => ~app.dirty /\ app'.win = app.win
    BY <1>1 DEF Scrolled
  <1>4. UiTypes' /\ Kept'
    BY <1>1, <1>2 DEF UiInv, UiTypes, Kept, AppTypes
  <1>5. TheList' = TheList
    BY <1>1 DEF TheList, ListFor, Listed, Includes, IsDir, Slice, Most, Least
  <1>6. Fresh'
    <2>1. ASSUME ~Asking'
          PROVE  /\ seen'.about = About(app')
                 /\ app'.rows # <<>> => app'.total # 0 /\ app'.rows = Slice(seen'.list, app'.win, Most(loop'.visible, 1))
      <3>1. ~Asking /\ ~app'.dirty
        BY <1>1, <1>2, <1>3, <2>1 DEF Asking
      <3> QED
        BY <1>1, <1>2, <1>3, <3>1 DEF UiInv, Fresh, About
    <2> QED
      BY <1>1, <2>1 DEF UiInv, Fresh, About, Slice, Most, Least
  <1>7. ASSUME uplan.steady
        PROVE  SteadyApp(app)' /\ SteadyRows'
    <2>1. SteadyApp(app) /\ SteadyRows
      BY <1>7 DEF UiInv
    <2>2. app'.win <= app'.sel /\ (app'.total # 0 => app'.sel < app'.total)
      BY <1>0, <1>1, <1>2, <1>7, <2>1 DEF Scrolled, SteadyApp, AppTypes
    <2>3. SteadyApp(app)'
      BY <1>2, <1>5, <2>1, <2>2 DEF SteadyApp
    <2>4. ASSUME ~Asking'
          PROVE  /\ app'.total = Len(TheList)
                 /\ app'.rows = Slice(TheList, app'.win, Most(loop'.visible, 1))
                 /\ app'.total # 0 => app'.sel < app'.win + loop'.visible
      <3>1. ~Asking /\ ~app'.dirty
        BY <1>1, <1>2, <1>3, <2>4 DEF Asking
      <3>2. app'.total # 0 => app'.sel < app'.win + loop'.visible
        BY <1>0, <1>1, <1>2, <1>7 DEF Scrolled
      <3> QED
        BY <1>1, <1>2, <1>3, <2>1, <3>1, <3>2 DEF SteadyRows
    <2>5. SteadyRows'
      BY <1>5, <2>4 DEF SteadyRows, Slice, Most, Least
    <2> QED
      BY <2>3, <2>5
  <1> QED
    BY <1>1, <1>4, <1>6, <1>7 DEF UiInv

\* Steps of the loop that read no key and ask nothing; of the worker; of others.
LEMMA QuietKeeps ==
    ASSUME UiInv, UNCHANGED <<uplan, app, seen>>,
           loop' = loop \/ \E pc, rested : loop' = [loop EXCEPT !.pc = pc, !.rested = rested],
           DOMAIN world' = DOMAIN world, world'.disk \in SUBSET uplan.files, world'.index \in SUBSET uplan.files,
           uplan.steady => world'.index = world.index,
           DOMAIN scan' = DOMAIN scan, scan'.groups \in Seq(Seq(uplan.files))
    PROVE  UiInv'
  <1>1. /\ DOMAIN loop' = DOMAIN loop /\ loop'.visible = loop.visible /\ loop'.fetched = loop.fetched
        /\ loop'.pending = loop.pending
    BY DEF UiInv, UiTypes
  <1>2. UiTypes' /\ Kept' /\ Fresh'
    BY <1>1 DEF UiInv, UiTypes, Kept, Fresh, AppTypes, Asking, About, Slice, Most, Least
  <1>3. ASSUME uplan.steady
        PROVE  SteadyApp(app)' /\ SteadyRows'
    <2>1. TheList' = TheList
      BY <1>3 DEF TheList, ListFor, Listed, Includes, IsDir, Slice, Most, Least
    <2> QED
      BY <1>1, <1>3, <2>1 DEF UiInv, SteadyApp, SteadyRows, Asking, Slice, Most, Least
  <1> QED
    BY <1>2, <1>3 DEF UiInv

\* The rest of the loop, the scanning thread, the files and the index.
LEMMA OtherUsesKeep ==
    ASSUME UiInv, Quitting \/ StillTyping \/ ScanAnswers \/ FileGoes \/ IndexFollows \/ UNCHANGED uiVars
    PROVE  UiInv'
  <1>0. /\ DOMAIN world = {"disk", "index", "changes"} /\ world.index \in SUBSET uplan.files
        /\ world.disk \in SUBSET uplan.files /\ uplan \in UiPlans
        /\ DOMAIN scan = {"pc", "groups"} /\ scan.groups \in Seq(Seq(uplan.files))
    BY DEF UiInv, UiTypes
  <1>1. CASE Quitting \/ StillTyping
    <2>1. UNCHANGED <<uplan, app, scan, world, seen>>
          /\ \E pc, rested : loop' = [loop EXCEPT !.pc = pc, !.rested = rested]
      <3>1. PICK pc : loop' = [loop EXCEPT !.pc = pc]
        BY <1>1 DEF Quitting, StillTyping
      <3>2. [loop EXCEPT !.pc = pc] = [loop EXCEPT !.pc = pc, !.rested = loop.rested]
        BY DEF UiInv, UiTypes
      <3> QED
        BY <1>1, <3>1, <3>2 DEF Quitting, StillTyping
    <2> QED
      BY <1>0, <2>1, QuietKeeps
  <1>2. CASE ScanAnswers
    <2>1. UNCHANGED <<uplan, app, loop, world, seen>> /\ DOMAIN scan' = DOMAIN scan
          /\ (scan'.groups = Groups \/ scan'.groups = scan.groups)
      BY <1>0, <1>2 DEF ScanAnswers
    <2> QED
      BY <1>0, <2>1, GroupsType, QuietKeeps
  <1>3. CASE FileGoes
    <2>1. UNCHANGED <<uplan, app, loop, scan, seen>> /\ DOMAIN world' = DOMAIN world
          /\ world'.index = world.index /\ world'.disk \in SUBSET uplan.files
      BY <1>0, <1>3 DEF FileGoes
    <2> QED
      BY <1>0, <2>1, QuietKeeps
  <1>4. CASE IndexFollows
    <2>1. UNCHANGED <<uplan, app, loop, scan, seen>> /\ DOMAIN world' = DOMAIN world
          /\ world'.index = world.disk /\ world'.disk = world.disk
      BY <1>0, <1>4 DEF IndexFollows
    <2>2. ~uplan.steady
      BY <1>0, <1>4, NotSteady DEF IndexFollows
    <2> QED
      BY <1>0, <2>1, <2>2, QuietKeeps
  <1>5. CASE UNCHANGED uiVars
    <2>1. UNCHANGED <<uplan, app, loop, scan, world, seen>>
      BY <1>5 DEF uiVars
    <2> QED
      BY <1>0, <2>1, QuietKeeps
  <1> QED
    BY <1>1, <1>2, <1>3, <1>4, <1>5

\* A refresh of a view that is no list asks nothing of the index.
LEMMA NoListKeeps ==
    ASSUME UiInv, UNCHANGED <<uplan, world, seen>>, AppTypes(app'),
           \A f \in {"mode", "query", "sort", "kind", "pendingFile", "cameFrom"} : app'[f] = app[f],
           app.mode \notin {"search", "bloat"},
           uplan.steady => \A f \in {"sel", "win", "total"} : app'[f] = app[f],
           DOMAIN loop' = DOMAIN loop, loop'.visible = loop.visible, loop'.fetched = loop.visible,
           DOMAIN scan' = DOMAIN scan, scan'.groups = scan.groups
    PROVE  UiInv'
  <1>1. UiTypes' /\ Kept'
    BY DEF UiInv, UiTypes, Kept, AppTypes
  <1>2. Fresh' /\ SteadyRows'
    BY DEF Fresh, SteadyRows, Asking
  <1>3. TheList' = TheList
    BY DEF TheList, ListFor, Listed, Includes, IsDir, Slice, Most, Least
  <1>4. uplan.steady => SteadyApp(app)'
    BY <1>3 DEF UiInv, SteadyApp
  <1> QED
    BY <1>1, <1>2, <1>4 DEF UiInv

\* A rested loop refreshes: list, duplicates, or nothing to ask.
LEMMA RestedKeeps == UiInv /\ Rested => UiInv'
  <1> SUFFICES ASSUME UiInv, Rested
               PROVE  UiInv'
    OBVIOUS
  <1> DEFINE v == loop.visible
  <1>0. /\ AppTypes(app) /\ DOMAIN app = Fields /\ v \in Nat /\ (uplan.steady => v > 0)
        /\ DOMAIN loop = {"pc", "visible", "fetched", "pending", "rested"}
        /\ DOMAIN world = {"disk", "index", "changes"} /\ world.index \in SUBSET uplan.files
        /\ world.disk \in SUBSET uplan.files /\ uplan \in UiPlans
        /\ DOMAIN scan = {"pc", "groups"} /\ scan.groups \in Seq(Seq(uplan.files))
        /\ DOMAIN seen = {"dialog", "list", "about", "stepped", "opened", "failed"}
    BY HeightsAre DEF UiInv, UiTypes, AppTypes
  <1>1. CASE ~(app.dirty \/ loop.pending)
    <2>1. UNCHANGED <<uplan, app, scan, world, seen>>
          /\ loop' = [loop EXCEPT !.pc = "frame", !.rested = TRUE]
      BY <1>1 DEF Rested
    <2> QED
      BY <1>0, <2>1, QuietKeeps
  <1>2. CASE app.dirty \/ loop.pending
    <2>1. /\ UNCHANGED <<uplan, world>> /\ Refresh
          /\ loop' = [loop EXCEPT !.pc = "frame", !.rested = TRUE, !.pending = FALSE, !.fetched = v]
      BY <1>2 DEF Rested
    <2>2. DOMAIN loop' = DOMAIN loop /\ loop'.visible = v /\ loop'.fetched = v /\ loop'.pending = FALSE
      BY <1>0, <2>1
    <2>3. ASSUME app.mode \in {"terminal", "explore"} \/ (app.mode = "dupes" /\ app.dupesPending),
                 app' = [app EXCEPT !.dirty = FALSE], UNCHANGED seen,
                 DOMAIN scan' = DOMAIN scan, scan'.groups = scan.groups
          PROVE  UiInv'
      <3>1. DOMAIN app' = Fields /\ \A f \in Fields \ {"dirty"} : app'[f] = app[f]
        BY <1>0, <2>3 DEF Fields
      <3>2. AppTypes(app')
        BY <1>0, <3>1 DEF AppTypes, Fields
      <3>3. \A f \in {"mode", "query", "sort", "kind", "pendingFile", "cameFrom", "sel", "win", "total"} : app'[f] = app[f]
        BY <3>1 DEF Fields
      <3> QED
        BY <2>1, <2>2, <2>3, <3>2, <3>3, NoListKeeps
    <2>4. ASSUME app.mode = "dupes", app' = WindowDupes(app, v), UNCHANGED <<scan, seen>>
          PROVE  UiInv'
      <3> DEFINE b == WindowDupes(app, v)
      <3>0. AppTypes(b)
            /\ \A f \in Fields \ {"dupesWindow", "sel", "win", "total", "dirty"} : b[f] = app[f]
        BY <1>0, WindowDupesKeeps
      <3> HIDE DEF b
      <3>1. AppTypes(app')
            /\ \A f \in {"mode", "query", "sort", "kind", "pendingFile", "cameFrom"} : app'[f] = app[f]
        BY <2>4, <3>0 DEF Fields, b
      <3>2. ~uplan.steady
        BY <2>4 DEF UiInv, SteadyApp
      <3> QED
        BY <2>1, <2>2, <2>4, <3>1, <3>2, NoListKeeps
    <2>5. ASSUME app.mode \in {"search", "bloat"}, app' = AnswerRows(app, v), UNCHANGED scan,
                 seen' = [seen EXCEPT !.list = ListFor(app, v), !.about = About(app), !.failed = FALSE]
          PROVE  UiInv'
      <3> DEFINE list == ListFor(app, v)
      <3>1. /\ AppTypes(app')
            /\ \A f \in Fields \ {"rows", "win", "sel", "total", "dirty", "status"} : app'[f] = app[f]
            /\ ~app'.dirty /\ app'.rows # <<>> => app'.total # 0 /\ app'.rows = Slice(list, app'.win, Most(v, 1))
            /\ app.mode # "bloat" =>
                 /\ app'.total = Len(list) /\ app'.rows = Slice(list, app.win, Most(v, 1))
                 /\ app'.total # 0 => app'.sel = Least(app.sel, app'.total - 1)
                 /\ ~app'.dirty /\ app'.total # 0 =>
                      /\ app'.win = Least(app.win, app'.total - 1)
                      /\ v > 0 => app'.sel < app'.win + v
                 /\ app'.total # 0 /\ app.win <= app.sel => app'.win <= app'.sel
        BY <1>0, <2>5, AnswerRowsFetches
      <3>2. /\ DOMAIN seen' = DOMAIN seen /\ seen'.list = list /\ seen'.about = About(app)
            /\ seen'.stepped = seen.stepped /\ seen'.opened = seen.opened
        BY <1>0, <2>5
      <3>3. uplan.steady /\ app.mode = "search" => list = TheList
        BY DEF UiInv, SteadyApp, TheList, ListFor
      <3> HIDE DEF list
      <3>4. \A f \in {"mode", "query", "sort", "kind", "pendingFile", "cameFrom"} : app'[f] = app[f]
        BY <3>1 DEF Fields
      <3>5. UiTypes' /\ Kept'
        BY <2>1, <2>2, <2>5, <3>1, <3>2, <3>4 DEF UiInv, UiTypes, Kept, AppTypes
      <3>6. About(app') = About(app)
        BY <3>4 DEF About
      <3>7. Fresh'
        BY <2>2, <3>1, <3>2, <3>6 DEF Fresh, Asking, About, Slice, Most, Least
      <3>8. ASSUME uplan.steady
            PROVE  SteadyApp(app)' /\ SteadyRows'
        <4>1. SteadyApp(app) /\ app.mode = "search" /\ list = TheList
          BY <2>5, <3>3, <3>8 DEF UiInv, SteadyApp
        <4>2. TheList' = TheList
          BY <2>1 DEF TheList, ListFor, Listed, Includes, IsDir, Slice, Most, Least
        <4>3. Len(TheList) \in Nat
          <5>1. app.win \in Nat
            BY <1>0 DEF AppTypes
          <5>2. list \in Seq(uplan.files)
            BY <1>0, <5>1, AnswerType DEF list
          <5> QED
            BY <4>1, <5>2, LenProperties
        <4>4. app'.win <= app'.sel /\ (app'.total # 0 => app'.sel < app'.total)
          BY <1>0, <3>1, <4>1, <4>3 DEF SteadyApp, AppTypes, Least
        <4>5. SteadyApp(app)'
          BY <3>1, <3>4, <4>1, <4>2, <4>4 DEF SteadyApp
        <4>6. ~app'.dirty => app'.win = app.win
          BY <1>0, <3>1, <4>1, <4>3 DEF SteadyApp, AppTypes, Least
        <4>7. ~app'.dirty => /\ app'.total = Len(TheList)
                             /\ app'.rows = Slice(TheList, app'.win, Most(loop'.visible, 1))
                             /\ app'.total # 0 => app'.sel < app'.win + loop'.visible
          BY <1>0, <2>2, <3>1, <3>8, <4>1, <4>6
        <4>8. SteadyRows'
          BY <4>2, <4>7 DEF SteadyRows, Asking, Slice, Most, Least
        <4> QED
          BY <4>5, <4>8
      <3> QED
        BY <2>1, <3>5, <3>7, <3>8 DEF UiInv
    <2>6. ASSUME app.mode \in {"search", "bloat"}, UNCHANGED scan, seen' = [seen EXCEPT !.failed = TRUE],
                 app' = [ApplyRows(app, <<>>, 0, v) EXCEPT !.status = "error"]
          PROVE  UiInv'
      <3> DEFINE b == ApplyRows(app, <<>>, 0, v)
      <3>1. RowsPut(app, b, <<>>, 0, v)
        BY <1>0, ApplyRowsPuts
      <3>2. app' = [b EXCEPT !.status = "error"]
        BY <2>6
      <3> HIDE DEF b
      <3>3. DOMAIN app' = Fields /\ \A f \in Fields \ {"status"} : app'[f] = b[f]
        BY <3>1, <3>2 DEF RowsPut, AppTypes, Fields
      <3>4. AppTypes(app') /\ app'.total = 0
            /\ \A f \in {"mode", "query", "sort", "kind", "pendingFile", "cameFrom"} : app'[f] = app[f]
        BY <3>1, <3>3 DEF RowsPut, AppTypes, Fields
      <3>5. /\ DOMAIN seen' = DOMAIN seen /\ seen'.failed = TRUE
            /\ seen'.stepped = seen.stepped /\ seen'.opened = seen.opened
        BY <1>0, <2>6
      <3>6. UiTypes' /\ Kept'
        BY <2>1, <2>2, <2>6, <3>4, <3>5 DEF UiInv, UiTypes, Kept, AppTypes
      <3>7. Fresh' /\ SteadyRows'
        BY <2>2, <3>5 DEF Fresh, SteadyRows, Asking
      <3>8. uplan.steady => SteadyApp(app)'
        BY <3>4 DEF UiInv, SteadyApp, AppTypes
      <3> QED
        BY <2>1, <3>6, <3>7, <3>8 DEF UiInv
    <2>7. \/ /\ app.mode \in {"terminal", "explore"} \/ (app.mode = "dupes" /\ app.dupesPending)
             /\ app' = [app EXCEPT !.dirty = FALSE] /\ UNCHANGED seen
             /\ DOMAIN scan' = DOMAIN scan /\ scan'.groups = scan.groups
          \/ app.mode = "dupes" /\ app' = WindowDupes(app, v) /\ UNCHANGED <<scan, seen>>
          \/ /\ app.mode \in {"search", "bloat"} /\ app' = AnswerRows(app, v) /\ UNCHANGED scan
             /\ seen' = [seen EXCEPT !.list = ListFor(app, v), !.about = About(app), !.failed = FALSE]
          \/ /\ app.mode \in {"search", "bloat"} /\ UNCHANGED scan /\ seen' = [seen EXCEPT !.failed = TRUE]
             /\ app' = [ApplyRows(app, <<>>, 0, v) EXCEPT !.status = "error"]
      <3>1. scan' = (IF scan.pc = "none" THEN [scan EXCEPT !.pc = "running"] ELSE scan) \/ scan' = scan
            => DOMAIN scan' = DOMAIN scan /\ scan'.groups = scan.groups
        BY <1>0
      <3> QED
        BY <2>1, <3>1, Zenon DEF Refresh
    <2> QED
      BY <2>3, <2>4, <2>5, <2>6, <2>7
  <1> QED
    BY <1>1, <1>2

\* Every step keeps the invariant.
LEMMA UiStep == UiInv /\ [UiNext]_uiVars => UiInv'
  BY FrameKeeps, RestedKeeps, WheelKeeps, KeysKeep, OtherUsesKeep DEF UiNext

\* The first frame: an empty list and everything to ask.
LEMMA UiStart == UiInit => UiInv
  <1> SUFFICES ASSUME UiInit
               PROVE  UiInv
    OBVIOUS
  <1>1. PICK h \in uplan.heights :
           loop = [pc |-> "frame", visible |-> h, fetched |-> -1, pending |-> TRUE, rested |-> TRUE]
    BY DEF UiInit
  <1>2. AppTypes(app)
    BY DEF UiInit, NewApp, AppTypes, Fields
  <1>3. UiTypes
    BY <1>1, <1>2 DEF UiInit, UiTypes, AppTypes
  <1>4. Kept /\ Fresh /\ SteadyRows
    BY <1>1 DEF UiInit, NewApp, Kept, Fresh, SteadyRows, Asking
  <1>5. SteadyApp(app)
    <2>1. /\ app.mode = "search" /\ app.cameFrom = "none" /\ app.query = <<>> /\ app.sort = "name"
          /\ app.kind = "all" /\ app.sel = 0 /\ app.win = 0 /\ app.total = 0
      BY DEF UiInit, NewApp
    <2> QED
      BY <2>1 DEF SteadyApp
  <1> QED
    BY <1>3, <1>4, <1>5 DEF UiInv

\* A row of the list at the place scrolled to is a file.
LEMMA RowOnScreen ==
    ASSUME UiInv, uplan.steady, ~Asking, app.total > 0
    PROVE  Current(app) # Absent
  <1> DEFINE i == app.sel - app.win + 1
             n == Most(loop.visible, 1)
  <1>1. /\ app.sel \in Nat /\ app.win \in Nat /\ app.win <= app.sel /\ app.sel < app.total
        /\ app.total = Len(TheList) /\ app.rows = Slice(TheList, app.win, n)
        /\ app.sel < app.win + loop.visible /\ app.mode = "search" /\ uplan \in UiPlans
        /\ world.index \in SUBSET uplan.files /\ loop.visible \in Nat
    BY HeightsAre DEF UiInv, UiTypes, AppTypes, SteadyApp, SteadyRows, Asking
  <1>2. TheList \in Seq(uplan.files) /\ Len(TheList) \in Nat
    <2> DEFINE wanting == [mode |-> "search", query |-> <<>>, sort |-> "name", kind |-> "all", win |-> 0]
    <2>1. wanting.win \in Nat
      OBVIOUS
    <2> HIDE DEF wanting
    <2>2. ListFor(wanting, 0) \in Seq(uplan.files)
      BY <1>1, <2>1, AnswerType
    <2> QED
      BY <2>2, LenProperties DEF TheList, wanting
  <1>3. Least(app.win + n, Len(TheList)) \in Int /\ i \in 1 .. Least(app.win + n, Len(TheList)) - app.win
        /\ app.win + 1 \in Int /\ app.win + 1 <= Least(app.win + n, Len(TheList))
    BY <1>1, <1>2 DEF Least, Most
  <1> DEFINE to == Least(app.win + n, Len(TheList))
  <1>4. \A j \in app.win + 1 .. to : TheList[j] \in uplan.files
    BY <1>1, <1>2, <1>3 DEF Least
  <1>5. app.rows = SubSeq(TheList, app.win + 1, to)
    BY <1>1 DEF Slice
  <1> HIDE DEF to, n
  <1>6. /\ SubSeq(TheList, app.win + 1, to) \in Seq(uplan.files)
        /\ Len(SubSeq(TheList, app.win + 1, to)) = to - app.win
    <2>1. SubSeq(TheList, app.win + 1, to) \in Seq(uplan.files)
          /\ Len(SubSeq(TheList, app.win + 1, to)) = IF app.win + 1 <= to THEN to - (app.win + 1) + 1 ELSE 0
      BY <1>3, <1>4, SubSeqProperties DEF to, n
    <2> QED
      BY <1>1, <1>3, <2>1 DEF to, n
  <1>7. i \in DOMAIN app.rows /\ app.rows[i] \in uplan.files
    <2>1. i \in 1 .. Len(app.rows) /\ app.rows \in Seq(uplan.files)
      BY <1>3, <1>5, <1>6 DEF to, n
    <2> HIDE DEF i
    <2> QED
      BY <2>1
  <1>8. Current(app) = app.rows[i]
    BY <1>1, <1>7 DEF Current
  <1>9. <<>> \notin uplan.files
    BY <1>1, UiAssumption
  <1> QED
    BY <1>7, <1>8, <1>9 DEF Absent

\* The invariant is what the screen owes.
LEMMA UiInvRows == UiInv => RowsOfThisQuery
  <1> SUFFICES ASSUME UiInv, Settled
               PROVE  /\ seen.about = About(app)
                      /\ app.rows # <<>> => app.rows = Slice(seen.list, app.win, Most(loop.visible, 1))
                      /\ uplan.steady /\ app.total > 0 => Current(app) # Absent
    BY DEF RowsOfThisQuery
  <1>1. ~Asking
    BY DEF Settled, Asking
  <1> QED
    BY <1>1, RowOnScreen DEF UiInv, Fresh

\* mod.rs, app.rs: with nothing left to ask, the rows on the screen answer the
\* query, view, order and filter on the screen, at the place scrolled to.
THEOREM RowsAnswer == UiSpec => []RowsOfThisQuery
  <1>1. UiInit => UiInv
    BY UiStart
  <1>2. UiInv /\ [UiNext]_uiVars => UiInv'
    BY UiStep
  <1>3. UiInv => RowsOfThisQuery
    BY UiInvRows
  <1> QED
    BY <1>1, <1>2, <1>3, PTL DEF UiSpec

\* app.rs, mod.rs: keys and scans act on what was true when they began.
THEOREM KeysAct == UiSpec => ActsAsAsked
  <1> DEFINE Acts == ScanKeepsToItsView /\ SecondTabNamesFile /\ DeletesWhatWasAsked /\ TerminalUnwinds
  <1>1. ASSUME UiInv, [UiNext]_uiVars
        PROVE  Acts
    <2>0. /\ AppTypes(app) /\ DOMAIN app = Fields /\ DOMAIN world = {"disk", "index", "changes"}
          /\ scan.groups \in Seq(Seq(uplan.files))
      BY <1>1 DEF UiInv, UiTypes, AppTypes
    <2>1. ScanKeepsToItsView
      <3> SUFFICES ASSUME Frame, app.mode # "dupes"
                   PROVE  <<app'.rows, app'.win, app'.sel, app'.total>> = <<app.rows, app.win, app.sel, app.total>>
        BY DEF ScanKeepsToItsView
      <3>1. PICK h : app' = CASE scan.pc = "answered" -> [ApplyDupes(app, scan.groups, h) EXCEPT !.status = ""]
                     [] scan.pc = "failed" -> [app EXCEPT !.status = "error", !.dupesPending = TRUE]
                     [] scan.pc = "died" -> [app EXCEPT !.status = "error", !.dupesPending = FALSE]
                     [] OTHER -> app
        BY DEF Frame
      <3>2. CASE scan.pc = "answered"
        <4> DEFINE b == ApplyDupes(app, scan.groups, h)
        <4>1. AppTypes(b) /\ \A f \in Fields \ {"dupes", "dupesPending"} : b[f] = app[f]
          BY <2>0, ApplyDupesKeeps
        <4>2. app' = [b EXCEPT !.status = ""]
          BY <3>1, <3>2
        <4> HIDE DEF b
        <4> QED
          BY <4>1, <4>2 DEF AppTypes, Fields
      <3>3. CASE scan.pc # "answered"
        BY <2>0, <3>1, <3>3 DEF Fields
      <3> QED
        BY <3>2, <3>3
    <2>2. SecondTabNamesFile
      <3> SUFFICES ASSUME TabKey, seen.stepped # Absent
                   PROVE  app'.query = seen.stepped
        BY DEF SecondTabNamesFile
      <3> DEFINE text == CompleteSelection(app)
                 row == Current(app)
                 file == IF app.pendingFile # Absent \/ row = Absent \/ IsDir(row) THEN Absent ELSE row
                 b == [app EXCEPT !.pendingFile = file]
      <3>1. text = seen.stepped /\ text # Absent
        BY <1>1 DEF UiInv, Kept, CompleteSelection
      <3>2. app' = SetQuery(b, text)
        BY <3>1 DEF TabKey, Complete
      <3> HIDE DEF text, file
      <3>3. DOMAIN b = Fields
        BY <2>0
      <3> HIDE DEF b
      <3>4. app'.query = text
        BY <3>2, <3>3 DEF SetQuery, ResetScroll, Fields
      <3> QED
        BY <3>1, <3>4
    <2>3. DeletesWhatWasAsked
      <3> SUFFICES ASSUME ConfirmDelete, world'.disk # world.disk
                   PROVE  world.disk \ world'.disk = Removed(app.confirmDelete)
        BY DEF DeletesWhatWasAsked
      <3>1. world' = [world EXCEPT !.disk = @ \ Removed(app.confirmDelete)]
        BY DEF ConfirmDelete
      <3>2. Removed(app.confirmDelete) \subseteq world.disk
        BY DEF Removed
      <3> QED
        BY <2>0, <3>1, <3>2
    <2>4. TerminalUnwinds
      <3> SUFFICES ASSUME LeaveTerminal
                   PROVE  app'.mode = seen.opened
        BY DEF TerminalUnwinds
      <3> DEFINE mode == IF app.cameFrom = "none" THEN "search" ELSE app.cameFrom
                 a == [app EXCEPT !.terminal = FALSE, !.dirty = TRUE, !.status = "", !.cameFrom = "none", !.mode = mode]
      <3>1. app' = [a EXCEPT !.pendingFile = Absent] /\ app.mode = "terminal"
        BY DEF LeaveTerminal, KeyTo
      <3>2. mode = seen.opened
        BY <1>1, <3>1 DEF UiInv, Kept
      <3> HIDE DEF mode
      <3>3. DOMAIN a = Fields /\ a.mode = mode
        BY <2>0 DEF Fields
      <3> HIDE DEF a
      <3> QED
        BY <3>1, <3>2, <3>3 DEF Fields
    <2> QED
      BY <2>1, <2>2, <2>3, <2>4
  <1>2. UiInit => UiInv
    BY UiStart
  <1>3. UiInv /\ [UiNext]_uiVars => UiInv'
    BY UiStep
  <1>4. UiInv /\ [UiNext]_uiVars => [Acts]_uiVars
    BY <1>1
  <1> HIDE DEF Acts
  <1>5. UiSpec => [][Acts]_uiVars
    BY <1>2, <1>3, <1>4, PTL DEF UiSpec
  <1> QED
    BY <1>5 DEF ActsAsAsked, Acts

-----------------------------------------------------------------------------
\* The questions

Questions == DOMAIN Kind
\* An answer that suits its question.
Good(q, v) ==
  /\ q \in {"service", "task", "hotkey", "apply"} => v \in BOOLEAN
  /\ q = "minutes" => v \in Minutes
  /\ q = "drives" => v \subseteq Selectable /\ (Selectable # {} => v # {})
PromptTypes ==
  /\ drives \in DriveLists /\ asked \in Questions
  /\ phase \in {"asking", "planned", "declined", "cancelled", "failed"}
  /\ DOMAIN dlg = {"on", "draft", "cursor", "marks"} /\ dlg.on \in BOOLEAN
  /\ dlg.marks \subseteq Selectable /\ dlg.cursor \in Nat
  /\ asked = "drives" => dlg.cursor \in DOMAIN drives
  /\ \A q \in DOMAIN answers : Good(q, answers[q])

\* The questions answered are the ones the flow came past on the way to this one.
Came ==
  /\ "service" \in DOMAIN answers <=> asked # "service"
  /\ "task" \in DOMAIN answers <=> asked \notin {"service", "task"} /\ ~answers.service
  /\ "minutes" \in DOMAIN answers <=>
       asked \notin {"service", "task", "minutes"} /\ ~answers.service /\ answers.task
  /\ "drives" \in DOMAIN answers <=> asked \notin {"service", "task", "minutes", "drives"}
  /\ "data" \in DOMAIN answers <=> asked \in {"restrict", "ram", "hotkey", "combo", "path", "apply"}
  /\ "ram" \in DOMAIN answers <=> asked \in {"hotkey", "combo", "path", "apply"} /\ answers.service
  /\ "hotkey" \in DOMAIN answers <=> asked \in {"combo", "path", "apply"}
  /\ "combo" \in DOMAIN answers <=> asked \in {"path", "apply"} /\ answers.hotkey
  /\ "system" \in DOMAIN answers <=> asked \in {"data", "restrict", "ram", "hotkey", "combo", "path", "apply"}
  /\ "restrict" \in DOMAIN answers <=> asked \in {"ram", "hotkey", "combo", "path", "apply"}
  /\ "path" \in DOMAIN answers <=> asked = "apply"
  /\ "apply" \in DOMAIN answers <=> phase \in {"planned", "declined"}
  /\ phase \in {"planned", "declined"} => asked = "apply"
  /\ asked \in {"task", "minutes"} => ~answers.service
  /\ asked = "minutes" => answers.task
  /\ asked = "ram" => answers.service
  /\ asked = "combo" => answers.hotkey

PromptInv == PromptTypes /\ Came /\ ToldBeforeAsked

\* The first question is put with nothing answered.
LEMMA PromptStart == PromptInit => PromptInv
  <1> SUFFICES ASSUME PromptInit
               PROVE  PromptInv
    OBVIOUS
  <1>1. drives \in Seq(BOOLEAN) \ {<<>>}
    BY PromptAssumption DEF PromptInit
  <1>2. dlg = Dialog("service", drives) /\ asked = "service" /\ answers = <<>> /\ phase = "asking" /\ told = {}
    BY DEF PromptInit
  <1>3. dlg.on \in BOOLEAN /\ DOMAIN dlg = {"on", "draft", "cursor", "marks"} /\ dlg.marks = Selectable
        /\ dlg.cursor = 1
    BY <1>2 DEF Dialog, Selectable
  <1>4. PromptTypes
    BY <1>1, <1>2, <1>3 DEF PromptInit, PromptTypes, Questions, Kind, Good
  <1>5. Came
    BY <1>2 DEF Came
  <1>6. ToldBeforeAsked
    BY <1>2 DEF ToldBeforeAsked
  <1> QED
    BY <1>4, <1>5, <1>6 DEF PromptInv

\* A dialog as it opens.
LEMMA DialogOpens ==
    ASSUME drives \in Seq(BOOLEAN) \ {<<>>}, NEW q
    PROVE  LET d == Dialog(q, drives)
           IN  /\ DOMAIN d = {"on", "draft", "cursor", "marks"} /\ d.on \in BOOLEAN
               /\ d.marks = Selectable /\ d.cursor \in DOMAIN drives
  <1> DEFINE can == {i \in DOMAIN drives : drives[i]}
             first == IF q # "drives" \/ can = {} THEN 1 ELSE CHOOSE i \in can : \A j \in can : i <= j
             d == Dialog(q, drives)
  <1>1. first \in DOMAIN drives
    <2>1. CASE q # "drives" \/ can = {}
      BY <2>1
    <2>2. CASE ~(q # "drives" \/ can = {})
      <3>1. can \in SUBSET Nat /\ can # {}
        BY <2>2
      <3>2. \E i \in can : \A j \in can : i <= j
        BY <3>1, LeastOf
      <3> QED
        BY <2>2, <3>2
    <2> QED
      BY <2>1, <2>2
  <1>2. d = [on |-> q # "task", draft |-> <<>>, cursor |-> first, marks |-> can]
    BY DEF Dialog
  <1> HIDE DEF first
  <1> QED
    BY <1>1, <1>2 DEF Selectable

\* An answer that suits its question is recorded, and the flow goes on to the one
\* question that the answers so far make necessary.
LEMMA AnswerKeeps ==
    ASSUME PromptInv, phase = "asking", NEW v, Good(asked, v), Answer(v)
    PROVE  PromptInv'
  <1> DEFINE a == [q \in DOMAIN answers \cup {asked} |-> IF q = asked THEN v ELSE answers[q]]
  <1>0. /\ UNCHANGED <<face, drives>> /\ answers' = a /\ dlg' = Dialog(asked', drives)
        /\ told' = IF asked = "apply" THEN {} ELSE Notes(asked, a)
        /\ asked' = IF asked = "apply" THEN asked ELSE After(asked, a)
        /\ phase' = IF asked # "apply" THEN phase ELSE IF v THEN "planned" ELSE "declined"
    BY DEF Answer
  <1>1. asked \notin DOMAIN answers /\ asked \in Questions
    BY DEF PromptInv, PromptTypes, Came, Questions, Kind
  <1>2. /\ DOMAIN a = DOMAIN answers \cup {asked}
        /\ \A q \in DOMAIN answers : a[q] = answers[q]
    BY <1>1
  <1>3. a[asked] = v
    OBVIOUS
  <1> HIDE DEF a
  <1>4. \A q \in DOMAIN a : Good(q, a[q])
    BY <1>2, <1>3 DEF PromptInv, PromptTypes
  <1>5. asked' \in Questions
    BY <1>0, <1>1 DEF After, Questions, Kind
  <1>6. dlg'.on \in BOOLEAN /\ DOMAIN dlg' = {"on", "draft", "cursor", "marks"}
        /\ dlg'.marks \subseteq Selectable /\ dlg'.cursor \in DOMAIN drives
    <2>1. drives \in Seq(BOOLEAN) \ {<<>>}
      BY PromptAssumption DEF PromptInv, PromptTypes
    <2> QED
      BY <1>0, <2>1, DialogOpens
  <1>7. Selectable' = Selectable
    BY <1>0 DEF Selectable
  <1>8. PromptTypes'
    <2>1. dlg'.cursor \in Nat
      BY <1>6, PromptAssumption DEF PromptInv, PromptTypes
    <2>2. phase' \in {"asking", "planned", "declined", "cancelled", "failed"}
      BY <1>0 DEF PromptInv, PromptTypes
    <2> QED
      BY <1>0, <1>4, <1>5, <1>6, <1>7, <2>1, <2>2 DEF PromptInv, PromptTypes, Questions, Good
  <1>9. Came'
    BY <1>0, <1>1, <1>2, <1>3 DEF PromptInv, Came, After, Good, Resident, Questions, Kind
  <1>10. ToldBeforeAsked'
    BY <1>0, <1>1, <1>2, <1>3, <1>9 DEF PromptInv, Came, ToldBeforeAsked, After, Notes, Resident, DirProblem, Questions, Kind
  <1> QED
    BY <1>8, <1>9, <1>10 DEF PromptInv

\* A dialog that is drawn again, with marks on drives that can be indexed.
LEMMA DrawKeeps ==
    ASSUME PromptInv, NEW d, Draw(d),
           DOMAIN d = {"on", "draft", "cursor", "marks"}, d.on \in BOOLEAN, d.marks \subseteq Selectable,
           d.cursor \in Nat, asked = "drives" => d.cursor \in DOMAIN drives
    PROVE  PromptInv'
  BY DEF PromptInv, PromptTypes, Came, ToldBeforeAsked, Draw, Selectable, Good, Questions

\* A character typed or erased.
LEMMA DraftKeeps ==
    ASSUME PromptInv, NEW e, Draw([dlg EXCEPT !.draft = e])
    PROVE  PromptInv'
  <1> DEFINE d == [dlg EXCEPT !.draft = e]
  <1>1. DOMAIN d = DOMAIN dlg /\ d.on = dlg.on /\ d.marks = dlg.marks /\ d.cursor = dlg.cursor
    BY DEF PromptInv, PromptTypes
  <1>2. Draw(d)
    OBVIOUS
  <1> HIDE DEF d
  <1> QED
    BY <1>1, <1>2, DrawKeeps DEF PromptInv, PromptTypes

\* The cursor moved, within the list.
LEMMA CursorKeeps ==
    ASSUME PromptInv, NEW c \in Nat, asked = "drives" => c \in DOMAIN drives, Draw([dlg EXCEPT !.cursor = c])
    PROVE  PromptInv'
  <1> DEFINE d == [dlg EXCEPT !.cursor = c]
  <1>1. DOMAIN d = DOMAIN dlg /\ d.on = dlg.on /\ d.marks = dlg.marks /\ d.cursor = c
    BY DEF PromptInv, PromptTypes
  <1>2. Draw(d)
    OBVIOUS
  <1> HIDE DEF d
  <1> QED
    BY <1>1, <1>2, DrawKeeps DEF PromptInv, PromptTypes

\* Drives marked or unmarked.
LEMMA MarksKeep ==
    ASSUME PromptInv, NEW m \in SUBSET Selectable, Draw([dlg EXCEPT !.marks = m])
    PROVE  PromptInv'
  <1> DEFINE d == [dlg EXCEPT !.marks = m]
  <1>1. DOMAIN d = DOMAIN dlg /\ d.on = dlg.on /\ d.marks = m /\ d.cursor = dlg.cursor
    BY DEF PromptInv, PromptTypes
  <1>2. Draw(d)
    OBVIOUS
  <1> HIDE DEF d
  <1> QED
    BY <1>1, <1>2, DrawKeeps DEF PromptInv, PromptTypes

\* Nothing is answered: the flow is called off, or the question put again.
LEMMA SaidKeeps ==
    ASSUME PromptInv, phase = "asking", NEW how \in {"cancelled", "failed"},
           Stopped(how) \/ UNCHANGED <<face, drives, asked, answers, dlg, told, phase>>
    PROVE  PromptInv'
  <1>1. UNCHANGED <<drives, asked, answers, dlg, told>> /\ phase' \in {phase, how}
    BY DEF Stopped
  <1>2. PromptTypes'
    BY <1>1 DEF PromptInv, PromptTypes, Good, Selectable
  <1>3. Came' /\ ToldBeforeAsked'
    BY <1>1 DEF PromptInv, Came, ToldBeforeAsked
  <1> QED
    BY <1>2, <1>3 DEF PromptInv

\* Every default suits its question.
LEMMA DefaultGood ==
    ASSUME NEW q
    PROVE  Good(q, Default(q))
  <1>1. CASE q = "drives"
    BY <1>1 DEF Good, Default
  <1>2. CASE q = "minutes"
    BY <1>2 DEF Good, Default, Minutes
  <1>3. CASE q \notin {"drives", "minutes"}
    BY <1>3 DEF Good, Default
  <1> QED
    BY <1>1, <1>2, <1>3

\* Each key and each line keeps the invariant.
LEMMA PromptStep == PromptInv /\ [PromptNext]_promptVars => PromptInv'
  <1> SUFFICES ASSUME PromptInv, [PromptNext]_promptVars
               PROVE  PromptInv'
    OBVIOUS
  <1>0. /\ DOMAIN dlg = {"on", "draft", "cursor", "marks"} /\ dlg.on \in BOOLEAN
        /\ dlg.marks \subseteq Selectable /\ dlg.cursor \in Nat /\ (asked = "drives" => dlg.cursor \in DOMAIN drives)
        /\ asked \in Questions
        /\ drives \in Seq(BOOLEAN) /\ Len(drives) \in Nat /\ DOMAIN drives = 1 .. Len(drives)
    BY PromptAssumption DEF PromptInv, PromptTypes
  <1>1. CASE CancelKey
    BY <1>1, SaidKeeps DEF CancelKey
  <1>2. CASE EscKey
    BY <1>2, AnswerKeeps, DefaultGood DEF EscKey
  <1>3. CASE ConfirmKey
    <2>1. phase = "asking" /\ asked # "minutes" /\ asked # "drives"
      BY <1>3 DEF ConfirmKey, Dialogs, Kind
    <2>2. \A v \in BOOLEAN : Good(asked, v)
      BY <2>1 DEF Good
    <2>3. ASSUME Draw([dlg EXCEPT !.on = ~@])
          PROVE  PromptInv'
      <3> DEFINE d == [dlg EXCEPT !.on = ~@]
      <3>1. DOMAIN d = DOMAIN dlg /\ d.on \in BOOLEAN /\ d.marks = dlg.marks /\ d.cursor = dlg.cursor
        BY <1>0
      <3>2. Draw(d)
        BY <2>3
      <3> HIDE DEF d
      <3> QED
        BY <1>0, <3>1, <3>2, DrawKeeps
    <2> QED
      BY <1>0, <1>3, <2>1, <2>2, <2>3, AnswerKeeps DEF ConfirmKey
  <1>4. CASE NumberEnter
    <2>1. phase = "asking" /\ asked = "minutes"
      BY <1>0, <1>4 DEF NumberEnter, Dialogs, Questions, Kind
    <2>2. \A v \in Minutes : Good(asked, v)
      BY <2>1 DEF Good
    <2>3. Default("minutes") \in Minutes
      BY DEF Default, Minutes
    <2> QED
      BY <1>4, <2>1, <2>2, <2>3, AnswerKeeps DEF NumberEnter
  <1>5. CASE NumberKey
    <2>1. \E e : Draw([dlg EXCEPT !.draft = e])
      BY <1>5 DEF NumberKey
    <2> QED
      BY <1>0, <2>1, DraftKeeps
  <1>6. CASE TextKey
    <2>1. phase = "asking" /\ asked = "data"
      BY <1>0, <1>6 DEF TextKey, Dialogs, Questions, Kind
    <2>2. \A v : Good(asked, v)
      BY <2>1 DEF Good
    <2>3. (\E e : Draw([dlg EXCEPT !.draft = e])) \/ \E v : Answer(v)
      BY <1>6 DEF TextKey
    <2> QED
      BY <1>0, <2>1, <2>2, <2>3, DraftKeeps, AnswerKeeps
  <1>7. CASE ChooseKey
    <2>1. phase = "asking" /\ asked = "combo"
      BY <1>0, <1>7 DEF ChooseKey, Dialogs, Questions, Kind
    <2>2. \A v : Good(asked, v)
      BY <2>1 DEF Good
    <2>3. Cardinality(Combos) \in Nat
      <3>1. \A a, b \in Int : IsFiniteSet(a .. b)
        BY FS_Interval, Zenon
      <3>2. IsFiniteSet(Combos)
        <4>1. 1 \in Int /\ 3 \in Int
          OBVIOUS
        <4> QED
          BY <3>1, <4>1, Zenon DEF Combos
      <3> QED
        BY <3>2, FS_CardinalityType
    <2>4. Greater(dlg.cursor - 1, 1) \in Nat /\ Lesser(dlg.cursor + 1, Cardinality(Combos)) \in Nat
      BY <1>0, <2>3 DEF Lesser, Greater
    <2>5. (\E c \in Nat : Draw([dlg EXCEPT !.cursor = c])) \/ \E v : Answer(v)
      BY <1>7, <2>4 DEF ChooseKey
    <2> QED
      BY <1>0, <2>1, <2>2, <2>5, CursorKeeps, AnswerKeeps
  <1>8. CASE ToggleKey
    <2>1. asked = "drives" /\ drives[dlg.cursor] /\ dlg.cursor \in DOMAIN drives
      BY <1>0, <1>8 DEF ToggleKey, Dialogs, Questions, Kind
    <2>2. dlg.cursor \in Selectable
      BY <2>1 DEF Selectable
    <2>3. \E m \in SUBSET Selectable : Draw([dlg EXCEPT !.marks = m])
      BY <1>0, <1>8, <2>2 DEF ToggleKey
    <2> QED
      BY <1>0, <2>3, MarksKeep
  <1>9. CASE MultiKey
    <2>1. phase = "asking" /\ asked = "drives"
      BY <1>0, <1>9 DEF MultiKey, Dialogs, Questions, Kind
    <2>2. Greater(dlg.cursor - 1, 1) \in DOMAIN drives /\ Lesser(dlg.cursor + 1, Len(drives)) \in DOMAIN drives
      BY <1>0, <2>1 DEF Greater, Lesser
    <2>3. dlg.marks # {} => Good(asked, dlg.marks)
      BY <1>0, <2>1 DEF Good
    <2>4. dlg.marks \cup Selectable \in SUBSET Selectable
      BY <1>0
    <2>5. \/ \E c \in DOMAIN drives : Draw([dlg EXCEPT !.cursor = c])
          \/ \E m \in SUBSET Selectable : Draw([dlg EXCEPT !.marks = m])
          \/ dlg.marks # {} /\ Answer(dlg.marks)
      BY <1>9, <2>2, <2>4 DEF MultiKey
    <2> QED
      <3>1. \A c \in DOMAIN drives : c \in Nat
        BY <1>0
      <3>2. ASSUME NEW c \in DOMAIN drives, Draw([dlg EXCEPT !.cursor = c])
            PROVE  PromptInv'
        BY <3>1, <3>2, CursorKeeps
      <3>3. dlg.marks # {} /\ Answer(dlg.marks) => PromptInv'
        BY <2>1, <2>3, AnswerKeeps
      <3> QED
        BY <2>5, <3>2, <3>3, MarksKeep
  <1>10. CASE Line
    <2>1. \A line \in Meant(asked) : Accepted(asked, line) => Good(asked, line[1])
      <3> SUFFICES ASSUME NEW line \in Meant(asked), Accepted(asked, line)
                   PROVE  Good(asked, line[1])
        OBVIOUS
      <3>1. CASE Kind[asked] = "confirm"
        <4>1. line[1] \in BOOLEAN /\ asked # "minutes" /\ asked # "drives"
          BY <3>1 DEF Meant, Kind
        <4> QED
          BY <4>1 DEF Good
      <3>2. CASE Kind[asked] = "number"
        <4>1. line[1] \in Minutes /\ asked = "minutes"
          <5>1. asked = "minutes"
            BY <1>0, <3>2 DEF Kind, Questions
          <5>2. PICK v \in {1, 4, 60} : line = <<v>>
            BY <3>2 DEF Meant
          <5> QED
            BY <5>1, <5>2 DEF Minutes
        <4> QED
          BY <4>1 DEF Good
      <3>3. CASE Kind[asked] = "multi"
        <4>1. line[1] # {} /\ line[1] \subseteq Selectable /\ asked = "drives"
          BY <1>0, <3>3 DEF Accepted, Kind, Questions
        <4> QED
          BY <4>1 DEF Good
      <3>4. CASE Kind[asked] \in {"text", "choose"}
        <4>1. asked \in {"data", "combo"}
          BY <1>0, <3>4 DEF Kind, Questions
        <4> QED
          BY <4>1 DEF Good
      <3> QED
        BY <1>0, <3>1, <3>2, <3>3, <3>4 DEF Kind, Questions
    <2>2. phase = "asking"
      BY <1>10 DEF Line
    <2>3. \/ Answer(Default(asked))
          \/ \E line \in Meant(asked) : Accepted(asked, line) /\ Answer(line[1])
          \/ Refused
      BY <1>10 DEF Line
    <2>4. Refused => PromptInv'
      BY <2>2, SaidKeeps DEF Refused
    <2> QED
      BY <2>1, <2>2, <2>3, <2>4, AnswerKeeps, DefaultGood
  <1>11. CASE EndOfInput
    BY <1>11, SaidKeeps DEF EndOfInput
  <1>12. CASE UNCHANGED promptVars
    BY <1>12 DEF promptVars, PromptInv, PromptTypes, Came, ToldBeforeAsked, Selectable, Good, Questions
  <1> QED
    BY <1>1, <1>2, <1>3, <1>4, <1>5, <1>6, <1>7, <1>8, <1>9, <1>10, <1>11, <1>12 DEF PromptNext

\* What is said of the questions follows from it.
LEMMA PromptInvAsks == PromptInv => AsksWell
  BY DEF PromptInv, PromptTypes, Came, AsksWell, PlanUsable, Good, Resident

\* Whatever is typed, in either front-end: a plan holds drives that can be indexed, an
\* interval the scheduler takes, and answers to the questions that had to be put and to
\* no others; and each is put after what its answer costs was said (flow.rs, wizard.rs,
\* prompt.rs).
THEOREM SetupAsks == PromptSpec => []AsksWell
  <1> QED
    BY PromptStart, PromptStep, PromptInvAsks, PTL DEF PromptSpec

-----------------------------------------------------------------------------
\* PATH

\* What may stand in PATH: a string, Batuta's own entry among them.
Entry == STRING \cup {Ours}

\* The recursion by which Leaving walks over the entries.
Walks(f, path, out) ==
    /\ f \in [0 .. Len(path) -> Seq(Entry)]
    /\ Leaving(path, out) = f[Len(path)]
    /\ f[0] = <<>>
    /\ \A k \in 1 .. Len(path) :
         f[k] = IF Normalise(path[k]) \in out THEN f[k - 1] ELSE Append(f[k - 1], path[k])

\* Leaving is the last value of such a walk, which there is.
LEMMA LeavingIs ==
    ASSUME NEW path \in Seq(Entry), NEW out
    PROVE  \E f : Walks(f, path, out)
  <1> DEFINE n == Len(path)
             T == Seq(Entry)
             More(t, k) == IF Normalise(path[k]) \in out THEN t ELSE Append(t, path[k])
             G == [p \in T \X (1 .. n) |-> More(p[1], p[2])]
             Def(f) == f = [k \in 0 .. n |-> IF k = 0 THEN <<>> ELSE More(f[k - 1], k)]
             f == CHOOSE f : Def(f)
  <1>1. n \in Nat
    BY LenProperties
  <1>2. ASSUME NEW t \in T, NEW k \in 1 .. n
        PROVE  More(t, k) \in T
    <2>1. path[k] \in Entry
      BY ElementOfSeq
    <2> QED
      BY <2>1, AppendProperties
  <1>3. <<>> \in T
    OBVIOUS
  <1> HIDE DEF More, T, n
  <1>4. G \in [T \X (1 .. n) -> T]
    BY <1>2
  <1>5. \E g : Def(g)
    <2>1. PICK g : Recurs(g, n, T, <<>>, G)
      <3> HIDE DEF G
      <3> QED
        BY <1>1, <1>3, <1>4, RecursionSolved
    <2>2. ASSUME NEW i \in 1 .. n
          PROVE  g[i] = More(g[i - 1], i)
      <3>1. i - 1 \in 0 .. n
        BY <1>1
      <3>2. g[i - 1] \in T /\ g[i] = G[<<g[i - 1], i>>]
        <4> HIDE DEF G
        <4> QED
          BY <2>1, <3>1 DEF Recurs
      <3> QED
        BY <3>2
    <2>3. g[0] = <<>> /\ g = [i \in 0 .. n |-> g[i]]
      <3> HIDE DEF G
      <3> QED
        BY <2>1 DEF Recurs
    <2> HIDE DEF G
    <2>4. Def(g)
      <3>1. ASSUME NEW i \in 0 .. n
            PROVE  g[i] = IF i = 0 THEN <<>> ELSE More(g[i - 1], i)
        <4>1. i = 0 \/ (i # 0 /\ i \in 1 .. n)
          BY <1>1
        <4> QED
          BY <2>2, <2>3, <4>1, Zenon
      <3> QED
        BY <2>3, <3>1
    <2> QED
      BY <2>4
  <1>6. Def(f)
    <2> HIDE DEF Def
    <2> QED
      BY <1>5
  <1> HIDE DEF f, G
  <1>7. f[0] = <<>> /\ \A i \in 1 .. n : f[i] = More(f[i - 1], i)
    BY <1>1, <1>6
  <1>8. \A k \in 0 .. n : f[k] \in T
    <2> DEFINE S == {k \in 0 .. n : f[k] \in T}
    <2>1. S \in SUBSET (0 .. n) /\ 0 \in S
      BY <1>1, <1>3, <1>7
    <2>2. \A k \in S : k < n => k + 1 \in S
      <3> SUFFICES ASSUME NEW k \in S, k < n
                   PROVE  k + 1 \in S
        OBVIOUS
      <3>1. k + 1 \in 1 .. n /\ k + 1 - 1 = k /\ k + 1 \in 0 .. n
        BY <1>1
      <3>2. f[k + 1] = More(f[k], k + 1) /\ f[k] \in T
        BY <1>7, <3>1
      <3> QED
        BY <1>2, <3>1, <3>2
    <2> HIDE DEF S
    <2>3. S = 0 .. n
      BY <1>1, <2>1, <2>2, InductUpTo
    <2> QED
      BY <2>3 DEF S
  <1>9. f \in [0 .. n -> T]
    <2>1. f = [k \in 0 .. n |-> f[k]]
      BY <1>6
    <2> HIDE DEF Def
    <2> QED
      BY <1>8, <2>1
  <1>10. Leaving(path, out) = f[n]
    BY Zenon DEF Leaving, f, n, More
  <1> HIDE DEF Def
  <1>11. \A k \in 1 .. n : f[k] = IF Normalise(path[k]) \in out THEN f[k - 1] ELSE Append(f[k - 1], path[k])
    BY <1>7, Zenon DEF More
  <1>12. Walks(f, path, out)
    BY <1>7, <1>9, <1>10, <1>11, Zenon DEF Walks, n, T
  <1> QED
    BY <1>12

\* What is left are strings, and none of them is one of those left out.
LEMMA LeftOut ==
    ASSUME NEW path \in Seq(Entry), NEW out
    PROVE  /\ Leaving(path, out) \in Seq(Entry)
           /\ \A i \in DOMAIN Leaving(path, out) : Normalise(Leaving(path, out)[i]) \notin out
  <1>1. PICK f : Walks(f, path, out)
    BY LeavingIs
  <1> DEFINE T == {t \in Seq(Entry) : \A i \in DOMAIN t : Normalise(t[i]) \notin out}
  <1>2. f[0] \in T
    BY <1>1 DEF Walks
  <1>3. ASSUME NEW k \in 1 .. Len(path), f[k - 1] \in T
        PROVE  f[k] \in T
    <2>1. CASE Normalise(path[k]) \in out
      BY <1>1, <1>3, <2>1 DEF Walks
    <2>2. CASE Normalise(path[k]) \notin out
      <3>1. f[k] = Append(f[k - 1], path[k]) /\ path[k] \in Entry /\ f[k - 1] \in Seq(Entry)
        BY <1>1, <1>3, <2>2, ElementOfSeq DEF Walks
      <3>2. \A i \in DOMAIN f[k] : f[k][i] = path[k] \/ (i \in DOMAIN f[k - 1] /\ f[k][i] = f[k - 1][i])
        BY <3>1
      <3>3. f[k] \in Seq(Entry)
        BY <3>1
      <3> QED
        BY <1>3, <2>2, <3>2, <3>3
    <2> QED
      BY <2>1, <2>2
  <1> HIDE DEF T
  <1>4. f[Len(path)] \in T
    BY <1>2, <1>3, LenProperties, StaysIn
  <1> QED
    BY <1>1, <1>4 DEF T, Walks

\* Two sets that agree about the entries leave the same.
LEMMA LeavesAlike ==
    ASSUME NEW path \in Seq(Entry), NEW out, NEW other,
           \A k \in 1 .. Len(path) : Normalise(path[k]) \in out <=> Normalise(path[k]) \in other
    PROVE  Leaving(path, out) = Leaving(path, other)
  <1>1. PICK f : Walks(f, path, out)
    BY LeavingIs
  <1>2. PICK g : Walks(g, path, other)
    BY LeavingIs
  <1> DEFINE S == {k \in 0 .. Len(path) : f[k] = g[k]}
  <1>3. Len(path) \in Nat
    BY LenProperties
  <1>4. S \in SUBSET (0 .. Len(path)) /\ 0 \in S
    BY <1>1, <1>2, <1>3 DEF Walks
  <1>5. \A k \in S : k < Len(path) => k + 1 \in S
    <2> SUFFICES ASSUME NEW k \in S, k < Len(path)
                 PROVE  k + 1 \in S
      OBVIOUS
    <2>1. k + 1 \in 1 .. Len(path) /\ k + 1 - 1 = k /\ k + 1 \in 0 .. Len(path)
      BY <1>3
    <2>2. f[k + 1] = g[k + 1]
      BY <1>1, <1>2, <2>1 DEF Walks
    <2> QED
      BY <2>1, <2>2
  <1> HIDE DEF S
  <1>6. S = 0 .. Len(path)
    BY <1>3, <1>4, <1>5, InductUpTo
  <1> QED
    BY <1>1, <1>2, <1>3, <1>6 DEF S, Walks

\* Where nothing is to be left out, everything is left.
LEMMA LeavesAll ==
    ASSUME NEW path \in Seq(Entry), NEW out, \A k \in 1 .. Len(path) : Normalise(path[k]) \notin out
    PROVE  Leaving(path, out) = path
  <1>1. PICK f : Walks(f, path, out)
    BY LeavingIs
  <1> DEFINE S == {k \in 0 .. Len(path) : f[k] = SubSeq(path, 1, k)}
  <1>3. Len(path) \in Nat
    BY LenProperties
  <1>4. S \in SUBSET (0 .. Len(path)) /\ 0 \in S
    <2>1. SubSeq(path, 1, 0) = <<>>
      BY SubSeqEmpty
    <2> QED
      BY <1>1, <1>3, <2>1 DEF Walks
  <1>5. \A k \in S : k < Len(path) => k + 1 \in S
    <2> SUFFICES ASSUME NEW k \in S, k < Len(path)
                 PROVE  k + 1 \in S
      OBVIOUS
    <2>1. k + 1 \in 1 .. Len(path) /\ k + 1 - 1 = k /\ k + 1 \in 0 .. Len(path) /\ k \in Nat
      BY <1>3
    <2>2. f[k + 1] = Append(f[k], path[k + 1])
      <3>1. Normalise(path[k + 1]) \notin out
        BY <2>1
      <3>2. f[k + 1] = IF Normalise(path[k + 1]) \in out THEN f[k + 1 - 1] ELSE Append(f[k + 1 - 1], path[k + 1])
        BY <1>1, <2>1 DEF Walks
      <3> QED
        BY <2>1, <3>1, <3>2
    <2>3. SubSeq(path, 1, k + 1) = Append(SubSeq(path, 1, k), path[k + 1])
      BY <2>1, NextPrefix
    <2> QED
      BY <2>1, <2>2, <2>3
  <1> HIDE DEF S
  <1>6. S = 0 .. Len(path)
    BY <1>3, <1>4, <1>5, InductUpTo
  <1>7. SubSeq(path, 1, Len(path)) = path
    BY SubSeqFull
  <1> QED
    BY <1>1, <1>3, <1>6, <1>7 DEF S, Walks

\* What is left of a PATH is one.
LEMMA LeftIsPart ==
    ASSUME NEW path \in Seq(Entry)
    PROVE  WithoutEntry(path, Ours) \in Seq(Entry)
  BY LeftOut DEF WithoutEntry

\* Taking the entry out of PATH: it is not in there any more, and what else
\* was is, in its order.
LEMMA EntryTakenOut ==
    ASSUME NEW path \in Seq(Entry)
    PROVE  LET rest == WithoutEntry(path, Ours)
           IN  /\ ~ContainsEntry(rest, Ours)
               /\ Leaving(rest, {Empty}) = Leaving(path, {Empty, Ours})
  <1> DEFINE out == {Empty, Ours}
  <1>1. Normalise(Ours) = Ours /\ Normalise(Empty) = Empty
    BY DEF Normalise, Ours, OursToo, Empty
  <1>2. CASE ~ContainsEntry(path, Ours)
    <2>1. WithoutEntry(path, Ours) = path
      BY <1>2 DEF WithoutEntry
    <2>2. \A k \in 1 .. Len(path) : Normalise(path[k]) # Ours
      <3>1. \A k \in DOMAIN path : path[k] = Empty \/ Normalise(path[k]) # Ours
        BY <1>1, <1>2 DEF ContainsEntry, Walks
      <3>2. Empty # Ours
        BY DEF Empty, Ours
      <3> QED
        BY <1>1, <3>1, <3>2 DEF Walks
    <2>3. Leaving(path, {Empty}) = Leaving(path, out)
      BY <2>2, LeavesAlike
    <2> QED
      BY <1>2, <2>1, <2>3
  <1>3. CASE ContainsEntry(path, Ours)
    <2> DEFINE rest == Leaving(path, out)
    <2>1. WithoutEntry(path, Ours) = rest
      BY <1>1, <1>3 DEF WithoutEntry, Walks
    <2>2. rest \in Seq(Entry) /\ \A i \in DOMAIN rest : Normalise(rest[i]) \notin out
      BY LeftOut
    <2> HIDE DEF rest
    <2>3. ~ContainsEntry(rest, Ours)
      BY <1>1, <2>2 DEF ContainsEntry, Walks
    <2>4. Leaving(rest, {Empty}) = rest
      <3>1. \A k \in 1 .. Len(rest) : Normalise(rest[k]) \notin {Empty}
        BY <2>2
      <3> QED
        BY <2>2, <3>1, LeavesAll
    <2> QED
      BY <2>1, <2>3, <2>4 DEF rest
  <1> QED
    BY <1>2, <1>3

-----------------------------------------------------------------------------
\* The machine

Before == {"install", "stop", "kill", "copy", "aside"}
Placed == {"config", "index", "resident", "start", "check", "hotkey", "path", "done"}
Gone   == {"rm service", "rm task", "rm hotkey", "rm path", "rm index", "removed"}
Combination == {<<>>, <<"a">>, <<"b">>}
HelperSet == [image : {"dest", "aside"}, key : Keys, holds : BOOLEAN]

SetupTypes ==
  /\ DOMAIN exe = {"dest", "aside"}
  /\ DOMAIN svc = {"registered", "state", "build", "image", "drives"}
  /\ helpers \subseteq HelperSet
  /\ DOMAIN user = {"run", "path"} /\ user.run \in Combination /\ user.path \in Seq(Entry)
  /\ DOMAIN disk = {"task", "config", "snap"}
  /\ DOMAIN s = {"pc", "plan", "build", "report", "stopped"} /\ DOMAIN s.report = DOMAIN Report
  /\ DOMAIN base = {"exe", "svc", "helpers", "user", "disk"} /\ base.user.path \in Seq(Entry)
  /\ s.pc \in Before \cup {"copy again"} \cup Placed => s.plan # <<>> /\ Plan \in Plans

\* Before the new executable is placed the old one is where it was, or aside;
\* afterwards the new one is there.
ExeKept ==
  /\ s.pc \in Before \cup {"aborted"} => exe.dest = base.exe.dest
  /\ s.pc = "aside" => exe.dest # "none"
  /\ s.pc = "copy again" => exe.aside = base.exe.dest /\ exe.aside # "none"
  /\ s.pc \in Placed => exe.dest = s.build
  /\ s.pc \in Before \cup {"copy again"} \cup Placed => s.build # "none"
  /\ s.pc # "copy again" /\ (svc.registered \/ disk.task \/ user.run # Nothing) => exe.dest # "none"

\* A service stopped for the executable rests until it is started from it, and
\* nobody writes the index or the config it will serve by in between.
NewStarts ==
  /\ s.pc \in Before \cup {"copy again", "config", "index", "resident", "start"} => s.report.start = "-"
  /\ s.pc \in {"install", "stop"} => ~s.stopped
  /\ s.stopped /\ s.pc \in {"kill", "copy", "aside", "copy again", "config", "index", "resident", "start"} =>
       svc.state = "stopped"
  /\ s.stopped /\ s.pc \in {"index", "resident", "start"} /\ s.report.config # "failed" =>
       disk.config = Plan.drives
  /\ s.stopped /\ s.pc \in {"resident", "start"} /\ "failed" \notin {s.report.config, s.report.index} =>
       disk.snap # Nothing /\ disk.snap[1].drives = Plan.drives
  /\ s.stopped /\ s.pc \in {"check", "hotkey", "path", "done"} /\ s.report.start = "done" =>
       /\ svc.state = "running" /\ svc.build = s.build
       /\ "failed" \notin {s.report.config, s.report.index} => svc.drives = Plan.drives

KeyHeld ==
  s.pc \in {"path", "done"} /\ Plan.hotkey # Nothing /\ s.report.hotkey # "failed" =>
    /\ user.run = Plan.hotkey
    /\ \E h \in helpers : h.key = Plan.hotkey[1]

\* What an uninstall has come past is gone, unless it said otherwise.
GoneSoFar ==
  /\ s.pc \in Gone \ {"rm service"} /\ s.report.service # "failed" => ~svc.registered
  /\ s.pc \in Gone \ {"rm service", "rm task"} /\ s.report.task # "failed" => ~disk.task
  /\ s.pc \in {"rm path", "rm index", "removed"} => user.run = Nothing
  /\ s.pc \in {"rm service", "rm task", "rm hotkey", "rm path"} => user.path = base.user.path
  /\ s.pc \in {"rm index", "removed"} /\ s.report.path # "failed" =>
       user.path = WithoutEntry(base.user.path, Ours)

SetupInv == SetupTypes /\ ExeKept /\ NewStarts /\ KeyHeld /\ GoneSoFar


\* A machine before the first run.
LEMMA SetupStart == SetupInit => SetupInv
  <1> SUFFICES ASSUME SetupInit
               PROVE  SetupInv
    OBVIOUS
  <1>1. PICK m \in Machines, p \in PathValues :
          /\ exe = m.exe /\ svc = m.svc /\ helpers = m.helpers /\ disk = m.disk
          /\ user = [run |-> m.run, path |-> p] /\ s = Resting
          /\ base = [exe |-> m.exe, svc |-> m.svc, helpers |-> m.helpers, user |-> user, disk |-> m.disk]
    BY DEF SetupInit
  <1>2. /\ s.pc = "idle" /\ s.stopped = FALSE
        /\ DOMAIN s = {"pc", "plan", "build", "report", "stopped"} /\ DOMAIN s.report = DOMAIN Report
    BY <1>1 DEF Resting
  <1>3. /\ p \in Seq(Entry) /\ m.run \in Combination
        /\ (m.svc.registered \/ m.disk.task \/ m.run # Nothing) => m.exe.dest # "none"
    <2>1. p \in Seq(STRING) /\ \A i \in DOMAIN p : p[i] \in Entry
      BY SetupAssumption DEF Entry
    <2>2. p \in Seq(Entry)
      BY <2>1
    <2> QED
      BY <2>2, SetupAssumption DEF Combination, Nothing
  <1>4. SetupTypes
    <2>1. helpers \subseteq HelperSet /\ DOMAIN exe = {"dest", "aside"}
          /\ DOMAIN svc = {"registered", "state", "build", "image", "drives"}
          /\ DOMAIN disk = {"task", "config", "snap"}
      BY <1>1, SetupAssumption DEF HelperSet, Keys
    <2>2. DOMAIN user = {"run", "path"} /\ user.run \in Combination /\ user.path \in Seq(Entry)
      BY <1>1, <1>3
    <2> QED
      BY <1>1, <1>2, <2>1, <2>2 DEF SetupTypes, Before, Placed
  <1>5. ExeKept
    BY <1>1, <1>2, <1>3 DEF ExeKept, Before, Placed, Nothing
  <1>6. NewStarts /\ KeyHeld /\ GoneSoFar
    BY <1>2 DEF NewStarts, KeyHeld, GoneSoFar, Before, Gone
  <1> QED
    BY <1>4, <1>5, <1>6 DEF SetupInv

\* Where a step leaves the report, and what it says of other steps.
LEMMA GoIs ==
    ASSUME SetupTypes, NEW pc, NEW step \in DOMAIN Report, NEW outcome, Go(pc, step, outcome)
    PROVE  /\ DOMAIN s' = DOMAIN s /\ s'.pc = pc /\ DOMAIN s'.report = DOMAIN s.report
           /\ s'.plan = s.plan /\ s'.build = s.build /\ s'.stopped = s.stopped
           /\ s'.report[step] = outcome
           /\ \A k \in DOMAIN Report \ {step} : s'.report[k] = s.report[k]
  BY DEF SetupTypes, Go

\* Of s, a step changes no more than where it is and what it reports of itself.
Onward(step) ==
    /\ DOMAIN s' = DOMAIN s /\ DOMAIN s'.report = DOMAIN s.report
    /\ s'.plan = s.plan /\ s'.build = s.build /\ s'.stopped = s.stopped
    /\ \A k \in DOMAIN Report \ {step} : s'.report[k] = s.report[k]

\* A step that reports an outcome.
LEMMA Goes ==
    ASSUME SetupTypes, NEW step \in DOMAIN Report
    PROVE  \A pc, o : Go(pc, step, o) => Onward(step) /\ s'.pc = pc /\ s'.report[step] = o
  BY GoIs DEF Onward

\* A step that reports none.
LEMMA Turns ==
    ASSUME SetupTypes
    PROVE  \A pc : s' = [s EXCEPT !.pc = pc] => Onward("-") /\ s'.pc = pc
  BY DEF SetupTypes, Onward

\* A renamed file: the images move along, and nothing else of the processes.
LEMMA MovedIs ==
    ASSUME SetupTypes, NEW from, NEW to \in {"dest", "aside"}, Moved(from, to)
    PROVE  /\ DOMAIN svc' = DOMAIN svc /\ \A k \in DOMAIN svc \ {"image"} : svc'[k] = svc[k]
           /\ helpers' \subseteq HelperSet
  <1>1. DOMAIN svc' = DOMAIN svc /\ \A k \in DOMAIN svc \ {"image"} : svc'[k] = svc[k]
    BY DEF Moved
  <1>2. \A h \in helpers : [h EXCEPT !.image = to] \in HelperSet
    <2> SUFFICES ASSUME NEW h \in helpers
                 PROVE  [h EXCEPT !.image = to] \in HelperSet
      OBVIOUS
    <2>1. h \in HelperSet
      BY DEF SetupTypes
    <2>2. [h EXCEPT !.image = to] = [image |-> to, key |-> h.key, holds |-> h.holds]
      BY <2>1 DEF HelperSet
    <2> QED
      BY <2>1, <2>2 DEF HelperSet
  <1>3. helpers' \subseteq HelperSet
    <2> SUFFICES ASSUME NEW g \in helpers'
                 PROVE  g \in HelperSet
      OBVIOUS
    <2>1. PICK h \in helpers : g = IF h.image = from THEN [h EXCEPT !.image = to] ELSE h
      BY DEF Moved
    <2> QED
      BY <1>2, <2>1, Zenon DEF SetupTypes
  <1> QED
    BY <1>1, <1>3

-----------------------------------------------------------------------------
\* A run of setup begins with what is there as its base.
LEMMA StartKeeps == SetupInv /\ (\E p \in Plans, b \in {"old", "new", "here"} : Start(p, b)) => SetupInv'
  <1> SUFFICES ASSUME SetupInv, NEW p \in Plans, NEW b \in {"old", "new", "here"}, Start(p, b)
               PROVE  SetupInv'
    OBVIOUS
  <1>1. /\ UNCHANGED <<exe, svc, helpers, user, taken, disk>> /\ base' = machine
        /\ s.pc \notin {"copy again"} /\ s'.pc = "install" /\ s'.plan = <<p>> /\ s'.build # "none" /\ s'.stopped = FALSE
        /\ DOMAIN s' = {"pc", "plan", "build", "report", "stopped"} /\ s'.report = Report
    BY DEF Start, Resting
  <1>2. SetupTypes'
    <2>1. DOMAIN base' = {"exe", "svc", "helpers", "user", "disk"} /\ base'.user = user
      BY <1>1 DEF machine
    <2>2. s'.plan # <<>> /\ s'.plan[1] \in Plans
      <3>1. <<p>> # <<>> /\ <<p>>[1] = p
        OBVIOUS
      <3> QED
        BY <1>1, <3>1, Zenon
    <2>3. Plan' = s'.plan[1]
      BY Zenon DEF Plan
    <2> QED
      BY <1>1, <2>1, <2>2, <2>3 DEF SetupInv, SetupTypes
  <1>3. ExeKept'
    BY <1>1 DEF SetupInv, ExeKept, machine, Placed
  <1>4. NewStarts'
    <2>0. Report.start = "-"
      BY DEF Report
    <2>1. s'.report.start = "-"
      BY <1>1, <2>0
    <2> QED
      BY <1>1, <2>1 DEF NewStarts
  <1>5. KeyHeld' /\ GoneSoFar'
    BY <1>1 DEF KeyHeld, GoneSoFar, Gone
  <1> QED
    BY <1>2, <1>3, <1>4, <1>5 DEF SetupInv

\* The installed file is the same, is to be let go of, or is not there.
LEMMA InstallKeeps == SetupInv /\ Install => SetupInv'
  <1> SUFFICES ASSUME SetupInv, Install
               PROVE  SetupInv'
    OBVIOUS
  <1>0. SetupTypes /\ s.pc = "install"
    BY DEF SetupInv, Install, At
  <1>1. /\ Onward("install") /\ UNCHANGED <<exe, svc, helpers, user, taken, disk, base>>
        /\ \/ s'.pc = "aborted"
           \/ s'.pc = "config" /\ exe.dest = s.build
           \/ s'.pc = "copy" /\ exe.dest = "none"
           \/ s'.pc = "stop" /\ exe.dest # "none"
    <2>1. \A pc, o : Go(pc, "install", o) => Onward("install") /\ s'.pc = pc
      BY <1>0, Goes DEF Report
    <2>2. \A pc : s' = [s EXCEPT !.pc = pc] => Onward("install") /\ s'.pc = pc
      BY <1>0, Turns DEF Onward
    <2> QED
      BY <2>1, <2>2 DEF Install
  <1>2. SetupTypes'
    BY <1>0, <1>1 DEF SetupTypes, Onward, Before, Placed, Plan
  <1>3. ExeKept' /\ KeyHeld' /\ GoneSoFar'
    BY <1>0, <1>1 DEF SetupInv, ExeKept, KeyHeld, GoneSoFar, Onward, Before, Placed, Gone
  <1>4. NewStarts'
    BY <1>0, <1>1 DEF SetupInv, NewStarts, Onward, Report, Plan, Before
  <1> QED
    BY <1>2, <1>3, <1>4 DEF SetupInv

\* The service stopped, or told to stop.
LEMMA StopServiceKeeps == SetupInv /\ StopService => SetupInv'
  <1> SUFFICES ASSUME SetupInv, StopService
               PROVE  SetupInv'
    OBVIOUS
  <1>0. SetupTypes /\ s.pc = "stop"
    BY DEF SetupInv, StopService, At
  <1>1. /\ UNCHANGED <<exe, helpers, user, taken, disk, base>> /\ s'.pc = "kill"
        /\ DOMAIN s' = DOMAIN s /\ s'.report = s.report /\ s'.plan = s.plan /\ s'.build = s.build
        /\ DOMAIN svc' = DOMAIN svc /\ svc'.registered = svc.registered
        /\ s'.stopped = s.stopped \/ svc'.state = "stopped"
    BY <1>0 DEF StopService, SetupTypes
  <1>2. SetupTypes'
    BY <1>0, <1>1 DEF SetupTypes, Before, Placed, Plan
  <1>3. ExeKept' /\ KeyHeld' /\ GoneSoFar'
    BY <1>0, <1>1 DEF SetupInv, ExeKept, KeyHeld, GoneSoFar, Before, Placed, Gone
  <1>4. NewStarts'
    BY <1>0, <1>1 DEF SetupInv, NewStarts, Before
  <1> QED
    BY <1>2, <1>3, <1>4 DEF SetupInv

\* Some of the helpers ended.
LEMMA KillHelpersKeeps == SetupInv /\ KillHelpers => SetupInv'
  <1> SUFFICES ASSUME SetupInv, KillHelpers
               PROVE  SetupInv'
    OBVIOUS
  <1>0. SetupTypes /\ s.pc = "kill"
    BY DEF SetupInv, KillHelpers, At
  <1>1. /\ UNCHANGED <<exe, svc, user, taken, disk, base>> /\ helpers' \subseteq helpers
        /\ Onward("-") /\ s'.pc = "copy"
    BY <1>0, Turns DEF KillHelpers
  <1>2. SetupTypes'
    BY <1>0, <1>1 DEF SetupTypes, Onward, Before, Placed, Plan
  <1>3. ExeKept' /\ KeyHeld' /\ GoneSoFar'
    BY <1>0, <1>1 DEF SetupInv, ExeKept, KeyHeld, GoneSoFar, Onward, Before, Placed, Gone
  <1>4. NewStarts'
    BY <1>0, <1>1 DEF SetupInv, NewStarts, Onward, Report, Before
  <1> QED
    BY <1>2, <1>3, <1>4 DEF SetupInv

\* The copy goes to where nothing runs, or the old file has to move.
LEMMA CopyKeeps == SetupInv /\ Copy => SetupInv'
  <1> SUFFICES ASSUME SetupInv, Copy
               PROVE  SetupInv'
    OBVIOUS
  <1>0. SetupTypes /\ s.pc = "copy"
    BY DEF SetupInv, Copy, At
  <1>1. /\ UNCHANGED <<svc, helpers, user, taken, disk, base>> /\ Onward("install")
        /\ \/ s'.pc = "config" /\ DOMAIN exe' = DOMAIN exe /\ exe'.dest = s.build
           \/ s'.pc = "aborted" /\ exe' = exe
           \/ s'.pc = "aside" /\ exe' = exe /\ exe.dest # "none"
    <2>1. \A pc, o : Go(pc, "install", o) => Onward("install") /\ s'.pc = pc
      BY <1>0, Goes DEF Report
    <2> QED
      BY <1>0, <2>1, Turns DEF Copy, Onward, SetupTypes
  <1>2. SetupTypes'
    BY <1>0, <1>1 DEF SetupTypes, Onward, Before, Placed, Plan
  <1>3. ExeKept' /\ KeyHeld' /\ GoneSoFar'
    BY <1>0, <1>1 DEF SetupInv, ExeKept, KeyHeld, GoneSoFar, Onward, Before, Placed, Gone
  <1>4. NewStarts'
    BY <1>0, <1>1 DEF SetupInv, NewStarts, Onward, Report, Plan, Before
  <1> QED
    BY <1>2, <1>3, <1>4 DEF SetupInv

\* The old file goes aside, or the run ends with it in place.
LEMMA MoveAsideKeeps == SetupInv /\ MoveAside => SetupInv'
  <1> SUFFICES ASSUME SetupInv, MoveAside
               PROVE  SetupInv'
    OBVIOUS
  <1>0. SetupTypes /\ s.pc = "aside"
    BY DEF SetupInv, MoveAside, At
  <1>1. /\ UNCHANGED <<user, taken, disk, base>> /\ Onward("install") /\ DOMAIN exe' = {"dest", "aside"}
        /\ helpers' \subseteq HelperSet
        /\ DOMAIN svc' = DOMAIN svc /\ \A k \in DOMAIN svc \ {"image"} : svc'[k] = svc[k]
        /\ \/ s'.pc = "copy again" /\ exe'.aside = exe.dest
           \/ s'.pc = "aborted" /\ exe'.dest = exe.dest
    <2>1. \A pc, o : Go(pc, "install", o) => Onward("install") /\ s'.pc = pc
      BY <1>0, Goes DEF Report
    <2>2. CASE /\ Moved("dest", "aside")
               /\ exe' = [dest |-> "none", aside |-> exe.dest] /\ s' = [s EXCEPT !.pc = "copy again"]
               /\ UNCHANGED <<user, taken, disk, base>>
      <3>0. \A pc : s' = [s EXCEPT !.pc = pc] => Onward("install") /\ s'.pc = pc
        BY <1>0, Turns DEF Onward
      <3>1. Onward("install") /\ s'.pc = "copy again"
        BY <2>2, <3>0
      <3> QED
        BY <1>0, <2>2, <3>1, MovedIs
    <2>3. CASE /\ exe' = IF InUse("aside") THEN exe ELSE [exe EXCEPT !.aside = "none"]
               /\ Go("aborted", "install", "failed") /\ UNCHANGED <<svc, helpers, user, taken, disk, base>>
      BY <1>0, <2>1, <2>3 DEF SetupTypes
    <2> QED
      BY <2>2, <2>3 DEF MoveAside
  <1>2. SetupTypes'
    BY <1>0, <1>1 DEF SetupTypes, Onward, Before, Placed, Plan
  <1>3. ExeKept' /\ KeyHeld' /\ GoneSoFar'
    BY <1>0, <1>1 DEF SetupInv, ExeKept, KeyHeld, GoneSoFar, SetupTypes, Onward, Before, Placed, Gone
  <1>4. NewStarts'
    BY <1>0, <1>1 DEF SetupInv, SetupTypes, NewStarts, Onward, Report, Plan, Before
  <1> QED
    BY <1>2, <1>3, <1>4 DEF SetupInv

\* The copy takes its place.
LEMMA CopiedAgainKeeps == SetupInv /\ CopiedAgain => SetupInv'
  <1> SUFFICES ASSUME SetupInv, CopiedAgain
               PROVE  SetupInv'
    OBVIOUS
  <1>0. SetupTypes /\ s.pc = "copy again"
    BY DEF SetupInv, CopiedAgain, At
  <1>1. /\ UNCHANGED <<svc, helpers, user, taken, disk, base>> /\ Onward("install")
        /\ s'.pc = "config" /\ DOMAIN exe' = DOMAIN exe /\ exe'.dest = s.build
    BY <1>0, Goes DEF CopiedAgain, SetupTypes, Report
  <1>2. SetupTypes'
    BY <1>0, <1>1 DEF SetupTypes, Onward, Before, Placed, Plan
  <1>3. ExeKept' /\ KeyHeld' /\ GoneSoFar'
    BY <1>0, <1>1 DEF SetupInv, ExeKept, KeyHeld, GoneSoFar, Onward, Before, Placed, Gone
  <1>4. NewStarts'
    BY <1>0, <1>1 DEF SetupInv, NewStarts, Onward, Report, Plan, Before
  <1> QED
    BY <1>2, <1>3, <1>4 DEF SetupInv

\* No copy can be made: the old file comes back.
LEMMA PutBackKeeps == SetupInv /\ PutBack => SetupInv'
  <1> SUFFICES ASSUME SetupInv, PutBack
               PROVE  SetupInv'
    OBVIOUS
  <1>0. SetupTypes /\ s.pc = "copy again"
    BY DEF SetupInv, PutBack, At
  <1>1. /\ UNCHANGED <<user, taken, disk, base>> /\ Onward("install") /\ helpers' \subseteq HelperSet
        /\ DOMAIN svc' = DOMAIN svc /\ \A k \in DOMAIN svc \ {"image"} : svc'[k] = svc[k]
        /\ s'.pc = "aborted" /\ DOMAIN exe' = DOMAIN exe /\ exe'.dest = exe.aside
    BY <1>0, Goes, MovedIs DEF PutBack, SetupTypes, Report
  <1>2. SetupTypes'
    BY <1>0, <1>1 DEF SetupTypes, Onward, Before, Placed, Plan
  <1>3. ExeKept' /\ KeyHeld' /\ GoneSoFar'
    BY <1>0, <1>1 DEF SetupInv, SetupTypes, ExeKept, KeyHeld, GoneSoFar, Onward, Before, Placed, Gone
  <1>4. NewStarts'
    BY <1>0, <1>1 DEF SetupInv, NewStarts, Onward, Report, Plan, Before
  <1> QED
    BY <1>2, <1>3, <1>4 DEF SetupInv

\* The config names the drives of the plan, or the failure is reported.
LEMMA WriteConfigKeeps == SetupInv /\ WriteConfig => SetupInv'
  <1> SUFFICES ASSUME SetupInv, WriteConfig
               PROVE  SetupInv'
    OBVIOUS
  <1>0. SetupTypes /\ s.pc = "config"
    BY DEF SetupInv, WriteConfig, At
  <1>1. /\ UNCHANGED <<exe, svc, helpers, user, taken, base>> /\ Onward("config") /\ s'.pc = "index"
        /\ DOMAIN disk' = DOMAIN disk /\ disk'.task = disk.task
        /\ s'.report.config = "failed" \/ disk'.config = Plan.drives
    <2>1. \A o : Go("index", "config", o) => Onward("config") /\ s'.pc = "index" /\ s'.report.config = o
      BY <1>0, Goes DEF Report
    <2> QED
      BY <1>0, <2>1 DEF WriteConfig, Outcome, SetupTypes
  <1>2. SetupTypes'
    BY <1>0, <1>1 DEF SetupTypes, Onward, Before, Placed, Plan
  <1>3. ExeKept' /\ KeyHeld' /\ GoneSoFar'
    BY <1>0, <1>1 DEF SetupInv, ExeKept, KeyHeld, GoneSoFar, Onward, Before, Placed, Gone
  <1>4. NewStarts'
    BY <1>0, <1>1 DEF SetupInv, NewStarts, Onward, Report, Plan, Before
  <1> QED
    BY <1>2, <1>3, <1>4 DEF SetupInv

\* The index covers the drives of the plan, or the failure is reported.
LEMMA BuildIndexKeeps == SetupInv /\ BuildIndex => SetupInv'
  <1> SUFFICES ASSUME SetupInv, BuildIndex
               PROVE  SetupInv'
    OBVIOUS
  <1>0. SetupTypes /\ s.pc = "index"
    BY DEF SetupInv, BuildIndex, At
  <1>1. /\ UNCHANGED <<exe, svc, helpers, user, taken, base>> /\ Onward("index") /\ s'.pc = "resident"
        /\ DOMAIN disk' = DOMAIN disk /\ disk'.task = disk.task /\ disk'.config = disk.config
        /\ s'.report.index = "failed" \/ (disk'.snap # Nothing /\ disk'.snap[1].drives = Plan.drives)
    <2>1. \A o : Go("resident", "index", o) => Onward("index") /\ s'.pc = "resident" /\ s'.report.index = o
      BY <1>0, Goes DEF Report
    <2>2. CASE Reusable(disk.snap, Plan.drives)
      <3>1. Go("resident", "index", "skipped") /\ UNCHANGED <<disk, exe, svc, helpers, user, taken, base>>
        BY <2>2 DEF BuildIndex
      <3>2. disk.snap # Nothing /\ disk.snap[1].drives = Plan.drives
        BY <2>2 DEF Reusable
      <3> QED
        BY <2>1, <3>1, <3>2
    <2>3. CASE ~Reusable(disk.snap, Plan.drives)
      <3>1. PICK o \in Outcome : /\ Go("resident", "index", o)
                                 /\ disk' = IF o = "done" THEN [disk EXCEPT !.snap = Snap(Plan.drives, TRUE)] ELSE disk
        BY <2>3 DEF BuildIndex
      <3> QED
        BY <1>0, <2>1, <2>3, <3>1 DEF SetupTypes, Snap, Outcome, Nothing, BuildIndex
    <2>4. UNCHANGED <<exe, svc, helpers, user, taken, base>>
      BY DEF BuildIndex
    <2> QED
      BY <2>2, <2>3, <2>4
  <1>2. SetupTypes'
    BY <1>0, <1>1 DEF SetupTypes, Onward, Before, Placed, Plan
  <1>3. ExeKept' /\ KeyHeld' /\ GoneSoFar'
    BY <1>0, <1>1 DEF SetupInv, ExeKept, KeyHeld, GoneSoFar, Onward, Before, Placed, Gone
  <1>4. NewStarts'
    BY <1>0, <1>1 DEF SetupInv, NewStarts, Onward, Report, Plan, Before
  <1> QED
    BY <1>2, <1>3, <1>4 DEF SetupInv

\* The service registered, with an executable in place.
LEMMA RegisterServiceKeeps == SetupInv /\ RegisterService => SetupInv'
  <1> SUFFICES ASSUME SetupInv, RegisterService
               PROVE  SetupInv'
    OBVIOUS
  <1>0. SetupTypes /\ s.pc = "resident"
    BY DEF SetupInv, RegisterService, At
  <1>1. /\ UNCHANGED <<exe, helpers, user, taken, disk, base>> /\ Onward("service")
        /\ DOMAIN svc' = DOMAIN svc /\ \A k \in DOMAIN svc \ {"registered"} : svc'[k] = svc[k]
        /\ s'.pc \in {"start", "hotkey"}
    <2>1. \A pc, o : Go(pc, "service", o) => Onward("service") /\ s'.pc = pc
      BY <1>0, Goes DEF Report
    <2> QED
      BY <1>0, <2>1 DEF RegisterService, SetupTypes
  <1>2. SetupTypes'
    BY <1>0, <1>1 DEF SetupTypes, Onward, Before, Placed, Plan
  <1>3. ExeKept' /\ KeyHeld' /\ GoneSoFar'
    BY <1>0, <1>1 DEF SetupInv, SetupTypes, ExeKept, KeyHeld, GoneSoFar, Onward, Report, Before, Placed, Gone, Plan
  <1>4. NewStarts'
    BY <1>0, <1>1 DEF SetupInv, SetupTypes, NewStarts, Onward, Report, Plan, Before, Placed
  <1> QED
    BY <1>2, <1>3, <1>4 DEF SetupInv

\* A stopped service starts from the new executable and the new index.
LEMMA StartServiceKeeps == SetupInv /\ StartService => SetupInv'
  <1> SUFFICES ASSUME SetupInv, StartService
               PROVE  SetupInv'
    OBVIOUS
  <1>0. SetupTypes /\ s.pc = "start"
    BY DEF SetupInv, StartService, At
  <1>1. /\ UNCHANGED <<exe, helpers, user, taken, disk, base>> /\ Onward("start") /\ s'.pc \in {"check", "hotkey"}
        /\ DOMAIN svc' = DOMAIN svc /\ svc'.registered = svc.registered
        /\ \/ s'.report.start = "failed" \/ svc.state # "stopped"
           \/ /\ svc'.state = "running" /\ svc'.build = exe.dest
              /\ disk.snap # Nothing => svc'.drives = disk.snap[1].drives
    <2>1. \A pc, o : Go(pc, "start", o) => Onward("start") /\ s'.pc = pc /\ s'.report.start = o
      BY <1>0, Goes DEF Report
    <2>2. UNCHANGED <<exe, helpers, user, taken, disk, base>>
      BY DEF StartService
    <2>3. CASE svc' = Launched /\ Go("check", "start", "done")
      BY <1>0, <2>1, <2>2, <2>3 DEF Launched, SetupTypes
    <2>4. CASE UNCHANGED svc /\ svc.state # "stopped" /\ Go("check", "start", "done")
      BY <2>1, <2>2, <2>4
    <2>5. CASE UNCHANGED svc /\ Go("hotkey", "start", "failed")
      BY <2>1, <2>2, <2>5
    <2> QED
      BY <2>3, <2>4, <2>5 DEF StartService
  <1>2. SetupTypes'
    BY <1>0, <1>1 DEF SetupTypes, Onward, Before, Placed, Plan
  <1>3. ExeKept' /\ KeyHeld' /\ GoneSoFar'
    BY <1>0, <1>1 DEF SetupInv, SetupTypes, ExeKept, KeyHeld, GoneSoFar, Onward, Report, Before, Placed, Gone, Plan
  <1>4. NewStarts'
    BY <1>0, <1>1 DEF SetupInv, SetupTypes, NewStarts, Onward, Report, Plan, Before, Placed, ExeKept
  <1> QED
    BY <1>2, <1>3, <1>4 DEF SetupInv

\* The check changes nothing but the report.
LEMMA CheckServiceKeeps == SetupInv /\ CheckService => SetupInv'
  <1> SUFFICES ASSUME SetupInv, CheckService
               PROVE  SetupInv'
    OBVIOUS
  <1>0. SetupTypes /\ s.pc = "check"
    BY DEF SetupInv, CheckService, At
  <1>1. /\ UNCHANGED <<exe, svc, helpers, user, taken, disk, base>> /\ Onward("check") /\ s'.pc = "hotkey"
    BY <1>0, Goes DEF CheckService, Report
  <1>2. SetupTypes'
    BY <1>0, <1>1 DEF SetupTypes, Onward, Before, Placed, Plan
  <1>3. ExeKept' /\ KeyHeld' /\ GoneSoFar'
    BY <1>0, <1>1 DEF SetupInv, SetupTypes, ExeKept, KeyHeld, GoneSoFar, Onward, Report, Before, Placed, Gone, Plan
  <1>4. NewStarts'
    BY <1>0, <1>1 DEF SetupInv, SetupTypes, NewStarts, Onward, Report, Plan, Before, Placed
  <1> QED
    BY <1>2, <1>3, <1>4 DEF SetupInv

\* The task registered, with an executable in place.
LEMMA ScheduleTaskKeeps == SetupInv /\ ScheduleTask => SetupInv'
  <1> SUFFICES ASSUME SetupInv, ScheduleTask
               PROVE  SetupInv'
    OBVIOUS
  <1>0. SetupTypes /\ s.pc = "resident"
    BY DEF SetupInv, ScheduleTask, At
  <1>1. /\ UNCHANGED <<exe, svc, helpers, user, taken, base>> /\ Onward("task") /\ s'.pc = "hotkey"
        /\ DOMAIN disk' = DOMAIN disk /\ disk'.config = disk.config /\ disk'.snap = disk.snap
    <2>1. \A pc, o : Go(pc, "task", o) => Onward("task") /\ s'.pc = pc
      BY <1>0, Goes DEF Report
    <2> QED
      BY <1>0, <2>1 DEF ScheduleTask, SetupTypes
  <1>2. SetupTypes'
    BY <1>0, <1>1 DEF SetupTypes, Onward, Before, Placed, Plan
  <1>3. ExeKept' /\ KeyHeld' /\ GoneSoFar'
    BY <1>0, <1>1 DEF SetupInv, SetupTypes, ExeKept, KeyHeld, GoneSoFar, Onward, Report, Before, Placed, Gone, Plan
  <1>4. NewStarts'
    BY <1>0, <1>1 DEF SetupInv, SetupTypes, NewStarts, Onward, Report, Plan, Before, Placed
  <1> QED
    BY <1>2, <1>3, <1>4 DEF SetupInv

\* A shortcut is reported on only with a Run value and a helper for it.
LEMMA HotkeyKeeps == SetupInv /\ Hotkey => SetupInv'
  <1> SUFFICES ASSUME SetupInv, Hotkey
               PROVE  SetupInv'
    OBVIOUS
  <1>0. SetupTypes /\ s.pc = "hotkey"
    BY DEF SetupInv, Hotkey, At
  <1>1. /\ UNCHANGED <<exe, svc, taken, disk, base>> /\ Onward("hotkey") /\ s'.pc = "path"
        /\ helpers' \subseteq HelperSet
        /\ DOMAIN user' = DOMAIN user /\ user'.path = user.path /\ user'.run \in Combination
        /\ \/ s'.report.hotkey = "failed" \/ Plan.hotkey = Nothing
           \/ user'.run = Plan.hotkey /\ \E h \in helpers' : h.key = Plan.hotkey[1]
    <2>1. \A pc, o : Go(pc, "hotkey", o) => Onward("hotkey") /\ s'.pc = pc /\ s'.report.hotkey = o
      BY <1>0, Goes DEF Report
    <2>2. UNCHANGED <<exe, svc, taken, disk, base>> /\ helpers \subseteq HelperSet /\ user.run \in Combination
      BY <1>0 DEF Hotkey, SetupTypes
    <2>3. CASE Plan.hotkey = Nothing
      BY <2>1, <2>2, <2>3 DEF Hotkey
    <2>4. CASE Plan.hotkey # Nothing
      <3> DEFINE k == Plan.hotkey[1]
      <3>1. k \in Keys /\ Plan.hotkey = <<k>> /\ <<k>> \in Combination
        BY <1>0, <2>4, SetupAssumption DEF SetupTypes, Placed, Keys, Combination, Nothing
      <3> HIDE DEF k
      <3>2. HotkeyOn(k)
        BY <2>4, Zenon DEF Hotkey, k
      <3>3. Helper(k) \in HelperSet /\ Helper(k).key = k
        BY <3>1 DEF Helper, HelperSet, Free
      <3>4. CASE UNCHANGED <<user, helpers>> /\ Go("path", "hotkey", "failed")
        BY <2>1, <2>2, <3>4
      <3>5. CASE user' = [user EXCEPT !.run = <<k>>] /\ UNCHANGED helpers /\ Go("path", "hotkey", "failed")
        BY <1>0, <2>1, <2>2, <3>1, <3>5 DEF SetupTypes
      <3>6. CASE user' = [user EXCEPT !.run = <<k>>] /\ helpers' = helpers \cup {Helper(k)} /\ Go("path", "hotkey", "done")
        <4>1. DOMAIN user' = DOMAIN user /\ user'.path = user.path /\ user'.run = <<k>>
          BY <1>0, <3>6 DEF SetupTypes
        <4>2. helpers' \subseteq HelperSet /\ Helper(k) \in helpers'
          BY <2>2, <3>3, <3>6
        <4>3. user'.run = Plan.hotkey /\ user'.run \in Combination
          BY <3>1, <4>1, Zenon
        <4> QED
          BY <2>1, <2>2, <3>3, <3>6, <4>1, <4>2, <4>3 DEF k
      <3> QED
        BY <3>2, <3>4, <3>5, <3>6 DEF HotkeyOn
    <2> QED
      BY <2>3, <2>4
  <1>2. SetupTypes'
    BY <1>0, <1>1 DEF SetupTypes, Onward, Before, Placed, Plan
  <1>3. ExeKept' /\ KeyHeld' /\ GoneSoFar'
    BY <1>0, <1>1 DEF SetupInv, SetupTypes, ExeKept, KeyHeld, GoneSoFar, Onward, Report, Before, Placed, Gone, Plan
  <1>4. NewStarts'
    BY <1>0, <1>1 DEF SetupInv, SetupTypes, NewStarts, Onward, Report, Plan, Before, Placed
  <1> QED
    BY <1>2, <1>3, <1>4 DEF SetupInv

\* What an entry is added to still is a PATH.
LEMMA StringsStay ==
    ASSUME NEW path \in Seq(Entry)
    PROVE  WithEntry(path, Ours) \in Seq(Entry)
  <1> DEFINE some == {i \in DOMAIN path : path[i] # Empty}
  <1>1. some \in SUBSET (1 .. Len(path)) /\ Len(path) \in Nat
    BY LenProperties
  <1>2. \A m \in 1 .. Len(path) : SubSeq(path, 1, m) \in Seq(Entry)
    BY <1>1, SubSeqProperties, ElementOfSeq
  <1>3. Trimmed(path) = IF some = {} THEN <<>> ELSE SubSeq(path, 1, Max(some))
    BY Zenon DEF Trimmed
  <1> HIDE DEF some
  <1>4. Trimmed(path) \in Seq(Entry)
    <2>1. some # {} => Max(some) \in 1 .. Len(path)
      BY <1>1, MaxInSet
    <2>2. <<>> \in Seq(Entry)
      OBVIOUS
    <2> QED
      BY <1>2, <1>3, <2>1, <2>2, Zenon
  <1>5. Append(Trimmed(path), Ours) \in Seq(Entry)
    <2>1. Ours \in Entry
      BY DEF Entry
    <2> QED
      BY <1>4, <2>1, AppendProperties
  <1> QED
    BY <1>5, Zenon DEF WithEntry

\* PATH gets the entry.
LEMMA AddToPathKeeps == SetupInv /\ AddToPath => SetupInv'
  <1> SUFFICES ASSUME SetupInv, AddToPath
               PROVE  SetupInv'
    OBVIOUS
  <1>0. SetupTypes /\ s.pc = "path"
    BY DEF SetupInv, AddToPath, At
  <1>1. /\ UNCHANGED <<exe, svc, helpers, taken, disk, base>> /\ Onward("path") /\ s'.pc = "done"
        /\ DOMAIN user' = DOMAIN user /\ user'.run = user.run /\ user'.path \in Seq(Entry)
    <2>1. \A o : Go("done", "path", o) => Onward("path") /\ s'.pc = "done"
      BY <1>0, Goes DEF Report
    <2>2. WithEntry(user.path, Ours) \in Seq(Entry) /\ user.path \in Seq(Entry)
      BY <1>0, StringsStay DEF SetupTypes
    <2> QED
      BY <1>0, <2>1, <2>2 DEF AddToPath, SetupTypes
  <1>2. SetupTypes'
    BY <1>0, <1>1 DEF SetupTypes, Onward, Before, Placed, Plan
  <1>3. ExeKept' /\ KeyHeld' /\ GoneSoFar'
    BY <1>0, <1>1 DEF SetupInv, SetupTypes, ExeKept, KeyHeld, GoneSoFar, Onward, Report, Before, Placed, Gone, Plan
  <1>4. NewStarts'
    BY <1>0, <1>1 DEF SetupInv, SetupTypes, NewStarts, Onward, Report, Plan, Before, Placed
  <1> QED
    BY <1>2, <1>3, <1>4 DEF SetupInv

\* An uninstall begins.
LEMMA UninstallKeeps == SetupInv /\ Uninstall => SetupInv'
  <1> SUFFICES ASSUME SetupInv, Uninstall
               PROVE  SetupInv'
    OBVIOUS
  <1>1. /\ UNCHANGED <<exe, svc, helpers, user, taken, disk>> /\ base' = machine
        /\ s.pc \notin {"copy again"} /\ s'.pc = "rm service" /\ s'.stopped = FALSE
        /\ DOMAIN s' = {"pc", "plan", "build", "report", "stopped"} /\ s'.report = Report
    BY DEF Uninstall, Resting
  <1>2. SetupTypes'
    <2>1. DOMAIN base' = {"exe", "svc", "helpers", "user", "disk"} /\ base'.user = user
      BY <1>1 DEF machine
    <2> QED
      BY <1>1, <2>1 DEF SetupInv, SetupTypes, Before, Placed
  <1>3. ExeKept'
    BY <1>1 DEF SetupInv, ExeKept, Before, Placed
  <1>4. NewStarts'
    BY <1>1 DEF NewStarts, Before
  <1>5. KeyHeld' /\ GoneSoFar'
    BY <1>1 DEF KeyHeld, GoneSoFar, Gone, machine
  <1> QED
    BY <1>2, <1>3, <1>4, <1>5 DEF SetupInv

\* The service unregistered, or the failure reported.
LEMMA RemoveServiceKeeps == SetupInv /\ RemoveService => SetupInv'
  <1> SUFFICES ASSUME SetupInv, RemoveService
               PROVE  SetupInv'
    OBVIOUS
  <1>0. SetupTypes /\ s.pc = "rm service"
    BY DEF SetupInv, RemoveService, At
  <1>1. /\ UNCHANGED <<exe, helpers, user, taken, disk, base>> /\ Onward("service") /\ s'.pc = "rm task"
        /\ DOMAIN svc' = DOMAIN svc
        /\ svc'.registered => svc.registered
        /\ s'.report.service = "failed" \/ ~svc'.registered
    <2>1. \A o : Go("rm task", "service", o) => Onward("service") /\ s'.pc = "rm task" /\ s'.report.service = o
      BY <1>0, Goes DEF Report
    <2> QED
      BY <1>0, <2>1 DEF RemoveService, SetupTypes
  <1>2. SetupTypes'
    BY <1>0, <1>1 DEF SetupTypes, Onward, Before, Placed, Plan
  <1>3. ExeKept' /\ KeyHeld' /\ GoneSoFar'
    BY <1>0, <1>1 DEF SetupInv, SetupTypes, ExeKept, KeyHeld, GoneSoFar, Onward, Report, Before, Placed, Gone, Plan
  <1>4. NewStarts'
    BY <1>0, <1>1 DEF SetupInv, SetupTypes, NewStarts, Onward, Report, Plan, Before, Placed
  <1> QED
    BY <1>2, <1>3, <1>4 DEF SetupInv

\* The task unregistered, or the failure reported.
LEMMA RemoveTaskKeeps == SetupInv /\ RemoveTask => SetupInv'
  <1> SUFFICES ASSUME SetupInv, RemoveTask
               PROVE  SetupInv'
    OBVIOUS
  <1>0. SetupTypes /\ s.pc = "rm task"
    BY DEF SetupInv, RemoveTask, At
  <1>1. /\ UNCHANGED <<exe, svc, helpers, user, taken, base>> /\ Onward("task") /\ s'.pc = "rm hotkey"
        /\ DOMAIN disk' = DOMAIN disk /\ disk'.config = disk.config /\ disk'.snap = disk.snap
        /\ disk'.task => disk.task
        /\ s'.report.task = "failed" \/ ~disk'.task
    <2>1. \A o : Go("rm hotkey", "task", o) => Onward("task") /\ s'.pc = "rm hotkey" /\ s'.report.task = o
      BY <1>0, Goes DEF Report
    <2> QED
      BY <1>0, <2>1 DEF RemoveTask, SetupTypes
  <1>2. SetupTypes'
    BY <1>0, <1>1 DEF SetupTypes, Onward, Before, Placed, Plan
  <1>3. ExeKept' /\ KeyHeld' /\ GoneSoFar'
    BY <1>0, <1>1 DEF SetupInv, SetupTypes, ExeKept, KeyHeld, GoneSoFar, Onward, Report, Before, Placed, Gone, Plan
  <1>4. NewStarts'
    BY <1>0, <1>1 DEF SetupInv, SetupTypes, NewStarts, Onward, Report, Plan, Before, Placed
  <1> QED
    BY <1>2, <1>3, <1>4 DEF SetupInv

\* The Run value cleared.
LEMMA RemoveHotkeyKeeps == SetupInv /\ RemoveHotkey => SetupInv'
  <1> SUFFICES ASSUME SetupInv, RemoveHotkey
               PROVE  SetupInv'
    OBVIOUS
  <1>0. SetupTypes /\ s.pc = "rm hotkey"
    BY DEF SetupInv, RemoveHotkey, At
  <1>1. /\ UNCHANGED <<exe, svc, helpers, taken, disk, base>> /\ Onward("hotkey") /\ s'.pc = "rm path"
        /\ DOMAIN user' = DOMAIN user /\ user'.path = user.path
        /\ user'.run = Nothing /\ user'.run \in Combination
    <2>1. \A o : Go("rm path", "hotkey", o) => Onward("hotkey") /\ s'.pc = "rm path"
      BY <1>0, Goes DEF Report
    <2> QED
      BY <1>0, <2>1 DEF RemoveHotkey, SetupTypes, Nothing, Combination
  <1>2. SetupTypes'
    BY <1>0, <1>1 DEF SetupTypes, Onward, Before, Placed, Plan
  <1>3. ExeKept' /\ KeyHeld' /\ GoneSoFar'
    BY <1>0, <1>1 DEF SetupInv, SetupTypes, ExeKept, KeyHeld, GoneSoFar, Onward, Report, Before, Placed, Gone, Plan
  <1>4. NewStarts'
    BY <1>0, <1>1 DEF SetupInv, SetupTypes, NewStarts, Onward, Report, Plan, Before, Placed
  <1> QED
    BY <1>2, <1>3, <1>4 DEF SetupInv

\* The entry taken out of PATH, or the failure reported.
LEMMA RemovePathKeeps == SetupInv /\ RemovePath => SetupInv'
  <1> SUFFICES ASSUME SetupInv, RemovePath
               PROVE  SetupInv'
    OBVIOUS
  <1>0. SetupTypes /\ s.pc = "rm path"
    BY DEF SetupInv, RemovePath, At
  <1>1. /\ UNCHANGED <<exe, svc, helpers, taken, disk, base>> /\ Onward("path") /\ s'.pc = "rm index"
        /\ DOMAIN user' = DOMAIN user /\ user'.run = user.run /\ user'.path \in Seq(Entry)
        /\ s'.report.path = "failed" \/ user'.path = WithoutEntry(user.path, Ours)
    <2>1. \A o : Go("rm index", "path", o) => Onward("path") /\ s'.pc = "rm index" /\ s'.report.path = o
      BY <1>0, Goes DEF Report
    <2>2. WithoutEntry(user.path, Ours) \in Seq(Entry) /\ user.path \in Seq(Entry)
      BY <1>0, LeftIsPart DEF SetupTypes
    <2> QED
      BY <1>0, <2>1, <2>2 DEF RemovePath, SetupTypes
  <1>2. SetupTypes'
    BY <1>0, <1>1 DEF SetupTypes, Onward, Before, Placed, Plan
  <1>3. ExeKept' /\ KeyHeld' /\ GoneSoFar'
    BY <1>0, <1>1 DEF SetupInv, SetupTypes, ExeKept, KeyHeld, GoneSoFar, Onward, Report, Before, Placed, Gone, Plan
  <1>4. NewStarts'
    BY <1>0, <1>1 DEF SetupInv, SetupTypes, NewStarts, Onward, Report, Plan, Before, Placed
  <1> QED
    BY <1>2, <1>3, <1>4 DEF SetupInv

\* The index deleted or kept.
LEMMA RemoveIndexKeeps == SetupInv /\ RemoveIndex => SetupInv'
  <1> SUFFICES ASSUME SetupInv, RemoveIndex
               PROVE  SetupInv'
    OBVIOUS
  <1>0. SetupTypes /\ s.pc = "rm index"
    BY DEF SetupInv, RemoveIndex, At
  <1>1. /\ UNCHANGED <<exe, svc, helpers, user, taken, base>> /\ Onward("-") /\ s'.pc = "removed"
        /\ s'.report = s.report
        /\ DOMAIN disk' = DOMAIN disk /\ disk'.config = disk.config /\ disk'.task = disk.task
    <2>1. s' = [s EXCEPT !.pc = "removed"] /\ UNCHANGED <<exe, svc, helpers, user, taken, base>>
      BY DEF RemoveIndex
    <2>2. Onward("-") /\ s'.pc = "removed" /\ s'.report = s.report
      BY <1>0, <2>1, Turns DEF SetupTypes
    <2>3. DOMAIN disk' = DOMAIN disk /\ disk'.config = disk.config /\ disk'.task = disk.task
      BY <1>0 DEF RemoveIndex, SetupTypes
    <2> QED
      BY <2>1, <2>2, <2>3
  <1>2. SetupTypes'
    BY <1>0, <1>1 DEF SetupTypes, Onward, Before, Placed, Plan
  <1>3. ExeKept' /\ KeyHeld' /\ GoneSoFar'
    BY <1>0, <1>1 DEF SetupInv, SetupTypes, ExeKept, KeyHeld, GoneSoFar, Onward, Report, Before, Placed, Gone, Plan
  <1>4. NewStarts'
    BY <1>0, <1>1 DEF SetupInv, SetupTypes, NewStarts, Onward, Report, Plan, Before, Placed
  <1> QED
    BY <1>2, <1>3, <1>4 DEF SetupInv

\* A service that was stopping has stopped.
LEMMA ServiceEndsKeeps == SetupInv /\ ServiceEnds => SetupInv'
  <1> SUFFICES ASSUME SetupInv, ServiceEnds
               PROVE  SetupInv'
    OBVIOUS
  <1>0. SetupTypes
    BY DEF SetupInv
  <1>1. /\ UNCHANGED <<exe, helpers, user, taken, disk, s, base>> /\ svc.state = "stopping" /\ svc'.state = "stopped"
        /\ DOMAIN svc' = DOMAIN svc /\ \A k \in DOMAIN svc \ {"state"} : svc'[k] = svc[k]
    BY <1>0 DEF ServiceEnds, SetupTypes
  <1>2. SetupTypes'
    BY <1>0, <1>1 DEF SetupTypes, Plan
  <1>3. ExeKept' /\ KeyHeld' /\ GoneSoFar'
    <2>1. ExeKept' /\ GoneSoFar'
      BY <1>0, <1>1 DEF SetupInv, SetupTypes, ExeKept, GoneSoFar
    <2>2. KeyHeld'
      <3>1. Plan' = Plan /\ KeyHeld
        BY <1>1 DEF SetupInv, Plan
      <3> QED
        BY <1>1, <3>1 DEF KeyHeld
    <2> QED
      BY <2>1, <2>2
  <1>4. NewStarts'
    BY <1>0, <1>1 DEF SetupInv, SetupTypes, NewStarts, Plan
  <1> QED
    BY <1>2, <1>3, <1>4 DEF SetupInv

\* A running daemon saves: none was stopped for the executable then.
LEMMA DaemonSavesKeeps == SetupInv /\ DaemonSaves => SetupInv'
  <1> SUFFICES ASSUME SetupInv, DaemonSaves
               PROVE  SetupInv'
    OBVIOUS
  <1>0. SetupTypes
    BY DEF SetupInv
  <1>1. /\ UNCHANGED <<exe, svc, helpers, user, taken, s, base>> /\ svc.state # "stopped"
        /\ DOMAIN disk' = DOMAIN disk /\ disk'.config = disk.config /\ disk'.task = disk.task
    BY <1>0 DEF DaemonSaves, SetupTypes
  <1>2. SetupTypes'
    BY <1>0, <1>1 DEF SetupTypes, Plan
  <1>3. ExeKept' /\ KeyHeld' /\ GoneSoFar'
    <2>1. ExeKept' /\ GoneSoFar'
      BY <1>0, <1>1 DEF SetupInv, SetupTypes, ExeKept, GoneSoFar
    <2>2. KeyHeld'
      <3>1. Plan' = Plan /\ KeyHeld
        BY <1>1 DEF SetupInv, Plan
      <3> QED
        BY <1>1, <3>1 DEF KeyHeld
    <2> QED
      BY <2>1, <2>2
  <1>4. NewStarts'
    BY <1>0, <1>1 DEF SetupInv, SetupTypes, NewStarts, Plan, Before
  <1> QED
    BY <1>2, <1>3, <1>4 DEF SetupInv

\* A scan by hand covers what the config names while no daemon runs.
LEMMA ScanCommandKeeps == SetupInv /\ ScanCommand => SetupInv'
  <1> SUFFICES ASSUME SetupInv, ScanCommand
               PROVE  SetupInv'
    OBVIOUS
  <1>0. SetupTypes
    BY DEF SetupInv
  <1>1. /\ UNCHANGED <<exe, svc, helpers, user, taken, s, base>>
        /\ DOMAIN disk' = DOMAIN disk /\ disk'.config = disk.config /\ disk'.task = disk.task
        /\ disk'.snap # Nothing
        /\ svc.state = "stopped" => disk'.snap[1].drives = disk.config
    <2> DEFINE it == Snap(IF svc.state # "stopped" THEN svc.drives ELSE disk.config, TRUE)
    <2>1. it # Nothing /\ (svc.state = "stopped" => it[1].drives = disk.config)
      BY DEF Snap, Nothing
    <2> HIDE DEF it
    <2>2. disk' = [disk EXCEPT !.snap = it] /\ UNCHANGED <<exe, svc, helpers, user, taken, s, base>>
      BY DEF ScanCommand, it
    <2> QED
      BY <1>0, <2>1, <2>2 DEF SetupTypes
  <1>2. SetupTypes'
    BY <1>0, <1>1 DEF SetupTypes, Plan
  <1>3. ExeKept' /\ KeyHeld' /\ GoneSoFar'
    <2>1. ExeKept' /\ GoneSoFar'
      BY <1>0, <1>1 DEF SetupInv, SetupTypes, ExeKept, GoneSoFar
    <2>2. KeyHeld'
      <3>1. Plan' = Plan /\ KeyHeld
        BY <1>1 DEF SetupInv, Plan
      <3> QED
        BY <1>1, <3>1 DEF KeyHeld
    <2> QED
      BY <2>1, <2>2
  <1>4. NewStarts'
    BY <1>0, <1>1 DEF SetupInv, SetupTypes, NewStarts, Plan
  <1> QED
    BY <1>2, <1>3, <1>4 DEF SetupInv

\* Signing in starts the helper that the Run value names.
LEMMA SignInAgainKeeps == SetupInv /\ SignInAgain => SetupInv'
  <1> SUFFICES ASSUME SetupInv, SignInAgain
               PROVE  SetupInv'
    OBVIOUS
  <1>0. SetupTypes
    BY DEF SetupInv
  <1>1. /\ UNCHANGED <<exe, svc, user, taken, disk, s, base>> /\ helpers' \subseteq HelperSet
        /\ user.run # Nothing /\ exe.dest # "none" => \E h \in helpers' : h.key = user.run[1]
    <2>1. CASE user.run # Nothing /\ exe.dest # "none"
      <3> DEFINE h == [image |-> "dest", key |-> user.run[1], holds |-> user.run[1] \notin taken]
      <3>1. helpers' = {h} /\ UNCHANGED <<exe, svc, user, taken, disk, s, base>>
        BY <2>1 DEF SignInAgain
      <3>2. user.run[1] \in Keys
        <4>1. \E k \in Keys : user.run = <<k>>
          BY <1>0, <2>1 DEF SetupTypes, Combination, Keys, Nothing
        <4> QED
          BY <4>1
      <3>3. h \in HelperSet /\ h.key = user.run[1]
        BY <3>2 DEF HelperSet
      <3> HIDE DEF h
      <3> QED
        BY <2>1, <3>1, <3>3
    <2>2. CASE ~(user.run # Nothing /\ exe.dest # "none")
      BY <2>2 DEF SignInAgain
    <2> QED
      BY <2>1, <2>2
  <1>2. SetupTypes'
    BY <1>0, <1>1 DEF SetupTypes, Plan
  <1>3. ExeKept' /\ KeyHeld' /\ GoneSoFar'
    <2>1. ExeKept' /\ GoneSoFar'
      BY <1>0, <1>1 DEF SetupInv, SetupTypes, ExeKept, GoneSoFar
    <2>2. KeyHeld'
      <3>1. Plan' = Plan /\ KeyHeld /\ ExeKept
        BY <1>1 DEF SetupInv, Plan
      <3> QED
        BY <1>1, <3>1 DEF KeyHeld, ExeKept, Placed
    <2> QED
      BY <2>1, <2>2
  <1>4. NewStarts'
    BY <1>0, <1>1 DEF SetupInv, SetupTypes, NewStarts, Plan
  <1> QED
    BY <1>2, <1>3, <1>4 DEF SetupInv

\* What reads none of the changed variables stays as it was.
LEMMA SetupSame == SetupInv /\ UNCHANGED <<exe, svc, helpers, user, disk, s, base>> => SetupInv'
  <1> SUFFICES ASSUME SetupInv, UNCHANGED <<exe, svc, helpers, user, disk, s, base>>
               PROVE  SetupInv'
    OBVIOUS
  <1>1. SetupTypes'
    BY DEF SetupInv, SetupTypes, Plan
  <1>2. ExeKept' /\ GoneSoFar'
    BY DEF SetupInv, ExeKept, GoneSoFar
  <1>3. NewStarts'
    BY DEF SetupInv, NewStarts, Plan
  <1>4. KeyHeld'
    BY DEF SetupInv, KeyHeld, Plan
  <1> QED
    BY <1>1, <1>2, <1>3, <1>4 DEF SetupInv

\* Other programs take shortcuts and let go of them.
LEMMA OthersKeep ==
    ASSUME SetupInv, NEW k \in Keys, OtherTakes(k) \/ OtherReleases(k)
    PROVE  SetupInv'
  BY SetupSame DEF OtherTakes, OtherReleases

\* A helper that gets its shortcut late is the helper for it still.
LEMMA HelperRetriesKeeps == SetupInv /\ HelperRetries => SetupInv'
  <1> SUFFICES ASSUME SetupInv, HelperRetries
               PROVE  SetupInv'
    OBVIOUS
  <1>0. SetupTypes
    BY DEF SetupInv
  <1>1. /\ UNCHANGED <<exe, svc, user, taken, disk, s, base>> /\ helpers' \subseteq HelperSet
        /\ \A h \in helpers : \E g \in helpers' : g.key = h.key
    <2>1. PICK h \in helpers : Retry(h)
      BY DEF HelperRetries
    <2>2. h \in HelperSet
      BY <1>0 DEF SetupTypes
    <2> DEFINE g == [h EXCEPT !.holds = TRUE]
    <2>4. g \in HelperSet /\ g.key = h.key
      BY <2>2 DEF HelperSet
    <2>5. helpers' = (helpers \ {h}) \cup {g} /\ UNCHANGED <<exe, svc, user, taken, disk, s, base>>
      BY <2>1 DEF Retry
    <2> HIDE DEF g
    <2>6. helpers' \subseteq HelperSet
      BY <1>0, <2>4, <2>5 DEF SetupTypes
    <2> QED
      BY <2>4, <2>5, <2>6
  <1>2. SetupTypes'
    BY <1>0, <1>1 DEF SetupTypes, Plan
  <1>3. ExeKept' /\ KeyHeld' /\ GoneSoFar'
    <2>1. ExeKept' /\ GoneSoFar'
      BY <1>1 DEF SetupInv, ExeKept, GoneSoFar
    <2>2. KeyHeld'
      <3>1. Plan' = Plan /\ KeyHeld
        BY <1>1 DEF SetupInv, Plan
      <3> QED
        BY <1>1, <3>1 DEF KeyHeld
    <2> QED
      BY <2>1, <2>2
  <1>4. NewStarts'
    BY <1>0, <1>1 DEF SetupInv, SetupTypes, NewStarts, Plan
  <1> QED
    BY <1>2, <1>3, <1>4 DEF SetupInv

\* Each step of setup, of an uninstall and of the rest of the machine keeps the
\* invariant.
LEMMA SetupStep == SetupInv /\ [SetupNext]_setupVars => SetupInv'
  <1> SUFFICES ASSUME SetupInv, [SetupNext]_setupVars
               PROVE  SetupInv'
    OBVIOUS
  <1>1. CASE UNCHANGED setupVars
    BY <1>1, SetupSame DEF setupVars
  <1>2. CASE \E p \in Plans, b \in {"old", "new", "here"} : Start(p, b)
    BY <1>2, StartKeeps
  <1>3. CASE Install \/ StopService \/ KillHelpers \/ Copy \/ MoveAside \/ CopiedAgain \/ PutBack
    BY <1>3, InstallKeeps, StopServiceKeeps, KillHelpersKeeps, CopyKeeps, MoveAsideKeeps, CopiedAgainKeeps,
       PutBackKeeps
  <1>4. CASE WriteConfig \/ BuildIndex \/ RegisterService \/ StartService \/ CheckService \/ ScheduleTask
               \/ Hotkey \/ AddToPath
    BY <1>4, WriteConfigKeeps, BuildIndexKeeps, RegisterServiceKeeps, StartServiceKeeps, CheckServiceKeeps,
       ScheduleTaskKeeps, HotkeyKeeps, AddToPathKeeps
  <1>5. CASE Uninstall \/ RemoveService \/ RemoveTask \/ RemoveHotkey \/ RemovePath \/ RemoveIndex
    BY <1>5, UninstallKeeps, RemoveServiceKeeps, RemoveTaskKeeps, RemoveHotkeyKeeps, RemovePathKeeps, RemoveIndexKeeps
  <1>6. CASE ServiceEnds \/ DaemonSaves \/ ScanCommand \/ SignInAgain \/ HelperRetries
    BY <1>6, ServiceEndsKeeps, DaemonSavesKeeps, ScanCommandKeeps, SignInAgainKeeps, HelperRetriesKeeps
  <1>7. CASE \E k \in Keys : OtherTakes(k) \/ OtherReleases(k)
    BY <1>7, OthersKeep
  <1> QED
    BY <1>1, <1>2, <1>3, <1>4, <1>5, <1>6, <1>7 DEF SetupNext

\* There is an executable, and the right one runs: from ExeKept and NewStarts.
LEMMA ProgramIsKept == SetupInv => ProgramKept
  <1> SUFFICES ASSUME SetupInv
               PROVE  ProgramKept
    OBVIOUS
  <1>1. NeverWithoutExecutable
    BY DEF SetupInv, ExeKept, NeverWithoutExecutable, At
  <1>2. StartedRunsNewBuild
    BY DEF SetupInv, ExeKept, NewStarts, StartedRunsNewBuild, At, Placed
  <1> QED
    BY <1>1, <1>2 DEF ProgramKept

\* What is advertised works and what was removed is gone: from KeyHeld and GoneSoFar.
LEMMA PromisesAreKept == SetupInv => PromisesKept
  <1> SUFFICES ASSUME SetupInv
               PROVE  PromisesKept
    OBVIOUS
  <1>1. AdvertisedWorks
    BY DEF SetupInv, KeyHeld, AdvertisedWorks, Advertised, At
  <1>2. UninstalledIsGone
    <2> SUFFICES ASSUME At("removed"), Failures = {}
                 PROVE  /\ ~svc.registered /\ ~disk.task /\ user.run = Nothing
                        /\ ~ContainsEntry(user.path, Ours)
                        /\ Leaving(user.path, {Empty}) = Leaving(base.user.path, {Empty, Ours})
      BY Zenon DEF UninstalledIsGone
    <2>1. s.report.service # "failed" /\ s.report.task # "failed" /\ s.report.path # "failed"
      BY DEF SetupInv, SetupTypes, Failures, Report
    <2>2. ~svc.registered /\ ~disk.task /\ user.run = Nothing /\ user.path = WithoutEntry(base.user.path, Ours)
      BY <2>1 DEF SetupInv, GoneSoFar, At, Gone
    <2>3. base.user.path \in Seq(Entry)
      BY DEF SetupInv, SetupTypes
    <2> QED
      BY <2>2, <2>3, EntryTakenOut
  <1> QED
    BY <1>1, <1>2 DEF PromisesKept

\* Whichever step of setup fails, and whatever the service, the helpers and the user do in
\* between: what is registered to start finds an executable, an aborted run leaves the one
\* that was there, and a service restarted for the new one runs it and serves the drives
\* of the plan (apply.rs).
THEOREM ExecutableStays == SetupSpec => []ProgramKept
  <1>1. SetupSpec => []SetupInv
    BY SetupStart, SetupStep, PTL DEF SetupSpec
  <1> QED
    BY <1>1, ProgramIsKept, PTL

\* A shortcut that is advertised is in the Run value and has its helper, and an uninstall
\* that reports no failure leaves nothing registered and PATH in its old order without the
\* entry, in each of its spellings (apply.rs, pathenv.rs, hotkey.rs).
THEOREM SetupKeepsItsWord == SetupSpec => []PromisesKept
  <1>1. SetupSpec => []SetupInv
    BY SetupStart, SetupStep, PTL DEF SetupSpec
  <1> QED
    BY <1>1, PromisesAreKept, PTL

=============================================================================
