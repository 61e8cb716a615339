------------------------------- MODULE Screen -------------------------------
(***************************************************************************)
(* Where things are on the screen (layout.rs), what part of a list or a    *)
(* text is drawn and where the caret goes (ui.rs), and which colours a     *)
(* terminal gets (theme.rs): functions of the size and the state drawn.    *)
(* How a line of fixed and flexible parts is shared out when they do not   *)
(* fit is ratatui's business and external; Parts gives to the first ones.  *)
(***************************************************************************)
EXTENDS Integers, Sequences, SequencesExt, FiniteSets

Rect(x, y, w, h) == [x |-> x, y |-> y, w |-> w, h |-> h]
Less(a, b) == IF a > b THEN a - b ELSE 0               \* saturating_sub
Lower(a, b) == IF a < b THEN a ELSE b

Cells(r) == (r.x .. r.x + r.w - 1) \X (r.y .. r.y + r.h - 1)

\* Lengths along a line of `total`; the part whose length is Flexible gets the rest.
Flexible == -1
Parts(total, lens) ==
    LET fixed == FoldLeft(LAMBDA n, l : IF l = Flexible THEN n ELSE n + l, 0, lens)
        upTo  == [i \in 0 .. Len(lens) |->
                    FoldLeft(LAMBDA n, l : n + (IF l = Flexible THEN Less(total, fixed) ELSE l),
                             0, SubSeq(lens, 1, i))]
    IN  [i \in DOMAIN lens |->
            <<Lower(upTo[i - 1], total), Lower(upTo[i], total) - Lower(upTo[i - 1], total)>>]

Rows_(r, lens) == [i \in DOMAIN lens |->
    Rect(r.x, r.y + Parts(r.h, lens)[i][1], r.w, Parts(r.h, lens)[i][2])]
Columns(r, lens) == [i \in DOMAIN lens |->
    Rect(r.x + Parts(r.w, lens)[i][1], r.y, Parts(r.w, lens)[i][2], r.h)]

(***************************************************************************)
(* layout.rs.                                                              *)
(***************************************************************************)
RailWidth == 12
RailMinCols == 100
RailMinRows == 17
CompactMaxRows == 15
TreeWidth == 30
TreeMinCols == 90
ButtonWidth == 5
Buttons == 3

Compact(area) == area.h <= CompactMaxRows

SearchPanes(area, railWanted) ==
    LET outer == Rows_(area, <<Flexible, 1>>)
        rail  == railWanted /\ area.w >= RailMinCols /\ area.h >= RailMinRows
        cols  == IF rail THEN Columns(outer[1], <<RailWidth, Flexible>>) ELSE <<outer[1]>>
        rows  == Rows_(Last(cols), <<IF Compact(area) THEN 1 ELSE 3, Flexible>>)
    IN  [rail |-> IF rail THEN <<cols[1]>> ELSE <<>>,
         query |-> rows[1], results |-> rows[2], status |-> outer[2]]

ExplorerPanes(area, treeWanted, finding) ==
    LET rows == Rows_(area, <<1, Flexible, IF Compact(area) THEN 1 ELSE 3, 1>>)
        tree == treeWanted /\ area.w >= TreeMinCols
        cols == IF tree THEN Columns(rows[2], <<TreeWidth, Flexible>>) ELSE <<rows[2]>>
        find == finding /\ Last(cols).h > 1
        ed   == IF find THEN Rows_(Last(cols), <<Flexible, 1>>) ELSE <<Last(cols)>>
    IN  [title |-> rows[1], tree |-> IF tree THEN <<cols[1]>> ELSE <<>>, editor |-> ed[1],
         find |-> IF find THEN <<ed[2]>> ELSE <<>>, path |-> rows[3], status |-> rows[4]]

TerminalPanes(area) ==
    LET rows == Rows_(area, <<1, Flexible, 1>>)
    IN  [title |-> rows[1], screen |-> rows[2], status |-> rows[3]]

\* title_button_at, and what draw_title_bar draws: nothing if the buttons
\* would leave no title.
ButtonAt(bar, x, y) ==
    IF y # bar.y \/ bar.w < ButtonWidth * Buttons \/ x < bar.x + bar.w - ButtonWidth * Buttons
    THEN "none"
    ELSE LET n == (x - (bar.x + bar.w - ButtonWidth * Buttons)) \div ButtonWidth
         IN  IF n = 0 THEN "minimize" ELSE IF n = 1 THEN "maximize" ELSE "close"
ButtonsDrawn(bar) ==
    LET origin == bar.x + Less(bar.w, ButtonWidth * Buttons)
    IN  IF origin > bar.x
        THEN [i \in 1..Buttons |-> Rect(origin + ButtonWidth * (i - 1), bar.y, ButtonWidth, 1)]
        ELSE <<>>

\* The box of a dialog.
Centered(area, width, height) ==
    LET w == Lower(width, Less(area.w, 2))
        h == Lower(height, Less(area.h, 2))
    IN  Rect(area.x + Less(area.w, w) \div 2, area.y + Less(area.h, h) \div 2, w, h)

(***************************************************************************)
(* ui.rs: which rows are drawn, and the caret.                             *)
(***************************************************************************)
\* What draw says fits: a frame takes two rows, the header of a table one.
RowsOfResults(pane) == Less(pane.h, 3)
RowsOfEditor(pane)  == Less(pane.h, 2)

\* draw_tree: the first row drawn, so that the selected one (from 0) is.
TreeStart(pane, windowStart, selected) ==
    LET inner == Less(pane.h, 2)
        room  == IF inner = 0 THEN 1 ELSE inner
        start == Lower(windowStart, selected)
    IN  IF selected >= start + room THEN selected + 1 - room ELSE start

NoCaret == <<>>
Digits(n) == IF n < 10 THEN 1 ELSE IF n < 100 THEN 2 ELSE 3

\* draw_editor, draw_find_bar, draw_path_bar, draw_terminal.
EditorCaret(pane, lines, top, line, col) ==
    LET row == Less(line, top)
        c   == Digits(lines) + 1 + col
    IN  IF row < RowsOfEditor(pane) /\ c < Less(pane.w, 2)
        THEN <<pane.x + 1 + c, pane.y + 1 + row>> ELSE NoCaret
FindCaret(pane, caret) ==
    IF 7 + caret < pane.w THEN <<pane.x + 7 + caret, pane.y>> ELSE NoCaret
PathCaret(pane, compact, caret) ==
    IF caret >= Less(pane.w, 2) THEN NoCaret
    ELSE IF compact THEN <<pane.x + caret, pane.y>> ELSE <<pane.x + 1 + caret, pane.y + 1>>
TerminalCaret(pane, shown, back, row, col) ==
    IF shown /\ back = 0 /\ row < pane.h /\ col < pane.w
    THEN <<pane.x + col, pane.y + row>> ELSE NoCaret

(***************************************************************************)
(* ui.rs: text cut into what is marked and what is not.                    *)
(***************************************************************************)
Span(text, hit) == [text |-> text, hit |-> hit]
Shown(spans) == FlattenSeq([i \in DOMAIN spans |-> spans[i].text])
NonEmpty(spans) == SelectSeq(spans, LAMBDA s : s.text # <<>>)

\* highlight_hits: the hits of one line, found perhaps in an older text of it.
HighlightHits(text, cols, len) ==
    LET step(acc, col) ==
          LET start == Lower(col, Len(text))
              end   == Lower(col + len, Len(text))
          IN  IF start < acc.at THEN acc
              ELSE [at |-> end,
                    spans |-> acc.spans \o <<Span(SubSeq(text, acc.at + 1, start), FALSE),
                                             Span(SubSeq(text, start + 1, end), TRUE)>>]
        all == FoldLeft(step, [at |-> 0, spans |-> <<>>], cols)
    IN  NonEmpty(Append(all.spans, Span(SubSeq(text, all.at + 1, Len(text)), FALSE)))

\* occurrences: where each term of the query is, left to right, without case.
SmallByte(b) == IF b = "A" THEN "a" ELSE b
TermAt(path, term, i) ==
    i + Len(term) <= Len(path) /\
    \A k \in DOMAIN term : SmallByte(path[i + k]) = SmallByte(term[k])
Occurrences(path, terms) ==
    LET of(term) ==
          LET from[i \in 0 .. Len(path) + Len(term)] ==
                IF i + Len(term) > Len(path) THEN {}
                ELSE IF TermAt(path, term, i) THEN {<<i, i + Len(term)>>} \cup from[i + Len(term)]
                ELSE from[i + 1]
          IN  from[0]
    IN  UNION {of(terms[t]) : t \in DOMAIN terms}

\* path_spans: ranges that touch become one; a range that cuts a character
\* gives the whole path up as plain text.
Boundary(path, i) == i = Len(path) \/ path[i + 1] # "cont"
\* Bug: a range inside the one before it shortens it.
MergedToLast(ranges) ==
    LET inOrder == SetToSortSeq(ranges, LAMBDA r, s :
                       r[1] < s[1] \/ (r[1] = s[1] /\ r[2] > s[2]))
        add(ms, r) == IF ms # <<>> /\ r[1] <= Last(ms)[2]
                      THEN Append(Front(ms), <<Last(ms)[1], r[2]>>) ELSE Append(ms, r)
    IN  FoldLeft(add, <<>>, inOrder)

Merged(ranges) ==
    LET inOrder == SetToSortSeq(ranges, LAMBDA r, s :
                       r[1] < s[1] \/ (r[1] = s[1] /\ r[2] < s[2]))
        add(ms, r) == IF ms # <<>> /\ r[1] <= Last(ms)[2]
                      THEN Append(Front(ms), <<Last(ms)[1],
                                               IF r[2] > Last(ms)[2] THEN r[2] ELSE Last(ms)[2]>>)
                      ELSE Append(ms, r)
    IN  FoldLeft(add, <<>>, inOrder)
PathSpans(path, terms, selected) ==
    LET ms   == Merged(Occurrences(path, terms))
        ends == {0} \cup {ms[i][1] : i \in DOMAIN ms} \cup {ms[i][2] : i \in DOMAIN ms}
        at(i) == IF i = 0 THEN 0 ELSE ms[i][2]
        cut  == FlattenSeq([i \in DOMAIN ms |->
                   <<Span(SubSeq(path, at(i - 1) + 1, ms[i][1]), FALSE),
                     Span(SubSeq(path, ms[i][1] + 1, ms[i][2]), TRUE)>>])
    IN  IF selected \/ terms = <<>> \/ ms = <<>> \/ \E e \in ends : ~Boundary(path, e)
        THEN <<Span(path, FALSE)>>
        ELSE NonEmpty(Append(cut, Span(SubSeq(path, at(Len(ms)) + 1, Len(path)), FALSE)))

\* share_bar: tenths of the largest size, rounded half up.
Filled(size, max) == IF max = 0 THEN 0 ELSE Lower((20 * size + max) \div (2 * max), 10)

(***************************************************************************)
(* theme.rs.                                                               *)
(***************************************************************************)

Theme(env) ==
    LET true == ~env.noColor /\ (env.windows \/ env.truecolor \/ env.colors256)
    IN  [palette |-> IF env.noColor THEN "mono" ELSE IF true THEN "true" ELSE "ansi",
         rounded |-> env.wt, panels |-> true /\ env.panels]
Ground(t) == IF t.panels THEN "dark" ELSE "own"
Ink(t)    == IF t.panels THEN "light" ELSE "own"
Accent(t) == IF t.palette = "mono" THEN "own" ELSE "accent"
OnAccent(t) == IF t.palette = "mono" THEN "own" ELSE "black"
Heat(t, mib) ==
    IF t.palette = "mono" THEN "none"
    ELSE IF mib >= 1024 THEN "red"
    ELSE IF t.palette = "true" /\ mib >= 400 THEN "orange"
    ELSE IF mib >= 100 THEN "yellow" ELSE "none"

(***************************************************************************)
(* What is drawn, for every size and state.                                *)
(***************************************************************************)
Apart(panes, area) ==
    /\ \A i \in DOMAIN panes : Cells(panes[i]) \subseteq Cells(area)
    /\ \A i, j \in DOMAIN panes : i # j => Cells(panes[i]) \cap Cells(panes[j]) = {}

\* layout.rs: however small the window is, no pane covers another or leaves the
\* screen, a dialog stays on it, and a button acts where it is drawn.
PanesFit(area, wanted, dialog) ==
    LET search == SearchPanes(area, wanted)
        edit   == ExplorerPanes(area, wanted, ~wanted)
        find   == ExplorerPanes(area, wanted, wanted)
        term   == TerminalPanes(area)
        drawn  == ButtonsDrawn(term.title)
        names  == <<"minimize", "maximize", "close">>
    IN  /\ Apart(search.rail \o <<search.query, search.results, search.status>>, area)
        /\ \A e \in {edit, find} :
             Apart(e.tree \o e.find \o <<e.title, e.editor, e.path, e.status>>, area)
        /\ Apart(<<term.title, term.screen, term.status>>, area)
        /\ Cells(Centered(area, dialog, dialog)) \subseteq Cells(area)
        /\ \A i \in DOMAIN drawn : \A c \in Cells(drawn[i]) :
             ButtonAt(term.title, c[1], c[2]) = names[i]

\* ui.rs: the selected row of the tree is among the rows drawn, and a caret is
\* put inside its pane, when the pane has a row, or nowhere.
SelectedDrawn(pane, from, at) ==
    /\ pane.h > 2 => at \in TreeStart(pane, from, at) .. TreeStart(pane, from, at) + pane.h - 3
    /\ \A caret \in {EditorCaret(pane, 12, from, at, from), FindCaret(pane, at),
                     PathCaret(pane, pane.h = 1, at), TerminalCaret(pane, TRUE, 0, at, from)} :
         caret # NoCaret /\ pane.h > 0 => caret \in Cells(pane)

\* The places of a text that are drawn as hits.
Places(spans) ==
    LET upTo(i) == Len(Shown(SubSeq(spans, 1, i)))
    IN  UNION {IF spans[i].hit THEN upTo(i - 1) + 1 .. upTo(i) ELSE {} : i \in DOMAIN spans}

\* ui.rs: marking hits changes no character of a line, even when the hits are
\* of an older text of it or run into one another, and marks only hits.
LineKept(text, cols, len) ==
    LET spans == HighlightHits(text, cols, len)
    IN  /\ Shown(spans) = text
        /\ Places(spans) \subseteq UNION {cols[i] + 1 .. cols[i] + len : i \in DOMAIN cols}

\* ui.rs: a path is drawn whole, with every place marked that a term has in it
\* and no other, unless a mark would cut a character.
PathKept(path, terms) ==
    LET spans == PathSpans(path, terms, FALSE)
        hits  == UNION {r[1] + 1 .. r[2] : r \in Occurrences(path, terms)}
    IN  /\ Shown(spans) = path
        /\ Places(spans) \in {hits, {}}
        /\ (\A i \in DOMAIN path : path[i] # "cont") => Places(spans) = hits

\* theme.rs: light ink only on panels that are painted, nothing but the
\* terminal's own colours where they are not wanted, and text on the accent
\* that is not the accent's colour.
ThemeReadable(env) ==
    LET t == Theme(env)
    IN  /\ Ground(t) = "dark" <=> Ink(t) = "light"
        /\ env.noColor => /\ Ground(t) = "own" /\ Accent(t) = "own" /\ OnAccent(t) = "own"
                          /\ Heat(t, env.mib) = "none"
        /\ Accent(t) = "accent" <=> OnAccent(t) = "black"
=============================================================================
