------------------------------ MODULE Terminal ------------------------------
(***************************************************************************)
(* The terminal view: a screen that a program draws with characters and    *)
(* control sequences (grid.rs), the pseudo-console behind it with a thread *)
(* that reads it (pty.rs), and the session that joins them (session.rs).   *)
(* The bytes are cut into sequences by the vte crate, external: here a     *)
(* program writes whole ones.  Rows and columns count from 1.              *)
(***************************************************************************)
EXTENDS Integers, Sequences, SequencesExt

CONSTANTS
    TermPlans,   \* what programs write, and in how many steps
    MaxHistory   \* SCROLLBACK

VARIABLES
    tplan,       \* the plan of this behaviour
    grid,        \* struct Grid
    pty,         \* bytes on their way in both directions, and the program
    wrote        \* history: what the program wrote and the screen took

termVars == <<tplan, grid, pty, wrote>>

Absent == <<>>
Min2(a, b) == IF a < b THEN a ELSE b
Max2(a, b) == IF a > b THEN a ELSE b

(***************************************************************************)
(* The grid.                                                               *)
(***************************************************************************)
PlainStyle == [fg |-> "default", bg |-> "default", bold |-> FALSE]
Cell(c, style) == <<c, style>>
Blank == Cell(" ", PlainStyle)

\* The rows (or cells) that are f(1), f(2), ...
Listed(f) == f \o <<>>

BlankRow(cols) == Listed([c \in 1..cols |-> Blank])
NewGrid(cols, rows) ==
    [cols |-> cols, rows |-> rows, cells |-> Listed([r \in 1..rows |-> BlankRow(cols)]),
     history |-> <<>>, row |-> 1, col |-> 1, wrap |-> FALSE, style |-> PlainStyle,
     saved |-> Absent, top |-> 1, bottom |-> rows, shown |-> TRUE, other |-> Absent,
     title |-> "", back |-> 0, replies |-> <<>>]

\* What is drawn: the screen, or as far back in history as was scrolled.
VisibleRows(g) ==
    LET all == g.history \o g.cells
        at  == Len(g.history) - Min2(g.back, Len(g.history))
    IN  SubSeq(all, at + 1, at + g.rows)

ScrollView(g, delta) == [g EXCEPT !.back = Max2(0, Min2(@ + delta, Len(g.history)))]
Follow(g) == [g EXCEPT !.back = 0]

Resized(g, cols, rows) ==
    IF cols = g.cols /\ rows = g.rows THEN g ELSE
    [g EXCEPT !.cols = cols, !.rows = rows, !.top = 1, !.bottom = rows, !.other = Absent,
              !.row = Min2(@, rows), !.col = Min2(@, cols),
              !.cells = Listed([r \in 1..rows |-> Listed([c \in 1..cols |->
                  IF r <= g.rows /\ c <= g.cols THEN g.cells[r][c] ELSE Blank])])]

\* blank_row keeps the background and drops the rest.
Erased(g) == Listed([c \in 1..g.cols |-> Cell(" ", [PlainStyle EXCEPT !.bg = g.style.bg])])

\* scroll_up, scroll_down by one: the region moves, and a full-screen region
\* hands its first line to history.
ScrollUp(g) ==
    LET kept == IF g.top = 1 /\ g.bottom = g.rows THEN Append(g.history, g.cells[1]) ELSE g.history
    IN  [g EXCEPT !.history = IF Len(kept) > MaxHistory THEN Tail(kept) ELSE kept,
                  !.cells = Listed([r \in 1..g.rows |->
                      IF r = g.bottom THEN Erased(g)
                      ELSE IF r >= g.top /\ r < g.bottom THEN g.cells[r + 1] ELSE g.cells[r]])]
ScrollDown(g) ==
    [g EXCEPT !.cells = Listed([r \in 1..g.rows |->
        IF r = g.top THEN Erased(g)
        ELSE IF r > g.top /\ r <= g.bottom THEN g.cells[r - 1] ELSE g.cells[r]])]
Times(Op(_), g, n) == FoldLeft(LAMBDA h, i : Op(h), g, [i \in 1..n |-> i])

Newline(g) ==
    IF g.row = g.bottom THEN ScrollUp(g)
    ELSE IF g.row < g.rows THEN [g EXCEPT !.row = @ + 1] ELSE g

\* A character in the last column leaves the cursor there: the line breaks
\* when the next one comes.
PutChar(g, c) ==
    LET h == IF g.wrap THEN [Newline([g EXCEPT !.col = 1]) EXCEPT !.wrap = FALSE] ELSE g
        w == [h EXCEPT !.cells[h.row][h.col] = Cell(c, h.style)]
    IN  Follow(IF h.col = h.cols THEN [w EXCEPT !.wrap = TRUE] ELSE [w EXCEPT !.col = @ + 1])

\* execute: line feed, carriage return, tab, backspace.
Execute(g, byte) ==
    LET h == Follow([g EXCEPT !.wrap = FALSE])
    IN  CASE byte = "lf" -> Newline(h)
          [] byte = "cr" -> [h EXCEPT !.col = 1]
          [] byte = "tab" -> [h EXCEPT !.col = Min2((((@ - 1) \div 8) + 1) * 8 + 1, h.cols)]
          [] byte = "bs" -> [h EXCEPT !.col = Max2(@ - 1, 1)]

(***************************************************************************)
(* Control sequences (csi_dispatch).  n is the first parameter, at least   *)
(* one where zero means one.                                               *)
(***************************************************************************)
CsiMove(g, c, n, m) ==
    CASE c = "A" -> [g EXCEPT !.row = Max2(@ - n, 1)]
      [] c = "B" -> [g EXCEPT !.row = Min2(@ + n, g.rows)]
      [] c = "C" -> [g EXCEPT !.col = Min2(@ + n, g.cols)]
      [] c = "D" -> [g EXCEPT !.col = Max2(@ - n, 1)]
      [] c = "E" -> [g EXCEPT !.row = Min2(@ + n, g.rows), !.col = 1]
      [] c = "F" -> [g EXCEPT !.row = Max2(@ - n, 1), !.col = 1]
      [] c = "G" -> [g EXCEPT !.col = Min2(n, g.cols)]
      [] c = "d" -> [g EXCEPT !.row = Min2(n, g.rows)]
      [] c = "H" -> [g EXCEPT !.row = Min2(n, g.rows), !.col = Min2(m, g.cols)]

\* J and K, with what = 0 (to the end), 1 (to the beginning) or 2 (all).
CsiErase(g, c, what) ==
    LET old(r) == g.cells[r]
        mark   == IF c = "K" THEN Erased(g)[1] ELSE Blank
        inRow(k) == CASE what = 0 -> k >= g.col [] what = 1 -> k <= g.col [] OTHER -> TRUE
        line   == IF c = "J" /\ what = 2 THEN Erased(g)
                  ELSE Listed([k \in 1..g.cols |-> IF inRow(k) THEN mark ELSE old(g.row)[k]])
        other(r) == CASE c = "J" /\ what = 0 -> r > g.row
                      [] c = "J" /\ what = 1 -> r < g.row
                      [] OTHER -> c = "J"
    IN  [g EXCEPT !.cells = Listed([r \in 1..g.rows |-> IF r = g.row THEN line
                                ELSE IF other(r) THEN Erased(g) ELSE old(r)])]

\* L, M insert and delete lines below the cursor; S, T scroll; @, P, X work on
\* the characters of the line.
CsiShift(g, c, n) ==
    LET below == [g EXCEPT !.top = g.row]
        inside == g.row \in g.top .. g.bottom
        k     == Min2(n, g.cols - g.col + 1)
        line  == g.cells[g.row]
        new   == Listed([i \in 1..g.cols |->
                    IF i < g.col THEN line[i]
                    ELSE CASE c = "@" -> IF i < g.col + k THEN Blank ELSE line[i - k]
                           [] c = "P" -> IF i + k <= g.cols THEN line[i + k] ELSE Blank
                           [] OTHER   -> IF i < g.col + k THEN Blank ELSE line[i]])
    IN  CASE c = "S" -> Times(ScrollUp, g, n)
          [] c = "T" -> Times(ScrollDown, g, n)
          [] c = "L" -> IF inside THEN [Times(ScrollDown, below, n) EXCEPT !.top = g.top] ELSE g
          [] c = "M" -> IF inside THEN [Times(ScrollUp, below, n) EXCEPT !.top = g.top] ELSE g
          [] OTHER   -> [g EXCEPT !.cells[g.row] = new]

\* r sets the region, s and u save and restore the cursor.
CsiRegion(g, c, top, bottom) ==
    CASE c = "r" -> IF top < bottom /\ bottom <= g.rows
                    THEN [g EXCEPT !.top = top, !.bottom = bottom, !.row = top, !.col = 1] ELSE g
      [] c = "s" -> [g EXCEPT !.saved = <<g.row, g.col>>]
      [] c = "u" -> IF g.saved = Absent THEN g
                    ELSE [g EXCEPT !.row = Min2(g.saved[1], g.rows), !.col = Min2(g.saved[2], g.cols)]

\* h and l: the cursor shown or not, the other screen taken or given back.
CsiMode(g, set, what) ==
    CASE what = 25 -> [g EXCEPT !.shown = set]
      [] what = 1049 /\ set /\ g.other = Absent ->
            [g EXCEPT !.other = <<g.cells>>, !.row = 1, !.col = 1,
                      !.cells = Listed([r \in 1..g.rows |-> BlankRow(g.cols)])]
      [] what = 1049 /\ ~set /\ g.other # Absent -> [g EXCEPT !.other = Absent, !.cells = g.other[1]]
      [] OTHER -> g

\* n asks where the cursor is, c what this terminal is.
CsiAsk(g, c) ==
    [g EXCEPT !.replies = Append(@, IF c = "n" THEN <<g.row, g.col>> ELSE <<"vt">>)]

\* m: colours and attributes; 38 and 48 take the parameters of their colour.
Sgr(style, params) ==
    LET step(acc, p) ==
          LET s == acc.style
              at == IF acc.what = 38 THEN "fg" ELSE "bg"
          IN  IF acc.skip > 1 THEN [acc EXCEPT !.skip = @ - 1]
              ELSE IF acc.skip = 1 THEN [acc EXCEPT !.skip = 0, !.style[at] = "mixed"]
              ELSE IF acc.what # 0 /\ acc.skip = -1
              THEN IF p = 5 THEN [acc EXCEPT !.skip = 1] ELSE IF p = 2 THEN [acc EXCEPT !.skip = 3]
                   ELSE [acc EXCEPT !.skip = 0, !.style.bold = @ \/ p = 1]
              ELSE CASE p = 0 -> [acc EXCEPT !.style = PlainStyle]
                     [] p = 1 -> [acc EXCEPT !.style.bold = TRUE]
                     [] p = 22 -> [acc EXCEPT !.style.bold = FALSE]
                     [] p \in 30..37 \/ p \in 90..97 -> [acc EXCEPT !.style.fg = "named"]
                     [] p \in 40..47 \/ p \in 100..107 -> [acc EXCEPT !.style.bg = "named"]
                     [] p = 39 -> [acc EXCEPT !.style.fg = "default"]
                     [] p = 49 -> [acc EXCEPT !.style.bg = "default"]
                     [] p \in {38, 48} -> [acc EXCEPT !.what = p, !.skip = -1]
                     [] OTHER -> acc
    IN  IF params = <<>> THEN PlainStyle
        ELSE FoldLeft(step, [style |-> style, what |-> 0, skip |-> 0], params).style

\* esc_dispatch: index, reverse index, next line, reset.
Escape(g, byte) ==
    CASE byte = "D" -> Newline(g)
      [] byte = "M" -> IF g.row = g.top THEN ScrollDown(g) ELSE [g EXCEPT !.row = Max2(@ - 1, 1)]
      [] byte = "E" -> Newline([g EXCEPT !.col = 1])
      [] byte = "c" -> NewGrid(g.cols, g.rows)

\* One sequence: <<kind, ...>>.
Perform(g, t) ==
    LET h == Follow([g EXCEPT !.wrap = FALSE])
    IN  CASE t[1] = "print" -> PutChar(g, t[2])
          [] t[1] = "control" -> Execute(g, t[2])
          [] t[1] = "move" -> CsiMove(h, t[2], t[3], t[4])
          [] t[1] = "erase" -> CsiErase(h, t[2], t[3])
          [] t[1] = "shift" -> CsiShift(h, t[2], t[3])
          [] t[1] = "region" -> CsiRegion(h, t[2], t[3], t[4])
          [] t[1] = "mode" -> CsiMode(h, t[2], t[3])
          [] t[1] = "ask" -> CsiAsk(h, t[2])
          [] t[1] = "style" -> [h EXCEPT !.style = Sgr(@, t[2])]
          [] t[1] = "escape" -> Escape(g, t[2])
          [] t[1] = "title" -> [g EXCEPT !.title = t[2]]

\* A run of them.
Performed(g, tokens) ==
    FoldLeft(LAMBDA h, t : CHOOSE k \in {Perform(b, t) : b \in {h}} : TRUE, g, tokens)

(***************************************************************************)
(* The session.                                                            *)
(***************************************************************************)
TermInit ==
    /\ tplan \in TermPlans
    /\ grid = NewGrid(tplan.cols, tplan.rows)
    /\ pty = [queue |-> <<>>, replies |-> 0, asked |-> 0, gone |-> FALSE, ended |-> FALSE]
    /\ wrote = <<>>

\* The program writes; one that asked something waits for the answer.
Program ==
    /\ ~pty.gone /\ pty.asked = pty.replies /\ Len(wrote) < tplan.length
    /\ \E w \in tplan.writes :
         /\ pty' = [pty EXCEPT !.queue = @ \o w,
                             !.asked = @ + Len(SelectSeq(w, LAMBDA t : t[1] = "ask"))]
         /\ wrote' = wrote \o w
    /\ UNCHANGED <<tplan, grid>>

\* It ends: the reading thread says so behind all it wrote.
ProgramEnds ==
    /\ ~pty.gone
    /\ pty' = [pty EXCEPT !.gone = TRUE, !.queue = Append(@, <<"ended">>)]
    /\ UNCHANGED <<tplan, grid, wrote>>

\* Bug: what the screen owes is not sent.
PumpMute ==
    /\ pty.queue # <<>>
    /\ grid' = Performed(grid, SelectSeq(pty.queue, LAMBDA t : t # <<"ended">>))
    /\ pty' = [pty EXCEPT !.queue = <<>>]
    /\ UNCHANGED <<tplan, wrote>>

\* pump: all there is, then what the screen owes the program.
Pump ==
    /\ pty.queue # <<>>
    /\ LET tokens == SelectSeq(pty.queue, LAMBDA t : t # <<"ended">>)
           g == Performed(grid, tokens)
       IN  /\ grid' = [g EXCEPT !.replies = <<>>]
           /\ pty' = [pty EXCEPT !.queue = <<>>, !.replies = @ + Len(g.replies),
                                 !.ended = Len(tokens) < Len(pty.queue)]
    /\ UNCHANGED <<tplan, wrote>>

\* The window changes size; keys and the wheel move the view: Shift+PageUp
\* and the wheel turned up by a negative number of lines.
ResizePane ==
    /\ \E size \in tplan.sizes : grid' = Resized(grid, size[1], size[2])
    /\ UNCHANGED <<tplan, pty, wrote>>
PageUp   == grid' = ScrollView(grid, -10) /\ UNCHANGED <<tplan, pty, wrote>>
PageDown == grid' = ScrollView(grid, 10) /\ UNCHANGED <<tplan, pty, wrote>>
Typed    == grid' = Follow(grid) /\ UNCHANGED <<tplan, pty, wrote>>   \* send

TermNext == Program \/ ProgramEnds \/ Pump \/ ResizePane \/ PageUp \/ PageDown \/ Typed

\* The event loop pumps once in every turn of it.
TermFairness == WF_termVars(Pump)

(***************************************************************************)
(* Properties.                                                             *)
(***************************************************************************)
\* Whatever a program writes in whatever size of window, the cursor, the
\* region, the screen put aside and the view stay inside the screen there is:
\* an index past it aborts the program and takes the other views with it.
GridWhole ==
    /\ DOMAIN grid.cells = 1..grid.rows
    /\ \A r \in 1..grid.rows : DOMAIN grid.cells[r] = 1..grid.cols
    /\ grid.row \in 1..grid.rows /\ grid.col \in 1..grid.cols
    /\ grid.top >= 1 /\ grid.top <= grid.bottom /\ grid.bottom <= grid.rows
    /\ grid.other # Absent => /\ Len(grid.other[1]) = grid.rows
                             /\ Len(grid.other[1][1]) = grid.cols
    /\ grid.back <= Len(grid.history) /\ Len(VisibleRows(grid)) = grid.rows

\* The lines a plain text makes: cut at the width, and no empty line behind a
\* line that is exactly as long as the screen is wide.
PlainLines(tokens, cols) ==
    FoldLeft(LAMBDA ls, t :
                IF t = <<"print", "x">>
                THEN IF Len(Last(ls)) = cols THEN Append(ls, <<"x">>)
                     ELSE Append(Front(ls), Append(Last(ls), "x"))
                ELSE IF t = <<"control", "lf">> THEN Append(ls, <<>>) ELSE ls,
             << <<>> >>, tokens)
Stripped(line) ==
    LET ends == {0} \cup {i \in DOMAIN line : line[i][1] # " "}
        end  == CHOOSE e \in ends : \A f \in ends : f <= e
    IN  [i \in 1..end |-> line[i][1]]

\* A program that only prints loses no line and gains none: history and screen
\* together are its text, each line broken where the screen ends.
NothingLostUpwards ==
    tplan.plain /\ pty.queue = <<>> /\ Len(grid.history) < MaxHistory =>
        LET all  == grid.history \o SubSeq(grid.cells, 1, grid.row)
        IN  [i \in DOMAIN all |-> Stripped(all[i])] = PlainLines(wrote, grid.cols)

\* A program that asks where the cursor is gets an answer, or nothing of it
\* would ever be seen (ConPTY asks before it draws).
AskedIsAnswered == (pty.asked # pty.replies) ~> (pty.asked = pty.replies)

\* Not kept (README): "Shift+PageUp and the mouse wheel scroll the history".
PageUpGoesBack ==
    [][PageUp /\ grid.history # <<>> /\ grid.back < Len(grid.history)
        => grid'.back > grid.back]_termVars
=============================================================================
