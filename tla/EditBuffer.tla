----------------------------- MODULE EditBuffer -----------------------------
(***************************************************************************)
(* The text of one open file, its cursor and its undo history (buffer.rs), *)
(* as functions from buffer to buffer.  A text is a sequence of characters *)
(* in which NL stands for '\n'; a line holds no NL.  Lines count from 1,   *)
(* columns are the number of characters in front of the cursor.            *)
(***************************************************************************)
EXTENDS Integers, Sequences, SequencesExt

NL == "nl"

Cursor(line, col) == [line |-> line, col |-> col]

Before(x, y) == x.line < y.line \/ (x.line = y.line /\ x.col < y.col)
Earlier(x, y) == IF Before(y, x) THEN y ELSE x
Later(x, y)   == IF Before(y, x) THEN x ELSE y

\* str::split('\n'): one line more than there are NLs.
Split(text) ==
    FoldLeft(LAMBDA ls, c :
                 IF c = NL THEN Append(ls, <<>>)
                 ELSE [ls EXCEPT ![Len(ls)] = Append(@, c)],
             << <<>> >>, text)

Joined(lines) ==
    Tail(FlattenSeq([i \in 1..Len(lines) |-> <<NL>> \o lines[i]]))

FromParts(lines, eols, trailing, bom, dominant) ==
    [lines |-> lines, eols |-> eols, trailing |-> trailing, bom |-> bom,
     dominant |-> dominant, cursor |-> Cursor(1, 0), undo |-> <<>>,
     redo |-> <<>>, savedAt |-> 0, coalescing |-> FALSE]

NoSave == -1   \* saved_at: None

Modified(b) == b.savedAt # Len(b.undo)

\* Whether line i is written with its ending.
Ended(b, i) == i < Len(b.lines) \/ b.trailing

ToBytes(b) ==
    (IF b.bom THEN <<"bom">> ELSE <<>>) \o
    FlattenSeq([i \in 1..Len(b.lines) |->
                    b.lines[i] \o (IF Ended(b, i) THEN b.eols[i] ELSE <<>>)])

\* Bug: a save does not end the run of typing.
WrittenTypingOn(b) == [b EXCEPT !.savedAt = Len(b.undo)]

Written(b) == [b EXCEPT !.savedAt = Len(b.undo), !.coalescing = FALSE]

(***************************************************************************)
(* Replacing a range.                                                      *)
(***************************************************************************)
LineLen(b, l) == Len(b.lines[l])

Clamp(b, at) ==
    LET l == IF at.line > Len(b.lines) THEN Len(b.lines) ELSE at.line
    IN  Cursor(l, IF at.col > LineLen(b, l) THEN LineLen(b, l) ELSE at.col)

Head_(b, at) == SubSeq(b.lines[at.line], 1, at.col)
Tail_(b, at) == SubSeq(b.lines[at.line], at.col + 1, LineLen(b, at.line))

Slice(b, from, to) ==
    IF from.line = to.line THEN SubSeq(b.lines[from.line], from.col + 1, to.col)
    ELSE Joined(<<Tail_(b, from)>> \o SubSeq(b.lines, from.line + 1, to.line - 1)
                \o <<Head_(b, to)>>)

\* Where a cursor at `at` ends up after typing `text`.
Advance(at, text) ==
    LET ls == Split(text)
    IN  IF Len(ls) = 1 THEN Cursor(at.line, at.col + Len(text))
        ELSE Cursor(at.line + Len(ls) - 1, Len(Last(ls)))

Splice(s, m, n, t) == SubSeq(s, 1, m - 1) \o t \o SubSeq(s, n + 1, Len(s))

\* The last line put in keeps the ending of the last line taken out; the
\* others get those of `keep`, or the ending most of the file has.
Replace(b, x, y, text, keep) ==
    LET from == Clamp(b, Earlier(x, y))
        to   == Clamp(b, Later(x, y))
        new  == Split(Head_(b, from) \o text \o Tail_(b, to))
        eols == [i \in 1..Len(new) |->
                    IF i = Len(new) THEN b.eols[to.line]
                    ELSE IF i <= Len(keep) THEN keep[i] ELSE b.dominant]
    IN  [b EXCEPT !.lines = Splice(@, from.line, to.line, new),
                  !.eols  = Splice(@, from.line, to.line, eols)]

(***************************************************************************)
(* Edits, and the history of them.                                         *)
(***************************************************************************)
\* A character typed right after the last edit, nothing taken out by either.
Coalesces(b, removed, coalescable) ==
    /\ coalescable /\ b.coalescing /\ b.undo # <<>>
    /\ Last(b.undo).after = b.cursor
    /\ Last(b.undo).removed = <<>> /\ removed = <<>>

Apply(b, from, to, text, coalescable) ==
    LET f       == Clamp(b, Earlier(from, to))
        t       == Clamp(b, Later(from, to))
        removed == Slice(b, f, t)
        after   == Advance(f, text)
        n       == Len(b.undo)
        done    == [Replace(b, from, to, text, <<>>) EXCEPT
                        !.cursor = after, !.redo = <<>>]
    IN  IF Coalesces(b, removed, coalescable)
        THEN [done EXCEPT !.undo[n].inserted = @ \o text, !.undo[n].after = after]
        ELSE [done EXCEPT
                !.savedAt = IF @ > n THEN NoSave ELSE @,
                !.undo = Append(@, [from |-> from, removed |-> removed,
                                    eols |-> SubSeq(b.eols, f.line, t.line - 1),
                                    inserted |-> text, before |-> b.cursor,
                                    after |-> after]),
                !.coalescing = coalescable]

InsertChar(b, c)   == Apply(b, b.cursor, b.cursor, <<c>>, c # NL)
InsertStr(b, text) == Apply(b, b.cursor, b.cursor, text, FALSE)

Backspace(b) ==
    LET at == b.cursor
    IN  IF at.col > 0 THEN Apply(b, Cursor(at.line, at.col - 1), at, <<>>, FALSE)
        ELSE IF at.line > 1
        THEN Apply(b, Cursor(at.line - 1, LineLen(b, at.line - 1)), at, <<>>, FALSE)
        ELSE b

Delete(b) ==
    LET at == b.cursor
    IN  IF at.col < LineLen(b, at.line)
        THEN Apply(b, at, Cursor(at.line, at.col + 1), <<>>, FALSE)
        ELSE IF at.line < Len(b.lines)
        THEN Apply(b, at, Cursor(at.line + 1, 0), <<>>, FALSE)
        ELSE b

Undo(b) ==
    IF b.undo = <<>> THEN b ELSE
    LET e == Last(b.undo)
        r == Replace(b, e.from, Advance(e.from, e.inserted), e.removed, e.eols)
    IN  [r EXCEPT !.cursor = Clamp(r, e.before), !.coalescing = FALSE,
                  !.undo = Front(@), !.redo = Append(@, e)]

Redo(b) ==
    IF b.redo = <<>> THEN b ELSE
    LET e == Last(b.redo)
        r == Replace(b, e.from, Advance(e.from, e.removed), e.inserted, <<>>)
    IN  [r EXCEPT !.cursor = Clamp(r, e.after), !.coalescing = FALSE,
                  !.redo = Front(@), !.undo = Append(@, e)]

(***************************************************************************)
(* Moving ends a run of typing.                                            *)
(***************************************************************************)
MoveTo(b, at) == [b EXCEPT !.coalescing = FALSE, !.cursor = at]

AtStart(b) == b.cursor = Cursor(1, 0)
OnLastLine(b) == b.cursor.line = Len(b.lines)

Goto(b, at) == MoveTo(b, Clamp(b, at))
Left(b) ==
    LET at == b.cursor
    IN  MoveTo(b, IF at.col > 0 THEN Cursor(at.line, at.col - 1)
                  ELSE IF at.line > 1 THEN Cursor(at.line - 1, LineLen(b, at.line - 1))
                  ELSE at)
Right(b) ==
    LET at == b.cursor
    IN  MoveTo(b, IF at.col < LineLen(b, at.line) THEN Cursor(at.line, at.col + 1)
                  ELSE IF at.line < Len(b.lines) THEN Cursor(at.line + 1, 0)
                  ELSE at)

Up(b) == IF b.cursor.line = 1 THEN MoveTo(b, b.cursor)
         ELSE Goto(b, Cursor(b.cursor.line - 1, b.cursor.col))
Down(b) == IF OnLastLine(b) THEN MoveTo(b, b.cursor)
           ELSE Goto(b, Cursor(b.cursor.line + 1, b.cursor.col))
Home(b) == MoveTo(b, Cursor(b.cursor.line, 0))
End(b)  == MoveTo(b, Cursor(b.cursor.line, LineLen(b, b.cursor.line)))
=============================================================================
