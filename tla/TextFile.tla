------------------------------ MODULE TextFile ------------------------------
(***************************************************************************)
(* What the bytes of a file become in the editor (file.rs, inspect), and   *)
(* the text search of the find prompt (find.rs).  A byte is a letter or    *)
(* one of the bytes inspect looks for; byte-order marks count as one.      *)
(***************************************************************************)
EXTENDS EditBuffer, TextField, FiniteSets

CONSTANTS
    Byte,                         \* what a file may hold
    MaxBytes, MaxLines, MaxLine   \* MAX_BYTES, MAX_LINES, MAX_LINE

\* NL is what the editor makes of an ending, and no byte of a file.
ByteAssumption == NL \notin Byte /\ {"cr", "lf", "sp", "bom"} \subseteq Byte
ASSUME ByteAssumption

Crlf == <<"cr", "lf">>
Lf   == <<"lf">>

\* A load that is refused; otherwise the one buffer it gives.
Rejected == <<>>

Occurrences(bytes, c) == Cardinality({i \in DOMAIN bytes : bytes[i] = c})

Crlfs(text) == Cardinality({i \in 1 .. Len(text) - 1 : SubSeq(text, i, i + 1) = Crlf})

\* More than 0.3% of control characters.
TooManyControls(text) == 1000 * Occurrences(text, "ctl") > 3 * Len(text)

\* Pieces that end with '\n', and what follows the last of them.
Pieces(text) ==
    LET ps == Split([i \in 1..Len(text) |-> IF text[i] = "lf" THEN NL ELSE text[i]])
    IN  IF Len(ps) > 1 /\ Last(ps) = <<>> THEN Front(ps) ELSE ps

EndsInLf(text) == text # <<>> /\ Last(text) = "lf"

Bare(line) == IF line # <<>> /\ Last(line) = "cr" THEN Front(line) ELSE line

Dominant(text) == IF Occurrences(text, "lf") > 2 * Crlfs(text) THEN Lf ELSE Crlf

\* The lines of a text, their endings, and whether the last one has any.
Parsed(text, bom) ==
    LET ps      == Pieces(text)
        ended(i) == i < Len(ps) \/ EndsInLf(text)
        lines   == [i \in 1..Len(ps) |-> IF ended(i) THEN Bare(ps[i]) ELSE ps[i]]
        eols    == [i \in 1..Len(ps) |->
                      IF ~ended(i) THEN Dominant(text)
                      ELSE IF lines[i] # ps[i] THEN Crlf ELSE Lf]
    IN  FromParts(lines, eols, EndsInLf(text), bom, Dominant(text))

Inspect(bytes) ==
    LET bom  == bytes # <<>> /\ bytes[1] = "bom"
        text == IF bom THEN Tail(bytes) ELSE bytes
        b    == Parsed(text, bom)
    IN  IF \/ bytes # <<>> /\ bytes[1] \in {"utf16", "utf32"}
           \/ \E i \in DOMAIN bytes : bytes[i] \in {"nul", "bad"}
           \/ TooManyControls(text)
           \/ Len(b.lines) > MaxLines
           \/ \E i \in DOMAIN b.lines : Len(b.lines[i]) > MaxLine
        THEN Rejected ELSE <<b>>

TooLarge(bytes) == Len(bytes) > MaxBytes

(***************************************************************************)
(* Find.                                                                   *)
(***************************************************************************)
Fold(c) == IF c = "A" THEN "a" ELSE IF c = "B" THEN "b" ELSE c   \* to_ascii_lowercase

IsAt(line, w, col) ==
    /\ col + Len(w) <= Len(line)
    /\ \A k \in 1..Len(w) : Fold(line[col + k]) = Fold(w[k])

\* Matches in a line, left to right, none overlapping the one before.
HitsOnLine(line, w) ==
    LET from[col \in Nat] ==
          IF col + Len(w) > Len(line) THEN <<>>
          ELSE IF IsAt(line, w, col) THEN <<col>> \o from[col + Len(w)]
          ELSE from[col + 1]
    IN  from[0]

Matches(lines, w) ==
    IF w = <<>> THEN <<>>
    ELSE FlattenSeq([n \in 1..Len(lines) |->
            LET cols == HitsOnLine(lines[n], w)
            IN  [k \in 1..Len(cols) |-> Cursor(n, cols[k])]])

\* The first hit at or behind a place, or the first of all; 0 if there is none.
FirstFrom(hits, at) ==
    LET later == {i \in DOMAIN hits : ~Before(hits[i], at)}
    IN  IF hits = <<>> THEN 0 ELSE IF later = {} THEN 1
        ELSE CHOOSE i \in later : \A j \in later : i <= j

NewFind == [field |-> Field(<<>>), open |-> FALSE, origin |-> Cursor(1, 0),
            hits |-> <<>>, current |-> 0]

Rescan(f, lines, at) ==
    LET hits == Matches(lines, f.field.text)
    IN  [f EXCEPT !.hits = hits, !.current = FirstFrom(hits, at)]

Refresh(f, lines) == Rescan(f, lines, f.origin)

OpenFind(f, at, lines) ==
    Refresh([f EXCEPT !.open = TRUE, !.origin = at, !.field = FieldEnd(@)], lines)

NextHit(f)     == [f EXCEPT !.current = IF f.hits = <<>> THEN @
                                        ELSE (@ % Len(f.hits)) + 1]
PreviousHit(f) == [f EXCEPT !.current = IF f.hits = <<>> THEN @
                                        ELSE IF @ \in {0, 1} THEN Len(f.hits) ELSE @ - 1]

FindInsert(f, c, lines)   == Refresh([f EXCEPT !.field = FieldInsert(@, c)], lines)
FindBackspace(f, lines) ==
    IF f.field.caret = 0 THEN f
    ELSE Refresh([f EXCEPT !.field = FieldBackspace(@)], lines)
=============================================================================
