------------------------------ MODULE TextField ------------------------------
(***************************************************************************)
(* One line of text with a caret, as every prompt of the program edits it: *)
(* the find prompt and the path bar of the explorer, the query line and    *)
(* the line of the shell.  The caret is the number of characters in front  *)
(* of it.                                                                  *)
(***************************************************************************)
EXTENDS Integers, Sequences

Field(t) == [text |-> t, caret |-> Len(t)]

FieldInsert(f, c) ==
    [text  |-> SubSeq(f.text, 1, f.caret) \o <<c>> \o
               SubSeq(f.text, f.caret + 1, Len(f.text)),
     caret |-> f.caret + 1]

FieldDelete(f) ==
    [f EXCEPT !.text = SubSeq(@, 1, f.caret) \o SubSeq(@, f.caret + 2, Len(@))]

FieldBackspace(f) ==
    IF f.caret = 0 THEN f ELSE FieldDelete([f EXCEPT !.caret = @ - 1])

FieldLeft(f)  == [f EXCEPT !.caret = IF @ = 0 THEN 0 ELSE @ - 1]
FieldRight(f) == [f EXCEPT !.caret = IF @ = Len(f.text) THEN @ ELSE @ + 1]
FieldHome(f)  == [f EXCEPT !.caret = 0]
FieldEnd(f)   == [f EXCEPT !.caret = Len(f.text)]

(***************************************************************************)
(* Completion: what all the names that fit begin with.                     *)
(***************************************************************************)
LowerOf(c) == IF c = "A" THEN "a" ELSE c
StartsWith(name, part) ==
    /\ Len(part) <= Len(name)
    /\ \A i \in DOMAIN part : LowerOf(name[i]) = LowerOf(part[i])

\* The longest beginning all names share, spelled as the first spells it.
CommonPrefix(names) ==
    LET shared(n) == {k \in 0 .. Len(names[1]) : StartsWith(n, SubSeq(names[1], 1, k))}
        common    == {k \in 0 .. Len(names[1]) : \A i \in DOMAIN names : k \in shared(names[i])}
    IN  SubSeq(names[1], 1, CHOOSE k \in common : \A j \in common : j <= k)

CaretInside(f) == f.caret \in 0 .. Len(f.text)
=============================================================================
