---------------------------- MODULE MCSearchCache ----------------------------
(***************************************************************************)
(* A small volume to search: a folder in the root, a file in it and a file *)
(* beside it, under names that contain, extend and repeat one another.     *)
(***************************************************************************)
EXTENDS Query

a == 97
b == 98
A == 65
sp == 32
star == 42
one == 63

MCSpell == [root |-> <<46>>, a |-> <<a>>, b |-> <<b>>, ab |-> <<a, b>>, Ab |-> <<A, b>>]

Entry(p, nm, dir, sz) ==
    [live |-> TRUE, seq |-> 1, parent |-> p, name |-> nm, dir |-> dir, size |-> sz]

Volume(x, y, z) ==
    (0 :> Entry(0, "root", TRUE, 0)) @@ (1 :> Entry(0, x, TRUE, 0)) @@
    (2 :> Entry(1, y, FALSE, 3)) @@ (3 :> Entry(0, z, FALSE, 6)) @@
    (4 :> [Entry(0, "root", FALSE, 0) EXCEPT !.live = FALSE])

MCMfts ==
    {Volume("a", "ab", "Ab"), Volume("ab", "b", "ab"), Volume("Ab", "Ab", "b"),
     Volume("ab", "a", "a")}

FewMfts == {Volume("a", "ab", "Ab"), Volume("ab", "b", "ab")}

PathAbAb == {<<"Ab", "Ab">>}

MCChange(kind, r, p, nm, sz) ==
    [kind |-> kind, rec |-> r, seq |-> 1, parent |-> p, name |-> nm,
     dir |-> FALSE, size |-> sz]

MCChanges ==
    {MCChange("created", 4, 1, "ab", 9), MCChange("renamed", 2, 0, "ab", 0),
     MCChange("renamed", 1, 0, "a", 0), MCChange("deleted", 3, 0, "a", 0),
     MCChange("resized", 2, 1, "a", 9)}

Ordinary ==
    [text |-> <<a>>, mode |-> "substring", cs |-> FALSE, only |-> "any",
     under |-> NoNode, childOf |-> NoNode, min |-> 0, hidden |-> FALSE,
     sort |-> "name", offset |-> 0, limit |-> 1]

Texts == {<<>>, <<a>>, <<a, b>>, <<a, sp>>, <<a, sp, b>>, <<sp, b>>}

MCQueries ==
    {[Ordinary EXCEPT !.text = t] : t \in Texts}
    \cup {[Ordinary EXCEPT !.text = t, !.cs = TRUE] : t \in {<<a>>, <<a, b>>}}
    \cup {[Ordinary EXCEPT !.text = t, !.offset = 1] : t \in {<<a>>, <<>>}}
    \cup {[Ordinary EXCEPT !.offset = 2], [Ordinary EXCEPT !.offset = 1, !.limit = 0]}
    \cup {[Ordinary EXCEPT !.text = t, !.sort = "size"] : t \in {<<a>>, <<a, b>>}}
    \cup {[Ordinary EXCEPT !.text = t, !.mode = "glob"] :
            t \in {<<star, b>>, <<one>>, <<star, a, star>>}}
    \cup {[Ordinary EXCEPT !.text = t, !.mode = "prefix", !.childOf = 0] :
            t \in {<<a>>, <<a, b>>}}
    \cup {[Ordinary EXCEPT !.under = 1, !.only = "files", !.hidden = TRUE],
          [Ordinary EXCEPT !.min = 6, !.only = "dirs"]}

FewQueries == {Ordinary, [Ordinary EXCEPT !.offset = 1], [Ordinary EXCEPT !.text = <<a, b>>]}

=============================================================================
