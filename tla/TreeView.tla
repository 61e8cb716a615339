------------------------------ MODULE TreeView ------------------------------
(***************************************************************************)
(* The directory tree beside the editor (tree.rs) and the completion of a  *)
(* typed path (state.rs), against a disk given as what each directory      *)
(* lists.  A path is its characters, "/" between names.  A listing is read *)
(* when a directory is first shown and kept until refresh.                 *)
(***************************************************************************)
EXTENDS TextField, SequencesExt

CONSTANTS
    Root,      \* the folder the explorer is first opened on
    Dirs,      \* directories that exist: paths
    Files,     \* files that may exist
    Ranked     \* Dirs and Files in the order of their names

NotListed == <<"not listed">>
Denied    == <<"denied">>
NoRow == [path |-> <<>>, dir |-> FALSE, expanded |-> FALSE, depth |-> -1]

Slashes(p) == {i \in DOMAIN p : p[i] = "/"}
Slash(p) == CHOOSE i \in Slashes(p) : \A j \in Slashes(p) : j <= i
Parent(p) == IF Slashes(p) = {} THEN <<>> ELSE SubSeq(p, 1, Slash(p) - 1)
Name(p) == IF Slashes(p) = {} THEN p ELSE SubSeq(p, Slash(p) + 1, Len(p))
Above(p) == {SubSeq(p, 1, i - 1) : i \in Slashes(p)}

\* What a directory lists: folders first, then by name; nothing if it may not
\* be read.  `there` are the files that exist, `locked` the unreadable folders.
Entries(d, there, locked) ==
    LET in(p) == Parent(p) = d
        dirs  == SelectSeq(Ranked, LAMBDA p : in(p) /\ p \in Dirs)
        files == SelectSeq(Ranked, LAMBDA p : in(p) /\ p \in there)
    IN  IF d \in locked \/ d \notin Dirs THEN <<Denied>> ELSE dirs \o files

NewTree(root) ==
    [root |-> root, expanded |-> {}, selected |-> 1,
     listing |-> [d \in Dirs |-> <<NotListed>>]]

Refreshed(t) == [t EXCEPT !.listing = [d \in Dirs |-> <<NotListed>>]]
Expand(t, p)   == [t EXCEPT !.expanded = @ \cup {p}]
Collapse(t, p) == [t EXCEPT !.expanded = @ \ {p}]
Toggle(t, p) == IF p \in t.expanded THEN Collapse(t, p) ELSE Expand(t, p)

\* reveal: every folder between the root and the path.
Reveal(t, p) ==
    [t EXCEPT !.expanded = @ \cup {d \in Above(p) : d = t.root \/ t.root \in Above(d)}]

\* Bug: every look at the tree reads the disk again.
ChildrenReread(t, d, there, locked) == Entries(d, there, locked)

\* children: read once, then kept.
Children(t, d, there, locked) ==
    IF t.listing[d] = <<NotListed>> THEN Entries(d, there, locked) ELSE t.listing[d]

\* walk: a row per entry, below each expanded folder its own; a folder that
\* could not be read says so on a row.
Rows(t, there, locked) ==
    LET walk[d \in Dirs] ==
          LET depth == Cardinality(Slashes(d)) - Cardinality(Slashes(t.root))
              row(p) == [path |-> p, dir |-> p \in Dirs, depth |-> depth,
                         expanded |-> p \in Dirs /\ p \in t.expanded]
              es == Children(t, d, there, locked)
          IN  IF es = <<Denied>>
              THEN <<[path |-> d, dir |-> TRUE, depth |-> depth, expanded |-> TRUE]>>
              ELSE FlattenSeq([i \in 1..Len(es) |->
                      <<row(es[i])>> \o
                      (IF row(es[i]).expanded THEN walk[es[i]] ELSE <<>>)])
    IN  walk[t.root]

\* The folders a walk reads, now kept in the listing.
Walked(t, there, locked) ==
    LET shown == {t.root} \cup
          {r.path : r \in {s \in ToSet(Rows(t, there, locked)) : s.dir /\ s.expanded}}
    IN  [t EXCEPT !.listing = [d \in Dirs |->
            IF d \in shown THEN Children(t, d, there, locked) ELSE @[d]]]

Here(t, rows) == IF t.selected <= Len(rows) THEN rows[t.selected] ELSE NoRow

(***************************************************************************)
(* complete_path.                                                          *)
(***************************************************************************)
Completed(text, there, locked) ==
    LET dir  == Parent(text)
        es   == Entries(dir, there, locked)
        hits == SelectSeq(es, LAMBDA p : StartsWith(Name(p), Name(text)))
        done == CommonPrefix([i \in 1..Len(hits) |-> Name(hits[i])])
    IN  IF Slashes(text) = {} \/ es = <<Denied>> \/ hits = <<>>
           \/ Len(done) < Len(Name(text)) THEN text
        ELSE dir \o <<"/">> \o done \o
             (IF Len(hits) = 1 /\ hits[1] \in Dirs /\ Name(hits[1]) = done
              THEN <<"/">> ELSE <<>>)
=============================================================================
