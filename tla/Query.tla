------------------------------- MODULE Query -------------------------------
(***************************************************************************)
(* What the daemon makes of a request before it searches (query.rs): text  *)
(* shaped like a path browses the folder it names, a path that names none  *)
(* becomes the terms it is made of, and an answer without rows is asked    *)
(* for again by its last segment.  The other requests list a folder's      *)
(* children and the largest folders.                                       *)
(*                                                                         *)
(* A request is a query whose text is what the user typed.  Which rows a   *)
(* query matches is module SearchScan; serving it from cached rows is      *)
(* module SearchCache.  Abstracted: one volume, under the drive letter     *)
(* Drive; the fields of a row other than its path and size.                *)
(***************************************************************************)
EXTENDS SearchCache

CONSTANT Drive        \* the letter of the indexed volume

Space == 32
Separators == {92, 47}
IsLetter(c) == c \in (65 .. 90) \cup (97 .. 122)

Trim(text) ==
  LET some == {i \in DOMAIN text : text[i] # Space}
  IN  IF some = {} THEN <<>> ELSE SubSeq(text, Min(some), Max(some))

\* split at every separator, empty parts included
Split(text) ==
  LET step(parts, c) == IF c \in Separators THEN Append(parts, <<>>)
                        ELSE [parts EXCEPT ![Len(parts)] = Append(@, c)]
  IN  FoldLeft(step, <<(<<>>)>>, text)

Segments(text) == LET some(part) == part # <<>> IN SelectSeq(Split(text), some)

HasDrive(text) ==
  LET b == Trim(text) IN Len(b) >= 2 /\ b[2] = 58 /\ IsLetter(b[1])

LooksLikePath(text) == HasDrive(text) \/ \E i \in DOMAIN text : text[i] \in Separators

(***************************************************************************)
(* Index::lookup by text: the drive, then for each segment the first node  *)
(* under the last that has its name, in any case.                          *)
(***************************************************************************)
LookupText(ix, text) ==
  LET path == Trim(text)
      down(p, seg) ==
        LET kids == {m \in All(ix) : ix.parent[m] = p /\ m # p /\ SameText(NameOf(ix, m), seg, FALSE)}
        IN  IF p = NoNode \/ kids = {} THEN NoNode ELSE Min(kids)
  IN  IF Len(path) < 2 \/ path[2] # 58 \/ Lower(path[1]) # Lower(Drive) THEN NoNode
      ELSE FoldLeft(down, ix.rec[RootRec], Segments(SubSeq(path, 3, Len(path))))

\* Bug: the folder is what stands before the first separator.
BrowseAtFirst(ix, typed) ==
  LET text == Trim(typed)
      seps == {i \in DOMAIN text : text[i] \in Separators}
      dir  == LookupText(ix, IF seps = {} THEN text ELSE SubSeq(text, 1, Min(seps) - 1))
  IN  IF ~LooksLikePath(text) \/ dir = NoNode \/ dir \notin ix.dir THEN <<>>
      ELSE <<[dir |-> dir,
              partial |-> IF seps = {} THEN <<>> ELSE SubSeq(text, Max(seps) + 1, Len(text))]>>

\* the folder before the last separator and the name begun after it, if there is such a folder
BrowseTarget(ix, typed) ==
  LET text == Trim(typed)
      seps == {i \in DOMAIN text : text[i] \in Separators}
      dir  == LookupText(ix, IF seps = {} THEN text ELSE SubSeq(text, 1, Max(seps) - 1))
  IN  IF ~LooksLikePath(text) \/ dir = NoNode \/ dir \notin ix.dir THEN <<>>
      ELSE <<[dir |-> dir,
              partial |-> IF seps = {} THEN <<>> ELSE SubSeq(text, Max(seps) + 1, Len(text))]>>

LastSegment(text) == IF Segments(text) = <<>> THEN text ELSE Segments(text)[Len(Segments(text))]

\* the segments of a path as words; a drive is not one
PathTerms(text) ==
  LET trimmed == [i \in DOMAIN Split(text) |-> Trim(Split(text)[i])]
      word(seg) == seg # <<>> /\ ~(Len(seg) = 2 /\ seg[2] = 58 /\ IsLetter(seg[1]))
      join(got, seg) == IF got = <<>> THEN seg ELSE got \o <<Space>> \o seg
  IN  FoldLeft(join, <<>>, SelectSeq(trimmed, word))

(***************************************************************************)
(* execute                                                                 *)
(***************************************************************************)
\* to_query: the folder a search is limited to, as its text; NoText: none
NoText == <<>>
ToQuery(ix, req) ==
  [req.q EXCEPT !.under = IF req.under = NoText THEN NoNode ELSE LookupText(ix, req.under)]

Pathish(req) == req.q.mode # "glob" /\ LooksLikePath(req.q.text)

Planned(ix, req) ==
  LET q == ToQuery(ix, req)
      to == BrowseTarget(ix, q.text)
  IN  IF ~Pathish(req) THEN q
      ELSE IF to = <<>> THEN [q EXCEPT !.text = PathTerms(@)]
      ELSE [q EXCEPT !.mode = "prefix", !.childOf = Head(to).dir, !.text = Head(to).partial]

Retried(ix, req) ==
  [ToQuery(ix, req) EXCEPT !.text = LastSegment(@), !.mode = "substring", !.childOf = NoNode]

\* what a search of the arena answers a query with
Answered(ix, q) ==
  LET less(x, y) ==
        LET rank(m) == RankName(NameOf(ix, m), Terms(q.text))
        IN  rank(x) < rank(y) \/ (rank(x) = rank(y) /\ Before(ix, q.sort, x, y))
      all == FullScan(ix, arena, q)
  IN  [total |-> Cardinality(all), nodes |-> Page(SetToSortSeq(all, less), q.offset, q.limit)]

Refusal == [total |-> -1, nodes |-> <<>>]

Execute(ix, req) ==
  LET first == Answered(ix, Planned(ix, req))
      browsed == Pathish(req) /\ BrowseTarget(ix, req.q.text) # <<>>
  IN  IF req.under # NoText /\ LookupText(ix, req.under) = NoNode THEN Refusal
      ELSE IF first.nodes = <<>> /\ (browsed \/ HasDrive(req.q.text)) THEN Answered(ix, Retried(ix, req))
      ELSE first

Largest(ix, ns, top) ==
  LET less(x, y) == Before(ix, "size", x, y)
      all == SetToSortSeq(ns, less)
  IN  SubSeq(all, 1, Min({top, Len(all)}))

Children(ix, d) == {m \in All(ix) : ix.parent[m] = d /\ m # d}

\* `batuta size`: a folder and its largest children
SizeInfo(ix, d, top) ==
  [total |-> ix.size[d], files |-> ix.files[d],
   children |-> Largest(ix, {m \in Children(ix, d) : m \notin ix.excl /\ m \notin ix.del}, top)]

OwnBytes(ix, d) ==
  MapThenSumSet(LAMBDA m : ix.size[m], {m \in Children(ix, d) : m \notin ix.dir /\ m \notin ix.excl})

\* `batuta bloat`: the largest folders; 0 lists them all
LargestDirs(ix, under, top) ==
  LET dirs == {m \in All(ix) : /\ m \in ix.dir /\ m \notin ix.excl /\ ~IsRoot(ix, m)
                               /\ under # NoNode => m = under \/ under \in Ancestors(ix, m)}
  IN  Largest(ix, dirs, IF top = 0 THEN Cardinality(dirs) ELSE top)

Bloat(ix, under, top) ==
  [i \in DOMAIN LargestDirs(ix, under, top) |->
     [dir |-> LargestDirs(ix, under, top)[i], own |-> OwnBytes(ix, LargestDirs(ix, under, top)[i])]]

(***************************************************************************)
(* Properties.                                                             *)
(***************************************************************************)
Plain == [text |-> <<>>, mode |-> "substring", cs |-> FALSE, only |-> "any", under |-> NoNode,
          childOf |-> NoNode, min |-> 0, hidden |-> FALSE, sort |-> "name", offset |-> 0, limit |-> 0]

Typed(text) == [q |-> [Plain EXCEPT !.text = text], under |-> NoText]

Visible == {m \in All(index) : m \notin index.del /\ m \notin index.excl /\ ~IsRoot(index, m)}

\* The names from the volume's root down to m, each behind a separator.
PathText(m) ==
  LET join(got, nm) == got \o <<92>> \o Spell[nm] IN FoldLeft(join, <<>>, PathOf(index, m))

\* The folders on the way to m are the ones their names lead to.
Reached(m) ==
  LET text == <<Drive, 58>> \o PathText(m) IN LookupText(index, text) = m

\* A path can be typed: at every letter of its last name, in either way of
\* writing the drive's separator, the file or folder it is going to name is
\* among the rows, and until a name is finished so is all that it could
\* become - however the index changed.  Typed without its drive the path is
\* its words, and every row has all of them on its way up.
PathsCanBeTyped ==
  \A m \in {v \in Visible : Reached(v)} :
    LET path == PathText(m)
        name == NameOf(index, m)
        rows(text) == ToSet(Execute(index, Typed(text)).nodes)
    IN  /\ \A cut \in 0 .. Len(name) :
             m \in rows(<<Drive, 58>> \o SubSeq(path, 1, Len(path) - cut))
        /\ m \in rows(SubSeq(path, 2, Len(path)))
        /\ \A n \in rows(SubSeq(path, 2, Len(path))) : \A a \in Line(index, m) \ {index.rec[RootRec]} :
             \E b \in Line(index, n) : Occurs(NameOf(index, b), NameOf(index, a), FALSE)

\* The rows `size` lists for a folder add up to the total above them, and the
\* own bytes `bloat` gives its folders, with those of the root, to the volume's.
ListingsAddUp ==
  LET root == index.rec[RootRec]
      own == Bloat(index, NoNode, 0)
  IN  /\ \A d \in (Visible \cap index.dir) \cup {root} :
           LET info == SizeInfo(index, d, MaxNodes)
           IN  info.total = MapThenSumSet(LAMBDA i : index.size[info.children[i]], DOMAIN info.children)
      /\ index.size[root] = OwnBytes(index, root) + MapThenSumSet(LAMBDA i : own[i].own, DOMAIN own)

\* query.rs, search.rs: what a client may ask beside a search in the index is
\* answered as promised: paths as they are typed, and listings that add up.
QueriesRight == PathsCanBeTyped /\ ListingsAddUp

=============================================================================
