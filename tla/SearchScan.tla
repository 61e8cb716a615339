----------------------------- MODULE SearchScan -----------------------------
(***************************************************************************)
(* What a query matches and how batuta-core finds it: the terms of a text, *)
(* the three match modes, the filters, and the scan of the name arena      *)
(* (search.rs, names.rs).  A text is a sequence of bytes.                  *)
(*                                                                         *)
(* `arena` gives each node the name it was stored with; a node renamed     *)
(* since (index.name differs) has its real name in the override table.     *)
(*                                                                         *)
(* Abstracted: the extension filter (a test of the name like the others),  *)
(* the size ceiling (min_size is kept), NTFS metadata files (excluded like *)
(* pruned ones), the cut-off after 32 terms, and the thread pool: windows  *)
(* are scanned independently and joined.                                   *)
(***************************************************************************)
EXTENDS IndexBuild

CONSTANTS
    Spell,        \* the bytes of each name
    Window,       \* bytes of the arena scanned at a time (1 MiB or more)
    MaskTerms     \* MASK_TERMS, the terms the prefilter looks at (8)

ASSUME ScanAssumption == Window \in Nat \ {0} /\ MaskTerms \in Nat \ {0}

All(ix) == 0 .. ix.n - 1

NameOf(ix, m) == Spell[ix.name[m]]

Renamed(ix, arena) == {m \in All(ix) : arena[m] # ix.name[m]}

(***************************************************************************)
(* Texts.                                                                  *)
(***************************************************************************)
Lower(c) == IF c \in 65 .. 90 THEN c + 32 ELSE c

Same(a, b, cs) == IF cs THEN a = b ELSE Lower(a) = Lower(b)

SameText(s, t, cs) == Len(s) = Len(t) /\ \A i \in DOMAIN s : Same(s[i], t[i], cs)

\* Does t stand in s at offset p?
StandsAt(s, p, t, cs) ==
    p + Len(t) <= Len(s) /\ SameText(SubSeq(s, p + 1, p + Len(t)), t, cs)

Occurs(s, t, cs) == \E p \in 0 .. Len(s) : StandsAt(s, p, t, cs)

\* terms: the text split at white space.
Terms(text) ==
    LET step(ws, c) == IF c = 32 THEN Append(ws, <<>>)
                       ELSE [ws EXCEPT ![Len(ws)] = Append(@, c)]
        some(w) == w # <<>>
    IN  SelectSeq(FoldLeft(step, <<(<<>>)>>, text), some)

\* glob_match: backtracks to the last `*` only, letting it swallow one more.
GlobMatch(pat, text, cs) ==
    LET run[p \in 1 .. Len(pat) + 1, t \in 1 .. Len(text) + 1,
            star \in 0 .. Len(pat), mark \in 0 .. Len(text) + 1] ==
          IF t > Len(text) THEN \A i \in p .. Len(pat) : pat[i] = 42
          ELSE IF p <= Len(pat) /\ (pat[p] = 63 \/ Same(pat[p], text[t], cs))
          THEN run[p + 1, t + 1, star, mark]
          ELSE IF p <= Len(pat) /\ pat[p] = 42 THEN run[p + 1, t, p, t]
          ELSE star # 0 /\ run[star + 1, mark + 1, star, mark + 1]
    IN  run[1, 1, 0, 0]

(***************************************************************************)
(* Which nodes a query may return.  A query is a record                    *)
(*   [text, mode, cs, only, under, childOf, min, hidden, sort, offset,     *)
(*    limit]                                                               *)
(* with under and childOf NoNode where the query leaves them out.          *)
(***************************************************************************)
Eligible(ix, m, q) ==
    /\ m \notin ix.del
    /\ q.hidden \/ m \notin ix.excl
    /\ q.childOf # NoNode => ix.parent[m] = q.childOf /\ m # q.childOf
    /\ q.only = "dirs" => m \in ix.dir
    /\ q.only = "files" => m \notin ix.dir
    /\ ~IsRoot(ix, m)
    /\ q.min <= ix.size[m]
    /\ q.under # NoNode => m = q.under \/ q.under \in Ancestors(ix, m)

\* The nodes whose names path_matches looks at.
Line(ix, m) == {m} \cup Ancestors(ix, m)

PathMatches(ix, m, ts, cs) ==
    \A i \in DOMAIN ts : \E a \in Line(ix, m) : Occurs(NameOf(ix, a), ts[i], cs)

TextMatches(ix, m, q) ==
    LET ts == Terms(q.text)
    IN  /\ Eligible(ix, m, q)
        /\ CASE q.mode = "glob" -> GlobMatch(q.text, NameOf(ix, m), q.cs)
             [] q.mode = "prefix" -> StandsAt(NameOf(ix, m), 0, q.text, q.cs)
             [] Len(ts) = 1 -> Occurs(NameOf(ix, m), ts[1], q.cs)
             [] OTHER -> PathMatches(ix, m, ts, q.cs)

(***************************************************************************)
(* The scan: hits in the arena, attributed to the node whose name holds    *)
(* them, then the renamed nodes by their real names.                       *)
(***************************************************************************)
\* memmem::find_iter goes on behind the end of each hit it reports.
Apart(ps, len) ==
    LET keep(got, p) == IF \E g \in got : p < g + len THEN got ELSE got \cup {p}
    IN  FoldLeft(keep, {}, SetToSortSeq(ps, <))

FindIter(hay, t, cs) ==
    LET ps == {p \in 0 .. Len(hay) : StandsAt(hay, p, t, cs)}
    IN  IF cs THEN Apart(ps, Len(t)) ELSE ps

\* A window reaches len - 1 bytes into the next one and reports the hits that
\* start in its own part.
Positions(hay, t, cs) ==
    LET starts == {Window * k : k \in 0 .. Len(hay) \div Window}
        end(s) == Min({s + Window, Len(hay)})
        found(s) == {s + p : p \in FindIter(
                       SubSeq(hay, s + 1, Min({end(s) + Len(t) - 1, Len(hay)})), t, cs)}
    IN  UNION {{p \in found(s) : p < end(s)} : s \in starts}

\* node_containing: the node whose name holds all of the hit.
NodeContaining(ix, arena, p, len) ==
    LET off[m \in 0 .. ix.n] ==
          IF m = 0 THEN 0 ELSE off[m - 1] + Len(Spell[arena[m - 1]])
        own == {m \in All(ix) : off[m] <= p /\ p + len <= off[m + 1]}
    IN  IF own = {} THEN NoNode ELSE Min(own)

ScanNames(ix, arena, t, cs) ==
    LET hay   == FlattenSeq([i \in 1 .. ix.n |-> Spell[arena[i - 1]]])
        found == {NodeContaining(ix, arena, p, Len(t)) : p \in Positions(hay, t, cs)}
        real  == Renamed(ix, arena)
    IN  IF Len(t) > Len(hay) THEN {}
        ELSE (found \ (real \cup {NoNode})) \cup
             {m \in real : Occurs(NameOf(ix, m), t, cs)}

\* Every term found somewhere on the way up (of the first MaskTerms), then
\* the filters, then the walk that decides.
MultiTermScan(ix, arena, q, ts) ==
    LET own == [i \in 1 .. Min({Len(ts), MaskTerms}) |->
                  ScanNames(ix, arena, ts[i], q.cs)]
    IN  {m \in All(ix) :
           /\ \A i \in DOMAIN own : Line(ix, m) \cap own[i] # {}
           /\ Eligible(ix, m, q)
           /\ PathMatches(ix, m, ts, q.cs)}

FullScan(ix, arena, q) ==
    LET ts == Terms(q.text)
    IN  CASE q.mode # "substring" -> {m \in All(ix) : TextMatches(ix, m, q)}
          [] ts = <<>> -> {m \in All(ix) : Eligible(ix, m, q)}
          [] Len(ts) = 1 ->
               {m \in ScanNames(ix, arena, ts[1], q.cs) : Eligible(ix, m, q)}
          [] OTHER -> MultiTermScan(ix, arena, q, ts)

(***************************************************************************)
(* The order of answers.                                                   *)
(***************************************************************************)
\* rank_name: the name is a term, starts with one, or neither.
RankName(s, ts) ==
    IF \E i \in DOMAIN ts : SameText(s, ts[i], FALSE) THEN 0
    ELSE IF \E i \in DOMAIN ts : StandsAt(s, 0, ts[i], FALSE) THEN 1 ELSE 2

\* name_cmp, as a three-way comparison.
NameCmp(s, t) ==
    LET differ == {i \in 1 .. Min({Len(s), Len(t)}) : Lower(s[i]) # Lower(t[i])}
    IN  IF differ = {} THEN Len(s) - Len(t)
        ELSE Lower(s[Min(differ)]) - Lower(t[Min(differ)])

\* The comparison sort_results sorts by; the node id breaks every tie.
Before(ix, sort, a, b) ==
    LET cmp == NameCmp(NameOf(ix, a), NameOf(ix, b))
    IN  IF sort = "size"
        THEN ix.size[a] > ix.size[b] \/ (ix.size[a] = ix.size[b] /\ a < b)
        ELSE \/ cmp < 0
             \/ cmp = 0 /\ ix.depth[a] < ix.depth[b]
             \/ cmp = 0 /\ ix.depth[a] = ix.depth[b] /\ a < b

Page(s, offset, limit) ==
    LET end == IF limit > 0 THEN Min({offset + limit, Len(s)}) ELSE Len(s)
    IN  SubSeq(s, offset + 1, end)

=============================================================================
