----------------------------- MODULE SearchCache -----------------------------
(***************************************************************************)
(* One client's connection: the Searcher handle_client keeps for it, asked *)
(* one query after another while the applier changes the index and a       *)
(* Rescan replaces it (search.rs, daemon.rs).  An answer is served from    *)
(* the order the last one left behind, narrowed from its matches, or       *)
(* scanned for.                                                            *)
(***************************************************************************)
EXTENDS SearchScan

CONSTANTS
    Mfts,         \* what a scan may find on the volume
    Excluded,     \* configured paths, pruned after a scan
    Changes,      \* changes the applier may apply
    MaxGen,       \* bound: generation an index reaches
    Queries,      \* queries the client may send
    MinOrdered    \* MIN_ORDERED, rows put in order at least (4096)

VARIABLES
    index,
    arena,        \* Index::names, as the name each node was stored with
    gen,          \* Index::generation
    searcher,     \* the connection's Searcher
    answer,       \* the answer the client last got of this index, if any
    older         \* whether the searcher holds matches of a replaced index

vars == <<index, arena, gen, searcher, answer, older>>

NoAnswer == <<>>

NewSearcher ==
    [text |-> <<>>, key |-> <<>>, matches |-> {}, sorted |-> <<>>,
     sort |-> "none", ordered |-> 0, gen |-> 0, multi |-> FALSE]

(***************************************************************************)
(* The index: scanned, changed, replaced.                                  *)
(***************************************************************************)
\* The generation a scan's index starts with: one per path it pruned.
Pruned(ix) == Cardinality({p \in Excluded : Lookup(ix, p) # NoNode})

Delivers(mft) ==
    /\ index' = ExcludeAll(Built(mft), Excluded)
    /\ arena' = index'.name
    /\ gen' = Pruned(Built(mft))

Init ==
    /\ \E mft \in Mfts : /\ index = ExcludeAll(Built(mft), Excluded)
                         /\ gen = Pruned(Built(mft))
    /\ arena = index.name
    /\ searcher = NewSearcher
    /\ answer = NoAnswer
    /\ older = FALSE

\* Index::apply counts a generation, whatever becomes of the change.
Change(c) ==
    /\ gen < MaxGen /\ index.n < MaxNodes
    /\ index' = Apply(index, c)
    /\ gen' = gen + 1
    /\ arena' = [m \in Node |-> IF m < index.n THEN arena[m] ELSE index'.name[m]]
    /\ answer' = NoAnswer
    /\ UNCHANGED <<searcher, older>>

\* The Rescan of any client: the searchers of the others are not reset.
Rescan ==
    /\ \E mft \in Mfts : Delivers(mft)
    /\ answer' = NoAnswer
    /\ older' = (searcher.key # <<>>)
    /\ UNCHANGED searcher

(***************************************************************************)
(* Searcher::search.                                                       *)
(***************************************************************************)
\* filter_key: all of the query but its text, its order and its page.
FilterKey(q) == [q EXCEPT !.text = <<>>, !.sort = "none", !.offset = 0, !.limit = 0]

Multi(q) == q.mode = "substring" /\ Len(Terms(q.text)) > 1

SameSet(q) ==
    /\ searcher.key = <<FilterKey(q)>> /\ searcher.text = q.text
    /\ searcher.gen = gen

Cached(q) ==
    /\ SameSet(q)
    /\ searcher.sort = q.sort
    /\ \/ searcher.ordered >= Len(searcher.sorted)
       \/ q.limit > 0 /\ q.offset + q.limit <= searcher.ordered

\* Bug: one term and several narrow into one another.
CanNarrowAcross(q) ==
    /\ q.mode # "glob"
    /\ searcher.key = <<FilterKey(q)>>
    /\ searcher.text # <<>>
    /\ searcher.gen = gen
    /\ StandsAt(q.text, 0, searcher.text, q.cs)

CanNarrow(q) ==
    /\ q.mode # "glob"
    /\ searcher.multi = Multi(q)
    /\ searcher.key = <<FilterKey(q)>>
    /\ searcher.text # <<>>
    /\ searcher.gen = gen
    /\ StandsAt(q.text, 0, searcher.text, q.cs)

Matched(q) ==
    IF q.text = <<>> THEN {m \in All(index) : Eligible(index, m, q)}
    ELSE IF CanNarrow(q) THEN {m \in searcher.matches : TextMatches(index, m, q)}
    ELSE FullScan(index, arena, q)

\* Bug: a group that is only partly in order counts in full.
OrderPrefixClaimingAll(ns, want, q) ==
    LET less(a, b) == Before(index, q.sort, a, b)
        s == SetToSortSeq(ns, less)
    IN  IF q.limit > 0 /\ want < Len(s)
        THEN {[seq |-> SubSeq(s, 1, want) \o rest, ordered |-> Len(s)] :
                rest \in SetToSeqs({s[i] : i \in want + 1 .. Len(s)})}
        ELSE {[seq |-> s, ordered |-> Len(s)]}

\* order_prefix: the first `want` in order, the rest in whatever order the
\* selection leaves it.
OrderPrefix(ns, want, q) ==
    LET less(a, b) == Before(index, q.sort, a, b)
        s == SetToSortSeq(ns, less)
    IN  IF q.limit > 0 /\ want < Len(s)
        THEN {[seq |-> SubSeq(s, 1, want) \o rest, ordered |-> want] :
                rest \in SetToSeqs({s[i] : i \in want + 1 .. Len(s)})}
        ELSE {[seq |-> s, ordered |-> Len(s)]}

\* ranked: one rank after the other, each ordered as far as the page needs.
Ranked(ns, want, q) ==
    LET ts == Terms(q.text)
        group(k) == {m \in ns : RankName(NameOf(index, m), ts) = k}
        left(r) == IF r.ordered > want THEN 0 ELSE want - r.ordered
        join(rs, k) ==
          UNION {{[seq |-> r.seq \o o.seq,
                   ordered |-> IF r.ordered = Len(r.seq)
                               THEN r.ordered + o.ordered ELSE r.ordered] :
                    o \in OrderPrefix(group(k), left(r), q)} : r \in rs}
    IN  IF ts = <<>> THEN OrderPrefix(ns, want, q)
        ELSE FoldLeft(join, {[seq |-> <<>>, ordered |-> 0]}, <<0, 1, 2>>)

\* sort_results
SortResults(ns, q) ==
    Ranked(ns, Min({Max({q.offset + q.limit, MinOrdered}), Cardinality(ns)}), q)

ServeCached(q) ==
    /\ Cached(q)
    /\ answer' = <<[query |-> q, total |-> Cardinality(searcher.matches),
                    nodes |-> Page(searcher.sorted, q.offset, q.limit)]>>
    /\ UNCHANGED <<index, arena, gen, searcher, older>>

Search(q) ==
    /\ ~Cached(q)
    /\ LET ns == Matched(q)
       IN  \E r \in SortResults(ns, q) :
             /\ searcher' = [text |-> q.text, key |-> <<FilterKey(q)>>,
                             matches |-> ns, sorted |-> r.seq, sort |-> q.sort,
                             ordered |-> r.ordered, gen |-> gen, multi |-> Multi(q)]
             /\ answer' = <<[query |-> q, total |-> Cardinality(ns),
                             nodes |-> Page(r.seq, q.offset, q.limit)]>>
    /\ older' = (older /\ CanNarrow(q))
    /\ UNCHANGED <<index, arena, gen>>

Ask == \E q \in Queries : ServeCached(q) \/ Search(q)

Next == (\E c \in Changes : Change(c)) \/ Rescan \/ Ask

Spec == Init /\ [][Next]_vars

(***************************************************************************)
(* Properties.                                                             *)
(***************************************************************************)
\* What a glob means: `?` is one byte, `*` any number of them.
GlobMeans(pat, text, cs) ==
    LET m[p \in 0 .. Len(pat), t \in 0 .. Len(text)] ==
          IF p = 0 THEN t = 0
          ELSE IF pat[p] = 42 THEN \E u \in 0 .. t : m[p - 1, u]
          ELSE t > 0 /\ (pat[p] = 63 \/ Same(pat[p], text[t], cs)) /\ m[p - 1, t - 1]
    IN  m[Len(pat), Len(text)]

\* What a query means, without arena, windows, narrowing or prefilters.
Means(q) ==
    LET ts == Terms(q.text)
        names(m) == IF Len(ts) = 1 THEN {m} ELSE Line(index, m)
    IN  {m \in All(index) :
          /\ Eligible(index, m, q)
          /\ q.text = <<>> \/
             CASE q.mode = "glob" -> GlobMeans(q.text, NameOf(index, m), q.cs)
               [] q.mode = "prefix" -> StandsAt(NameOf(index, m), 0, q.text, q.cs)
               [] OTHER -> \A i \in DOMAIN ts : \E a \in names(m) :
                             Occurs(NameOf(index, a), ts[i], q.cs)}

\* The order the rows are shown in: rank first, then what was asked for.
InOrder(q, a, b) ==
    LET rank(m) == RankName(NameOf(index, m), Terms(q.text))
    IN  rank(a) < rank(b) \/ (rank(a) = rank(b) /\ Before(index, q.sort, a, b))

Rows(q) ==
    LET less(a, b) == InOrder(q, a, b) IN SetToSortSeq(Means(q), less)

Right(a) ==
    /\ a.total = Cardinality(Means(a.query))
    /\ a.nodes = Page(Rows(a.query), a.query.offset, a.query.limit)

\* Every answer is the page of the rows a fresh search of the index as it is
\* now would give, in order, with the right total: whatever was asked before,
\* however the index changed in between, and whether the answer was cached,
\* narrowed or scanned for.  (Searches that reuse matches of an index a
\* Rescan replaced are the subject of AnswersCurrent.)
AnswersRight == answer # NoAnswer /\ ~older => Right(Head(answer))

\* Cached state is not reused once the index it came from is replaced.
AnswersCurrent == answer # NoAnswer => Right(Head(answer))

\* As long as the generation stands, what the searcher holds is what its text
\* and filters mean, and the rows up to `ordered` are the first ones in order,
\* so that any later page up to there can be cut out of it.
CacheSound ==
    searcher.key # <<>> /\ searcher.gen = gen /\ ~older =>
        LET q == [Head(searcher.key) EXCEPT !.text = searcher.text,
                                            !.sort = searcher.sort]
        IN  /\ searcher.matches = Means(q)
            /\ ToSet(searcher.sorted) = searcher.matches
            /\ Len(searcher.sorted) = Cardinality(searcher.matches)
            /\ SubSeq(searcher.sorted, 1, searcher.ordered)
                 = SubSeq(Rows(q), 1, searcher.ordered)

=============================================================================
