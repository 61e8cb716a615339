------------------------------- MODULE Dupes -------------------------------
(***************************************************************************)
(* The duplicate finder (dupes.rs, content.rs, dupes_response in query.rs) *)
(* on a volume that is in use: the index gives the sizes, samples of both  *)
(* ends and then whole contents are read from the files as they are by     *)
(* then, in any order between the groups of equal size.                    *)
(*                                                                         *)
(* A content is what can tell files apart: its length, first part, middle  *)
(* and last part; a hash is the content it is of.  A file that changes     *)
(* while it is read counts as read before or after.  Rows are file ids.    *)
(***************************************************************************)
EXTENDS Integers, Sequences, FiniteSets, FiniteSetsExt, SequencesExt, Functions

CONSTANTS
  DupeDisks,    \* what the volume and its index may hold: [file -> [size, excl, link, content]]
  SampleFloor,  \* files of this size and more are sampled first
  MinSize,      \* DupeOptions::min_size
  Limit,        \* DupeOptions::limit, 0: all groups
  MaxDupeRows,  \* MAX_DUPE_ROWS
  Rewritten,    \* contents a program may leave in a file meanwhile
  MaxWrites     \* bound: writes while the finder runs

Locked == [head |-> 0, mid |-> 0, tail |-> 0]
Content == [head : Nat, mid : Nat, tail : Nat]

ASSUME DupesAssumption ==
  /\ \A d \in DupeDisks :
       /\ IsFiniteSet(DOMAIN d) /\ DOMAIN d \subseteq Nat
       /\ \A f \in DOMAIN d : /\ d[f].size \in Nat /\ d[f].excl \in BOOLEAN
                               /\ d[f].link \in BOOLEAN /\ d[f].content \in Content
  /\ Rewritten \subseteq Content
  /\ Limit \in Nat /\ MaxDupeRows \in Nat

VARIABLES
  indexed,      \* what the index says: [size, excl, link] of each file
  content,      \* what is in each file; Locked: it cannot be read
  sample, hash, \* the keys computed so far, as sequences: <<>> none yet
  touched,      \* the files written since the request came in
  reply         \* <<>>, then <<[groups, wasted]>>

dupesVars == <<indexed, content, sample, hash, touched, reply>>

FileIds == DOMAIN indexed
Sampled(k) == k >= SampleFloor

DupesInit ==
  \E d \in DupeDisks :
    /\ indexed = [f \in DOMAIN d |-> [size |-> d[f].size, excl |-> d[f].excl, link |-> d[f].link]]
    /\ content = [f \in DOMAIN d |-> d[f].content]
    /\ sample = [f \in DOMAIN d |-> <<>>] /\ hash = sample
    /\ touched = {} /\ reply = <<>>

\* Files with one extent are no duplicates, empty ones waste nothing.
Candidates ==
  {f \in FileIds : /\ ~indexed[f].excl /\ ~indexed[f].link
                   /\ indexed[f].size > 0 /\ indexed[f].size >= MinSize}

SizeGroups ==
  {g \in {{f \in Candidates : indexed[f].size = k} : k \in {indexed[f].size : f \in Candidates}} :
     Cardinality(g) > 1}

\* bucket_by: a file without a key is in no bucket
BucketBy(fs, keys) ==
  {{f \in fs : keys[f] = keys[g]} : g \in {h \in fs : keys[h] # <<Locked>>}}

\* the files a size group goes on to hash, bucket by bucket
Buckets(g) ==
  IF Sampled(indexed[Min(g)].size) THEN {b \in BucketBy(g, sample) : Cardinality(b) > 1} ELSE {g}

\* Files are read one after the other within a group.
Turn(f, g, keys) == keys[f] = <<>> /\ \A e \in g : e < f => keys[e] # <<>>

\* sample_key: both ends of the file, as far as there is one
SampleFile(f) ==
  /\ reply = <<>>
  /\ \E g \in SizeGroups : f \in g /\ Sampled(indexed[f].size) /\ Turn(f, g, sample)
  /\ sample' = [sample EXCEPT ![f] =
       <<IF content[f] = Locked THEN Locked ELSE [head |-> content[f].head, tail |-> content[f].tail]>>]
  /\ UNCHANGED <<indexed, content, hash, touched, reply>>

\* Bug: a file that was sampled is not read again.
TrustSample(f) ==
  /\ reply = <<>>
  /\ \E g \in SizeGroups : /\ Sampled(indexed[f].size) => \A e \in g : sample[e] # <<>>
                           /\ \E b \in Buckets(g) : f \in b /\ Turn(f, b, hash)
  /\ hash' = [hash EXCEPT ![f] = IF sample[f] # <<>> THEN sample[f] ELSE <<content[f]>>]
  /\ UNCHANGED <<indexed, content, sample, touched, reply>>

\* hash_full of the files left together in a bucket
HashFile(f) ==
  /\ reply = <<>>
  /\ \E g \in SizeGroups : /\ Sampled(indexed[f].size) => \A e \in g : sample[e] # <<>>
                           /\ \E b \in Buckets(g) : f \in b /\ Turn(f, b, hash)
  /\ hash' = [hash EXCEPT ![f] = <<content[f]>>]
  /\ UNCHANGED <<indexed, content, sample, touched, reply>>

Ready ==
  \A g \in SizeGroups :
    /\ Sampled(indexed[Min(g)].size) => \A e \in g : sample[e] # <<>>
    /\ \A b \in Buckets(g) : \A f \in b : hash[f] # <<>>

Exact == UNION {UNION {{e \in BucketBy(b, hash) : Cardinality(e) > 1} : b \in Buckets(g)} : g \in SizeGroups}
Wasted(e) == indexed[Min(e)].size * (Cardinality(e) - 1)

\* The groups by what they waste, and where that is the same by their first file.
Sooner(d, e) == Wasted(d) > Wasted(e) \/ (Wasted(d) = Wasted(e) /\ Min(d) < Min(e))
Place(e) == Cardinality({d \in Exact : Sooner(d, e)}) + 1
Sorted == [i \in 1 .. Cardinality(Exact) |-> CHOOSE e \in Exact : Place(e) = i]

RowsOf(groups) == MapThenSumSet(Cardinality, groups)

\* the groups that waste most, whole groups only, up to the first that no longer fits
Listed ==
  LET first == IF Limit > 0 /\ Limit < Len(Sorted) THEN SubSeq(Sorted, 1, Limit) ELSE Sorted
      rows(n) == RowsOf({first[i] : i \in 1 .. n})
  IN  SubSeq(first, 1, Max({n \in 0 .. Len(first) : rows(n) <= MaxDupeRows}))

Reply ==
  /\ reply = <<>> /\ Ready
  /\ reply' = <<[groups |-> Listed, wasted |-> MapThenSumSet(Wasted, Exact)]>>
  /\ UNCHANGED <<indexed, content, sample, hash, touched>>

\* a program writes a file, or opens it for itself alone
WriteFile(f) ==
  /\ reply = <<>> /\ Cardinality(touched) < MaxWrites /\ f \notin touched
  /\ \E new \in Rewritten : content' = [content EXCEPT ![f] = new]
  /\ touched' = touched \cup {f}
  /\ UNCHANGED <<indexed, sample, hash, reply>>

DupesNext == Reply \/ \E f \in FileIds : SampleFile(f) \/ HashFile(f) \/ WriteFile(f)
DupesSpec == DupesInit /\ [][DupesNext]_dupesVars

-----------------------------------------------------------------------------
\* Whatever other programs write meanwhile: two files nobody touched are in
\* one group exactly when they are the same, byte for byte, and a file that
\* could not be read is in none.  The groups that free most are listed first
\* and each once, within both limits, and the list stops short of a group only
\* when the next one is one too many or its rows no longer fit.
DupesRight ==
  reply # <<>> =>
    LET groups == reply[1].groups
        shown == {groups[i] : i \in DOMAIN groups}
        rest == Exact \ shown
        still == {f \in Candidates : f \notin touched}
    IN  /\ \A f, g \in still : f # g =>
             (content[f] = content[g] /\ content[f] # Locked /\ indexed[f].size = indexed[g].size)
                <=> \E e \in Exact : {f, g} \subseteq e
        /\ \A f \in still : content[f] = Locked => \A e \in Exact : f \notin e
        /\ shown \subseteq Exact /\ Cardinality(shown) = Len(groups)
        /\ \A i, j \in DOMAIN groups : i <= j => Wasted(groups[i]) >= Wasted(groups[j])
        /\ \A d \in shown, e \in rest : Wasted(d) >= Wasted(e)
        /\ RowsOf(shown) <= MaxDupeRows /\ (Limit > 0 => Len(groups) <= Limit)
        /\ \/ rest = {}
           \/ Limit > 0 /\ Len(groups) = Limit
           \/ \E e \in rest : /\ \A d \in rest : Wasted(e) >= Wasted(d)
                              /\ RowsOf(shown) + Cardinality(e) > MaxDupeRows
        /\ MapThenSumSet(Wasted, shown) <= reply[1].wasted

=============================================================================
