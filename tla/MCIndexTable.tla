---------------------------- MODULE MCIndexTable ----------------------------
(***************************************************************************)
(* A root, two folders, one of them with a file, and any changes.          *)
(***************************************************************************)
EXTENDS IndexTable

Entry(seq, p, dir, sz) ==
    [live |-> TRUE, seq |-> seq, parent |-> p, name |-> "a", dir |-> dir, size |-> sz]

SmallMft ==
    (0 :> Entry(1, 0, TRUE, 0)) @@ (1 :> Entry(1, 0, TRUE, 0)) @@
    (2 :> Entry(1, 1, FALSE, 2)) @@ (3 :> Entry(1, 0, TRUE, 0))

MCFresh == {Built(SmallMft), ExcludeAll(Built(SmallMft), {<<"a">>})}

=============================================================================
