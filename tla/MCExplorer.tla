----------------------------- MODULE MCExplorer -----------------------------
(***************************************************************************)
(* Small worlds for the explorer: a root with a folder in it and three     *)
(* files, of which two exist at first.  Which groups of keys are pressed,  *)
(* what the first file holds, and what is opened on entering differ.       *)
(***************************************************************************)
EXTENDS Explorer

MCRoot == <<"r">>
Folder == <<"r", "/", "d">>
First  == <<"r", "/", "b">>
Second == <<"r", "/", "d", "/", "a", "b">>
Third  == <<"r", "/", "d", "/", "a", "a">>
MCDirs == {MCRoot, Folder}
MCFiles == {First, Second, Third}
MCRanked == <<First, Folder, Third, Second>>

NoFiles == [p \in MCFiles |-> None]
MCPlan(groups, bytes, enter, writes, edits, run) ==
    [groups |-> groups,
     files |-> [NoFiles EXCEPT ![First] = File(bytes, 0), ![Second] = File(<<"a">>, 0)],
     enter |-> enter, shared |-> {First}, others |-> {<<"b">>}, writes |-> writes,
     edits |-> edits, run |-> run]

\* Files of up to three bytes, text or not.
Contents == UNION {[1 .. n -> {"a", "cr", "lf", "bom", "nul", "ctl"}] : n \in 0 .. 3}

MCPlans ==
    {\* typing, undoing and redoing over mixed line endings, with and without saves
     MCPlan({"edit"}, <<"a", "cr", "lf", "a", "lf">>, {First}, 0, 2, 2),
     MCPlan({"edit", "save"}, <<"a", "lf">>, {First}, 2, 2, 2),
     \* saving while other programs write, lock and read the file
     MCPlan({"edit", "save", "busy", "others"}, <<"a">>, {First}, 4, 1, 1),
     \* leaving it, or opening another file, before it is saved
     MCPlan({"edit", "save", "leave"}, <<"a">>, {First}, 2, 1, 0),
     MCPlan({"edit", "tree", "panes"}, <<>>, {First}, 1, 1, 0),
     \* finding
     MCPlan({"find", "edit"}, <<"a", "lf", "A">>, {First}, 0, 1, 1),
     \* the tree and the path bar
     MCPlan({"tree", "panes", "others"}, <<"a">>, {MCRoot, Folder}, 3, 0, 6),
     MCPlan({"path", "panes"}, <<"a">>, {MCRoot}, 3, 0, 4)}
    \cup {MCPlan({"save"}, s, {First}, 2, 0, 0) : s \in Contents}

=============================================================================
