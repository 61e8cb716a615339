------------------------------- MODULE MCTui --------------------------------
(***************************************************************************)
(* Small worlds for the TUI: two files in a folder and one beside it.      *)
(* Which groups of keys are pressed, how high the screen is, and whether   *)
(* the index and the disk change meanwhile differ.                         *)
(***************************************************************************)
EXTENDS Tui

DirD  == <<"r", "/", "d">>
FileA == <<"r", "/", "d", "/", "a">>
FileB == <<"r", "/", "d", "/", "b">>
FileC == <<"r", "/", "a">>

Files == {FileA, FileB, FileC, DirD}
InOrder == [some \in SUBSET Files |-> SelectSeq(<<FileA, FileB, FileC, DirD>>, LAMBDA p : p \in some)]

UiPlan(groups, heights, typed, changes, steady) ==
    [groups |-> groups, files |-> Files, listed |-> InOrder, dirs |-> {DirD},
     groupsOf |-> <<{FileA, FileB, FileC}>>, letters |-> {"a", "/"},
     heights |-> heights, typed |-> typed, changes |-> changes, steady |-> steady]

MCUiPlans ==
    {UiPlan({"move", "wheel", "resize"}, 1 .. 3, 0, 0, TRUE),
     UiPlan({"query", "move", "tab"}, {2}, 2, 0, FALSE),
     UiPlan({"views", "move"}, {2}, 0, 0, FALSE),
     UiPlan({"sort"}, {2}, 0, 0, FALSE),
     UiPlan({"delete", "wheel", "others", "live"}, {2}, 0, 1, FALSE),
     UiPlan({"act", "tab", "others"}, {2}, 0, 1, FALSE),
     UiPlan({"views", "explore", "terminal", "errors"}, {2}, 0, 0, FALSE)}

=============================================================================
