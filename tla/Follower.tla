------------------------------ MODULE Follower ------------------------------
(***************************************************************************)
(* What following a volume promises, without threads, channels or          *)
(* positions: the index served holds the changes 1 .. k of a volume, none  *)
(* skipped; while the daemon runs k only grows; what is saved is something *)
(* that was served (or scanned); and a daemon that starts again serves at  *)
(* least what had been saved.                                              *)
(***************************************************************************)
EXTENDS Integers

CONSTANT Vol

VARIABLES
    made,         \* changes made to each volume so far
    running,
    served,       \* the changes the served index holds, per volume
    saved         \* the changes the snapshot holds, per volume

state == <<made, running, served, saved>>

Nothing == [v \in Vol |-> {}]

\* Prefixes(low): per volume the first k changes, at least those of low.
Prefixes(low) ==
    {new \in [Vol -> {1 .. k : k \in UNION {0 .. made[v] : v \in Vol}}] :
        \A v \in Vol : low[v] \subseteq new[v] /\ new[v] \subseteq 1 .. made[v]}

Init ==
    /\ made = [v \in Vol |-> 1]
    /\ running = FALSE
    /\ served = Nothing /\ saved = Nothing

Change(v) ==
    /\ made' = [made EXCEPT ![v] = @ + 1]
    /\ UNCHANGED <<running, served, saved>>

Start ==
    /\ ~running /\ running'
    /\ served' \in Prefixes(saved)
    /\ UNCHANGED <<made, saved>>

CatchUp ==
    /\ running
    /\ served' \in Prefixes(served)
    /\ UNCHANGED <<made, running, saved>>

Save ==
    /\ running
    /\ saved' = served
    /\ UNCHANGED <<made, running, served>>

\* The first scan is saved before it is served.
SaveScan ==
    /\ ~running
    /\ saved' \in Prefixes(saved)
    /\ UNCHANGED <<made, running, served>>

Stop ==
    /\ running /\ ~running'
    /\ served' = Nothing
    /\ saved' \in {saved, served}
    /\ UNCHANGED made

Next ==
    \/ \E v \in Vol : Change(v)
    \/ Start \/ CatchUp \/ Save \/ SaveScan \/ Stop

Spec == Init /\ [][Next]_state

=============================================================================
