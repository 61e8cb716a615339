------------------------------ MODULE MCDaemon ------------------------------
(***************************************************************************)
(* The instances of Daemon.  A weather is the set of faults that may come, *)
(* how often the process may start, and how many changes each volume makes.*)
(*                                                                         *)
(* restart   the process is killed or stopped at any moment and starts     *)
(*           again from what it saved                                      *)
(* wrap      the journal is trimmed under a running daemon                 *)
(* torn      journals are trimmed, reads fail and a client asks for a      *)
(*           Rescan, all in one process                                    *)
(* replaced  a volume without a journal gets one, or its journal is        *)
(*           deleted and created anew, over a restart                      *)
(***************************************************************************)
EXTENDS Daemon

Weather(faults, n, m) == [faults |-> faults, starts |-> n, changes |-> m]

MCWeathers ==
    [restart |-> Weather({"crash"}, 2, 3),
     wrap    |-> Weather({"wrap"}, 1, 3),
     torn    |-> Weather({"wrap", "readError", "rescan"}, 1, 2),
     replaced |-> Weather({"noJournal", "newJournal"}, 2, 2)]

\* the Rescan alone, with a stop and a start after it
RescanWeathers == [rescan |-> Weather({"rescan"}, 2, 3)]

=============================================================================
