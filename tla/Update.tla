------------------------------- MODULE Update -------------------------------
(***************************************************************************)
(* The update check (update.rs): every interface that starts looks for a   *)
(* newer release, through one cached answer per user that no lock guards.  *)
(*                                                                         *)
(* Versions are numbered in the order they are published; hours stand for  *)
(* seconds.  A cached answer is written by truncating the file and filling *)
(* it, so that a reader may find it empty.  Abstracted: what a version or  *)
(* a redirect looks like, and the reasons for which there is no answer.    *)
(***************************************************************************)
EXTENDS Integers, Sequences

CONSTANTS
  Programs,     \* the processes that check
  MaxAge,       \* MAX_AGE
  Slow,         \* bound: hours a check takes from its first step to its last
  MaxClock, MaxVersions  \* bounds

\* an answer lives for a while, and whole hours are counted
ASSUME UpdateAssumption == MaxAge \in Nat \ {0} /\ Slow \in Nat

VARIABLES
  clock, published,  \* when each version was published, the oldest first
  cache,             \* <<>>: no file or an empty one, otherwise <<[at, tag]>>
  check              \* each program's check: [pc, since, tag, at]

updateVars == <<clock, published, cache, check>>

NotChecking == [pc |-> "off", since |-> 0, tag |-> 0, at |-> 0]

UpdateInit ==
  /\ clock = 0 /\ published = <<0>> /\ cache = <<>>
  /\ check = [p \in Programs |-> NotChecking]

Set(p, new) == check' = [check EXCEPT ![p] = new]

\* clocks that are set back make an age 0, not a negative one
Age(at) == IF clock > at THEN clock - at ELSE 0
StillFresh == IF cache = <<>> THEN FALSE ELSE Age(Head(cache).at) < MaxAge

\* Bug: an answer that was used counts as new.
StartRestamping(p) ==
  /\ check[p].pc = "off" /\ UNCHANGED <<clock, published>>
  /\ cache' = IF StillFresh THEN <<[Head(cache) EXCEPT !.at = clock]>> ELSE cache
  /\ Set(p, [NotChecking EXCEPT !.since = clock, !.pc = IF StillFresh THEN "known" ELSE "asking",
                                !.tag = IF StillFresh THEN Head(cache).tag ELSE 0])

\* check: read the cached answer; ask when there is none, or an old one
StartCheck(p) ==
  /\ check[p].pc = "off" /\ UNCHANGED <<clock, published, cache>>
  /\ Set(p, [NotChecking EXCEPT !.since = clock, !.pc = IF StillFresh THEN "known" ELSE "asking",
                                !.tag = IF StillFresh THEN Head(cache).tag ELSE 0])

\* latest_tag: an answer, or none for any reason; that one is not remembered
Asked(p) ==
  /\ check[p].pc = "asking" /\ UNCHANGED <<clock, published, cache>>
  /\ \/ Set(p, [check[p] EXCEPT !.pc = "writing", !.tag = Len(published)])
     \/ Set(p, [check[p] EXCEPT !.pc = "unknown"])

\* write_cache: the time is taken, the file emptied; or it cannot be written
Empty(p) ==
  /\ check[p].pc = "writing" /\ UNCHANGED <<clock, published>>
  /\ \/ /\ cache' = <<>>
        /\ Set(p, [check[p] EXCEPT !.pc = "filling", !.at = clock])
     \/ Set(p, [check[p] EXCEPT !.pc = "known"]) /\ UNCHANGED cache

Fill(p) ==
  /\ check[p].pc = "filling" /\ UNCHANGED <<clock, published>>
  /\ cache' = <<[at |-> check[p].at, tag |-> check[p].tag]>>
  /\ Set(p, [check[p] EXCEPT !.pc = "known"])

\* the program ends, whatever its check was doing
Quit(p) == check[p].pc # "off" /\ Set(p, NotChecking) /\ UNCHANGED <<clock, published, cache>>

Publish ==
  /\ Len(published) < MaxVersions /\ published' = Append(published, clock)
  /\ UNCHANGED <<clock, cache, check>>

HourPasses ==
  /\ clock < MaxClock /\ clock' = clock + 1
  /\ \A p \in Programs : check[p].pc \in {"off", "known", "unknown"} \/ clock - check[p].since < Slow
  /\ check' = [p \in Programs |-> IF check[p].pc \in {"known", "unknown"} THEN NotChecking ELSE check[p]]
  /\ UNCHANGED <<published, cache>>

UpdateNext ==
  \/ Publish \/ HourPasses
  \/ \E p \in Programs : StartCheck(p) \/ Asked(p) \/ Empty(p) \/ Fill(p) \/ Quit(p)
UpdateSpec == UpdateInit /\ [][UpdateNext]_updateVars

-----------------------------------------------------------------------------
\* A check that came to an answer knows every release that has been out for a
\* day (and for the time a check may take): two checks that overlap, one that
\* ends half way through its write or reads another's half-written answer
\* delay the news no further, and no check reports a release there is not.
ReleasesNoticed ==
  \A p \in Programs : check[p].pc = "known" =>
    /\ check[p].tag \in DOMAIN published
    /\ \A v \in DOMAIN published : clock - published[v] >= MaxAge + Slow => check[p].tag >= v

=============================================================================
