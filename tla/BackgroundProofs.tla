-------------------------- MODULE BackgroundProofs --------------------------
(***************************************************************************)
(* What the parts that work in the background keep, for any number of      *)
(* clients, files and programs.                                            *)
(*                                                                         *)
(* Serving: the stop, the last checkpoint and the report come in this      *)
(* order, and the connection that wakes the loop is never served.  What    *)
(* the service manager was told follows the accept loop step by step; an   *)
(* instance waits only while the loop listens; and the waker is connected  *)
(* only when the flag is up, which the loop looks at once more.            *)
(*                                                                         *)
(* Update: no check that came to an answer is more than a day, and the     *)
(* time a check may take, behind the releases.  A tag Covers what was out  *)
(* at a time t when every release it does not know was published at t or   *)
(* later.  An answer covers the time its check began; the file covers the  *)
(* time it is stamped with, less the time a check may take, whichever of   *)
(* the writers was the last.                                               *)
(*                                                                         *)
(* Dupes: the groups found are those of files that look Alike by every     *)
(* key that was read, each found once, so that they have an order; what    *)
(* was read of a file is what it holds, until somebody writes it.          *)
(*                                                                         *)
(* SnapshotFile: what a start reads is an index that was saved, and a save *)
(* that met no other costs nothing that was saved before.  The invariant   *)
(* follows the bytes.  A payload written for an index reads back as the    *)
(* names that index shows (PayloadHolds, which rests on what the fold of   *)
(* compact_names does with the arena: CompactedPacked); every header in    *)
(* the directory is blank or such a payload, whoever wrote the body under  *)
(* it; and while one save runs alone the temporary file is its own,        *)
(* written as far as its stage says.                                       *)
(***************************************************************************)
EXTENDS Serving, Update, Dupes, SnapshotFile, DataLemmas

Places == {"gone", "load", "check", "create", "listen", "save", "report", "exit"}
Calls == {"none", "connect", "waited", "busy", "timedOut", "refused", "taken", "served", "asked", "closed"}
Conns == [pc : Calls, opened : Int, sent : BOOLEAN, asks : Int]
Idles == [now : Int, lastQuery : Int, asked : Int, released : BOOLEAN]

ServeTypes ==
    /\ svc \in [state : {"stopped", "startPending", "running"}, stop : BOOLEAN,
                saved : {"no", "written", "failed"}, started : BOOLEAN]
    /\ loop \in [pc : Places, free : BOOLEAN, came : Callers \cup {"none"}]
    /\ conn \in [Callers -> Conns] /\ idle \in Idles

\* The accept loop, and what the service manager was told of it.
LoopTold ==
    /\ svc.state = "running" => svc.started /\ loop.pc \notin {"gone", "load", "exit"}
    /\ svc.state = "stopped" => loop.pc \in {"gone", "exit"}
    /\ loop.pc = "load" => svc.started /\ ~svc.stop
    /\ loop.pc = "save" => svc.stop
    /\ svc.stop => svc.started
    /\ loop.pc \in {"report", "exit"} \/ (loop.pc = "gone" /\ svc.stop) => svc.saved # "no"
    /\ svc.saved # "no" => svc.stop /\ loop.pc \in {"report", "exit", "gone"}
    /\ loop.free => loop.pc = "listen"

\* The waker connects when the flag is up, and what the loop then finds is dropped.
WakerTold ==
    /\ conn[Waker].pc # "none" => svc.stop
    /\ conn[Waker].pc \notin {"served", "asked"}

ServeInv == ServeTypes /\ LoopTold /\ WakerTold

\* Clients come and go without a say in the order of the stop.
LEMMA ClientStep ==
    ASSUME ServeInv, NEW c \in Callers,
           \/ Connect(c) \/ WaitFree(c) \/ WaitOver(c) \/ Ask(c) \/ Hangup(c)
           \/ TryAgain(c) \/ Read(c) \/ Answer(c)
    PROVE  ServeInv'
  <1>0. Waker \in Callers /\ conn[c] \in Conns
    BY DEF Callers, ServeInv, ServeTypes
  <1> USE DEF ServeInv, ServeTypes, LoopTold, WakerTold, Calls, Conns
  <1>1. CASE Connect(c)
    <2>1. CASE loop.free
      <3>1. /\ UNCHANGED <<svc, idle>> /\ loop' = [loop EXCEPT !.free = FALSE, !.came = c]
            /\ conn' = [conn EXCEPT ![c] = [conn[c] EXCEPT !.pc = "taken", !.opened = idle.now]]
            /\ conn[c].pc # "none"
        BY <1>0, <1>1, <2>1 DEF Connect
      <3>2. [conn[c] EXCEPT !.pc = "taken", !.opened = idle.now] \in Conns
        BY <1>0 DEF Idles
      <3>3. ServeTypes'
        BY <3>1, <3>2
      <3>4. LoopTold' /\ WakerTold'
        BY <1>0, <3>1
      <3> QED
        BY <3>3, <3>4
    <2>2. CASE ~loop.free /\ PipeExists
      BY <1>0, <1>1, <2>2 DEF Connect
    <2>3. CASE ~loop.free /\ ~PipeExists
      BY <1>0, <1>1, <2>3 DEF Connect
    <2> QED
      BY <2>1, <2>2, <2>3
  <1>2. CASE WaitFree(c)
    BY <1>0, <1>2 DEF WaitFree
  <1>3. CASE WaitOver(c)
    BY <1>0, <1>3 DEF WaitOver
  <1>4. CASE Ask(c)
    BY <1>0, <1>4 DEF Ask
  <1>5. CASE Hangup(c)
    BY <1>0, <1>5 DEF Hangup
  <1>6. CASE TryAgain(c)
    BY <1>0, <1>6, ServingAssumption DEF TryAgain
  <1>7. CASE Read(c)
    <2>1. idle' \in Idles /\ UNCHANGED <<svc, loop>>
      <3>1. /\ UNCHANGED <<svc, loop>>
            /\ idle' = [idle EXCEPT !.lastQuery = idle.now - conn[c].opened, !.asked = idle.now]
        BY <1>7 DEF Read
      <3>2. idle.now - conn[c].opened \in Int /\ idle.now \in Int
        BY <1>0 DEF Idles
      <3> QED
        BY <3>1, <3>2 DEF Idles
    <2>2. conn' = [conn EXCEPT ![c].pc = "asked"] /\ conn[c].pc = "served"
      BY <1>7 DEF Read
    <2> QED
      BY <1>0, <2>1, <2>2
  <1>8. CASE Answer(c)
    BY <1>0, <1>8 DEF Answer
  <1> QED
    BY <1>1, <1>2, <1>3, <1>4, <1>5, <1>6, <1>7, <1>8

LEMMA LoopStep ==
    ASSUME ServeInv, Start \/ Daemon
    PROVE  ServeInv'
  <1>0. Waker \in Callers
    BY DEF Callers
  <1> USE DEF ServeInv, ServeTypes, LoopTold, WakerTold
  <1>1. CASE Start
    BY <1>1 DEF Start, Places
  <1>2. CASE Loaded
    BY <1>2 DEF Loaded, Places
  <1>3. CASE LoadFails
    BY <1>3 DEF LoadFails, Places
  <1>4. CASE Check
    BY <1>4 DEF Check, Places
  <1>5. CASE NewInstance
    BY <1>5 DEF NewInstance, Places
  <1>6. CASE Accept
    <2>1. /\ loop' \in [pc : Places, free : BOOLEAN, came : Callers \cup {"none"}]
          /\ loop'.pc = IF svc.stop THEN "save" ELSE "check"
          /\ ~loop'.free /\ loop.pc = "listen" /\ UNCHANGED <<svc, idle>>
      BY <1>6 DEF Accept, Places
    <2>2. LoopTold'
      BY <2>1 DEF LoopTold
    <2>3. conn' = [conn EXCEPT ![loop.came].pc =
                       IF @ # "taken" THEN @ ELSE IF svc.stop THEN "closed" ELSE "served"]
      BY <1>6 DEF Accept
    <2>4. conn' \in [Callers -> Conns]
      <3>1. CASE loop.came \notin Callers
        BY <2>3, <3>1
      <3>2. CASE loop.came \in Callers
        <4> DEFINE pc == IF conn[loop.came].pc # "taken" THEN conn[loop.came].pc
                         ELSE IF svc.stop THEN "closed" ELSE "served"
        <4>1. pc \in Calls /\ conn[loop.came] \in Conns
          BY <3>2 DEF Conns, Calls
        <4>2. conn' = [conn EXCEPT ![loop.came] = [conn[loop.came] EXCEPT !.pc = pc]]
          BY <2>3
        <4> HIDE DEF pc
        <4>3. [conn[loop.came] EXCEPT !.pc = pc] \in Conns
          BY <4>1 DEF Conns
        <4> QED
          BY <4>2, <4>3
      <3> QED
        BY <3>1, <3>2
    <2>5. WakerTold'
      BY <1>0, <2>1, <2>3 DEF Conns
    <2> QED
      BY <2>1, <2>2, <2>4, <2>5
  <1>7. CASE Save
    <2>1. PICK how \in {"written", "failed"} : svc' = [svc EXCEPT !.saved = how]
      BY <1>7 DEF Save
    <2>2. loop.pc = "save" /\ loop' = [loop EXCEPT !.pc = "report"] /\ UNCHANGED <<conn, idle>>
      BY <1>7 DEF Save
    <2> QED
      BY <2>1, <2>2 DEF Places
  <1>8. CASE Report
    BY <1>8 DEF Report, Places
  <1>9. CASE ProcessEnds
    <2>1. /\ loop.pc = "exit" /\ UNCHANGED <<svc, idle>>
          /\ loop' = [loop EXCEPT !.pc = "gone"]
          /\ conn' = [c \in Callers |-> IF c \in Held THEN [conn[c] EXCEPT !.pc = "closed"] ELSE conn[c]]
      BY <1>9 DEF ProcessEnds
    <2>2. conn' \in [Callers -> Conns]
      BY <2>1 DEF Conns, Calls
    <2>3. conn'[Waker] = conn[Waker] \/ (conn'[Waker].pc = "closed" /\ Waker \in Held)
      BY <1>0, <2>1
    <2>4. Waker \in Held => conn[Waker].pc # "none"
      BY DEF Held
    <2>5. WakerTold'
      BY <2>1, <2>3, <2>4
    <2>6. ServeTypes'
      BY <2>1, <2>2 DEF Places
    <2>7. LoopTold'
      <3>1. loop'.pc = "gone" /\ ~loop'.free /\ svc' = svc
        BY <2>1
      <3>2. loop.pc = "exit"
        BY <2>1
      <3> QED
        BY <3>1, <3>2
    <2> QED
      BY <2>5, <2>6, <2>7
  <1> QED
    BY <1>1, <1>2, <1>3, <1>4, <1>5, <1>6, <1>7, <1>8, <1>9 DEF Daemon

LEMMA ServeStep == ASSUME ServeInv, [ServeNext]_serveVars PROVE ServeInv'
  <1>1. CASE StopControl
    <2>1. Waker \in Callers
      BY DEF Callers
    <2>2. /\ svc' = [svc EXCEPT !.stop = TRUE] /\ svc.state = "running" /\ ~svc.stop
          /\ conn' = [conn EXCEPT ![Waker].pc = "connect"] /\ UNCHANGED <<loop, idle>>
      BY <1>1 DEF StopControl
    <2>3. svc.started
      BY <2>2 DEF ServeInv, LoopTold
    <2>4. ServeTypes'
      BY <2>1, <2>2 DEF ServeInv, ServeTypes, Calls, Conns
    <2>5. LoopTold'
      BY <2>2, <2>3 DEF ServeInv, ServeTypes, LoopTold
    <2>6. WakerTold'
      BY <2>1, <2>2, <2>3 DEF ServeInv, ServeTypes, WakerTold, Conns
    <2> QED
      BY <2>4, <2>5, <2>6 DEF ServeInv
  <1>2. CASE TimePasses \/ IdleCheck \/ UNCHANGED serveVars
    <2>1. UNCHANGED <<svc, loop, conn>>
      BY <1>2 DEF TimePasses, IdleCheck, serveVars
    <2>2. idle' \in Idles
      <3>0. idle \in Idles
        BY DEF ServeInv, ServeTypes
      <3>1. CASE TimePasses
        <4>1. idle' = [idle EXCEPT !.now = @ + 1, !.released = FALSE]
          BY <3>1 DEF TimePasses
        <4>2. idle.now + 1 \in Int
          BY <3>0 DEF Idles
        <4> QED
          BY <3>0, <4>1, <4>2 DEF Idles
      <3>2. CASE IdleCheck
        <4>1. idle' = [idle EXCEPT !.released = TRUE]
          BY <3>2 DEF IdleCheck
        <4> QED
          BY <3>0, <4>1 DEF Idles
      <3>3. CASE UNCHANGED serveVars
        BY <3>0, <3>3 DEF serveVars
      <3> QED
        BY <1>2, <3>1, <3>2, <3>3
    <2> QED
      BY <2>1, <2>2 DEF ServeInv, ServeTypes, LoopTold, WakerTold
  <1> QED
    BY <1>1, <1>2, ClientStep, LoopStep DEF ServeNext

\* However many clients come and go while the service is stopped: the last
\* checkpoint is tried between the stop and its report, nobody is taken from
\* then on, and the wake-up is served to nobody.
THEOREM StopKeepsOrder == ServeInit /\ [][ServeNext]_serveVars => []StopsInOrder
  <1>1. ServeInit => ServeInv
    BY DEF ServeInit, ServeInv, ServeTypes, LoopTold, WakerTold, Places, Calls, Conns, Idles, Callers
  <1>2. ServeInv /\ [ServeNext]_serveVars => ServeInv'
    BY ServeStep
  <1>3. ServeInv => StopsInOrder
    BY DEF ServeInv, ServeTypes, LoopTold, WakerTold, StopsInOrder
  <1> QED
    BY <1>1, <1>2, <1>3, PTL

-----------------------------------------------------------------------------
Stages == {"off", "asking", "writing", "filling", "known", "unknown"}
Checks == [pc : Stages, since : Nat, tag : Nat, at : Nat]

Covers(tag, t) ==
    /\ tag \in DOMAIN published
    /\ \A v \in DOMAIN published : v > tag => published[v] >= t

UpdateTypes ==
    /\ clock \in Nat
    /\ published \in Seq(Nat) /\ published # <<>>
    /\ cache = <<>> \/ \E a, t \in Nat : cache = <<[at |-> a, tag |-> t]>>
    /\ check \in [Programs -> Checks]

Cached == cache # <<>> => Head(cache).at <= clock /\ Covers(Head(cache).tag, Head(cache).at - Slow)

\* What holds of a check at each of its stages.
CheckSound(c) ==
    /\ c.pc \in {"asking", "writing", "filling"} => c.since <= clock /\ clock <= c.since + Slow
    /\ c.pc \in {"writing", "filling"} => Covers(c.tag, c.since)
    /\ c.pc = "filling" => c.since <= c.at /\ c.at <= clock
    /\ c.pc = "known" => Covers(c.tag, clock - MaxAge - Slow + 1)

UpdateInv == UpdateTypes /\ Cached /\ \A p \in Programs : CheckSound(check[p])

-----------------------------------------------------------------------------
\* A tag that covers a time covers an earlier one.
LEMMA Earlier ==
    ASSUME UpdateTypes, NEW tag \in Nat, NEW t \in Int, NEW u \in Int, u <= t, Covers(tag, t)
    PROVE  Covers(tag, u)
  BY DEF Covers, UpdateTypes

\* One program's step that leaves clock, releases and file alone.
LEMMA OneCheck ==
    ASSUME UpdateInv, NEW p \in Programs, NEW new \in Checks, Set(p, new), CheckSound(new),
           UNCHANGED <<clock, published, cache>>
    PROVE  UpdateInv'
  <1>1. check' \in [Programs -> Checks] /\ check' = [check EXCEPT ![p] = new]
    BY DEF Set, UpdateInv, UpdateTypes
  <1>2. \A q \in Programs : check'[q] = IF q = p THEN new ELSE check[q]
    BY <1>1 DEF UpdateInv, UpdateTypes
  <1>3. UpdateTypes' /\ Cached'
    BY <1>1 DEF UpdateInv, UpdateTypes, Cached, Covers
  <1>4. \A q \in Programs : CheckSound(check[q])'
    BY <1>2 DEF UpdateInv, CheckSound, Covers
  <1> QED
    BY <1>3, <1>4 DEF UpdateInv

LEMMA StartStep ==
    ASSUME UpdateInv, NEW p \in Programs, StartCheck(p)
    PROVE  UpdateInv'
  <1> DEFINE new == [NotChecking EXCEPT !.since = clock, !.pc = IF StillFresh THEN "known" ELSE "asking",
                                        !.tag = IF StillFresh THEN Head(cache).tag ELSE 0]
  <1>0. clock \in Nat
    BY DEF UpdateInv, UpdateTypes
  <1>1. Set(p, new) /\ UNCHANGED <<clock, published, cache>>
    BY DEF StartCheck
  <1> HIDE DEF new
  <1>2. CASE ~StillFresh
    <2>1. new = [NotChecking EXCEPT !.since = clock, !.pc = "asking", !.tag = 0]
      BY <1>2, Zenon DEF new
    <2>2. new \in Checks /\ new.pc = "asking" /\ new.since = clock
      BY <1>0, <2>1 DEF NotChecking, Checks, Stages
    <2>3. CheckSound(new)
      BY <2>2, UpdateAssumption DEF CheckSound, UpdateInv, UpdateTypes
    <2> QED
      BY <1>1, <2>2, <2>3, OneCheck
  <1>3. CASE StillFresh
    <2>1. PICK a, t \in Nat : cache = <<[at |-> a, tag |-> t]>>
      BY <1>3 DEF StillFresh, UpdateInv, UpdateTypes
    <2>2. cache # <<>> /\ Head(cache).at = a /\ Head(cache).tag = t
      BY <2>1
    <2>3. a <= clock /\ Covers(t, a - Slow) /\ clock \in Nat
      BY <2>2 DEF UpdateInv, Cached, UpdateTypes
    <2>4. clock - a < MaxAge
      BY <1>3, <2>2, <2>3, UpdateAssumption DEF StillFresh, Age
    <2>5. Covers(t, clock - MaxAge - Slow + 1)
      <3>1. clock - MaxAge - Slow + 1 <= a - Slow /\ a - Slow \in Int
            /\ clock - MaxAge - Slow + 1 \in Int
        BY <2>3, <2>4, UpdateAssumption
      <3> QED
        BY <2>3, <3>1, Earlier DEF UpdateInv
    <2>6. new = [NotChecking EXCEPT !.since = clock, !.pc = "known", !.tag = t]
      BY <1>3, <2>2, Zenon DEF new
    <2>7. new \in Checks /\ new.pc = "known" /\ new.tag = t
      BY <1>0, <2>6 DEF NotChecking, Checks, Stages
    <2>8. CheckSound(new)
      BY <2>5, <2>7 DEF CheckSound
    <2> QED
      BY <1>1, <2>7, <2>8, OneCheck
  <1> QED
    BY <1>2, <1>3

LEMMA AskedStep ==
    ASSUME UpdateInv, NEW p \in Programs, Asked(p)
    PROVE  UpdateInv'
  <1>1. check[p] \in Checks /\ check[p].pc = "asking" /\ CheckSound(check[p])
        /\ UNCHANGED <<clock, published, cache>>
    BY DEF Asked, UpdateInv, UpdateTypes
  <1>2. CASE Set(p, [check[p] EXCEPT !.pc = "writing", !.tag = Len(published)])
    <2> DEFINE new == [check[p] EXCEPT !.pc = "writing", !.tag = Len(published)]
    <2>1. Len(published) \in Nat /\ Covers(Len(published), check[p].since)
      BY DEF Covers, UpdateInv, UpdateTypes
    <2>2. new \in Checks /\ new.pc = "writing" /\ new.tag = Len(published) /\ new.since = check[p].since
      BY <1>1, <2>1 DEF Checks, Stages
    <2>3. CheckSound(new)
      BY <1>1, <2>1, <2>2 DEF CheckSound
    <2> QED
      BY <1>1, <1>2, <2>2, <2>3, OneCheck
  <1>3. CASE Set(p, [check[p] EXCEPT !.pc = "unknown"])
    <2>1. [check[p] EXCEPT !.pc = "unknown"] \in Checks /\ CheckSound([check[p] EXCEPT !.pc = "unknown"])
      BY <1>1 DEF Checks, Stages, CheckSound
    <2> QED
      BY <1>1, <1>3, <2>1, OneCheck
  <1> QED
    BY <1>2, <1>3 DEF Asked

\* An answer that was just come to is behind by no more than the check took.
LEMMA AnswerCovers ==
    ASSUME UpdateInv, NEW c \in Checks, CheckSound(c), c.pc \in {"writing", "filling"}
    PROVE  CheckSound([c EXCEPT !.pc = "known"]) /\ [c EXCEPT !.pc = "known"] \in Checks
  <1> DEFINE new == [c EXCEPT !.pc = "known"]
  <1>1. new \in Checks /\ new.pc = "known" /\ new.tag = c.tag
    BY DEF Checks, Stages
  <1>2. c.since \in Nat /\ c.tag \in Nat /\ clock \in Nat /\ clock <= c.since + Slow
        /\ Covers(c.tag, c.since)
    BY DEF CheckSound, Checks, UpdateInv, UpdateTypes
  <1>3. Covers(c.tag, clock - MaxAge - Slow + 1)
    <2>1. clock - MaxAge - Slow + 1 <= c.since /\ clock - MaxAge - Slow + 1 \in Int /\ c.since \in Int
      BY <1>2, UpdateAssumption
    <2> QED
      BY <1>2, <2>1, Earlier DEF UpdateInv
  <1> QED
    BY <1>1, <1>3 DEF CheckSound

LEMMA EmptyStep ==
    ASSUME UpdateInv, NEW p \in Programs, Empty(p)
    PROVE  UpdateInv'
  <1>1. check[p] \in Checks /\ check[p].pc = "writing" /\ CheckSound(check[p])
        /\ UNCHANGED <<clock, published>> /\ clock \in Nat
    BY DEF Empty, UpdateInv, UpdateTypes
  <1>2. CASE Set(p, [check[p] EXCEPT !.pc = "known"]) /\ UNCHANGED cache
    BY <1>1, <1>2, AnswerCovers, OneCheck
  <1>3. CASE cache' = <<>> /\ Set(p, [check[p] EXCEPT !.pc = "filling", !.at = clock])
    <2> DEFINE new == [check[p] EXCEPT !.pc = "filling", !.at = clock]
    <2>1. new \in Checks /\ new.pc = "filling" /\ new.at = clock /\ new.since = check[p].since
          /\ new.tag = check[p].tag
      BY <1>1 DEF Checks, Stages
    <2>2. CheckSound(new)
      BY <1>1, <2>1 DEF CheckSound
    <2>3. check' \in [Programs -> Checks] /\ \A q \in Programs : check'[q] = IF q = p THEN new ELSE check[q]
      BY <1>3, <2>1 DEF Set, UpdateInv, UpdateTypes
    <2>4. UpdateTypes' /\ Cached'
      BY <1>1, <1>3, <2>3 DEF UpdateInv, UpdateTypes, Cached
    <2>5. \A q \in Programs : CheckSound(check[q])'
      BY <1>1, <2>2, <2>3 DEF UpdateInv, CheckSound, Covers
    <2> QED
      BY <2>4, <2>5 DEF UpdateInv
  <1> QED
    BY <1>2, <1>3 DEF Empty

LEMMA FillStep ==
    ASSUME UpdateInv, NEW p \in Programs, Fill(p)
    PROVE  UpdateInv'
  <1>1. check[p] \in Checks /\ check[p].pc = "filling" /\ CheckSound(check[p])
        /\ UNCHANGED <<clock, published>> /\ clock \in Nat
    BY DEF Fill, UpdateInv, UpdateTypes
  <1>2. PICK a, t \in Nat : a = check[p].at /\ t = check[p].tag /\ cache' = <<[at |-> a, tag |-> t]>>
    BY <1>1 DEF Fill, Checks
  <1> DEFINE new == [check[p] EXCEPT !.pc = "known"]
  <1>3. new \in Checks /\ CheckSound(new)
    BY <1>1, AnswerCovers
  <1>4. check' \in [Programs -> Checks] /\ \A q \in Programs : check'[q] = IF q = p THEN new ELSE check[q]
    BY <1>3 DEF Fill, Set, UpdateInv, UpdateTypes
  <1>5. UpdateTypes'
    BY <1>1, <1>2, <1>4 DEF UpdateInv, UpdateTypes
  <1>6. Cached'
    <2>1. Head(cache').at = a /\ Head(cache').tag = t
      BY <1>2
    <2>2. check[p].since \in Nat /\ a <= clock /\ clock <= check[p].since + Slow
          /\ Covers(t, check[p].since)
      BY <1>1, <1>2 DEF CheckSound, Checks
    <2>3. a - Slow <= check[p].since /\ a - Slow \in Int
      BY <1>1, <1>2, <2>2, UpdateAssumption
    <2>4. Covers(t, a - Slow)
      BY <2>2, <2>3, Earlier DEF UpdateInv
    <2> QED
      BY <1>1, <2>1, <2>2, <2>4 DEF Cached, Covers
  <1>7. \A q \in Programs : CheckSound(check[q])'
    BY <1>1, <1>3, <1>4 DEF UpdateInv, CheckSound, Covers
  <1> QED
    BY <1>5, <1>6, <1>7 DEF UpdateInv

LEMMA QuitStep ==
    ASSUME UpdateInv, NEW p \in Programs, Quit(p)
    PROVE  UpdateInv'
  <1>1. NotChecking \in Checks /\ CheckSound(NotChecking)
    BY DEF NotChecking, Checks, Stages, CheckSound
  <1> QED
    BY <1>1, OneCheck DEF Quit

\* A new release is published now, which no check and no stamp is later than.
LEMMA PublishStep ==
    ASSUME UpdateInv, Publish
    PROVE  UpdateInv'
  <1>1. published' = Append(published, clock) /\ UNCHANGED <<clock, cache, check>>
        /\ clock \in Nat /\ published \in Seq(Nat)
    BY DEF Publish, UpdateInv, UpdateTypes
  <1>2. UpdateTypes'
    BY <1>1 DEF UpdateInv, UpdateTypes
  <1>3. ASSUME NEW tag, NEW t \in Int, t <= clock, Covers(tag, t)
        PROVE  Covers(tag, t)'
    BY <1>1, <1>3 DEF Covers
  <1>4. Cached'
    <2>1. CASE cache = <<>>
      BY <1>1, <2>1 DEF Cached
    <2>2. CASE cache # <<>>
      <3>1. PICK a, t \in Nat : cache = <<[at |-> a, tag |-> t]>>
        BY <2>2 DEF UpdateInv, UpdateTypes
      <3>2. Head(cache).at = a /\ Head(cache).tag = t
        BY <3>1
      <3>3. a <= clock /\ Covers(t, a - Slow) /\ a - Slow \in Int /\ a - Slow <= clock
        BY <1>1, <2>2, <3>2, UpdateAssumption DEF UpdateInv, Cached
      <3>4. Covers(t, a - Slow)'
        BY <1>3, <3>3
      <3> QED
        BY <1>1, <3>2, <3>3, <3>4 DEF Cached, Covers
    <2> QED
      BY <2>1, <2>2
  <1>5. ASSUME NEW p \in Programs
        PROVE  CheckSound(check[p])'
    <2>1. check[p] \in Checks /\ CheckSound(check[p]) /\ check' = check
      BY <1>1 DEF UpdateInv, UpdateTypes
    <2>2. check[p].pc \in {"writing", "filling"} => Covers(check[p].tag, check[p].since)'
      BY <1>1, <1>3, <2>1 DEF CheckSound, Checks
    <2>3. check[p].pc = "known" => Covers(check[p].tag, clock - MaxAge - Slow + 1)'
      <3>1. clock - MaxAge - Slow + 1 \in Int /\ clock - MaxAge - Slow + 1 <= clock
        BY <1>1, UpdateAssumption
      <3> QED
        BY <1>1, <1>3, <2>1, <3>1 DEF CheckSound
    <2> QED
      BY <1>1, <2>1, <2>2, <2>3 DEF CheckSound, Covers
  <1> QED
    BY <1>2, <1>4, <1>5 DEF UpdateInv

LEMMA HourStep ==
    ASSUME UpdateInv, HourPasses
    PROVE  UpdateInv'
  <1>1. clock' = clock + 1 /\ clock \in Nat /\ UNCHANGED <<published, cache>>
    BY DEF HourPasses, UpdateInv, UpdateTypes
  <1>2. ASSUME NEW p \in Programs
        PROVE  check'[p] \in Checks /\ CheckSound(check[p])'
    <2>1. check[p] \in Checks /\ CheckSound(check[p])
      BY DEF UpdateInv, UpdateTypes
    <2>2. check'[p] = IF check[p].pc \in {"known", "unknown"} THEN NotChecking ELSE check[p]
      BY DEF HourPasses
    <2>3. NotChecking \in Checks /\ NotChecking.pc = "off"
      BY DEF NotChecking, Checks, Stages
    <2>4. CASE check[p].pc \in {"known", "unknown"}
      BY <2>2, <2>3, <2>4 DEF CheckSound
    <2>5. CASE check[p].pc \notin {"known", "unknown"}
      <3>1. check[p].pc = "off" \/ clock - check[p].since < Slow
        BY <2>5 DEF HourPasses
      <3>2. check'[p] = check[p] /\ check[p].since \in Nat /\ check[p].at \in Nat
        BY <2>1, <2>2, <2>5 DEF Checks
      <3> QED
        BY <1>1, <2>1, <2>5, <3>1, <3>2, UpdateAssumption DEF CheckSound, Covers
    <2> QED
      BY <2>4, <2>5
  <1>3. UpdateTypes'
    <2>1. check' \in [Programs -> Checks]
      BY <1>2 DEF HourPasses
    <2> QED
      BY <1>1, <2>1 DEF UpdateInv, UpdateTypes
  <1>4. Cached'
    <2>1. CASE cache = <<>>
      BY <1>1, <2>1 DEF Cached
    <2>2. CASE cache # <<>>
      <3>1. PICK a, t \in Nat : cache = <<[at |-> a, tag |-> t]>>
        BY <2>2 DEF UpdateInv, UpdateTypes
      <3> QED
        BY <1>1, <3>1 DEF UpdateInv, Cached, Covers
    <2> QED
      BY <2>1, <2>2
  <1> QED
    BY <1>2, <1>3, <1>4 DEF UpdateInv

LEMMA UpdateStep == ASSUME UpdateInv, [UpdateNext]_updateVars PROVE UpdateInv'
  <1>1. CASE UNCHANGED updateVars
    BY <1>1 DEF updateVars, UpdateInv, UpdateTypes, Cached, Covers, CheckSound
  <1> QED
    BY <1>1, StartStep, AskedStep, EmptyStep, FillStep, QuitStep, PublishStep, HourStep DEF UpdateNext

\* However the checks of several programs overlap, over the one file nothing
\* locks, and wherever a program ends: an answer is never further behind than a
\* day and the time a check may take, and it is a release there is.
THEOREM NoticedInTime == UpdateSpec => []ReleasesNoticed
  <1>1. UpdateInit => UpdateInv
    BY DEF UpdateInit, UpdateInv, UpdateTypes, Cached, Covers, CheckSound, NotChecking, Checks, Stages
  <1>2. UpdateInv /\ [UpdateNext]_updateVars => UpdateInv'
    BY UpdateStep
  <1>3. UpdateInv => ReleasesNoticed
    <2> SUFFICES ASSUME UpdateInv, NEW p \in Programs, check[p].pc = "known"
                 PROVE  /\ check[p].tag \in DOMAIN published
                        /\ \A v \in DOMAIN published :
                             clock - published[v] >= MaxAge + Slow => check[p].tag >= v
      BY DEF ReleasesNoticed
    <2>1. Covers(check[p].tag, clock - MaxAge - Slow + 1)
      BY DEF UpdateInv, CheckSound
    <2>2. check[p].tag \in Nat /\ clock \in Nat /\ \A v \in DOMAIN published : v \in Nat /\ published[v] \in Nat
      BY DEF UpdateInv, UpdateTypes, Checks
    <2> QED
      BY <2>1, <2>2, UpdateAssumption DEF Covers
  <1> QED
    BY <1>1, <1>2, <1>3, PTL DEF UpdateSpec

-----------------------------------------------------------------------------
\* The key of a sample, and what the keys computed so far can be.
SampleKey(c) == IF c = Locked THEN Locked ELSE [head |-> c.head, tail |-> c.tail]
Keys == {<<>>} \cup {<<k>> : k \in Content \cup [head : Nat, tail : Nat]}

DupesTypes ==
    /\ IsFiniteSet(FileIds) /\ FileIds \subseteq Nat
    /\ indexed \in [FileIds -> [size : Nat, excl : BOOLEAN, link : BOOLEAN]]
    /\ content \in [FileIds -> Content]
    /\ sample \in [FileIds -> Keys] /\ hash \in [FileIds -> Keys]

\* What was read of a file that nobody wrote since is what it holds.
KeysTrue ==
    \A f \in FileIds \ touched : /\ sample[f] # <<>> => sample[f] = <<SampleKey(content[f])>>
                                 /\ hash[f] # <<>> => hash[f] = <<content[f]>>

\* The groups listed, where the list ends, and what all of them waste.
GroupsTold(groups) ==
    LET shown == {groups[i] : i \in DOMAIN groups}
        rest == Exact \ shown
    IN  /\ shown \subseteq Exact /\ Cardinality(shown) = Len(groups)
        /\ \A i, j \in DOMAIN groups : i <= j => Wasted(groups[i]) >= Wasted(groups[j])
        /\ \A d \in shown, e \in rest : Wasted(d) >= Wasted(e)
        /\ RowsOf(shown) <= MaxDupeRows /\ (Limit > 0 => Len(groups) <= Limit)
        /\ \/ rest = {}
           \/ Limit > 0 /\ Len(groups) = Limit
           \/ \E e \in rest : /\ \A d \in rest : Wasted(e) >= Wasted(d)
                              /\ RowsOf(shown) + Cardinality(e) > MaxDupeRows

WasteTold(wasted) == \E g : AddsUp(g, Exact, [e \in Exact |-> Wasted(e)]) /\ wasted = g[Exact]

\* The inductive invariant: what was read is true of the files left alone, and
\* an answer was given only when all was read.
DupesInv ==
    /\ DupesTypes /\ KeysTrue
    /\ reply # <<>> => Ready /\ GroupsTold(reply[1].groups) /\ WasteTold(reply[1].wasted)

\* The files that a file is put together with in the end.
Alike(f) ==
    {h \in Candidates : /\ indexed[h].size = indexed[f].size
                        /\ Sampled(indexed[f].size) => sample[h] = sample[f]
                        /\ hash[h] = hash[f]}

\* No sample of a file that can be read looks like one that cannot.
LEMMA KeyOfReadable ==
    ASSUME NEW c, c # Locked
    PROVE  <<SampleKey(c)>> # <<Locked>>
  <1>1. DOMAIN [head |-> c.head, tail |-> c.tail] = {"head", "tail"}
    OBVIOUS
  <1>2. DOMAIN Locked = {"head", "mid", "tail"}
    BY DEF Locked
  <1>3. "mid" \notin {"head", "tail"}
    OBVIOUS
  <1>4. [head |-> c.head, tail |-> c.tail] # Locked
    BY <1>1, <1>2, <1>3
  <1> QED
    BY <1>4 DEF SampleKey

\* The first of some numbers is one of them.
LEMMA MinIs ==
    ASSUME NEW S \in SUBSET Nat, S # {}
    PROVE  Min(S) \in S /\ \A y \in S : Min(S) <= y
  BY LeastOf DEF Min

\* A size group has every file of its size, and no other.
LEMMA SizeGroupIs ==
    ASSUME DupesTypes, NEW g \in SizeGroups
    PROVE  /\ g \subseteq Candidates /\ g \subseteq FileIds /\ g \in SUBSET Nat /\ g # {}
           /\ Min(g) \in g
           /\ \A f \in g : g = {h \in Candidates : indexed[h].size = indexed[f].size}
  <1>1. /\ g \subseteq Candidates /\ Cardinality(g) > 1
        /\ \A f \in g : g = {h \in Candidates : indexed[h].size = indexed[f].size}
    BY DEF SizeGroups
  <1>2. g # {}
    BY <1>1, FS_EmptySet
  <1>3. g \subseteq FileIds /\ g \in SUBSET Nat
    BY <1>1 DEF Candidates, DupesTypes
  <1> QED
    BY <1>1, <1>2, <1>3, MinIs

\* Two files of one size are a group of that size.
LEMMA SizeGroupOf ==
    ASSUME DupesTypes, NEW f \in Candidates, NEW h \in Candidates, f # h,
           indexed[f].size = indexed[h].size
    PROVE  {x \in Candidates : indexed[x].size = indexed[f].size} \in SizeGroups
  <1> DEFINE g == {x \in Candidates : indexed[x].size = indexed[f].size}
  <1>1. IsFiniteSet(g)
    <2>1. g \in SUBSET FileIds
      BY DEF Candidates
    <2> QED
      BY <2>1, FS_Subset DEF DupesTypes
  <1>2. Cardinality(g) > 1
    BY <1>1, TwoMembers
  <1>3. g \in {{x \in Candidates : indexed[x].size = k} : k \in {indexed[x].size : x \in Candidates}}
    OBVIOUS
  <1> QED
    BY <1>2, <1>3 DEF SizeGroups

\* What goes on to be hashed together looked the same, where it was sampled.
LEMMA BucketIs ==
    ASSUME DupesTypes, NEW g \in SizeGroups, NEW b \in Buckets(g)
    PROVE  /\ b \subseteq g
           /\ \A f \in b : /\ b = {h \in g : Sampled(indexed[f].size) => sample[h] = sample[f]}
                           /\ Sampled(indexed[f].size) => sample[f] # <<Locked>>
  <1>1. \A f \in g : indexed[f].size = indexed[Min(g)].size
    <2> SUFFICES ASSUME NEW f \in g
                 PROVE  indexed[f].size = indexed[Min(g)].size
      OBVIOUS
    <2>1. g = {h \in Candidates : indexed[h].size = indexed[f].size} /\ Min(g) \in g
      BY SizeGroupIs
    <2> QED
      BY <2>1
  <1>2. CASE Sampled(indexed[Min(g)].size)
    <2>1. b \in BucketBy(g, sample)
      BY <1>2 DEF Buckets
    <2>2. PICK k \in g : sample[k] # <<Locked>> /\ b = {h \in g : sample[h] = sample[k]}
      BY <2>1 DEF BucketBy
    <2>3. b \subseteq g
      BY <2>2
    <2> SUFFICES ASSUME NEW f \in b
                 PROVE  /\ b = {h \in g : Sampled(indexed[f].size) => sample[h] = sample[f]}
                        /\ Sampled(indexed[f].size) => sample[f] # <<Locked>>
      BY <2>3
    <2>4. sample[f] = sample[k] /\ Sampled(indexed[f].size)
      BY <1>1, <1>2, <2>2
    <2> QED
      BY <2>2, <2>4
  <1>3. CASE ~Sampled(indexed[Min(g)].size)
    BY <1>1, <1>3 DEF Buckets
  <1> QED
    BY <1>2, <1>3

\* What is found is found alike.
LEMMA ExactIs ==
    ASSUME DupesTypes, NEW e \in Exact
    PROVE  /\ e \subseteq Candidates /\ e \in SUBSET FileIds /\ e \in SUBSET Nat /\ e # {}
           /\ IsFiniteSet(e) /\ Cardinality(e) \in Nat /\ Cardinality(e) > 1
           /\ Min(e) \in e
           /\ \A f \in e : /\ e = Alike(f) /\ hash[f] # <<Locked>>
                           /\ Sampled(indexed[f].size) => sample[f] # <<Locked>>
  <1>1. PICK g \in SizeGroups : e \in UNION {{d \in BucketBy(b, hash) : Cardinality(d) > 1} : b \in Buckets(g)}
    BY DEF Exact
  <1>2. PICK b \in Buckets(g) : e \in BucketBy(b, hash) /\ Cardinality(e) > 1
    BY <1>1
  <1>3. PICK k \in b : hash[k] # <<Locked>> /\ e = {h \in b : hash[h] = hash[k]}
    BY <1>2 DEF BucketBy
  <1>4. /\ b \subseteq g
        /\ \A f \in b : /\ b = {h \in g : Sampled(indexed[f].size) => sample[h] = sample[f]}
                        /\ Sampled(indexed[f].size) => sample[f] # <<Locked>>
    BY BucketIs
  <1>5. /\ g \subseteq Candidates /\ g \subseteq FileIds /\ g \in SUBSET Nat
        /\ \A f \in g : g = {h \in Candidates : indexed[h].size = indexed[f].size}
    BY SizeGroupIs
  <1>6. e \subseteq Candidates /\ e \in SUBSET FileIds /\ e \in SUBSET Nat
    BY <1>3, <1>4, <1>5
  <1>7. IsFiniteSet(e) /\ Cardinality(e) \in Nat /\ e # {}
    <2>1. IsFiniteSet(e)
      BY <1>6, FS_Subset DEF DupesTypes
    <2> QED
      BY <1>3, <2>1, FS_CardinalityType
  <1>8. ASSUME NEW f \in e
        PROVE  /\ e = Alike(f) /\ hash[f] # <<Locked>>
               /\ Sampled(indexed[f].size) => sample[f] # <<Locked>>
    <2>1. f \in b /\ f \in g /\ hash[f] = hash[k]
      BY <1>3, <1>4
    <2>2. g = {h \in Candidates : indexed[h].size = indexed[f].size}
      BY <1>5, <2>1
    <2>3. b = {h \in g : Sampled(indexed[f].size) => sample[h] = sample[f]}
      BY <1>4, <2>1
    <2>4. e = {h \in b : hash[h] = hash[f]}
      BY <1>3, <2>1
    <2> QED
      BY <1>3, <1>4, <2>1, <2>2, <2>3, <2>4 DEF Alike
  <1> QED
    BY <1>2, <1>6, <1>7, <1>8, MinIs

\* When all is read, so is each file of a group that is found.
LEMMA HashedInExact ==
    ASSUME DupesTypes, Ready, NEW e \in Exact, NEW f \in e
    PROVE  hash[f] # <<>>
  <1>1. PICK g \in SizeGroups : e \in UNION {{d \in BucketBy(b, hash) : Cardinality(d) > 1} : b \in Buckets(g)}
    BY DEF Exact
  <1>2. PICK b \in Buckets(g) : e \in BucketBy(b, hash)
    BY <1>1
  <1>3. f \in b
    BY <1>2 DEF BucketBy
  <1> QED
    BY <1>2, <1>3 DEF Ready

\* What is alike is found.
LEMMA AlikeFound ==
    ASSUME DupesTypes, NEW f \in Candidates, NEW h \in Alike(f), f # h,
           hash[f] # <<Locked>>, Sampled(indexed[f].size) => sample[f] # <<Locked>>
    PROVE  Alike(f) \in Exact
  <1> DEFINE g == {x \in Candidates : indexed[x].size = indexed[f].size}
             b == {x \in g : Sampled(indexed[f].size) => sample[x] = sample[f]}
  <1>1. /\ h \in Candidates /\ indexed[h].size = indexed[f].size
        /\ Sampled(indexed[f].size) => sample[h] = sample[f]
        /\ f \in g /\ h \in g /\ f \in b /\ h \in b
        /\ f \in Alike(f)
    BY DEF Alike
  <1>2. g \in SizeGroups
    BY <1>1, SizeGroupOf
  <1>3. \A x \in g : indexed[x].size = indexed[f].size
    OBVIOUS
  <1>4. indexed[Min(g)].size = indexed[f].size
    <2> HIDE DEF g
    <2> QED
      BY <1>2, <1>3, SizeGroupIs
  <1>5. IsFiniteSet(b) /\ IsFiniteSet(Alike(f))
    <2>1. b \in SUBSET FileIds /\ Alike(f) \in SUBSET FileIds
      BY DEF Candidates, Alike
    <2> QED
      BY <2>1, FS_Subset DEF DupesTypes
  <1>6. b \in Buckets(g)
    <2>1. CASE Sampled(indexed[f].size)
      <3>1. b = {x \in g : sample[x] = sample[f]}
        BY <2>1
      <3>2. b \in BucketBy(g, sample)
        BY <1>1, <2>1, <3>1 DEF BucketBy
      <3>3. Cardinality(b) > 1
        BY <1>1, <1>5, TwoMembers
      <3> HIDE DEF b, g
      <3> QED
        BY <1>4, <2>1, <3>2, <3>3 DEF Buckets
    <2>2. CASE ~Sampled(indexed[f].size)
      <3>1. b = g
        BY <2>2
      <3> HIDE DEF b, g
      <3> QED
        BY <1>4, <2>2, <3>1 DEF Buckets
    <2> QED
      BY <2>1, <2>2
  <1>7. Alike(f) = {x \in b : hash[x] = hash[f]}
    BY DEF Alike
  <1>8. Alike(f) \in BucketBy(b, hash)
    BY <1>1, <1>7 DEF BucketBy
  <1>9. Cardinality(Alike(f)) > 1
    BY <1>1, <1>5, TwoMembers
  <1> HIDE DEF b, g
  <1>10. Alike(f) \in {d \in BucketBy(b, hash) : Cardinality(d) > 1}
    BY <1>8, <1>9
  <1>11. Alike(f) \in UNION {{d \in BucketBy(c, hash) : Cardinality(d) > 1} : c \in Buckets(g)}
    BY <1>6, <1>10, Zenon
  <1> QED
    BY <1>2, <1>11, Zenon DEF Exact

\* A file is found once.
LEMMA FoundOnce ==
    ASSUME DupesTypes
    PROVE  /\ IsFiniteSet(Exact) /\ Cardinality(Exact) \in Nat
           /\ \A d, e \in Exact : Min(d) = Min(e) => d = e
           /\ \A e \in Exact : Wasted(e) \in Nat /\ Min(e) \in Nat
  <1>1. Exact \in SUBSET (SUBSET FileIds)
    BY ExactIs
  <1>2. IsFiniteSet(SUBSET FileIds)
    BY FS_SUBSET DEF DupesTypes
  <1>3. IsFiniteSet(Exact) /\ Cardinality(Exact) \in Nat
    BY <1>1, <1>2, FS_Subset, FS_CardinalityType
  <1>4. ASSUME NEW d \in Exact, NEW e \in Exact, Min(d) = Min(e)
        PROVE  d = e
    <2>1. Min(d) \in d /\ d = Alike(Min(d))
      BY ExactIs
    <2>2. Min(e) \in e /\ e = Alike(Min(e))
      BY ExactIs
    <2> QED
      BY <1>4, <2>1, <2>2
  <1>5. ASSUME NEW e \in Exact
        PROVE  Wasted(e) \in Nat /\ Min(e) \in Nat
    <2>1. Min(e) \in FileIds /\ Min(e) \in Nat /\ Cardinality(e) - 1 \in Nat
      BY ExactIs
    <2>2. indexed[Min(e)].size \in Nat
      BY <2>1 DEF DupesTypes
    <2>3. \A x, y \in Nat : x * y \in Nat
      OBVIOUS
    <2> QED
      BY <2>1, <2>2, <2>3 DEF Wasted
  <1> QED
    BY <1>3, <1>4, <1>5

-----------------------------------------------------------------------------
\* The groups in order: each once, and none before one that wastes more.
LEMMA SortedIs ==
    ASSUME DupesTypes
    PROVE  /\ Sorted \in Seq(Exact) /\ Len(Sorted) = Cardinality(Exact)
           /\ \A e \in Exact : \E j \in 1 .. Len(Sorted) : Sorted[j] = e
           /\ \A i, j \in 1 .. Len(Sorted) : i # j => Sorted[i] # Sorted[j]
           /\ \A i, j \in 1 .. Len(Sorted) : i <= j => Wasted(Sorted[i]) >= Wasted(Sorted[j])
  <1> DEFINE R == {p \in Exact \X Exact : Sooner(p[1], p[2])}
             place == [e \in Exact |-> Place(e)]
             n == Cardinality(Exact)
  <1>1. /\ IsFiniteSet(Exact) /\ n \in Nat
        /\ \A d, e \in Exact : Min(d) = Min(e) => d = e
        /\ \A e \in Exact : Wasted(e) \in Nat /\ Min(e) \in Nat
    BY FoundOnce
  <1>2. \A d, e \in Exact : <<d, e>> \in R <=> Sooner(d, e)
    OBVIOUS
  <1>3. ASSUME NEW d \in Exact
        PROVE  <<d, d>> \notin R
    BY <1>1, <1>2 DEF Sooner
  <1>4. ASSUME NEW c \in Exact, NEW d \in Exact, NEW e \in Exact, <<c, d>> \in R, <<d, e>> \in R
        PROVE  <<c, e>> \in R
    <2>1. Sooner(c, d) /\ Sooner(d, e)
      BY <1>2, <1>4
    <2>2. Sooner(c, e)
      BY <1>1, <2>1 DEF Sooner
    <2> QED
      BY <1>2, <2>2
  <1>5. ASSUME NEW d \in Exact, NEW e \in Exact
        PROVE  d = e \/ <<d, e>> \in R \/ <<e, d>> \in R
    <2>1. d = e \/ Sooner(d, e) \/ Sooner(e, d)
      BY <1>1 DEF Sooner
    <2> QED
      BY <1>2, <2>1
  <1>6. \A e \in Exact : place[e] = Cardinality({d \in Exact : <<d, e>> \in R}) + 1
    <2> SUFFICES ASSUME NEW e \in Exact
                 PROVE  place[e] = Cardinality({d \in Exact : <<d, e>> \in R}) + 1
      OBVIOUS
    <2>1. {d \in Exact : <<d, e>> \in R} = {d \in Exact : Sooner(d, e)}
      BY <1>2
    <2>2. place[e] = Cardinality({d \in Exact : Sooner(d, e)}) + 1
      BY Zenon DEF Place
    <2> QED
      BY <2>1, <2>2, Zenon
  <1> HIDE DEF R, n
  <1>7. /\ \A e \in Exact : place[e] \in 1 .. n
        /\ \A d, e \in Exact : place[d] = place[e] => d = e
        /\ \A d, e \in Exact : <<d, e>> \in R => place[d] < place[e]
        /\ \A i \in 1 .. n : \E e \in Exact : place[e] = i
    <2>1. IsFiniteSet(Exact)
      BY <1>1
    <2>2. \A d \in Exact : <<d, d>> \notin R
      BY <1>3, Zenon
    <2>3. \A c, d, e \in Exact : <<c, d>> \in R /\ <<d, e>> \in R => <<c, e>> \in R
      BY <1>4, Zenon
    <2>4. \A d, e \in Exact : d = e \/ <<d, e>> \in R \/ <<e, d>> \in R
      BY <1>5, Zenon
    <2> HIDE DEF place
    <2>5. InOrder(Exact, R)
      BY <2>2, <2>3, <2>4, Zenon DEF InOrder
    <2>6. PlacesIn(place, Exact, R)
      BY <1>6, Zenon DEF PlacesIn
    <2> QED
      BY <2>1, <2>5, <2>6, PlacesTaken DEF n
  <1>8. \A e \in Exact : place[e] = Place(e)
    BY Zenon
  <1> HIDE DEF place
  <1>9. ASSUME NEW i \in 1 .. n
        PROVE  Sorted[i] \in Exact /\ place[Sorted[i]] = i
    <2>1. Sorted[i] = CHOOSE e \in Exact : Place(e) = i
      BY Zenon DEF Sorted, n
    <2>2. \E e \in Exact : Place(e) = i
      BY <1>7, <1>8
    <2>3. Sorted[i] \in Exact /\ Place(Sorted[i]) = i
      BY <2>1, <2>2, Zenon
    <2> QED
      BY <1>8, <2>3
  <1>10. Sorted \in [1 .. n -> Exact] /\ Sorted \in Seq(Exact) /\ Len(Sorted) = n
    <2>1. Sorted = [i \in 1 .. n |-> CHOOSE e \in Exact : Place(e) = i]
      BY DEF Sorted, n
    <2>2. ASSUME NEW i \in 1 .. n
          PROVE  (CHOOSE e \in Exact : Place(e) = i) \in Exact
      <3>1. \E e \in Exact : Place(e) = i
        BY <1>7, <1>8
      <3> QED
        BY <3>1, Zenon
    <2>3. Sorted \in [1 .. n -> Exact]
      BY <2>1, <2>2, Zenon
    <2>4. Sorted \in Seq(Exact)
      BY <1>1, <2>3 DEF Seq
    <2>5. DOMAIN Sorted = 1 .. n /\ DOMAIN Sorted = 1 .. Len(Sorted) /\ Len(Sorted) \in Nat
      BY <2>3, <2>4, LenProperties
    <2> QED
      BY <1>1, <2>3, <2>4, <2>5
  <1>11. ASSUME NEW e \in Exact
         PROVE  \E j \in 1 .. n : Sorted[j] = e
    <2>1. place[e] \in 1 .. n
      BY <1>7
    <2>2. Sorted[place[e]] = e
      BY <1>7, <1>9, <2>1
    <2> QED
      BY <2>1, <2>2
  <1>12. ASSUME NEW i \in 1 .. n, NEW j \in 1 .. n, i <= j
         PROVE  Wasted(Sorted[i]) >= Wasted(Sorted[j])
    <2>1. Sorted[i] \in Exact /\ Sorted[j] \in Exact
      BY <1>9
    <2>2. Wasted(Sorted[i]) \in Nat /\ Wasted(Sorted[j]) \in Nat
      BY <1>1, <2>1
    <2>3. CASE i = j
      BY <2>2, <2>3
    <2>4. CASE i # j
      <3>1. <<Sorted[j], Sorted[i]>> \notin R
        <4> SUFFICES ASSUME <<Sorted[j], Sorted[i]>> \in R
                     PROVE  FALSE
          OBVIOUS
        <4>1. place[Sorted[j]] < place[Sorted[i]]
          BY <1>7, <2>1
        <4>2. j < i /\ i \in Int /\ j \in Int
          BY <1>9, <4>1
        <4> QED
          BY <1>12, <4>2
      <3>2. ~ Sooner(Sorted[j], Sorted[i])
        BY <1>2, <2>1, <3>1
      <3> QED
        BY <2>2, <3>2 DEF Sooner
    <2> QED
      BY <2>3, <2>4
  <1>13. \A i, j \in 1 .. n : i # j => Sorted[i] # Sorted[j]
    BY <1>9
  <1> QED
    BY <1>9, <1>10, <1>11, <1>12, <1>13, Zenon DEF n

\* The rows of some groups are added up, and one more group adds its own.
LEMMA RowsAdded ==
    ASSUME NEW S, IsFiniteSet(S), NEW w, w = [e \in S |-> Cardinality(e)], w \in [S -> Nat],
           NEW g, AddsUp(g, S, w)
    PROVE  RowsOf(S) = g[S]
  <1> DEFINE Def(it) == it = [s \in SUBSET S |-> IF s = {} THEN 0
                               ELSE Cardinality(Chosen(s)) + it[s \ {Chosen(s)}]]
             it == CHOOSE it : Def(it)
  <1>1. RowsOf(S) = it[S]
    BY Zenon DEF RowsOf, MapThenSumSet, MapThenFoldSet, Chosen
  <1>2. \A s \in SUBSET S : s # {} => w[Chosen(s)] = Cardinality(Chosen(s))
    <2> SUFFICES ASSUME NEW s \in SUBSET S, s # {}
                 PROVE  w[Chosen(s)] = Cardinality(Chosen(s))
      OBVIOUS
    <2>1. Chosen(s) \in S
      BY ChosenIs
    <2> QED
      BY <2>1, Zenon
  <1>3. Def(g)
    <2>1. ASSUME NEW s \in SUBSET S
          PROVE  g[s] = IF s = {} THEN 0 ELSE Cardinality(Chosen(s)) + g[s \ {Chosen(s)}]
      BY <1>2, Zenon DEF AddsUp
    <2>2. g = [s \in SUBSET S |-> g[s]]
      BY Zenon DEF AddsUp
    <2> QED
      BY <2>1, <2>2, Zenon
  <1>4. Def(it)
    BY <1>3, Zenon
  <1> HIDE DEF it
  <1>5. AddsTo(it, S, w)
    BY <1>2, <1>4, Zenon DEF AddsTo
  <1> HIDE DEF Def
  <1>6. it[S] = g[S]
    <2>1. IsFiniteSet(S) /\ AddsUp(g, S, w)
      OBVIOUS
    <2> QED
      BY <1>5, <2>1, SumIs
  <1> QED
    BY <1>1, <1>6

LEMMA RowsWith ==
    ASSUME DupesTypes, NEW T \in SUBSET Exact
    PROVE  /\ RowsOf(T) \in Nat /\ RowsOf({}) = 0
           /\ \A e \in Exact \ T : RowsOf(T \cup {e}) = RowsOf(T) + Cardinality(e)
  <1> DEFINE w == [e \in Exact |-> Cardinality(e)]
  <1>1. w \in [Exact -> Nat] /\ IsFiniteSet(Exact)
    <2>1. \A e \in Exact : Cardinality(e) \in Nat
      BY ExactIs
    <2> QED
      BY <2>1, FoundOnce
  <1>2. PICK g : AddsUp(g, Exact, w)
    <2> HIDE DEF w
    <2> QED
      BY <1>1, SumsExist
  <1>3. ASSUME NEW s \in SUBSET Exact
        PROVE  RowsOf(s) = g[s] /\ g[s] \in Nat
    <2> DEFINE h == [u \in SUBSET s |-> g[u]]
               v == [e \in s |-> w[e]]
    <2>1. AddsUp(h, s, v)
      <3> HIDE DEF w
      <3> QED
        BY <1>1, <1>2, SumWithin
    <2>2. v = [e \in s |-> Cardinality(e)] /\ v \in [s -> Nat]
      BY <1>1
    <2>3. IsFiniteSet(s)
      BY <1>1, FS_Subset
    <2>4. RowsOf(s) = h[s]
      <3> HIDE DEF h, v
      <3> QED
        BY <2>1, <2>2, <2>3, RowsAdded
    <2>5. h[s] = g[s] /\ g[s] \in Nat
      BY <1>2 DEF AddsUp
    <2> QED
      BY <2>4, <2>5
  <1>4. RowsOf({}) = 0
    <2>1. {} \in SUBSET Exact
      OBVIOUS
    <2>2. g[{}] = 0
      BY <1>2, <2>1 DEF AddsUp
    <2> QED
      BY <1>3, <2>1, <2>2
  <1>5. ASSUME NEW e \in Exact \ T
        PROVE  RowsOf(T \cup {e}) = RowsOf(T) + Cardinality(e)
    <2> DEFINE s == T \cup {e}
    <2>1. s \in SUBSET Exact /\ e \in s /\ s \ {e} = T
      OBVIOUS
    <2>2. g[s] = w[e] + g[s \ {e}]
      <3> HIDE DEF w, s
      <3> QED
        BY <1>1, <1>2, <2>1, SumTakes
    <2>3. w[e] = Cardinality(e) /\ w[e] \in Nat
      BY <1>1
    <2>4. RowsOf(s) = g[s] /\ RowsOf(T) = g[T] /\ g[T] \in Nat
      <3> HIDE DEF s
      <3> QED
        BY <1>3, <2>1
    <2>5. RowsOf(s) = g[s] /\ g[s] = w[e] + g[T]
      BY <2>1, <2>2, <2>4, Zenon
    <2> HIDE DEF w
    <2>6. RowsOf(s) = RowsOf(T) + Cardinality(e)
      <3> HIDE DEF s
      <3> QED
        BY <2>3, <2>4, <2>5
    <2> QED
      BY <2>6
  <1> QED
    BY <1>3, <1>4, <1>5

\* What is listed of them is the first ones, as many as both limits let in.
LEMMA ListedIs ==
    ASSUME DupesTypes
    PROVE  \E k \in 0 .. Len(Sorted) :
             /\ Len(Listed) = k /\ DOMAIN Listed = 1 .. k
             /\ \A i \in 1 .. k : Listed[i] = Sorted[i]
             /\ RowsOf({Sorted[i] : i \in 1 .. k}) <= MaxDupeRows /\ (Limit > 0 => k <= Limit)
             /\ \/ k = Len(Sorted)
                \/ Limit > 0 /\ k = Limit
                \/ k < Len(Sorted) /\ ~(RowsOf({Sorted[i] : i \in 1 .. (k + 1)}) <= MaxDupeRows)
  <1> DEFINE first == IF Limit > 0 /\ Limit < Len(Sorted) THEN SubSeq(Sorted, 1, Limit) ELSE Sorted
             rows(n) == RowsOf({first[i] : i \in 1 .. n})
             fit == {n \in 0 .. Len(first) : rows(n) <= MaxDupeRows}
  <1>1. Sorted \in Seq(Exact) /\ Len(Sorted) \in Nat
    BY SortedIs, LenProperties
  <1>2. /\ first \in Seq(Exact) /\ Len(first) \in 0 .. Len(Sorted)
        /\ \A i \in 1 .. Len(first) : first[i] = Sorted[i]
        /\ Limit > 0 => Len(first) <= Limit
        /\ Len(first) = Len(Sorted) \/ (Limit > 0 /\ Len(first) = Limit)
    <2>1. CASE Limit > 0 /\ Limit < Len(Sorted)
      <3>1. \A i \in 1 .. Limit : Sorted[i] \in Exact
        BY <1>1, <2>1, ElementOfSeq, DupesAssumption
      <3>2. /\ SubSeq(Sorted, 1, Limit) \in Seq(Exact) /\ Len(SubSeq(Sorted, 1, Limit)) = Limit
            /\ \A i \in 1 .. Limit : SubSeq(Sorted, 1, Limit)[i] = Sorted[i]
        BY <2>1, <3>1, SubSeqProperties, DupesAssumption
      <3>3. first = SubSeq(Sorted, 1, Limit)
        BY <2>1
      <3> HIDE DEF first
      <3> QED
        BY <1>1, <2>1, <3>2, <3>3, DupesAssumption
    <2>2. CASE ~(Limit > 0 /\ Limit < Len(Sorted))
      <3>1. first = Sorted
        BY <2>2
      <3> HIDE DEF first
      <3> QED
        BY <1>1, <2>2, <3>1, DupesAssumption
    <2> QED
      BY <2>1, <2>2
  <1>3. rows(0) = 0
    <2>1. {first[i] : i \in 1 .. 0} = {}
      OBVIOUS
    <2>2. RowsOf({}) = 0
      BY RowsWith
    <2> QED
      BY <2>1, <2>2, Zenon
  <1>4. Listed = SubSeq(first, 1, Max(fit))
    BY Zenon DEF Listed
  <1> HIDE DEF first
  <1>5. \A n \in 0 .. Len(first) : rows(n) = RowsOf({Sorted[i] : i \in 1 .. n})
    <2> SUFFICES ASSUME NEW n \in 0 .. Len(first)
                 PROVE  {first[i] : i \in 1 .. n} = {Sorted[i] : i \in 1 .. n}
      BY Zenon
    <2>1. \A i \in 1 .. n : i \in 1 .. Len(first)
      BY <1>1, <1>2
    <2> QED
      BY <1>2, <2>1
  <1> HIDE DEF rows
  <1>6. 0 \in fit /\ fit \in SUBSET (0 .. Len(first)) /\ Len(first) \in Nat
    BY <1>1, <1>2, <1>3, DupesAssumption
  <1> DEFINE k == Max(fit)
  <1>7. k \in fit /\ \A n \in fit : n <= k
    <2> HIDE DEF fit
    <2> QED
      BY <1>6, MaxFrom0
  <1> HIDE DEF k
  <1>8. k \in 0 .. Len(first) /\ RowsOf({Sorted[i] : i \in 1 .. k}) <= MaxDupeRows
    BY <1>5, <1>7
  <1>9. k = Len(first) \/ ~(RowsOf({Sorted[i] : i \in 1 .. (k + 1)}) <= MaxDupeRows)
    <2> SUFFICES ASSUME k # Len(first)
                 PROVE  ~(RowsOf({Sorted[i] : i \in 1 .. (k + 1)}) <= MaxDupeRows)
      OBVIOUS
    <2>1. k + 1 \in 0 .. Len(first) /\ ~(k + 1 <= k)
      BY <1>6, <1>8
    <2>2. ~(rows(k + 1) <= MaxDupeRows)
      BY <1>7, <2>1
    <2> QED
      BY <1>5, <2>1, <2>2, Zenon
  <1>10. k \in Int /\ 1 \in Int /\ \A i \in 1 .. k : first[i] \in Exact
    BY <1>2, <1>6, <1>8, ElementOfSeq
  <1>11. /\ Listed \in Seq(Exact) /\ Len(Listed) = k
         /\ \A i \in 1 .. k : Listed[i] = first[i]
    <2>1. Listed = SubSeq(first, 1, k)
      BY <1>4 DEF k
    <2> QED
      BY <1>8, <1>10, <2>1, SubSeqProperties
  <1> HIDE DEF fit
  <1>12. k \in 0 .. Len(Sorted) /\ \A i \in 1 .. k : i \in 1 .. Len(first)
    BY <1>1, <1>2, <1>6, <1>8
  <1>13. \A i \in 1 .. k : Listed[i] = Sorted[i]
    BY <1>2, <1>11, <1>12
  <1>14. DOMAIN Listed = 1 .. k
    BY <1>11, LenProperties
  <1>15. Limit > 0 => k <= Limit
    BY <1>2, <1>6, <1>8, DupesAssumption
  <1>16. k = Len(Sorted) \/ (Limit > 0 /\ k = Limit) \/ k < Len(Sorted)
    BY <1>1, <1>12
  <1>17. \/ k = Len(Sorted)
         \/ Limit > 0 /\ k = Limit
         \/ k < Len(Sorted) /\ ~(RowsOf({Sorted[i] : i \in 1 .. (k + 1)}) <= MaxDupeRows)
    BY <1>2, <1>9, <1>16, Zenon
  <1> QED
    BY <1>8, <1>11, <1>12, <1>13, <1>14, <1>15, <1>17, Zenon

\* So each of them is listed once, no group left out wastes more, and the first
\* that is left out no longer fits.
LEMMA ListedTold ==
    ASSUME DupesTypes
    PROVE  GroupsTold(Listed)
  <1>1. PICK k \in 0 .. Len(Sorted) :
             /\ Len(Listed) = k /\ DOMAIN Listed = 1 .. k
             /\ \A i \in 1 .. k : Listed[i] = Sorted[i]
             /\ RowsOf({Sorted[i] : i \in 1 .. k}) <= MaxDupeRows /\ (Limit > 0 => k <= Limit)
             /\ \/ k = Len(Sorted)
                \/ Limit > 0 /\ k = Limit
                \/ k < Len(Sorted) /\ ~(RowsOf({Sorted[i] : i \in 1 .. (k + 1)}) <= MaxDupeRows)
    BY ListedIs
  <1> DEFINE shown == {Listed[i] : i \in DOMAIN Listed}
             rest == Exact \ shown
             f == [i \in 1 .. k |-> Sorted[i]]
  <1>2. /\ Sorted \in Seq(Exact) /\ Len(Sorted) \in Nat
        /\ \A e \in Exact : \E j \in 1 .. Len(Sorted) : Sorted[j] = e
        /\ \A i, j \in 1 .. Len(Sorted) : i # j => Sorted[i] # Sorted[j]
        /\ \A i, j \in 1 .. Len(Sorted) : i <= j => Wasted(Sorted[i]) >= Wasted(Sorted[j])
    BY SortedIs, LenProperties
  <1>3. \A i \in 1 .. Len(Sorted) : Sorted[i] \in Exact
    BY <1>2, ElementOfSeq
  <1>4. \A i \in 1 .. k : i \in 1 .. Len(Sorted)
    BY <1>1, <1>2
  <1>5. shown = {Sorted[i] : i \in 1 .. k}
    BY <1>1
  <1> HIDE DEF shown
  <1>6. shown \subseteq Exact
    BY <1>3, <1>4, <1>5
  <1>7. Cardinality(shown) = k
    <2>1. f \in [1 .. k -> shown] /\ (\A i, j \in 1 .. k : f[i] = f[j] => i = j)
          /\ \A e \in shown : \E i \in 1 .. k : f[i] = e
      BY <1>2, <1>4, <1>5
    <2> HIDE DEF f
    <2>2. f \in Surjection(1 .. k, shown) /\ f \in Injection(1 .. k, shown)
      BY <2>1 DEF Injection, Surjection, IsInjective
    <2>3. IsFiniteSet(1 .. k) /\ Cardinality(1 .. k) = k
      <3>1. k \in Int /\ (k = 0 \/ ~(1 > k))
        BY <1>1, <1>2
      <3> QED
        BY <3>1, FS_Interval
    <2> QED
      BY <2>2, <2>3, FS_Surjection
  <1>8. ASSUME NEW d \in shown, NEW e \in Exact \ shown
        PROVE  Wasted(d) >= Wasted(e)
    <2>1. PICK i \in 1 .. k : d = Sorted[i]
      BY <1>5
    <2>2. PICK j \in 1 .. Len(Sorted) : e = Sorted[j]
      BY <1>2
    <2>3. j \notin 1 .. k
      BY <1>5, <2>2
    <2>4. i <= j
      BY <1>1, <1>2, <2>1, <2>2, <2>3
    <2> QED
      BY <1>2, <1>4, <2>1, <2>2, <2>4
  <1>9. \A i, j \in DOMAIN Listed : i <= j => Wasted(Listed[i]) >= Wasted(Listed[j])
    BY <1>1, <1>2, <1>4
  <1>10. RowsOf(shown) <= MaxDupeRows
    BY <1>1, <1>5
  <1>11. \/ rest = {}
         \/ Limit > 0 /\ Len(Listed) = Limit
         \/ \E e \in rest : /\ \A d \in rest : Wasted(e) >= Wasted(d)
                            /\ RowsOf(shown) + Cardinality(e) > MaxDupeRows
    <2>1. CASE k = Len(Sorted)
      BY <1>2, <1>5, <2>1
    <2>2. CASE Limit > 0 /\ k = Limit
      BY <1>1, <2>2
    <2>3. CASE k < Len(Sorted) /\ ~(RowsOf({Sorted[i] : i \in 1 .. (k + 1)}) <= MaxDupeRows)
      <3> DEFINE e == Sorted[k + 1]
      <3>1. k + 1 \in 1 .. Len(Sorted) /\ k \in Nat
        BY <1>1, <1>2, <2>3
      <3>2. e \in rest
        <4>1. \A i \in 1 .. k : i # k + 1
          BY <3>1
        <4> QED
          BY <1>2, <1>3, <1>4, <1>5, <3>1, <4>1
      <3>3. ASSUME NEW d \in rest
            PROVE  Wasted(e) >= Wasted(d)
        <4>1. PICK j \in 1 .. Len(Sorted) : d = Sorted[j]
          BY <1>2
        <4>2. j \notin 1 .. k
          BY <1>5, <4>1
        <4>3. k + 1 <= j
          BY <1>2, <3>1, <4>2
        <4> QED
          BY <1>2, <3>1, <4>1, <4>3
      <3>4. {Sorted[i] : i \in 1 .. (k + 1)} = shown \cup {e}
        <4>1. 1 .. (k + 1) = (1 .. k) \cup {k + 1}
          BY <3>1
        <4> QED
          BY <1>5, <4>1
      <3>5. RowsOf(shown \cup {e}) = RowsOf(shown) + Cardinality(e) /\ RowsOf(shown) \in Nat
        BY <1>6, <3>2, RowsWith
      <3>6. Cardinality(e) \in Nat
        BY <3>2, ExactIs
      <3>7. RowsOf(shown) + Cardinality(e) > MaxDupeRows
        <4>1. ~(RowsOf(shown \cup {e}) <= MaxDupeRows)
          BY <2>3, <3>4, Zenon
        <4>2. ~(RowsOf(shown) + Cardinality(e) <= MaxDupeRows)
          BY <3>5, <4>1, Zenon
        <4> QED
          BY <3>5, <3>6, <4>2, DupesAssumption
      <3> QED
        BY <3>2, <3>3, <3>7
    <2> QED
      BY <1>1, <2>1, <2>2, <2>3
  <1> QED
    BY <1>1, <1>6, <1>7, <1>8, <1>9, <1>10, <1>11, Zenon DEF GroupsTold, shown

\* The recursion that adds up what groups waste does add it up.
LEMMA WasteAdded ==
    ASSUME NEW S, IsFiniteSet(S), NEW w, w = [e \in S |-> Wasted(e)], w \in [S -> Nat],
           NEW g, AddsUp(g, S, w)
    PROVE  MapThenSumSet(Wasted, S) = g[S]
  <1> DEFINE Def(it) == it = [s \in SUBSET S |-> IF s = {} THEN 0
                               ELSE Wasted(Chosen(s)) + it[s \ {Chosen(s)}]]
             it == CHOOSE it : Def(it)
  <1>1. MapThenSumSet(Wasted, S) = it[S]
    BY Zenon DEF MapThenSumSet, MapThenFoldSet, Chosen
  <1>2. \A s \in SUBSET S : s # {} => w[Chosen(s)] = Wasted(Chosen(s))
    <2> SUFFICES ASSUME NEW s \in SUBSET S, s # {}
                 PROVE  w[Chosen(s)] = Wasted(Chosen(s))
      OBVIOUS
    <2>1. Chosen(s) \in S
      BY ChosenIs
    <2> QED
      BY <2>1, Zenon
  <1>3. Def(g)
    <2>1. ASSUME NEW s \in SUBSET S
          PROVE  g[s] = IF s = {} THEN 0 ELSE Wasted(Chosen(s)) + g[s \ {Chosen(s)}]
      BY <1>2, Zenon DEF AddsUp
    <2>2. g = [s \in SUBSET S |-> g[s]]
      BY Zenon DEF AddsUp
    <2> QED
      BY <2>1, <2>2, Zenon
  <1>4. Def(it)
    BY <1>3, Zenon
  <1> HIDE DEF it
  <1>5. AddsTo(it, S, w)
    BY <1>2, <1>4, Zenon DEF AddsTo
  <1> HIDE DEF Def
  <1>6. it[S] = g[S]
    <2>1. IsFiniteSet(S) /\ AddsUp(g, S, w)
      OBVIOUS
    <2> QED
      BY <1>5, <2>1, SumIs
  <1> QED
    BY <1>1, <1>6

\* The sum over all groups bounds the one over those that are listed.
LEMMA WholeWaste ==
    ASSUME DupesTypes
    PROVE  WasteTold(MapThenSumSet(Wasted, Exact))
  <1> DEFINE w == [e \in Exact |-> Wasted(e)]
  <1>1. w \in [Exact -> Nat] /\ IsFiniteSet(Exact)
    BY FoundOnce
  <1>2. PICK g : AddsUp(g, Exact, w)
    <2> HIDE DEF w
    <2> QED
      BY <1>1, SumsExist
  <1>3. MapThenSumSet(Wasted, Exact) = g[Exact]
    BY <1>1, <1>2, WasteAdded
  <1> QED
    BY <1>2, <1>3 DEF WasteTold

LEMMA PartWaste ==
    ASSUME DupesTypes, NEW shown \in SUBSET Exact, NEW wasted, WasteTold(wasted)
    PROVE  MapThenSumSet(Wasted, shown) <= wasted
  <1> DEFINE w == [e \in Exact |-> Wasted(e)]
  <1>1. w \in [Exact -> Nat] /\ IsFiniteSet(Exact)
    BY FoundOnce
  <1>2. PICK g : AddsUp(g, Exact, w) /\ wasted = g[Exact]
    BY DEF WasteTold
  <1> DEFINE h == [s \in SUBSET shown |-> g[s]]
             v == [e \in shown |-> w[e]]
  <1>3. AddsUp(h, shown, v)
    <2> HIDE DEF w
    <2> QED
      BY <1>1, <1>2, SumWithin
  <1>4. v = [e \in shown |-> Wasted(e)] /\ v \in [shown -> Nat]
    BY <1>1
  <1>5. IsFiniteSet(shown)
    BY <1>1, FS_Subset
  <1>6. MapThenSumSet(Wasted, shown) = h[shown]
    <2> HIDE DEF h, v
    <2> QED
      BY <1>3, <1>4, <1>5, WasteAdded
  <1>7. h[shown] = g[shown]
    OBVIOUS
  <1>8. g[shown] <= g[Exact]
    <2> HIDE DEF w
    <2> QED
      BY <1>1, <1>2, SumOfPart
  <1> QED
    BY <1>2, <1>6, <1>7, <1>8

-----------------------------------------------------------------------------
\* A file that was read and that nobody wrote tells what it holds.
LEMMA TellsAlike ==
    ASSUME DupesTypes, KeysTrue, Ready,
           NEW f \in Candidates \ touched, NEW g \in Candidates \ touched, f # g
    PROVE  (content[f] = content[g] /\ content[f] # Locked /\ indexed[f].size = indexed[g].size)
             <=> \E e \in Exact : {f, g} \subseteq e
  <1>1. f \in FileIds /\ g \in FileIds
    BY DEF Candidates
  <1>2. ASSUME NEW e \in Exact, {f, g} \subseteq e
        PROVE  content[f] = content[g] /\ content[f] # Locked /\ indexed[f].size = indexed[g].size
    <2>1. e = Alike(f) /\ hash[f] # <<Locked>> /\ f \in e /\ g \in e
      BY <1>2, ExactIs
    <2>2. hash[f] = hash[g] /\ indexed[f].size = indexed[g].size
      BY <2>1 DEF Alike
    <2>3. hash[f] # <<>> /\ hash[g] # <<>>
      BY <1>2, HashedInExact
    <2>4. hash[f] = <<content[f]>> /\ hash[g] = <<content[g]>>
      BY <1>1, <2>3 DEF KeysTrue
    <2>5. content[f] = content[g]
      <3>1. hash[f][1] = content[f] /\ hash[g][1] = content[g]
        BY <2>4
      <3> QED
        BY <2>2, <3>1
    <2>6. content[f] # Locked
      BY <2>1, <2>4
    <2> QED
      BY <2>2, <2>5, <2>6
  <1>3. ASSUME content[f] = content[g], content[f] # Locked, indexed[f].size = indexed[g].size
        PROVE  \E e \in Exact : {f, g} \subseteq e
    <2> DEFINE s == {x \in Candidates : indexed[x].size = indexed[f].size}
               b == {x \in s : Sampled(indexed[f].size) => sample[x] = sample[f]}
    <2>1. s \in SizeGroups /\ f \in s /\ g \in s
      BY <1>3, SizeGroupOf
    <2>2. indexed[Min(s)].size = indexed[f].size
      <3>1. \A x \in s : indexed[x].size = indexed[f].size
        OBVIOUS
      <3> HIDE DEF s
      <3> QED
        BY <2>1, <3>1, SizeGroupIs
    <2>3. Sampled(indexed[f].size) => sample[f] = sample[g] /\ sample[f] # <<Locked>>
      <3> SUFFICES ASSUME Sampled(indexed[f].size)
                   PROVE  sample[f] = sample[g] /\ sample[f] # <<Locked>>
        OBVIOUS
      <3>1. sample[f] # <<>> /\ sample[g] # <<>>
        <4> HIDE DEF s
        <4> QED
          BY <2>1, <2>2 DEF Ready
      <3>2. sample[f] = <<SampleKey(content[f])>> /\ sample[g] = <<SampleKey(content[g])>>
        BY <1>1, <3>1 DEF KeysTrue
      <3> QED
        BY <1>3, <3>2, KeyOfReadable
    <2>4. f \in b /\ g \in b
      BY <2>1, <2>3
    <2>5. b \in Buckets(s)
      <3>1. CASE Sampled(indexed[f].size)
        <4>1. b = {x \in s : sample[x] = sample[f]}
          BY <3>1
        <4>2. b \in BucketBy(s, sample)
          BY <2>1, <2>3, <3>1, <4>1 DEF BucketBy
        <4>3. Cardinality(b) > 1
          <5>1. b \in SUBSET FileIds
            BY DEF Candidates
          <5>2. IsFiniteSet(b)
            BY <5>1, FS_Subset DEF DupesTypes
          <5> QED
            BY <2>4, <5>2, TwoMembers
        <4> HIDE DEF b, s
        <4> QED
          BY <2>2, <3>1, <4>2, <4>3 DEF Buckets
      <3>2. CASE ~Sampled(indexed[f].size)
        <4>1. b = s
          BY <3>2
        <4> HIDE DEF b, s
        <4> QED
          BY <2>2, <3>2, <4>1 DEF Buckets
      <3> QED
        BY <3>1, <3>2
    <2>6. hash[f] # <<>> /\ hash[g] # <<>>
      <3> HIDE DEF b, s
      <3> QED
        BY <2>1, <2>4, <2>5 DEF Ready
    <2>7. hash[f] = <<content[f]>> /\ hash[g] = <<content[g]>>
      BY <1>1, <2>6 DEF KeysTrue
    <2>8. hash[f] = hash[g] /\ hash[f] # <<Locked>>
      BY <1>3, <2>7
    <2>9. g \in Alike(f) /\ f \in Alike(f)
      BY <1>3, <2>3, <2>8 DEF Alike
    <2>10. Alike(f) \in Exact
      BY <2>3, <2>8, <2>9, AlikeFound
    <2> QED
      BY <2>9, <2>10
  <1> QED
    BY <1>2, <1>3

\* A file that cannot be read is in no group.
LEMMA LockedAlone ==
    ASSUME DupesTypes, KeysTrue, Ready, NEW f \in Candidates \ touched, content[f] = Locked,
           NEW e \in Exact
    PROVE  f \notin e
  <1> SUFFICES ASSUME f \in e
               PROVE  FALSE
    OBVIOUS
  <1>1. hash[f] # <<Locked>> /\ hash[f] # <<>> /\ f \in FileIds
    BY ExactIs, HashedInExact DEF Candidates
  <1>2. hash[f] = <<content[f]>>
    BY <1>1 DEF KeysTrue
  <1> QED
    BY <1>1, <1>2

LEMMA DupesInvRight == ASSUME DupesInv PROVE DupesRight
  <1> SUFFICES ASSUME reply # <<>>
               PROVE  DupesRight!2
    BY DEF DupesRight
  <1> DEFINE groups == reply[1].groups
             shown == {groups[i] : i \in DOMAIN groups}
             rest == Exact \ shown
             still == {f \in Candidates : f \notin touched}
  <1>1. DupesTypes /\ KeysTrue /\ Ready /\ GroupsTold(groups) /\ WasteTold(reply[1].wasted)
    BY DEF DupesInv
  <1>2. \A f, g \in still : f # g =>
             (content[f] = content[g] /\ content[f] # Locked /\ indexed[f].size = indexed[g].size)
                <=> \E e \in Exact : {f, g} \subseteq e
    BY <1>1, TellsAlike
  <1>3. \A f \in still : content[f] = Locked => \A e \in Exact : f \notin e
    BY <1>1, LockedAlone
  <1>4. /\ shown \subseteq Exact /\ Cardinality(shown) = Len(groups)
        /\ \A i, j \in DOMAIN groups : i <= j => Wasted(groups[i]) >= Wasted(groups[j])
        /\ \A d \in shown, e \in rest : Wasted(d) >= Wasted(e)
        /\ RowsOf(shown) <= MaxDupeRows /\ (Limit > 0 => Len(groups) <= Limit)
        /\ \/ rest = {}
           \/ Limit > 0 /\ Len(groups) = Limit
           \/ \E e \in rest : /\ \A d \in rest : Wasted(e) >= Wasted(d)
                              /\ RowsOf(shown) + Cardinality(e) > MaxDupeRows
    BY <1>1, Zenon DEF GroupsTold
  <1>5. MapThenSumSet(Wasted, shown) <= reply[1].wasted
    <2> HIDE DEF shown
    <2> QED
      BY <1>1, <1>4, PartWaste
  <1> QED
    BY <1>2, <1>3, <1>4, <1>5, Zenon

-----------------------------------------------------------------------------
\* Nothing is read yet.
LEMMA DupesStart == ASSUME DupesInit PROVE DupesInv
  <1>1. PICK d \in DupeDisks :
          /\ indexed = [f \in DOMAIN d |-> [size |-> d[f].size, excl |-> d[f].excl, link |-> d[f].link]]
          /\ content = [f \in DOMAIN d |-> d[f].content]
          /\ sample = [f \in DOMAIN d |-> <<>>] /\ hash = sample
          /\ touched = {} /\ reply = <<>>
    BY DEF DupesInit
  <1>2. FileIds = DOMAIN d
    BY <1>1 DEF FileIds
  <1>3. /\ IsFiniteSet(DOMAIN d) /\ DOMAIN d \subseteq Nat
        /\ \A f \in DOMAIN d : /\ d[f].size \in Nat /\ d[f].excl \in BOOLEAN
                               /\ d[f].link \in BOOLEAN /\ d[f].content \in Content
    BY DupesAssumption
  <1>4. DupesTypes
    <2>1. indexed \in [FileIds -> [size : Nat, excl : BOOLEAN, link : BOOLEAN]]
      BY <1>1, <1>2, <1>3
    <2>2. content \in [FileIds -> Content]
      BY <1>1, <1>2, <1>3
    <2>3. <<>> \in Keys
      BY DEF Keys
    <2>4. sample \in [FileIds -> Keys] /\ hash \in [FileIds -> Keys]
      BY <1>1, <1>2, <2>3
    <2> QED
      BY <1>2, <1>3, <2>1, <2>2, <2>4 DEF DupesTypes
  <1>5. KeysTrue
    BY <1>1, <1>2 DEF KeysTrue
  <1> QED
    BY <1>1, <1>4, <1>5 DEF DupesInv

\* What is told depends on what was read and on the index alone.
LEMMA Settled ==
    ASSUME UNCHANGED <<indexed, sample, hash>>
    PROVE  /\ FileIds' = FileIds /\ Candidates' = Candidates /\ SizeGroups' = SizeGroups
           /\ Exact' = Exact /\ (\A e : Wasted(e)' = Wasted(e)) /\ (Ready => Ready')
  <1>1. FileIds' = FileIds
    BY DEF FileIds
  <1>2. Candidates' = Candidates
    BY <1>1 DEF Candidates
  <1>3. SizeGroups' = SizeGroups
    <2> DEFINE Of(k) == {f \in Candidates : indexed[f].size = k}
               Sizes == {indexed[f].size : f \in Candidates}
    <2>1. ASSUME NEW k
          PROVE  Of(k)' = Of(k)
      BY <1>2
    <2>2. Sizes' = Sizes
      BY <1>2
    <2>3. /\ SizeGroups = {g \in {Of(k) : k \in Sizes} : Cardinality(g) > 1}
          /\ SizeGroups' = {g \in {Of(k)' : k \in Sizes'} : Cardinality(g) > 1}
      BY Zenon DEF SizeGroups
    <2> HIDE DEF Of, Sizes
    <2>4. {Of(k)' : k \in Sizes'} = {Of(k) : k \in Sizes}
      BY <2>1, <2>2
    <2> QED
      BY <2>3, <2>4, Zenon
  <1>4. ASSUME NEW g
        PROVE  BucketBy(g, sample)' = BucketBy(g, sample) /\ BucketBy(g, hash)' = BucketBy(g, hash)
    BY DEF BucketBy
  <1>5. ASSUME NEW g
        PROVE  Buckets(g)' = Buckets(g)
    BY <1>4 DEF Buckets, Sampled
  <1>8. Exact' = Exact
    <2> DEFINE Of(g) == UNION {{e \in BucketBy(b, hash) : Cardinality(e) > 1} : b \in Buckets(g)}
    <2>1. ASSUME NEW g
          PROVE  Of(g)' = Of(g)
      <3> DEFINE Found(b) == {e \in BucketBy(b, hash) : Cardinality(e) > 1}
      <3>1. ASSUME NEW b
            PROVE  Found(b)' = Found(b)
        BY <1>4
      <3>2. Of(g) = UNION {Found(b) : b \in Buckets(g)} /\ Of(g)' = UNION {Found(b)' : b \in Buckets(g)'}
        BY Zenon
      <3> HIDE DEF Found
      <3>3. {Found(b)' : b \in Buckets(g)'} = {Found(b) : b \in Buckets(g)}
        BY <1>5, <3>1
      <3> QED
        BY <3>2, <3>3, Zenon
    <2>2. Exact = UNION {Of(g) : g \in SizeGroups} /\ Exact' = UNION {Of(g)' : g \in SizeGroups'}
      BY Zenon DEF Exact
    <2> HIDE DEF Of
    <2>3. {Of(g)' : g \in SizeGroups'} = {Of(g) : g \in SizeGroups}
      BY <1>3, <2>1
    <2> QED
      BY <2>2, <2>3, Zenon
  <1>6. \A e : Wasted(e)' = Wasted(e)
    BY DEF Wasted
  <1>7. Ready => Ready'
    BY <1>3, <1>5, Zenon DEF Ready, Sampled
  <1> QED
    BY <1>1, <1>2, <1>3, <1>6, <1>7, <1>8

\* A key that is read of a file is the one of what it holds.
LEMMA ReadStep ==
    ASSUME DupesInv, NEW f \in FileIds, SampleFile(f) \/ HashFile(f)
    PROVE  DupesInv'
  <1>1. reply' = <<>>
    BY DEF SampleFile, HashFile
  <1>2. UNCHANGED <<indexed, content, touched>> /\ FileIds' = FileIds
    BY DEF SampleFile, HashFile, FileIds
  <1>3. DupesTypes /\ KeysTrue
    BY DEF DupesInv
  <1>4. content[f] \in Content /\ <<SampleKey(content[f])>> \in Keys /\ <<content[f]>> \in Keys
    <2>1. content[f] \in Content
      BY <1>3 DEF DupesTypes
    <2>2. SampleKey(content[f]) \in Content \cup [head : Nat, tail : Nat]
      BY <2>1 DEF SampleKey, Content
    <2> QED
      BY <2>1, <2>2 DEF Keys
  <1>5. CASE SampleFile(f)
    <2>1. sample' = [sample EXCEPT ![f] = <<SampleKey(content[f])>>] /\ hash' = hash
      BY <1>5 DEF SampleFile, SampleKey
    <2>2. sample' \in [FileIds -> Keys] /\ hash' \in [FileIds -> Keys]
      BY <1>3, <1>4, <2>1 DEF DupesTypes
    <2>3. DupesTypes'
      BY <1>2, <1>3, <2>2 DEF DupesTypes
    <2>4. \A h \in FileIds : sample'[h] = IF h = f THEN <<SampleKey(content[f])>> ELSE sample[h]
      BY <1>3, <2>1 DEF DupesTypes
    <2>5. KeysTrue'
      BY <1>2, <1>3, <2>1, <2>4 DEF KeysTrue
    <2> QED
      BY <1>1, <2>3, <2>5 DEF DupesInv
  <1>6. CASE HashFile(f)
    <2>1. hash' = [hash EXCEPT ![f] = <<content[f]>>] /\ sample' = sample
      BY <1>6 DEF HashFile
    <2>2. sample' \in [FileIds -> Keys] /\ hash' \in [FileIds -> Keys]
      BY <1>3, <1>4, <2>1 DEF DupesTypes
    <2>3. DupesTypes'
      BY <1>2, <1>3, <2>2 DEF DupesTypes
    <2>4. \A h \in FileIds : hash'[h] = IF h = f THEN <<content[f]>> ELSE hash[h]
      BY <1>3, <2>1 DEF DupesTypes
    <2>5. KeysTrue'
      BY <1>2, <1>3, <2>1, <2>4 DEF KeysTrue
    <2> QED
      BY <1>1, <2>3, <2>5 DEF DupesInv
  <1> QED
    BY <1>5, <1>6

\* A file that is written is no longer one that nobody touched.
LEMMA WriteStep ==
    ASSUME DupesInv, NEW f \in FileIds, WriteFile(f)
    PROVE  DupesInv'
  <1>1. PICK new \in Rewritten : content' = [content EXCEPT ![f] = new]
    BY DEF WriteFile
  <1>2. /\ UNCHANGED <<indexed, sample, hash>> /\ FileIds' = FileIds /\ reply' = <<>>
        /\ touched' = touched \cup {f}
    BY DEF WriteFile, FileIds
  <1>3. DupesTypes /\ KeysTrue
    BY DEF DupesInv
  <1>4. new \in Content
    BY DupesAssumption
  <1>5. DupesTypes'
    BY <1>1, <1>2, <1>3, <1>4 DEF DupesTypes
  <1>6. \A h \in FileIds \ {f} : content'[h] = content[h]
    BY <1>1, <1>3 DEF DupesTypes
  <1>7. KeysTrue'
    BY <1>2, <1>3, <1>6 DEF KeysTrue
  <1> QED
    BY <1>2, <1>5, <1>7 DEF DupesInv

\* The answer is made from what was read, all of it.
LEMMA ReplyStep == ASSUME DupesInv, Reply PROVE DupesInv'
  <1>1. /\ UNCHANGED <<indexed, content, sample, hash, touched>> /\ Ready
        /\ reply' = <<[groups |-> Listed, wasted |-> MapThenSumSet(Wasted, Exact)]>>
    BY DEF Reply
  <1>2. DupesTypes /\ KeysTrue
    BY DEF DupesInv
  <1>3. GroupsTold(Listed) /\ WasteTold(MapThenSumSet(Wasted, Exact))
    BY <1>2, ListedTold, WholeWaste
  <1>4. reply'[1].groups = Listed /\ reply'[1].wasted = MapThenSumSet(Wasted, Exact)
    BY <1>1
  <1>5. GroupsTold(reply'[1].groups) /\ WasteTold(reply'[1].wasted)
    BY <1>3, <1>4, Zenon
  <1>6. Exact' = Exact /\ (\A e : Wasted(e)' = Wasted(e)) /\ Ready'
    BY <1>1, Settled
  <1>7. (GroupsTold(reply[1].groups) /\ WasteTold(reply[1].wasted))'
    <2>1. GroupsTold(reply[1].groups)'
      BY <1>5, <1>6, Zenon DEF GroupsTold
    <2>2. [e \in Exact |-> Wasted(e)]' = [e \in Exact |-> Wasted(e)]
      BY <1>6, Zenon
    <2>3. WasteTold(reply[1].wasted)'
      BY <1>5, <1>6, <2>2, Zenon DEF WasteTold
    <2> QED
      BY <2>1, <2>3
  <1>8. DupesTypes' /\ KeysTrue'
    BY <1>1, <1>2 DEF DupesTypes, KeysTrue, FileIds
  <1> QED
    BY <1>6, <1>7, <1>8 DEF DupesInv

LEMMA StillStep == ASSUME DupesInv, UNCHANGED dupesVars PROVE DupesInv'
  <1>1. UNCHANGED <<indexed, content, sample, hash, touched, reply>>
    BY DEF dupesVars
  <1>2. DupesTypes' /\ KeysTrue'
    BY <1>1 DEF DupesInv, DupesTypes, KeysTrue, FileIds
  <1>3. reply' # <<>> => (Ready /\ GroupsTold(reply[1].groups) /\ WasteTold(reply[1].wasted))'
    <2> SUFFICES ASSUME reply' # <<>>
                 PROVE  (Ready /\ GroupsTold(reply[1].groups) /\ WasteTold(reply[1].wasted))'
      OBVIOUS
    <2>1. Ready /\ GroupsTold(reply[1].groups) /\ WasteTold(reply[1].wasted)
      BY <1>1 DEF DupesInv
    <2>2. Exact' = Exact /\ (\A e : Wasted(e)' = Wasted(e)) /\ Ready'
      BY <1>1, <2>1, Settled
    <2>3. GroupsTold(reply[1].groups)'
      BY <1>1, <2>1, <2>2, Zenon DEF GroupsTold
    <2>4. [e \in Exact |-> Wasted(e)]' = [e \in Exact |-> Wasted(e)]
      BY <2>2, Zenon
    <2>5. WasteTold(reply[1].wasted)'
      BY <1>1, <2>1, <2>2, <2>4, Zenon DEF WasteTold
    <2> QED
      BY <2>2, <2>3, <2>5
  <1> QED
    BY <1>2, <1>3 DEF DupesInv

\* Whatever is written while the finder reads: of the files nobody touched it
\* puts together exactly those that are the same byte for byte, it lists the
\* groups that waste most, as many as both limits let in, and what it says all
\* of them waste covers them.
THEOREM DuplicatesRight == DupesSpec => []DupesRight
  <1>1. DupesInit => DupesInv
    BY DupesStart
  <1>2. DupesInv /\ [DupesNext]_dupesVars => DupesInv'
    BY ReadStep, WriteStep, ReplyStep, StillStep DEF DupesNext
  <1>3. DupesInv => DupesRight
    BY DupesInvRight
  <1> QED
    BY <1>1, <1>2, <1>3, PTL DEF DupesSpec

-----------------------------------------------------------------------------
\* The snapshot file

\* An index whose arrays fit together, and which remembers a replaced name for
\* every node that is marked to have one.
Sound(x) ==
    /\ DOMAIN x = {"off", "len", "arena", "overridden", "over", "pruned"}
    /\ x.off \in Seq(Nat) /\ x.len \in Seq(Nat) /\ x.arena \in Seq(STRING)
    /\ Len(x.off) > 0 /\ Len(x.len) = Len(x.off)
    /\ \A n \in DOMAIN x.off : x.off[n] + x.len[n] <= Len(x.arena)
    /\ \A n \in DOMAIN x.off : n > 1 => x.off[n - 1] <= x.off[n]
    /\ \A n \in DOMAIN x.over : x.over[n] \in Seq(STRING)
    /\ x.over = <<>> => x.overridden = {}
    /\ x.pruned \in SUBSET Nat

\* The names an index shows.
Names(x) == [n \in Nodes(x) |-> NameOf(x, n)]

LEMMA NamesType ==
    ASSUME NEW x, Sound(x)
    PROVE  Names(x) \in Seq(Seq(STRING)) /\ Len(Names(x)) = Len(x.off)
           /\ \A n \in 1 .. Len(x.off) : Names(x)[n] = NameOf(x, n)
  <1>1. ASSUME NEW n \in 1 .. Len(x.off)
        PROVE  NameOf(x, n) \in Seq(STRING)
    <2>1. OldName(x, n) \in Seq(STRING)
      <3>1. x.off[n] \in Nat /\ x.len[n] \in Nat /\ x.arena \in Seq(STRING)
            /\ x.off[n] + x.len[n] <= Len(x.arena)
        BY DEF Sound
      <3> QED
        BY <3>1, SubSeqProperties DEF OldName
    <2> QED
      BY <2>1 DEF Sound, NameOf
  <1>2. Nodes(x) = 1 .. Len(x.off)
    BY DEF Nodes, Sound
  <1> QED
    BY <1>1, <1>2 DEF Names, Sound

\* A name lies where its offset and its length say, behind the one before.
Placed(names, off, len, arena, n) ==
    /\ off[n] + len[n] <= Len(arena)
    /\ n > 1 => off[n - 1] <= off[n]
    /\ SubSeq(arena, off[n] + 1, off[n] + len[n]) = names[n]

\* What compact_names makes of the names: one after the other, and as many.
Packed(names, off, len, arena) ==
    /\ off \in Seq(Nat) /\ len \in Seq(Nat) /\ arena \in Seq(STRING)
    /\ Len(off) = Len(names) /\ Len(len) = Len(names)
    /\ \A n \in 1 .. Len(names) : Placed(names, off, len, arena, n)

\* One more name behind the others leaves those where they are.
LEMMA PackOneMore ==
    ASSUME NEW names \in Seq(Seq(STRING)), NEW name \in Seq(STRING),
           NEW off, NEW len, NEW arena, Packed(names, off, len, arena)
    PROVE  Packed(Append(names, name), Append(off, Len(arena)), Append(len, Len(name)), arena \o name)
  <1> DEFINE k == Len(names)
             names2 == Append(names, name)
             off2 == Append(off, Len(arena))
             len2 == Append(len, Len(name))
             arena2 == arena \o name
  <1>0. off \in Seq(Nat) /\ len \in Seq(Nat) /\ arena \in Seq(STRING) /\ Len(off) = k /\ Len(len) = k
        /\ k \in Nat /\ Len(arena) \in Nat /\ Len(name) \in Nat
    BY LenProperties DEF Packed
  <1>1. arena2 \in Seq(STRING) /\ Len(arena2) = Len(arena) + Len(name)
    BY <1>0, ConcatProperties
  <1>2. /\ off2 \in Seq(Nat) /\ Len(off2) = k + 1 /\ off2[k + 1] = Len(arena)
        /\ \A n \in 1 .. k : off2[n] = off[n] /\ off[n] \in Nat
    <2>1. /\ off2 \in Seq(Nat) /\ Len(off2) = Len(off) + 1 /\ off2[Len(off) + 1] = Len(arena)
          /\ \A n \in 1 .. Len(off) : off2[n] = off[n]
      BY <1>0, AppendProperties
    <2>2. \A n \in 1 .. Len(off) : off[n] \in Nat
      BY <1>0
    <2> HIDE DEF off2
    <2> QED
      BY <1>0, <2>1, <2>2
  <1>3. /\ len2 \in Seq(Nat) /\ Len(len2) = k + 1 /\ len2[k + 1] = Len(name)
        /\ \A n \in 1 .. k : len2[n] = len[n] /\ len[n] \in Nat
    <2>1. /\ len2 \in Seq(Nat) /\ Len(len2) = Len(len) + 1 /\ len2[Len(len) + 1] = Len(name)
          /\ \A n \in 1 .. Len(len) : len2[n] = len[n]
      BY <1>0, AppendProperties
    <2>2. \A n \in 1 .. Len(len) : len[n] \in Nat
      BY <1>0
    <2> HIDE DEF len2
    <2> QED
      BY <1>0, <2>1, <2>2
  <1>4. Len(names2) = k + 1 /\ names2[k + 1] = name /\ \A n \in 1 .. k : names2[n] = names[n]
    BY AppendProperties
  <1>5. SubSeq(arena2, Len(arena) + 1, Len(arena) + Len(name)) = name
    BY <1>0, LastOfConcat
  <1>6. \A m, n \in Nat : n <= Len(arena) => SubSeq(arena2, m + 1, n) = SubSeq(arena, m + 1, n)
    <2> SUFFICES ASSUME NEW m \in Nat, NEW n \in Nat, n <= Len(arena)
                 PROVE  SubSeq(arena2, m + 1, n) = SubSeq(arena, m + 1, n)
      OBVIOUS
    <2> QED
      BY <1>0, FirstOfConcat
  <1> HIDE DEF k, names2, off2, len2, arena2
  <1>7. ASSUME NEW n \in 1 .. k
        PROVE  Placed(names2, off2, len2, arena2, n)
    <2>1. Placed(names, off, len, arena, n) /\ off[n] + len[n] \in Nat
      <3>1. Placed(names, off, len, arena, n)
        BY DEF Packed, k
      <3>2. off[n] \in Nat /\ len[n] \in Nat
        BY <1>2, <1>3
      <3> QED
        BY <3>1, <3>2
    <2>2. SubSeq(arena2, off[n] + 1, off[n] + len[n]) = names[n]
      BY <1>2, <1>6, <2>1, Zenon DEF Placed
    <2>3. off2[n] + len2[n] <= Len(arena2)
      BY <1>0, <1>1, <1>2, <1>3, <2>1 DEF Placed
    <2>4. n > 1 => off2[n - 1] <= off2[n]
      BY <1>0, <1>2, <2>1 DEF Placed
    <2> QED
      BY <1>2, <1>3, <1>4, <2>2, <2>3, <2>4, Zenon DEF Placed
  <1>8. Placed(names2, off2, len2, arena2, k + 1)
    <2>1. k > 0 => off[k] <= Len(arena)
      <3>1. ASSUME k > 0 PROVE off[k] + len[k] <= Len(arena) /\ k \in 1 .. k
        BY <1>0, <3>1 DEF Packed, k, Placed
      <3> QED
        BY <1>0, <1>2, <1>3, <3>1
    <2>2. k + 1 > 1 => off2[k + 1 - 1] <= off2[k + 1]
      BY <1>0, <1>2, <2>1
    <2> QED
      BY <1>0, <1>1, <1>2, <1>3, <1>4, <1>5, <2>2 DEF Placed
  <1>9. \A n \in 1 .. k + 1 : n \in 1 .. k \/ n = k + 1
    BY <1>0
  <1>10. Packed(names2, off2, len2, arena2)
    BY <1>1, <1>2, <1>3, <1>4, <1>7, <1>8, <1>9, Zenon DEF Packed
  <1> QED
    BY <1>10 DEF names2, off2, len2, arena2

\* The fold of compact_names over an index: the names it shows, packed.
LEMMA CompactedPacked ==
    ASSUME NEW x, Sound(x)
    PROVE  LET c == CompactNames(x)
           IN  /\ Packed(Names(x), c.off, c.len, c.arena)
               /\ c.overridden = {}
  <1> DEFINE N == Len(x.off)
             T == [off : Seq(Nat), len : Seq(Nat), arena : Seq(STRING)]
             base == [off |-> <<>>, len |-> <<>>, arena |-> <<>>]
             Put(c, n) == [off |-> Append(c.off, Len(c.arena)), len |-> Append(c.len, Len(NameOf(x, n))),
                           arena |-> c.arena \o NameOf(x, n)]
             G == [p \in T \X (1 .. N) |-> Put(p[1], p[2])]
             ids == [n \in Nodes(x) |-> n]
             Folds(it) == it = [s \in SUBSET (DOMAIN ids) |->
                                  IF s = {} THEN base ELSE Put(it[s \ {Max(s)}], ids[Max(s)])]
             it == CHOOSE it : Folds(it)
  <1>1. N \in Nat /\ Nodes(x) = 1 .. N /\ DOMAIN ids = 1 .. N /\ \A n \in 1 .. N : ids[n] = n
    BY DEF Sound, Nodes
  <1>2. \A n \in 1 .. N : NameOf(x, n) \in Seq(STRING) /\ Names(x)[n] = NameOf(x, n)
    BY NamesType DEF Names, Nodes
  <1>3. \A c \in T, n \in 1 .. N : Put(c, n) \in T
    <2> SUFFICES ASSUME NEW c \in T, NEW n \in 1 .. N
                 PROVE  Put(c, n) \in T
      OBVIOUS
    <2>1. c.off \in Seq(Nat) /\ c.len \in Seq(Nat) /\ c.arena \in Seq(STRING)
          /\ Len(c.arena) \in Nat /\ Len(NameOf(x, n)) \in Nat
      BY <1>2
    <2>2. Append(c.off, Len(c.arena)) \in Seq(Nat) /\ Append(c.len, Len(NameOf(x, n))) \in Seq(Nat)
          /\ c.arena \o NameOf(x, n) \in Seq(STRING)
      BY <1>2, <2>1, AppendProperties, ConcatProperties
    <2> QED
      BY <2>2
  <1> HIDE DEF Put, N, ids
  <1>4. \E f : Folds(f)
    <2>1. base \in T /\ G \in [T \X (1 .. N) -> T]
      BY <1>3
    <2>2. PICK f : FoldsBy(f, N, T, base, G)
      <3> HIDE DEF T, base, G
      <3> QED
        BY <1>1, <2>1, FoldSolved
    <2>3. ASSUME NEW s \in SUBSET (1 .. N), s # {}
          PROVE  G[<<f[s \ {Max(s)}], Max(s)>>] = Put(f[s \ {Max(s)}], ids[Max(s)])
      <3>1. Max(s) \in 1 .. N
        BY <1>1, <2>3, MaxInSet
      <3>2. f[s \ {Max(s)}] \in T
        BY <2>2 DEF FoldsBy
      <3> HIDE DEF T
      <3> QED
        BY <1>1, <3>1, <3>2
    <2>4. \A s \in SUBSET (1 .. N) :
            f[s] = IF s = {} THEN base ELSE Put(f[s \ {Max(s)}], ids[Max(s)])
      <3> HIDE DEF base, G
      <3> QED
        BY <2>2, <2>3 DEF FoldsBy
    <2>5. Folds(f)
      <3> HIDE DEF base, T, G
      <3>1. f = [s \in SUBSET (1 .. N) |-> f[s]]
        BY <2>2 DEF FoldsBy
      <3> QED
        BY <1>1, <2>4, <3>1
    <2> QED
      BY <2>5
  <1>5. Folds(it)
    <2> HIDE DEF Folds
    <2> QED
      BY <1>4
  <1>6. it[1 .. 0] = base /\ \A k \in 0 .. N - 1 : it[1 .. k + 1] = Put(it[1 .. k], k + 1)
    <2> HIDE DEF base, it
    <2>1. \A s \in SUBSET (1 .. N) :
            it[s] = IF s = {} THEN base ELSE Put(it[s \ {Max(s)}], ids[Max(s)])
      BY <1>1, <1>5
    <2>2. it[1 .. 0] = base
      BY <2>1
    <2>3. ASSUME NEW k \in 0 .. N - 1
          PROVE  it[1 .. k + 1] = Put(it[1 .. k], k + 1)
      <3>1. Max(1 .. k + 1) = k + 1 /\ (1 .. k + 1) \ {k + 1} = 1 .. k
        BY <1>1, MaxOfStretch
      <3>2. 1 .. k + 1 \in SUBSET (1 .. N) /\ k + 1 \in 1 .. k + 1 /\ k + 1 \in 1 .. N
        BY <1>1
      <3> QED
        BY <1>1, <2>1, <3>1, <3>2, Zenon
    <2> QED
      BY <2>2, <2>3
  <1> DEFINE names == Names(x)
             P(c, k) == Packed(SubSeq(names, 1, k), c.off, c.len, c.arena)
             S == {k \in 0 .. N : P(it[1 .. k], k)}
  <1>7. names \in Seq(Seq(STRING)) /\ Len(names) = N
    BY NamesType DEF N
  <1>8. P(it[1 .. N], N)
    <2>1. P(base, 0)
      <3>1. SubSeq(names, 1, 0) = <<>>
        BY <1>7, SubSeqEmpty
      <3> QED
        BY <3>1, EmptySeq DEF Packed
    <2>2. ASSUME NEW k \in 0 .. N - 1, NEW c, P(c, k)
          PROVE  P(Put(c, k + 1), k + 1)
      <3>1. /\ SubSeq(names, 1, k) \in Seq(Seq(STRING)) /\ names[k + 1] \in Seq(STRING)
            /\ SubSeq(names, 1, k + 1) = Append(SubSeq(names, 1, k), names[k + 1])
        BY <1>1, <1>7, NextPrefix
      <3>2. names[k + 1] = NameOf(x, k + 1)
        BY <1>1, <1>2
      <3> DEFINE d == Put(c, k + 1)
      <3>3. d.off = Append(c.off, Len(c.arena)) /\ d.len = Append(c.len, Len(names[k + 1]))
            /\ d.arena = c.arena \o names[k + 1]
        BY <3>2 DEF Put
      <3> HIDE DEF d
      <3>4. Packed(Append(SubSeq(names, 1, k), names[k + 1]), d.off, d.len, d.arena)
        BY <2>2, <3>1, <3>3, PackOneMore
      <3> QED
        BY <3>1, <3>4 DEF d
    <2> HIDE DEF P, base, it
    <2>3. S \in SUBSET (0 .. N) /\ 0 \in S
      BY <1>1, <1>6, <2>1
    <2>4. ASSUME NEW k \in S, k < N
          PROVE  k + 1 \in S
      BY <1>1, <1>6, <2>2, <2>4
    <2> HIDE DEF S
    <2>5. S = 0 .. N
      BY <1>1, <2>3, <2>4, InductUpTo
    <2> QED
      BY <1>1, <2>5 DEF S
  <1>9. CASE x.over # <<>>
    <2>1. /\ CompactNames(x).off = it[1 .. N].off /\ CompactNames(x).len = it[1 .. N].len
          /\ CompactNames(x).arena = it[1 .. N].arena /\ CompactNames(x).overridden = {}
      BY <1>1, <1>9, Zenon DEF CompactNames, FoldLeft, MapThenFoldSet, Put, ids
    <2>2. SubSeq(names, 1, N) = names
      BY <1>7, SubSeqFull
    <2> QED
      BY <1>8, <2>1, <2>2
  <1>10. CASE x.over = <<>>
    <2>1. /\ CompactNames(x).off = x.off /\ CompactNames(x).len = x.len
          /\ CompactNames(x).arena = x.arena /\ CompactNames(x).overridden = {}
      BY <1>10 DEF CompactNames, Sound
    <2>2. ASSUME NEW n \in 1 .. Len(names)
          PROVE  Placed(names, x.off, x.len, x.arena, n)
      <3>1. n \in 1 .. N /\ names[n] = SubSeq(x.arena, x.off[n] + 1, x.off[n] + x.len[n])
        BY <1>2, <1>7, <1>10 DEF NameOf, OldName
      <3>2. n \in DOMAIN x.off /\ DOMAIN x.off \subseteq Nat
        BY <1>1, <3>1 DEF Sound, N
      <3>3. x.off[n] + x.len[n] <= Len(x.arena) /\ (n > 1 => x.off[n - 1] <= x.off[n])
        BY <3>2 DEF Sound
      <3> QED
        BY <3>1, <3>3 DEF Placed
    <2> QED
      BY <1>7, <2>1, <2>2 DEF Packed, Sound, N
  <1> QED
    BY <1>9, <1>10

-----------------------------------------------------------------------------
\* What a payload holds: an index that was handed to a save.
Part == [off : Seq(Nat), len : Seq(Nat), overridden : SUBSET Nat, pruned : SUBSET Nat]
Chunk == {<<>>} \cup {<<p>> : p \in Part} \cup {<<a>> : a \in Seq(STRING)}
Payloads == Seq(Chunk)

Shown(x) == [names |-> Names(x), pruned |-> x.pruned]

Holds(payload, saved) ==
    LET y == FromPayload(payload)
    IN  /\ payload = <<payload[1], payload[2]>>
        /\ Sound(y) /\ y.overridden = {}
        /\ Shown(y) = saved

Good(payload) == \E saved \in seen.saved : Holds(payload, saved)

\* What is written of an index reads back as the names it shows.
LEMMA PayloadHolds ==
    ASSUME NEW x, Sound(x)
    PROVE  Payload(x) \in Payloads /\ Holds(Payload(x), Shown(x))
  <1> DEFINE c == CompactNames(x)
             y == FromPayload(Payload(x))
             part == [off |-> c.off, len |-> c.len, overridden |-> c.overridden, pruned |-> x.pruned]
  <1>1. Packed(Names(x), c.off, c.len, c.arena) /\ c.overridden = {}
    BY CompactedPacked
  <1>2. Names(x) \in Seq(Seq(STRING)) /\ Len(Names(x)) = Len(x.off) /\ Len(x.off) > 0
    BY NamesType DEF Sound
  <1>3. Payload(x) = << <<part>>, <<c.arena>> >>
    BY DEF Payload
  <1>4. part \in Part /\ c.arena \in Seq(STRING)
    BY <1>1 DEF Packed, Part, Sound
  <1> HIDE DEF part
  <1>5. Payload(x) \in Payloads
    <2>1. <<part>> \in Chunk /\ <<c.arena>> \in Chunk
      <3> HIDE DEF c
      <3> QED
        BY <1>4 DEF Chunk
    <2> QED
      BY <1>3, <2>1 DEF Payloads
  <1>6. Payload(x) = <<Payload(x)[1], Payload(x)[2]>>
    BY <1>3
  <1>7. y = [off |-> c.off, len |-> c.len, arena |-> c.arena, overridden |-> {}, over |-> <<>>,
             pruned |-> x.pruned]
    <2>1. Payload(x)[1][1] = part /\ Payload(x)[2][1] = c.arena
      <3> HIDE DEF c
      <3> QED
        BY <1>3
    <2>2. y = [off |-> part.off, len |-> part.len, arena |-> c.arena, overridden |-> part.overridden,
               over |-> <<>>, pruned |-> part.pruned]
      <3> HIDE DEF c
      <3> QED
        BY <2>1 DEF FromPayload
    <2>3. part.off = c.off /\ part.len = c.len /\ part.overridden = {} /\ part.pruned = x.pruned
      <3> HIDE DEF c
      <3> QED
        BY <1>1 DEF part
    <2> HIDE DEF y, c
    <2> QED
      BY <2>2, <2>3
  <1> HIDE DEF c, y
  <1>8. Sound(y) /\ y.overridden = {}
    <2>1. y.off = c.off /\ y.len = c.len /\ y.arena = c.arena /\ y.overridden = {} /\ y.over = <<>>
          /\ y.pruned = x.pruned /\ x.pruned \in SUBSET Nat
      BY <1>7 DEF Sound
    <2>2. DOMAIN y = {"off", "len", "arena", "overridden", "over", "pruned"}
      BY <1>7
    <2>3. DOMAIN y.off = 1 .. Len(Names(x)) /\ DOMAIN y.over = {}
      BY <1>1, <2>1 DEF Packed
    <2> QED
      BY <1>1, <1>2, <2>1, <2>2, <2>3 DEF Packed, Placed, Sound
  <1>9. Names(y) = Names(x)
    <2>1. Nodes(y) = 1 .. Len(Names(x))
      BY <1>1, <1>7 DEF Nodes, Packed
    <2>2. \A n \in 1 .. Len(Names(x)) : NameOf(y, n) = Names(x)[n]
      BY <1>1, <1>7 DEF NameOf, OldName, Packed, Placed
    <2>3. Names(y) = [n \in 1 .. Len(Names(x)) |-> Names(x)[n]]
      BY <2>1, <2>2 DEF Names
    <2> QED
      BY <1>2, <2>3
  <1>10. Shown(y) = Shown(x)
    BY <1>7, <1>9 DEF Shown
  <1> QED
    BY <1>5, <1>6, <1>8, <1>10 DEF Holds, y

\* It is not the empty file, and passes the checks of load.
LEMMA HoldsLoads ==
    ASSUME NEW payload, NEW saved, Holds(payload, saved)
    PROVE  payload # Blank /\ Len(payload) = 2 /\ Valid(FromPayload(payload))
  <1>1. payload # Blank /\ Len(payload) = 2
    BY DEF Holds, Blank
  <1>2. Valid(FromPayload(payload))
    BY DEF Holds, Valid, Sound, Nodes
  <1> QED
    BY <1>1, <1>2

-----------------------------------------------------------------------------
SaveStages == {"idle", "create", "body", "names", "seal", "rename"}
Files == [header : Payloads, body : Payloads]

\* The shapes of the state.
SnapTypes ==
    /\ DOMAIN mem = {"up", "stopping", "runs", "index", "counted", "busy", "changes", "edits"}
    /\ saver \in [Savers -> [pc : SaveStages, file : Nat, payload : Payloads]]
    /\ disk \in [bin : Nat, tmp : Nat, files : Seq(Files)]
    /\ DOMAIN seen = {"saves", "saved", "loaded", "overlap"}
    /\ seen.overlap \in BOOLEAN

\* A save's payload and the header it leaves are those of an index that was
\* handed to a save.
Saves == \A s \in Savers : saver[s].pc # "idle" => Good(saver[s].payload)
Headers == \A f \in 1 .. Len(disk.files) : File(f).header = Blank \/ Good(File(f).header)

TextPlaces ==
    /\ disk.bin \in 0 .. Len(disk.files) /\ disk.tmp \in 0 .. Len(disk.files)
    /\ \A s \in Savers : saver[s].pc \notin {"idle", "create"} => saver[s].file \in 1 .. Len(disk.files)

Loads == \A x \in seen.loaded : Sound(x) /\ x.overridden = {} /\ Shown(x) \in seen.saved

\* While no two saves met: the one that runs has the temporary file to itself,
\* and the file with the snapshot's name is a whole one.
Written(w) ==
    LET f == File(w.file)
    IN  /\ w.file = disk.tmp
        /\ w.pc = "body" => f.body = <<>>
        /\ w.pc = "names" => f.body = <<w.payload[1]>>
        /\ w.pc = "seal" => f.body = w.payload
        /\ w.pc = "rename" => f.body = w.payload /\ f.header = w.payload

OneSaver == \A s, t \in Savers : saver[s].pc # "idle" /\ saver[t].pc # "idle" => s = t
BinWhole == disk.bin # NoFile => disk.bin # disk.tmp /\ File(disk.bin).body = File(disk.bin).header
                                 /\ Good(File(disk.bin).header)
TmpWritten == \A s \in Savers : saver[s].pc \notin {"idle", "create"} => Written(saver[s])

SnapInv ==
    /\ SnapTypes /\ Sound(mem.index) /\ Saves /\ Headers /\ TextPlaces /\ Loads
    /\ ~seen.overlap => OneSaver /\ BinWhole /\ TmpWritten

\* Whatever else happens, what was handed to a save was.
LEMMA GoodStays ==
    ASSUME seen.saved \subseteq seen.saved', NEW payload, Good(payload)
    PROVE  Good(payload)'
  BY DEF Good, Holds, FromPayload, Sound, Shown, Names, Nodes, NameOf, OldName

\* An index that is loaded is one that was saved.
LEMMA StoredSaved ==
    ASSUME SnapInv, Stored # <<>>
    PROVE  Sound(Stored[1]) /\ Stored[1].overridden = {} /\ Shown(Stored[1]) \in seen.saved
  <1> DEFINE f == File(disk.bin)
  <1>1. Stored = Load(f) /\ disk.bin # NoFile
    BY DEF Stored
  <1>2. f.header # Blank /\ f.body = f.header /\ Stored[1] = FromPayload(f.body)
    BY <1>1 DEF Load
  <1>3. Good(f.header)
    BY <1>1, <1>2 DEF SnapInv, Headers, TextPlaces, NoFile
  <1> QED
    BY <1>2, <1>3 DEF Good, Holds

\* And a file whose payload is whole is loaded.
LEMMA WholeLoads ==
    ASSUME NEW f, f.body = f.header, Good(f.header)
    PROVE  Load(f) # <<>>
  <1>1. f.header # Blank /\ Len(f.body) = 2 /\ Valid(FromPayload(f.body))
    BY HoldsLoads DEF Good
  <1> QED
    BY <1>1 DEF Load

\* Steps of the daemon that leave the files and the saves alone; the history
\* may record what was read.
ReadsStored == Stored # <<>> /\ seen' = [seen EXCEPT !.loaded = {Stored[1]}]
DiskKept == saver' = saver /\ disk' = disk /\ (seen' = seen \/ ReadsStored)

LEMMA DaemonOnly ==
    ASSUME SnapInv, DiskKept, Sound(mem'.index), DOMAIN mem' = DOMAIN mem
    PROVE  SnapInv'
  <1>1. /\ seen'.saved = seen.saved /\ seen'.overlap = seen.overlap
        /\ seen'.loaded = seen.loaded \/ (Stored # <<>> /\ seen'.loaded = {Stored[1]})
        /\ DOMAIN seen' = DOMAIN seen
    BY DEF DiskKept, ReadsStored, SnapInv, SnapTypes
  <1>2. SnapTypes'
    BY <1>1 DEF DiskKept, SnapInv, SnapTypes
  <1>3. Loads'
    BY <1>1, StoredSaved DEF SnapInv, Loads, Sound, Shown, Names, Nodes, NameOf, OldName
  <1>4. \A payload : Good(payload) => Good(payload)'
    BY <1>1, GoodStays
  <1>5. Saves' /\ Headers' /\ TextPlaces'
    BY <1>4 DEF DiskKept, SnapInv, Saves, Headers, TextPlaces, File
  <1>6. ~seen'.overlap => OneSaver' /\ BinWhole' /\ TmpWritten'
    BY <1>1, <1>4 DEF DiskKept, SnapInv, OneSaver, BinWhole, TmpWritten, Written, File
  <1>7. Sound(mem.index)'
    BY DEF Sound
  <1> QED
    BY <1>2, <1>3, <1>5, <1>6, <1>7 DEF SnapInv

-----------------------------------------------------------------------------
\* What the steps of the daemon do to its index leaves it sound.
LEMMA ScannedSound == Sound(Scanned) /\ Scanned.overridden = {}
  <1>1. /\ Scanned.overridden = {} /\ Scanned.over = <<>> /\ Scanned.pruned = {}
        /\ DOMAIN Scanned = {"off", "len", "arena", "overridden", "over", "pruned"}
    BY SnapshotAssumption
  <1>2. DOMAIN Scanned.over = {}
    BY <1>1
  <1> QED
    BY <1>1, <1>2, SnapshotAssumption, Zenon DEF Sound

LEMMA PruneSound ==
    ASSUME NEW x, Sound(x)
    PROVE  Sound(Prune(x))
  <1> DEFINE y == Prune(x)
  <1>1. /\ y.off = x.off /\ y.len = x.len /\ y.arena = x.arena /\ y.overridden = x.overridden /\ y.over = x.over
        /\ y.pruned = IF excl THEN x.pruned \cup (Configured \cap Nodes(x)) ELSE x.pruned
        /\ DOMAIN y = {"off", "len", "arena", "overridden", "over", "pruned"}
    BY DEF Sound, Prune
  <1>2. Nodes(x) \subseteq Nat
    BY DEF Sound, Nodes
  <1> HIDE DEF y
  <1>3. Sound(y)
    BY <1>1, <1>2 DEF Sound
  <1> QED
    BY <1>3 DEF y

LEMMA RenameSound ==
    ASSUME NEW x, Sound(x), NEW n \in Nodes(x), NEW name \in Seq(STRING)
    PROVE  Sound(Rename(x, n, name))
  <1> DEFINE y == Rename(x, n, name)
  <1>1. /\ y.off = x.off /\ y.len = x.len /\ y.arena = x.arena /\ y.pruned = x.pruned
        /\ y.over = [m \in DOMAIN x.over \cup {n} |-> IF m = n THEN name ELSE x.over[m]]
        /\ DOMAIN y = {"off", "len", "arena", "overridden", "over", "pruned"}
    BY DEF Sound, Rename
  <1>2. DOMAIN y.over # {} /\ \A m \in DOMAIN y.over : y.over[m] \in Seq(STRING)
    BY <1>1 DEF Sound
  <1>3. y.over # <<>>
    BY <1>2
  <1> HIDE DEF y
  <1>4. Sound(y)
    BY <1>1, <1>2, <1>3 DEF Sound
  <1> QED
    BY <1>4 DEF y

LEMMA AddNodeSound ==
    ASSUME NEW x, Sound(x), NEW name \in Seq(STRING)
    PROVE  Sound(AddNode(x, name))
  <1> DEFINE y == AddNode(x, name)
             off == Append(x.off, Len(x.arena))
             len == Append(x.len, Len(name))
             arena == x.arena \o name
             k == Len(x.off)
  <1>1. /\ y.off = off /\ y.len = len /\ y.arena = arena /\ y.pruned = x.pruned
        /\ y.over = x.over /\ y.overridden = x.overridden
        /\ DOMAIN y = {"off", "len", "arena", "overridden", "over", "pruned"}
    BY DEF Sound, AddNode
  <1>2. /\ x.off \in Seq(Nat) /\ x.len \in Seq(Nat) /\ x.arena \in Seq(STRING) /\ Len(x.len) = k
        /\ Len(x.arena) \in Nat /\ Len(name) \in Nat /\ k \in Nat /\ k > 0
    BY LenProperties DEF Sound
  <1>3. arena \in Seq(STRING) /\ Len(arena) = Len(x.arena) + Len(name)
    BY <1>2, ConcatProperties
  <1>4. /\ off \in Seq(Nat) /\ Len(off) = k + 1 /\ off[k + 1] = Len(x.arena)
        /\ \A n \in 1 .. k : off[n] = x.off[n] /\ x.off[n] \in Nat
    <2>1. /\ off \in Seq(Nat) /\ Len(off) = k + 1 /\ off[k + 1] = Len(x.arena)
          /\ \A n \in 1 .. k : off[n] = x.off[n]
      BY <1>2, AppendProperties
    <2>2. \A n \in 1 .. k : x.off[n] \in Nat
      BY <1>2
    <2> HIDE DEF off
    <2> QED
      BY <2>1, <2>2
  <1>5. /\ len \in Seq(Nat) /\ Len(len) = k + 1 /\ len[k + 1] = Len(name)
        /\ \A n \in 1 .. k : len[n] = x.len[n] /\ x.len[n] \in Nat
    <2>1. /\ len \in Seq(Nat) /\ Len(len) = k + 1 /\ len[k + 1] = Len(name)
          /\ \A n \in 1 .. k : len[n] = x.len[n]
      BY <1>2, AppendProperties
    <2>2. \A n \in 1 .. k : x.len[n] \in Nat
      BY <1>2
    <2> HIDE DEF len
    <2> QED
      BY <2>1, <2>2
  <1>6. DOMAIN x.off = 1 .. k /\ DOMAIN off = 1 .. k + 1
    BY <1>2, <1>4
  <1> HIDE DEF y, off, len, arena, k
  <1>7. \A n \in DOMAIN off : off[n] + len[n] <= Len(arena)
    <2> SUFFICES ASSUME NEW n \in 1 .. k + 1
                 PROVE  off[n] + len[n] <= Len(arena)
      BY <1>6
    <2>1. CASE n = k + 1
      BY <2>1, <1>2, <1>3, <1>4, <1>5
    <2>2. CASE n \in 1 .. k
      <3>1. x.off[n] + x.len[n] <= Len(x.arena)
        BY <2>2, <1>6 DEF Sound
      <3> QED
        BY <2>2, <3>1, <1>2, <1>3, <1>4, <1>5
    <2> QED
      BY <1>2, <2>1, <2>2
  <1>8. \A n \in DOMAIN off : n > 1 => off[n - 1] <= off[n]
    <2> SUFFICES ASSUME NEW n \in 1 .. k + 1, n > 1
                 PROVE  off[n - 1] <= off[n]
      BY <1>6
    <2>1. CASE n = k + 1
      <3>1. k \in DOMAIN x.off
        BY <1>2, <1>6
      <3>2. x.off[k] + x.len[k] <= Len(x.arena) /\ k \in 1 .. k
        BY <1>2, <3>1 DEF Sound
      <3> QED
        BY <2>1, <3>2, <1>2, <1>4, <1>5
    <2>2. CASE n \in 1 .. k
      <3>1. x.off[n - 1] <= x.off[n] /\ n - 1 \in 1 .. k
        <4>1. n - 1 \in 1 .. k /\ n \in DOMAIN x.off
          BY <2>2, <1>6, <1>2
        <4> QED
          BY <4>1 DEF Sound
      <3> QED
        BY <2>2, <3>1, <1>4
    <2> QED
      BY <1>2, <2>1, <2>2
  <1>9. Sound(y)
    <2>1. y.off \in Seq(Nat) /\ y.len \in Seq(Nat) /\ y.arena \in Seq(STRING)
          /\ Len(y.off) > 0 /\ Len(y.len) = Len(y.off)
      BY <1>1, <1>2, <1>3, <1>4, <1>5
    <2> QED
      BY <2>1, <1>1, <1>7, <1>8, Zenon DEF Sound
  <1> QED
    BY <1>9 DEF y

-----------------------------------------------------------------------------
\* A save that starts holds the names its index shows; with one under way the
\* two have met.
LEMMA StartSaveKeeps ==
    ASSUME SnapInv, NEW s \in Savers, NEW x, Sound(x), StartSave(s, x), UNCHANGED disk,
           Sound(mem'.index), DOMAIN mem' = DOMAIN mem
    PROVE  SnapInv'
  <1> DEFINE w == [pc |-> "create", file |-> NoFile, payload |-> Payload(x)]
  <1>1. saver' = [saver EXCEPT ![s] = w] /\ saver[s].pc = "idle"
    BY DEF StartSave
  <1>2. /\ seen'.saved = seen.saved \cup {Shown(x)} /\ seen'.loaded = seen.loaded
        /\ seen'.overlap = (seen.overlap \/ \E o \in Savers : saver[o].pc # "idle")
        /\ DOMAIN seen' = DOMAIN seen
    BY DEF StartSave, SnapInv, SnapTypes, Shown, Names
  <1>3. \A payload : Good(payload) => Good(payload)'
    BY <1>2, GoodStays
  <1>4. Payload(x) \in Payloads /\ Good(Payload(x))'
    <2>1. Payload(x) \in Payloads /\ Holds(Payload(x), Shown(x))
      BY PayloadHolds
    <2>2. Shown(x) \in seen'.saved
      BY <1>2
    <2> QED
      BY <2>1, <2>2 DEF Good, Holds, FromPayload, Sound, Shown, Names, Nodes, NameOf, OldName
  <1>5. w \in [pc : SaveStages, file : Nat, payload : Payloads]
    BY <1>4 DEF SaveStages, NoFile
  <1>6. saver'[s] = w /\ \A t \in Savers \ {s} : saver'[t] = saver[t]
    BY <1>1 DEF SnapInv, SnapTypes
  <1>7. w.pc = "create" /\ w.payload = Payload(x)
    OBVIOUS
  <1> HIDE DEF w
  <1>8. SnapTypes'
    BY <1>1, <1>2, <1>5 DEF SnapInv, SnapTypes
  <1>9. Saves' /\ Headers'
    BY <1>3, <1>4, <1>6, <1>7 DEF SnapInv, Saves, Headers, File
  <1>10. TextPlaces'
    BY <1>6, <1>7 DEF SnapInv, TextPlaces
  <1>11. Loads'
    BY <1>2 DEF SnapInv, Loads, Sound, Shown, Names, Nodes, NameOf, OldName
  <1>12. ASSUME ~seen'.overlap
         PROVE  OneSaver' /\ BinWhole' /\ TmpWritten'
    <2>1. ~seen.overlap /\ \A o \in Savers : saver[o].pc = "idle"
      BY <1>2, <1>12
    <2>2. OneSaver'
      BY <1>6, <2>1 DEF OneSaver
    <2>3. BinWhole'
      BY <1>3, <2>1 DEF SnapInv, BinWhole, File
    <2>4. TmpWritten'
      BY <1>6, <1>7, <2>1 DEF TmpWritten
    <2> QED
      BY <2>2, <2>3, <2>4
  <1>13. Sound(mem.index)'
    BY DEF Sound
  <1> QED
    BY <1>8, <1>9, <1>10, <1>11, <1>12, <1>13 DEF SnapInv

\* A step of a save in progress moves its stage and writes at most one file.
LEMMA Quiet ==
    ASSUME SnapInv, UNCHANGED <<mem, seen>>
    PROVE  /\ Sound(mem.index)' /\ Loads' /\ \A payload : Good(payload) <=> Good(payload)'
           /\ seen'.overlap = seen.overlap
  BY DEF SnapInv, Sound, Loads, Shown, Names, Nodes, NameOf, OldName, Good, Holds, FromPayload

\* Saves that are abandoned leave what they wrote where it is.
LEMMA Abandon ==
    ASSUME SnapInv, UNCHANGED <<disk, seen>>,
           NEW S \in SUBSET Savers, saver' = [s \in Savers |-> IF s \in S THEN Idle ELSE saver[s]],
           mem'.index = mem.index, DOMAIN mem' = DOMAIN mem
    PROVE  SnapInv'
  <1>1. Loads' /\ \A payload : Good(payload) <=> Good(payload)'
    BY DEF SnapInv, Sound, Loads, Shown, Names, Nodes, NameOf, OldName, Good, Holds, FromPayload
  <1>2. Idle \in [pc : SaveStages, file : Nat, payload : Payloads] /\ Idle.pc = "idle"
    BY DEF Idle, SaveStages, Payloads, NoFile
  <1>3. \A s \in Savers : saver'[s] = Idle \/ saver'[s] = saver[s]
    OBVIOUS
  <1>4. SnapTypes'
    BY <1>2 DEF SnapInv, SnapTypes
  <1>5. Saves' /\ Headers' /\ TextPlaces'
    BY <1>1, <1>2, <1>3 DEF SnapInv, Saves, Headers, TextPlaces, File
  <1>6. ~seen'.overlap => OneSaver' /\ BinWhole' /\ TmpWritten'
    BY <1>1, <1>2, <1>3 DEF SnapInv, OneSaver, BinWhole, TmpWritten, Written, File
  <1>7. Sound(mem.index)'
    BY DEF Sound, SnapInv
  <1> QED
    BY <1>1, <1>4, <1>5, <1>6, <1>7 DEF SnapInv

\* The temporary file is made anew; the file with the snapshot's name is another.
LEMMA CreateKeeps ==
    ASSUME SnapInv, NEW s \in Savers, Create(s)
    PROVE  SnapInv'
  <1> DEFINE n == Len(disk.files)
             f == IF disk.tmp = NoFile THEN NewFile ELSE disk.tmp
             m == IF f > n THEN f ELSE n
             blank == [header |-> Blank, body |-> <<>>]
             files == [i \in 1 .. m |-> IF i = f THEN blank ELSE disk.files[i]]
  <1>1. /\ UNCHANGED <<mem, seen>> /\ saver[s].pc = "create"
        /\ disk' = [disk EXCEPT !.tmp = f, !.files = files]
        /\ saver' = [saver EXCEPT ![s].file = f, ![s].pc = "body"]
    BY DEF Create
  <1>2. /\ n \in Nat /\ disk.files \in Seq(Files) /\ disk.tmp \in 0 .. n /\ disk.bin \in 0 .. n
        /\ \A i \in 1 .. n : disk.files[i] \in Files
    BY DEF SnapInv, SnapTypes, TextPlaces
  <1>3. f \in 1 .. m /\ m \in Nat /\ n <= m /\ (f > n <=> disk.tmp = NoFile) /\ m <= n + 1
        /\ \A i \in 1 .. m : i # f => i \in 1 .. n
    BY <1>2 DEF NewFile, NoFile
  <1>4. blank \in Files /\ blank.header = Blank /\ blank.body = <<>>
    BY DEF Files, Payloads, Blank
  <1> HIDE DEF f, m, blank
  <1>5. files \in Seq(Files) /\ Len(files) = m /\ files[f] = blank
        /\ \A i \in 1 .. n : i # f => files[i] = disk.files[i]
    BY <1>2, <1>3, <1>4
  <1> HIDE DEF files, n
  <1>6. disk'.tmp = f /\ disk'.files = files /\ disk'.bin = disk.bin
        /\ disk' \in [bin : Nat, tmp : Nat, files : Seq(Files)]
    <2>1. disk \in [bin : Nat, tmp : Nat, files : Seq(Files)] /\ f \in Nat
      BY <1>3 DEF SnapInv, SnapTypes
    <2>2. disk' = [[disk EXCEPT !.tmp = f] EXCEPT !.files = files]
      BY <1>1
    <2> DEFINE d == [disk EXCEPT !.tmp = f]
    <2>3. d \in [bin : Nat, tmp : Nat, files : Seq(Files)] /\ d.tmp = f /\ d.bin = disk.bin
      BY <2>1
    <2> HIDE DEF d
    <2>4. disk' = [d EXCEPT !.files = files]
      BY <2>2 DEF d
    <2> QED
      BY <2>3, <2>4, <1>5
  <1>7. /\ saver' \in [Savers -> [pc : SaveStages, file : Nat, payload : Payloads]]
        /\ saver'[s].pc = "body" /\ saver'[s].file = f /\ saver'[s].payload = saver[s].payload
        /\ \A t \in Savers \ {s} : saver'[t] = saver[t]
    BY <1>1, <1>2, <1>3 DEF SnapInv, SnapTypes, SaveStages
  <1>8. /\ Sound(mem.index)' /\ Loads' /\ seen'.overlap = seen.overlap
        /\ \A payload : Good(payload) <=> Good(payload)'
    BY <1>1, Quiet
  <1>9. SnapTypes'
    BY <1>1, <1>6, <1>7 DEF SnapInv, SnapTypes
  <1>10. Saves'
    BY <1>1, <1>7, <1>8 DEF SnapInv, Saves
  <1>11. Headers'
    <2> SUFFICES ASSUME NEW i \in 1 .. m
                 PROVE  files[i].header = Blank \/ Good(files[i].header)
      BY <1>5, <1>6, <1>8 DEF Headers, File
    <2> QED
      BY <1>3, <1>4, <1>5 DEF SnapInv, Headers, File, n
  <1>12. TextPlaces'
    <2>1. disk'.bin \in 0 .. Len(disk'.files) /\ disk'.tmp \in 0 .. Len(disk'.files)
      BY <1>2, <1>3, <1>5, <1>6
    <2>2. \A t \in Savers : saver'[t].pc \notin {"idle", "create"} => saver'[t].file \in 1 .. m
      BY <1>2, <1>3, <1>7 DEF SnapInv, TextPlaces, n
    <2> QED
      BY <2>1, <2>2, <1>5, <1>6 DEF TextPlaces
  <1>13. ASSUME ~seen'.overlap
         PROVE  OneSaver' /\ BinWhole' /\ TmpWritten'
    <2>1. OneSaver /\ BinWhole /\ \A t \in Savers \ {s} : saver[t].pc = "idle"
      BY <1>1, <1>8, <1>13 DEF SnapInv, OneSaver
    <2>2. OneSaver'
      BY <1>7, <2>1 DEF OneSaver
    <2>3. BinWhole'
      <3>1. ASSUME disk.bin # NoFile
            PROVE  disk.bin # f /\ disk.bin \in 1 .. n /\ files[disk.bin] = disk.files[disk.bin]
        <4>1. disk.bin # disk.tmp /\ disk.bin \in 1 .. n
          BY <1>2, <2>1, <3>1 DEF BinWhole, NoFile
        <4>2. disk.bin # f
          BY <1>2, <1>3, <4>1 DEF f
        <4> QED
          BY <1>5, <4>1, <4>2
      <3> QED
        BY <1>6, <1>8, <2>1, <3>1 DEF BinWhole, File
    <2>4. TmpWritten'
      <3>1. disk'.files[f] = blank
        BY <1>5, <1>6
      <3>2. Written(saver[s])'
        BY <1>4, <1>6, <1>7, <3>1 DEF Written, File
      <3> QED
        BY <1>7, <2>1, <3>2 DEF TmpWritten
    <2> QED
      BY <2>2, <2>3, <2>4
  <1> QED
    BY <1>8, <1>9, <1>10, <1>11, <1>12, <1>13 DEF SnapInv

\* The next part of the payload, in a file that no reader has.
LEMMA WriteKeeps ==
    ASSUME SnapInv, NEW s \in Savers, NEW k \in {1, 2}, WriteBody(s, k)
    PROVE  SnapInv'
  <1> DEFINE g == saver[s].file
             old == disk.files[g].body
             body == [i \in 1 .. (IF Len(old) < k THEN k ELSE Len(old)) |->
                        IF i = k THEN saver[s].payload[k] ELSE IF i \in DOMAIN old THEN old[i] ELSE Blank]
             stage == IF k = 1 THEN "names" ELSE "seal"
  <1>1. /\ UNCHANGED <<mem, seen>> /\ saver[s].pc = IF k = 1 THEN "body" ELSE "names"
        /\ disk' = [disk EXCEPT !.files[g].body = body]
        /\ saver' = [saver EXCEPT ![s].pc = stage]
    BY DEF WriteBody
  <1>2. /\ disk.files \in Seq(Files) /\ g \in 1 .. Len(disk.files) /\ saver[s].payload \in Payloads
        /\ Good(saver[s].payload)
    BY <1>1 DEF SnapInv, SnapTypes, TextPlaces, Saves
  <1>3. disk.files[g] \in Files /\ old \in Payloads
    <2>1. disk.files[g] \in Files
      BY <1>2
    <2> QED
      BY <2>1 DEF Files
  <1>4. saver[s].payload = <<saver[s].payload[1], saver[s].payload[2]>>
    BY <1>2 DEF Good, Holds
  <1>5. saver[s].payload[k] \in Chunk /\ Blank \in Chunk
    BY <1>2, <1>4 DEF Payloads, Chunk, Blank
  <1>6. body \in Payloads
    BY <1>3, <1>5 DEF Payloads
  <1>7. /\ k = 1 /\ old = <<>> => body = <<saver[s].payload[1]>>
        /\ k = 2 /\ old = <<saver[s].payload[1]>> => body = saver[s].payload
    BY <1>4
  <1> HIDE DEF body, stage
  <1>8. /\ disk' \in [bin : Nat, tmp : Nat, files : Seq(Files)]
        /\ disk'.bin = disk.bin /\ disk'.tmp = disk.tmp /\ Len(disk'.files) = Len(disk.files)
        /\ disk'.files[g].body = body /\ disk'.files[g].header = disk.files[g].header
        /\ \A i \in 1 .. Len(disk.files) : i # g => disk'.files[i] = disk.files[i]
    <2> DEFINE file == [disk.files[g] EXCEPT !.body = body]
               files == [disk.files EXCEPT ![g] = file]
    <2>1. file \in Files /\ file.body = body /\ file.header = disk.files[g].header
      BY <1>2, <1>3, <1>6 DEF Files
    <2>2. disk' = [disk EXCEPT !.files = files]
      BY <1>1
    <2> HIDE DEF file
    <2>3. /\ files \in Seq(Files) /\ Len(files) = Len(disk.files) /\ files[g] = file
          /\ \A i \in 1 .. Len(disk.files) : i # g => files[i] = disk.files[i]
      BY <1>2, <2>1
    <2>4. disk \in [bin : Nat, tmp : Nat, files : Seq(Files)]
      BY DEF SnapInv, SnapTypes
    <2> HIDE DEF files
    <2> QED
      BY <2>1, <2>2, <2>3, <2>4
  <1>9. /\ saver' \in [Savers -> [pc : SaveStages, file : Nat, payload : Payloads]]
        /\ saver'[s].pc = stage /\ saver'[s].file = g /\ saver'[s].payload = saver[s].payload
        /\ \A t \in Savers \ {s} : saver'[t] = saver[t]
    BY <1>1 DEF SnapInv, SnapTypes, SaveStages, stage
  <1>10. /\ Sound(mem.index)' /\ Loads' /\ seen'.overlap = seen.overlap
         /\ \A payload : Good(payload) <=> Good(payload)'
    BY <1>1, Quiet
  <1>11. SnapTypes'
    BY <1>1, <1>8, <1>9 DEF SnapInv, SnapTypes
  <1>12. Saves'
    BY <1>2, <1>9, <1>10 DEF SnapInv, Saves
  <1>13. Headers'
    BY <1>2, <1>8, <1>10 DEF SnapInv, Headers, File
  <1>14. TextPlaces'
    BY <1>2, <1>8, <1>9 DEF SnapInv, TextPlaces
  <1>15. ASSUME ~seen'.overlap
         PROVE  OneSaver' /\ BinWhole' /\ TmpWritten'
    <2>1. OneSaver /\ BinWhole /\ Written(saver[s]) /\ \A t \in Savers \ {s} : saver[t].pc = "idle"
      BY <1>1, <1>10, <1>15 DEF SnapInv, OneSaver, TmpWritten
    <2>2. OneSaver'
      BY <1>9, <2>1 DEF OneSaver
    <2>3. BinWhole'
      <3>1. disk.bin # NoFile => disk.bin # g /\ disk.bin \in 1 .. Len(disk.files)
        BY <2>1 DEF BinWhole, Written, SnapInv, TextPlaces, NoFile
      <3> QED
        BY <1>8, <1>10, <2>1, <3>1 DEF BinWhole, File
    <2>4. Written(saver[s])'
      <3>1. g = disk.tmp /\ (k = 1 => old = <<>>) /\ (k = 2 => old = <<saver[s].payload[1]>>)
        BY <1>1, <2>1 DEF Written, File
      <3> QED
        BY <1>7, <1>8, <1>9, <3>1 DEF Written, File, stage
    <2>5. TmpWritten'
      BY <1>9, <2>1, <2>4 DEF TmpWritten
    <2> QED
      BY <2>2, <2>3, <2>5
  <1> QED
    BY <1>10, <1>11, <1>12, <1>13, <1>14, <1>15 DEF SnapInv

\* The header with the checksum.
LEMMA SealKeeps ==
    ASSUME SnapInv, NEW s \in Savers, Seal(s)
    PROVE  SnapInv'
  <1> DEFINE g == saver[s].file
             payload == saver[s].payload
  <1>1. /\ UNCHANGED <<mem, seen>> /\ saver[s].pc = "seal"
        /\ disk' = [disk EXCEPT !.files[g].header = payload]
        /\ saver' = [saver EXCEPT ![s].pc = "rename"]
    BY DEF Seal
  <1>2. /\ disk.files \in Seq(Files) /\ g \in 1 .. Len(disk.files) /\ payload \in Payloads /\ Good(payload)
    BY <1>1 DEF SnapInv, SnapTypes, TextPlaces, Saves
  <1>3. disk.files[g] \in Files
    BY <1>2
  <1>4. /\ disk' \in [bin : Nat, tmp : Nat, files : Seq(Files)]
        /\ disk'.bin = disk.bin /\ disk'.tmp = disk.tmp /\ Len(disk'.files) = Len(disk.files)
        /\ disk'.files[g].header = payload /\ disk'.files[g].body = disk.files[g].body
        /\ \A i \in 1 .. Len(disk.files) : i # g => disk'.files[i] = disk.files[i]
    <2> DEFINE file == [disk.files[g] EXCEPT !.header = payload]
               files == [disk.files EXCEPT ![g] = file]
    <2>1. file \in Files /\ file.header = payload /\ file.body = disk.files[g].body
      BY <1>2, <1>3 DEF Files
    <2>2. disk' = [disk EXCEPT !.files = files]
      BY <1>1
    <2> HIDE DEF file
    <2>3. /\ files \in Seq(Files) /\ Len(files) = Len(disk.files) /\ files[g] = file
          /\ \A i \in 1 .. Len(disk.files) : i # g => files[i] = disk.files[i]
      BY <1>2, <2>1
    <2>4. disk \in [bin : Nat, tmp : Nat, files : Seq(Files)]
      BY DEF SnapInv, SnapTypes
    <2> HIDE DEF files
    <2> QED
      BY <2>1, <2>2, <2>3, <2>4
  <1>5. /\ saver' \in [Savers -> [pc : SaveStages, file : Nat, payload : Payloads]]
        /\ saver'[s].pc = "rename" /\ saver'[s].file = g /\ saver'[s].payload = payload
        /\ \A t \in Savers \ {s} : saver'[t] = saver[t]
    BY <1>1 DEF SnapInv, SnapTypes, SaveStages
  <1>6. /\ Sound(mem.index)' /\ Loads' /\ seen'.overlap = seen.overlap
        /\ \A p : Good(p) <=> Good(p)'
    BY <1>1, Quiet
  <1>7. SnapTypes'
    BY <1>1, <1>4, <1>5 DEF SnapInv, SnapTypes
  <1>8. Saves'
    BY <1>2, <1>5, <1>6 DEF SnapInv, Saves
  <1>9. Headers'
    BY <1>2, <1>4, <1>6 DEF SnapInv, Headers, File
  <1>10. TextPlaces'
    BY <1>2, <1>4, <1>5 DEF SnapInv, TextPlaces
  <1>11. ASSUME ~seen'.overlap
         PROVE  OneSaver' /\ BinWhole' /\ TmpWritten'
    <2>1. OneSaver /\ BinWhole /\ Written(saver[s]) /\ \A t \in Savers \ {s} : saver[t].pc = "idle"
      BY <1>1, <1>6, <1>11 DEF SnapInv, OneSaver, TmpWritten
    <2>2. OneSaver'
      BY <1>5, <2>1 DEF OneSaver
    <2>3. BinWhole'
      <3>1. disk.bin # NoFile => disk.bin # g /\ disk.bin \in 1 .. Len(disk.files)
        BY <2>1 DEF BinWhole, Written, SnapInv, TextPlaces, NoFile
      <3> QED
        BY <1>4, <1>6, <2>1, <3>1 DEF BinWhole, File
    <2>4. Written(saver[s])'
      BY <1>1, <1>4, <1>5, <2>1 DEF Written, File
    <2>5. TmpWritten'
      BY <1>5, <2>1, <2>4 DEF TmpWritten
    <2> QED
      BY <2>2, <2>3, <2>5
  <1> QED
    BY <1>6, <1>7, <1>8, <1>9, <1>10, <1>11 DEF SnapInv

\* The file with the temporary name takes the snapshot's: alone, it is the
\* save's own and whole.
LEMMA RenameFileKeeps ==
    ASSUME SnapInv, NEW s \in Savers, RenameFile(s)
    PROVE  SnapInv'
  <1>1. /\ UNCHANGED <<mem, seen>> /\ saver[s].pc = "rename"
        /\ disk' = IF disk.tmp = NoFile THEN disk ELSE [disk EXCEPT !.bin = disk.tmp, !.tmp = NoFile]
        /\ saver' = [saver EXCEPT ![s] = Idle]
    BY DEF RenameFile
  <1>2. /\ disk' \in [bin : Nat, tmp : Nat, files : Seq(Files)]
        /\ disk'.files = disk.files /\ disk'.tmp = NoFile
        /\ disk'.bin = IF disk.tmp = NoFile THEN disk.bin ELSE disk.tmp
    BY <1>1 DEF SnapInv, SnapTypes, NoFile
  <1>3. Idle \in [pc : SaveStages, file : Nat, payload : Payloads] /\ Idle.pc = "idle"
    BY DEF Idle, SaveStages, Payloads, NoFile
  <1>4. /\ saver' \in [Savers -> [pc : SaveStages, file : Nat, payload : Payloads]]
        /\ saver'[s].pc = "idle" /\ \A t \in Savers \ {s} : saver'[t] = saver[t]
    BY <1>1, <1>3 DEF SnapInv, SnapTypes
  <1>5. /\ Sound(mem.index)' /\ Loads' /\ seen'.overlap = seen.overlap
        /\ \A p : Good(p) <=> Good(p)'
    BY <1>1, Quiet
  <1>6. SnapTypes'
    BY <1>1, <1>2, <1>4 DEF SnapInv, SnapTypes
  <1>7. Saves' /\ Headers'
    BY <1>2, <1>4, <1>5 DEF SnapInv, Saves, Headers, File
  <1>8. TextPlaces'
    BY <1>2, <1>4 DEF SnapInv, TextPlaces, NoFile
  <1>9. ASSUME ~seen'.overlap
        PROVE  OneSaver' /\ BinWhole' /\ TmpWritten'
    <2>1. Written(saver[s]) /\ Good(saver[s].payload) /\ \A t \in Savers \ {s} : saver[t].pc = "idle"
      BY <1>1, <1>5, <1>9 DEF SnapInv, OneSaver, TmpWritten, Saves
    <2>2. OneSaver' /\ TmpWritten'
      BY <1>4, <2>1 DEF OneSaver, TmpWritten
    <2>3. disk.tmp = saver[s].file /\ saver[s].file \in 1 .. Len(disk.files)
          /\ File(disk.tmp).body = saver[s].payload /\ File(disk.tmp).header = saver[s].payload
      BY <1>1, <2>1 DEF Written, SnapInv, TextPlaces
    <2>4. disk'.bin = disk.tmp /\ disk'.bin # NoFile
      BY <1>2, <2>3 DEF NoFile
    <2>5. BinWhole'
      BY <1>2, <1>5, <2>1, <2>3, <2>4 DEF BinWhole, File
    <2> QED
      BY <2>2, <2>5
  <1> QED
    BY <1>5, <1>6, <1>7, <1>8, <1>9 DEF SnapInv

-----------------------------------------------------------------------------
LEMMA SnapInitInv == SnapInit => SnapInv
  <1> SUFFICES ASSUME SnapInit
               PROVE  SnapInv
    OBVIOUS
  <1>1. Idle \in [pc : SaveStages, file : Nat, payload : Payloads] /\ Idle.pc = "idle"
    BY DEF Idle, SaveStages, Payloads, NoFile
  <1>2. SnapTypes
    BY <1>1 DEF SnapInit, SnapTypes, NoFile
  <1>3. Sound(mem.index)
    BY ScannedSound DEF SnapInit
  <1>4. Saves /\ Headers /\ TextPlaces /\ Loads
    BY <1>1 DEF SnapInit, Saves, Headers, TextPlaces, Loads, NoFile
  <1>5. OneSaver /\ BinWhole /\ TmpWritten
    BY <1>1 DEF SnapInit, OneSaver, BinWhole, TmpWritten
  <1> QED
    BY <1>2, <1>3, <1>4, <1>5 DEF SnapInv

LEMMA SnapStep == SnapInv /\ [SnapNext]_snapVars => SnapInv'
  <1> SUFFICES ASSUME SnapInv, [SnapNext]_snapVars
               PROVE  SnapInv'
    OBVIOUS
  <1>0. Sound(mem.index) /\ DOMAIN mem = {"up", "stopping", "runs", "index", "counted", "busy", "changes", "edits"}
        /\ Sound(Scanned) /\ Sound(Prune(Scanned))
    BY ScannedSound, PruneSound DEF SnapInv, SnapTypes
  <1>1. CASE StartLoaded
    <2>1. Stored # <<>> /\ Sound(Prune(Stored[1]))
      BY <1>1, StoredSaved, PruneSound DEF StartLoaded
    <2>2. /\ mem'.index = Prune(Stored[1]) /\ DOMAIN mem' = DOMAIN mem
      BY <1>0, <1>1 DEF StartLoaded
    <2>3. DiskKept
      <3>1. ReadsStored
        BY <1>1, Zenon DEF StartLoaded, ReadsStored
      <3> QED
        BY <1>1, <3>1 DEF StartLoaded, DiskKept
    <2>4. Sound(mem'.index)
      BY <2>1, <2>2, Zenon
    <2> QED
      BY <2>2, <2>3, <2>4, DaemonOnly, Zenon
  <1>2. CASE StartScanned
    <2>1. mem'.index = Prune(Scanned) /\ DOMAIN mem' = DOMAIN mem /\ UNCHANGED disk
      BY <1>0, <1>2 DEF StartScanned
    <2>2. CASE "rescan" \in Savers /\ seen.saves < MaxSaves
      <3>1. StartSave("rescan", Scanned)
        BY <1>2, <2>2 DEF StartScanned
      <3> QED
        BY <1>0, <2>1, <2>2, <3>1, StartSaveKeeps
    <2>3. CASE ~("rescan" \in Savers /\ seen.saves < MaxSaves)
      <3>1. DiskKept
        BY <1>2, <2>1, <2>3 DEF StartScanned, DiskKept
      <3>2. Sound(mem'.index)
        BY <1>0, <2>1
      <3> QED
        BY <2>1, <3>1, <3>2, DaemonOnly
    <2> QED
      BY <2>2, <2>3
  <1>3. CASE Apply
    <2>1. PICK name \in NewNames :
            \E y \in {Rename(mem.index, n, name) : n \in Nodes(mem.index)} \cup {AddNode(mem.index, name)} :
              mem' = [mem EXCEPT !.index = y, !.counted = TRUE, !.changes = @ + 1]
      BY <1>3 DEF Apply
    <2>2. PICK y \in {Rename(mem.index, n, name) : n \in Nodes(mem.index)} \cup {AddNode(mem.index, name)} :
              mem' = [mem EXCEPT !.index = y, !.counted = TRUE, !.changes = @ + 1]
      BY <2>1
    <2>3. name \in Seq(STRING)
      BY SnapshotAssumption
    <2>4. Sound(y)
      BY <1>0, <2>3, RenameSound, AddNodeSound
    <2>5. mem'.index = y /\ DOMAIN mem' = DOMAIN mem
      BY <1>0, <2>2
    <2>6. DiskKept
      BY <1>3 DEF Apply, DiskKept
    <2>7. Sound(mem'.index)
      BY <2>4, <2>5
    <2> QED
      BY <2>5, <2>6, <2>7, DaemonOnly, Zenon
  <1>4. CASE Checkpoint
    <2>1. "checkpoint" \in Savers /\ StartSave("checkpoint", mem.index) /\ UNCHANGED <<mem, disk>>
      BY <1>4 DEF Checkpoint
    <2> QED
      BY <1>0, <2>1, StartSaveKeeps
  <1>5. CASE Rescan
    <2>1. "rescan" \in Savers /\ StartSave("rescan", Scanned) /\ UNCHANGED disk
          /\ mem'.index = mem.index /\ DOMAIN mem' = DOMAIN mem
      BY <1>0, <1>5 DEF Rescan
    <2> QED
      BY <1>0, <2>1, StartSaveKeeps
  <1>6. CASE ScanSaved
    <2>1. DiskKept /\ DOMAIN mem' = DOMAIN mem
          /\ mem'.index = IF mem.busy = "rescan" THEN Prune(Scanned) ELSE mem.index
      BY <1>0, <1>6 DEF ScanSaved, DiskKept
    <2>2. Sound(mem'.index)
      BY <1>0, <2>1
    <2> QED
      BY <2>1, <2>2, DaemonOnly
  <1>7. CASE FinalSave
    <2>1. "final" \in Savers /\ StartSave("final", mem.index) /\ UNCHANGED disk
          /\ mem'.index = mem.index /\ DOMAIN mem' = DOMAIN mem
      BY <1>0, <1>7 DEF FinalSave
    <2> QED
      BY <1>0, <2>1, StartSaveKeeps
  <1>8. CASE End
    <2>1. UNCHANGED <<disk, seen>> /\ mem'.index = mem.index /\ DOMAIN mem' = DOMAIN mem
          /\ saver' = [s \in Savers |-> IF s \in Savers THEN Idle ELSE saver[s]]
      BY <1>0, <1>8 DEF End
    <2> QED
      BY <2>1, Abandon
  <1>9. CASE EditConfig
    <2>1. DiskKept /\ mem'.index = mem.index /\ DOMAIN mem' = DOMAIN mem
      BY <1>0, <1>9 DEF EditConfig, DiskKept
    <2> QED
      BY <1>0, <2>1, DaemonOnly
  <1>10. ASSUME NEW s \in Savers, SaveFails(s)
         PROVE  SnapInv'
    <2>1. UNCHANGED <<mem, disk, seen>>
          /\ saver' = [t \in Savers |-> IF t \in {s} THEN Idle ELSE saver[t]]
      BY <1>10 DEF SaveFails, SnapInv, SnapTypes
    <2>2. {s} \in SUBSET Savers
      OBVIOUS
    <2> QED
      BY <2>1, <2>2, Abandon
  <1>11. CASE UNCHANGED snapVars
    <2>1. DiskKept /\ UNCHANGED mem
      BY <1>11 DEF snapVars, DiskKept
    <2>2. Sound(mem'.index)
      BY <1>0, <2>1
    <2> QED
      BY <2>1, <2>2, DaemonOnly
  <1> QED
    BY <1>1, <1>2, <1>3, <1>4, <1>5, <1>6, <1>7, <1>8, <1>9, <1>10, <1>11,
       CreateKeeps, WriteKeeps, SealKeeps, RenameFileKeeps DEF SnapNext

LEMMA SnapInvWhole == SnapInv => SnapshotWhole
  <1> SUFFICES ASSUME SnapInv
               PROVE  LoadedWasSaved /\ WholeWhenAlone
    BY DEF SnapshotWhole
  <1>1. LoadedWasSaved
    BY DEF SnapInv, Loads, LoadedWasSaved, Shown, Names
  <1>2. WholeWhenAlone
    BY WholeLoads DEF SnapInv, BinWhole, WholeWhenAlone, Stored
  <1> QED
    BY <1>1, <1>2

\* snapshot.rs, watch.rs, scan.rs: whatever the threads that save, the ends of
\* the process and the edits of the configuration do, what a start reads is an
\* index that was handed to a save, and a save that met no other never loses
\* the snapshot that was there.
THEOREM SnapshotsWhole == SnapInit /\ [][SnapNext]_snapVars => []SnapshotWhole
  BY SnapInitInv, SnapStep, SnapInvWhole, PTL

=============================================================================
