------------------------------- MODULE Serving -------------------------------
(***************************************************************************)
(* The daemon as a service that clients reach over a named pipe: reporting *)
(* to the service manager (service.rs), the accept loop, its stop signal   *)
(* and idle release (daemon.rs), connecting and asking (pipe.rs).  Windows *)
(* keeps the pipe's instances and the manager's view of the service,       *)
(* external.  What is in the index is Daemon's business.                   *)
(***************************************************************************)
EXTENDS Integers, FiniteSets

CONSTANTS
    Clients,       \* processes that ask the daemon
    MaxInstances,  \* MAX_INSTANCES of the pipe
    MaxTime,       \* how long a behaviour is looked at
    IdleTime,      \* IDLE_BEFORE_RELEASE, in the same units
    MaxAsks        \* requests a client makes over its connections

VARIABLES
    svc,      \* what the service manager was told, and the stop signal
    loop,     \* the accept loop
    conn,     \* what each client, and the stop signal itself, is connected to
    idle      \* the idle-release thread, and when a request came

serveVars == <<svc, loop, conn, idle>>

Waker == "stop"   \* the connection Stop::trigger makes
Callers == Clients \cup {Waker}

ASSUME ServingAssumption == Waker \notin Clients

(***************************************************************************)
(* The pipe.  An instance waits for a client (loop.free), or is held by a  *)
(* connection from when it is made until the daemon closes it.             *)
(***************************************************************************)
Held == {c \in Callers : conn[c].pc \in {"taken", "served", "asked"}}
PipeExists == loop.free \/ Held # {}

\* CreateFile: taken, all instances busy, or no pipe at all.
Connect(c) ==
    /\ conn[c].pc \in {"connect", "waited"}
    /\ IF loop.free
       THEN /\ loop' = [loop EXCEPT !.free = FALSE, !.came = c]
            /\ conn' = [conn EXCEPT ![c].pc = "taken", ![c].opened = idle.now]
       ELSE /\ conn' = [conn EXCEPT ![c].pc = IF PipeExists THEN "busy" ELSE "refused"]
            /\ UNCHANGED loop
    /\ UNCHANGED <<svc, idle>>

\* WaitNamedPipe: an instance came free, or two seconds passed.
WaitFree(c) ==
    /\ conn[c].pc = "busy" /\ loop.free
    /\ conn' = [conn EXCEPT ![c].pc = "waited"] /\ UNCHANGED <<svc, loop, idle>>
WaitOver(c) ==
    /\ conn[c].pc = "busy" /\ ~loop.free
    /\ conn' = [conn EXCEPT ![c].pc = IF PipeExists THEN "timedOut" ELSE "refused"]
    /\ UNCHANGED <<svc, loop, idle>>

(***************************************************************************)
(* A client: try_daemon, request.                                          *)
(***************************************************************************)
Ask(c) ==
    /\ c \in Clients /\ conn[c].pc \in {"taken", "served"} /\ conn[c].asks < MaxAsks /\ ~conn[c].sent
    /\ conn' = [conn EXCEPT ![c].sent = TRUE, ![c].asks = @ + 1]
    /\ UNCHANGED <<svc, loop, idle>>
Hangup(c) ==
    /\ conn[c].pc \in {"taken", "served"} /\ (c \in Clients => ~conn[c].sent)
    /\ conn' = [conn EXCEPT ![c].pc = "closed"] /\ UNCHANGED <<svc, loop, idle>>
TryAgain(c) ==
    /\ c \in Clients /\ conn[c].pc \in {"none", "refused", "timedOut", "closed"} /\ conn[c].asks < MaxAsks
    /\ c # loop.came
    /\ conn' = [conn EXCEPT ![c].pc = "connect", ![c].sent = FALSE] /\ UNCHANGED <<svc, loop, idle>>

(***************************************************************************)
(* handle_client: a frame read, noted as a request, answered.              *)
(***************************************************************************)
Read(c) ==
    /\ conn[c].pc = "served" /\ conn[c].sent /\ loop.pc # "gone"
    /\ conn' = [conn EXCEPT ![c].pc = "asked"]
    /\ idle' = [idle EXCEPT !.lastQuery = idle.now - conn[c].opened, !.asked = idle.now]
    /\ UNCHANGED <<svc, loop>>
Answer(c) ==
    /\ conn[c].pc = "asked" /\ loop.pc # "gone"
    /\ conn' = [conn EXCEPT ![c].pc = "served", ![c].sent = FALSE] /\ UNCHANGED <<svc, loop, idle>>

(***************************************************************************)
(* serve_with: the accept loop.                                            *)
(***************************************************************************)
\* The service is started; it loads the index and says it runs.
Start ==
    /\ svc.state = "stopped" /\ loop.pc = "gone" /\ ~svc.started
    /\ svc' = [svc EXCEPT !.state = "startPending", !.started = TRUE, !.stop = FALSE]
    /\ loop' = [loop EXCEPT !.pc = "load"] /\ UNCHANGED <<conn, idle>>
Loaded ==
    /\ loop.pc = "load"
    /\ svc' = [svc EXCEPT !.state = "running"]
    /\ loop' = [loop EXCEPT !.pc = "check"] /\ UNCHANGED <<conn, idle>>
LoadFails ==
    /\ loop.pc = "load"
    /\ svc' = [svc EXCEPT !.state = "stopped"] /\ loop' = [loop EXCEPT !.pc = "gone"]
    /\ UNCHANGED <<conn, idle>>

\* while !stop.is_set()
Check ==
    /\ loop.pc = "check"
    /\ loop' = [loop EXCEPT !.pc = IF svc.stop THEN "save" ELSE "create"]
    /\ UNCHANGED <<svc, conn, idle>>
\* accept: an instance of its own for the next client, unless there are too many.
NewInstance ==
    /\ loop.pc = "create"
    /\ loop' = IF Cardinality(Held) < MaxInstances THEN [loop EXCEPT !.pc = "listen", !.free = TRUE]
               ELSE [loop EXCEPT !.pc = IF svc.stop THEN "save" ELSE "check"]
    /\ UNCHANGED <<svc, conn, idle>>
\* Bug: a client is served before the next one is taken.
AcceptAlone ==
    /\ loop.pc = "listen" /\ ~loop.free /\ \A c \in Callers : conn[c].pc \notin {"served", "asked"}
    /\ loop' = [loop EXCEPT !.pc = IF svc.stop THEN "save" ELSE "check", !.came = "none"]
    /\ conn' = [conn EXCEPT ![loop.came].pc =
                   IF @ # "taken" THEN @ ELSE IF svc.stop THEN "closed" ELSE "served"]
    /\ UNCHANGED <<svc, idle>>

\* Bug: the flag is not looked at again when a client is there.
AcceptUnchecked ==
    /\ loop.pc = "listen" /\ ~loop.free
    /\ loop' = [loop EXCEPT !.pc = "check", !.came = "none"]
    /\ conn' = [conn EXCEPT ![loop.came].pc = IF @ # "taken" THEN @ ELSE "served"]
    /\ UNCHANGED <<svc, idle>>

Accept ==
    /\ loop.pc = "listen" /\ ~loop.free
    /\ loop' = [loop EXCEPT !.pc = IF svc.stop THEN "save" ELSE "check", !.came = "none"]
    /\ conn' = [conn EXCEPT ![loop.came].pc =
                   IF @ # "taken" THEN @ ELSE IF svc.stop THEN "closed" ELSE "served"]
    /\ UNCHANGED <<svc, idle>>

\* The last checkpoint, which may fail: that is written to stderr and nothing
\* more.  The service says it stopped, then the process ends, and every
\* connection with it.
Save ==
    /\ loop.pc = "save"
    /\ \E how \in {"written", "failed"} : svc' = [svc EXCEPT !.saved = how]
    /\ loop' = [loop EXCEPT !.pc = "report"] /\ UNCHANGED <<conn, idle>>
Report ==
    /\ loop.pc = "report"
    /\ svc' = [svc EXCEPT !.state = "stopped"]
    /\ loop' = [loop EXCEPT !.pc = "exit"] /\ UNCHANGED <<conn, idle>>
ProcessEnds ==
    /\ loop.pc = "exit"
    /\ loop' = [loop EXCEPT !.pc = "gone"]
    /\ conn' = [c \in Callers |-> IF c \in Held THEN [conn[c] EXCEPT !.pc = "closed"] ELSE conn[c]]
    /\ UNCHANGED <<svc, idle>>

(***************************************************************************)
(* Stopping: the control is accepted while running; the handler sets the   *)
(* flag and then connects to wake the loop.  The manager waits so long.    *)
(***************************************************************************)
StopControl ==
    /\ svc.state = "running" /\ ~svc.stop
    /\ svc' = [svc EXCEPT !.stop = TRUE]
    /\ conn' = [conn EXCEPT ![Waker].pc = "connect"] /\ UNCHANGED <<loop, idle>>

(***************************************************************************)
(* Idle release, when the index need not stay in memory.                   *)
(***************************************************************************)
TimePasses == /\ idle.now < MaxTime /\ loop.pc # "gone"
        /\ idle' = [idle EXCEPT !.now = @ + 1, !.released = FALSE]
        /\ UNCHANGED <<svc, loop, conn>>
IdleCheck ==
    /\ loop.pc # "gone" /\ idle.now - idle.lastQuery >= IdleTime
    /\ idle' = [idle EXCEPT !.released = TRUE] /\ UNCHANGED <<svc, loop, conn>>

ServeInit ==
    /\ svc = [state |-> "stopped", stop |-> FALSE, saved |-> "no", started |-> FALSE]
    /\ loop = [pc |-> "gone", free |-> FALSE, came |-> "none"]
    /\ conn = [c \in Callers |-> [pc |-> "none", opened |-> 0, sent |-> FALSE, asks |-> 0]]
    /\ idle = [now |-> 0, lastQuery |-> 0, asked |-> 0, released |-> FALSE]

Daemon == Loaded \/ LoadFails \/ Check \/ NewInstance \/ Accept \/ Save \/ Report \/ ProcessEnds
ServeNext ==
    \/ Start \/ Daemon \/ StopControl \/ TimePasses \/ IdleCheck
    \/ \E c \in Callers : Connect(c) \/ WaitFree(c) \/ WaitOver(c) \/ Ask(c) \/ Hangup(c)
                            \/ TryAgain(c) \/ Read(c) \/ Answer(c)

\* Threads run, a call to Windows returns, and a wake-up is made to the end.
ServeFairness ==
    /\ WF_serveVars(Daemon)
    /\ \A c \in Callers : /\ WF_serveVars(Connect(c)) /\ WF_serveVars(WaitFree(c) \/ WaitOver(c))
                          /\ WF_serveVars(Read(c)) /\ WF_serveVars(Answer(c))

(***************************************************************************)
(* Properties.                                                             *)
(***************************************************************************)
\* A wake-up that reached the pipe ends the daemon, whichever of the waiting
\* clients the loop accepts first, behind a last checkpoint.
StopServed ==
    (svc.stop /\ conn[Waker].pc = "taken") ~> (svc.state = "stopped" /\ svc.saved # "no")

\* One thread per client: whoever sent a request is answered, or sees the
\* daemon end, however many others are connected.
Answered == \A c \in Clients : conn[c].sent /\ conn[c].pc = "served" ~> ~conn[c].sent \/ conn[c].pc = "closed"

\* daemon.rs: a wake-up that reached the pipe ends the daemon, whoever else
\* waits, and no client that sent a request waits for ever.
WokenStops == StopServed /\ Answered

\* daemon.rs, service.rs: however clients and the wake-up overtake each other, a
\* last checkpoint is tried between the stop and its report, and not unless a
\* stop was asked for; from then on the pipe takes nobody; and the connection
\* that only wakes the loop is never served as a client.
StopsInOrder ==
    /\ svc.stop /\ svc.state = "stopped" => svc.saved # "no"
    /\ svc.saved # "no" => svc.stop /\ ~loop.free
    /\ conn[Waker].pc \notin {"served", "asked"}

\* daemon.rs: without the wake-up "a service `STOP` would time out and the SCM
\* would kill the process".
StopEnds == svc.stop ~> (svc.state = "stopped")

\* Not kept (daemon.rs): "Checkpoint on the way out, so an ordinary stop loses nothing".
\* A final save that fails costs a warning, and the service is stopped.
StoppedIsSaved == svc.stop /\ svc.state = "stopped" => svc.saved = "written"

\* Not kept (daemon.rs): the index may page out "when nobody is using it".
ReleasedOnlyIdle == idle.released => idle.now - idle.asked >= IdleTime

\* Not kept (service.rs): it "sits in `StartPending` until the pipe is actually accepting,
\* and only then reports `Running`".
RunningIsAccepting == svc.state = "running" /\ ~svc.stop => PipeExists
=============================================================================
