-------------------------------- MODULE Setup --------------------------------
(***************************************************************************)
(* `batuta setup` applying a confirmed plan (setup/apply.rs), and `batuta  *)
(* uninstall`, on a machine that may already have Batuta: the executable   *)
(* in the install directory, the service, the scheduled task, the helper   *)
(* processes that own the keyboard shortcut (hotkey.rs), the PATH entry    *)
(* (setup/pathenv.rs), the config and the index.  Each step is an action   *)
(* that may fail; a failed step is reported and the run goes on, except    *)
(* after "install".  The service, the helpers, other programs and the user *)
(* signing out act between any two steps.                                  *)
(*                                                                         *)
(* An executable is the build it holds.  An image running from a file      *)
(* keeps that file from being overwritten, not from being renamed.         *)
(***************************************************************************)
EXTENDS Integers, Sequences, FiniteSets, FiniteSetsExt

CONSTANTS
  Plans,       \* plans of this instance: [resident, drives, hotkey, path]
  Machines,    \* what may be there before the first run
  PathValues,  \* values of PATH, each a sequence of entries
  MaxRuns,     \* runs of setup or uninstall
  MaxChanges   \* times the user signs out, and times another program takes a key

\* A machine may lack anything, but nothing is registered to start an executable
\* that is not there; a file held open is the file a process runs from.
ASSUME SetupAssumption ==
  /\ \A p \in Plans : /\ DOMAIN p = {"resident", "drives", "hotkey", "path"}
                      /\ p.hotkey \in {<<>>, <<"a">>, <<"b">>}
  /\ \A m \in Machines :
       /\ DOMAIN m.exe = {"dest", "aside"}
       /\ DOMAIN m.svc = {"registered", "state", "build", "image", "drives"}
       /\ m.helpers \subseteq [image : {"dest", "aside"}, key : {"a", "b"}, holds : BOOLEAN]
       /\ m.run \in {<<>>, <<"a">>, <<"b">>}
       /\ DOMAIN m.disk = {"task", "config", "snap"}
       /\ m.svc.registered \/ m.disk.task \/ m.run # <<>> => m.exe.dest # "none"
  /\ PathValues \subseteq Seq(STRING)

VARIABLES
  exe,       \* [dest, aside]: the build in batuta.exe and in batuta.old, or "none"
  svc,       \* [registered, state, build, image, drives]
  helpers,   \* the processes that own or wait for a shortcut
  user,      \* [run, path]: the Run value and the user's PATH
  taken,     \* shortcuts other programs hold
  disk,      \* [task, config, snap]
  s,         \* the running setup or uninstall
  base,      \* the machine when it started
  left       \* [runs, changes] still allowed

setupVars == <<exe, svc, helpers, user, taken, disk, s, base, left>>
machine == [exe |-> exe, svc |-> svc, helpers |-> helpers, user |-> user, disk |-> disk]

Nothing == <<>>
Keys == {"a", "b"}

-----------------------------------------------------------------------------
\* PATH: entries between semicolons, compared without case, quotes and end separators

Ours == "batuta"
OursToo == "batuta/"       \* another spelling of the same entry
Empty == ""
Normalise(entry) == IF entry = OursToo THEN Ours ELSE entry
ContainsEntry(path, entry) == \E i \in DOMAIN path : path[i] # Empty /\ Normalise(path[i]) = Normalise(entry)

Trimmed(path) ==           \* trim_end_matches(';')
  LET some == {i \in DOMAIN path : path[i] # Empty}
  IN  IF some = {} THEN <<>> ELSE SubSeq(path, 1, Max(some))

\* the entries that are none of these, in their order
Leaving(path, out) ==
  LET f[n \in 0 .. Len(path)] == IF n = 0 THEN <<>>
                                 ELSE IF Normalise(path[n]) \in out THEN f[n - 1]
                                 ELSE Append(f[n - 1], path[n])
  IN  f[Len(path)]

WithEntry(path, entry) == IF ContainsEntry(path, entry) THEN path ELSE Append(Trimmed(path), entry)

WithoutEntry(path, entry) ==
  IF ~ContainsEntry(path, entry) THEN path
  ELSE Leaving(path, {Empty, Normalise(entry)})

-----------------------------------------------------------------------------
Report == [install |-> "-", config |-> "-", index |-> "-", service |-> "-", start |-> "-",
           check |-> "-", task |-> "-", hotkey |-> "-", path |-> "-"]
Resting == [pc |-> "idle", plan |-> Nothing, build |-> "none", report |-> Report, stopped |-> FALSE]

SetupInit ==
  \E m \in Machines, p \in PathValues :
    /\ exe = m.exe /\ svc = m.svc /\ helpers = m.helpers /\ disk = m.disk
    /\ user = [run |-> m.run, path |-> p]
    /\ taken = {} /\ s = Resting /\ left = [runs |-> MaxRuns, changes |-> MaxChanges]
    /\ base = [exe |-> m.exe, svc |-> m.svc, helpers |-> m.helpers, user |-> user, disk |-> m.disk]

Plan == s.plan[1]
At(pc) == s.pc = pc
Go(pc, step, outcome) == s' = [s EXCEPT !.pc = pc, !.report[step] = outcome]
Outcome == {"done", "failed"}
Failures == {k \in DOMAIN s.report : s.report[k] = "failed"}

\* do_setup: apply a plan from a batuta.exe that holds this build; "here" is the installed one
Start(plan, build) ==
  /\ s.pc \in {"idle", "done", "aborted", "removed"} /\ left.runs > 0
  /\ build = "here" => exe.dest # "none"
  /\ left' = [left EXCEPT !.runs = @ - 1] /\ base' = machine
  /\ s' = [Resting EXCEPT !.pc = "install", !.plan = <<plan>>, !.build = IF build = "here" THEN exe.dest ELSE build]
  /\ UNCHANGED <<exe, svc, helpers, user, taken, disk>>

-----------------------------------------------------------------------------
\* 1. install_binary

InUse(image) == (svc.state # "stopped" /\ svc.image = image) \/ \E h \in helpers : h.image = image

\* the same file or the same contents need no copy; otherwise the old one is let go of first
Install ==
  /\ At("install")
  /\ \/ Go("aborted", "install", "failed")                       \* the directory cannot be made
     \/ exe.dest = s.build /\ Go("config", "install", "done")
     \/ exe.dest # s.build /\ s' = [s EXCEPT !.pc = IF exe.dest = "none" THEN "copy" ELSE "stop"]
  /\ UNCHANGED <<exe, svc, helpers, user, taken, disk, base, left>>

\* service::stop, which waits for the service to end and may give up waiting
StopService ==
  /\ At("stop")
  /\ \/ /\ svc.registered /\ svc' = [svc EXCEPT !.state = "stopped"]
        /\ s' = [s EXCEPT !.pc = "kill", !.stopped = TRUE]
     \/ /\ svc.registered /\ svc.state # "stopped" /\ svc' = [svc EXCEPT !.state = "stopping"]
        /\ s' = [s EXCEPT !.pc = "kill"]
     \/ ~svc.registered /\ UNCHANGED svc /\ s' = [s EXCEPT !.pc = "kill"]
  /\ UNCHANGED <<exe, helpers, user, taken, disk, base, left>>

\* procs::stop_running_from
KillHelpers ==
  /\ At("kill")
  /\ \E dead \in SUBSET helpers : helpers' = helpers \ dead
  /\ s' = [s EXCEPT !.pc = "copy"]
  /\ UNCHANGED <<exe, svc, user, taken, disk, base, left>>

\* the running images follow a renamed file
Moved(from, to) ==
  /\ svc' = IF svc.image = from THEN [svc EXCEPT !.image = to] ELSE svc
  /\ helpers' = {IF h.image = from THEN [h EXCEPT !.image = to] ELSE h : h \in helpers}

Copy ==
  /\ At("copy")
  /\ \/ ~InUse("dest") /\ exe' = [exe EXCEPT !.dest = s.build] /\ Go("config", "install", "done")
     \/ exe.dest = "none" /\ Go("aborted", "install", "failed") /\ UNCHANGED exe
     \/ exe.dest # "none" /\ s' = [s EXCEPT !.pc = "aside"] /\ UNCHANGED exe
  /\ UNCHANGED <<svc, helpers, user, taken, disk, base, left>>

MoveAside ==
  /\ At("aside")
  /\ \/ /\ exe.aside # "none" => ~InUse("aside")
        /\ exe' = [dest |-> "none", aside |-> exe.dest] /\ Moved("dest", "aside")
        /\ s' = [s EXCEPT !.pc = "copy again"]
     \/ /\ exe' = IF InUse("aside") THEN exe ELSE [exe EXCEPT !.aside = "none"]
        /\ Go("aborted", "install", "failed") /\ UNCHANGED <<svc, helpers>>
  /\ UNCHANGED <<user, taken, disk, base, left>>

CopiedAgain ==
  /\ At("copy again")
  /\ exe' = [dest |-> s.build, aside |-> IF InUse("aside") THEN exe.aside ELSE "none"]
  /\ Go("config", "install", "done") /\ UNCHANGED <<svc, helpers, user, taken, disk, base, left>>

\* Bug: the executable that was moved aside is left there.
LeaveAside ==
  /\ At("copy again") /\ Go("aborted", "install", "failed")
  /\ UNCHANGED <<exe, svc, helpers, user, taken, disk, base, left>>

\* put it back rather than leaving no executable at all
PutBack ==
  /\ At("copy again")
  /\ exe' = [dest |-> exe.aside, aside |-> "none"] /\ Moved("aside", "dest")
  /\ Go("aborted", "install", "failed") /\ UNCHANGED <<user, taken, disk, base, left>>

-----------------------------------------------------------------------------
\* 2-4. configuration, folder, index

WriteConfig ==
  /\ At("config")
  /\ \E o \in Outcome :
       /\ Go("index", "config", o)
       /\ disk' = IF o = "done" THEN [disk EXCEPT !.config = Plan.drives] ELSE disk
  /\ UNCHANGED <<exe, svc, helpers, user, taken, base, left>>

Snap(drives, fresh) == <<[drives |-> drives, fresh |-> fresh]>>

\* decide_scan: keep the index only when it covers exactly these drives and is recent
Reusable(snap, drives) == snap # Nothing /\ snap[1].drives = drives /\ snap[1].fresh

BuildIndex ==
  /\ At("index")
  /\ IF Reusable(disk.snap, Plan.drives)
     THEN Go("resident", "index", "skipped") /\ UNCHANGED disk
     ELSE \E o \in Outcome :
            /\ Go("resident", "index", o)
            /\ disk' = IF o = "done" THEN [disk EXCEPT !.snap = Snap(Plan.drives, TRUE)] ELSE disk
  /\ UNCHANGED <<exe, svc, helpers, user, taken, base, left>>

-----------------------------------------------------------------------------
\* 5. the service, the scheduled task, or nothing resident

RegisterService ==
  /\ At("resident") /\ Plan.resident = "service"
  /\ \/ svc' = [svc EXCEPT !.registered = TRUE] /\ Go("start", "service", "done")
     \/ UNCHANGED svc /\ Go("hotkey", "service", "failed")
  /\ UNCHANGED <<exe, helpers, user, taken, disk, base, left>>

\* a daemon that starts serves the snapshot there is, or scans what the config names
Launched == [svc EXCEPT !.state = "running", !.build = exe.dest, !.image = "dest",
                        !.drives = IF disk.snap # Nothing THEN disk.snap[1].drives ELSE disk.config]

\* service::start: a service that reports Running needs no starting, and one that is
\* stopping still reports Running
StartService ==
  /\ At("start")
  /\ \/ svc.state # "stopped" /\ UNCHANGED svc /\ Go("check", "start", "done")
     \/ svc.state = "stopped" /\ svc' = Launched /\ Go("check", "start", "done")
     \/ UNCHANGED svc /\ Go("hotkey", "start", "failed")
  /\ UNCHANGED <<exe, helpers, user, taken, disk, base, left>>

\* service::verify: reported running, and a Status round trip over the pipe
CheckService ==
  /\ At("check")
  /\ \/ svc.state # "stopped" /\ Go("hotkey", "check", "done")
     \/ Go("hotkey", "check", "failed")
  /\ UNCHANGED <<exe, svc, helpers, user, taken, disk, base, left>>

ScheduleTask ==
  /\ At("resident") /\ Plan.resident # "service"
  /\ \/ Plan.resident = "task" /\ disk' = [disk EXCEPT !.task = TRUE] /\ Go("hotkey", "task", "done")
     \/ Plan.resident = "task" /\ UNCHANGED disk /\ Go("hotkey", "task", "failed")
     \/ Plan.resident = "manual" /\ UNCHANGED disk /\ Go("hotkey", "task", "skipped")
  /\ UNCHANGED <<exe, svc, helpers, user, taken, base, left>>

-----------------------------------------------------------------------------
\* 6. the shortcut: hotkey::autostart_enable, then a helper for this session

\* RegisterHotKey is refused while anybody holds the combination
Free(hs, k) == k \notin taken /\ \A h \in hs : h.key = k => ~h.holds
Helper(k) == [image |-> "dest", key |-> k, holds |-> Free(helpers, k)]

\* Bug: a helper is started and nothing starts it at the next sign-in.
HotkeyUnregistered(k) ==
  /\ helpers' = helpers \cup {Helper(k)} /\ UNCHANGED user /\ Go("path", "hotkey", "done")

\* the Run value first; a helper only where that was written
HotkeyOn(k) ==
  \/ UNCHANGED <<user, helpers>> /\ Go("path", "hotkey", "failed")
  \/ user' = [user EXCEPT !.run = <<k>>] /\ UNCHANGED helpers /\ Go("path", "hotkey", "failed")
  \/ user' = [user EXCEPT !.run = <<k>>] /\ helpers' = helpers \cup {Helper(k)} /\ Go("path", "hotkey", "done")

Hotkey ==
  /\ At("hotkey")
  /\ IF Plan.hotkey = Nothing THEN Go("path", "hotkey", "skipped") /\ UNCHANGED <<user, helpers>>
     ELSE HotkeyOn(Plan.hotkey[1])
  /\ UNCHANGED <<exe, svc, taken, disk, base, left>>

\* 7. PATH
AddToPath ==
  /\ At("path")
  /\ \/ Plan.path /\ ~ContainsEntry(user.path, Ours)
        /\ user' = [user EXCEPT !.path = WithEntry(@, Ours)] /\ Go("done", "path", "done")
     \/ (~Plan.path \/ ContainsEntry(user.path, Ours))
        /\ UNCHANGED user /\ Go("done", "path", "skipped")
     \/ Plan.path /\ UNCHANGED user /\ Go("done", "path", "failed")
  /\ UNCHANGED <<exe, svc, helpers, taken, disk, base, left>>

\* the closing screen only advertises a shortcut whose step did not fail
Advertised == At("done") /\ Plan.hotkey # Nothing /\ s.report.hotkey # "failed"

-----------------------------------------------------------------------------
\* uninstall: the service, the task, the Run value, PATH, then perhaps the index

Uninstall ==
  /\ s.pc \in {"idle", "done", "aborted", "removed"} /\ left.runs > 0
  /\ left' = [left EXCEPT !.runs = @ - 1] /\ base' = machine
  /\ s' = [Resting EXCEPT !.pc = "rm service"]
  /\ UNCHANGED <<exe, svc, helpers, user, taken, disk>>

RemoveService ==
  /\ At("rm service")
  /\ \/ /\ svc.registered /\ Go("rm task", "service", "done")
        /\ \E state \in {"stopped", IF svc.state = "stopped" THEN "stopped" ELSE "stopping"} :
             svc' = [svc EXCEPT !.registered = FALSE, !.state = state]
     \/ /\ svc.registered /\ Go("rm task", "service", "failed")
        /\ \E state \in {"stopped", IF svc.state = "stopped" THEN "stopped" ELSE "stopping"} :
             svc' = [svc EXCEPT !.state = state]
     \/ ~svc.registered /\ UNCHANGED svc /\ Go("rm task", "service", "skipped")
  /\ UNCHANGED <<exe, helpers, user, taken, disk, base, left>>

RemoveTask ==
  /\ At("rm task")
  /\ \/ disk.task /\ disk' = [disk EXCEPT !.task = FALSE] /\ Go("rm hotkey", "task", "done")
     \/ disk.task /\ UNCHANGED disk /\ Go("rm hotkey", "task", "failed")
     \/ ~disk.task /\ UNCHANGED disk /\ Go("rm hotkey", "task", "skipped")
  /\ UNCHANGED <<exe, svc, helpers, user, taken, base, left>>

RemoveHotkey ==
  /\ At("rm hotkey")
  /\ user' = [user EXCEPT !.run = Nothing]
  /\ Go("rm path", "hotkey", IF user.run # Nothing THEN "done" ELSE "skipped")
  /\ UNCHANGED <<exe, svc, helpers, taken, disk, base, left>>

RemovePath ==
  /\ At("rm path")
  /\ \/ user' = [user EXCEPT !.path = WithoutEntry(@, Ours)]
        /\ Go("rm index", "path", IF ContainsEntry(user.path, Ours) THEN "done" ELSE "skipped")
     \/ ContainsEntry(user.path, Ours) /\ UNCHANGED user /\ Go("rm index", "path", "failed")
  /\ UNCHANGED <<exe, svc, helpers, taken, disk, base, left>>

RemoveIndex ==
  /\ At("rm index") /\ s' = [s EXCEPT !.pc = "removed"]
  /\ \E gone \in BOOLEAN : disk' = IF gone THEN [disk EXCEPT !.snap = Nothing] ELSE disk
  /\ UNCHANGED <<exe, svc, helpers, user, taken, base, left>>

-----------------------------------------------------------------------------
\* the rest of the machine

ServiceEnds == /\ svc.state = "stopping" /\ svc' = [svc EXCEPT !.state = "stopped"]
               /\ UNCHANGED <<exe, helpers, user, taken, disk, s, base, left>>

\* the running daemon's checkpoint (daemon.rs)
DaemonSaves == /\ svc.state # "stopped" /\ disk' = [disk EXCEPT !.snap = Snap(svc.drives, TRUE)]
               /\ UNCHANGED <<exe, svc, helpers, user, taken, s, base, left>>

\* do_scan, by hand or from the scheduled task: a running daemon rebuilds its own index,
\* otherwise the drives of the config are scanned here
ScanCommand ==
  /\ exe.dest # "none"
  /\ disk' = [disk EXCEPT !.snap = Snap(IF svc.state # "stopped" THEN svc.drives ELSE disk.config, TRUE)]
  /\ UNCHANGED <<exe, svc, helpers, user, taken, s, base, left>>

\* signing out ends every helper; signing in starts the one the Run value names
SignInAgain ==
  /\ left.changes > 0 /\ left' = [left EXCEPT !.changes = @ - 1]
  /\ helpers' = IF user.run # Nothing /\ exe.dest # "none"
                THEN {[image |-> "dest", key |-> user.run[1], holds |-> user.run[1] \notin taken]} ELSE {}
  /\ UNCHANGED <<exe, svc, user, taken, disk, s, base>>

OtherTakes(k) ==
  /\ left.changes > 0 /\ left' = [left EXCEPT !.changes = @ - 1]
  /\ Free(helpers, k) /\ taken' = taken \cup {k}
  /\ UNCHANGED <<exe, svc, helpers, user, disk, s, base>>
OtherReleases(k) == /\ k \in taken /\ taken' = taken \ {k}
                    /\ UNCHANGED <<exe, svc, helpers, user, disk, s, base, left>>

\* hotkey::run: a refused registration is tried again, after retry_delay
Retry(h) ==
  /\ ~h.holds /\ Free(helpers, h.key)
  /\ helpers' = (helpers \ {h}) \cup {[h EXCEPT !.holds = TRUE]}
  /\ UNCHANGED <<exe, svc, user, taken, disk, s, base, left>>
HelperRetries == \E h \in helpers : Retry(h)

-----------------------------------------------------------------------------
SetupNext ==
  \/ \E p \in Plans, b \in {"old", "new", "here"} : Start(p, b)
  \/ Install \/ StopService \/ KillHelpers \/ Copy \/ MoveAside \/ CopiedAgain \/ PutBack
  \/ WriteConfig \/ BuildIndex \/ RegisterService \/ StartService \/ CheckService \/ ScheduleTask
  \/ Hotkey \/ AddToPath
  \/ Uninstall \/ RemoveService \/ RemoveTask \/ RemoveHotkey \/ RemovePath \/ RemoveIndex
  \/ ServiceEnds \/ DaemonSaves \/ ScanCommand \/ SignInAgain
  \/ \E k \in Keys : OtherTakes(k) \/ OtherReleases(k)
  \/ HelperRetries

\* the retry loop of a helper never ends, and other programs let go of their shortcuts
SetupFairness == WF_setupVars(HelperRetries) /\ WF_setupVars(\E k \in Keys : OtherReleases(k))
SetupSpec == SetupInit /\ [][SetupNext]_setupVars /\ SetupFairness

-----------------------------------------------------------------------------
\* A run that stops after "install" leaves the executable that was there, or none if none
\* was, and whatever is registered to start always finds an executable between two runs.
NeverWithoutExecutable ==
  /\ At("aborted") => exe.dest = base.exe.dest
  /\ ~At("copy again") /\ (svc.registered \/ disk.task \/ user.run # Nothing) => exe.dest # "none"

\* A service that was stopped for the new executable runs it when it is reported started,
\* and one started from nothing serves the drives the plan named unless the config or the index failed.
StartedRunsNewBuild ==
  At("done") /\ s.report.start = "done" /\ s.stopped =>
    /\ svc.state = "running" /\ svc.build = s.build /\ exe.dest = s.build
    /\ "failed" \notin {s.report.config, s.report.index} => svc.drives = Plan.drives

\* Only a shortcut that works is advertised: it is in the Run value for the next sign-in,
\* and in this session somebody owns it or a helper waits for it.
AdvertisedWorks ==
  Advertised => /\ user.run = Plan.hotkey
                /\ \E h \in helpers : h.key = Plan.hotkey[1]

\* Without a failure reported, uninstall has left nothing registered and PATH as it was
\* without the entry, in the same order.
UninstalledIsGone ==
  At("removed") /\ Failures = {} =>
    /\ ~svc.registered /\ ~disk.task /\ user.run = Nothing
    /\ ~ContainsEntry(user.path, Ours)
    /\ Leaving(user.path, {Empty}) = Leaving(base.user.path, {Empty, Ours})

\* apply.rs: wherever a run of setup fails or is aborted, there is an executable
\* to start and what is started runs the build that was put there.
ProgramKept == NeverWithoutExecutable /\ StartedRunsNewBuild

\* apply.rs, uninstall: what setup says is on works, and what was removed is gone.
PromisesKept == AdvertisedWorks /\ UninstalledIsGone

\* An advertised shortcut works in the end, whoever held it when the helper asked for it.
ShortcutTakenOver ==
  Advertised ~> (Advertised => \E h \in helpers : h.key = Plan.hotkey[1] /\ h.holds)

\* Not kept: "Your existing installation is untouched and still working.", for the service
\* was stopped to let go of the old executable and is not started again
AbortedStillWorking == At("aborted") /\ base.svc.state = "running" => svc.state = "running"

\* Not kept: "reusing there would silently leave a volume unindexed", for a service that
\* is running already is not restarted and keeps serving, and saving, the drives it had
ServesWhatWasChosen ==
  At("done") /\ Failures = {} /\ Plan.resident = "service" => svc.drives = Plan.drives
=============================================================================
