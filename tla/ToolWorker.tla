----------------------------- MODULE ToolWorker -----------------------------
(***************************************************************************)
(* One supervised tool: the thread that runs worker_loop, the queue of      *)
(* Control messages the user interface sends it, the process tree it        *)
(* launched, and the clock its deadlines are read from.                     *)
(*                                                                         *)
(* The worker is sequential; pc names the point it has reached.  A step     *)
(* ends where another party can act or observe: at each wait, at each call  *)
(* that looks at or signals the process tree, and where the lock on the     *)
(* runtime record is released.  The processes of the tree live, fork and    *)
(* die between any two of its steps.                                        *)
(*                                                                         *)
(* Times are relative.  An automatic restart is remembered by its age, the  *)
(* pending launch by the time it still has to wait; Tick makes both one     *)
(* unit older.  An age stops growing once it is past the restart window,    *)
(* where the program no longer tells ages apart.                            *)
(***************************************************************************)
EXTENDS Integers, Sequences, FiniteSets

CONSTANTS
    Pids,               \* process identifiers
    NoPid,
    MaxRestartCount,    \* ToolConfig::max_restart_count
    RestartWindow,      \* ToolConfig::restart_window_seconds, in ticks
    RestartDelay,       \* ToolConfig::restart_delay_ms, in ticks
    MaxQueue,           \* bound: requests waiting in the channel
    CountCap            \* bound: restart_count is not followed beyond it

\* AppConfig::validate refuses a zero max_restart_count or restart window.
ASSUME LimiterAssumption ==
    /\ MaxRestartCount \in Nat \ {0}
    /\ RestartWindow \in Nat \ {0}
    /\ RestartDelay \in Nat
ASSUME BoundAssumption ==
    /\ MaxQueue \in Nat \ {0}
    /\ CountCap \in Nat /\ CountCap >= MaxRestartCount
ASSUME PidAssumption == NoPid \notin Pids

VARIABLES
    config,         \* ToolConfig: auto_start and auto_restart
    queue,          \* the mpsc channel from the Supervisor to the worker
    sender,         \* "open", "shutdown" (was the last message) or "dropped"
    pc,
    exiting,        \* the stop under way ends the loop
    desired,        \* desired_running
    nextStart,      \* next_start, as the ticks left to wait
    restarts,       \* the VecDeque of automatic restarts, oldest first, as ages
    runtime,        \* Arc<Mutex<Runtime>>: state, pid, restart_count
    root,           \* the child the worker holds
    escaped,        \* that child moved to a process group of its own
    members,        \* its descendants in the guard's group
    rootPid,        \* the pid of that child, NoPid when there is none
    leftover,       \* a process of a tree the worker let go of still runs
    stopFailed,     \* history: the system refused to stop some process
    cause,          \* history: why the next launch is due
    meter           \* history: exact ages of the automatic restarts within the window

workerVars == <<pc, exiting, desired, nextStart, restarts, runtime>>
treeVars   == <<root, escaped, members, rootPid, leftover, stopFailed>>
userVars   == <<queue, sender>>
vars == <<config, userVars, workerVars, treeVars, cause, meter>>

-----------------------------------------------------------------------------
Requests == {"Start", "Stop", "Restart"}
Control  == Requests \cup {"Shutdown"}

ToolState == {"Stopped", "Starting", "Running", "Stopping", "Restarting", "Crashed"}

\* struct Runtime, without the memory sample and the start time
Runtime == [state : ToolState, pid : Pids \cup {NoPid}, restart_count : 0..CountCap]

NotScheduled == -1
Due == 0

\* "dying": killed but not gone; "zombie": ended and not yet waited for.
RootStatus   == {"none", "alive", "dying", "zombie"}
MemberStatus == {"none", "alive", "dying"}

\* process.is_some(), and the local copies of it in stop_process and start_process
Held == rootPid # NoPid

Killed(status) == IF status = "alive" THEN "dying" ELSE status
Reaped(status) == IF status = "zombie" THEN "none" ELSE status

Older(age) == IF age > RestartWindow THEN age ELSE age + 1
Aged(ages) == [i \in DOMAIN ages |-> Older(ages[i])]

Stale(age) == age > RestartWindow

\* How many entries the pruning loop pops: those before the first fresh one.
Expired(ages) ==
    CHOOSE n \in 0..Len(ages) :
        /\ \A i \in 1..n : Stale(ages[i])
        /\ n < Len(ages) => ~Stale(ages[n + 1])

Prune(ages) == SubSeq(ages, Expired(ages) + 1, Len(ages))

Bump(n) == IF n < CountCap THEN n + 1 ELSE n

\* After stop_process the loop ends, or goes on to look at the process.
AfterStop == IF exiting THEN "done" ELSE "poll"

\* A tree whose last handle goes away with root r and members m in that state
Abandons(r, m) == leftover \/ r = "alive" \/ m = "alive"

ForgetTree ==
    /\ root' = "none" /\ escaped' = FALSE /\ members' = "none" /\ rootPid' = NoPid

-----------------------------------------------------------------------------
\* Supervisor::new starts the worker on a stopped tool.
Init ==
    /\ config \in [auto_start : BOOLEAN, auto_restart : BOOLEAN]
    /\ queue = <<>> /\ sender = "open"
    /\ pc = "recv" /\ exiting = FALSE
    /\ desired = config.auto_start
    /\ nextStart = IF config.auto_start THEN Due ELSE NotScheduled
    /\ restarts = <<>>
    /\ runtime = [state |-> "Stopped", pid |-> NoPid, restart_count |-> 0]
    /\ root = "none" /\ escaped = FALSE /\ members = "none" /\ rootPid = NoPid
    /\ leftover = FALSE /\ stopFailed = FALSE
    /\ cause = IF config.auto_start THEN "boot" ELSE "none"
    /\ meter = <<>>

-----------------------------------------------------------------------------
(* The match on receiver.recv_timeout *)

Receive(control) ==
    /\ pc = "recv" /\ queue # <<>> /\ Head(queue) = control
    /\ queue' = Tail(queue)

\* With a process running the request only leaves a due launch behind.
RecvStart ==
    /\ Receive("Start")
    /\ desired' = TRUE /\ nextStart' = Due
    /\ IF Held THEN UNCHANGED <<restarts, runtime, meter>>
       ELSE /\ restarts' = <<>> /\ meter' = <<>>
            /\ runtime' = [runtime EXCEPT !.restart_count = 0]
    /\ cause' = IF root = "alive" THEN cause ELSE "user"
    /\ pc' = "poll"
    /\ UNCHANGED <<config, sender, exiting, treeVars>>

\* Mutant: a stop ends the process and leaves the scheduled launch in place.
RecvStopKeepsSchedule ==
    /\ Receive("Stop")
    /\ cause' = "none"
    /\ pc' = "stop"
    /\ UNCHANGED <<config, sender, exiting, desired, nextStart, restarts, runtime,
                   treeVars, meter>>

RecvStop ==
    /\ Receive("Stop")
    /\ desired' = FALSE /\ nextStart' = NotScheduled
    /\ cause' = "none"
    /\ pc' = "stop"
    /\ UNCHANGED <<config, sender, exiting, restarts, runtime, treeVars, meter>>

RecvRestart ==
    /\ Receive("Restart")
    /\ desired' = TRUE /\ nextStart' = Due
    /\ runtime' = [runtime EXCEPT
                     !.state = "Restarting",
                     !.restart_count = IF Held THEN Bump(@) ELSE @]
    /\ cause' = "user"
    /\ pc' = "stop"
    /\ UNCHANGED <<config, sender, exiting, restarts, treeVars, meter>>

\* Mutant: the process is stopped and the loop is not left.
RecvShutdownWithoutBreak ==
    /\ Receive("Shutdown")
    /\ pc' = "stop"
    /\ UNCHANGED <<config, sender, exiting, desired, nextStart, restarts, runtime,
                   treeVars, cause, meter>>

RecvShutdown ==
    /\ Receive("Shutdown")
    /\ exiting' = TRUE
    /\ pc' = "stop"
    /\ UNCHANGED <<config, sender, desired, nextStart, restarts, runtime,
                   treeVars, cause, meter>>

\* RecvTimeoutError::Disconnected: the Supervisor went away without a shutdown.
RecvDisconnected ==
    /\ pc = "recv" /\ queue = <<>> /\ sender = "dropped"
    /\ exiting' = TRUE
    /\ pc' = "stop"
    /\ UNCHANGED <<config, userVars, desired, nextStart, restarts, runtime,
                   treeVars, cause, meter>>

\* RecvTimeoutError::Timeout
RecvTimeout ==
    /\ pc = "recv" /\ queue = <<>> /\ sender # "dropped"
    /\ pc' = "poll"
    /\ UNCHANGED <<config, userVars, exiting, desired, nextStart, restarts, runtime,
                   treeVars, cause, meter>>

-----------------------------------------------------------------------------
(* stop_process *)

stopUnchanged ==
    UNCHANGED <<config, userVars, exiting, desired, nextStart, restarts, cause, meter>>

StopNothing ==
    /\ pc = "stop" /\ ~Held
    /\ runtime' = [runtime EXCEPT !.state = "Stopped", !.pid = NoPid]
    /\ pc' = AfterStop
    /\ stopUnchanged /\ UNCHANGED treeVars

\* Stopping is shown, then request_graceful_stop answers whether it is worth waiting.
StopRequest(graceful) ==
    /\ pc = "stop" /\ Held
    /\ runtime' = [runtime EXCEPT !.state = "Stopping"]
    /\ pc' = IF graceful THEN "await" ELSE "force"
    /\ stopUnchanged /\ UNCHANGED treeVars

\* try_wait in the waiting loop: a root that is not waited for still counts as running.
AwaitReap ==
    /\ pc = "await" /\ root = "zombie"
    /\ root' = "none"
    /\ stopUnchanged
    /\ UNCHANGED <<pc, runtime, escaped, members, rootPid, leftover, stopFailed>>

\* Mutant: the wait has no deadline.
AwaitTreeOnly ==
    /\ pc = "await" /\ root \in {"none", "dying"} /\ members = "none"
    /\ pc' = "force"
    /\ stopUnchanged /\ UNCHANGED <<runtime, treeVars>>

AwaitOver ==    \* the tree is gone, or the stop timeout is over
    /\ pc = "await"
    /\ pc' = "force"
    /\ stopUnchanged /\ UNCHANGED <<runtime, treeVars>>

\* The last try_wait, and is_tree_running answers no: it counts the processes of the
\* guard's group, and a root that moved to a group of its own is not among them.
ForceNotNeeded ==
    /\ pc = "force" /\ members = "none"
    /\ root = "alive" => escaped
    /\ root' = Reaped(root)
    /\ pc' = "reap"
    /\ stopUnchanged /\ UNCHANGED <<runtime, escaped, members, rootPid, leftover, stopFailed>>

\* is_tree_running answers yes, or fails, which is taken for yes.  A signal that was
\* delivered reaches the group: its members, and the root unless it moved away.
ForceStop(delivered) ==
    /\ pc = "force"
    /\ IF delivered
       THEN /\ root' = IF escaped THEN Reaped(root) ELSE Killed(Reaped(root))
            /\ members' = Killed(members)
            /\ pc' = "reap" /\ UNCHANGED stopFailed
       ELSE /\ root' = Reaped(root) /\ UNCHANGED members
            /\ pc' = "kill" /\ stopFailed' = TRUE
    /\ stopUnchanged /\ UNCHANGED <<runtime, escaped, rootPid, leftover>>

\* The first wait_for_child_exit, skipped after a failed force_stop.
FirstWait ==
    /\ pc = "reap"
    /\ \/ /\ root \in {"none", "zombie"}
          /\ root' = "none" /\ pc' = "settle"
       \/ /\ root \in {"alive", "dying"}
          /\ pc' = "kill" /\ UNCHANGED root
    /\ stopUnchanged /\ UNCHANGED <<runtime, escaped, members, rootPid, leftover, stopFailed>>

\* child.kill(), and a try_wait when it fails
KillRoot(delivered) ==
    /\ pc = "kill"
    /\ root' = IF delivered THEN Killed(root) ELSE Reaped(root)
    /\ stopFailed' = (stopFailed \/ ~delivered)
    /\ pc' = "settle"
    /\ stopUnchanged /\ UNCHANGED <<runtime, escaped, members, rootPid, leftover>>

\* Mutant: the pid of the stopped process stays in the runtime record.
SettleKeepsPid ==
    /\ pc = "settle"
    /\ leftover' = Abandons(root, members)
    /\ ForgetTree
    /\ runtime' = [runtime EXCEPT !.state = "Stopped"]
    /\ pc' = AfterStop
    /\ stopUnchanged /\ UNCHANGED stopFailed

\* The second wait_for_child_exit ends either way; what is left goes to a detached
\* reaper, the guard is dropped, and the tool is shown as stopped.
Settle ==
    /\ pc = "settle"
    /\ leftover' = Abandons(root, members)
    /\ ForgetTree
    /\ runtime' = [runtime EXCEPT !.state = "Stopped", !.pid = NoPid]
    /\ pc' = AfterStop
    /\ stopUnchanged /\ UNCHANGED stopFailed

-----------------------------------------------------------------------------
(* The look at the process: check_health and try_wait *)

\* No process, a process that runs, or a query that failed
PollGoesOn ==
    /\ pc = "poll"
    /\ pc' = "start"
    /\ stopUnchanged /\ UNCHANGED <<runtime, treeVars>>

PollReaps ==
    /\ pc = "poll" /\ root = "zombie"
    /\ root' = "none"
    /\ pc' = "remains"
    /\ stopUnchanged /\ UNCHANGED <<runtime, escaped, members, rootPid, leftover, stopFailed>>

-----------------------------------------------------------------------------
(* stop_remaining_process_tree: the runtime record still shows the dead root *)

\* Mutant: the descendants of a root that exited are not looked for.
RemainsIgnored ==
    /\ pc \in {"remains", "remainsForce"}
    /\ pc' = "exited"
    /\ stopUnchanged /\ UNCHANGED <<runtime, treeVars>>

RemainsNothing ==
    /\ pc \in {"remains", "remainsForce"} /\ members = "none"
    /\ pc' = "exited"
    /\ stopUnchanged /\ UNCHANGED <<runtime, treeVars>>

\* Something remains, or the query failed: request_graceful_stop answers whether to wait.
RemainsRequest(graceful) ==
    /\ pc = "remains"
    /\ pc' = IF graceful THEN "remainsWait" ELSE "remainsForce"
    /\ stopUnchanged /\ UNCHANGED <<runtime, treeVars>>

RemainsWait ==
    /\ pc = "remainsWait"
    /\ \/ members = "none" /\ pc' = "exited"
       \/ pc' = "remainsForce"
    /\ stopUnchanged /\ UNCHANGED <<runtime, treeVars>>

\* A force_stop that fails is only logged.
RemainsForce(delivered) ==
    /\ pc = "remainsForce"
    /\ members' = IF delivered THEN Killed(members) ELSE members
    /\ stopFailed' = (stopFailed \/ ~delivered)
    /\ pc' = "exited"
    /\ stopUnchanged /\ UNCHANGED <<runtime, root, escaped, rootPid, leftover>>

-----------------------------------------------------------------------------
(* What follows an exit: process = None and the update of the runtime record *)

AutoRestart == desired /\ config.auto_restart

\* Mutant: the limiter lets one restart too many through.
ScheduleOneTooMany ==
    /\ Len(Prune(restarts)) <= MaxRestartCount
    /\ restarts' = Append(Prune(restarts), 0)
    /\ meter' = Append(meter, 0)
    /\ nextStart' = RestartDelay
    /\ cause' = "auto"
    /\ UNCHANGED desired

\* Mutant: the restart is granted and counted, and its launch never scheduled.
ScheduleNothing ==
    /\ Len(Prune(restarts)) < MaxRestartCount
    /\ restarts' = Append(Prune(restarts), 0)
    /\ meter' = Append(meter, 0)
    /\ cause' = "auto"
    /\ UNCHANGED <<desired, nextStart>>

\* Mutant: the delay is counted from the tick after the exit.
ScheduleLate ==
    /\ Len(Prune(restarts)) < MaxRestartCount
    /\ restarts' = Append(Prune(restarts), 0)
    /\ meter' = Append(meter, 0)
    /\ nextStart' = RestartDelay + 1
    /\ cause' = "auto"
    /\ UNCHANGED desired

\* now + restart_delay_ms, unless the limiter is full
ScheduleRestart ==
    /\ Len(Prune(restarts)) < MaxRestartCount
    /\ restarts' = Append(Prune(restarts), 0)
    /\ meter' = Append(meter, 0)
    /\ nextStart' = RestartDelay
    /\ cause' = "auto"
    /\ UNCHANGED desired

LimitReached ==
    /\ Len(Prune(restarts)) >= MaxRestartCount
    /\ restarts' = Prune(restarts)
    /\ desired' = FALSE
    /\ cause' = "none"
    /\ UNCHANGED <<meter, nextStart>>

exitUnchanged == UNCHANGED <<config, userVars, exiting, stopFailed>>

LetGo ==
    /\ pc = "exited" /\ pc' = "start"
    /\ leftover' = Abandons(root, members)
    /\ ForgetTree
    /\ exitUnchanged

ExitRestarts ==
    /\ AutoRestart /\ LetGo /\ ScheduleRestart
    /\ runtime' = [state |-> "Restarting", pid |-> NoPid,
                   restart_count |-> Bump(runtime.restart_count)]

ExitCrashes ==
    /\ AutoRestart /\ LetGo /\ LimitReached
    /\ runtime' = [runtime EXCEPT !.state = "Crashed", !.pid = NoPid]

ExitStops ==
    /\ ~AutoRestart /\ LetGo
    /\ runtime' = [runtime EXCEPT !.state = "Stopped", !.pid = NoPid]
    /\ UNCHANGED <<desired, nextStart, restarts, cause, meter>>

-----------------------------------------------------------------------------
(* The launch at the end of the iteration: start_process *)

\* Mutant: a due launch is carried out although a process is held.
StartOverRunning ==
    /\ pc = "start" /\ desired /\ nextStart = Due
    /\ nextStart' = NotScheduled
    /\ runtime' = [runtime EXCEPT !.state = "Starting"]
    /\ pc' = "spawn"
    /\ UNCHANGED <<config, userVars, exiting, desired, restarts, treeVars, cause, meter>>

\* Mutant: the deadline is compared the wrong way round.
StartBeforeDeadline ==
    /\ pc = "start" /\ ~Held /\ desired /\ nextStart > Due
    /\ nextStart' = NotScheduled
    /\ runtime' = [runtime EXCEPT !.state = "Starting"]
    /\ pc' = "spawn"
    /\ UNCHANGED <<config, userVars, exiting, desired, restarts, treeVars, cause, meter>>

StartDue ==
    /\ pc = "start" /\ ~Held /\ desired /\ nextStart = Due
    /\ nextStart' = NotScheduled
    /\ runtime' = [runtime EXCEPT !.state = "Starting"]
    /\ pc' = "spawn"
    /\ UNCHANGED <<config, userVars, exiting, desired, restarts, treeVars, cause, meter>>

StartNotDue ==
    /\ pc = "start" /\ (Held \/ ~desired \/ nextStart # Due)
    /\ pc' = "recv"
    /\ stopUnchanged /\ UNCHANGED <<runtime, treeVars>>

startUnchanged ==
    UNCHANGED <<config, userVars, exiting, desired, nextStart, restarts, meter>>

\* A missing working directory, prepare_command or Command::spawn fails.
SpawnFails ==
    /\ pc = "spawn"
    /\ pc' = "failed"
    /\ cause' = "none"
    /\ startUnchanged /\ UNCHANGED <<runtime, treeVars>>

Spawn(p) ==
    /\ pc = "spawn"
    /\ root' = "alive" /\ rootPid' = p
    /\ pc' = "attach"
    /\ cause' = "none"
    /\ startUnchanged /\ UNCHANGED <<runtime, escaped, members, leftover, stopFailed>>

\* guard.attach succeeds, and the process is published.
AttachSucceeds ==
    /\ pc = "attach"
    /\ runtime' = [runtime EXCEPT !.state = "Running", !.pid = rootPid]
    /\ pc' = "recv"
    /\ startUnchanged /\ UNCHANGED <<treeVars, cause>>

\* guard.attach fails: the outcomes of force_stop and child.kill are ignored, and the
\* child is waited for or left to a detached reaper.
AttachFails(forced, killed) ==
    /\ pc = "attach"
    /\ LET r == IF killed \/ (forced /\ ~escaped) THEN Killed(root) ELSE root
           m == IF forced THEN Killed(members) ELSE members
       IN  leftover' = Abandons(r, m)
    /\ ForgetTree
    /\ stopFailed' = (stopFailed \/ ~forced \/ ~killed)
    /\ pc' = "failed"
    /\ startUnchanged /\ UNCHANGED <<runtime, cause>>

\* Err(error) from start_process: Crashed, or another attempt when the limiter has room.
StartRetries ==
    /\ pc = "failed" /\ config.auto_restart
    /\ ScheduleRestart
    /\ runtime' = [runtime EXCEPT !.state = "Restarting", !.restart_count = Bump(@)]
    /\ pc' = "recv"
    /\ UNCHANGED <<config, userVars, exiting, treeVars>>

StartGivesUp ==
    /\ pc = "failed"
    /\ IF config.auto_restart THEN LimitReached
       ELSE /\ desired' = FALSE /\ cause' = "none"
            /\ UNCHANGED <<restarts, meter, nextStart>>
    /\ runtime' = [runtime EXCEPT !.state = "Crashed"]
    /\ pc' = "recv"
    /\ UNCHANGED <<config, userVars, exiting, treeVars>>

-----------------------------------------------------------------------------
(* The user interface: Supervisor::start, stop, restart and their batch forms *)

Request(control) ==
    /\ sender = "open" /\ Len(queue) < MaxQueue
    /\ queue' = Append(queue, control)
    /\ UNCHANGED <<config, sender, workerVars, treeVars, cause, meter>>

\* Supervisor::shutdown joins the worker on the thread all requests come from: this is
\* the last message.
Shutdown ==
    /\ sender = "open"
    /\ queue' = Append(queue, "Shutdown") /\ sender' = "shutdown"
    /\ UNCHANGED <<config, workerVars, treeVars, cause, meter>>

\* The Supervisor is dropped without a shutdown: the window could not be shown.
DropSender ==
    /\ sender = "open"
    /\ sender' = "dropped"
    /\ UNCHANGED <<config, queue, workerVars, treeVars, cause, meter>>

(* The operating system: what processes do by themselves *)

treeUnchanged == UNCHANGED <<config, userVars, workerVars, rootPid, stopFailed, cause, meter>>

RootExits ==
    /\ root \in {"alive", "dying"}
    /\ root' = "zombie"
    /\ treeUnchanged /\ UNCHANGED <<escaped, members, leftover>>

\* setsid or setpgid: what the root forks from now on is in no group the guard knows.
RootEscapes ==
    /\ root = "alive" /\ ~escaped
    /\ escaped' = TRUE
    /\ treeUnchanged /\ UNCHANGED <<root, members, leftover>>

MemberForks ==
    /\ root = "alive" /\ ~escaped /\ members = "none"
    /\ members' = "alive"
    /\ treeUnchanged /\ UNCHANGED <<root, escaped, leftover>>

MembersExit ==
    /\ members \in {"alive", "dying"}
    /\ members' = "none"
    /\ treeUnchanged /\ UNCHANGED <<root, escaped, leftover>>

LeftoverExits ==
    /\ leftover
    /\ leftover' = FALSE
    /\ treeUnchanged /\ UNCHANGED <<root, escaped, members>>

\* One unit of time passes, at any point of the worker's code.
Tick ==
    /\ pc # "done"
    /\ nextStart' = IF nextStart > Due THEN nextStart - 1 ELSE nextStart
    /\ restarts' = Aged(restarts)
    /\ meter' = Prune(Aged(meter))
    /\ <<nextStart', restarts', meter'>> # <<nextStart, restarts, meter>>
    /\ UNCHANGED <<config, userVars, pc, exiting, desired, runtime, treeVars, cause>>

-----------------------------------------------------------------------------
StopProcess ==
    \/ StopNothing \/ AwaitReap \/ AwaitOver \/ ForceNotNeeded \/ FirstWait \/ Settle
    \/ \E ok \in BOOLEAN : StopRequest(ok) \/ ForceStop(ok) \/ KillRoot(ok)

Poll ==
    \/ PollGoesOn \/ PollReaps \/ RemainsNothing \/ RemainsWait
    \/ ExitRestarts \/ ExitCrashes \/ ExitStops
    \/ \E ok \in BOOLEAN : RemainsRequest(ok) \/ RemainsForce(ok)

StartProcess ==
    \/ StartDue \/ StartNotDue \/ SpawnFails \/ AttachSucceeds
    \/ StartRetries \/ StartGivesUp
    \/ \E p \in Pids : Spawn(p)
    \/ \E forced, killed \in BOOLEAN : AttachFails(forced, killed)

Worker ==
    \/ RecvStart \/ RecvStop \/ RecvRestart
    \/ RecvShutdown \/ RecvDisconnected \/ RecvTimeout
    \/ StopProcess \/ Poll \/ StartProcess

User == Shutdown \/ DropSender \/ \E control \in Requests : Request(control)

System == RootExits \/ RootEscapes \/ MemberForks \/ MembersExit \/ LeftoverExits

Next == Worker \/ User \/ System \/ Tick

Spec == Init /\ [][Next]_vars

\* The worker thread is scheduled and time passes; no process has to end, no user to ask.
FairSpec == Spec /\ WF_vars(Worker) /\ WF_vars(Tick)

-----------------------------------------------------------------------------
(* Properties *)

\* Every variable has its type; ages stay within what Tick can reach.
TypeOK ==
    /\ config \in [auto_start : BOOLEAN, auto_restart : BOOLEAN]
    /\ queue \in Seq(Control) /\ sender \in {"open", "shutdown", "dropped"}
    /\ pc \in {"recv", "stop", "await", "force", "reap", "kill", "settle",
               "poll", "remains", "remainsWait", "remainsForce", "exited",
               "start", "spawn", "attach", "failed", "done"}
    /\ exiting \in BOOLEAN /\ desired \in BOOLEAN
    /\ nextStart \in {NotScheduled} \cup 0..RestartDelay
    /\ restarts \in Seq(0..RestartWindow + 1)
    /\ runtime \in Runtime
    /\ root \in RootStatus /\ escaped \in BOOLEAN /\ members \in MemberStatus
    /\ rootPid \in Pids \cup {NoPid}
    /\ leftover \in BOOLEAN /\ stopFailed \in BOOLEAN
    /\ cause \in {"none", "boot", "user", "auto"}
    /\ meter \in Seq(0..RestartWindow + 1)

\* What a snapshot shows is what the worker holds, at every point of its code where a
\* reader can take the lock: the pid is that of the held child from the end of
\* start_process to the end of the stop or exit path and of nothing else, Running and
\* Stopping are shown only while it is held, and between two iterations a held process
\* is shown as Running and a released one as neither starting nor stopping.
SnapshotMatchesProcess ==
    /\ runtime.pid # NoPid => runtime.pid = rootPid
    /\ runtime.state \in {"Running", "Stopping"} => runtime.pid # NoPid
    /\ pc = "recv" => /\ Held <=> runtime.state = "Running"
                      /\ runtime.state \notin {"Starting", "Stopping"}
    /\ pc = "done" => ~Held /\ runtime.state = "Stopped"

\* The worker waits for a message only when nothing it owes is forgotten: a tool shown
\* as Restarting has its next launch scheduled, one shown as Crashed is not wanted any
\* more, and one that is wanted, unless auto_restart is off, runs or has a launch scheduled.
NothingForgotten ==
    pc = "recv" =>
        /\ runtime.state = "Restarting" => desired /\ nextStart # NotScheduled
        /\ runtime.state = "Crashed" => ~desired
        /\ desired /\ config.auto_restart => Held \/ nextStart # NotScheduled

\* Within any window of restart_window_seconds since a user last started the stopped tool,
\* at most max_restart_count restarts were made automatically, after exits and after
\* launches that failed together.
RateLimit == Len(meter) <= MaxRestartCount

\* The restart count shown to the user is never below the restarts the limiter remembers.
CountCoversLimiter == Len(restarts) <= runtime.restart_count

\* A process of a tree the worker let go of runs on only if the operating system refused
\* to stop one: on the stop path, after an exit of the root, or after a failed attach.
NoLeftoverUnlessRefused == leftover => stopFailed

\* A tool with auto_restart is launched only because it is to start with the manager, a
\* user asked for it after it last went down, or an automatic restart was granted; in
\* particular never after a Stop, nor once it was given up as Crashed.
JustifiedStart == pc = "spawn" /\ config.auto_restart => cause # "none"

\* The same of every tool.
NoUnaskedStart == pc = "spawn" => cause # "none"

\* What readers of the snapshot see is an execution of ToolLifecycle.
Lifecycle == INSTANCE ToolLifecycle WITH state <- runtime.state, pid <- runtime.pid
LifecycleSpec == Lifecycle!Spec

\* Shutdown, or the loss of the Supervisor, ends the worker, whatever is queued before it
\* and whatever the processes do.
ShutdownCompletes == sender # "open" ~> pc = "done"

\* Starting, Stopping and Restarting are passed through, never stuck in.
TransientStatesEnd ==
    \A s \in {"Starting", "Stopping", "Restarting"} :
        runtime.state = s ~> runtime.state # s

\* A launch that is scheduled is carried out, unless the tool stops being wanted first.
ScheduledStartHappens ==
    (pc = "recv" /\ ~Held /\ desired /\ nextStart # NotScheduled)
        ~> (runtime.state = "Starting" \/ ~desired \/ pc = "done")

=============================================================================
