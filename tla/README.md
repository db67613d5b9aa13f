# Verification of WinKeeper

WinKeeper (Rust) supervises command-line tools for one user: it launches them, restarts them
when they end, stops them with everything they have forked, and shows them in a window and a
tray icon. This directory holds TLA+ models of its concurrent core, the TLC configurations
that check them, and proofs about the models that TLAPS checks.

Paths below are relative to the repository; `supervisor.rs` and the like stand for
`src/core/supervisor.rs`, `src/platform/linux.rs` and so on. `PROJECT.json` lists for every
definition the lines it models.

## 1. The system

| component | code | state | operations |
|---|---|---|---|
| Supervisor facade | `supervisor.rs` `Supervisor` | the tools, their channels, the manager's memory value | start, stop, restart (one, all), sample_memory, snapshots, shutdown |
| Tool worker | `supervisor.rs` `worker_loop`, `start_process`, `stop_process`, `stop_remaining_process_tree` | desired_running, next_start, the deque of restarts, the child with its guard; shared: `Runtime` | one thread per tool: receive a request, look at the process, launch it when due |
| Elevated proxy | `supervisor.rs` `spawn_elevated_proxy_worker` | desired_running, pending command, what it last saw of the helper | write commands, read the state file, repeat and reconcile |
| Elevated helper | `elevated.rs` | acknowledged numbers, a `Supervisor` of its own | claim command files, execute, publish state |
| Linux process guard, watchdog | `linux.rs` `ProcessGroup`, `run_process_watchdog` | process group, systemd scope, two pipes | attach, check_health, graceful and forced stop, drop; the watchdog is a second process |
| Windows job guard | `windows.rs` | a job object | attach, stop, close |
| Single instance | `single_instance.rs`, `main.rs`, `ui.rs` | a lock file, a request file | try_acquire, request_activation, take_activation_request |
| Memory sampling | `supervisor.rs` | `Runtime::memory`, the manager's value | sampler threads, delayed refreshes |
| Tool log, output readers | `logging.rs`, `supervisor.rs` | file, ring of lines, cached length | write, rotate, snapshot |
| Process tree assembly | `platform/mod.rs` | none | builds the tree shown to the user |
| Manager window | `ui.rs` | the rows it shows, memory_refreshing, inspect_generation | the state timer, memory refresh, process-tree view, callbacks |
| Configuration, arguments, autostart | `config.rs`, `main.rs` | the configuration | load and validate |

How they interact. The UI thread calls `Supervisor`, which puts messages into one unbounded
channel per tool; the worker answers at its own pace and publishes a `Runtime` under a mutex,
in several short critical sections, which the UI, the memory samplers and the process-tree
view read at any time. The worker calls the guard, whose answers may be errors. The guard, the
kernel, systemd and the watchdog act on the same processes at once. A tool with `admin = true`
has a proxy instead of a worker; it shares nothing with the helper but a directory of files.
Several processes of the program meet at the lock and at the activation file.

What is hard, and what correctness means, component by component:

* *Tool worker.* Requests overlap with exits, deadlines and stops in progress; one local
  deadline serves launches, restarts and retries; one limiter serves exits and failed launches
  through two copies of its code. Correct: the snapshot agrees with the process; nothing owed
  is forgotten; no launch nobody asked for; never more automatic restarts in a window than
  configured; no process left behind; every request answered; shutdown ends.
* *Linux guard.* The manager may die between any two steps; the watchdog may be late, killed or
  impossible to launch; processes fork, leave their group and ignore SIGTERM meanwhile.
  Correct: no healthy tool is signalled; no watched tree is abandoned; lost protection is
  restored.
* *Elevated protocol.* Files are written, claimed and removed one by one, either side may die
  in between, commands are repeated. Correct: what is acknowledged was executed, nothing twice
  by one helper, the tool ends up as last asked for, a shutdown stops it, no ghost is shown.
* *Single instance.* Launches overlap with a manager that starts, ends or dies. Correct: one
  manager, requests answered, no stale request honoured.
* *Tool log.* A rotation may fail at any step; the log of an elevated tool is open in two
  processes; an append that fails may have written a part of its line; the window remembers what
  it read by the length of the file. Correct: lines go on being written after a failure, only the
  oldest are given up, the file grows within its limit only, the buffer stays within both of its
  own, the window shows the end of the file.
* *Memory sampling.* Samples take seconds and outlive the process they were sent to; a launch, a
  stop, the button and the two delayed samples write one field; the window looks at it once a
  second. Correct: a row that says Pending has a query that will answer it; no value of an
  earlier process is shown for the present one; left alone, the row comes to rest with a value.
* *Windows job guard.* The tool is launched suspended and must be in the job before its first
  instruction; each step of that may fail; the graceful stop is a process of the user's that may
  hang. Correct: no process of the tool runs outside the job or after it is closed; that command
  is ended unless the system refuses.
* *Process tree.* The table is read while processes come and go: parents may be missing,
  strangers or in a cycle. Correct: every process of the tool is listed once, under its parent.
* *Process-tree view.* Inspections are threads that end in any order. Correct: the view belongs
  to the last click and stops loading.
* *Output reader.* A line comes in pieces of any size and is cut at a limit that may fall into any
  of them. Correct: the log holds the lines of what was written, in order, without a gap.

## 2. Modules

| module | what it is | extends |
|---|---|---|
| `ToolLifecycle` | abstract: the changes of state and pid a snapshot reader may observe | |
| `ToolWorker` | the worker, its channel, its tree, its clock; implements `ToolLifecycle` | |
| `MCToolWorker` | symmetry of the pids, for TLC | `ToolWorker` |
| `GuardContract` | abstract: what the worker relies on in a guard of either platform | |
| `ToolWorkerProofs` | theorems about `ToolWorker` | `ToolWorker` |
| `LinuxGuard` | guard, watchdog, pipes and process tree on Linux; implements `GuardContract` | |
| `JobGuard` | guard, job object and graceful stop command on Windows; implements `GuardContract` | |
| `MemorySampling` | a row of the window, its samplers and the timer; uses `ToolLifecycle` for the worker | |
| `Inspection` | the process-tree view: clicks, threads, the event loop | |
| `ProcessTree` | the algorithm that lists a process tree | |
| `OutputReader` | the reader thread of a tool's output, with its algorithm | |
| `SortedNumbers` | numbers in ascending order, defined by rank (`sort_unstable`); used by the two above | |
| `MCComponents` | the six components above, for TLC | `LinuxGuard` |
| `ComponentsProofs` | theorems about `MCComponents`: its composition, `ProcessTree`, `OutputReader`, `Inspection` | `MCComponents`, `LinuxGuardProofs` |
| `ElevatedProtocol` | proxy, helper, the files between them | |
| `SingleInstance` | launches, lock, activation request | |
| `SingleInstanceProofs` | theorems about `SingleInstance` | `SingleInstance` |
| `ElevatedProtocolProofs` | theorems about `ElevatedProtocol` | `ElevatedProtocol` |
| `LinuxGuardProofs` | theorems about `LinuxGuard` | `LinuxGuard` |
| `JobGuardProofs` | theorems about `JobGuard` | `JobGuard` |
| `MemorySamplingProofs` | theorems about `MemorySampling` | `MemorySampling` |
| `ToolLog` | a log file, its backup, the one or two `ToolLog`s open on it | |
| `ToolLogProofs` | theorems about `ToolLog` | `ToolLog` |

### ToolWorker

The worker is sequential, so its control point is a variable: `pc` is `"recv"` at
`recv_timeout`, then `"poll"`, `"start"`, and inside the calls `"stop"`, `"await"`, `"force"`,
`"reap"`, `"kill"`, `"settle"` (`stop_process`), `"remains"`... `"exited"` (the exit path) and
`"spawn"`, `"attach"`, `"failed"` (`start_process`). A step ends where another party can act or
look: at waits, at calls to the process tree, and where the mutex of `Runtime` is released. So
all the intermediate snapshots of the code are states of the model.

`desired`, `nextStart`, `restarts`, `runtime` are the locals `desired_running`, `next_start`,
`restarts` and the shared record. `root`, `members`, `escaped`, `rootPid` are the child, its
descendants in the group, whether the child left that group, and its pid. Times are relative:
ages of the restarts and the ticks a launch has still to wait; `Tick` moves both. `cause`,
`meter`, `stopFailed` and `leftover` are history: why the next launch is due, exact ages of
the automatic restarts, whether the system refused a stop, whether a process got away.

Every failure the code handles is a choice: a launch, an attach, a graceful or forced stop, a
kill may fail, a wait may end by its timeout at any moment.

`ToolLifecycle` is what a reader is promised; `LifecycleSpec` says that the worker implements
it under `state <- runtime.state, pid <- runtime.pid`.

### LinuxGuard

`phase` is where the worker stands with the guard (attach, arming the watchdog, guarded,
stopping, drop), `watchdog` the other process, `ready` and `control` the two pipes: `"open"`,
`"disarm"` (the byte D was written), `"closed"`. `life` and `own` are the processes and those
that left the group; the scope, where there is one, still reaches these. Signals are heeded or
ignored, processes end by themselves at any time or never. A query of the tree that fails
counts as a running tree (`Answers`), as `unwrap_or(true)` has it.

### GuardContract, JobGuard

`GuardContract` has three variables: how far the worker is with its guard, what has become of
the tree, and what the system did to excuse the guard (`"refused"`: a stop was not carried out;
`"late"`: the watchdog was not ready in time). It promises two things. A tree that is held and
not being stopped is let alone: `"doomed"`, which means that all that is left of it was killed,
is out of reach of `Holding`. And `Release` finds the tree doomed or gone unless the system
refused. `LinuxGuard` and `JobGuard` implement it by mappings that define the tree from the
processes the guard answers for: on Linux those in the group or the scope (`Managed`), on
Windows all of them.

`JobGuard` follows `JobObject` and the worker's calls of it: `"assign"` and `"resume"` are the
two steps of `attach`, `"failed"` and `"failedKill"` the worker's answer to one that failed,
`"waiting"`, `"force"`, `"kill"`, `"drop"` the stop path. `life` tells a suspended process from
a running one; `job` is the membership, inherited by a fork. `hook` and `reaper` are the
graceful stop command, outside the job, and the detached thread that waits for it; the system may
refuse that thread, its wait or its kill, and the command is then `"abandoned"`. A handle is
closed by `Drop` or by the death of the manager, and with it the job is terminated
(JOB_OBJECT_LIMIT_KILL_ON_JOB_CLOSE).

### MemorySampling

One row: a tool's, or the manager's own. The worker is an INSTANCE of `ToolLifecycle`: its
changes of `state` and `pid` are all a sampler or the window can observe of it, and
`ToolWorker` is shown to make no others. `Begin`, `Publish` and `End` add what those changes do
to the memory field and to the delayed samples. `sampler` is the set of threads, asleep or
waiting for a query; `Current` is the test of the pid that both the scheduled refresh and
`sample_memory` make before they write. A reading carries the process it was taken of (`of`),
which the code's does not; it is what `SampleMatchesProcess` speaks of. `shown` is the
`StateRefreshCache`, `refreshing` is `memory_refreshing`.

### Inspection

`thread` holds, for every click, how far its thread is (looking up the pid, reading the table,
posting) and what it found; `posted` is the event loop's queue. `Show` is the event: it drops
the answer to a click that is not the last. `since` is history: the processes the row of the
last click has had since that click.

### ProcessTree, OutputReader

Two algorithms as state machines, one step per iteration, so that no recursion is needed, checked
against definitions that say what the result is. `ProcessTree` starts from any table over the
pids, cycles and missing roots included, and any members; `walk` is the recursion's stack of
calls. `TreeIsComplete` compares the list with the least set that holds the members and with a
process its children (`Selected`). `OutputReader` starts
from any output and divides it into pieces in any way; `LinesDelivered` compares the log with
the lines of the whole text (`Owed`), at every step and at the end.

### MCComponents

These six components do not interact. `MCComponents` puts them side by side for TLC: `part` says
which one a behaviour belongs to, and the others stay in an initial state. In that state no
fair action of theirs is enabled, so their fairness asks nothing. What is checked of each is
therefore checked as if it were alone.

### ElevatedProtocol

The proxy's loop and the helper's are cut where a file is written, renamed, read or removed:
the proxy alternates between its wait for a request (`Receive...`) and its look at the state
file (`Read...`); the helper lists, claims, executes, removes and publishes, and publishing is
itself two steps, because the state file is absent between the removal and the rename that
replaces it. `todo` is the queue of the worker in the helper; that worker is the business of
`ToolWorker` and appears here with its results only (running, stopped, given up). Command
numbers come from `clock` and from the last acknowledgement, as in `next_command_id`.
Deadlines are not counted: they may be over as soon as their wait begins, so every race of a
timeout with an answer is there.

The proxy cannot see whether the helper lives. It goes by the state file: `ReadUnavailable` is its
look at one that is missing, unreadable or older than eight seconds, and `unavailable` is its
`unavailable_since`, set by the first such look, cleared by a fresh state, and `"due"` once eight
more seconds have passed (`EightSecondsUnavailable`), when the tool is shown as down. That happens
to a live helper that is slow as well (`StateAges`). `"remove"` is the helper between the
execution of a claimed command and the removal of its file; at that step `AtMostOncePerHelper`
looks back at what this helper has executed, the last acknowledged number included.

### SingleInstance

`phase` is the point of `main` each process has reached; `lock` and `request` are the two
files; `opens` the argument of the launch; `visible` the window. The activation timer is
`TakeRequest`. `"loop"` lasts until the event loop has returned, the handler of Exit included;
`"closing"` is what follows under the lock. `asked` and `owed` are history.

### ToolLog

`file` and `backup` are what the two paths hold: lines, each a number and a length, and `torn`,
the length of what a failed append left behind the last of them. The next line that is appended
follows it without a newline in between (`Appended`), and a reader takes it for a line of its own
(`Texts`). An earlier run may have left a file of any length, be it within the limit or not, or a
torn piece. Each `ToolLog` has a control point (`pc`) inside `write`, cut where it calls the file
system: `"check"` (open the file if need be, see whether there is room), `"remove"`, `"rename"`,
`"reopen"`, `"reopenFailed"` (`rotate`), `"append"`, `"push"` (`push_bounded`). `handle` says
where an open file has got to: renaming `file` makes it `"backup"` for everybody who has it open,
removing it makes it `"gone"`. `count` is `file_bytes`; it does not know of what `AppendFails`
left in the file, which `left` adds up until the file is opened again. `shared` says that the
helper has the log open too; otherwise the manager is alone with it. `lines`, `buffered` and
`cached` are the `LogInner` of the manager, which is what the window shows; the helper's copies
are read by nobody. The snapshot takes the length first (`measured`) and the mutex afterwards, as
the code does. `logged`, `hit` and `disturbed` are history.

## 3. Runs

| run | checks | instance | result |
|---|---|---|---|
| `worker` | type, five safety properties, refinement of `ToolLifecycle`; shutdown, transient states, scheduled starts | 1 pid, limit 2 per window of 1, delay 1, 1 waiting request | holds |
| `unasked_start` | `NoUnaskedStart` | 2 pids, limit 2 per window of 2, delay 1, 2 waiting requests | violated |
| `components` | `LinuxGuard`, `JobGuard`: the contract, two and one invariants, four liveness properties; `MemorySampling`: two invariants, `RestIsShown`; `LatestInspectionShown`; `TreeIsComplete`; `LinesDelivered`; types | 3 processes under either guard, every Linux fault once, with and without scope; every table of 4 processes; every output of up to 5 bytes, lines of 2; 2 rows and 2 clicks; 2 pids, 2 samplers | holds |
| `linux_crash` | `CrashAlwaysCleansUp` | 3 processes, no fault | violated |
| `elevated_safety` | type, `AcknowledgedIsExecuted`, `AtMostOncePerHelper` | 3 numbers, 2 helpers, 2 managers, one fault of any kind | holds |
| `elevated_liveness` | `Converges`, `ShutdownStops`, `NoGhost` | 5 numbers, users ask with the first two, 2 helpers, no fault | holds |
| `elevated_revival` | `NoUnaskedRevival` | 3 numbers, 1 helper | violated |
| `single_instance` | type, `NoStaleActivation`, `RequestAnswered` | 3 processes, relaunched for ever | holds |
| `launch_lost` | `LaunchOpensManager` | 2 processes, nobody quits or dies | violated |
| `tool_log` | type, `BufferBounded`, `FileBounded`, `HistoryKept`, `MissedOnlyByFault`, `WindowIsCurrent` | 3 lines of 2 lengths behind one of an earlier run, a piece of one or nothing, a file for 1 or 2, 2 faults | holds |
| `shared_log` | `LogFileBounded` | as `tool_log`, no fault | violated |
| `refresh_stuck` | `RefreshEnds` | the manager's row, 2 samplers | violated |

Why the bounds are enough for the questions asked. In `ToolWorker` a limit of 2 makes the
limiter fill, prune and refuse, with a restart that is too old beside one that is not; a queue
of 1 lets a request wait behind a Stop or a Shutdown. Times that differ by more than the window
are not told apart by the code either. One pid is enough for `worker`, since no property of it
compares a pid with an earlier one, and the theorems of section 4 leave the safety properties
without a bound. In `LinuxGuard` and `JobGuard` three processes are a root, a descendant in the
group or job and one outside it. In `ProcessTree` four processes are a root beside a cycle of
two with a child. Five bytes of three kinds are two lines with their endings, or one that is
longer than the limit of two by its ending, by a letter or by more. Two pids and two samplers are
a sample of the present process overlapping one of the process before it; two clicks are a
click and the one that overtakes it. In `ElevatedProtocol` two helpers are a helper and its
successor, which is all a claimed file can meet; three numbers are a command, its repetition
and a later one. The liveness run has five, so that repeating and reconciling never runs out
of numbers. In `SingleInstance` three processes are a manager, its successor and a launch
between them; they are launched again without bound. In `ToolLog` the line of an
earlier run and three more fill the file twice, so a rotation meets the backup of another, and the
two `ToolLog`s rotate under each other; old lines of one and of four bytes are one that leaves
room and one that is over the limit of four with its newline; a buffer of two lines and three bytes
is exceeded by either capacity alone; a tail of three bytes cuts a file of four.

These bounds are on counters: `CountCap` (`restart_count` is not followed beyond it), `MaxId`
(no command is written once the numbers are used up), `MaxLines` (no line is written beyond
it), `MaxClicks` (no click beyond it), `Samplers` (with all of them busy no sample is asked
for) and the faults (`LinuxGuard`: each kind at most once, `ElevatedProtocol`: one in all,
`ToolLog`: `MaxFaults` of different kinds). The liveness runs are not helped by them: the
worker has no step that `CountCap` disables, and the numbers of the elevated runs suffice.

Deadlock is not checked where the system may stop: a worker that has ended, a guard that was
dropped, a manager nobody launches again, a log whose lines are used up, a list that is
finished. `single_instance` checks it.

### Fairness

* `ToolWorker`: the worker's thread is scheduled (`WF Worker`; its waits all have timeouts) and
  time passes (`WF Tick`). No process has to end and no user has to ask.
* `LinuxGuard`: thread and watchdog are scheduled; a process that was killed, or that heeds
  SIGTERM, ends. No process ends by itself for certain, and no fault must happen.
* `ElevatedProtocol`: the threads of a live manager and helper are scheduled, and a state file
  nobody renews grows old. The strong fairness of the proxy's steps says two things of time: a
  deadline that is past stays past, and a loop that polls does not find the state file missing
  each time, since it is missing for the length of a rename only; so a live helper's fresh state
  is read again and again. Once the wait for one has begun its eight seconds pass
  (`EightSecondsUnavailable`). No fairness is asked of the age of a live helper's state. `Patient`
  adds, for `Converges`, that eight seconds suffice for a live helper to carry out a command; a
  helper that is slower makes the proxy repeat itself, which the safety run allows.
* `JobGuard`: the reaper thread is scheduled, and a command it has killed ends.
* `MemorySampling`: sleeps and queries end, and the window's timer fires. Nothing is asked of the
  worker or of the user.
* `Inspection`: the threads end, and the event loop runs.
* `SingleInstance`: a launched process goes on, the timer fires, a manager that quits ends.

## 4. What is proved

`ToolWorkerProofs`, for every set of pids, every limit, window and delay, and every bound:

* `TypeCorrect`, `SnapshotIsCorrect`, `NothingIsForgotten`, `StartsAreJustified`,
  `NothingIsLeftOver`, `RestartsAreLimited`: each safety property of `worker`, and
  `CountIsNotBelowLimiter`, which no run repeats;
* `WorkerImplementsLifecycle`: the refinement.

The properties speak of the points where the worker waits or launches, and say nothing of the
code between them, so they are not inductive. The invariant is
`Inv == TypeOK /\ ControlInv /\ LimiterInv`. `ControlInv` has three parts, each a table over
`pc`: what the snapshot shows and whether a child is held (`SnapshotInv`), what the worker
still means to do (`IntentInv`), what the tree can still leave behind (`TreeInv`).
`LimiterInv` relates the limiter's deque with the meter: the deque is sorted with the oldest
first, and the meter, which is pruned at every tick, is a tail of the deque, which is pruned
only when it is consulted. That is why the deque bounds the meter, and why testing its length
after pruning bounds the restarts of every window. The pruning loop is `Prune`; that it drops
exactly the stale entries of a sorted sequence is a lemma. Each preservation lemma has one step
per action; the refinement maps each action to a step of `ToolLifecycle` or a stutter, with
`SnapshotInv` giving the states the abstract guards ask for. Assumptions used: positive limit
and window (`AppConfig::validate`), a natural delay, `NoPid` outside `Pids`.

`SingleInstanceProofs`, for every set of processes and every way they end: `SpecTypeOK`,
`SpecMutualExclusion` (one process past `try_acquire`), `SpecNoStaleActivation`. The last rests
on `AskedInv`: from the removal of the old request on, a request that is there was written
while the present holder had the lock. Between taking the lock and that removal it may be
older; this is the window the code closes by removing before it starts the timer, and the
same order is what loses requests (finding 4).

`ElevatedProtocolProofs`, for every number of commands, of launches of either side and every set
of faults: `SpecTypeOK`, `SpecAtMostOncePerHelper`, `SpecAcknowledgedIsExecuted`. The first two
need `OnceInv`: a living helper has acknowledged at least the numbers it executed, so the one it is
about to execute is beyond all of them, and no command
bears the mark of a helper that was not launched yet. That holds with every fault, a clock that
steps back included. That nothing is skipped needs `OrderInv`, which holds as long as no command
was lost to a fault: all numbers in use are behind the clock (`Behind`); a command that was not
executed is in its file, or in the one a helper claimed (`Kept`); what is acknowledged, published
or about to be was executed up to there (`Accounted`); the claimed file comes before the listed
ones (`ClaimedFirst`); and a command a working helper has not executed is listed, claimed, or
newer than both (`InOrder`). The proxy's fourteen actions are one lemma: each sends a command
under the clock's number, writes the pending one again, or writes nothing. Assumption used:
`None` is not a command file.

`LinuxGuardProofs`, for every set of processes and of faults: `SpecTypeOK`,
`SpecDisarmOnlyEmptyTree`, `SpecNoUnaskedSignal`. The invariant says what is at rest before the
launch (`IdleInv`); that in the phases in which nobody stops the tool the watchdog sees its pipe
open and no process was signalled (`CalmInv`); that the pipe says "disarm" only over an empty
tree, after which no guard is armed again (`DisarmInv`); and that after a forced stop nothing the
guard reaches is unharmed unless the kill was refused (`StopInv`).

`JobGuardProofs`, for every set of processes that has the root: `SpecTypeOK`, `SpecJobNoEscape`.
Beside the property itself the invariant says that only the root is ever suspended, that it is in
the job before it is resumed and stays suspended past its launch only where a kill was refused
(`SuspendedInv`), and that nothing runs before that nor is killed before a stop (`LaunchInv`).

`SpecGuardContract` in both modules is the refinement: the guard of either platform implements
`GuardContract`, so what the worker relies on does not depend on the platform. Each action maps
to a step of the contract or a stutter, with the invariant giving the guards of the contract's
steps. The mapping is `GuardStage`, `GuardTree`, `GuardTrouble` in each module.

`MemorySamplingProofs`, for every number of pids and samplers: `SpecTypeOK`,
`SpecPendingIsServed`, `SpecSampleMatchesProcess`. `ThreadInv` adds that a sleeping thread has a
sample to take and that the manager's samplers are about the manager, whose pid never changes.
Assumption used: a reading is neither `"idle"` nor `"pending"`.

`ToolLogProofs`, for every capacity, every limit of the file, any number of lines of any lengths and
every set of faults: each property of `tool_log`, `SpecTypeOK`, `SpecBufferBounded`,
`SpecFileBounded`, `SpecHistoryKept`, `SpecMissedOnlyByFault`, `SpecWindowIsCurrent`. The properties
say nothing of the middle of a write or a rotation. The invariant adds where every handle points and
which line is in hand (`HandInv`); that a line whose write is over is in the file or was hit by a
fault, and a line whose rotation failed was hit (`MissedInv`); that a file the manager has to itself
is as long as it counts and failed appends have left, and is rotated only for want of room
(`OwnFileInv`); that the lines kept are in the order of their numbers, backup before file, behind all
that was given up (`OrderInv`); and that a file only the helper appends to was never shorter than
what was measured of it (`WindowInv`). What is bounded are sums over a list. The prover takes no
induction over sequences, but it knows that a set of natural numbers has a least member: a first
length without its sum, or a first place where two sums differ, is a contradiction, and from that
follow the sums of a list with a line appended and of a tail. `SpecFileBounded` is about steps: a
file over the limit when it was opened is no violation, a step that makes a file grow past it is,
but for what failed appends have left since it was opened. Assumptions used: those of the
constants, among them that `None` is no number, line or file (`NoneAssumption`), and that the
file has room for a line.

`ComponentsProofs` is about the specification that `components` checks. A step of it is a step of one
component and leaves the variables of the others alone (`StepOfParts`), so the invariants of
`LinuxGuardProofs`, `JobGuardProofs` and `MemorySamplingProofs` hold in it: `SpecAllJobNoEscape`,
`SpecAllPendingIsServed`, `SpecAllSampleMatchesProcess` and `SpecAllGuardContracts`, the refinement
by both guards. The other three components have their invariants here.

* `SpecAllTreeIsComplete`, for a table of any size with any parents. `WalkInv`: the calls that are
  still to be made have their place behind the lines so far, and the deepest come first, so that
  none is cut off from the line it is drawn from. `OutputInv`: each line is drawn from the right
  one, and the lines are those of the processes the walk has been at. `CoverInv`: the children of a
  visited process were visited or are called, and after the fallback the members too. When no call
  is left, what was visited is closed under children, and `Selected` is the least such set: that is
  how a cycle of parents is complete as well.
* `SpecAllLinesDelivered`, for output of any length in any pieces and any cap on a line.
  `LineInv` names the byte the line under way starts behind: the line is what is kept of the bytes
  since then, there is no newline among them, and the log is what is owed for the bytes before. That
  one more line makes the log owe one more entry, or none if it is blank (`OwedLine`), and that a
  text that ends with a line is owed the first entries of any longer text (`OwedPrefix`), are lemmas
  about `Owed`. They rest on the order of `Sorted`: a member's rank is the number of those below it,
  and larger numbers do not change it (`SortedPrefix`).
* `SpecAllLatestInspection`, for any rows, pids and clicks: the safety half of
  `LatestInspectionShown`. What the last click's thread has found, and what its row has now, the row
  has had since that click (`FoundSince`).
* `SpecAllTypesOK`: the types of all six.

Assumptions used: the bounds are natural numbers, the table has room for the root, the window has a
row (`ComponentsAssumption`), and those of the guards.

Only model-checked: every liveness property, since the prover handles no fairness or `ENABLED`:
the liveness properties of `worker`, `elevated_liveness`, `single_instance` and `components`,
`LatestInspectionShown` as a whole among them. Every safety property, every refinement and every
type invariant of a passing run is stated by a theorem.

## 5. Findings

1. `unasked_start`: a Start that reaches a running tool leaves `next_start` due
   (`supervisor.rs:457`). When the tool ends later it is launched again, with `auto_restart`
   off and nobody asking. For a tool with `auto_restart` the property is `JustifiedStart`, and
   is proved.
2. `linux_crash`: the parent-death signal covers the root only, with a signal it may ignore,
   and a watchdog that was launched but is not ready dies with the manager (`linux.rs:132`,
   `:562`). From readiness on, `CrashCleansUp` holds.
3. `elevated_revival`: the proxy's reconciliation repeats the Start of a tool that the helper
   reports as given up (`supervisor.rs:767`).
4. `launch_lost`: an instance that is starting removes the request of a launch that found it
   starting (`single_instance.rs:35`). With an autostart launch and a normal one, no window
   opens.
5. `shared_log`: manager and helper both append to the log of an elevated tool, and each compares
   `log_file_max_bytes` with what it found when it opened the file and the lines it wrote itself
   (`logging.rs:253`). The file outgrows the limit without any fault; after a rotation by one of
   them the other writes to the renamed file, which the next rotation removes.
6. `refresh_stuck`: `memory_refreshing` is set by the button and taken back only when the rows
   differ from those of the last look (`ui.rs:153`, `:356-397`). A sample that begins and ends
   between two looks with the value already shown leaves the button disabled, though README.md:34
   promises samples on demand and README.md:39 controls that are disabled when unavailable.

Two things a reader could take for properties and which do not hold, with no document saying
otherwise, are recorded as notes of hazards: convergence after a command that cannot be
written, and numbers after a clock that steps back. A third is an observation on `ui.rs:442-453`:
the text of the uptime is made anew only when `started_at` changes, so the uptime shown does not
advance while a tool runs.

## 6. What the models leave out

* `ToolWorker`: memory samples, `started_at` and the log; the Windows-only `SampleMemory`
  request; descendants of a root that left its group (they are out of the guard's reach in the
  code as well, except through a Linux scope, which is in `LinuxGuard`); reuse of a pid while
  it is shown; more than one tool (workers share nothing but the platform adapter).
* `LinuxGuard`: pid reuse; a group the manager may not signal; zombies of descendants, which
  init reaps; one launch per behaviour. When the thread that reads a watchdog's readiness cannot be
  created (`linux.rs:512-519`), the watchdog was launched already and is not killed. Both of its
  pipes are closed, so it ends as it writes its byte, and `SpawnWatchdogFails` has it gone. It would
  have to write that byte before the reading end is closed, microseconds after its launch, to go on
  and stop the tree; that is left out.
* `LinuxGuard`, `DropDisarms`: the look at the tree (`linux.rs:434`) and the byte D (`:440`) are one
  step. Two would add nothing: a tree that was found gone stays gone (`TreeEnds` in
  `LinuxGuardProofs`).
* `ElevatedProtocol`: command files that cannot be parsed; the transient states of the tool;
  a clock that jumps forward, and a live helper that is taken for dead because of it; one tool.
* `ToolLog`: lines cut to `max_line_bytes`, time stamps, the flush (which a `File` answers at
  once), a `metadata` that fails on a file just opened, which counts as empty then
  (`unwrap_or(0)`), a backup left by an earlier run, the migration of logs with legacy names in
  `new`, and `format_snapshot`, which changes no state. Capacities are small numbers, lines as
  long as bytes count.
* `LinuxGuard`'s external commands (`systemctl` and its timeout, `linux.rs` 257-337) are their
  results.
* `JobGuard`: `memory_usage` and `open_path`, which change no state. A graceful stop command that
  is `"abandoned"` is outside `HookIsReaped`: the code does nothing more about it.
* `MemorySampling`: the branch of `sample_memory` for an elevated tool, whose samples are the
  helper's; that a change in another row refreshes this one too, which can only help it; a pid
  the system gives away again while a query about it is under way or between two looks of the
  window.
* `ProcessTree`: names and sizes. `OutputReader`: the second cut by `ToolLog`; a line of exactly
  the limit with a newline counts as cut, and a blank line is not logged, as in the code.
* `SingleInstance`: I/O errors other than a taken lock, which end the launch.
* The log view's cache (`refresh_log`), other callbacks, texts and layout.
* Configuration, arguments and autostart entries are sequential code with no state of their own.
  Two first launches at the same moment both find no configuration file, since it is read before
  the lock is taken; `create_new` lets one of them create it, and the other ends with an error.
  The tray library under `src/vendor` is third-party.

## 7. Plan

Done, in the order of importance: the worker with its abstract lifecycle and its proofs, the
Linux guard, the elevated protocol, the single instance with its proofs, the log, memory
sampling, the contract of the guard with the Windows job that implements it too, the
process-tree view, the two algorithms, and the proofs of section 4, which reach every safety property
the runs check. Next:

1. `ToolWorker` over `GuardContract` instead of a tree of its own.
2. Samples of elevated tools, through the files of `ElevatedProtocol`.
