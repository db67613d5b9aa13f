------------------------------ MODULE JobGuard ------------------------------
(***************************************************************************)
(* The guard the worker of a tool holds on Windows.  The tool is launched   *)
(* suspended, put into a job object and only then resumed, so that all it   *)
(* forks is in the job too.  Terminating the job ends them; so does the end *)
(* of the last handle of the job, be it closed by the guard or by the death *)
(* of the manager.                                                          *)
(*                                                                         *)
(* A stop begins with a command of the user's, where one is configured: a   *)
(* process of its own, outside the job, with a thread that waits for it.    *)
(***************************************************************************)
EXTENDS FiniteSets

CONSTANTS
    Procs,      \* the processes of the tree
    Root        \* the one the manager launches, a member of Procs

VARIABLES
    phase,      \* what the worker is doing with the guard; "dead": the manager died
    open,       \* the handle of the job
    job,        \* the processes in the job
    life,       \* the processes of the tree
    hook,       \* the graceful stop command: "none", "running", "overdue" (it was killed), or
                \* "abandoned": the system refused the thread, the wait or the kill
    reaper,     \* its thread
    refused     \* history: the system did not carry out a stop

vars == <<phase, open, job, life, hook, reaper, refused>>

Life == {"none", "suspended", "alive", "killed"}
Live == {p \in Procs : life[p] \in {"suspended", "alive"}}

Slain(reached) == [p \in Procs |-> IF p \in reached \cap Live THEN "killed" ELSE life[p]]

hookUnchanged == UNCHANGED <<hook, reaper>>

-----------------------------------------------------------------------------
Init ==
    /\ phase = "idle" /\ open = FALSE /\ job = {}
    /\ life = [p \in Procs |-> "none"]
    /\ hook = "none" /\ reaper = FALSE /\ refused = FALSE

\* JobObject::new, with JOB_OBJECT_LIMIT_KILL_ON_JOB_CLOSE, then the worker's Command::spawn
\* with CREATE_SUSPENDED
Spawn ==
    /\ phase = "idle"
    /\ open' = TRUE
    /\ life' = [life EXCEPT ![Root] = "suspended"]
    /\ phase' = "assign"
    /\ hookUnchanged /\ UNCHANGED <<job, refused>>

(* attach *)

\* Mutant: the tool is launched running.
AssignRunning ==
    /\ phase = "assign"
    /\ life' = [life EXCEPT ![Root] = "alive"]
    /\ job' = job
    /\ phase' = "resume"
    /\ hookUnchanged /\ UNCHANGED <<open, refused>>

Assign ==
    /\ phase = "assign"
    /\ job' = IF Root \in Live THEN {Root} ELSE {}
    /\ phase' = "resume"
    /\ hookUnchanged /\ UNCHANGED <<open, life, refused>>

AssignFails ==
    /\ phase = "assign"
    /\ phase' = "failed"
    /\ hookUnchanged /\ UNCHANGED <<open, job, life, refused>>

Resume ==
    /\ phase = "resume" /\ life[Root] = "suspended"
    /\ life' = [life EXCEPT ![Root] = "alive"]
    /\ phase' = "guarded"
    /\ hookUnchanged /\ UNCHANGED <<open, job, refused>>

\* No thread found, or one of several not resumed: the tool may be running or not.
ResumeFails ==
    /\ phase = "resume"
    /\ \/ UNCHANGED life
       \/ life[Root] = "suspended" /\ life' = [life EXCEPT ![Root] = "alive"]
    /\ phase' = "failed"
    /\ hookUnchanged /\ UNCHANGED <<open, job, refused>>

\* The worker's answer to a failed attach: force_stop ...
FailedForceStop(granted) ==
    /\ phase = "failed"
    /\ life' = IF granted THEN Slain(job) ELSE life
    /\ refused' = (refused \/ ~granted)
    /\ phase' = "failedKill"
    /\ hookUnchanged /\ UNCHANGED <<open, job>>

\* ... and child.kill, for a tool that did not get into the job.
FailedKill(granted) ==
    /\ phase = "failedKill"
    /\ life' = IF granted THEN Slain({Root}) ELSE life
    /\ refused' = (refused \/ ~granted)
    /\ phase' = "drop"
    /\ hookUnchanged /\ UNCHANGED <<open, job>>

(* The stop path *)

\* request_graceful_stop answers false, or with an error: the worker goes on to force.
NoGracefulStop ==
    /\ phase = "guarded"
    /\ phase' = "force"
    /\ hookUnchanged /\ UNCHANGED <<open, job, life, refused>>

\* The command runs, with a thread that waits for it if one can be created.
RequestGracefulStop ==
    /\ phase = "guarded"
    /\ \/ hook' = "running" /\ reaper' = TRUE
       \/ hook' = "abandoned" /\ reaper' = FALSE
    /\ phase' = "waiting"
    /\ UNCHANGED <<open, job, life, refused>>

\* is_tree_running is false, or the wait is over.
WaitEnds ==
    /\ phase = "waiting"
    /\ phase' = "force"
    /\ hookUnchanged /\ UNCHANGED <<open, job, life, refused>>

NothingToForce ==
    /\ phase = "force" /\ job \cap Live = {}
    /\ phase' = "kill"
    /\ hookUnchanged /\ UNCHANGED <<open, job, life, refused>>

\* is_tree_running is true, or cannot be answered.
ForceStop(granted) ==
    /\ phase = "force"
    /\ life' = IF granted THEN Slain(job) ELSE life
    /\ refused' = (refused \/ ~granted)
    /\ phase' = "kill"
    /\ hookUnchanged /\ UNCHANGED <<open, job>>

\* child.kill, when the tool was not found ended in time
KillRoot(granted) ==
    /\ phase = "kill"
    /\ life' = IF granted THEN Slain({Root}) ELSE life
    /\ phase' = "drop"
    /\ hookUnchanged /\ UNCHANGED <<open, job, refused>>

RootEnded ==
    /\ phase = "kill" /\ life[Root] \notin {"alive", "suspended"}
    /\ phase' = "drop"
    /\ hookUnchanged /\ UNCHANGED <<open, job, life, refused>>

\* drop: CloseHandle
Drop ==
    /\ phase = "drop"
    /\ open' = FALSE
    /\ life' = Slain(job)
    /\ phase' = "released"
    /\ hookUnchanged /\ UNCHANGED <<job, refused>>

(* The thread that waits for the command *)

\* Mutant: the thread stops waiting without killing.
ReaperGivesUpAtDeadline ==
    /\ reaper /\ hook = "running"
    /\ reaper' = FALSE
    /\ UNCHANGED <<phase, open, job, life, hook, refused>>

\* The deadline is over, and the command is killed unless the system refuses.
ReaperKills ==
    /\ reaper /\ hook = "running"
    /\ hook' \in {"overdue", "abandoned"}
    /\ UNCHANGED <<phase, open, job, life, reaper, refused>>

\* try_wait fails: the thread ends whatever the command does.
ReaperFails ==
    /\ reaper /\ hook = "running"
    /\ hook' = "abandoned" /\ reaper' = FALSE
    /\ UNCHANGED <<phase, open, job, life, refused>>

\* try_wait found the command ended, or the second deadline is over.
ReaperEnds ==
    /\ reaper /\ hook # "running"
    /\ reaper' = FALSE
    /\ UNCHANGED <<phase, open, job, life, hook, refused>>

-----------------------------------------------------------------------------
(* The operating system *)

\* The handle ends with its process, and the reaper with it.
ManagerDies ==
    /\ phase \notin {"idle", "dead"}
    /\ phase' = "dead" /\ open' = FALSE /\ reaper' = FALSE
    /\ life' = IF open THEN Slain(job) ELSE life
    /\ UNCHANGED <<job, hook, refused>>

systemUnchanged == UNCHANGED <<phase, open, reaper, refused>>

HookEnds ==
    /\ hook # "none"
    /\ hook' = "none"
    /\ systemUnchanged /\ UNCHANGED <<job, life>>

\* A new process belongs to the job of its parent.
Forks(p, q) ==
    /\ life[p] = "alive" /\ life[q] = "none" /\ q # Root
    /\ life' = [life EXCEPT ![q] = "alive"]
    /\ job' = IF p \in job THEN job \cup {q} ELSE job \ {q}
    /\ systemUnchanged /\ UNCHANGED hook

\* By itself, for the command, or because somebody else killed it
Exits(p) ==
    /\ life[p] # "none"
    /\ life' = [life EXCEPT ![p] = "none"]
    /\ job' = job \ {p}
    /\ systemUnchanged /\ UNCHANGED hook

-----------------------------------------------------------------------------
Worker ==
    \/ Spawn \/ Assign \/ AssignFails \/ Resume \/ ResumeFails
    \/ NoGracefulStop \/ RequestGracefulStop \/ WaitEnds
    \/ NothingToForce \/ RootEnded \/ Drop
    \/ \E granted \in BOOLEAN :
         FailedForceStop(granted) \/ FailedKill(granted) \/ ForceStop(granted) \/ KillRoot(granted)

Reaper == ReaperKills \/ ReaperFails \/ ReaperEnds

System ==
    \/ ManagerDies \/ HookEnds
    \/ \E p \in Procs : Exits(p) \/ \E q \in Procs : Forks(p, q)

Next == Worker \/ Reaper \/ System

Spec == Init /\ [][Next]_vars

\* The reaper is scheduled, and a command that was killed ends.
Fairness ==
    /\ WF_vars(Reaper)
    /\ WF_vars(hook = "overdue" /\ HookEnds)

-----------------------------------------------------------------------------
(* Properties *)

TypeOK ==
    /\ phase \in {"idle", "assign", "resume", "failed", "failedKill", "guarded", "waiting",
                  "force", "kill", "drop", "released", "dead"}
    /\ open \in BOOLEAN /\ reaper \in BOOLEAN /\ refused \in BOOLEAN
    /\ life \in [Procs -> Life] /\ job \subseteq Procs
    /\ hook \in {"none", "running", "overdue", "abandoned"}
    /\ open <=> phase \notin {"idle", "released", "dead"}
    /\ reaper => phase # "idle"

\* No process of the tool ever runs outside the job, nor after its last handle is closed:
\* neither a failed attach nor the death of the manager leaves one that nobody can stop.
JobNoEscape ==
    \A p \in Procs : life[p] = "alive" => p \in job /\ open

\* The command of a graceful stop does not outlast the stop by more than its deadline,
\* unless the manager dies before it or the system refuses what is needed to end it.
HookIsReaped == hook # "none" ~> (hook \in {"none", "abandoned"} \/ phase = "dead")

(* What GuardContract is told of the guard *)

GuardStage ==
    CASE phase = "idle" -> "none"
      [] phase \in {"assign", "resume", "failed"} -> "attaching"
      [] phase = "guarded" -> "held"
      [] phase \in {"failedKill", "waiting", "force", "kill", "drop"} -> "stopping"
      [] phase = "released" -> "released"
      [] phase = "dead" -> "crashed"

Killed == {p \in Procs : life[p] = "killed"}

GuardTree ==
    CASE phase = "idle" -> "none"
      [] phase # "idle" /\ Live # {} -> "alive"
      [] phase # "idle" /\ Live = {} /\ Killed # {} -> "doomed"
      [] phase # "idle" /\ Live = {} /\ Killed = {} -> "gone"

GuardTrouble == IF refused THEN {"refused"} ELSE {}

Contract ==
    INSTANCE GuardContract WITH stage <- GuardStage, tree <- GuardTree, trouble <- GuardTrouble

\* The job keeps what the worker relies on.
GuardContractKept == Contract!Spec

=============================================================================
