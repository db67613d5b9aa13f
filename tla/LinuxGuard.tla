----------------------------- MODULE LinuxGuard -----------------------------
(***************************************************************************)
(* The guard the worker of a tool holds on Linux, the process tree behind   *)
(* it, and the watchdog: a second process that stops the tree when the      *)
(* manager dies without doing so itself.                                    *)
(*                                                                         *)
(* The manager and the watchdog share two pipes.  The watchdog writes one   *)
(* byte when it is ready; on the control pipe the manager writes the byte D *)
(* to send it home, and the end of that pipe, be it closed by the guard or  *)
(* by the death of the manager, tells it to stop the tree.                  *)
(*                                                                         *)
(* The tree is known by its process group and, where systemd provides one,  *)
(* by a scope.  A process may leave the group, never the scope.  SIGTERM is *)
(* heeded or ignored; a process that heeds it, or is killed, ends.          *)
(***************************************************************************)
EXTENDS FiniteSets

CONSTANTS
    Procs,      \* the processes the tree may consist of
    Root,       \* the one the manager launches
    Faults      \* bound: the faults that happen, each at most once

\* "lost": the watchdog is killed by somebody; "slow": it is not ready in time;
\* "unspawned": it cannot be launched; "unscoped": the scope is not ready in time;
\* "refused": systemctl kill fails.
FaultKinds == {"lost", "slow", "unspawned", "unscoped", "refused"}

ASSUME RootAssumption == Root \in Procs
ASSUME FaultAssumption == Faults \subseteq FaultKinds

VARIABLES
    enabled,    \* SystemdSupport::enabled
    scope,      \* ProcessGroup::scope: "off", "pending" or "on" (its cgroup is known)
    phase,      \* what the worker is doing with the guard; "dead": the manager died
    attached,   \* attach is over: spawn_watchdog is called from check_health
    handle,     \* ProcessGroup::watchdog is Some
    watchdog,   \* the watchdog process
    ready,      \* the readiness byte was written
    control,    \* the control pipe: "open", "disarm" (a D was written) or "closed"
    life,       \* the processes of the tree
    own,        \* those in a process group of their own
    faults      \* history: the faults so far

treeVars == <<life, own>>
dogVars  == <<watchdog, ready, control>>
vars == <<enabled, scope, phase, attached, handle, dogVars, treeVars, faults>>

-----------------------------------------------------------------------------
\* "told": ending on a SIGTERM; "killed": not gone yet; "zombie": not waited for.
Life == {"none", "alive", "told", "killed", "zombie"}

Live == {p \in Procs : life[p] \in {"alive", "told", "killed"}}

InGroup == {p \in Procs : life[p] # "none" /\ p \notin own}
Managed == {p \in Live : p \notin own \/ scope = "on"}

\* managed_tree_running, and is_tree_running: kill(-pgid, 0) finds a zombie too, the
\* scope is populated by live processes only.
TreeRunning == InGroup # {} \/ (scope = "on" /\ Live # {})

\* is_tree_running().unwrap_or(true): a query that fails is taken for a running tree.
Answers == {a \in BOOLEAN : a \/ ~TreeRunning}

Fault(kind) == kind \in Faults \ faults /\ faults' = faults \cup {kind}

\* signal_managed_tree: the processes it reaches, when signal_scope succeeds or not.
Reached(scoped) == {p \in Live : p \notin own \/ (scope # "off" /\ scoped)}

SignalScope(scoped) ==
    IF scoped THEN UNCHANGED faults ELSE scope # "off" /\ Fault("refused")

\* What becomes of the tree when the signal reaches those processes.
Terminated(reached) ==
    {[p \in Procs |-> IF p \in heeding THEN "told" ELSE life[p]] :
        heeding \in SUBSET {p \in reached : life[p] = "alive"}}

Slain(reached) == [p \in Procs |-> IF p \in reached THEN "killed" ELSE life[p]]

-----------------------------------------------------------------------------
Init ==
    /\ enabled \in BOOLEAN /\ scope = "off"
    /\ phase = "idle" /\ attached = FALSE /\ handle = FALSE
    /\ watchdog = "none" /\ ready = FALSE /\ control = "closed"
    /\ life = [p \in Procs |-> "none"] /\ own = {}
    /\ faults = {}

\* prepare_command, and the worker's Command::spawn
Spawn ==
    /\ phase = "idle"
    /\ scope' = IF enabled THEN "pending" ELSE "off"
    /\ life' = [life EXCEPT ![Root] = "alive"]
    /\ phase' = "attach"
    /\ UNCHANGED <<enabled, attached, handle, dogVars, own, faults>>

(* attach *)

AttachToScope ==
    /\ phase = "attach"
    /\ scope' = IF scope = "off" THEN "off" ELSE "on"
    /\ phase' = "arm"
    /\ UNCHANGED <<enabled, attached, handle, dogVars, treeVars, faults>>

ScopeNotReady ==
    /\ phase = "attach" /\ scope = "pending"
    /\ Fault("unscoped")
    /\ enabled' = FALSE
    /\ phase' = "failed"
    /\ UNCHANGED <<scope, attached, handle, dogVars, treeVars>>

(* spawn_watchdog, called by attach and by check_health *)

\* Where an error of it leads: start_process fails, or the worker logs it and goes on.
AfterFailure == IF attached THEN "guarded" ELSE "failed"

SpawnWatchdog ==
    /\ phase = "arm"
    /\ watchdog' = "starting" /\ ready' = FALSE /\ control' = "open"
    /\ phase' = "await"
    /\ UNCHANGED <<enabled, scope, attached, handle, treeVars, faults>>

\* It cannot be launched; or the thread that reads its pipe cannot be, and the watchdog ends
\* when it writes to that pipe.
SpawnWatchdogFails ==
    /\ phase = "arm"
    /\ Fault("unspawned")
    /\ phase' = AfterFailure
    /\ UNCHANGED <<enabled, scope, attached, handle, dogVars, treeVars>>

\* Mutant: the control pipe is not kept with the handle.
AwaitReadyDropsControl ==
    /\ phase = "await" /\ ready
    /\ handle' = TRUE /\ attached' = TRUE
    /\ control' = "closed"
    /\ phase' = "guarded"
    /\ UNCHANGED <<enabled, scope, watchdog, ready, treeVars, faults>>

AwaitReady ==
    /\ phase = "await" /\ ready
    /\ handle' = TRUE /\ attached' = TRUE
    /\ phase' = "guarded"
    /\ UNCHANGED <<enabled, scope, dogVars, treeVars, faults>>

\* recv_timeout runs out, or the pipe ended without the byte: drop(control) comes first.
AwaitFails ==
    /\ phase = "await" /\ ~ready
    /\ \/ watchdog = "none" /\ UNCHANGED faults
       \/ watchdog # "none" /\ Fault("slow")
    /\ control' = "closed"
    /\ phase' = "dismiss"
    /\ UNCHANGED <<enabled, scope, attached, handle, watchdog, ready, treeVars>>

\* Then the watchdog is killed; it may have read the end of its pipe in between.
DismissWatchdog ==
    /\ phase = "dismiss"
    /\ watchdog' = "none"
    /\ phase' = AfterFailure
    /\ UNCHANGED <<enabled, scope, attached, handle, ready, control, treeVars, faults>>

\* The worker's answer to a failed attach: force_stop and child.kill, results ignored;
\* the guard is dropped without a watchdog.
AbandonAttach(scoped) ==
    /\ phase = "failed"
    /\ SignalScope(scoped)
    /\ life' = Slain(Reached(scoped) \cup ({Root} \cap Live))
    /\ phase' = "released"
    /\ UNCHANGED <<enabled, scope, attached, handle, dogVars, own>>

(* check_health *)

\* Mutant: a watchdog that is missing is not replaced.
CheckHealthMissingIgnored ==
    /\ phase = "guarded" /\ ~handle
    /\ UNCHANGED vars

CheckHealthMissing ==
    /\ phase = "guarded" /\ ~handle
    /\ TRUE \in Answers
    /\ phase' = "arm"
    /\ UNCHANGED <<enabled, scope, attached, handle, dogVars, treeVars, faults>>

\* Mutant: the handle of a watchdog that ended is kept while another is launched.
CheckHealthExitedKeeps(running) ==
    /\ phase = "guarded" /\ handle /\ watchdog = "none"
    /\ running \in Answers
    /\ phase' = IF running THEN "arm" ELSE "guarded"
    /\ UNCHANGED <<enabled, scope, attached, handle, dogVars, treeVars, faults>>

CheckHealthExited(running) ==
    /\ phase = "guarded" /\ handle /\ watchdog = "none"
    /\ running \in Answers
    /\ handle' = FALSE
    /\ phase' = IF running THEN "arm" ELSE "guarded"
    /\ UNCHANGED <<enabled, scope, attached, dogVars, treeVars, faults>>

(* The stop path of the worker: graceful, forced, then the guard is dropped *)

\* request_graceful_stop
RequestGracefulStop(scoped) ==
    /\ phase = "guarded"
    /\ SignalScope(scoped)
    /\ life' \in Terminated(Reached(scoped))
    /\ phase' = "stopping"
    /\ UNCHANGED <<enabled, scope, attached, handle, dogVars, own>>

\* Mutant: the forced stop signals the process group only.
ForceStopGroupOnly(scoped) ==
    /\ phase \in {"guarded", "stopping"}
    /\ SignalScope(scoped)
    /\ life' = Slain(InGroup \cap Live)
    /\ phase' = "kill"
    /\ UNCHANGED <<enabled, scope, attached, handle, dogVars, own>>

ForceStop(scoped) ==
    /\ phase \in {"guarded", "stopping"}
    /\ SignalScope(scoped)
    /\ life' = Slain(Reached(scoped))
    /\ phase' = "kill"
    /\ UNCHANGED <<enabled, scope, attached, handle, dogVars, own>>

\* Nothing of the tree is found: there is nothing to force.
NothingToForce ==
    /\ phase \in {"guarded", "stopping"}
    /\ FALSE \in Answers
    /\ phase' = "kill"
    /\ UNCHANGED <<enabled, scope, attached, handle, dogVars, treeVars, faults>>

\* child.kill(), for a root that has not ended: it may have left the group.
KillRoot ==
    /\ phase = "kill"
    /\ life' = Slain({Root} \cap Live)
    /\ phase' = "drop"
    /\ UNCHANGED <<enabled, scope, attached, handle, dogVars, own, faults>>

\* The worker waits for the root, in its loop or in a detached reaper.
ReapRoot ==
    /\ phase \in {"guarded", "stopping", "kill", "drop", "disarm", "released"}
    /\ life[Root] = "zombie"
    /\ life' = [life EXCEPT ![Root] = "none"]
    /\ UNCHANGED <<enabled, scope, phase, attached, handle, dogVars, own, faults>>

(* drop *)

DropUnguarded ==
    /\ phase = "drop" /\ ~handle
    /\ phase' = "released"
    /\ UNCHANGED <<enabled, scope, attached, handle, dogVars, treeVars, faults>>

\* Mutant: the watchdog of a tree that still runs is left waiting.
DropKeepsControl ==
    /\ phase = "drop" /\ handle /\ TRUE \in Answers
    /\ handle' = FALSE
    /\ phase' = "released"
    /\ UNCHANGED <<enabled, scope, attached, dogVars, treeVars, faults>>

\* The tree still runs: the watchdog is left to stop it.
DropHandsOver ==
    /\ phase = "drop" /\ handle /\ TRUE \in Answers
    /\ handle' = FALSE
    /\ control' = "closed"
    /\ phase' = "released"
    /\ UNCHANGED <<enabled, scope, attached, watchdog, ready, treeVars, faults>>

\* Mutant: the watchdog is sent home without a look at the tree.
DropDisarmsAlways ==
    /\ phase = "drop" /\ handle
    /\ handle' = FALSE
    /\ control' = "disarm"
    /\ phase' = "disarm"
    /\ UNCHANGED <<enabled, scope, attached, watchdog, ready, treeVars, faults>>

DropDisarms ==
    /\ phase = "drop" /\ handle /\ FALSE \in Answers
    /\ handle' = FALSE
    /\ control' = "disarm"
    /\ phase' = "disarm"
    /\ UNCHANGED <<enabled, scope, attached, watchdog, ready, treeVars, faults>>

\* The watchdog exited, or is killed after CHILD_REAP_TIMEOUT.
DropReapsWatchdog ==
    /\ phase = "disarm"
    /\ watchdog' = "none"
    /\ phase' = "released"
    /\ UNCHANGED <<enabled, scope, attached, handle, ready, control, treeVars, faults>>

-----------------------------------------------------------------------------
(* run_process_watchdog *)

managerUnchanged == UNCHANGED <<enabled, scope, phase, attached, handle, own>>

\* The byte R is written.
WatchdogReady ==
    /\ watchdog = "starting" /\ phase # "dead"
    /\ watchdog' = "watching" /\ ready' = TRUE
    /\ managerUnchanged /\ UNCHANGED <<control, life, faults>>

\* Nobody is left to read it: the write fails, and the watchdog ends with that error.
WatchdogUnheard ==
    /\ watchdog = "starting" /\ phase = "dead"
    /\ watchdog' = "none"
    /\ managerUnchanged /\ UNCHANGED <<ready, control, life, faults>>

WatchdogDisarmed ==
    /\ watchdog = "watching" /\ control = "disarm"
    /\ watchdog' = "none"
    /\ managerUnchanged /\ UNCHANGED <<ready, control, life, faults>>

\* The end of the control pipe; stop_managed_tree begins.
WatchdogTerminates(scoped) ==
    /\ watchdog = "watching" /\ control = "closed"
    /\ SignalScope(scoped)
    /\ life' \in Terminated(Reached(scoped))
    /\ watchdog' = "terminating"
    /\ managerUnchanged /\ UNCHANGED <<ready, control>>

WatchdogFindsNone ==
    /\ watchdog = "terminating" /\ ~TreeRunning
    /\ watchdog' = "none"
    /\ managerUnchanged /\ UNCHANGED <<ready, control, life, faults>>

\* Mutant: the watchdog sends SIGTERM a second time.
WatchdogAsksAgain(scoped) ==
    /\ watchdog = "terminating"
    /\ SignalScope(scoped)
    /\ life' \in Terminated(Reached(scoped))
    /\ watchdog' = "none"
    /\ managerUnchanged /\ UNCHANGED <<ready, control>>

\* The deadline is over.
WatchdogKills(scoped) ==
    /\ watchdog = "terminating"
    /\ SignalScope(scoped)
    /\ life' = Slain(Reached(scoped))
    /\ watchdog' = "none"
    /\ managerUnchanged /\ UNCHANGED <<ready, control>>

-----------------------------------------------------------------------------
(* The operating system, and what befalls the processes *)

\* The manager is killed, or crashes: its pipes end, the root is sent SIGTERM, and init
\* waits for what the manager no longer can.
ManagerDies ==
    /\ phase \notin {"idle", "dead"}
    /\ phase' = "dead" /\ handle' = FALSE
    /\ control' = IF control = "open" THEN "closed" ELSE control
    /\ life' \in {[l EXCEPT ![Root] = IF @ = "zombie" THEN "none" ELSE @] :
                     l \in Terminated({Root})}
    /\ UNCHANGED <<enabled, scope, attached, watchdog, ready, own, faults>>

WatchdogKilled ==
    /\ watchdog # "none"
    /\ Fault("lost")
    /\ watchdog' = "none"
    /\ managerUnchanged /\ UNCHANGED <<ready, control, life>>

systemUnchanged ==
    UNCHANGED <<enabled, scope, phase, attached, handle, dogVars, faults>>

Forks(p, q) ==
    /\ life[p] = "alive" /\ life[q] = "none" /\ q # Root
    /\ life' = [life EXCEPT ![q] = "alive"]
    /\ own' = IF p \in own THEN own \cup {q} ELSE own \ {q}
    /\ systemUnchanged

LeavesGroup(p) ==
    /\ life[p] = "alive" /\ p \notin own
    /\ own' = own \cup {p}
    /\ systemUnchanged /\ UNCHANGED life

\* Only the manager waits for the root; init, or its parent, for every other process.
ExitIsSeen(p) ==
    life' = [life EXCEPT ![p] = IF p = Root /\ phase # "dead" THEN "zombie" ELSE "none"]

ExitsByItself(p) ==
    /\ life[p] = "alive"
    /\ ExitIsSeen(p)
    /\ systemUnchanged /\ UNCHANGED own

ExitsOnSignal(p) ==
    /\ life[p] \in {"told", "killed"}
    /\ ExitIsSeen(p)
    /\ systemUnchanged /\ UNCHANGED own

-----------------------------------------------------------------------------
\* What the worker's thread does without being asked to, timeouts included
Proceed ==
    \/ AttachToScope \/ ScopeNotReady
    \/ SpawnWatchdog \/ SpawnWatchdogFails \/ AwaitReady \/ AwaitFails \/ DismissWatchdog
    \/ CheckHealthMissing
    \/ \E running \in BOOLEAN : CheckHealthExited(running)
    \/ \E scoped \in BOOLEAN :
         \/ AbandonAttach(scoped)
         \/ phase = "stopping" /\ ForceStop(scoped)
    \/ phase = "stopping" /\ NothingToForce
    \/ KillRoot \/ DropUnguarded \/ DropHandsOver \/ DropDisarms \/ DropReapsWatchdog

\* The launch, and the decision to stop the tool or to let go of one that ended
Decide ==
    \/ Spawn \/ ReapRoot
    \/ \E scoped \in BOOLEAN :
         RequestGracefulStop(scoped) \/ (phase = "guarded" /\ ForceStop(scoped))
    \/ phase = "guarded" /\ NothingToForce

Watchdog ==
    \/ WatchdogReady \/ WatchdogUnheard \/ WatchdogDisarmed \/ WatchdogFindsNone
    \/ \E scoped \in BOOLEAN : WatchdogTerminates(scoped) \/ WatchdogKills(scoped)

System ==
    \/ ManagerDies \/ WatchdogKilled
    \/ \E p \in Procs :
         \/ LeavesGroup(p) \/ ExitsByItself(p) \/ ExitsOnSignal(p)
         \/ \E q \in Procs : Forks(p, q)

Next == Proceed \/ Decide \/ Watchdog \/ System

Spec == Init /\ [][Next]_vars

\* The worker's thread and the watchdog are scheduled, their waits have timeouts, and a
\* process that was killed, or heeds SIGTERM, ends.  No process ends by itself for sure.
Fairness ==
    /\ WF_vars(Proceed) /\ WF_vars(Watchdog)
    /\ \A p \in Procs : WF_vars(ExitsOnSignal(p))

FairSpec == Spec /\ Fairness

-----------------------------------------------------------------------------
(* Properties *)

\* Every variable has its type; a process other than the root is no zombie, the guard holds
\* no handle while it launches a watchdog, and one that watches has said so.
TypeOK ==
    /\ enabled \in BOOLEAN /\ scope \in {"off", "pending", "on"}
    /\ phase \in {"idle", "attach", "arm", "await", "dismiss", "failed", "guarded",
                  "stopping", "kill", "drop", "disarm", "released", "dead"}
    /\ attached \in BOOLEAN /\ handle \in BOOLEAN
    /\ watchdog \in {"none", "starting", "watching", "terminating"}
    /\ ready \in BOOLEAN /\ control \in {"open", "disarm", "closed"}
    /\ life \in [Procs -> Life]
    /\ \A p \in Procs \ {Root} : life[p] # "zombie"
    /\ handle => attached /\ phase \in {"guarded", "stopping", "kill", "drop", "dead"}
    /\ watchdog \in {"watching", "terminating"} => ready
    /\ own \subseteq Procs /\ faults \subseteq Faults

\* The watchdog is sent home only when nothing is left to watch, while processes fork, leave
\* their group and end.  drop looks at the tree and writes the byte afterwards; since a tree
\* that was found gone stays gone, the two may be one step.
DisarmOnlyEmptyTree == control = "disarm" => Managed = {}

\* While the manager lives and nobody stops the tool, no signal reaches it, through
\* launches, losses and replacements of the watchdog, except from one that was given up
\* as too slow to be ready.
NoUnaskedSignal ==
    phase \in {"attach", "arm", "await", "dismiss", "failed", "guarded"} /\ "slow" \notin faults
        => \A p \in Procs : life[p] \notin {"told", "killed"}

(* What GuardContract is told of the guard *)

GuardStage ==
    CASE phase = "idle" -> "none"
      [] phase = "released" -> "released"
      [] phase = "dead" -> "crashed"
      [] phase \in {"stopping", "kill", "drop", "disarm"} -> "stopping"
      [] phase \in {"arm", "await", "dismiss", "guarded"} /\ attached -> "held"
      [] phase \in {"arm", "await", "dismiss", "guarded"} /\ ~attached -> "attaching"
      [] phase \in {"attach", "failed"} -> "attaching"

\* The processes the guard can reach and nobody has killed.
Unharmed == {p \in Managed : life[p] # "killed"}

GuardTree ==
    CASE phase = "idle" -> "none"
      [] phase # "idle" /\ Unharmed # {} -> "alive"
      [] phase # "idle" /\ Unharmed = {} /\ Managed # {} -> "doomed"
      [] phase # "idle" /\ Managed = {} -> "gone"

GuardTrouble ==
    (IF "refused" \in faults THEN {"refused"} ELSE {})
        \cup (IF "slow" \in faults THEN {"late"} ELSE {})

Contract ==
    INSTANCE GuardContract WITH stage <- GuardStage, tree <- GuardTree, trouble <- GuardTrouble

\* The guard keeps what the worker relies on, through forks, processes that leave their
\* group, failed attaches and replaced watchdogs: above all, it is let go only when every
\* process of the tree was killed, unless the system refused.
GuardContractKept == Contract!Spec

\* A manager that dies leaves no process behind if the watchdog was watching: the end of
\* the control pipe makes it stop the tree, whatever SIGTERM is worth.
CrashCleansUp ==
    (phase = "dead" /\ watchdog \in {"watching", "terminating"})
        ~> (Managed = {} \/ "lost" \in faults \/ "refused" \in faults)

\* A forced stop that the system refused once is made good by the watchdog the guard
\* leaves behind.
ReleasedTreeEnds ==
    (phase = "released" /\ watchdog \in {"watching", "terminating"})
        ~> (Managed = {} \/ "lost" \in faults)

\* check_health replaces a watchdog that is gone, or could not be launched, as long as
\* the tool runs and is not being stopped.
ProtectionRestored ==
    (phase = "guarded" /\ watchdog = "none" /\ TreeRunning)
        ~> (watchdog = "watching" \/ ~TreeRunning \/ phase \in {"kill", "released", "dead"})

\* The death of the manager never leaves a process behind.
CrashAlwaysCleansUp == phase = "dead" ~> Managed = {}

=============================================================================
