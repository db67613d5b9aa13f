-------------------------- MODULE LinuxGuardProofs --------------------------
(***************************************************************************)
(* Safety proofs about LinuxGuard, for every set of processes and of        *)
(* faults.  While nobody stops the tool the watchdog's pipe is open, unless *)
(* it was given up as too slow; once the tree was found gone, or was        *)
(* killed, what is left cannot fork back into reach.                        *)
(***************************************************************************)
EXTENDS LinuxGuard, TLAPS

-----------------------------------------------------------------------------
(* The inductive invariant *)

\* The phases in which nobody stops the tool.
Calm == {"attach", "arm", "await", "dismiss", "failed", "guarded"}

IdleInv ==
    phase = "idle" => watchdog = "none" /\ own = {} /\ \A p \in Procs : life[p] = "none"

\* A watchdog that may still watch sees its pipe open, and nobody has signalled the tree.
CalmInv ==
    phase \in Calm /\ "slow" \notin faults =>
        /\ watchdog # "terminating"
        /\ watchdog # "none" => control = "open"
        /\ \A p \in Procs : life[p] \notin {"told", "killed"}

\* The byte D is written when the tree was found gone, and no guard is armed after that.
DisarmInv ==
    control = "disarm" => phase \in {"disarm", "released", "dead"} /\ Managed = {}

\* A forced stop kills all that the guard can reach, unless it was refused.
StopInv ==
    phase \in {"kill", "drop", "disarm"} =>
        Unharmed = {} \/ "refused" \in faults

Inv == TypeOK /\ IdleInv /\ CalmInv /\ DisarmInv /\ StopInv

-----------------------------------------------------------------------------
(* What signals do to the tree *)

\* SIGTERM changes processes that were alive, and those only to ones that heed it.
LEMMA TerminatedTree ==
    ASSUME life \in [Procs -> Life], NEW reached, NEW l \in Terminated(reached)
    PROVE  /\ l \in [Procs -> Life]
           /\ \A p \in Procs : l[p] = life[p] \/ (life[p] = "alive" /\ l[p] = "told")
  BY DEF Terminated, Life

\* A query that finds nothing leaves nothing the guard could reach.
LEMMA NothingFound ==
    ASSUME FALSE \in Answers
    PROVE  Managed = {}
  BY DEF Answers, TreeRunning, InGroup, Managed, Live

\* The death of the manager leaves every process what it was, or asked to end.
LEMMA DeathTree ==
    ASSUME life \in [Procs -> Life], ManagerDies
    PROVE  /\ life' \in [Procs -> Life]
           /\ \A p \in Procs :
                \/ life'[p] = life[p]
                \/ life[p] = "alive" /\ life'[p] = "told"
                \/ life[p] = "zombie" /\ life'[p] = "none"
  <1>1. PICK l \in Terminated({Root}) :
          life' = [l EXCEPT ![Root] = IF @ = "zombie" THEN "none" ELSE @]
    BY DEF ManagerDies
  <1>2. /\ l \in [Procs -> Life]
        /\ \A p \in Procs : l[p] = life[p] \/ (life[p] = "alive" /\ l[p] = "told")
    BY TerminatedTree
  <1> QED BY <1>1, <1>2 DEF Life

\* The scope does not change once the launched process is attached to it.
LEMMA ScopeKept ==
    ASSUME TypeOK, [Next]_vars, phase \notin {"idle", "attach"}
    PROVE  UNCHANGED scope
  BY DEF Next, Proceed, Decide, Watchdog, System, vars, TypeOK,
       AttachToScope, ScopeNotReady, SpawnWatchdog, SpawnWatchdogFails, AwaitReady, AwaitFails,
       DismissWatchdog, AfterFailure, AbandonAttach, CheckHealthMissing, CheckHealthExited,
       RequestGracefulStop, ForceStop, NothingToForce, KillRoot, ReapRoot, Spawn, DropUnguarded,
       DropHandsOver, DropDisarms, DropReapsWatchdog, WatchdogReady, WatchdogUnheard,
       WatchdogDisarmed, WatchdogTerminates, WatchdogFindsNone, WatchdogKills, ManagerDies,
       WatchdogKilled, Forks, LeavesGroup, ExitsByItself, ExitsOnSignal, systemUnchanged,
       managerUnchanged

\* A tree that was found gone stays gone, and one whose processes were all killed stays so:
\* who could fork is out of the guard's reach, and what it forks is too.
LEMMA TreeEnds ==
    ASSUME TypeOK, [Next]_vars, phase # "idle", UNCHANGED scope
    PROVE  /\ Managed = {} => Managed' = {}
           /\ Unharmed = {} => Unharmed' = {}
  <1>1. \/ UNCHANGED treeVars
        \/ \E reached \in SUBSET Live : life' = Slain(reached) /\ UNCHANGED own
        \/ \E reached \in SUBSET Live : life' \in Terminated(reached) /\ UNCHANGED own
        \/ ManagerDies
        \/ life[Root] = "zombie" /\ life' = [life EXCEPT ![Root] = "none"] /\ UNCHANGED own
        \/ \E p \in Procs : ExitsByItself(p) \/ ExitsOnSignal(p) \/ LeavesGroup(p)
        \/ \E p, q \in Procs : Forks(p, q)
    BY DEF Next, Proceed, Decide, Watchdog, System, vars, treeVars, Reached, Live,
       AttachToScope, ScopeNotReady, SpawnWatchdog, SpawnWatchdogFails, AwaitReady, AwaitFails,
       DismissWatchdog, AfterFailure, AbandonAttach, CheckHealthMissing, CheckHealthExited,
       RequestGracefulStop, ForceStop, NothingToForce, KillRoot, ReapRoot, Spawn, DropUnguarded,
       DropHandsOver, DropDisarms, DropReapsWatchdog, WatchdogReady, WatchdogUnheard,
       WatchdogDisarmed, WatchdogTerminates, WatchdogFindsNone, WatchdogKills,
       WatchdogKilled, managerUnchanged
  <1> USE DEF TypeOK, Life, Managed, Unharmed, Live
  <1>2. CASE UNCHANGED treeVars
    BY <1>2 DEF treeVars
  <1>3. ASSUME NEW reached \in SUBSET Live, life' = Slain(reached), UNCHANGED own
        PROVE  (Managed = {} => Managed' = {}) /\ (Unharmed = {} => Unharmed' = {})
    BY <1>3 DEF Slain
  <1>4. ASSUME NEW reached \in SUBSET Live, life' \in Terminated(reached), UNCHANGED own
        PROVE  (Managed = {} => Managed' = {}) /\ (Unharmed = {} => Unharmed' = {})
    <2>1. \A p \in Procs : life'[p] = life[p] \/ (life[p] = "alive" /\ life'[p] = "told")
      BY <1>4, TerminatedTree
    <2> QED BY <1>4, <2>1
  <1>5. CASE ManagerDies
    <2>1. \A p \in Procs :
             \/ life'[p] = life[p]
             \/ life[p] = "alive" /\ life'[p] = "told"
             \/ life[p] = "zombie" /\ life'[p] = "none"
      BY <1>5, DeathTree
    <2> QED BY <1>5, <2>1 DEF ManagerDies
  <1>6. CASE life[Root] = "zombie" /\ life' = [life EXCEPT ![Root] = "none"] /\ UNCHANGED own
    BY <1>6
  <1>7. ASSUME NEW p \in Procs, ExitsByItself(p) \/ ExitsOnSignal(p) \/ LeavesGroup(p)
        PROVE  (Managed = {} => Managed' = {}) /\ (Unharmed = {} => Unharmed' = {})
    BY <1>7 DEF ExitsByItself, ExitsOnSignal, ExitIsSeen, LeavesGroup
  <1>8. ASSUME NEW p \in Procs, NEW q \in Procs, Forks(p, q)
        PROVE  (Managed = {} => Managed' = {}) /\ (Unharmed = {} => Unharmed' = {})
    BY <1>8 DEF Forks
  <1> QED BY <1>1, <1>2, <1>3, <1>4, <1>5, <1>6, <1>7, <1>8

-----------------------------------------------------------------------------
(* The invariant holds *)

LEMMA InitInv == Init => Inv
  BY DEF Init, Inv, TypeOK, Life, IdleInv, CalmInv, Calm, DisarmInv, StopInv

\* Type correctness, action by action.
LEMMA NextTypeOK == TypeOK /\ [Next]_vars => TypeOK'
  <1> SUFFICES ASSUME TypeOK, [Next]_vars
               PROVE  TypeOK'
    OBVIOUS
  <1> USE RootAssumption DEF TypeOK, Life, Live, Slain, dogVars, treeVars, Fault
  <1>1. CASE Spawn
    BY <1>1 DEF Spawn
  <1>2. CASE AttachToScope
    BY <1>2 DEF AttachToScope
  <1>3. CASE ScopeNotReady
    BY <1>3 DEF ScopeNotReady
  <1>4. CASE SpawnWatchdog
    BY <1>4 DEF SpawnWatchdog
  <1>5. CASE SpawnWatchdogFails
    BY <1>5 DEF SpawnWatchdogFails, AfterFailure
  <1>6. CASE AwaitReady
    BY <1>6 DEF AwaitReady
  <1>7. CASE AwaitFails
    BY <1>7 DEF AwaitFails
  <1>8. CASE DismissWatchdog
    BY <1>8 DEF DismissWatchdog, AfterFailure
  <1>9. ASSUME NEW scoped \in BOOLEAN, AbandonAttach(scoped)
       PROVE  TypeOK'
    BY <1>9 DEF AbandonAttach, SignalScope, Reached
  <1>10. CASE CheckHealthMissing
    BY <1>10 DEF CheckHealthMissing
  <1>11. ASSUME NEW running \in BOOLEAN, CheckHealthExited(running)
        PROVE  TypeOK'
    BY <1>11 DEF CheckHealthExited
  <1>12. ASSUME NEW scoped \in BOOLEAN, RequestGracefulStop(scoped)
        PROVE  TypeOK'
    <2>1. /\ life' \in [Procs -> Life]
          /\ \A p \in Procs : life'[p] = life[p] \/ (life[p] = "alive" /\ life'[p] = "told")
      BY <1>12, TerminatedTree DEF RequestGracefulStop
    <2> QED BY <1>12, <2>1 DEF RequestGracefulStop, SignalScope
  <1>13. ASSUME NEW scoped \in BOOLEAN, ForceStop(scoped)
        PROVE  TypeOK'
    BY <1>13 DEF ForceStop, SignalScope, Reached
  <1>14. CASE NothingToForce
    BY <1>14 DEF NothingToForce
  <1>15. CASE KillRoot
    BY <1>15 DEF KillRoot
  <1>16. CASE ReapRoot
    BY <1>16 DEF ReapRoot
  <1>17. CASE DropUnguarded
    BY <1>17 DEF DropUnguarded
  <1>18. CASE DropHandsOver
    BY <1>18 DEF DropHandsOver
  <1>19. CASE DropDisarms
    BY <1>19 DEF DropDisarms
  <1>20. CASE DropReapsWatchdog
    BY <1>20 DEF DropReapsWatchdog
  <1>21. CASE WatchdogReady
    BY <1>21 DEF WatchdogReady, managerUnchanged
  <1>22. CASE WatchdogUnheard
    BY <1>22 DEF WatchdogUnheard, managerUnchanged
  <1>23. CASE WatchdogDisarmed
    BY <1>23 DEF WatchdogDisarmed, managerUnchanged
  <1>24. ASSUME NEW scoped \in BOOLEAN, WatchdogTerminates(scoped)
        PROVE  TypeOK'
    <2>1. /\ life' \in [Procs -> Life]
          /\ \A p \in Procs : life'[p] = life[p] \/ (life[p] = "alive" /\ life'[p] = "told")
      BY <1>24, TerminatedTree DEF WatchdogTerminates
    <2> QED BY <1>24, <2>1 DEF WatchdogTerminates, SignalScope, managerUnchanged
  <1>25. CASE WatchdogFindsNone
    BY <1>25 DEF WatchdogFindsNone, managerUnchanged
  <1>26. ASSUME NEW scoped \in BOOLEAN, WatchdogKills(scoped)
        PROVE  TypeOK'
    BY <1>26 DEF WatchdogKills, SignalScope, Reached, managerUnchanged
  <1>27. CASE ManagerDies
    BY <1>27, DeathTree DEF ManagerDies
  <1>28. CASE WatchdogKilled
    BY <1>28 DEF WatchdogKilled, managerUnchanged
  <1>29. ASSUME NEW p \in Procs, ExitsByItself(p)
        PROVE  TypeOK'
    BY <1>29 DEF ExitsByItself, ExitIsSeen, systemUnchanged
  <1>30. ASSUME NEW p \in Procs, ExitsOnSignal(p)
        PROVE  TypeOK'
    BY <1>30 DEF ExitsOnSignal, ExitIsSeen, systemUnchanged
  <1>31. ASSUME NEW p \in Procs, LeavesGroup(p)
        PROVE  TypeOK'
    BY <1>31 DEF LeavesGroup, systemUnchanged
  <1>32. ASSUME NEW p \in Procs, NEW q \in Procs, Forks(p, q)
        PROVE  TypeOK'
    BY <1>32 DEF Forks, systemUnchanged
  <1>33. CASE UNCHANGED vars
    BY <1>33 DEF vars
  <1> QED
    BY <1>1, <1>2, <1>3, <1>4, <1>5, <1>6, <1>7, <1>8, <1>9, <1>10, <1>11, <1>12, <1>13, <1>14,
       <1>15, <1>16, <1>17, <1>18, <1>19, <1>20, <1>21, <1>22, <1>23, <1>24, <1>25, <1>26,
       <1>27, <1>28, <1>29, <1>30, <1>31, <1>32, <1>33
       DEF Next, Proceed, Decide, Watchdog, System

\* Before the launch there is nothing for anybody to do.
LEMMA IdleStep ==
    ASSUME IdleInv, [Next]_vars, phase = "idle"
    PROVE  Spawn \/ UNCHANGED vars
  <1>1. watchdog = "none" /\ \A p \in Procs : life[p] = "none"
    BY DEF IdleInv
  <1>2. ~System
    BY <1>1 DEF System, ManagerDies, WatchdogKilled, Forks, LeavesGroup, ExitsByItself, ExitsOnSignal
  <1>3. ~Watchdog
    BY <1>1 DEF Watchdog, WatchdogReady, WatchdogUnheard, WatchdogDisarmed, WatchdogTerminates,
       WatchdogFindsNone, WatchdogKills
  <1>4. ~Proceed
    BY DEF Proceed, AttachToScope, ScopeNotReady, SpawnWatchdog, SpawnWatchdogFails, AwaitReady,
       AwaitFails, DismissWatchdog, AbandonAttach, CheckHealthMissing, CheckHealthExited, ForceStop,
       NothingToForce, KillRoot, DropUnguarded, DropHandsOver, DropDisarms, DropReapsWatchdog
  <1>5. Decide => Spawn
    BY DEF Decide, ReapRoot, RequestGracefulStop, ForceStop, NothingToForce
  <1> QED BY <1>2, <1>3, <1>4, <1>5 DEF Next

LEMMA NextIdle == IdleInv /\ [Next]_vars => IdleInv'
  <1> SUFFICES ASSUME IdleInv, [Next]_vars, phase' = "idle"
               PROVE  IdleInv'
    BY DEF IdleInv
  <1>1. phase = "idle"
    BY DEF Next, Proceed, Decide, Watchdog, System, vars, dogVars,
       AttachToScope, ScopeNotReady, SpawnWatchdog, SpawnWatchdogFails, AwaitReady, AwaitFails,
       DismissWatchdog, AfterFailure, AbandonAttach, CheckHealthMissing, CheckHealthExited,
       RequestGracefulStop, ForceStop, NothingToForce, KillRoot, ReapRoot, Spawn, DropUnguarded,
       DropHandsOver, DropDisarms, DropReapsWatchdog, WatchdogReady, WatchdogUnheard,
       WatchdogDisarmed, WatchdogTerminates, WatchdogFindsNone, WatchdogKills, ManagerDies,
       WatchdogKilled, Forks, LeavesGroup, ExitsByItself, ExitsOnSignal, systemUnchanged,
       managerUnchanged
  <1>2. UNCHANGED vars
    BY <1>1, IdleStep DEF Spawn
  <1> QED BY <1>2 DEF IdleInv, vars, dogVars, treeVars

\* Faults are not forgotten.
LEMMA FaultsGrow == [Next]_vars => faults \subseteq faults'
  BY DEF Fault, SignalScope, Next, Proceed, Decide, Watchdog, System, vars, dogVars,
       AttachToScope, ScopeNotReady, SpawnWatchdog, SpawnWatchdogFails, AwaitReady, AwaitFails,
       DismissWatchdog, AfterFailure, AbandonAttach, CheckHealthMissing, CheckHealthExited,
       RequestGracefulStop, ForceStop, NothingToForce, KillRoot, ReapRoot, Spawn, DropUnguarded,
       DropHandsOver, DropDisarms, DropReapsWatchdog, WatchdogReady, WatchdogUnheard,
       WatchdogDisarmed, WatchdogTerminates, WatchdogFindsNone, WatchdogKills, ManagerDies,
       WatchdogKilled, Forks, LeavesGroup, ExitsByItself, ExitsOnSignal, systemUnchanged,
       managerUnchanged

\* Once the worker has written the byte, nothing brings processes back into reach.
LEMMA NextDisarm == TypeOK /\ DisarmInv /\ [Next]_vars => DisarmInv'
  <1> SUFFICES ASSUME TypeOK, DisarmInv, [Next]_vars, control' = "disarm"
               PROVE  phase' \in {"disarm", "released", "dead"} /\ Managed' = {}
    BY DEF DisarmInv
  <1>1. CASE DropDisarms
    BY <1>1, NothingFound DEF DropDisarms, Managed, Live, treeVars
  <1>2. CASE ~DropDisarms
    <2>1. control = "disarm"
      BY <1>2 DEF Next, Proceed, Decide, Watchdog, System, vars, dogVars,
       AttachToScope, ScopeNotReady, SpawnWatchdog, SpawnWatchdogFails, AwaitReady, AwaitFails,
       DismissWatchdog, AfterFailure, AbandonAttach, CheckHealthMissing, CheckHealthExited,
       RequestGracefulStop, ForceStop, NothingToForce, KillRoot, ReapRoot, Spawn, DropUnguarded,
       DropHandsOver, DropDisarms, DropReapsWatchdog, WatchdogReady, WatchdogUnheard,
       WatchdogDisarmed, WatchdogTerminates, WatchdogFindsNone, WatchdogKills, ManagerDies,
       WatchdogKilled, Forks, LeavesGroup, ExitsByItself, ExitsOnSignal, systemUnchanged,
       managerUnchanged
    <2>2. phase \in {"disarm", "released", "dead"} /\ Managed = {}
      BY <2>1 DEF DisarmInv
    <2>3. phase' \in {"disarm", "released", "dead"}
      BY <2>2 DEF Next, Proceed, Decide, Watchdog, System, vars, dogVars,
       AttachToScope, ScopeNotReady, SpawnWatchdog, SpawnWatchdogFails, AwaitReady, AwaitFails,
       DismissWatchdog, AfterFailure, AbandonAttach, CheckHealthMissing, CheckHealthExited,
       RequestGracefulStop, ForceStop, NothingToForce, KillRoot, ReapRoot, Spawn, DropUnguarded,
       DropHandsOver, DropDisarms, DropReapsWatchdog, WatchdogReady, WatchdogUnheard,
       WatchdogDisarmed, WatchdogTerminates, WatchdogFindsNone, WatchdogKills, ManagerDies,
       WatchdogKilled, Forks, LeavesGroup, ExitsByItself, ExitsOnSignal, systemUnchanged,
       managerUnchanged
    <2> QED BY <2>2, <2>3, TreeEnds, ScopeKept
  <1> QED BY <1>1, <1>2

\* What a forced stop left unharmed was refused to it.
LEMMA NextStop == TypeOK /\ StopInv /\ [Next]_vars => StopInv'
  <1> SUFFICES ASSUME TypeOK, StopInv, [Next]_vars, phase' \in {"kill", "drop", "disarm"}
               PROVE  Unharmed' = {} \/ "refused" \in faults'
    BY DEF StopInv
  <1>1. ASSUME NEW scoped \in BOOLEAN, ForceStop(scoped)
        PROVE  Unharmed' = {} \/ "refused" \in faults'
    BY <1>1 DEF ForceStop, SignalScope, Fault, Slain, Reached, Unharmed, Managed, Live, TypeOK, Life
  <1>2. CASE NothingToForce
    BY <1>2, NothingFound DEF NothingToForce, Unharmed, Managed, Live, treeVars
  <1>3. CASE phase \in {"kill", "drop", "disarm"}
    BY <1>3, TreeEnds, ScopeKept, FaultsGrow DEF StopInv
  <1>4. CASE /\ phase \notin {"kill", "drop", "disarm"}
             /\ ~NothingToForce /\ \A scoped \in BOOLEAN : ~ForceStop(scoped)
    BY <1>4 DEF Next, Proceed, Decide, Watchdog, System, vars, dogVars,
       AttachToScope, ScopeNotReady, SpawnWatchdog, SpawnWatchdogFails, AwaitReady, AwaitFails,
       DismissWatchdog, AfterFailure, AbandonAttach, CheckHealthMissing, CheckHealthExited,
       RequestGracefulStop, KillRoot, ReapRoot, Spawn, DropUnguarded,
       DropHandsOver, DropDisarms, DropReapsWatchdog, WatchdogReady, WatchdogUnheard,
       WatchdogDisarmed, WatchdogTerminates, WatchdogFindsNone, WatchdogKills, ManagerDies,
       WatchdogKilled, Forks, LeavesGroup, ExitsByItself, ExitsOnSignal, systemUnchanged,
       managerUnchanged
  <1> QED BY <1>1, <1>2, <1>3, <1>4

\* While nobody stops the tool, only a watchdog that was given up signals it.
LEMMA NextCalm == TypeOK /\ IdleInv /\ CalmInv /\ [Next]_vars => CalmInv'
  <1> DEFINE Quiet ==
        /\ watchdog # "terminating"
        /\ watchdog # "none" => control = "open"
        /\ \A p \in Procs : life[p] \notin {"told", "killed"}
  <1> SUFFICES ASSUME TypeOK, IdleInv, CalmInv, [Next]_vars, phase' \in Calm, "slow" \notin faults'
               PROVE  Quiet'
    BY DEF CalmInv
  <1>1. CASE Spawn
    BY <1>1 DEF Spawn, IdleInv, TypeOK, dogVars
  <1>2. CASE ~Spawn
    <2>1. phase \in Calm /\ "slow" \notin faults
      <3>1. phase \in Calm
        BY <1>2 DEF Calm, Next, Proceed, Decide, Watchdog, System, vars, dogVars,
       AttachToScope, ScopeNotReady, SpawnWatchdog, SpawnWatchdogFails, AwaitReady, AwaitFails,
       DismissWatchdog, AfterFailure, AbandonAttach, CheckHealthMissing, CheckHealthExited,
       RequestGracefulStop, ForceStop, NothingToForce, KillRoot, ReapRoot, Spawn, DropUnguarded,
       DropHandsOver, DropDisarms, DropReapsWatchdog, WatchdogReady, WatchdogUnheard,
       WatchdogDisarmed, WatchdogTerminates, WatchdogFindsNone, WatchdogKills, ManagerDies,
       WatchdogKilled, Forks, LeavesGroup, ExitsByItself, ExitsOnSignal, systemUnchanged,
       managerUnchanged
      <3> QED BY <3>1, FaultsGrow
    <2>2. Quiet
      BY <2>1 DEF CalmInv
    <2>3. /\ watchdog' # "terminating"
          /\ watchdog' # "none" => control' = "open"
      BY <1>2, <2>1, <2>2 DEF Calm, Fault, Next, Proceed, Decide, Watchdog, System, vars, dogVars,
       AttachToScope, ScopeNotReady, SpawnWatchdog, SpawnWatchdogFails, AwaitReady, AwaitFails,
       DismissWatchdog, AfterFailure, AbandonAttach, CheckHealthMissing, CheckHealthExited,
       RequestGracefulStop, ForceStop, NothingToForce, KillRoot, ReapRoot, Spawn, DropUnguarded,
       DropHandsOver, DropDisarms, DropReapsWatchdog, WatchdogReady, WatchdogUnheard,
       WatchdogDisarmed, WatchdogTerminates, WatchdogFindsNone, WatchdogKills, ManagerDies,
       WatchdogKilled, Forks, LeavesGroup, ExitsByItself, ExitsOnSignal, systemUnchanged,
       managerUnchanged
    <2>4. \A p \in Procs : life'[p] = life[p] \/ life'[p] \in {"none", "alive", "zombie"}
      BY <1>2, <2>1, <2>2 DEF Calm, ExitIsSeen, TypeOK, treeVars, Next, Proceed, Decide, Watchdog, System, vars, dogVars,
       AttachToScope, ScopeNotReady, SpawnWatchdog, SpawnWatchdogFails, AwaitReady, AwaitFails,
       DismissWatchdog, AfterFailure, AbandonAttach, CheckHealthMissing, CheckHealthExited,
       RequestGracefulStop, ForceStop, NothingToForce, KillRoot, ReapRoot, Spawn, DropUnguarded,
       DropHandsOver, DropDisarms, DropReapsWatchdog, WatchdogReady, WatchdogUnheard,
       WatchdogDisarmed, WatchdogTerminates, WatchdogFindsNone, WatchdogKills, ManagerDies,
       WatchdogKilled, Forks, LeavesGroup, ExitsByItself, ExitsOnSignal, systemUnchanged,
       managerUnchanged
    <2> QED BY <2>2, <2>3, <2>4
  <1> QED BY <1>1, <1>2

LEMMA NextInv == Inv /\ [Next]_vars => Inv'
  BY NextTypeOK, NextIdle, NextCalm, NextDisarm, NextStop DEF Inv

THEOREM Invariance == Spec => []Inv
  BY InitInv, NextInv, PTL DEF Spec

\* Every reachable state is well typed: a handle is held only where the worker looks after
\* the tree, and a watchdog watches only after it has said that it is ready.
THEOREM SpecTypeOK == Spec => []TypeOK
  <1>1. Inv => TypeOK
    BY DEF Inv
  <1> QED BY <1>1, Invariance, PTL

\* The watchdog is sent home only when no process is left that the guard could reach, however
\* the processes fork and leave their group meanwhile.
THEOREM SpecDisarmOnlyEmptyTree == Spec => []DisarmOnlyEmptyTree
  <1>1. Inv => DisarmOnlyEmptyTree
    BY DEF Inv, DisarmInv, DisarmOnlyEmptyTree
  <1> QED BY <1>1, Invariance, PTL

\* A tool that nobody stops is not signalled while its manager lives, through any number of
\* watchdogs, unless one was given up as too slow.
THEOREM SpecNoUnaskedSignal == Spec => []NoUnaskedSignal
  <1>1. Inv => NoUnaskedSignal
    BY DEF Inv, CalmInv, Calm, NoUnaskedSignal
  <1> QED BY <1>1, Invariance, PTL

-----------------------------------------------------------------------------
(* The guard implements GuardContract *)

\* How the worker may go on, as far as the contract tells its phases apart.
LEMMA PhaseSteps ==
    ASSUME TypeOK, [Next]_vars, phase # "idle"
    PROVE  \/ UNCHANGED phase
           \/ phase \in Calm /\ phase' \in Calm
           \/ /\ phase \in {"guarded", "stopping", "kill", "drop"}
              /\ phase' \in {"stopping", "kill", "drop", "disarm"}
           \/ \E scoped \in BOOLEAN : AbandonAttach(scoped)
           \/ phase \in {"drop", "disarm"} /\ phase' = "released"
           \/ ManagerDies
  BY DEF Calm, Next, Proceed, Decide, Watchdog, System, vars, dogVars,
       AttachToScope, ScopeNotReady, SpawnWatchdog, SpawnWatchdogFails, AwaitReady, AwaitFails,
       DismissWatchdog, AfterFailure, CheckHealthMissing, CheckHealthExited,
       RequestGracefulStop, ForceStop, NothingToForce, KillRoot, ReapRoot, Spawn, DropUnguarded,
       DropHandsOver, DropDisarms, DropReapsWatchdog, WatchdogReady, WatchdogUnheard,
       WatchdogDisarmed, WatchdogTerminates, WatchdogFindsNone, WatchdogKills,
       WatchdogKilled, Forks, LeavesGroup, ExitsByItself, ExitsOnSignal, systemUnchanged,
       managerUnchanged

\* A guard that is held stays attached, whatever becomes of its watchdog.
LEMMA HeldStays ==
    ASSUME TypeOK, [Next]_vars, GuardStage = "held", phase' \in Calm
    PROVE  GuardStage' = "held"
  <1>1. attached /\ phase \in {"arm", "await", "dismiss", "guarded"}
    BY DEF GuardStage, TypeOK
  <1>2. attached' /\ phase' \in {"arm", "await", "dismiss", "guarded"}
    BY <1>1 DEF Calm, Next, Proceed, Decide, Watchdog, System, vars, dogVars,
       AttachToScope, ScopeNotReady, SpawnWatchdog, SpawnWatchdogFails, AwaitReady, AwaitFails,
       DismissWatchdog, AfterFailure, AbandonAttach, CheckHealthMissing, CheckHealthExited,
       RequestGracefulStop, ForceStop, NothingToForce, KillRoot, ReapRoot, Spawn, DropUnguarded,
       DropHandsOver, DropDisarms, DropReapsWatchdog, WatchdogReady, WatchdogUnheard,
       WatchdogDisarmed, WatchdogTerminates, WatchdogFindsNone, WatchdogKills, ManagerDies,
       WatchdogKilled, Forks, LeavesGroup, ExitsByItself, ExitsOnSignal, systemUnchanged,
       managerUnchanged
  <1> QED BY <1>2 DEF GuardStage

LEMMA TroubleGrows ==
    ASSUME [Next]_vars
    PROVE  Contract!Excuses
  BY FaultsGrow DEF GuardTrouble, Contract!Excuses, Contract!Trouble

\* A launched tree does not begin again.
LEMMA TreeDeclines ==
    ASSUME TypeOK, [Next]_vars, phase # "idle", phase' # "idle", UNCHANGED scope
    PROVE  Contract!Declines
  <1>1. /\ Managed = {} => Managed' = {}
        /\ Unharmed = {} => Unharmed' = {}
    BY TreeEnds
  <1>2. Unharmed \subseteq Managed /\ Unharmed' \subseteq Managed'
    BY DEF Unharmed
  <1> QED BY <1>1, <1>2 DEF GuardTree, Contract!Declines

\* While nobody stops the tool it is not found doomed, unless a watchdog came too late.
LEMMA TreeUnharmed ==
    ASSUME Inv, Inv', [Next]_vars, phase \in Calm, phase' \in Calm, "slow" \notin faults
    PROVE  GuardTree' \in {"alive", "gone"}
  <1>1. \A p \in Procs : life'[p] # "killed"
    <2>1. CASE "slow" \notin faults'
      BY <2>1 DEF Inv, CalmInv
    <2>2. CASE "slow" \in faults'
      <3>1. CASE AwaitFails
        BY <3>1 DEF AwaitFails, treeVars, Inv, CalmInv
      <3>2. CASE ~AwaitFails
        <4>1. /\ faults' # faults
              /\ \A kind \in FaultKinds \ {"slow"} : ~Fault(kind)
              /\ \A scoped \in BOOLEAN : ~SignalScope(scoped)
          BY <2>2 DEF Fault, SignalScope, FaultKinds
        <4>2. ~Proceed
          BY <3>2, <4>1 DEF FaultKinds, Proceed, AttachToScope, ScopeNotReady,
             SpawnWatchdog, SpawnWatchdogFails, AwaitReady, DismissWatchdog, AbandonAttach,
             CheckHealthMissing, CheckHealthExited, ForceStop, NothingToForce, KillRoot,
             DropUnguarded, DropHandsOver, DropDisarms, DropReapsWatchdog
        <4>3. ~Decide
          BY <4>1 DEF Decide, Spawn, ReapRoot, RequestGracefulStop, ForceStop, NothingToForce
        <4>4. ~Watchdog
          BY <4>1 DEF Watchdog, WatchdogReady, WatchdogUnheard,
             WatchdogDisarmed, WatchdogTerminates, WatchdogFindsNone, WatchdogKills
        <4>5. ~System
          BY <4>1 DEF FaultKinds, System, ManagerDies, WatchdogKilled, Forks, LeavesGroup, ExitsByItself,
             ExitsOnSignal, systemUnchanged
        <4> QED BY <4>1, <4>2, <4>3, <4>4, <4>5 DEF Next, vars
      <3> QED BY <3>1, <3>2
    <2> QED BY <2>1, <2>2
  <1>2. Unharmed' = Managed'
    BY <1>1 DEF Unharmed, Managed, Live
  <1> QED BY <1>2 DEF GuardTree, Calm

LEMMA ContractInit == Init => Contract!Init
  BY DEF Init, Contract!Init, GuardStage, GuardTree, GuardTrouble

\* Every step of the guard, its watchdog and the processes is one of the contract, or none to it.
LEMMA ContractStep == Inv /\ [Next]_vars => [Contract!Next]_Contract!vars
  <1> SUFFICES ASSUME Inv, [Next]_vars
               PROVE  [Contract!Next]_Contract!vars
    OBVIOUS
  <1>i. Inv' /\ TypeOK /\ TypeOK'
    BY NextInv DEF Inv
  <1>1. CASE phase = "idle"
    <2>1. CASE Spawn
      <3>1. Root \in Unharmed' /\ phase' = "attach" /\ UNCHANGED faults
        BY <1>1, <1>i, <2>1, RootAssumption DEF Inv, IdleInv, TypeOK, Spawn, Unharmed, Managed, Live
      <3>2. GuardStage = "none" /\ GuardStage' = "attaching"
        BY <1>1, <3>1 DEF GuardStage
      <3>3. GuardTree' = "alive"
        <4>1. Unharmed' # {} /\ Managed' # {}
          BY <3>1 DEF Unharmed
        <4> QED BY <3>1, <4>1 DEF GuardTree
      <3>4. UNCHANGED GuardTrouble
        BY <3>1 DEF GuardTrouble
      <3> QED BY <3>2, <3>3, <3>4 DEF Contract!Launch, Contract!Next
    <2>2. CASE UNCHANGED vars
      BY <2>2 DEF vars, dogVars, treeVars, Contract!vars, GuardStage, GuardTree, GuardTrouble,
         Unharmed, Managed, Live
    <2> QED BY <1>1, <2>1, <2>2, IdleStep DEF Inv
  <1>2. ASSUME phase \in Calm, phase' \in Calm
        PROVE  Contract!Next
    <2>1. GuardTree' \in {"alive", "gone"} \/ (GuardTree' = "doomed" /\ "late" \in GuardTrouble)
      <3>1. CASE "slow" \in faults
        BY <1>2, <3>1 DEF Calm, GuardTree, GuardTrouble, Unharmed
      <3>2. CASE "slow" \notin faults
        BY <1>2, <1>i, <3>2, TreeUnharmed
      <3> QED BY <3>1, <3>2
    <2>2. CASE GuardStage = "held"
      <3>1. phase \notin {"idle", "attach"} /\ GuardStage' = "held"
        BY <1>2, <1>i, <2>2, HeldStays DEF GuardStage, TypeOK
      <3> QED
        BY <1>2, <1>i, <2>1, <2>2, <3>1, ScopeKept, TreeDeclines, TroubleGrows
           DEF Calm, Contract!Holding, Contract!Next
    <2>3. CASE GuardStage # "held"
      <3>1. GuardStage = "attaching" /\ GuardStage' \in {"attaching", "held"}
        BY <1>2, <1>i, <2>3 DEF Calm, GuardStage, TypeOK
      <3> QED BY <2>1, <3>1, TroubleGrows DEF Contract!Attaching, Contract!Next
    <2> QED BY <2>2, <2>3
  <1>3. ASSUME phase \in {"guarded", "stopping", "kill", "drop", "disarm"},
               phase' \in {"stopping", "kill", "drop", "disarm"}
        PROVE  Contract!Next
    <2>1. GuardStage \in {"attaching", "held", "stopping"} /\ GuardStage' = "stopping"
      BY <1>3, <1>i DEF GuardStage, TypeOK
    <2> QED
      BY <1>3, <1>i, <2>1, ScopeKept, TreeDeclines, TroubleGrows DEF Contract!Stopping, Contract!Next
  <1>4. ASSUME NEW scoped \in BOOLEAN, AbandonAttach(scoped)
        PROVE  Contract!Next
    <2>1. Unharmed' = {} \/ "refused" \in faults'
      BY <1>4, <1>i DEF AbandonAttach, SignalScope, Fault, Slain, Reached, Unharmed, Managed, Live,
         TypeOK, Life
    <2>2. GuardTree' \in {"doomed", "gone"} \/ "refused" \in GuardTrouble'
      BY <1>4, <2>1 DEF AbandonAttach, GuardTree, GuardTrouble
    <2>3. phase = "failed" /\ GuardStage = "attaching" /\ phase' = "released" /\ GuardStage' = "released"
      BY <1>4 DEF AbandonAttach, GuardStage
    <2> QED
      BY <1>i, <2>2, <2>3, ScopeKept, TreeDeclines, TroubleGrows DEF Contract!Release, Contract!Next
  <1>5. ASSUME phase \in {"drop", "disarm"}, phase' = "released"
        PROVE  Contract!Next
    <2>1. Unharmed' = {} \/ "refused" \in faults'
      BY <1>5, <1>i, ScopeKept, TreeEnds, FaultsGrow DEF Inv, StopInv
    <2>2. GuardTree' \in {"doomed", "gone"} \/ "refused" \in GuardTrouble'
      BY <1>5, <2>1 DEF GuardTree, GuardTrouble
    <2>3. GuardStage = "stopping" /\ GuardStage' = "released"
      BY <1>5 DEF GuardStage
    <2> QED
      BY <1>5, <1>i, <2>2, <2>3, ScopeKept, TreeDeclines, TroubleGrows DEF Contract!Release, Contract!Next
  <1>6. CASE ManagerDies
    <2>1. GuardStage \notin {"none", "crashed"} /\ GuardStage' = "crashed"
      BY <1>6, <1>i DEF ManagerDies, GuardStage, TypeOK
    <2> QED
      BY <1>6, <1>i, <2>1, TreeDeclines, TroubleGrows DEF ManagerDies, Contract!Crash, Contract!Next
  <1>7. ASSUME phase \in {"released", "dead"}, UNCHANGED phase
        PROVE  Contract!Next
    <2>1. GuardStage \in {"released", "crashed"} /\ UNCHANGED GuardStage
      BY <1>7 DEF GuardStage
    <2> QED
      BY <1>7, <1>i, <2>1, ScopeKept, TreeDeclines, TroubleGrows DEF Contract!Afterwards, Contract!Next
  <1> QED
    BY <1>i, <1>1, <1>2, <1>3, <1>4, <1>5, <1>6, <1>7, PhaseSteps DEF TypeOK, Calm

\* To the worker the guard is that of GuardContract, for every tree and every combination of
\* the faults: the tree is let alone until it is stopped, and let go only with every process
\* that can be reached killed, unless the system refused.
THEOREM SpecGuardContract == Spec => GuardContractKept
  BY ContractInit, ContractStep, Invariance, PTL DEF Spec, GuardContractKept, Contract!Spec

=============================================================================
