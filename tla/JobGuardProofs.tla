--------------------------- MODULE JobGuardProofs ---------------------------
(***************************************************************************)
(* Proofs about JobGuard, for every set of processes.  That none escapes    *)
(* the job rests on where a process may be suspended, and on what cannot    *)
(* have happened yet while the tool is being put into its job.              *)
(***************************************************************************)
EXTENDS JobGuard, TLAPS

-----------------------------------------------------------------------------
(* The inductive invariant *)

\* Only the launched process is ever suspended, it is in the job before it is resumed, and
\* past the launch it is suspended only where the system failed to kill it.
SuspendedInv ==
    \A p \in Procs : life[p] = "suspended" =>
        /\ p = Root
        /\ phase = "resume" => p \in job
        /\ phase \in {"assign", "resume", "failed", "failedKill", "dead"} \/ refused

\* Nothing runs before the tool is resumed, and nothing is killed before a stop begins.
LaunchInv ==
    \A p \in Procs :
        /\ phase = "idle" => life[p] = "none"
        /\ phase \in {"assign", "resume"} => life[p] # "alive"
        /\ phase \in {"assign", "resume", "failed", "guarded"} => life[p] # "killed"

Inv == TypeOK /\ JobNoEscape /\ SuspendedInv /\ LaunchInv

-----------------------------------------------------------------------------
LEMMA InitInv == Init => Inv
  BY DEF Init, Inv, TypeOK, Life, JobNoEscape, SuspendedInv, LaunchInv

\* No step of the worker, the reaper or the system breaks the invariant.
LEMMA NextInv == Inv /\ [Next]_vars => Inv'
  <1> SUFFICES ASSUME Inv, [Next]_vars
               PROVE  Inv'
    OBVIOUS
  <1> USE DEF Inv, TypeOK, Life, Live, Slain, JobNoEscape, SuspendedInv, LaunchInv, hookUnchanged
  <1>1. CASE Spawn
    BY <1>1 DEF Spawn
  <1>2. CASE Assign
    BY <1>2 DEF Assign
  <1>3. CASE AssignFails
    BY <1>3 DEF AssignFails
  <1>4. CASE Resume
    BY <1>4 DEF Resume
  <1>5. CASE ResumeFails
    <2>1. CASE life' = life
      BY <1>5, <2>1 DEF ResumeFails
    <2>2. CASE life[Root] = "suspended" /\ life' = [life EXCEPT ![Root] = "alive"]
      BY <1>5, <2>2 DEF ResumeFails
    <2> QED BY <1>5, <2>1, <2>2 DEF ResumeFails
  <1>6. CASE NoGracefulStop
    BY <1>6 DEF NoGracefulStop
  <1>7. CASE RequestGracefulStop
    BY <1>7 DEF RequestGracefulStop
  <1>8. CASE WaitEnds
    BY <1>8 DEF WaitEnds
  <1>9. CASE NothingToForce
    BY <1>9 DEF NothingToForce
  <1>10. CASE RootEnded
    BY <1>10 DEF RootEnded
  <1>11. CASE Drop
    BY <1>11 DEF Drop
  <1>12. ASSUME NEW granted \in BOOLEAN, FailedForceStop(granted)
         PROVE  Inv'
    BY <1>12 DEF FailedForceStop
  <1>13. ASSUME NEW granted \in BOOLEAN, FailedKill(granted)
         PROVE  Inv'
    BY <1>13 DEF FailedKill
  <1>14. ASSUME NEW granted \in BOOLEAN, ForceStop(granted)
         PROVE  Inv'
    BY <1>14 DEF ForceStop
  <1>15. ASSUME NEW granted \in BOOLEAN, KillRoot(granted)
         PROVE  Inv'
    BY <1>15 DEF KillRoot
  <1>16. CASE Reaper
    <2>1. CASE ReaperKills
      BY <2>1 DEF ReaperKills
    <2>2. CASE ReaperFails
      BY <2>2 DEF ReaperFails
    <2>3. CASE ReaperEnds
      BY <2>3 DEF ReaperEnds
    <2> QED BY <1>16, <2>1, <2>2, <2>3 DEF Reaper
  <1>17. CASE ManagerDies
    BY <1>17 DEF ManagerDies
  <1>18. CASE HookEnds
    BY <1>18 DEF HookEnds, systemUnchanged
  <1>19. ASSUME NEW p \in Procs, Exits(p)
         PROVE  Inv'
    BY <1>19 DEF Exits, systemUnchanged
  <1>20. ASSUME NEW p \in Procs, NEW q \in Procs, Forks(p, q)
         PROVE  Inv'
    BY <1>20 DEF Forks, systemUnchanged
  <1>21. CASE UNCHANGED vars
    BY <1>21 DEF vars
  <1> QED
    BY <1>1, <1>2, <1>3, <1>4, <1>5, <1>6, <1>7, <1>8, <1>9, <1>10, <1>11, <1>12, <1>13,
       <1>14, <1>15, <1>16, <1>17, <1>18, <1>19, <1>20, <1>21 DEF Next, Worker, System

THEOREM Invariance == Spec => []Inv
  BY InitInv, NextInv, PTL DEF Spec

\* Every reachable state is well typed, and the handle of the job is open from the launch on
\* until the guard is dropped or the manager dies.
THEOREM SpecTypeOK == Spec => []TypeOK
  <1>1. Inv => TypeOK
    BY DEF Inv
  <1> QED BY <1>1, Invariance, PTL

\* However many processes a tool forks, and whatever step of attach fails, none runs outside
\* the job of its guard or after the job is closed.
THEOREM SpecJobNoEscape == Spec => []JobNoEscape
  <1>1. Inv => JobNoEscape
    BY DEF Inv
  <1> QED BY <1>1, Invariance, PTL

-----------------------------------------------------------------------------
(* The guard implements GuardContract *)

\* What the contract is told of a step in which no process is launched: it looks only at
\* whether processes are left, and whether those that are left were killed.
LEMMA TreeDeclines ==
    ASSUME phase # "idle", phase' # "idle",
           Live = {} => Live' = {} /\ Killed' \subseteq Killed
    PROVE  Contract!Declines
  <1>1. CASE Live # {}
    BY <1>1 DEF GuardTree, Contract!Declines
  <1>2. CASE Live = {}
    BY <1>2 DEF GuardTree, Contract!Declines
  <1> QED BY <1>1, <1>2

LEMMA TroubleGrows ==
    ASSUME refused \in BOOLEAN, refused' \in BOOLEAN, refused => refused'
    PROVE  Contract!Excuses
  BY DEF GuardTrouble, Contract!Excuses, Contract!Trouble

LEMMA ContractInit == Init => Contract!Init
  BY DEF Init, Contract!Init, GuardStage, GuardTree, GuardTrouble

\* Once the tool was launched its tree does not begin again.
LEMMA TreeEnds ==
    ASSUME Inv, [Next]_vars, phase # "idle"
    PROVE  Contract!Declines /\ Contract!Excuses
  <1> USE DEF Inv, TypeOK, Life, Live, Killed, Slain, hookUnchanged, systemUnchanged
  <1>1. /\ phase' # "idle" /\ refused' \in BOOLEAN /\ (refused => refused')
        /\ Live = {} => Live' = {} /\ Killed' \subseteq Killed
    <2>1. CASE Worker
      BY <2>1 DEF Worker, Spawn, Assign, AssignFails, Resume, ResumeFails, NoGracefulStop,
         RequestGracefulStop, WaitEnds, NothingToForce, RootEnded, Drop, FailedForceStop,
         FailedKill, ForceStop, KillRoot
    <2>2. CASE Reaper
      BY <2>2 DEF Reaper, ReaperKills, ReaperFails, ReaperEnds
    <2>3. CASE System
      BY <2>3 DEF System, ManagerDies, HookEnds, Exits, Forks
    <2>4. CASE UNCHANGED vars
      BY <2>4 DEF vars
    <2> QED BY <2>1, <2>2, <2>3, <2>4 DEF Next
  <1> QED BY <1>1, TreeDeclines, TroubleGrows

\* Nothing is killed before a stop begins, so the tree is not found doomed.
LEMMA TreeUnharmed ==
    ASSUME Inv', phase' \in {"assign", "resume", "failed", "guarded"}
    PROVE  GuardTree' \in {"alive", "gone"}
  BY DEF Inv, LaunchInv, GuardTree, Killed

\* What the processes do by themselves is allowed at every stage.
LEMMA SystemKeepsContract ==
    ASSUME Inv, Inv', [Next]_vars, phase # "idle",
           UNCHANGED phase
    PROVE  Contract!Next
  <1>1. Contract!Declines /\ Contract!Excuses /\ GuardStage' = GuardStage
    BY TreeEnds DEF GuardStage
  <1>2. CASE phase \in {"assign", "resume", "failed"}
    BY <1>1, <1>2, TreeUnharmed DEF GuardStage, Contract!Attaching, Contract!Next
  <1>3. CASE phase = "guarded"
    BY <1>1, <1>3, TreeUnharmed DEF GuardStage, Contract!Holding, Contract!Next
  <1>4. CASE phase \in {"failedKill", "waiting", "force", "kill", "drop"}
    BY <1>1, <1>4 DEF GuardStage, Contract!Stopping, Contract!Next
  <1>5. CASE phase \in {"released", "dead"}
    BY <1>1, <1>5 DEF GuardStage, Contract!Afterwards, Contract!Next
  <1> QED BY <1>2, <1>3, <1>4, <1>5 DEF Inv, TypeOK

\* Every step of the guard is one of the contract, or none to it.
LEMMA ContractStep ==
    ASSUME Root \in Procs
    PROVE  Inv /\ [Next]_vars => [Contract!Next]_Contract!vars
  <1> SUFFICES ASSUME Inv, [Next]_vars
               PROVE  [Contract!Next]_Contract!vars
    OBVIOUS
  <1>i. Inv'
    BY NextInv
  <1>1. CASE Spawn
    <2>1. Root \in Live' /\ phase' = "assign" /\ UNCHANGED refused
      BY <1>1 DEF Spawn, Inv, TypeOK, Live
    <2>2. GuardStage = "none" /\ GuardStage' = "attaching" /\ GuardTree' = "alive"
      BY <1>1, <2>1 DEF Spawn, GuardStage, GuardTree
    <2> QED BY <2>1, <2>2 DEF Contract!Launch, Contract!Next, GuardTrouble
  <1>2. CASE Assign \/ AssignFails \/ Resume \/ ResumeFails
    <2>1. /\ phase \in {"assign", "resume"}
          /\ phase' \in {"resume", "failed", "guarded"}
      BY <1>2 DEF Assign, AssignFails, Resume, ResumeFails
    <2>2. GuardStage = "attaching" /\ GuardStage' \in {"attaching", "held"}
      BY <2>1 DEF GuardStage
    <2> QED BY <1>i, <2>1, <2>2, TreeEnds, TreeUnharmed DEF Contract!Attaching, Contract!Next
  <1>3. ASSUME \/ NoGracefulStop \/ RequestGracefulStop \/ WaitEnds \/ NothingToForce \/ RootEnded
               \/ \E granted \in BOOLEAN :
                    FailedForceStop(granted) \/ FailedKill(granted) \/ ForceStop(granted) \/ KillRoot(granted)
        PROVE  Contract!Next
    <2>1. /\ phase \in {"guarded", "waiting", "force", "kill", "failed", "failedKill"}
          /\ phase' \in {"waiting", "force", "kill", "failedKill", "drop"}
      BY <1>3 DEF NoGracefulStop, RequestGracefulStop, WaitEnds, NothingToForce, RootEnded,
         FailedForceStop, FailedKill, ForceStop, KillRoot
    <2>2. GuardStage \in {"attaching", "held", "stopping"} /\ GuardStage' = "stopping"
      BY <2>1 DEF GuardStage
    <2> QED BY <2>1, <2>2, TreeEnds DEF Contract!Stopping, Contract!Next
  <1>4. CASE Drop
    <2>1. Live' = {} \/ refused'
      BY <1>4 DEF Drop, Inv, TypeOK, Life, JobNoEscape, SuspendedInv, Live, Slain
    <2>2. GuardTree' \in {"doomed", "gone"} \/ "refused" \in GuardTrouble'
      BY <1>4, <2>1 DEF Drop, GuardTree, GuardTrouble
    <2> QED BY <1>4, <2>2, TreeEnds DEF Drop, GuardStage, Contract!Release, Contract!Next
  <1>5. CASE ManagerDies
    BY <1>5, TreeEnds DEF ManagerDies, Inv, TypeOK, GuardStage, Contract!Stage, Contract!Crash, Contract!Next
  <1>6. CASE Reaper \/ HookEnds
    <2>1. UNCHANGED <<phase, life, refused>>
      BY <1>6 DEF Reaper, ReaperKills, ReaperFails, ReaperEnds, HookEnds, systemUnchanged
    <2> QED BY <2>1 DEF Contract!vars, GuardStage, GuardTree, GuardTrouble, Live, Killed
  <1>7. ASSUME NEW p \in Procs, Exits(p) \/ \E q \in Procs : Forks(p, q)
        PROVE  Contract!Next
    BY <1>i, <1>7, SystemKeepsContract DEF Exits, Forks, systemUnchanged, Inv, LaunchInv
  <1>8. CASE UNCHANGED vars
    BY <1>8 DEF vars, Contract!vars, GuardStage, GuardTree, GuardTrouble, Live, Killed
  <1> QED
    BY <1>1, <1>2, <1>3, <1>4, <1>5, <1>6, <1>7, <1>8 DEF Next, Worker, System

\* To the worker the job is the guard of GuardContract: a tree is let alone until it is stopped,
\* and let go only with all its processes killed, unless the system refused.
THEOREM SpecGuardContract ==
    ASSUME Root \in Procs
    PROVE  Spec => GuardContractKept
  <1>1. Inv /\ [Next]_vars => [Contract!Next]_Contract!vars
    BY ContractStep
  <1> QED BY <1>1, ContractInit, Invariance, PTL DEF Spec, GuardContractKept, Contract!Spec

=============================================================================
