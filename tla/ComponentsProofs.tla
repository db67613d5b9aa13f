-------------------------- MODULE ComponentsProofs --------------------------
(***************************************************************************)
(* Safety proofs about the components of MCComponents, in the setting they  *)
(* are model-checked in.  A step of the composition is a step of one        *)
(* component and leaves the others alone, so an invariant of a component    *)
(* is one of the composition.  Those of the two guards and of the memory    *)
(* samples come from the proof modules of these components; those of the    *)
(* inspections, the process tree and the output reader are found here.      *)
(***************************************************************************)
EXTENDS MCComponents, LinuxGuardProofs, SortedNumbers, FiniteSetTheorems, SequenceTheorems,
        WellFoundedInduction, NaturalsInduction

JobProofs == INSTANCE JobGuardProofs WITH phase <- jobPhase, life <- jobLife

MemoryProofs ==
    INSTANCE MemorySamplingProofs WITH Readings <- {"bytes", "unavailable"},
                                       Rows <- {"tool", "manager"}

-----------------------------------------------------------------------------
(* The components side by side *)

LEMMA InitOfParts ==
    ASSUME InitAll
    PROVE  Init /\ Job!Init /\ Tree!Init /\ Reader!Init /\ Inspections!Init /\ Memory!Init
  BY DEF InitAll

LEMMA StepOfParts ==
    ASSUME [NextAll]_allVars
    PROVE  /\ [Next]_vars /\ [Job!Next]_jobVars /\ [Tree!Next]_listVars
           /\ [Reader!Next]_readerVars /\ [Inspections!Next]_viewVars
           /\ [Memory!Next]_memoryVars
  BY DEF NextAll, allVars, LinuxStep, JobStep, ListStep, ReaderStep, InspectionStep, MemoryStep

\* The steps of a component are those its proof module is about.
LEMMA JobIsProved ==
    (Job!Init <=> JobProofs!Init) /\ ([Job!Next]_jobVars <=> [JobProofs!Next]_JobProofs!vars)
  BY DEF jobVars, JobProofs!vars,
     Job!Init, Job!Next, Job!Worker, Job!Reaper, Job!System,
     Job!Spawn, Job!Assign, Job!AssignFails, Job!Resume, Job!ResumeFails, Job!NoGracefulStop,
     Job!RequestGracefulStop, Job!WaitEnds, Job!NothingToForce, Job!RootEnded, Job!Drop,
     Job!FailedForceStop, Job!FailedKill, Job!ForceStop, Job!KillRoot, Job!ReaperKills,
     Job!ReaperFails, Job!ReaperEnds, Job!ManagerDies, Job!HookEnds, Job!Forks, Job!Exits,
     Job!Slain, Job!Live, Job!hookUnchanged, Job!systemUnchanged,
     JobProofs!Init, JobProofs!Next, JobProofs!Worker, JobProofs!Reaper, JobProofs!System,
     JobProofs!Spawn, JobProofs!Assign, JobProofs!AssignFails, JobProofs!Resume,
     JobProofs!ResumeFails, JobProofs!NoGracefulStop, JobProofs!RequestGracefulStop,
     JobProofs!WaitEnds, JobProofs!NothingToForce, JobProofs!RootEnded, JobProofs!Drop,
     JobProofs!FailedForceStop, JobProofs!FailedKill, JobProofs!ForceStop, JobProofs!KillRoot,
     JobProofs!ReaperKills, JobProofs!ReaperFails, JobProofs!ReaperEnds,
     JobProofs!ManagerDies, JobProofs!HookEnds, JobProofs!Forks, JobProofs!Exits,
     JobProofs!Slain, JobProofs!Live,
     JobProofs!hookUnchanged, JobProofs!systemUnchanged

LEMMA MemoryIsProved ==
    /\ Memory!Init <=> MemoryProofs!Init
    /\ [Memory!Next]_memoryVars <=> [MemoryProofs!Next]_MemoryProofs!vars
  BY DEF memoryVars, MemoryProofs!vars,
     Memory!Init, Memory!Next, Memory!Begin, Memory!End, Memory!Publish, Memory!RefreshMemory,
     Memory!ShowManager, Memory!SampleMemory, Memory!RefreshState, Memory!Sampler, Memory!Wake,
     Memory!Answer, Memory!After, Memory!Current, Memory!Snapshot, Memory!Free,
     Memory!Querying, Memory!NoThread, Memory!Idle, Memory!Pending, Memory!windowUnchanged,
     Memory!toolVars, Memory!Tool!Init, Memory!Tool!AtRest, Memory!Tool!BeginStart,
     Memory!Tool!GiveUpStart, Memory!Tool!AskRestart, Memory!Tool!BeginStop,
     Memory!Tool!Publish, Memory!Tool!LoseProcess, Memory!Tool!EndStop, Memory!Tool!ClearState,
     MemoryProofs!Init, MemoryProofs!Next, MemoryProofs!Begin, MemoryProofs!End,
     MemoryProofs!Publish, MemoryProofs!RefreshMemory, MemoryProofs!ShowManager,
     MemoryProofs!SampleMemory, MemoryProofs!RefreshState, MemoryProofs!Sampler,
     MemoryProofs!Wake, MemoryProofs!Answer, MemoryProofs!After, MemoryProofs!Current,
     MemoryProofs!Snapshot, MemoryProofs!Free, MemoryProofs!Querying, MemoryProofs!NoThread,
     MemoryProofs!Idle, MemoryProofs!Pending, MemoryProofs!windowUnchanged,
     MemoryProofs!toolVars, MemoryProofs!Tool!Init, MemoryProofs!Tool!AtRest,
     MemoryProofs!Tool!BeginStart, MemoryProofs!Tool!GiveUpStart, MemoryProofs!Tool!AskRestart,
     MemoryProofs!Tool!BeginStop, MemoryProofs!Tool!Publish, MemoryProofs!Tool!LoseProcess,
     MemoryProofs!Tool!EndStop, MemoryProofs!Tool!ClearState

LEMMA LinuxInvariance == SpecAll => []Inv
  <1>1. InitAll => Inv
    BY InitOfParts, InitInv
  <1>2. Inv /\ [NextAll]_allVars => Inv'
    BY StepOfParts, NextInv
  <1> QED BY <1>1, <1>2, PTL DEF SpecAll

LEMMA JobInvariance == SpecAll => []JobProofs!Inv
  <1>1. InitAll => JobProofs!Inv
    BY InitOfParts, JobIsProved, JobProofs!InitInv
  <1>2. JobProofs!Inv /\ [NextAll]_allVars => JobProofs!Inv'
    BY StepOfParts, JobIsProved, JobProofs!NextInv
  <1> QED BY <1>1, <1>2, PTL DEF SpecAll

LEMMA MemoryInvariance == SpecAll => []MemoryProofs!Inv
  <1>1. {"bytes", "unavailable"} \cap {"idle", "pending"} = {}
    OBVIOUS
  <1>2. InitAll => MemoryProofs!Inv
    BY <1>1, InitOfParts, MemoryIsProved, MemoryProofs!InitInv
  <1>3. MemoryProofs!Inv /\ [NextAll]_allVars => MemoryProofs!Inv'
    BY <1>1, StepOfParts, MemoryIsProved, MemoryProofs!NextInv
  <1> QED BY <1>2, <1>3, PTL DEF SpecAll

\* Whatever step of attach fails, and whoever dies, no process of the tool runs outside its
\* job or after the job is closed.
THEOREM SpecAllJobNoEscape == SpecAll => []JobNoEscape
  <1>1. JobProofs!Inv => JobNoEscape
    BY DEF JobProofs!Inv, JobNoEscape, Job!JobNoEscape, JobProofs!JobNoEscape
  <1> QED BY <1>1, JobInvariance, PTL

\* A row that says Pending has a query under way that will write its answer.
THEOREM SpecAllPendingIsServed == SpecAll => []PendingIsServed
  <1>1. MemoryProofs!Inv => PendingIsServed
    BY DEF MemoryProofs!Inv, PendingIsServed, Memory!PendingIsServed, Memory!Querying,
       Memory!Current, Memory!Pending, MemoryProofs!PendingIsServed, MemoryProofs!Querying,
       MemoryProofs!Current, MemoryProofs!Pending
  <1> QED BY <1>1, MemoryInvariance, PTL

\* A sample is never shown for a process it was not taken of.
THEOREM SpecAllSampleMatchesProcess == SpecAll => []SampleMatchesProcess
  <1>1. MemoryProofs!Inv => SampleMatchesProcess
    BY DEF MemoryProofs!Inv, SampleMatchesProcess, Memory!SampleMatchesProcess,
       MemoryProofs!SampleMatchesProcess
  <1> QED BY <1>1, MemoryInvariance, PTL

\* Both guards are, to the worker, the guard of GuardContract.
THEOREM SpecAllGuardContracts == SpecAll => GuardContracts
  <1>1. SpecAll => GuardContractKept
    <2>1. InitAll => Contract!Init
      BY InitOfParts, ContractInit
    <2>2. Inv /\ [NextAll]_allVars => [Contract!Next]_Contract!vars
      BY StepOfParts, ContractStep
    <2> QED BY <2>1, <2>2, LinuxInvariance, PTL DEF SpecAll, GuardContractKept, Contract!Spec
  <1>2. SpecAll => Job!GuardContractKept
    <2> USE DEF Job!GuardStage, Job!GuardTree, Job!GuardTrouble, Job!Killed, Job!Live,
            JobProofs!GuardStage, JobProofs!GuardTree, JobProofs!GuardTrouble,
            JobProofs!Killed, JobProofs!Live
    <2>1. InitAll => Job!Contract!Init
      BY InitOfParts, JobIsProved, JobProofs!ContractInit
         DEF Job!Contract!Init, JobProofs!Contract!Init
    <2>2. JobProofs!Inv /\ [NextAll]_allVars => [JobProofs!Contract!Next]_JobProofs!Contract!vars
      BY StepOfParts, JobIsProved, JobProofs!ContractStep, RootAssumption
    <2>3. ASSUME [JobProofs!Contract!Next]_JobProofs!Contract!vars
          PROVE  [Job!Contract!Next]_Job!Contract!vars
      BY <2>3 DEF Job!Contract!vars, Job!Contract!Next, Job!Contract!Launch,
         Job!Contract!Attaching, Job!Contract!Holding, Job!Contract!Stopping,
         Job!Contract!Release, Job!Contract!Crash, Job!Contract!Afterwards,
         Job!Contract!Declines, Job!Contract!Excuses, Job!Contract!Trouble,
         JobProofs!Contract!vars, JobProofs!Contract!Next, JobProofs!Contract!Launch,
         JobProofs!Contract!Attaching, JobProofs!Contract!Holding,
         JobProofs!Contract!Stopping, JobProofs!Contract!Release, JobProofs!Contract!Crash,
         JobProofs!Contract!Afterwards, JobProofs!Contract!Declines,
         JobProofs!Contract!Excuses, JobProofs!Contract!Trouble
    <2> QED
      BY <2>1, <2>2, <2>3, JobInvariance, PTL
      DEF SpecAll, Job!GuardContractKept, Job!Contract!Spec
  <1> QED BY <1>1, <1>2 DEF GuardContracts

-----------------------------------------------------------------------------
(* Sorted numbers *)

LEMMA SeqOfSubset ==
    ASSUME NEW T, NEW S \in SUBSET T, NEW s \in Seq(S)
    PROVE  s \in Seq(T)
  <1>1. Len(s) \in Nat /\ s \in [1..Len(s) -> S]
    OBVIOUS
  <1>2. s \in [1..Len(s) -> T]
    BY <1>1
  <1> QED BY <1>1, <1>2

\* How many are below a member tells it from the others, and there is one for every rank.
LEMMA Ranks ==
    ASSUME NEW S \in SUBSET Int, IsFiniteSet(S)
    PROVE  /\ Cardinality(S) \in Nat
           /\ \A x \in S : Cardinality(Below(S, x)) \in 0..Cardinality(S) - 1
           /\ \A x, y \in S : x < y => Cardinality(Below(S, x)) < Cardinality(Below(S, y))
           /\ \A i \in 1..Cardinality(S) : \E x \in S : Cardinality(Below(S, x)) = i - 1
  <1> DEFINE n == Cardinality(S)
             B(x) == Below(S, x)
             rank == [x \in S |-> Cardinality(B(x)) + 1]
  <1>1. n \in Nat
    BY FS_CardinalityType
  <1>2. ASSUME NEW x
        PROVE  IsFiniteSet(B(x)) /\ Cardinality(B(x)) \in Nat /\ Cardinality(B(x)) <= n
    <2>1. B(x) \in SUBSET S
      BY DEF Below
    <2> HIDE DEF B
    <2>2. IsFiniteSet(B(x)) /\ Cardinality(B(x)) <= n
      BY <2>1, FS_Subset
    <2> QED BY <2>2, FS_CardinalityType
  <1>3. ASSUME NEW x \in S, NEW T, IsFiniteSet(T), Cardinality(T) \in Nat, B(x) \cup {x} \subseteq T
        PROVE  Cardinality(B(x)) < Cardinality(T)
    <2>1. x \notin B(x)
      BY DEF Below
    <2> HIDE DEF B
    <2>2. Cardinality(B(x) \cup {x}) = Cardinality(B(x)) + 1
      BY <1>2, <2>1, FS_AddElement
    <2>3. Cardinality(B(x) \cup {x}) <= Cardinality(T)
      BY <1>3, FS_Subset
    <2> QED BY <1>2, <1>3, <2>2, <2>3
  <1>4. \A x \in S : Cardinality(B(x)) < n
    <2> TAKE x \in S
    <2>1. B(x) \cup {x} \subseteq S
      BY DEF Below
    <2> HIDE DEF B
    <2> QED BY <1>1, <1>3, <2>1
  <1>5. ASSUME NEW x \in S, NEW y \in S, x < y
        PROVE  Cardinality(B(x)) < Cardinality(B(y))
    <2>1. x \in B(y) /\ \A z \in B(x) : z \in S /\ z < x
      BY <1>5 DEF Below
    <2>2. \A z \in S : z < x => z < y
      BY <1>5
    <2>3. B(x) \cup {x} \subseteq B(y)
      BY <2>1, <2>2 DEF Below
    <2> HIDE DEF B
    <2> QED BY <1>2, <1>3, <2>3
  <1> HIDE DEF B
  <1>6. rank \in Injection(S, 1..n)
    <2>1. rank \in [S -> 1..n]
      <3>1. \A x \in S : Cardinality(B(x)) + 1 \in 1..n
        BY <1>1, <1>2, <1>4
      <3> QED BY <3>1
    <2>2. ASSUME NEW x \in S, NEW y \in S, rank[x] = rank[y]
          PROVE  x = y
      <3>1. Cardinality(B(x)) = Cardinality(B(y))
        BY <1>2, <2>2
      <3>2. ~(x < y) /\ ~(y < x)
        BY <1>2, <1>5, <3>1
      <3> QED BY <3>2
    <2> HIDE DEF rank
    <2> QED BY <2>1, <2>2 DEF Injection, IsInjective
  <1>7. IsFiniteSet(1..n) /\ Cardinality(1..n) = n
    BY <1>1, FS_Interval
  <1>8. rank \in Surjection(S, 1..n)
    <2> HIDE DEF rank
    <2> QED BY <1>6, <1>7, FS_Injection
  <1>9. ASSUME NEW i \in 1..n
        PROVE  \E x \in S : Cardinality(B(x)) = i - 1
    <2>1. PICK x \in S : rank[x] = i
      <3> HIDE DEF rank
      <3> QED BY <1>8 DEF Surjection
    <2>2. Cardinality(B(x)) + 1 = i
      BY <2>1
    <2> QED BY <1>1, <1>2, <2>2
  <1>10. \A x \in S : Cardinality(B(x)) \in 0..n - 1
    BY <1>1, <1>2, <1>4
  <1> QED BY <1>1, <1>5, <1>9, <1>10 DEF B

LEMMA SortedIs ==
    ASSUME NEW S \in SUBSET Int, IsFiniteSet(S)
    PROVE  /\ Cardinality(S) \in Nat
           /\ Sorted(S) \in Seq(S) /\ Len(Sorted(S)) = Cardinality(S)
           /\ \A x \in S : /\ Cardinality(Below(S, x)) + 1 \in 1..Cardinality(S)
                           /\ Sorted(S)[Cardinality(Below(S, x)) + 1] = x
           /\ \A i \in 1..Cardinality(S) :
                Sorted(S)[i] \in S /\ Cardinality(Below(S, Sorted(S)[i])) = i - 1
  <1> DEFINE n == Cardinality(S)
             B(x) == Cardinality(Below(S, x))
  <1>1. /\ n \in Nat
        /\ \A x \in S : B(x) \in 0..n - 1
        /\ \A x, y \in S : x < y => B(x) < B(y)
        /\ \A i \in 1..n : \E x \in S : B(x) = i - 1
    BY Ranks
  <1>2. Sorted(S) = [i \in 1..n |-> CHOOSE x \in S : B(x) = i - 1]
    BY DEF Sorted
  <1> HIDE DEF n, B
  <1>3. \A i \in 1..n : Sorted(S)[i] \in S /\ B(Sorted(S)[i]) = i - 1
    <2> TAKE i \in 1..n
    <2>1. \E x \in S : B(x) = i - 1
      BY <1>1
    <2> QED BY <1>2, <2>1
  <1>4. Sorted(S) \in Seq(S) /\ Len(Sorted(S)) = n
    <2>1. Sorted(S) \in [1..n -> S]
      BY <1>2, <1>3
    <2> QED BY <1>1, <2>1
  <1>5. ASSUME NEW x \in S
        PROVE  B(x) + 1 \in 1..n /\ Sorted(S)[B(x) + 1] = x
    <2> DEFINE y == Sorted(S)[B(x) + 1]
    <2>1. B(x) + 1 \in 1..n /\ B(x) \in Int
      BY <1>1
    <2>2. y \in S /\ B(y) = (B(x) + 1) - 1
      BY <1>3, <2>1
    <2> HIDE DEF y
    <2>3. ~(x < y) /\ ~(y < x)
      BY <1>1, <2>1, <2>2
    <2>4. x = y
      BY <2>2, <2>3
    <2> QED BY <2>1, <2>4 DEF y
  <1> QED BY <1>1, <1>3, <1>4, <1>5 DEF n, B

\* What comes behind does not move the numbers before it.
LEMMA SortedPrefix ==
    ASSUME NEW S \in SUBSET Int, IsFiniteSet(S), NEW T \in SUBSET Int, IsFiniteSet(T),
           \A x \in S, y \in T : x < y
    PROVE  /\ Len(Sorted(S \cup T)) = Len(Sorted(S)) + Cardinality(T)
           /\ \A i \in 1..Len(Sorted(S)) : Sorted(S \cup T)[i] = Sorted(S)[i]
  <1> DEFINE U == S \cup T
  <1>1. U \in SUBSET Int /\ IsFiniteSet(U)
    BY FS_Union
  <1>2. /\ Cardinality(S) \in Nat /\ Cardinality(T) \in Nat
        /\ Len(Sorted(S)) = Cardinality(S) /\ Len(Sorted(U)) = Cardinality(U)
    <2> HIDE DEF U
    <2> QED BY <1>1, SortedIs
  <1>3. Cardinality(U) = Cardinality(S) + Cardinality(T)
    <2>1. S \cap T = {}
      <3> SUFFICES ASSUME NEW x \in S, x \in T
                   PROVE  FALSE
        OBVIOUS
      <3>1. x < x /\ x \in Int
        OBVIOUS
      <3> QED BY <3>1
    <2>2. Cardinality(S \cap T) = 0
      BY <2>1, FS_EmptySet
    <2>3. Cardinality(U) = Cardinality(S) + Cardinality(T) - Cardinality(S \cap T)
      BY FS_Union
    <2> HIDE DEF U
    <2> QED BY <1>2, <2>2, <2>3
  <1>4. ASSUME NEW i \in 1..Len(Sorted(S))
        PROVE  Sorted(U)[i] = Sorted(S)[i]
    <2> DEFINE x == Sorted(S)[i]
    <2>1. x \in S /\ Cardinality(Below(S, x)) = i - 1
      BY <1>2, SortedIs
    <2> HIDE DEF x
    <2>2. Below(U, x) = Below(S, x) /\ x \in U
      <3>1. \A y \in T : y \in Int /\ x \in Int /\ x < y
        BY <2>1
      <3>2. \A y \in T : ~(y < x)
        BY <3>1
      <3> QED BY <2>1, <3>2 DEF Below
    <2>3. Sorted(U)[Cardinality(Below(U, x)) + 1] = x
      <3> HIDE DEF U
      <3> QED BY <1>1, <2>2, SortedIs
    <2>4. Cardinality(Below(U, x)) + 1 = i
      BY <1>2, <2>1, <2>2
    <2> QED BY <2>3, <2>4 DEF x
  <1> QED BY <1>2, <1>3, <1>4

LEMMA SortedAppend ==
    ASSUME NEW S \in SUBSET Int, IsFiniteSet(S), NEW x \in Int, \A y \in S : y < x
    PROVE  Sorted(S \cup {x}) = Append(Sorted(S), x)
  <1> DEFINE U == S \cup {x}
             n == Cardinality(S)
  <1>1. IsFiniteSet({x}) /\ Cardinality({x}) = 1 /\ {x} \in SUBSET Int
    BY FS_Singleton
  <1>2. /\ Len(Sorted(U)) = Len(Sorted(S)) + 1
        /\ \A i \in 1..Len(Sorted(S)) : Sorted(U)[i] = Sorted(S)[i]
    BY <1>1, SortedPrefix
  <1>3. U \in SUBSET Int /\ IsFiniteSet(U)
    BY <1>1, FS_Union
  <1>4. n \in Nat /\ Sorted(S) \in Seq(Int) /\ Len(Sorted(S)) = n /\ Sorted(U) \in Seq(Int)
    <2>1. n \in Nat /\ Sorted(S) \in Seq(S) /\ Len(Sorted(S)) = n
      BY SortedIs
    <2>2. Sorted(U) \in Seq(U)
      <3> HIDE DEF U
      <3> QED BY <1>3, SortedIs
    <2> HIDE DEF U
    <2>3. Sorted(S) \in Seq(Int) /\ Sorted(U) \in Seq(Int)
      BY <1>3, <2>1, <2>2, SeqOfSubset
    <2> QED BY <2>1, <2>3
  <1>5. Sorted(U)[n + 1] = x
    <2>1. Below(U, x) = S /\ x \in U
      <3>1. ~(x < x)
        OBVIOUS
      <3> QED BY <3>1 DEF Below
    <2> HIDE DEF U
    <2> QED BY <1>3, <2>1, SortedIs
  <1> DEFINE more == Append(Sorted(S), x)
  <1>6. /\ more \in Seq(Int) /\ Len(more) = n + 1
        /\ \A i \in 1..n : more[i] = Sorted(S)[i]
        /\ more[n + 1] = x
    BY <1>4
  <1> HIDE DEF more, U
  <1>7. Sorted(U) = more
    <2>1. ASSUME NEW i \in 1..n + 1
          PROVE  Sorted(U)[i] = more[i]
      <3>1. i \in 1..n \/ i = n + 1
        BY <1>4
      <3> QED BY <1>2, <1>4, <1>5, <1>6, <3>1
    <2> QED BY <1>2, <1>4, <1>6, <2>1, SeqEqual
  <1> QED BY <1>7 DEF more, U

-----------------------------------------------------------------------------
(* The process tree: its walk *)

TreePids == 1 .. TableSize
WalkPids == {walk[i].pid : i \in 1 .. Len(walk)}

\* Of the first n lines the last one of that depth is p's.
LastOf(list, n, depth, p) ==
    \E j \in 1 .. n :
        /\ list[j].depth = depth /\ list[j].pid = p
        /\ \A k \in j + 1 .. n : list[k].depth # depth

\* A line that follows the first n would be drawn from the right one.
Placed(l, list, n) ==
    /\ l.depth = 0 => l.pid = 2
    /\ l.depth = 1 => parent[l.pid] = 2 \/ l.pid \in members
    /\ l.depth > 1 => LastOf(list, n, l.depth - 1, parent[l.pid])

\* What is still to be walked is selected, has its place behind the lines so far, and the
\* deepest comes first: nothing above it is drawn before it is.
WalkInv ==
    /\ \A i \in 1 .. Len(walk) :
         /\ Placed(walk[i], output, Len(output))
         /\ walk[i].pid \in Tree!Present => walk[i].pid \in Tree!Selected
    /\ \A i, j \in 1 .. Len(walk) : i < j => walk[j].depth <= walk[i].depth

\* The lines are those of the processes the walk has been at, each in its place.
OutputInv ==
    /\ {output[i].pid : i \in 1 .. Len(output)} = visited \cap Tree!Present
    /\ visited \cap Tree!Present \subseteq Tree!Selected
    /\ \A i, j \in 1 .. Len(output) : output[i].pid = output[j].pid => i = j
    /\ \A i \in 1 .. Len(output) : Placed(output[i], output, i - 1)

\* Nothing is forgotten: the children of a process are walked with it, and at the end the
\* members, whatever their parents are.
CoverInv ==
    /\ 2 \in members
    /\ \A p \in visited \cap Tree!Present : Tree!Children(p) \subseteq visited \cup WalkPids
    /\ stage \in {"remaining", "done"} => members \subseteq visited \cup WalkPids
    /\ stage = "done" => walk = <<>>

TreeInv == Tree!TypeOK /\ WalkInv /\ OutputInv /\ CoverInv

LEMMA TreeSorted ==
    ASSUME NEW S
    PROVE  Tree!Sorted(S) = Sorted(S)
  <1>1. \A T : Tree!Cardinality(T) = Cardinality(T)
    BY DEF Tree!Cardinality, Cardinality, Tree!IsFiniteSet, IsFiniteSet
  <1>2. \A x : Tree!Cardinality(Tree!Below(S, x)) = Cardinality(Below(S, x))
    BY <1>1 DEF Tree!Below, Below
  <1>3. \A i : (CHOOSE x \in S : Tree!Cardinality(Tree!Below(S, x)) = i - 1)
               = CHOOSE x \in S : Cardinality(Below(S, x)) = i - 1
    BY <1>2
  <1> QED BY <1>1, <1>3 DEF Tree!Sorted, Sorted

LEMMA CallsAre ==
    ASSUME NEW pids \in SUBSET TreePids, NEW depth \in Nat
    PROVE  /\ Tree!Calls(pids, depth) \in Seq(Tree!Line)
           /\ \A i \in 1 .. Len(Tree!Calls(pids, depth)) :
                /\ Tree!Calls(pids, depth)[i].pid \in pids
                /\ Tree!Calls(pids, depth)[i].depth = depth
           /\ \A p \in pids : \E i \in 1 .. Len(Tree!Calls(pids, depth)) :
                Tree!Calls(pids, depth)[i].pid = p
  <1> DEFINE s == Sorted(pids)
             calls == Tree!Calls(pids, depth)
  <1>1. pids \in SUBSET Int /\ IsFiniteSet(pids)
    <2>1. IsFiniteSet(TreePids)
      BY ComponentsAssumption, FS_Interval DEF TreePids
    <2>2. IsFiniteSet(pids)
      BY <2>1, FS_Subset
    <2> QED BY <2>2 DEF TreePids
  <1>2. /\ s \in Seq(pids) /\ Len(s) = Cardinality(pids)
        /\ \A p \in pids : \E i \in 1 .. Len(s) : s[i] = p
    BY <1>1, SortedIs
  <1>3. calls = [i \in 1 .. Len(s) |-> [pid |-> s[i], depth |-> depth]]
    <2>1. DOMAIN s = 1 .. Len(s)
      BY <1>2
    <2> QED BY <2>1, TreeSorted DEF Tree!Calls
  <1> HIDE DEF s, calls
  <1>4. \A i \in 1 .. Len(s) : s[i] \in pids /\ [pid |-> s[i], depth |-> depth] \in Tree!Line
    <2> TAKE i \in 1 .. Len(s)
    <2>1. s[i] \in pids
      BY <1>2
    <2> QED BY <2>1 DEF Tree!Line, TreePids
  <1>5. calls \in Seq(Tree!Line) /\ Len(calls) = Len(s)
    <2>1. Len(s) \in Nat /\ calls \in [1 .. Len(s) -> Tree!Line]
      BY <1>2, <1>3, <1>4
    <2> QED BY <2>1
  <1>6. \A i \in 1 .. Len(s) : calls[i].pid = s[i] /\ calls[i].depth = depth
    BY <1>3
  <1> QED BY <1>2, <1>4, <1>5, <1>6 DEF calls

LEMMA SelectedLeast ==
    /\ members \cap Tree!Present \subseteq Tree!Selected
    /\ \A p \in Tree!Selected : Tree!Children(p) \subseteq Tree!Selected
    /\ \A closed \in SUBSET Tree!Present :
         /\ members \cap Tree!Present \subseteq closed
         /\ \A p \in closed : Tree!Children(p) \subseteq closed
         => Tree!Selected \subseteq closed
  BY DEF Tree!Selected, Tree!Children

LEMMA TreeInitInv == Tree!Init => TreeInv
  <1> SUFFICES ASSUME Tree!Init
               PROVE  TreeInv
    OBVIOUS
  <1>1. 2 \in members /\ members \subseteq TreePids /\ Tree!Present \subseteq TreePids
    BY ComponentsAssumption DEF Tree!Init, Tree!Present, TreePids
  <1>2. walk = Tree!Calls({2}, 0) /\ visited = {} /\ output = <<>> /\ stage = "root"
    BY DEF Tree!Init
  <1>3. /\ walk \in Seq(Tree!Line)
        /\ \A i \in 1 .. Len(walk) : walk[i].pid = 2 /\ walk[i].depth = 0
    <2>1. {2} \in SUBSET TreePids
      BY <1>1
    <2> QED BY <1>2, <2>1, CallsAre
  <1>4. Tree!TypeOK
    BY <1>1, <1>2, <1>3 DEF Tree!TypeOK, TreePids
  <1>5. WalkInv
    <2>1. 2 \in Tree!Present => 2 \in Tree!Selected
      BY <1>1, SelectedLeast
    <2> QED BY <1>3, <2>1 DEF WalkInv, Placed
  <1>6. OutputInv /\ CoverInv
    BY <1>1, <1>2 DEF OutputInv, CoverInv
  <1> QED BY <1>4, <1>5, <1>6 DEF TreeInv

\* Dropping the next call forgets nothing if it was walked.
LEMMA DropCall ==
    ASSUME TreeInv, walk # <<>>, stage' = stage, members' = members, parent' = parent,
           walk' = Tail(walk), output' = output,
           visited' \in SUBSET TreePids, visited \cup {Head(walk).pid} \subseteq visited',
           visited' \cap Tree!Present = visited \cap Tree!Present
    PROVE  TreeInv'
  <1> USE DEF TreeInv
  <1>1. /\ walk' \in Seq(Tree!Line) /\ Len(walk') = Len(walk) - 1 /\ Len(walk) \in Nat
        /\ \A i \in 1 .. Len(walk') : walk'[i] = walk[i + 1] /\ i + 1 \in 1 .. Len(walk)
        /\ Head(walk) = walk[1]
    BY DEF Tree!TypeOK
  <1>2. Tree!Present' = Tree!Present /\ Tree!Selected' = Tree!Selected
    BY DEF Tree!Present, Tree!Selected, Tree!Children
  <1>4. Tree!TypeOK'
    BY <1>1, <1>2 DEF Tree!TypeOK, TreePids
  <1>5. WalkInv'
    BY <1>1, <1>2 DEF WalkInv, Placed
  <1>6. OutputInv'
    BY <1>2 DEF OutputInv, Placed
  <1>7. WalkPids \subseteq WalkPids' \cup {Head(walk).pid}
    <2> SUFFICES ASSUME NEW i \in 1 .. Len(walk)
                 PROVE  walk[i].pid \in WalkPids' \cup {walk[1].pid}
      BY <1>1 DEF WalkPids
    <2>1. CASE i = 1
      BY <2>1
    <2>2. CASE i # 1
      <3>1. i - 1 \in 1 .. Len(walk') /\ walk'[i - 1] = walk[i]
        BY <1>1, <2>2
      <3> QED BY <3>1 DEF WalkPids
    <2> QED BY <2>1, <2>2
  <1>8. CoverInv'
    <2>1. \A p : Tree!Children(p)' = Tree!Children(p)
      BY <1>2 DEF Tree!Children
    <2>2. stage = "done" => FALSE
      BY DEF CoverInv
    <2> QED BY <1>2, <1>7, <2>1, <2>2 DEF CoverInv
  <1> QED BY <1>4, <1>5, <1>6, <1>8

\* The members that are left are called on the first level.
LEMMA CallMembers ==
    ASSUME TreeInv, walk = <<>>, members' = members, parent' = parent, output' = output,
           visited' = visited, stage' \in {"detached", "remaining"},
           NEW pids \in SUBSET members, walk' = Tree!Calls(pids, 1),
           stage' = "remaining" => members \subseteq visited \cup pids
    PROVE  TreeInv'
  <1> USE DEF TreeInv
  <1>1. /\ walk' \in Seq(Tree!Line)
        /\ \A i \in 1 .. Len(walk') : walk'[i].pid \in pids /\ walk'[i].depth = 1
        /\ \A p \in pids : \E i \in 1 .. Len(walk') : walk'[i].pid = p
    <2>1. pids \in SUBSET TreePids
      BY DEF Tree!TypeOK, TreePids
    <2> HIDE DEF TreeInv
    <2> QED BY <2>1, CallsAre
  <1>2. Tree!Present' = Tree!Present /\ Tree!Selected' = Tree!Selected
    BY DEF Tree!Present, Tree!Selected, Tree!Children
  <1>4. Tree!TypeOK'
    BY <1>1, <1>2 DEF Tree!TypeOK
  <1>5. WalkInv'
    <2>1. \A p \in pids \cap Tree!Present : p \in Tree!Selected
      BY SelectedLeast
    <2>2. \A i \in 1 .. Len(walk') : Placed(walk'[i], output', Len(output'))
      BY <1>1 DEF Placed
    <2>3. \A i, j \in 1 .. Len(walk') : walk'[j].depth <= walk'[i].depth
      BY <1>1
    <2> QED BY <1>1, <1>2, <2>1, <2>2, <2>3 DEF WalkInv, Placed
  <1>6. OutputInv'
    BY <1>2 DEF OutputInv, Placed
  <1>7. WalkPids = {} /\ pids \subseteq WalkPids'
    BY <1>1 DEF WalkPids
  <1>8. \A p : Tree!Children(p)' = Tree!Children(p)
    BY <1>2 DEF Tree!Children
  <1>9. CoverInv'
    BY <1>2, <1>7, <1>8 DEF CoverInv
  <1> QED BY <1>4, <1>5, <1>6, <1>9

\* A process is listed below its parent, and its children are walked next.
LEMMA ListEntry ==
    ASSUME TreeInv, Tree!AppendEntry
    PROVE  TreeInv'
  <1> DEFINE p == Head(walk)
             n == Len(output)
             calls == Tree!Calls(Tree!Children(p.pid), p.depth + 1)
             c == Len(calls)
             rest_ == Tail(walk)
  <1> USE DEF TreeInv
  <1>1. /\ walk # <<>> /\ p.pid \in Tree!Present /\ p.pid \notin visited
        /\ visited' = visited \cup {p.pid} /\ output' = Append(output, p)
        /\ walk' = calls \o rest_
        /\ parent' = parent /\ members' = members /\ stage' = stage
    BY DEF Tree!AppendEntry
  <1>2. /\ walk \in Seq(Tree!Line) /\ Len(walk) \in Nat /\ Len(walk) >= 1
        /\ p = walk[1] /\ 1 \in 1 .. Len(walk) /\ p \in Tree!Line
        /\ p.depth \in Nat /\ p.pid \in TreePids
        /\ rest_ \in Seq(Tree!Line) /\ Len(rest_) = Len(walk) - 1
        /\ \A i \in 1 .. Len(rest_) : rest_[i] = walk[i + 1] /\ i + 1 \in 1 .. Len(walk)
    <2>1. walk \in Seq(Tree!Line) /\ walk # <<>>
      BY <1>1 DEF Tree!TypeOK
    <2>2. Len(walk) \in Nat /\ Len(walk) >= 1 /\ p = walk[1] /\ 1 \in 1 .. Len(walk)
      BY <2>1
    <2> HIDE DEF p, TreeInv
    <2>3. p \in Tree!Line
      BY <2>1, <2>2
    <2>4. p.depth \in Nat /\ p.pid \in TreePids
      BY <2>3 DEF Tree!Line, TreePids
    <2>5. /\ rest_ \in Seq(Tree!Line) /\ Len(rest_) = Len(walk) - 1
          /\ \A i \in 1 .. Len(rest_) : rest_[i] = walk[i + 1] /\ i + 1 \in 1 .. Len(walk)
      BY <2>1
    <2> QED BY <2>1, <2>2, <2>3, <2>4, <2>5
  <1>3. /\ calls \in Seq(Tree!Line) /\ c \in Nat
        /\ \A i \in 1 .. c : calls[i].pid \in Tree!Children(p.pid) /\ calls[i].depth = p.depth + 1
        /\ \A q \in Tree!Children(p.pid) : \E i \in 1 .. c : calls[i].pid = q
    <2>1. Tree!Children(p.pid) \in SUBSET TreePids
      BY DEF Tree!TypeOK, Tree!Children, TreePids
    <2>2. p.depth + 1 \in Nat
      BY <1>2
    <2>3. calls \in Seq(Tree!Line) => c \in Nat
      OBVIOUS
    <2> HIDE DEF p
    <2> QED BY <2>1, <2>2, <2>3, CallsAre
  <1>4. /\ output \in Seq(Tree!Line) /\ n \in Nat
        /\ output' \in Seq(Tree!Line) /\ Len(output') = n + 1
        /\ \A i \in 1 .. n : output'[i] = output[i]
        /\ output'[n + 1] = p
    BY <1>1, <1>2 DEF Tree!TypeOK
  <1> HIDE DEF p, calls, c, rest_, n
  <1>5. /\ walk' \in Seq(Tree!Line) /\ Len(walk') = c + Len(rest_)
        /\ \A i \in 1 .. c : walk'[i] = calls[i]
        /\ \A i \in 1 .. Len(rest_) : walk'[c + i] = rest_[i]
    BY <1>1, <1>2, <1>3 DEF c
  <1>6. /\ Tree!Present' = Tree!Present /\ Tree!Selected' = Tree!Selected
        /\ \A q : Tree!Children(q)' = Tree!Children(q)
    BY <1>1 DEF Tree!Present, Tree!Selected, Tree!Children
  \* Every call is one for a child, or one of the calls that were left, which are no deeper.
  <1>7. \A i \in 1 .. Len(walk') :
          \/ /\ i \in 1 .. c /\ walk'[i] = calls[i]
          \/ /\ i \notin 1 .. c /\ i - c \in 1 .. Len(rest_) /\ (i - c) + 1 \in 2 .. Len(walk)
             /\ walk'[i] = walk[(i - c) + 1]
    <2> TAKE i \in 1 .. Len(walk')
    <2>1. CASE i \in 1 .. c
      BY <1>5, <2>1
    <2>2. CASE i \notin 1 .. c
      <3>1. i - c \in 1 .. Len(rest_) /\ c + (i - c) = i
        BY <1>2, <1>3, <1>5, <2>2
      <3>2. walk'[i] = rest_[i - c]
        BY <1>5, <3>1
      <3>3. (i - c) + 1 \in 2 .. Len(walk)
        BY <1>2, <1>3, <3>1
      <3> QED BY <1>2, <2>2, <3>1, <3>2, <3>3
    <2> QED BY <2>1, <2>2
  <1>8. \A i \in 2 .. Len(walk) :
          /\ i \in 1 .. Len(walk) /\ walk[i] \in Tree!Line
          /\ walk[i].depth \in Nat /\ walk[i].depth <= p.depth
    <2> TAKE i \in 2 .. Len(walk)
    <2>1. i \in 1 .. Len(walk) /\ 1 < i
      BY <1>2
    <2>2. walk[i].depth <= walk[1].depth
      BY <1>2, <2>1 DEF WalkInv
    <2>3. walk[i] \in Tree!Line
      BY <1>2, <2>1
    <2> QED BY <1>2, <2>1, <2>2, <2>3 DEF Tree!Line
  <1>9. Tree!TypeOK'
    BY <1>1, <1>2, <1>4, <1>5, <1>6 DEF Tree!TypeOK, TreePids
  \* What is drawn from the lines so far is not touched by a line that is as deep, or deeper.
  <1>10. ASSUME NEW depth \in Nat, depth < p.depth, NEW q, LastOf(output, n, depth, q)
         PROVE  LastOf(output', n + 1, depth, q)
    <2>1. PICK j \in 1 .. n : /\ output[j].depth = depth /\ output[j].pid = q
                              /\ \A k \in j + 1 .. n : output[k].depth # depth
      BY <1>10 DEF LastOf
    <2>2. j \in 1 .. n + 1 /\ output'[j] = output[j]
      BY <1>4
    <2>3. ASSUME NEW k \in j + 1 .. n + 1
          PROVE  output'[k].depth # depth
      <3>1. CASE k = n + 1
        BY <1>2, <1>4, <1>10, <3>1
      <3>2. CASE k # n + 1
        <4>1. k \in 1 .. n /\ k \in j + 1 .. n
          BY <1>4, <3>2
        <4> QED BY <1>4, <2>1, <4>1
      <3> QED BY <3>1, <3>2
    <2> QED BY <2>1, <2>2, <2>3 DEF LastOf
  <1>11. ASSUME NEW m \in 0 .. n, NEW depth, NEW q, LastOf(output, m, depth, q)
         PROVE  LastOf(output', m, depth, q)
    <2>1. /\ \A j \in 1 .. m : output'[j] = output[j]
          /\ \A j \in 1 .. m : \A k \in j + 1 .. m : output'[k] = output[k]
      BY <1>4
    <2> QED BY <1>11, <2>1 DEF LastOf
  <1>12. \A i \in 1 .. Len(walk') : Placed(walk'[i], output', n + 1)
    <2> TAKE i \in 1 .. Len(walk')
    <2>1. CASE i \in 1 .. c /\ walk'[i] = calls[i]
      <3> DEFINE l == walk'[i]
      <3>1. l.depth = p.depth + 1 /\ parent[l.pid] = p.pid
        BY <1>3, <2>1 DEF Tree!Children
      <3>2. CASE p.depth = 0
        <4>1. p.pid = 2
          BY <1>2, <3>2 DEF WalkInv, Placed
        <4> QED BY <1>1, <3>1, <3>2, <4>1 DEF Placed
      <3>3. CASE p.depth # 0
        <4>1. LastOf(output', n + 1, p.depth, p.pid)
          <5>1. n + 1 \in 1 .. n + 1 /\ (n + 1) + 1 .. n + 1 = {}
            BY <1>4
          <5> QED BY <1>4, <5>1 DEF LastOf
        <4>2. l.depth > 1 /\ l.depth - 1 = p.depth
          BY <1>2, <3>1, <3>3
        <4> HIDE DEF l
        <4>3. Placed(l, output', n + 1)
          BY <1>1, <3>1, <4>1, <4>2, <1>2 DEF Placed
        <4> QED BY <4>3 DEF l
      <3> QED BY <3>2, <3>3
    <2>2. CASE (i - c) + 1 \in 2 .. Len(walk) /\ walk'[i] = walk[(i - c) + 1]
      <3> DEFINE l == walk[(i - c) + 1]
      <3>1. /\ Placed(l, output, n) /\ l.depth \in Nat /\ l.depth <= p.depth /\ l = walk'[i]
        BY <1>8, <2>2 DEF WalkInv, n
      <3> HIDE DEF l
      <3>2. l.depth > 1 => LastOf(output', n + 1, l.depth - 1, parent[l.pid])
        <4> SUFFICES ASSUME l.depth > 1
                     PROVE  LastOf(output', n + 1, l.depth - 1, parent[l.pid])
          OBVIOUS
        <4>1. l.depth - 1 \in Nat /\ l.depth - 1 < p.depth
          BY <1>2, <3>1
        <4>2. LastOf(output, n, l.depth - 1, parent[l.pid])
          BY <3>1 DEF Placed
        <4> QED BY <1>10, <1>1, <3>1, <4>1, <4>2
      <3> QED BY <1>1, <3>1, <3>2 DEF Placed
    <2> QED BY <1>7, <2>1, <2>2
  <1>13. \A i, j \in 1 .. Len(walk') : i < j => walk'[j].depth <= walk'[i].depth
    <2> SUFFICES ASSUME NEW i \in 1 .. Len(walk'), NEW j \in 1 .. Len(walk'), i < j
                 PROVE  walk'[j].depth <= walk'[i].depth
      OBVIOUS
    <2>1. CASE j \in 1 .. c
      <3>1. i \in 1 .. c
        BY <1>3, <2>1
      <3>2. walk'[i].depth = p.depth + 1 /\ walk'[j].depth = p.depth + 1
        BY <1>3, <1>5, <2>1, <3>1
      <3> QED BY <1>2, <3>2
    <2>2. CASE j \notin 1 .. c
      <3> DEFINE jj == (j - c) + 1
      <3>1. jj \in 2 .. Len(walk) /\ walk'[j] = walk[jj]
        BY <1>7, <2>2
      <3>2. CASE i \in 1 .. c
        <4>1. walk'[i].depth = p.depth + 1
          BY <1>3, <1>5, <3>2
        <4>2. walk'[j].depth \in Nat /\ walk'[j].depth <= p.depth
          BY <1>8, <3>1
        <4> QED BY <1>2, <4>1, <4>2
      <3>3. CASE i \notin 1 .. c
        <4> DEFINE ii == (i - c) + 1
        <4>1. ii \in 2 .. Len(walk) /\ walk'[i] = walk[ii]
          BY <1>7, <3>3
        <4>2. ii < jj /\ ii \in 1 .. Len(walk) /\ jj \in 1 .. Len(walk)
          BY <1>2, <1>3, <1>5, <3>1, <4>1
        <4> HIDE DEF ii, jj
        <4>3. walk[jj].depth <= walk[ii].depth
          BY <4>2 DEF WalkInv
        <4> QED BY <3>1, <4>1, <4>3
      <3> QED BY <3>2, <3>3
    <2> QED BY <2>1, <2>2
  <1>14. p.pid \in Tree!Selected
    BY <1>1, <1>2 DEF WalkInv
  <1>15. WalkInv'
    <2>1. \A i \in 1 .. Len(walk') : walk'[i].pid \in Tree!Present => walk'[i].pid \in Tree!Selected
      <3> TAKE i \in 1 .. Len(walk')
      <3>1. CASE i \in 1 .. c
        <4>1. walk'[i].pid \in Tree!Children(p.pid)
          BY <1>3, <1>5, <3>1
        <4>2. Tree!Children(p.pid) \subseteq Tree!Selected
          BY <1>14, SelectedLeast
        <4> QED BY <4>1, <4>2
      <3>2. CASE i \notin 1 .. c
        <4> DEFINE ii == (i - c) + 1
        <4>1. ii \in 1 .. Len(walk) /\ walk'[i] = walk[ii]
          BY <1>7, <1>8, <3>2
        <4> HIDE DEF ii
        <4> QED BY <4>1 DEF WalkInv
      <3> QED BY <3>1, <3>2
    <2>2. \A i \in 1 .. Len(walk') : Placed(walk'[i], output', Len(output'))
      BY <1>4, <1>12
    <2> QED BY <1>1, <1>6, <1>13, <2>1, <2>2 DEF WalkInv, Placed
  <1>16. OutputInv'
    <2>1. /\ {output[i].pid : i \in 1 .. n} = visited \cap Tree!Present
          /\ visited \cap Tree!Present \subseteq Tree!Selected
          /\ \A i, j \in 1 .. n : output[i].pid = output[j].pid => i = j
          /\ \A i \in 1 .. n : Placed(output[i], output, i - 1)
      BY DEF OutputInv, n
    <2>2. {output'[i].pid : i \in 1 .. n + 1} = visited' \cap Tree!Present
      <3>1. ASSUME NEW i \in 1 .. n + 1
            PROVE  output'[i].pid \in visited' \cap Tree!Present
        <4>1. CASE i = n + 1
          BY <1>1, <1>4, <4>1
        <4>2. CASE i # n + 1
          <5>1. i \in 1 .. n
            BY <1>4, <4>2
          <5> QED BY <1>1, <1>4, <2>1, <5>1
        <4> QED BY <4>1, <4>2
      <3>2. ASSUME NEW q \in visited' \cap Tree!Present
            PROVE  \E i \in 1 .. n + 1 : output'[i].pid = q
        <4>1. CASE q = p.pid
          <5>1. n + 1 \in 1 .. n + 1
            BY <1>4
          <5> QED BY <1>4, <4>1, <5>1
        <4>2. CASE q # p.pid
          <5>1. PICK i \in 1 .. n : output[i].pid = q
            BY <1>1, <2>1, <3>2, <4>2
          <5>2. i \in 1 .. n + 1
            BY <1>4
          <5> QED BY <1>4, <5>1, <5>2
        <4> QED BY <4>1, <4>2
      <3> QED BY <3>1, <3>2
    <2>3. visited' \cap Tree!Present \subseteq Tree!Selected
      BY <1>1, <1>14, <2>1
    <2>4. ASSUME NEW i \in 1 .. n
          PROVE  output'[i].pid # p.pid
      BY <1>1, <1>4, <2>1
    <2>5. \A i, j \in 1 .. n + 1 : output'[i].pid = output'[j].pid => i = j
      <3>1. \A i \in 1 .. n + 1 : i \in 1 .. n \/ i = n + 1
        BY <1>4
      <3> QED BY <1>4, <2>1, <2>4, <3>1
    <2>6. \A i \in 1 .. n + 1 : Placed(output'[i], output', i - 1)
      <3> TAKE i \in 1 .. n + 1
      <3>0. i \in Int /\ (i \in 1 .. n \/ i = n + 1)
        BY <1>4
      <3>1. i - 1 \in 0 .. n
        BY <1>4
      <3>2. output'[i] \in Tree!Line /\ Placed(output'[i], output, i - 1)
        <4>1. CASE i \in 1 .. n
          BY <1>4, <2>1, <4>1
        <4>2. CASE i = n + 1
          <5>1. Placed(p, output, n)
            BY <1>2 DEF WalkInv, n
          <5>2. (n + 1) - 1 = n
            BY <1>4
          <5> QED BY <1>2, <1>4, <4>2, <5>1, <5>2
        <4> QED BY <3>0, <4>1, <4>2
      <3> DEFINE l == output'[i]
      <3>3. l.depth > 1 => LastOf(output', i - 1, l.depth - 1, parent[l.pid])
        BY <1>11, <3>1, <3>2 DEF Placed
      <3> QED BY <3>2, <3>3 DEF Placed
    <2> QED BY <1>1, <1>4, <1>6, <2>2, <2>3, <2>5, <2>6 DEF OutputInv, Placed
  <1>17. Tree!Children(p.pid) \subseteq WalkPids'
    <2> SUFFICES ASSUME NEW q \in Tree!Children(p.pid)
                 PROVE  q \in WalkPids'
      OBVIOUS
    <2>1. PICK i \in 1 .. c : calls[i].pid = q
      BY <1>3
    <2>2. walk'[i].pid = q
      BY <1>5, <2>1
    <2>3. i \in 1 .. Len(walk')
      <3>1. Len(rest_) \in Nat
        BY <1>2
      <3> HIDE DEF TreeInv
      <3> QED BY <1>3, <1>5, <3>1
    <2> QED BY <2>2, <2>3 DEF WalkPids
  <1>18. WalkPids \subseteq visited' \cup WalkPids'
    <2> SUFFICES ASSUME NEW i \in 1 .. Len(walk)
                 PROVE  walk[i].pid \in visited' \cup WalkPids'
      BY DEF WalkPids
    <2>1. CASE i = 1
      BY <1>1, <1>2, <2>1
    <2>2. CASE i # 1
      <3>1. i - 1 \in 1 .. Len(rest_) /\ (i - 1) + 1 = i
        BY <1>2, <2>2
      <3>2. rest_[i - 1] = walk[i]
        BY <1>2, <3>1
      <3>3. c + (i - 1) \in 1 .. Len(walk') /\ walk'[c + (i - 1)] = walk[i]
        BY <1>2, <1>3, <1>5, <3>1, <3>2
      <3> QED BY <3>3 DEF WalkPids
    <2> QED BY <2>1, <2>2
  <1>19. CoverInv'
    <2>1. stage # "done"
      BY <1>1 DEF CoverInv
    <2> QED BY <1>1, <1>6, <1>17, <1>18, <2>1 DEF CoverInv
  <1> QED BY <1>9, <1>15, <1>16, <1>19

LEMMA TreeStep == TreeInv /\ [Tree!Next]_listVars => TreeInv'
  <1> SUFFICES ASSUME TreeInv, [Tree!Next]_listVars
               PROVE  TreeInv'
    OBVIOUS
  <1>1. CASE Tree!SkipVisited
    <2>1. /\ walk # <<>> /\ Head(walk).pid \in visited /\ walk' = Tail(walk)
          /\ stage' = stage /\ members' = members /\ parent' = parent
          /\ output' = output /\ visited' = visited
      BY <1>1 DEF Tree!SkipVisited
    <2>2. visited \in SUBSET TreePids
      BY DEF TreeInv, Tree!TypeOK, TreePids
    <2> QED BY <2>1, <2>2, DropCall
  <1>2. CASE Tree!SkipAbsent
    <2>1. /\ walk # <<>> /\ Head(walk).pid \notin Tree!Present /\ walk' = Tail(walk)
          /\ stage' = stage /\ members' = members /\ parent' = parent
          /\ output' = output /\ visited' = visited \cup {Head(walk).pid}
      BY <1>2 DEF Tree!SkipAbsent
    <2>2. visited \in SUBSET TreePids /\ walk \in Seq(Tree!Line)
      BY DEF TreeInv, Tree!TypeOK, TreePids
    <2>3. Head(walk) \in Tree!Line
      BY <2>1, <2>2
    <2>4. visited' \in SUBSET TreePids
      BY <2>1, <2>2, <2>3 DEF Tree!Line, TreePids
    <2>5. visited' \cap Tree!Present = visited \cap Tree!Present
      BY <2>1
    <2> QED BY <2>1, <2>4, <2>5, DropCall
  <1>3. CASE Tree!AppendEntry
    BY <1>3, ListEntry
  <1>4. CASE Tree!AppendDetached
    <2> DEFINE pids == {p \in (members \cap Tree!Present) \ visited : parent[p] \notin members}
    <2>1. /\ walk = <<>> /\ walk' = Tree!Calls(pids, 1) /\ stage' = "detached"
          /\ members' = members /\ parent' = parent /\ output' = output /\ visited' = visited
      BY <1>4 DEF Tree!AppendDetached
    <2>2. pids \in SUBSET members
      OBVIOUS
    <2>3. stage' # "remaining"
      BY <2>1
    <2> HIDE DEF pids
    <2> QED BY <2>1, <2>2, <2>3, CallMembers
  <1>5. CASE Tree!AppendRemaining
    <2> DEFINE pids == members \ visited
    <2>1. /\ walk = <<>> /\ walk' = Tree!Calls(pids, 1) /\ stage' = "remaining"
          /\ members' = members /\ parent' = parent /\ output' = output /\ visited' = visited
      BY <1>5 DEF Tree!AppendRemaining
    <2>2. pids \in SUBSET members /\ members \subseteq visited \cup pids
      OBVIOUS
    <2> HIDE DEF pids
    <2> QED BY <2>1, <2>2, CallMembers
  <1>6. CASE Tree!Finish
    <2>1. /\ walk = <<>> /\ stage = "remaining" /\ stage' = "done" /\ walk' = walk
          /\ members' = members /\ parent' = parent /\ output' = output /\ visited' = visited
      BY <1>6 DEF Tree!Finish
    <2>2. /\ Tree!Present' = Tree!Present /\ Tree!Selected' = Tree!Selected
          /\ \A p : Tree!Children(p)' = Tree!Children(p)
      BY <2>1 DEF Tree!Present, Tree!Selected, Tree!Children
    <2>3. Tree!TypeOK' /\ WalkInv' /\ OutputInv'
      BY <2>1, <2>2 DEF TreeInv, Tree!TypeOK, WalkInv, OutputInv, Placed
    <2>4. CoverInv'
      BY <2>1, <2>2 DEF TreeInv, CoverInv, WalkPids
    <2> QED BY <2>3, <2>4 DEF TreeInv
  <1>7. CASE UNCHANGED listVars
    <2>1. /\ walk' = walk /\ stage' = stage /\ members' = members
          /\ parent' = parent /\ output' = output /\ visited' = visited
      BY <1>7 DEF listVars
    <2>2. /\ Tree!Present' = Tree!Present /\ Tree!Selected' = Tree!Selected
          /\ \A p : Tree!Children(p)' = Tree!Children(p)
      BY <2>1 DEF Tree!Present, Tree!Selected, Tree!Children
    <2>3. Tree!TypeOK' /\ WalkInv' /\ OutputInv'
      BY <2>1, <2>2 DEF TreeInv, Tree!TypeOK, WalkInv, OutputInv, Placed
    <2>4. CoverInv'
      BY <2>1, <2>2 DEF TreeInv, CoverInv, WalkPids
    <2> QED BY <2>3, <2>4 DEF TreeInv
  <1> QED BY <1>1, <1>2, <1>3, <1>4, <1>5, <1>6, <1>7 DEF Tree!Next

\* When the walk is over, what was listed is closed under children: it is all there is.
LEMMA TreeComplete == TreeInv => Tree!TreeIsComplete
  <1> SUFFICES ASSUME TreeInv, stage = "done"
               PROVE  /\ {output[i].pid : i \in DOMAIN output} = Tree!Selected
                      /\ Tree!IsInjective([i \in DOMAIN output |-> output[i].pid])
                      /\ \A i \in DOMAIN output :
                           LET p == output[i].pid IN
                             CASE output[i].depth = 0 -> p = 2
                               [] output[i].depth = 1 -> parent[p] = 2 \/ p \in members
                               [] OTHER -> parent[p] = Tree!DrawnParent(i)
    BY DEF Tree!TreeIsComplete
  <1> DEFINE listed == visited \cap Tree!Present
  <1>1. output \in Seq(Tree!Line) /\ Len(output) \in Nat /\ DOMAIN output = 1 .. Len(output)
    BY DEF TreeInv, Tree!TypeOK
  <1>2. walk = <<>> /\ WalkPids = {}
    BY DEF TreeInv, CoverInv, WalkPids
  <1>3. /\ members \cap Tree!Present \subseteq listed
        /\ \A p \in listed : Tree!Children(p) \subseteq listed
    BY <1>2 DEF TreeInv, CoverInv, Tree!Children
  <1>4. Tree!Selected \subseteq listed
    <2>1. listed \in SUBSET Tree!Present
      OBVIOUS
    <2> HIDE DEF listed
    <2> QED BY <1>3, <2>1, SelectedLeast
  <1>5. {output[i].pid : i \in DOMAIN output} = Tree!Selected
    BY <1>1, <1>4 DEF TreeInv, OutputInv
  <1>6. Tree!IsInjective([i \in DOMAIN output |-> output[i].pid])
    BY <1>1 DEF TreeInv, OutputInv, Tree!IsInjective
  <1>7. ASSUME NEW i \in DOMAIN output
        PROVE  CASE output[i].depth = 0 -> output[i].pid = 2
                 [] output[i].depth = 1 -> parent[output[i].pid] = 2 \/ output[i].pid \in members
                 [] OTHER -> parent[output[i].pid] = Tree!DrawnParent(i)
    <2>1. i \in 1 .. Len(output) /\ output[i] \in Tree!Line /\ Placed(output[i], output, i - 1)
      BY <1>1 DEF TreeInv, OutputInv
    <2>2. output[i].depth \in Nat
      BY <2>1 DEF Tree!Line
    <2>3. ASSUME output[i].depth > 1
          PROVE  parent[output[i].pid] = Tree!DrawnParent(i)
      <3> DEFINE d == output[i].depth - 1
                 above == {j \in 1 .. i - 1 : output[j].depth = d}
      <3>1. PICK j \in 1 .. i - 1 : /\ output[j].depth = d /\ output[j].pid = parent[output[i].pid]
                                    /\ \A k \in j + 1 .. i - 1 : output[k].depth # d
        BY <2>1, <2>3 DEF Placed, LastOf
      <3>2. j \in above /\ j \in Int /\ \A k \in above : k \in Int /\ k <= j
        BY <2>1, <3>1
      <3>3. (CHOOSE x \in above : \A k \in above : k <= x) = j
        <4> HIDE DEF above
        <4>1. \A x \in above : (\A k \in above : k <= x) => x = j
          BY <3>2
        <4> QED BY <3>2, <4>1
      <3>4. Tree!DrawnParent(i) = output[CHOOSE x \in above : \A k \in above : k <= x].pid
        BY DEF Tree!DrawnParent
      <3> QED BY <3>1, <3>3, <3>4
    <2>4. CASE output[i].depth = 0
      BY <2>1, <2>4 DEF Placed
    <2>5. CASE output[i].depth = 1
      BY <2>1, <2>5 DEF Placed
    <2>6. CASE output[i].depth > 1
      <3>1. output[i].depth # 0 /\ output[i].depth # 1
        BY <2>2, <2>6
      <3> QED BY <2>3, <2>6, <3>1
    <2>7. output[i].depth = 0 \/ output[i].depth = 1 \/ output[i].depth > 1
      BY <2>2
    <2> QED BY <2>4, <2>5, <2>6, <2>7
  <1> QED BY <1>5, <1>6, <1>7

LEMMA TreeInvariance == SpecAll => []TreeInv
  <1>1. InitAll => TreeInv
    BY TreeInitInv DEF InitAll
  <1>2. TreeInv /\ [NextAll]_allVars => TreeInv'
    <2> SUFFICES ASSUME TreeInv, [NextAll]_allVars
                 PROVE  TreeInv'
      OBVIOUS
    <2>1. [Tree!Next]_listVars
      BY StepOfParts
    <2> QED BY <2>1, TreeStep
  <1> QED BY <1>1, <1>2, PTL DEF SpecAll

\* The list a process is shown with is complete, for a table of any size and any parents,
\* cycles included: everything selected has one line, below the line of its parent.
THEOREM SpecAllTreeIsComplete == SpecAll => []TreeIsComplete
  <1>1. TreeInv => TreeIsComplete
    BY TreeComplete DEF TreeIsComplete
  <1> QED BY <1>1, TreeInvariance, PTL

-----------------------------------------------------------------------------
(* The output reader: the lines of a text *)

LEMMA LeastNumber ==
    ASSUME NEW T \in SUBSET Nat, T # {}
    PROVE  \E n \in T : \A m \in T : n <= m
  <1> DEFINE Less == {p \in Nat \X Nat : p[1] < p[2]}
  <1>1. IsWellFoundedOn(Less, Nat)
    BY NatLessThanWellFounded DEF OpToRel
  <1>2. PICK n \in T : \A m \in T : ~(<<m, n>> \in Less)
    <2> HIDE DEF Less
    <2> QED BY <1>1, WFMin
  <1>3. ASSUME NEW m \in T
        PROVE  n <= m
    <2>1. <<m, n>> \in Nat \X Nat /\ m \in Nat /\ n \in Nat
      OBVIOUS
    <2>2. m < n => <<m, n>> \in Less
      BY <2>1
    <2> HIDE DEF Less
    <2> QED BY <1>2, <2>1, <2>2
  <1> QED BY <1>3

LEMMA ReaderMinIs ==
    ASSUME NEW T \in SUBSET Nat, NEW n \in T, \A m \in T : n <= m
    PROVE  Reader!Min(T) = n
  <1>1. \A x \in T : (\A y \in T : x <= y) => x = n
    OBVIOUS
  <1> QED BY <1>1 DEF Reader!Min

LEMMA ReaderMinIn ==
    ASSUME NEW T \in SUBSET Nat, T # {}
    PROVE  Reader!Min(T) \in T /\ \A m \in T : Reader!Min(T) <= m
  <1>1. PICK n \in T : \A m \in T : n <= m
    BY LeastNumber
  <1>2. Reader!Min(T) = n
    BY <1>1, ReaderMinIs
  <1> QED BY <1>1, <1>2

LEMMA ReaderMinOfTwo ==
    ASSUME NEW a \in Nat, NEW b \in Nat
    PROVE  Reader!Min({a, b}) = IF a <= b THEN a ELSE b
  <1>1. {a, b} \in SUBSET Nat
    OBVIOUS
  <1>2. CASE a <= b
    <2>1. \A m \in {a, b} : a <= m
      BY <1>2
    <2> QED BY <1>1, <1>2, <2>1, ReaderMinIs
  <1>3. CASE ~(a <= b)
    <2>1. \A m \in {a, b} : b <= m
      BY <1>3
    <2> QED BY <1>1, <1>3, <2>1, ReaderMinIs
  <1> QED BY <1>2, <1>3

LEMMA ReaderSorted ==
    ASSUME NEW S
    PROVE  Reader!Sorted(S) = Sorted(S)
  <1>1. \A T : Reader!Cardinality(T) = Cardinality(T)
    BY DEF Reader!Cardinality, Cardinality, Reader!IsFiniteSet, IsFiniteSet
  <1>2. \A x : Reader!Cardinality(Reader!Below(S, x)) = Cardinality(Below(S, x))
    BY <1>1 DEF Reader!Below, Below
  <1>3. \A i : (CHOOSE x \in S : Reader!Cardinality(Reader!Below(S, x)) = i - 1)
               = CHOOSE x \in S : Cardinality(Below(S, x)) = i - 1
    BY <1>2
  <1> QED BY <1>1, <1>3 DEF Reader!Sorted, Sorted

LEMMA PieceOf ==
    ASSUME NEW S, NEW s \in Seq(S), NEW a \in 1 .. Len(s) + 1, NEW b \in a - 1 .. Len(s)
    PROVE  /\ SubSeq(s, a, b) \in Seq(S) /\ Len(SubSeq(s, a, b)) = b - a + 1
           /\ \A i \in 1 .. b - a + 1 : SubSeq(s, a, b)[i] = s[a + i - 1]
  <1>1. Len(s) \in Nat
    OBVIOUS
  <1>2. \A i \in a .. b : s[i] \in S
    OBVIOUS
  <1> QED BY <1>1, <1>2, SubSeqProperties

LEMMA TrimEndType ==
    ASSUME NEW text \in Seq(Reader!Byte)
    PROVE  Reader!TrimEnd(text) \in Seq(Reader!Byte)
  <1> DEFINE ends == {i \in 0 .. Len(text) : \A j \in i + 1 .. Len(text) : text[j] \in {"r", "n"}}
             first == CHOOSE i \in ends : \A j \in ends : i <= j
  <1>1. Len(text) \in Nat /\ Len(text) \in ends
    OBVIOUS
  <1>2. ends \in SUBSET Nat
    OBVIOUS
  <1>3. first \in ends
    <2>1. \E i \in ends : \A j \in ends : i <= j
      <3> HIDE DEF ends
      <3> QED BY <1>1, <1>2, LeastNumber
    <2> HIDE DEF ends
    <2> QED BY <2>1
  <1>4. first \in 1 - 1 .. Len(text) /\ 1 \in 1 .. Len(text) + 1
    <2> HIDE DEF first
    <2> QED BY <1>1, <1>3
  <1>5. Reader!TrimEnd(text) = SubSeq(text, 1, first)
    BY DEF Reader!TrimEnd
  <1> HIDE DEF first
  <1> QED BY <1>4, <1>5, PieceOf

LEMMA CutType ==
    ASSUME NEW whole \in Seq(Reader!Byte)
    PROVE  Reader!Cut(whole) \in Reader!Line
  <1> DEFINE m == Reader!Min({MaxLine, Len(whole)})
  <1>1. MaxLine \in Nat /\ Len(whole) \in Nat
    BY ComponentsAssumption
  <1>2. m \in 1 - 1 .. Len(whole) /\ 1 \in 1 .. Len(whole) + 1
    BY <1>1, ReaderMinOfTwo
  <1> HIDE DEF m
  <1>3. SubSeq(whole, 1, m) \in Seq(Reader!Byte)
    BY <1>2, PieceOf
  <1>4. Reader!TrimEnd(SubSeq(whole, 1, m)) \in Seq(Reader!Byte)
    BY <1>3, TrimEndType
  <1> QED BY <1>4 DEF Reader!Cut, Reader!Line, m

OwedAt(text) ==
    {i \in Reader!Starts(text) : Reader!Cut(Reader!LineAt(text, i)) # Reader!Blank}

LEMMA LineAtIs ==
    ASSUME NEW text \in Seq(Reader!Byte), NEW i \in 1 .. Len(text)
    PROVE  \E e \in i .. Len(text) :
             /\ text[e] = "n" \/ e = Len(text)
             /\ \A k \in i .. e - 1 : text[k] # "n"
             /\ Reader!LineAt(text, i) = SubSeq(text, i, e)
             /\ Reader!LineAt(text, i) \in Seq(Reader!Byte)
  <1> DEFINE e == Reader!Min(Reader!Ends(text, i))
  <1>1. Len(text) \in Nat
    OBVIOUS
  <1>2. Reader!Ends(text, i) \in SUBSET Nat /\ Len(text) \in Reader!Ends(text, i)
    BY <1>1 DEF Reader!Ends
  <1>3. e \in Reader!Ends(text, i) /\ \A m \in Reader!Ends(text, i) : e <= m
    BY <1>2, ReaderMinIn
  <1>4. Reader!LineAt(text, i) = SubSeq(text, i, e)
    BY DEF Reader!LineAt
  <1> HIDE DEF e
  <1>5. e \in i .. Len(text) /\ (text[e] = "n" \/ e = Len(text))
    BY <1>3 DEF Reader!Ends
  <1>6. \A k \in i .. e - 1 : text[k] # "n"
    <2> SUFFICES ASSUME NEW k \in i .. e - 1, text[k] = "n"
                 PROVE  FALSE
      OBVIOUS
    <2>1. k \in i .. Len(text) /\ k < e
      BY <1>1, <1>5
    <2>2. k \in Reader!Ends(text, i)
      BY <2>1 DEF Reader!Ends
    <2>3. e <= k /\ e \in Int /\ k \in Int
      BY <1>1, <1>3, <1>5, <2>1, <2>2
    <2> QED BY <2>1, <2>3
  <1>7. SubSeq(text, i, e) \in Seq(Reader!Byte)
    <2>1. i \in 1 .. Len(text) + 1 /\ e \in i - 1 .. Len(text)
      BY <1>1, <1>5
    <2> QED BY <2>1, PieceOf
  <1> QED BY <1>4, <1>5, <1>6, <1>7

\* The end of a line is the first newline behind its start, or the end of the text.
LEMMA LineEnd ==
    ASSUME NEW text \in Seq(Reader!Byte), NEW i \in 1 .. Len(text), NEW e \in i .. Len(text),
           text[e] = "n" \/ e = Len(text), \A k \in i .. e - 1 : text[k] # "n"
    PROVE  Reader!LineAt(text, i) = SubSeq(text, i, e)
  <1>1. Len(text) \in Nat
    OBVIOUS
  <1>2. Reader!Ends(text, i) \in SUBSET Nat /\ e \in Reader!Ends(text, i)
    BY <1>1 DEF Reader!Ends
  <1>3. ASSUME NEW m \in Reader!Ends(text, i)
        PROVE  e <= m
    <2>1. m \in i .. Len(text) /\ (text[m] = "n" \/ m = Len(text))
      BY DEF Reader!Ends
    <2>2. m \in i .. e - 1 => m < Len(text) /\ text[m] # "n"
      BY <1>1
    <2> QED BY <1>1, <2>1, <2>2
  <1>4. Reader!Min(Reader!Ends(text, i)) = e
    BY <1>2, <1>3, ReaderMinIs
  <1> QED BY <1>4 DEF Reader!LineAt

LEMMA OwedIs ==
    ASSUME NEW text \in Seq(Reader!Byte)
    PROVE  /\ OwedAt(text) \in SUBSET Int /\ OwedAt(text) \subseteq 1 .. Len(text)
           /\ IsFiniteSet(OwedAt(text))
           /\ Sorted(OwedAt(text)) \in Seq(OwedAt(text))
           /\ Reader!Owed(text) = [k \in 1 .. Len(Sorted(OwedAt(text))) |->
                                     Reader!Cut(Reader!LineAt(text, Sorted(OwedAt(text))[k]))]
           /\ Reader!Owed(text) \in Seq(Reader!Line)
           /\ Len(Reader!Owed(text)) = Len(Sorted(OwedAt(text)))
  <1> DEFINE at == OwedAt(text)
             s == Sorted(at)
  <1>1. Len(text) \in Nat /\ DOMAIN text = 1 .. Len(text)
    OBVIOUS
  <1>2. at \subseteq 1 .. Len(text)
    BY <1>1 DEF OwedAt, Reader!Starts
  <1>3. at \in SUBSET Int /\ IsFiniteSet(at)
    <2>1. IsFiniteSet(1 .. Len(text))
      BY <1>1, FS_Interval
    <2> HIDE DEF at
    <2>2. IsFiniteSet(at)
      BY <1>2, <2>1, FS_Subset
    <2> QED BY <1>2, <2>2
  <1>4. s \in Seq(at)
    <2> HIDE DEF at
    <2> QED BY <1>3, SortedIs
  <1>5. Reader!Owed(text) = [k \in DOMAIN s |-> Reader!Cut(Reader!LineAt(text, s[k]))]
    BY ReaderSorted DEF Reader!Owed, OwedAt
  <1> HIDE DEF s, at
  <1>6. Len(s) \in Nat /\ DOMAIN s = 1 .. Len(s) /\ \A k \in 1 .. Len(s) : s[k] \in at
    BY <1>4
  <1>7. \A k \in 1 .. Len(s) : Reader!Cut(Reader!LineAt(text, s[k])) \in Reader!Line
    <2> TAKE k \in 1 .. Len(s)
    <2>1. s[k] \in 1 .. Len(text)
      BY <1>2, <1>6
    <2>2. Reader!LineAt(text, s[k]) \in Seq(Reader!Byte)
      BY <2>1, LineAtIs
    <2> QED BY <2>2, CutType
  <1>8. Reader!Owed(text) \in Seq(Reader!Line) /\ Len(Reader!Owed(text)) = Len(s)
    <2>1. Reader!Owed(text) \in [1 .. Len(s) -> Reader!Line]
      BY <1>5, <1>6, <1>7
    <2> QED BY <1>6, <2>1
  <1> QED BY <1>2, <1>3, <1>4, <1>5, <1>6, <1>8 DEF s, at

LEMMA PrefixIs ==
    ASSUME NEW S, NEW s \in Seq(S), NEW t \in Seq(S), Len(s) <= Len(t),
           \A i \in 1 .. Len(s) : s[i] = t[i]
    PROVE  Reader!IsPrefix(s, t)
  <1>1. Len(s) \in Nat /\ Len(t) \in Nat
    OBVIOUS
  <1>2. /\ 1 \in 1 .. Len(s) + 1 /\ Len(s) \in 1 - 1 .. Len(s)
        /\ 1 \in 1 .. Len(t) + 1 /\ Len(s) \in 1 - 1 .. Len(t)
    BY <1>1
  <1> DEFINE n == Len(s)
             ps == SubSeq(s, 1, n)
             pt == SubSeq(t, 1, n)
  <1>3. ps \in Seq(S) /\ Len(ps) = n - 1 + 1 /\ \A i \in 1 .. n - 1 + 1 : ps[i] = s[1 + i - 1]
    BY <1>2, PieceOf
  <1>4. pt \in Seq(S) /\ Len(pt) = n - 1 + 1 /\ \A i \in 1 .. n - 1 + 1 : pt[i] = t[1 + i - 1]
    BY <1>2, PieceOf
  <1> HIDE DEF ps, pt
  <1>5. \A i \in 1 .. n : ps[i] = pt[i]
    <2> TAKE i \in 1 .. n
    <2>1. i \in 1 .. n - 1 + 1 /\ 1 + i - 1 = i
      BY <1>1
    <2> QED BY <1>3, <1>4, <2>1
  <1>6. ps = pt
    BY <1>1, <1>3, <1>4, <1>5, SeqEqual
  <1> QED BY <1>6 DEF Reader!IsPrefix, ps, pt

\* The lines of a text that ends with a line are the first ones of every longer text.
LEMMA OwedPrefix ==
    ASSUME NEW w \in Seq(Reader!Byte), NEW m \in 0 .. Len(w), m = 0 \/ w[m] = "n"
    PROVE  /\ OwedAt(SubSeq(w, 1, m)) = OwedAt(w) \cap 1 .. m
           /\ \A i \in OwedAt(SubSeq(w, 1, m)) :
                Reader!LineAt(SubSeq(w, 1, m), i) = Reader!LineAt(w, i)
           /\ Reader!IsPrefix(Reader!Owed(SubSeq(w, 1, m)), Reader!Owed(w))
  <1> DEFINE u == SubSeq(w, 1, m)
  <1>1. Len(w) \in Nat /\ m \in Nat /\ m <= Len(w)
    OBVIOUS
  <1>2. u \in Seq(Reader!Byte) /\ Len(u) = m /\ \A i \in 1 .. m : u[i] = w[i]
    <2>1. 1 \in 1 .. Len(w) + 1 /\ m \in 1 - 1 .. Len(w) /\ m - 1 + 1 = m
      BY <1>1
    <2>2. \A i \in 1 .. m : 1 + i - 1 = i
      BY <1>1
    <2> QED BY <2>1, <2>2, PieceOf
  <1> HIDE DEF u
  <1>3. DOMAIN u = 1 .. m /\ DOMAIN w = 1 .. Len(w)
    BY <1>2
  <1>4. Reader!Starts(u) = Reader!Starts(w) \cap 1 .. m
    <2>1. \A i \in 1 .. m : i = 1 \/ (i - 1 \in 1 .. m /\ u[i - 1] = w[i - 1])
      BY <1>1, <1>2
    <2>2. 1 .. m \subseteq 1 .. Len(w)
      BY <1>1
    <2> QED BY <1>3, <2>1, <2>2 DEF Reader!Starts
  <1>5. ASSUME NEW i \in 1 .. m
        PROVE  Reader!LineAt(u, i) = Reader!LineAt(w, i)
    <2>0. i \in 1 .. Len(u)
      BY <1>2
    <2>1. PICK e \in i .. Len(u) :
            /\ u[e] = "n" \/ e = Len(u)
            /\ \A k \in i .. e - 1 : u[k] # "n"
            /\ Reader!LineAt(u, i) = SubSeq(u, i, e)
      BY <1>2, <2>0, LineAtIs
    <2>2. i \in 1 .. Len(w) /\ e \in i .. Len(w) /\ e \in 1 .. m
      BY <1>1, <1>2, <2>1
    <2>3. w[e] = "n"
      BY <1>2, <2>1, <2>2
    <2>4. \A k \in i .. e - 1 : w[k] # "n"
      <3> TAKE k \in i .. e - 1
      <3>1. k \in 1 .. m
        BY <1>1, <2>2
      <3> QED BY <1>2, <2>1, <3>1
    <2>5. Reader!LineAt(w, i) = SubSeq(w, i, e)
      BY <2>2, <2>3, <2>4, LineEnd
    <2>6. SubSeq(u, i, e) = SubSeq(w, i, e)
      <3> DEFINE pu == SubSeq(u, i, e)
                 pw == SubSeq(w, i, e)
      <3>1. /\ i \in 1 .. Len(u) + 1 /\ e \in i - 1 .. Len(u)
            /\ i \in 1 .. Len(w) + 1 /\ e \in i - 1 .. Len(w)
        BY <1>1, <1>2, <2>2
      <3>2. /\ pu \in Seq(Reader!Byte) /\ Len(pu) = e - i + 1
            /\ \A k \in 1 .. e - i + 1 : pu[k] = u[i + k - 1]
        BY <1>2, <3>1, PieceOf
      <3>3. /\ pw \in Seq(Reader!Byte) /\ Len(pw) = e - i + 1
            /\ \A k \in 1 .. e - i + 1 : pw[k] = w[i + k - 1]
        BY <3>1, PieceOf
      <3>4. \A k \in 1 .. e - i + 1 : i + k - 1 \in 1 .. m
        BY <1>1, <2>2
      <3> HIDE DEF pu, pw
      <3>5. \A k \in 1 .. Len(pu) : pu[k] = pw[k]
        BY <1>2, <3>2, <3>3, <3>4
      <3>6. pu = pw
        BY <3>2, <3>3, <3>5, SeqEqual
      <3> QED BY <3>6 DEF pu, pw
    <2> QED BY <2>1, <2>5, <2>6
  <1>6. OwedAt(u) = OwedAt(w) \cap 1 .. m
    <2>1. Reader!Starts(u) \subseteq 1 .. m
      BY <1>4
    <2> QED BY <1>4, <1>5, <2>1 DEF OwedAt
  <1>7. Reader!IsPrefix(Reader!Owed(u), Reader!Owed(w))
    <2> DEFINE S == OwedAt(u)
               T == OwedAt(w) \ 1 .. m
               W == OwedAt(w)
    <2>1. /\ W \in SUBSET Int /\ W \subseteq 1 .. Len(w) /\ IsFiniteSet(W)
          /\ Reader!Owed(w) = [k \in 1 .. Len(Sorted(W)) |->
                                 Reader!Cut(Reader!LineAt(w, Sorted(W)[k]))]
          /\ Reader!Owed(w) \in Seq(Reader!Line)
          /\ Len(Reader!Owed(w)) = Len(Sorted(W))
      BY OwedIs
    <2>2. /\ S \in SUBSET Int /\ IsFiniteSet(S) /\ Sorted(S) \in Seq(S)
          /\ Reader!Owed(u) = [k \in 1 .. Len(Sorted(S)) |->
                                 Reader!Cut(Reader!LineAt(u, Sorted(S)[k]))]
          /\ Reader!Owed(u) \in Seq(Reader!Line)
          /\ Len(Reader!Owed(u)) = Len(Sorted(S))
      BY <1>2, OwedIs
    <2>3. W = S \cup T
      BY <1>6
    <2>4. S \subseteq 1 .. m /\ T \in SUBSET W /\ \A y \in T : y \notin 1 .. m
      BY <1>6
    <2> HIDE DEF S, T, W
    <2>5. IsFiniteSet(T) /\ T \in SUBSET Int
      BY <2>1, <2>4, FS_Subset
    <2>6. \A x \in S, y \in T : x < y
      <3> TAKE x \in S, y \in T
      <3>1. x \in 1 .. m /\ y \in 1 .. Len(w) /\ y \notin 1 .. m
        BY <2>1, <2>4
      <3> QED BY <1>1, <3>1
    <2>7. /\ Len(Sorted(W)) = Len(Sorted(S)) + Cardinality(T)
          /\ \A k \in 1 .. Len(Sorted(S)) : Sorted(W)[k] = Sorted(S)[k]
      <3>1. /\ Len(Sorted(S \cup T)) = Len(Sorted(S)) + Cardinality(T)
            /\ \A k \in 1 .. Len(Sorted(S)) : Sorted(S \cup T)[k] = Sorted(S)[k]
        BY <2>2, <2>5, <2>6, SortedPrefix
      <3> QED BY <2>3, <3>1
    <2>8. /\ Cardinality(T) \in Nat /\ Len(Sorted(S)) \in Nat
          /\ \A k \in 1 .. Len(Sorted(S)) : Sorted(S)[k] \in S
      BY <2>2, <2>5, FS_CardinalityType
    <2>9. Len(Reader!Owed(u)) <= Len(Reader!Owed(w))
      BY <2>1, <2>2, <2>7, <2>8
    <2>10. ASSUME NEW k \in 1 .. Len(Sorted(S))
           PROVE  Reader!Owed(u)[k] = Reader!Owed(w)[k]
      <3>1. k \in 1 .. Len(Sorted(W)) /\ Sorted(W)[k] = Sorted(S)[k]
        BY <2>7, <2>8
      <3>2. Sorted(S)[k] \in 1 .. m
        BY <2>4, <2>8
      <3>3. Reader!Owed(u)[k] = Reader!Cut(Reader!LineAt(u, Sorted(S)[k]))
        BY <2>2
      <3>4. Reader!Owed(w)[k] = Reader!Cut(Reader!LineAt(w, Sorted(W)[k]))
        BY <2>1, <3>1
      <3>5. Reader!LineAt(u, Sorted(S)[k]) = Reader!LineAt(w, Sorted(S)[k])
        BY <1>5, <3>2
      <3> QED BY <3>1, <3>3, <3>4, <3>5
    <2> QED BY <2>1, <2>2, <2>9, <2>10, PrefixIs
  <1>8. \A i \in OwedAt(u) : Reader!LineAt(u, i) = Reader!LineAt(w, i)
    BY <1>5, <1>6
  <1> QED BY <1>6, <1>7, <1>8 DEF u

\* What a text is owed, with one more line: that line as well, unless it is blank.
LEMMA OwedLine ==
    ASSUME NEW v \in Seq(Reader!Byte), NEW m \in 0 .. Len(v) - 1, m = 0 \/ v[m] = "n",
           \A i \in m + 1 .. Len(v) - 1 : v[i] # "n"
    PROVE  LET more == Reader!Cut(SubSeq(v, m + 1, Len(v)))
               owed == Reader!Owed(SubSeq(v, 1, m))
           IN Reader!Owed(v) = IF more = Reader!Blank THEN owed ELSE Append(owed, more)
  <1> DEFINE u == SubSeq(v, 1, m)
             more == Reader!Cut(SubSeq(v, m + 1, Len(v)))
             S == OwedAt(u)
             W == OwedAt(v)
  <1>1. Len(v) \in Nat /\ m \in Nat /\ m < Len(v) /\ m \in 0 .. Len(v) /\ DOMAIN v = 1 .. Len(v)
    OBVIOUS
  <1>2. u \in Seq(Reader!Byte) /\ Len(u) = m
    <2>1. 1 \in 1 .. Len(v) + 1 /\ m \in 1 - 1 .. Len(v) /\ m - 1 + 1 = m
      BY <1>1
    <2> QED BY <2>1, PieceOf
  <1>3. /\ S = W \cap 1 .. m
        /\ \A i \in S : Reader!LineAt(u, i) = Reader!LineAt(v, i)
    BY <1>1, OwedPrefix
  <1>4. Reader!LineAt(v, m + 1) = SubSeq(v, m + 1, Len(v))
    <2>1. m + 1 \in 1 .. Len(v) /\ Len(v) \in m + 1 .. Len(v)
      BY <1>1
    <2> QED BY <2>1, LineEnd
  <1>5. Reader!Starts(v) \subseteq 1 .. m + 1 /\ m + 1 \in Reader!Starts(v)
    <2>1. ASSUME NEW i \in 1 .. Len(v), i > m + 1
          PROVE  i # 1 /\ v[i - 1] # "n"
      <3>1. i - 1 \in m + 1 .. Len(v) - 1
        BY <1>1, <2>1
      <3> QED BY <1>1, <2>1, <3>1
    <2>2. Reader!Starts(v) \subseteq 1 .. m + 1
      BY <1>1, <2>1 DEF Reader!Starts
    <2>3. m + 1 \in 1 .. Len(v) /\ (m + 1) - 1 = m
      BY <1>1
    <2> QED BY <1>1, <2>2, <2>3 DEF Reader!Starts
  <1>6. W = IF more = Reader!Blank THEN S ELSE S \cup {m + 1}
    <2>1. m + 1 \in W <=> more # Reader!Blank
      BY <1>4, <1>5 DEF OwedAt
    <2>2. W \subseteq 1 .. m + 1
      BY <1>5 DEF OwedAt
    <2>3. \A i \in 1 .. m + 1 : i \in 1 .. m \/ i = m + 1
      BY <1>1
    <2> HIDE DEF W, S, more
    <2> QED BY <1>3, <2>1, <2>2, <2>3
  <1>7. /\ S \in SUBSET Int /\ IsFiniteSet(S) /\ S \subseteq 1 .. m
        /\ Sorted(S) \in Seq(S)
        /\ Reader!Owed(u) = [k \in 1 .. Len(Sorted(S)) |->
                               Reader!Cut(Reader!LineAt(u, Sorted(S)[k]))]
        /\ Reader!Owed(u) \in Seq(Reader!Line)
        /\ Len(Reader!Owed(u)) = Len(Sorted(S))
    BY <1>2, OwedIs
  <1>8. /\ Reader!Owed(v) = [k \in 1 .. Len(Sorted(W)) |->
                               Reader!Cut(Reader!LineAt(v, Sorted(W)[k]))]
        /\ Reader!Owed(v) \in Seq(Reader!Line)
        /\ Len(Reader!Owed(v)) = Len(Sorted(W))
    BY OwedIs
  <1>9. Len(Sorted(S)) \in Nat /\ \A k \in 1 .. Len(Sorted(S)) : Sorted(S)[k] \in S
    BY <1>7
  <1> HIDE DEF u, S, W
  <1>10. CASE more = Reader!Blank
    <2>1. W = S
      BY <1>6, <1>10
    <2>2. \A k \in 1 .. Len(Sorted(S)) :
            Reader!Cut(Reader!LineAt(v, Sorted(S)[k])) = Reader!Cut(Reader!LineAt(u, Sorted(S)[k]))
      BY <1>3, <1>9
    <2>3. Reader!Owed(v) = Reader!Owed(u)
      BY <1>7, <1>8, <2>1, <2>2
    <2> QED BY <1>10, <2>3 DEF u
  <1>11. CASE more # Reader!Blank
    <2>1. W = S \cup {m + 1}
      BY <1>6, <1>11
    <2>2. m + 1 \in Int /\ \A y \in S : y < m + 1
      BY <1>1, <1>7
    <2>3. Sorted(W) = Append(Sorted(S), m + 1)
      BY <1>7, <2>1, <2>2, SortedAppend
    <2> DEFINE n == Len(Sorted(S))
    <2>4. Sorted(S) \in Seq(Int)
      BY <1>7, SeqOfSubset
    <2>5. /\ Len(Sorted(W)) = n + 1
          /\ \A k \in 1 .. n : Sorted(W)[k] = Sorted(S)[k]
          /\ Sorted(W)[n + 1] = m + 1
      BY <2>2, <2>3, <2>4
    <2>6. more \in Reader!Line
      <3>1. m + 1 \in 1 .. Len(v) + 1 /\ Len(v) \in (m + 1) - 1 .. Len(v)
        BY <1>1
      <3>2. SubSeq(v, m + 1, Len(v)) \in Seq(Reader!Byte)
        BY <3>1, PieceOf
      <3> QED BY <3>2, CutType
    <2>7. more = Reader!Cut(Reader!LineAt(v, m + 1))
      BY <1>4
    <2> HIDE DEF more
    <2> DEFINE all == Append(Reader!Owed(u), more)
    <2>8. /\ all \in Seq(Reader!Line) /\ Len(all) = n + 1
          /\ \A k \in 1 .. n : all[k] = Reader!Owed(u)[k]
          /\ all[n + 1] = more
      BY <1>7, <2>6
    <2> HIDE DEF all
    <2>9. ASSUME NEW k \in 1 .. n + 1
          PROVE  Reader!Owed(v)[k] = all[k]
      <3>1. Reader!Owed(v)[k] = Reader!Cut(Reader!LineAt(v, Sorted(W)[k]))
        BY <1>8, <2>5
      <3>2. CASE k \in 1 .. n
        <4>1. Reader!Owed(u)[k] = Reader!Cut(Reader!LineAt(u, Sorted(S)[k]))
          BY <1>7, <3>2
        <4>2. Reader!LineAt(u, Sorted(S)[k]) = Reader!LineAt(v, Sorted(S)[k])
          BY <1>3, <1>9, <3>2
        <4> QED BY <2>5, <2>8, <3>1, <3>2, <4>1, <4>2
      <3>3. CASE k = n + 1
        BY <2>5, <2>7, <2>8, <3>1, <3>3
      <3>4. k \in 1 .. n \/ k = n + 1
        BY <1>9
      <3> QED BY <3>2, <3>3, <3>4
    <2>10. Reader!Owed(v) = all
      BY <1>8, <2>5, <2>8, <2>9, SeqEqual
    <2> QED BY <1>11, <2>10 DEF all, u, more
  <1> QED BY <1>10, <1>11

-----------------------------------------------------------------------------
(* The output reader: its invariant *)

\* What is kept of the line that starts behind the first m bytes, of which done are read.
Kept(w, m, done, text, cut) ==
    /\ Len(text) = IF done - m <= MaxLine THEN done - m ELSE MaxLine
    /\ \A i \in 1 .. Len(text) : text[i] = w[m + i]
    /\ cut <=> done - m > MaxLine

\* The line under way starts behind the first m bytes.
StartsBehind(w, m, done) ==
    /\ m \in 0 .. done
    /\ m = 0 \/ w[m] = "n"
    /\ \A i \in m + 1 .. done : w[i] # "n"

ReaderTypes ==
    /\ written \in Seq(Reader!Byte) /\ rest \in Seq(Reader!Byte)
    /\ line \in Seq(Reader!Byte) /\ logged \in Seq(Reader!Line)
    /\ truncated \in BOOLEAN /\ observed \in BOOLEAN
    /\ reading \in {"on", "ended", "failed"}

RestIs(w, r) ==
    /\ Len(r) <= Len(w)
    /\ \A i \in 1 .. Len(r) : r[i] = w[(Len(w) - Len(r)) + i]

\* The log has what it is owed for the lines before the one under way.
LineInv(w, r, text, cut, seen, log, end) ==
    \E m \in 0 .. Len(w) - Len(r) :
        /\ StartsBehind(w, m, Len(w) - Len(r))
        /\ Kept(w, m, Len(w) - Len(r), text, cut)
        /\ seen <=> m < Len(w) - Len(r)
        /\ end # "ended" => log = Reader!Owed(SubSeq(w, 1, m))

ReaderInv ==
    /\ ReaderTypes
    /\ RestIs(written, rest)
    /\ LineInv(written, rest, line, truncated, observed, logged, reading)
    /\ reading = "ended" => logged = Reader!Owed(written)

LEMMA Behind ==
    ASSUME NEW S, NEW s \in Seq(S), NEW n \in 0 .. Len(s), NEW m \in 0 .. n
    PROVE  /\ SubSeq(s, m + 1, n) \in Seq(S) /\ Len(SubSeq(s, m + 1, n)) = n - m
           /\ \A i \in 1 .. n - m : SubSeq(s, m + 1, n)[i] = s[m + i]
  <1>1. /\ m + 1 \in 1 .. Len(s) + 1 /\ n \in (m + 1) - 1 .. Len(s)
        /\ n - (m + 1) + 1 = n - m
    OBVIOUS
  <1>2. \A i \in 1 .. n - m : (m + 1) + i - 1 = m + i
    OBVIOUS
  <1> DEFINE part_ == SubSeq(s, m + 1, n)
  <1>3. /\ part_ \in Seq(S) /\ Len(part_) = n - (m + 1) + 1
        /\ \A i \in 1 .. n - (m + 1) + 1 : part_[i] = s[(m + 1) + i - 1]
    BY <1>1, PieceOf
  <1> HIDE DEF part_
  <1>4. \A i \in 1 .. n - m : part_[i] = s[m + i]
    BY <1>1, <1>2, <1>3
  <1> QED BY <1>1, <1>3, <1>4 DEF part_

LEMMA FirstOf ==
    ASSUME NEW S, NEW s \in Seq(S), NEW n \in 0 .. Len(s)
    PROVE  /\ SubSeq(s, 1, n) \in Seq(S) /\ Len(SubSeq(s, 1, n)) = n
           /\ \A i \in 1 .. n : SubSeq(s, 1, n)[i] = s[i]
  <1>1. n - 0 = n /\ 0 + 1 = 1 /\ 0 \in 0 .. n /\ \A i \in 1 .. n : 0 + i = i
    OBVIOUS
  <1>2. /\ SubSeq(s, 0 + 1, n) \in Seq(S) /\ Len(SubSeq(s, 0 + 1, n)) = n - 0
        /\ \A i \in 1 .. n - 0 : SubSeq(s, 0 + 1, n)[i] = s[0 + i]
    BY <1>1, Behind
  <1> QED BY <1>1, <1>2

\* What is kept of a line is what the log is owed of it.
LEMMA KeptIsCut ==
    ASSUME NEW w \in Seq(Reader!Byte), NEW done \in 0 .. Len(w), NEW m \in 0 .. done, m < done,
           NEW text \in Seq(Reader!Byte), NEW cut \in BOOLEAN, Kept(w, m, done, text, cut)
    PROVE  Reader!Cut(SubSeq(w, m + 1, done)) = [text |-> Reader!TrimEnd(text), cut |-> cut]
  <1> DEFINE whole == SubSeq(w, m + 1, done)
             n == IF done - m <= MaxLine THEN done - m ELSE MaxLine
  <1>1. Len(w) \in Nat /\ done \in Nat /\ m \in Nat /\ MaxLine \in Nat /\ done <= Len(w)
    BY ComponentsAssumption
  <1>2. /\ whole \in Seq(Reader!Byte) /\ Len(whole) = done - m
        /\ \A i \in 1 .. done - m : whole[i] = w[m + i]
    BY Behind
  <1> HIDE DEF whole
  <1>3. Reader!Min({MaxLine, Len(whole)}) = n
    <2>1. done - m \in Nat
      BY <1>1
    <2>2. MaxLine <= done - m \/ done - m < MaxLine
      BY <1>1
    <2>3. Reader!Min({MaxLine, done - m}) = IF MaxLine <= done - m THEN MaxLine ELSE done - m
      BY <1>1, <2>1, ReaderMinOfTwo
    <2> QED BY <1>1, <1>2, <2>1, <2>2, <2>3
  <1>4. n \in 0 .. Len(whole) /\ \A i \in 1 .. n : i \in 1 .. done - m
    BY <1>1, <1>2
  <1>5. Len(text) = n /\ (\A i \in 1 .. n : text[i] = w[m + i]) /\ (cut <=> done - m > MaxLine)
    BY DEF Kept
  <1> HIDE DEF n
  <1> DEFINE head == SubSeq(whole, 1, n)
  <1>6. head \in Seq(Reader!Byte) /\ Len(head) = n /\ \A i \in 1 .. n : head[i] = whole[i]
    BY <1>2, <1>4, FirstOf
  <1> HIDE DEF head
  <1>7. head = text
    <2>1. \A i \in 1 .. n : head[i] = text[i]
      BY <1>2, <1>4, <1>5, <1>6
    <2> QED BY <1>5, <1>6, <2>1, SeqEqual
  <1>8. Reader!Cut(whole) = [text |-> Reader!TrimEnd(text), cut |-> Len(whole) > MaxLine]
    BY <1>3, <1>7 DEF Reader!Cut, head
  <1>9. cut <=> Len(whole) > MaxLine
    BY <1>2, <1>5
  <1>10. (Len(whole) > MaxLine) = cut
    <2>1. ASSUME NEW a \in BOOLEAN, NEW b \in BOOLEAN, a <=> b
          PROVE  a = b
      BY <2>1
    <2>2. (Len(whole) > MaxLine) \in BOOLEAN
      OBVIOUS
    <2> QED BY <1>9, <2>1, <2>2
  <1> QED BY <1>8, <1>10 DEF whole

LEMMA LoggedIs ==
    ASSUME NEW text, NEW cut \in BOOLEAN, NEW more, more = [text |-> Reader!TrimEnd(text), cut |-> cut]
    PROVE  Reader!Logged(text, cut) = IF more = Reader!Blank THEN logged ELSE Append(logged, more)
  <1>1. more = Reader!Blank <=> Reader!TrimEnd(text) = <<>> /\ ~cut
    BY DEF Reader!Blank
  <1> QED BY <1>1 DEF Reader!Logged

\* With the line under way the log has what it is owed up to there.
LEMMA LineIsLogged ==
    ASSUME NEW w \in Seq(Reader!Byte), NEW done \in 0 .. Len(w), NEW m \in 0 .. done, m < done,
           m = 0 \/ w[m] = "n", \A i \in m + 1 .. done - 1 : w[i] # "n",
           NEW text \in Seq(Reader!Byte), NEW cut \in BOOLEAN, Kept(w, m, done, text, cut),
           logged = Reader!Owed(SubSeq(w, 1, m))
    PROVE  Reader!Logged(text, cut) = Reader!Owed(SubSeq(w, 1, done))
  <1> DEFINE v == SubSeq(w, 1, done)
             more == Reader!Cut(SubSeq(w, m + 1, done))
  <1>1. Len(w) \in Nat /\ done \in Nat /\ m \in Nat /\ done <= Len(w)
    OBVIOUS
  <1>2. v \in Seq(Reader!Byte) /\ Len(v) = done /\ \A i \in 1 .. done : v[i] = w[i]
    BY FirstOf
  <1> HIDE DEF v
  <1>3. SubSeq(v, 1, m) = SubSeq(w, 1, m)
    <2> DEFINE a == SubSeq(v, 1, m)
               b == SubSeq(w, 1, m)
    <2>1. m \in 0 .. Len(v) /\ m \in 0 .. Len(w) /\ \A i \in 1 .. m : i \in 1 .. done
      BY <1>1, <1>2
    <2>3. a \in Seq(Reader!Byte) /\ Len(a) = m /\ \A i \in 1 .. m : a[i] = v[i]
      BY <1>2, <2>1, FirstOf
    <2>4. b \in Seq(Reader!Byte) /\ Len(b) = m /\ \A i \in 1 .. m : b[i] = w[i]
      BY <2>1, FirstOf
    <2> HIDE DEF a, b
    <2>5. \A i \in 1 .. Len(a) : a[i] = b[i]
      BY <1>2, <2>1, <2>3, <2>4
    <2>6. a = b
      BY <2>3, <2>4, <2>5, SeqEqual
    <2> QED BY <2>6 DEF a, b
  <1>4. SubSeq(v, m + 1, done) = SubSeq(w, m + 1, done)
    <2> DEFINE a == SubSeq(v, m + 1, done)
               b == SubSeq(w, m + 1, done)
    <2>1. done \in 0 .. Len(v) /\ \A i \in 1 .. done - m : m + i \in 1 .. done
      BY <1>1, <1>2
    <2>3. a \in Seq(Reader!Byte) /\ Len(a) = done - m /\ \A i \in 1 .. done - m : a[i] = v[m + i]
      BY <1>2, <2>1, Behind
    <2>4. b \in Seq(Reader!Byte) /\ Len(b) = done - m /\ \A i \in 1 .. done - m : b[i] = w[m + i]
      BY Behind
    <2> HIDE DEF a, b
    <2>5. \A i \in 1 .. Len(a) : a[i] = b[i]
      BY <1>2, <2>1, <2>3, <2>4
    <2>6. a = b
      BY <2>3, <2>4, <2>5, SeqEqual
    <2> QED BY <2>6 DEF a, b
  <1>5. m \in 0 .. Len(v) - 1 /\ (m = 0 \/ v[m] = "n") /\ \A i \in m + 1 .. Len(v) - 1 : v[i] # "n"
    BY <1>1, <1>2
  <1>6. Reader!Owed(v) = IF more = Reader!Blank THEN Reader!Owed(SubSeq(w, 1, m))
                         ELSE Append(Reader!Owed(SubSeq(w, 1, m)), more)
    BY <1>2, <1>3, <1>4, <1>5, OwedLine
  <1>7. more = [text |-> Reader!TrimEnd(text), cut |-> cut]
    BY KeptIsCut
  <1> HIDE DEF more
  <1>8. Reader!Logged(text, cut) = IF more = Reader!Blank THEN logged ELSE Append(logged, more)
    BY <1>7, LoggedIs
  <1> QED BY <1>6, <1>8 DEF v

LEMMA ReaderInitInv == Reader!Init => ReaderInv
  <1> SUFFICES ASSUME Reader!Init
               PROVE  ReaderInv
    OBVIOUS
  <1>1. /\ written \in Seq(Reader!Byte) /\ rest = written /\ line = <<>> /\ logged = <<>>
        /\ truncated = FALSE /\ observed = FALSE /\ reading = "on"
    <2>1. \A n \in 0 .. MaxBytes : [1 .. n -> Reader!Byte] \subseteq Seq(Reader!Byte)
      BY ComponentsAssumption
    <2> QED BY <2>1 DEF Reader!Init, Reader!BoundedSeq, Reader!SeqOf
  <1>2. ReaderTypes
    <2>1. <<>> \in Seq(Reader!Byte) /\ <<>> \in Seq(Reader!Line)
      OBVIOUS
    <2> QED BY <1>1, <2>1 DEF ReaderTypes
  <1>3. Len(written) \in Nat /\ MaxLine \in Nat
    BY <1>1, ComponentsAssumption
  <1>4. RestIs(written, rest)
    BY <1>1, <1>3 DEF RestIs
  <1>5. Reader!Owed(SubSeq(written, 1, 0)) = <<>>
    <2>1. SubSeq(written, 1, 0) = <<>>
      BY <1>1
    <2> DEFINE none == SubSeq(written, 1, 0)
    <2>2. none \in Seq(Reader!Byte) /\ Len(none) = 0
      BY <1>1
    <2> HIDE DEF none
    <2>3. OwedAt(none) = {}
      <3>1. OwedAt(none) \subseteq 1 .. Len(none)
        BY <2>2, OwedIs
      <3> QED BY <2>2, <3>1
    <2>4. Len(Sorted({})) = 0
      <3>1. {} \in SUBSET Int /\ IsFiniteSet({}) /\ Cardinality({}) = 0
        BY FS_EmptySet
      <3> QED BY <3>1, SortedIs
    <2>5. Reader!Owed(none) \in Seq(Reader!Line) /\ Len(Reader!Owed(none)) = Len(Sorted(OwedAt(none)))
      BY <2>2, OwedIs
    <2>6. Reader!Owed(none) \in Seq(Reader!Line) /\ Len(Reader!Owed(none)) = 0
      BY <2>3, <2>4, <2>5
    <2>7. Reader!Owed(none) = <<>>
      BY <2>6
    <2> QED BY <2>7 DEF none
  <1>6. LineInv(written, rest, line, truncated, observed, logged, reading)
    <2>1. Len(written) - Len(rest) = 0 /\ 0 \in 0 .. 0
      BY <1>1, <1>3
    <2>2. StartsBehind(written, 0, 0)
      BY <2>1 DEF StartsBehind
    <2>3. Kept(written, 0, 0, line, truncated)
      <3>1. Len(line) = 0 /\ 0 - 0 <= MaxLine /\ 0 - 0 = 0
        BY <1>1, <1>3
      <3>2. ~truncated /\ ~(0 - 0 > MaxLine)
        BY <1>1, <1>3
      <3> QED BY <3>1, <3>2 DEF Kept
    <2>4. ~observed /\ ~(0 < 0) /\ logged = Reader!Owed(SubSeq(written, 1, 0))
      BY <1>1, <1>5
    <2> QED BY <2>1, <2>2, <2>3, <2>4 DEF LineInv
  <1> QED BY <1>1, <1>2, <1>4, <1>6 DEF ReaderInv

\* A piece of the line under way: what fits of it is kept.
LEMMA KeptMore ==
    ASSUME NEW w \in Seq(Reader!Byte), NEW r \in Seq(Reader!Byte), RestIs(w, r),
           NEW m \in 0 .. Len(w) - Len(r), NEW text \in Seq(Reader!Byte), NEW cut \in BOOLEAN,
           Kept(w, m, Len(w) - Len(r), text, cut), NEW end \in 1 .. Len(r),
           NEW copied, copied = SubSeq(r, 1, Reader!Min({end, MaxLine - Len(text)})),
           NEW more \in BOOLEAN, more <=> cut \/ Len(copied) < end
    PROVE  /\ text \o copied \in Seq(Reader!Byte)
           /\ Kept(w, m, Len(w) - Len(r) + end, text \o copied, more)
  <1> DEFINE done == Len(w) - Len(r)
             n == Reader!Min({end, MaxLine - Len(text)})
             all == text \o copied
  <1>1. /\ Len(w) \in Nat /\ Len(r) \in Nat /\ done \in Nat /\ m \in Nat /\ m <= done
        /\ Len(text) \in Nat /\ MaxLine \in Nat /\ end \in Nat /\ end >= 1 /\ end <= Len(r)
    BY ComponentsAssumption DEF RestIs
  <1>2. /\ Len(text) = IF done - m <= MaxLine THEN done - m ELSE MaxLine
        /\ \A i \in 1 .. Len(text) : text[i] = w[m + i]
        /\ cut <=> done - m > MaxLine
    BY DEF Kept
  <1>3. \A i \in 1 .. Len(r) : r[i] = w[done + i]
    BY DEF RestIs
  <1> HIDE DEF done
  <1>4. MaxLine - Len(text) \in Nat
    BY <1>1, <1>2
  <1>5. n = IF end <= MaxLine - Len(text) THEN end ELSE MaxLine - Len(text)
    BY <1>1, <1>4, ReaderMinOfTwo
  <1> HIDE DEF n
  <1>6. n \in 0 .. Len(r) /\ n \in Nat
    BY <1>1, <1>4, <1>5
  <1>7. copied \in Seq(Reader!Byte) /\ Len(copied) = n /\ \A i \in 1 .. n : copied[i] = r[i]
    <2>1. copied = SubSeq(r, 1, n)
      BY DEF n
    <2> QED BY <1>6, <2>1, FirstOf
  <1>8. /\ all \in Seq(Reader!Byte) /\ Len(all) = Len(text) + n
        /\ \A i \in 1 .. Len(text) : all[i] = text[i]
        /\ \A i \in 1 .. n : all[Len(text) + i] = copied[i]
    <2>1. /\ all \in Seq(Reader!Byte) /\ Len(all) = Len(text) + Len(copied)
          /\ \A i \in 1 .. Len(text) + Len(copied) :
               all[i] = IF i <= Len(text) THEN text[i] ELSE copied[i - Len(text)]
      BY <1>7, ConcatProperties
    <2>2. ASSUME NEW i \in 1 .. Len(text)
          PROVE  i \in 1 .. Len(text) + n /\ i <= Len(text)
      BY <1>1, <1>6
    <2>3. ASSUME NEW i \in 1 .. n
          PROVE  /\ Len(text) + i \in 1 .. Len(text) + n /\ ~(Len(text) + i <= Len(text))
                 /\ (Len(text) + i) - Len(text) = i
      BY <1>1, <1>6
    <2> HIDE DEF all
    <2>4. \A i \in 1 .. Len(text) : all[i] = text[i]
      BY <1>7, <2>1, <2>2
    <2>5. ASSUME NEW i \in 1 .. n
          PROVE  all[Len(text) + i] = copied[i]
      <3>1. all[Len(text) + i] = copied[(Len(text) + i) - Len(text)]
        BY <1>7, <2>1, <2>3
      <3> QED BY <2>3, <3>1
    <2> QED BY <1>7, <2>1, <2>4, <2>5
  <1>9. \A i \in 1 .. Len(text) + n :
          i \in 1 .. Len(text) \/ (i - Len(text) \in 1 .. n /\ Len(text) + (i - Len(text)) = i)
    BY <1>1, <1>6
  <1> HIDE DEF all
  <1>10. ASSUME NEW i \in 1 .. Len(all)
         PROVE  all[i] = w[m + i]
    <2>1. CASE i \in 1 .. Len(text)
      BY <1>2, <1>8, <2>1
    <2>2. CASE i \notin 1 .. Len(text)
      <3> DEFINE k == i - Len(text)
      <3>1. k \in 1 .. n /\ Len(text) + k = i
        BY <1>8, <1>9, <2>2
      <3>2. k \in 1 .. Len(r) /\ Len(text) = done - m /\ done + k = m + i
        BY <1>1, <1>2, <1>4, <1>5, <1>6, <3>1
      <3> HIDE DEF k
      <3>3. all[i] = copied[k]
        BY <1>8, <3>1
      <3>4. all[i] = w[done + k]
        BY <1>3, <1>7, <3>1, <3>2, <3>3
      <3> QED BY <3>2, <3>4
    <2> QED BY <2>1, <2>2
  <1>11. Len(all) = IF (done + end) - m <= MaxLine THEN (done + end) - m ELSE MaxLine
    BY <1>1, <1>2, <1>5, <1>8
  <1>12. more <=> (done + end) - m > MaxLine
    BY <1>1, <1>2, <1>5, <1>7
  <1>13. Kept(w, m, done + end, all, more)
    <2>1. \A i \in 1 .. Len(all) : all[i] = w[m + i]
      BY <1>10
    <2> DEFINE d == done + end
    <2>2. Len(all) = IF d - m <= MaxLine THEN d - m ELSE MaxLine
      BY <1>11
    <2>3. more <=> d - m > MaxLine
      BY <1>12
    <2> HIDE DEF d, all
    <2>4. Kept(w, m, d, all, more)
      BY <2>1, <2>2, <2>3 DEF Kept
    <2> QED BY <2>4 DEF d
  <1> QED BY <1>8, <1>13 DEF done, all

\* A piece ends with the first newline in it; the line under way ends there too.
LEMMA ReadPieceKeeps ==
    ASSUME ReaderInv, NEW size \in 1 .. MaxBytes, Reader!ReadPiece(size)
    PROVE  ReaderInv'
  <1> DEFINE newlines == {i \in 1 .. size : rest[i] = "n"}
             end == IF newlines = {} THEN size ELSE Reader!Min(newlines)
             copied == SubSeq(rest, 1, Reader!Min({end, MaxLine - Len(line)}))
             text == line \o copied
             cut == truncated \/ Len(copied) < end
             done == Len(written) - Len(rest)
  <1>1. /\ reading = "on" /\ reading' = reading /\ written' = written /\ size \in 1 .. Len(rest)
        /\ rest' = SubSeq(rest, end + 1, Len(rest))
        /\ IF rest[end] = "n"
           THEN /\ logged' = Reader!Logged(text, cut)
                /\ line' = <<>> /\ truncated' = FALSE /\ observed' = FALSE
           ELSE line' = text /\ truncated' = cut /\ observed' = TRUE /\ logged' = logged
    BY DEF Reader!ReadPiece, Reader!Take
  <1>2. /\ ReaderTypes /\ RestIs(written, rest)
        /\ LineInv(written, rest, line, truncated, observed, logged, "on")
    BY <1>1 DEF ReaderInv
  <1>3. Len(written) \in Nat /\ Len(rest) \in Nat /\ done \in Nat /\ Len(rest) <= Len(written)
    BY <1>2 DEF ReaderTypes, RestIs
  <1>4. end \in 1 .. Len(rest) /\ \A i \in 1 .. end - 1 : rest[i] # "n"
    <2>1. CASE newlines = {}
      BY <1>1, <1>3, <2>1
    <2>2. CASE newlines # {}
      <3>1. newlines \in SUBSET Nat
        OBVIOUS
      <3> HIDE DEF newlines
      <3>2. end \in newlines /\ \A i \in newlines : end <= i
        BY <2>2, <3>1, ReaderMinIn
      <3> HIDE DEF end
      <3>3. end \in 1 .. size
        BY <3>2 DEF newlines
      <3>4. ASSUME NEW i \in 1 .. end - 1, rest[i] = "n"
            PROVE  FALSE
        <4>1. i \in 1 .. size /\ i < end
          BY <1>1, <1>3, <3>3
        <4>2. i \in newlines
          BY <3>4, <4>1 DEF newlines
        <4> QED BY <3>2, <3>3, <4>1, <4>2
      <3> QED BY <1>1, <1>3, <3>3, <3>4
    <2> QED BY <2>1, <2>2
  <1> HIDE DEF end
  <1>5. /\ rest' \in Seq(Reader!Byte) /\ Len(rest') = Len(rest) - end
        /\ \A i \in 1 .. Len(rest) - end : rest'[i] = rest[end + i]
    <2>1. rest \in Seq(Reader!Byte) /\ Len(rest) \in 0 .. Len(rest) /\ end \in 0 .. Len(rest)
      BY <1>2, <1>3, <1>4 DEF ReaderTypes
    <2> QED BY <1>1, <2>1, Behind
  <1>6. RestIs(written', rest')
    <2>1. \A i \in 1 .. Len(rest) : rest[i] = written[done + i]
      BY <1>2 DEF RestIs
    <2> HIDE DEF done
    <2>2. Len(rest') <= Len(written) /\ Len(written) - Len(rest') = done + end
      BY <1>3, <1>4, <1>5 DEF done
    <2>3. ASSUME NEW i \in 1 .. Len(rest')
          PROVE  rest'[i] = written[(done + end) + i]
      <3>1. end + i \in 1 .. Len(rest) /\ done + (end + i) = (done + end) + i /\ i \in 1 .. Len(rest) - end
        BY <1>3, <1>4, <1>5
      <3>2. rest[end + i] = written[done + (end + i)]
        BY <2>1, <3>1
      <3> QED BY <1>5, <3>1, <3>2
    <2> QED BY <1>1, <2>2, <2>3 DEF RestIs
  <1>7. PICK m \in 0 .. done :
          /\ StartsBehind(written, m, done) /\ Kept(written, m, done, line, truncated)
          /\ observed <=> m < done
          /\ logged = Reader!Owed(SubSeq(written, 1, m))
    BY <1>2 DEF LineInv
  <1>8. text \in Seq(Reader!Byte) /\ Kept(written, m, done + end, text, cut) /\ cut \in BOOLEAN
    <2>1. /\ written \in Seq(Reader!Byte) /\ rest \in Seq(Reader!Byte)
          /\ line \in Seq(Reader!Byte) /\ truncated \in BOOLEAN
      BY <1>2 DEF ReaderTypes
    <2>2. cut \in BOOLEAN
      OBVIOUS
    <2>3. cut <=> truncated \/ Len(copied) < end
      OBVIOUS
    <2> HIDE DEF cut
    <2> DEFINE c == copied
    <2>4. c = SubSeq(rest, 1, Reader!Min({end, MaxLine - Len(line)}))
      OBVIOUS
    <2> HIDE DEF c
    <2>5. /\ line \o c \in Seq(Reader!Byte)
          /\ Kept(written, m, Len(written) - Len(rest) + end, line \o c, cut)
      BY <1>2, <1>4, <1>7, <2>1, <2>2, <2>3, <2>4, KeptMore DEF c
    <2> QED BY <2>2, <2>5 DEF c
  <1> HIDE DEF text, cut
  <1>9. \A i \in m + 1 .. (done + end) - 1 : written[i] # "n"
    <2> TAKE i \in m + 1 .. (done + end) - 1
    <2>1. CASE i <= done
      BY <1>3, <1>7, <2>1 DEF StartsBehind
    <2>2. CASE i > done
      <3>1. i - done \in 1 .. end - 1 /\ i - done \in 1 .. Len(rest) /\ done + (i - done) = i
        BY <1>3, <1>4, <1>7, <2>2
      <3>2. rest[i - done] = written[done + (i - done)]
        BY <1>2, <3>1 DEF RestIs
      <3> QED BY <1>4, <3>1, <3>2
    <2>3. i <= done \/ i > done
      BY <1>3, <1>7
    <2> QED BY <2>1, <2>2, <2>3
  <1>10. /\ rest[end] = written[done + end] /\ done + end \in 0 .. Len(written)
         /\ m \in 0 .. done + end /\ m < done + end /\ done + end \in Nat
         /\ Len(written') - Len(rest') = done + end
    <2>1. \A i \in 1 .. Len(rest) : rest[i] = written[done + i]
      BY <1>2 DEF RestIs
    <2>2. Len(written') - Len(rest') = done + end
      <3>1. written' = written
        BY <1>1
      <3>2. Len(rest') = Len(rest) - end
        BY <1>5
      <3> QED BY <1>3, <1>4, <3>1, <3>2
    <2> HIDE DEF done
    <2>3. rest[end] = written[done + end]
      BY <1>4, <2>1
    <2>4. done + end \in 0 .. Len(written)
      BY <1>3, <1>4 DEF done
    <2> QED BY <1>3, <1>4, <1>7, <2>2, <2>3, <2>4
  <1> DEFINE d == done + end
  <1>13. /\ m \in Nat /\ d \in Nat /\ d \in 0 .. Len(written) /\ m \in 0 .. d /\ m < d
         /\ \A i \in m + 1 .. d - 1 : written[i] # "n"
         /\ Kept(written, m, d, text, cut)
         /\ rest[end] = written[d] /\ Len(written') - Len(rest') = d
         /\ (m = 0 \/ written[m] = "n")
    <2>1. m \in Nat /\ d \in Nat /\ d \in 0 .. Len(written) /\ m \in 0 .. d /\ m < d
      BY <1>10
    <2>2. m = 0 \/ written[m] = "n"
      BY <1>7 DEF StartsBehind
    <2> QED BY <1>8, <1>9, <1>10, <2>1, <2>2
  <1> HIDE DEF d, done
  <1>11. CASE rest[end] = "n"
    <2>1. logged' = Reader!Owed(SubSeq(written, 1, d))
      <3>1. logged' = Reader!Logged(text, cut)
        BY <1>1, <1>11
      <3>2. m = 0 \/ written[m] = "n"
        BY <1>7 DEF StartsBehind
      <3>3. written \in Seq(Reader!Byte)
        BY <1>2 DEF ReaderTypes
      <3>4. Reader!Logged(text, cut) = Reader!Owed(SubSeq(written, 1, d))
        BY <1>7, <1>8, <1>13, <1>13, <3>2, <3>3, LineIsLogged
      <3> QED BY <3>1, <3>4
    <2>2. StartsBehind(written, d, d)
      BY <1>13, <1>11 DEF StartsBehind
    <2>3. line' = <<>> /\ ~truncated' /\ ~observed' /\ truncated' = FALSE /\ observed' = FALSE
      BY <1>1, <1>11
    <2>4. Kept(written, d, d, line', truncated')
      <3>1. Len(line') = 0 /\ d - d = 0 /\ d - d <= MaxLine /\ ~(d - d > MaxLine)
        BY <1>13, <2>3, ComponentsAssumption
      <3> QED BY <2>3, <3>1 DEF Kept
    <2>5. ~(d < d) /\ d \in 0 .. d
      BY <1>13
    <2>6. logged' \in Seq(Reader!Line)
      <3>1. SubSeq(written, 1, d) \in Seq(Reader!Byte)
        BY <1>2, <1>13, FirstOf DEF ReaderTypes
      <3> QED BY <2>1, <3>1, OwedIs
    <2>7. LineInv(written', rest', line', truncated', observed', logged', reading')
      BY <1>1, <1>13, <2>1, <2>2, <2>3, <2>4, <2>5 DEF LineInv
    <2>8. ReaderTypes'
      <3>1. line' \in Seq(Reader!Byte)
        BY <2>3
      <3> QED BY <1>1, <1>2, <1>5, <2>3, <2>6, <3>1 DEF ReaderTypes
    <2> QED BY <1>1, <1>6, <2>7, <2>8 DEF ReaderInv
  <1>12. CASE rest[end] # "n"
    <2>1. line' = text /\ truncated' = cut /\ observed' = TRUE /\ observed' /\ logged' = logged
      BY <1>1, <1>12
    <2>2. StartsBehind(written, m, d)
      <3>1. \A i \in m + 1 .. d : i \in m + 1 .. d - 1 \/ i = d
        BY <1>13
      <3>2. \A i \in m + 1 .. d : written[i] # "n"
        BY <1>13, <1>13, <1>12, <3>1
      <3> QED BY <1>7, <1>13, <3>2 DEF StartsBehind
    <2>3. Kept(written, m, d, line', truncated')
      BY <1>13, <2>1
    <2>4. LineInv(written', rest', line', truncated', observed', logged', reading')
      BY <1>1, <1>7, <1>13, <2>1, <2>2, <2>3 DEF LineInv
    <2>5. ReaderTypes'
      BY <1>1, <1>2, <1>5, <1>8, <2>1 DEF ReaderTypes
    <2> QED BY <1>1, <1>6, <2>4, <2>5 DEF ReaderInv
  <1> QED BY <1>11, <1>12

LEMMA ReaderNextInv == ReaderInv /\ [Reader!Next]_readerVars => ReaderInv'
  <1> SUFFICES ASSUME ReaderInv, [Reader!Next]_readerVars
               PROVE  ReaderInv'
    OBVIOUS
  <1>1. CASE \E size \in 1 .. MaxBytes : Reader!ReadPiece(size)
    BY <1>1, ReadPieceKeeps
  <1>2. CASE Reader!ReadEnd
    <2>1. /\ reading = "on" /\ rest = <<>> /\ reading' = "ended"
          /\ logged' = IF observed THEN Reader!Logged(line, truncated) ELSE logged
          /\ written' = written /\ rest' = rest /\ line' = line
          /\ truncated' = truncated /\ observed' = observed
      BY <1>2 DEF Reader!ReadEnd
    <2>2. ReaderTypes /\ Len(written) \in Nat /\ Len(rest) = 0
      BY <2>1 DEF ReaderInv, ReaderTypes
    <2> DEFINE done == Len(written) - Len(rest)
    <2>3. done = Len(written)
      BY <2>2
    <2>4. PICK m \in 0 .. done :
            /\ StartsBehind(written, m, done) /\ Kept(written, m, done, line, truncated)
            /\ observed <=> m < done
            /\ logged = Reader!Owed(SubSeq(written, 1, m))
      BY <2>1 DEF ReaderInv, LineInv
    <2> HIDE DEF done
    <2>5. SubSeq(written, 1, done) = written
      <3>1. written \in Seq(Reader!Byte)
        BY <2>2 DEF ReaderTypes
      <3> QED BY <2>3, <3>1, SubSeqFull
    <2>6. logged' = Reader!Owed(written)
      <3>1. CASE observed
        <4>1. /\ written \in Seq(Reader!Byte) /\ line \in Seq(Reader!Byte) /\ truncated \in BOOLEAN
              /\ done \in 0 .. Len(written) /\ m < done /\ done \in Nat /\ m \in Nat
          BY <2>2, <2>3, <2>4, <3>1 DEF ReaderTypes
        <4>2. (m = 0 \/ written[m] = "n") /\ \A i \in m + 1 .. done - 1 : written[i] # "n"
          BY <2>4, <4>1 DEF StartsBehind
        <4>3. Reader!Logged(line, truncated) = Reader!Owed(SubSeq(written, 1, done))
          BY <2>4, <4>1, <4>2, LineIsLogged
        <4> QED BY <2>1, <2>5, <3>1, <4>3
      <3>2. CASE ~observed
        <4>1. m = done
          BY <2>2, <2>3, <2>4, <3>2
        <4> QED BY <2>1, <2>4, <2>5, <3>2, <4>1
      <3> QED BY <3>1, <3>2
    <2>7. ReaderTypes'
      <3>1. logged' \in Seq(Reader!Line)
        <4>1. written \in Seq(Reader!Byte)
          BY <2>2 DEF ReaderTypes
        <4> QED BY <2>6, <4>1, OwedIs
      <3> QED BY <2>1, <2>2, <3>1 DEF ReaderTypes
    <2>8. LineInv(written', rest', line', truncated', observed', logged', reading')
      BY <2>1, <2>4 DEF LineInv, done
    <2>9. RestIs(written', rest')
      BY <2>1 DEF ReaderInv
    <2> QED BY <2>1, <2>6, <2>7, <2>8, <2>9 DEF ReaderInv
  <1>3. CASE Reader!ReadFails
    <2>1. /\ reading = "on" /\ reading' = "failed" /\ logged' = logged
          /\ written' = written /\ rest' = rest /\ line' = line
          /\ truncated' = truncated /\ observed' = observed
      BY <1>3 DEF Reader!ReadFails
    <2> QED BY <2>1 DEF ReaderInv, ReaderTypes, LineInv
  <1>4. CASE UNCHANGED readerVars
    <2>1. /\ reading' = reading /\ logged' = logged
          /\ written' = written /\ rest' = rest /\ line' = line
          /\ truncated' = truncated /\ observed' = observed
      BY <1>4 DEF readerVars
    <2> QED BY <2>1 DEF ReaderInv, ReaderTypes
  <1>5. Reader!Next =>
          (\E size \in 1 .. MaxBytes : Reader!ReadPiece(size)) \/ Reader!ReadEnd \/ Reader!ReadFails
    BY DEF Reader!Next
  <1> QED BY <1>1, <1>2, <1>3, <1>4, <1>5

LEMMA ReaderInvariance == SpecAll => []ReaderInv
  <1>1. InitAll => ReaderInv
    BY InitOfParts, ReaderInitInv
  <1>2. ReaderInv /\ [NextAll]_allVars => ReaderInv'
    <2> SUFFICES ASSUME ReaderInv, [NextAll]_allVars
                 PROVE  ReaderInv'
      OBVIOUS
    <2>1. [Reader!Next]_readerVars
      BY StepOfParts
    <2> QED BY <2>1, ReaderNextInv
  <1> QED BY <1>1, <1>2, PTL DEF SpecAll

LEMMA ReaderDelivers == ReaderInv => Reader!LinesDelivered
  <1> SUFFICES ASSUME ReaderInv
               PROVE  Reader!LinesDelivered
    OBVIOUS
  <1> DEFINE done == Len(written) - Len(rest)
             owed == Reader!Owed(written)
  <1>1. /\ written \in Seq(Reader!Byte) /\ rest \in Seq(Reader!Byte)
        /\ Len(written) \in Nat /\ Len(rest) \in Nat /\ Len(rest) <= Len(written)
    BY DEF ReaderInv, ReaderTypes, RestIs
  <1>2. PICK m \in 0 .. done :
          /\ StartsBehind(written, m, done) /\ (observed <=> m < done)
          /\ reading # "ended" => logged = Reader!Owed(SubSeq(written, 1, m))
    BY DEF ReaderInv, LineInv
  <1>3. reading = "ended" => logged = owed
    BY DEF ReaderInv
  <1>4. Reader!IsPrefix(logged, owed)
    <2>1. CASE reading = "ended"
      <3>1. owed \in Seq(Reader!Line)
        BY <1>1, OwedIs
      <3>2. Len(owed) <= Len(owed)
        BY <3>1
      <3> HIDE DEF owed
      <3>3. Reader!IsPrefix(owed, owed)
        BY <3>1, <3>2, PrefixIs
      <3> QED BY <1>3, <2>1, <3>3
    <2>2. CASE reading # "ended"
      <3>1. m \in 0 .. Len(written)
        BY <1>1, <1>2
      <3>2. m = 0 \/ written[m] = "n"
        BY <1>2 DEF StartsBehind
      <3>3. Reader!IsPrefix(Reader!Owed(SubSeq(written, 1, m)), Reader!Owed(written))
        BY <1>1, <3>1, <3>2, OwedPrefix
      <3> QED BY <1>2, <2>2, <3>3
    <2> QED BY <2>1, <2>2
  <1>5. reading = "on" /\ ~observed => logged = Reader!Owed(SubSeq(written, 1, done))
    <2>1. ~observed => m = done
      BY <1>1, <1>2
    <2> QED BY <1>2, <2>1
  <1> QED BY <1>3, <1>4, <1>5 DEF Reader!LinesDelivered

LEMMA ReaderTyped == ReaderInv => Reader!TypeOK
  <1> SUFFICES ASSUME ReaderInv
               PROVE  Reader!TypeOK
    OBVIOUS
  <1>1. /\ ReaderTypes /\ Len(written) \in Nat /\ Len(rest) \in Nat /\ Len(rest) <= Len(written)
        /\ \A i \in 1 .. Len(rest) : rest[i] = written[(Len(written) - Len(rest)) + i]
    BY DEF ReaderInv, ReaderTypes, RestIs
  <1>2. written \in Seq(Reader!Byte) /\ rest \in Seq(Reader!Byte)
    BY <1>1 DEF ReaderTypes
  <1>3. Len(line) <= MaxLine
    <2>1. PICK m \in 0 .. Len(written) - Len(rest) :
            Len(line) = IF Len(written) - Len(rest) - m <= MaxLine
                        THEN Len(written) - Len(rest) - m ELSE MaxLine
      BY DEF ReaderInv, LineInv, Kept
    <2> QED BY <1>1, <2>1, ComponentsAssumption
  <1>4. Reader!IsSuffix(rest, written)
    <2> DEFINE s == Reader!Reverse(rest)
               t == Reader!Reverse(written)
    <2>1. s = [i \in 1 .. Len(rest) |-> rest[Len(rest) - i + 1]]
      BY DEF Reader!Reverse
    <2>2. t = [i \in 1 .. Len(written) |-> written[Len(written) - i + 1]]
      BY DEF Reader!Reverse
    <2>3. s \in Seq(Reader!Byte) /\ Len(s) = Len(rest)
      <3>1. \A i \in 1 .. Len(rest) : Len(rest) - i + 1 \in 1 .. Len(rest)
        BY <1>1
      <3>2. s \in [1 .. Len(rest) -> Reader!Byte]
        BY <1>2, <2>1, <3>1
      <3> HIDE DEF s
      <3> QED BY <1>1, <3>2
    <2>4. t \in Seq(Reader!Byte) /\ Len(t) = Len(written)
      <3>1. \A i \in 1 .. Len(written) : Len(written) - i + 1 \in 1 .. Len(written)
        BY <1>1
      <3>2. t \in [1 .. Len(written) -> Reader!Byte]
        BY <1>2, <2>2, <3>1
      <3> HIDE DEF t
      <3> QED BY <1>1, <3>2
    <2>5. ASSUME NEW i \in 1 .. Len(rest)
          PROVE  s[i] = t[i]
      <3>1. /\ i \in 1 .. Len(written) /\ Len(rest) - i + 1 \in 1 .. Len(rest)
            /\ (Len(written) - Len(rest)) + (Len(rest) - i + 1) = Len(written) - i + 1
        BY <1>1
      <3>2. rest[Len(rest) - i + 1] = written[(Len(written) - Len(rest)) + (Len(rest) - i + 1)]
        BY <1>1, <3>1
      <3> QED BY <2>1, <2>2, <3>1, <3>2
    <2> HIDE DEF s, t
    <2>6. Reader!IsPrefix(s, t)
      BY <1>1, <2>3, <2>4, <2>5, PrefixIs
    <2> QED BY <2>6 DEF Reader!IsSuffix, s, t
  <1> QED BY <1>1, <1>3, <1>4 DEF ReaderTypes, Reader!TypeOK

\* However the output of a tool is torn into pieces, and whatever its length and the cap on a
\* line, the log gets the lines of it, in order, without a gap, and each as far as it is kept.
THEOREM SpecAllLinesDelivered == SpecAll => []LinesDelivered
  <1>1. ReaderInv => LinesDelivered
    BY ReaderDelivers DEF LinesDelivered
  <1> QED BY <1>1, ReaderInvariance, PTL

-----------------------------------------------------------------------------
(* The inspections *)

\* What the thread of the last click has found, and what its row has now, the row has had
\* since that click; the threads of clicks to come have found nothing.
FoundSince ==
    /\ generation > 0 =>
         /\ thread[generation].found \in since \cup {NoPid}
         /\ viewPid[thread[generation].row] \in since \cup {NoPid}
    /\ \A c \in 1 .. MaxClicks :
         c > generation => thread[c].does = "none" /\ thread[c].found = NoPid

ShownSince == ~loading => view.of = generation /\ view.pid \in since \cup {NoPid}

InspectionInv == Inspections!TypeOK /\ FoundSince /\ ShownSince

LEMMA InspectionInitInv == Inspections!Init => InspectionInv
  <1> SUFFICES ASSUME Inspections!Init
               PROVE  InspectionInv
    OBVIOUS
  <1> DEFINE rows == WindowRows
             no == Inspections!NoThread
  <1>1. /\ viewPid = [r \in rows |-> NoPid] /\ generation = 0
        /\ thread = [c \in 1 .. MaxClicks |-> no] /\ posted = <<>>
        /\ loading = FALSE /\ view = [of |-> 0, pid |-> NoPid] /\ since = {}
    BY DEF Inspections!Init, Inspections!Clicks
  <1>2. no.row \in rows /\ no.does = "none" /\ no.found = NoPid
    BY ComponentsAssumption DEF Inspections!NoThread
  <1>3. no \in [row : rows, does : {"none", "lookUp", "read", "post"}, found : Pids \cup {NoPid}]
    BY <1>2 DEF Inspections!NoThread
  <1> HIDE DEF no
  <1>4. Inspections!TypeOK
    <2>1. view \in [of : 0 .. MaxClicks, pid : Pids \cup {NoPid}] /\ 0 \in 0 .. MaxClicks
      BY <1>1, ComponentsAssumption
    <2>2. posted \in Seq(1 .. MaxClicks)
      BY <1>1
    <2>3. viewPid \in [rows -> Pids \cup {NoPid}]
      BY <1>1
    <2> QED BY <1>1, <1>3, <2>1, <2>2, <2>3 DEF Inspections!TypeOK, Inspections!Clicks
  <1>5. FoundSince /\ ShownSince
    BY <1>1, <1>2 DEF FoundSince, ShownSince
  <1> QED BY <1>4, <1>5 DEF InspectionInv

LEMMA InspectionNextInv == InspectionInv /\ [Inspections!Next]_viewVars => InspectionInv'
  <1> SUFFICES ASSUME InspectionInv, [Inspections!Next]_viewVars
               PROVE  InspectionInv'
    OBVIOUS
  <1> DEFINE Thread == [row : WindowRows, does : {"none", "lookUp", "read", "post"},
                        found : Pids \cup {NoPid}]
             Found == Pids \cup {NoPid}
  <1>1. /\ viewPid \in [WindowRows -> Found] /\ generation \in 0 .. MaxClicks
        /\ thread \in [1 .. MaxClicks -> Thread] /\ posted \in Seq(1 .. MaxClicks)
        /\ loading \in BOOLEAN /\ view \in [of : 0 .. MaxClicks, pid : Found]
        /\ since \subseteq Pids /\ MaxClicks \in Nat /\ generation \in Nat
    BY ComponentsAssumption DEF InspectionInv, Inspections!TypeOK, Inspections!Clicks
  <1>2. FoundSince /\ ShownSince
    BY DEF InspectionInv
  <1>3. \A c \in 1 .. MaxClicks : thread[c] \in Thread /\ thread[c].row \in WindowRows
                                  /\ thread[c].found \in Found
    BY <1>1
  \* A thread of a click that was made goes on: what the last one finds, its row has.
  <1>4. ASSUME NEW c \in 1 .. MaxClicks, thread[c].does # "none" \/ c \in 1 .. generation,
               NEW does \in {"none", "lookUp", "read", "post"}, NEW found \in Found,
               found \in {thread[c].found, viewPid[thread[c].row], NoPid},
               thread' = [thread EXCEPT ![c] = [@ EXCEPT !.does = does, !.found = found]],
               UNCHANGED <<viewPid, generation, since>>,
               posted' \in Seq(1 .. MaxClicks), view' \in [of : 0 .. MaxClicks, pid : Found],
               loading' \in BOOLEAN, ShownSince'
        PROVE  InspectionInv'
    <2>1. c <= generation
      BY <1>1, <1>2, <1>4 DEF FoundSince
    <2>2. /\ thread'[c] = [thread[c] EXCEPT !.does = does, !.found = found]
          /\ \A d \in 1 .. MaxClicks : d # c => thread'[d] = thread[d]
          /\ DOMAIN thread' = 1 .. MaxClicks
      BY <1>1, <1>4
    <2>3. /\ thread'[c] \in Thread /\ thread'[c].found = found /\ thread'[c].row = thread[c].row
      BY <1>3, <1>4, <2>2
    <2>4. thread' \in [1 .. MaxClicks -> Thread]
      <3>1. \A d \in 1 .. MaxClicks : thread'[d] \in Thread
        BY <1>3, <2>2, <2>3
      <3>2. thread' = [d \in 1 .. MaxClicks |-> thread'[d]]
        BY <1>1, <1>4
      <3> QED BY <3>1, <3>2
    <2>5. Inspections!TypeOK'
      BY <1>1, <1>4, <2>4 DEF Inspections!TypeOK, Inspections!Clicks
    <2>6. FoundSince'
      <3>1. \A d \in 1 .. MaxClicks : d > generation => thread'[d] = thread[d]
        BY <1>1, <2>1, <2>2
      <3>2. \A d \in 1 .. MaxClicks :
              d > generation => thread'[d].does = "none" /\ thread'[d].found = NoPid
        BY <1>2, <3>1 DEF FoundSince
      <3>3. ASSUME generation > 0
            PROVE  /\ thread'[generation].found \in since \cup {NoPid}
                   /\ viewPid[thread'[generation].row] \in since \cup {NoPid}
        <4>1. generation \in 1 .. MaxClicks
          BY <1>1, <3>3
        <4>2. /\ thread[generation].found \in since \cup {NoPid}
              /\ viewPid[thread[generation].row] \in since \cup {NoPid}
          BY <1>2, <3>3 DEF FoundSince
        <4>3. CASE c = generation
          BY <1>4, <2>3, <4>2, <4>3
        <4>4. CASE c # generation
          BY <2>2, <4>1, <4>2, <4>4
        <4> QED BY <4>3, <4>4
      <3> QED BY <1>4, <3>2, <3>3 DEF FoundSince
    <2> QED BY <1>4, <2>5, <2>6 DEF InspectionInv
  <1>5. ASSUME NEW c \in 1 .. MaxClicks, Inspections!LookUp(c)
        PROVE  InspectionInv'
    <2> DEFINE found == viewPid[thread[c].row]
               does == IF found = NoPid THEN "post" ELSE "read"
    <2>1. /\ thread[c].does = "lookUp"
          /\ thread' = [thread EXCEPT ![c].found = found, ![c].does = does]
          /\ UNCHANGED <<viewPid, generation, posted, loading, view, since>>
      BY <1>5 DEF Inspections!LookUp
    <2>2. found \in Found /\ does \in {"none", "lookUp", "read", "post"}
      BY <1>1, <1>3
    <2>3. thread' = [thread EXCEPT ![c] = [@ EXCEPT !.does = does, !.found = found]]
      <3> HIDE DEF found, does
      <3> QED BY <1>1, <1>3, <2>1
    <2>4. ShownSince'
      BY <1>2, <2>1 DEF ShownSince
    <2> QED BY <1>1, <1>4, <2>1, <2>2, <2>3, <2>4
  <1>6. ASSUME NEW c \in 1 .. MaxClicks, Inspections!ReadTable(c)
        PROVE  InspectionInv'
    <2>1. PICK found \in {thread[c].found, NoPid} :
            thread' = [thread EXCEPT ![c].found = found, ![c].does = "post"]
      BY <1>6 DEF Inspections!ReadTable
    <2>2. /\ thread[c].does = "read"
          /\ UNCHANGED <<viewPid, generation, posted, loading, view, since>>
      BY <1>6 DEF Inspections!ReadTable
    <2>3. found \in Found
      BY <1>3
    <2>4. thread' = [thread EXCEPT ![c] = [@ EXCEPT !.does = "post", !.found = found]]
      BY <1>1, <1>3, <2>1
    <2>5. ShownSince'
      BY <1>2, <2>2 DEF ShownSince
    <2> QED BY <1>1, <1>4, <2>2, <2>3, <2>4, <2>5
  <1>7. ASSUME NEW c \in 1 .. MaxClicks, Inspections!Post(c)
        PROVE  InspectionInv'
    <2>1. /\ thread[c].does = "post" /\ posted' = Append(posted, c)
          /\ thread' = [thread EXCEPT ![c].does = "none"]
          /\ UNCHANGED <<viewPid, generation, loading, view, since>>
      BY <1>7 DEF Inspections!Post
    <2>2. thread' = [thread EXCEPT ![c] = [@ EXCEPT !.does = "none", !.found = thread[c].found]]
      BY <1>1, <1>3, <2>1
    <2>3. ShownSince'
      BY <1>2, <2>1 DEF ShownSince
    <2>4. posted' \in Seq(1 .. MaxClicks)
      BY <1>1, <2>1
    <2> QED BY <1>1, <1>3, <1>4, <2>1, <2>2, <2>3, <2>4
  <1>8. CASE Inspections!Show
    <2> DEFINE c == Head(posted)
    <2>1. /\ posted # <<>> /\ posted' = Tail(posted)
          /\ IF c = generation
             THEN view' = [of |-> c, pid |-> thread[c].found] /\ loading' = FALSE
             ELSE view' = view /\ loading' = loading
          /\ thread' = [thread EXCEPT ![c].found = NoPid]
          /\ UNCHANGED <<viewPid, generation, since>>
      BY <1>8 DEF Inspections!Show
    <2>2. c \in 1 .. MaxClicks /\ posted' \in Seq(1 .. MaxClicks)
      BY <1>1, <2>1
    <2> HIDE DEF c
    <2>3. view' \in [of : 0 .. MaxClicks, pid : Found] /\ loading' \in BOOLEAN
      <3>1. CASE c = generation
        <4>1. c \in 0 .. MaxClicks /\ thread[c].found \in Found
          BY <1>3, <2>2
        <4>2. [of |-> c, pid |-> thread[c].found] \in [of : 0 .. MaxClicks, pid : Found]
          BY <4>1
        <4>3. view' = [of |-> c, pid |-> thread[c].found] /\ loading' = FALSE
          BY <2>1, <3>1
        <4> QED BY <4>2, <4>3
      <3>2. CASE c # generation
        BY <1>1, <2>1, <3>2
      <3> QED BY <3>1, <3>2
    <2>4. ShownSince'
      <3>1. CASE c = generation
        <4>1. generation > 0
          BY <1>1, <2>2, <3>1
        <4>2. view'.of = generation /\ view'.pid = thread[generation].found
          BY <2>1, <3>1
        <4> QED BY <1>2, <2>1, <4>1, <4>2 DEF FoundSince, ShownSince
      <3>2. CASE c # generation
        BY <1>2, <2>1, <3>2 DEF ShownSince
      <3> QED BY <3>1, <3>2
    <2>5. CASE c > generation
      <3>1. thread[c].found = NoPid /\ thread[c].does = "none"
        BY <1>2, <2>2, <2>5 DEF FoundSince
      <3>2. thread' = thread
        BY <1>1, <1>3, <2>1, <2>2, <3>1
      <3>3. Inspections!TypeOK'
        BY <1>1, <2>1, <2>2, <2>3, <3>2 DEF Inspections!TypeOK, Inspections!Clicks
      <3>4. FoundSince'
        BY <1>2, <2>1, <3>2 DEF FoundSince
      <3> QED BY <2>4, <3>3, <3>4 DEF InspectionInv
    <2>6. CASE c <= generation
      <3>1. c \in 1 .. generation
        BY <1>1, <2>2, <2>6
      <3>2. thread[c].does \in {"none", "lookUp", "read", "post"} /\ NoPid \in Found
        BY <1>3, <2>2
      <3>3. thread' = [thread EXCEPT ![c] = [@ EXCEPT !.does = thread[c].does, !.found = NoPid]]
        BY <1>1, <1>3, <2>1, <2>2
      <3> QED BY <1>4, <2>1, <2>2, <2>3, <2>4, <3>1, <3>2, <3>3
    <2> QED BY <1>1, <2>2, <2>5, <2>6
  <1>9. ASSUME NEW r \in WindowRows, Inspections!Inspect(r)
        PROVE  InspectionInv'
    <2> DEFINE g == generation + 1
    <2>1. /\ generation < MaxClicks /\ generation' = g
          /\ thread' = [thread EXCEPT ![g] = [@ EXCEPT !.row = r, !.does = "lookUp"]]
          /\ loading' = TRUE /\ view' = [of |-> 0, pid |-> NoPid]
          /\ since' = {viewPid[r]} \ {NoPid} /\ viewPid' = viewPid /\ posted' = posted
      BY <1>9 DEF Inspections!Inspect
    <2>2. g \in 1 .. MaxClicks /\ g > generation /\ g \in Nat
      BY <1>1, <2>1
    <2> HIDE DEF g
    <2>3. thread[g].does = "none" /\ thread[g].found = NoPid
      BY <1>2, <2>2 DEF FoundSince
    <2>4. /\ thread'[g] = [thread[g] EXCEPT !.row = r, !.does = "lookUp"]
          /\ \A d \in 1 .. MaxClicks : d # g => thread'[d] = thread[d]
          /\ thread' = [d \in 1 .. MaxClicks |-> thread'[d]]
      BY <1>1, <2>1, <2>2
    <2>5. thread'[g] \in Thread /\ thread'[g].row = r /\ thread'[g].found = NoPid
      BY <1>3, <2>2, <2>3, <2>4
    <2>6. thread' \in [1 .. MaxClicks -> Thread]
      <3>1. \A d \in 1 .. MaxClicks : thread'[d] \in Thread
        BY <1>3, <2>4, <2>5
      <3> QED BY <2>4, <3>1
    <2>7. view' \in [of : 0 .. MaxClicks, pid : Found]
      <3>1. 0 \in 0 .. MaxClicks
        BY <1>1
      <3> QED BY <2>1, <3>1
    <2>8. since' \subseteq Pids /\ viewPid[r] \in since' \cup {NoPid}
      BY <1>1, <2>1
    <2>9. Inspections!TypeOK'
      <3>1. g \in 0 .. MaxClicks
        BY <2>2
      <3> QED BY <1>1, <2>1, <2>6, <2>7, <2>8, <3>1 DEF Inspections!TypeOK, Inspections!Clicks
    <2>10. FoundSince'
      <3>1. \A d \in 1 .. MaxClicks : d > g => d > generation /\ d # g
        BY <1>1, <2>2
      <3>2. \A d \in 1 .. MaxClicks :
              d > g => thread'[d].does = "none" /\ thread'[d].found = NoPid
        BY <1>2, <2>4, <3>1 DEF FoundSince
      <3> QED BY <2>1, <2>5, <2>8, <3>2 DEF FoundSince
    <2>11. ShownSince'
      BY <2>1 DEF ShownSince
    <2> QED BY <2>9, <2>10, <2>11 DEF InspectionInv
  <1>10. ASSUME NEW r \in WindowRows, NEW p \in Found, Inspections!ProcessChanges(r, p)
         PROVE  InspectionInv'
    <2>1. /\ viewPid' = [viewPid EXCEPT ![r] = p]
          /\ since' = IF generation > 0 /\ thread[generation].row = r
                      THEN since \cup ({p} \ {NoPid}) ELSE since
          /\ UNCHANGED <<generation, thread, posted, loading, view>>
      BY <1>10 DEF Inspections!ProcessChanges
    <2>2. since \subseteq since' /\ since' \subseteq Pids /\ viewPid' \in [WindowRows -> Found]
      BY <1>1, <2>1
    <2>3. Inspections!TypeOK'
      BY <1>1, <2>1, <2>2 DEF Inspections!TypeOK, Inspections!Clicks
    <2>4. FoundSince'
      <3>1. ASSUME generation > 0
            PROVE  /\ thread[generation].found \in since' \cup {NoPid}
                   /\ viewPid'[thread[generation].row] \in since' \cup {NoPid}
        <4>1. /\ thread[generation].found \in since \cup {NoPid}
              /\ viewPid[thread[generation].row] \in since \cup {NoPid}
          BY <1>2, <3>1 DEF FoundSince
        <4>2. CASE thread[generation].row = r
          BY <1>1, <2>1, <2>2, <3>1, <4>1, <4>2
        <4>3. CASE thread[generation].row # r
          <5>1. generation \in 1 .. MaxClicks
            BY <1>1, <3>1
          <5>2. viewPid'[thread[generation].row] = viewPid[thread[generation].row]
            BY <1>1, <1>3, <2>1, <4>3, <5>1
          <5> QED BY <2>2, <4>1, <5>2
        <4> QED BY <4>2, <4>3
      <3> QED BY <1>2, <2>1, <3>1 DEF FoundSince
    <2>5. ShownSince'
      BY <1>2, <2>1, <2>2 DEF ShownSince
    <2> QED BY <2>3, <2>4, <2>5 DEF InspectionInv
  <1>11. CASE UNCHANGED viewVars
    BY <1>11 DEF viewVars, InspectionInv, Inspections!TypeOK, FoundSince, ShownSince
  <1>12. Inspections!Next =>
           \/ Inspections!Show
           \/ \E c \in 1 .. MaxClicks :
                Inspections!LookUp(c) \/ Inspections!ReadTable(c) \/ Inspections!Post(c)
           \/ \E r \in WindowRows :
                Inspections!Inspect(r) \/ \E p \in Found : Inspections!ProcessChanges(r, p)
    BY DEF Inspections!Next, Inspections!Thread, Inspections!Clicks
  <1> QED BY <1>5, <1>6, <1>7, <1>8, <1>9, <1>10, <1>11, <1>12

LEMMA InspectionInvariance == SpecAll => []InspectionInv
  <1>1. InitAll => InspectionInv
    BY InitOfParts, InspectionInitInv
  <1>2. InspectionInv /\ [NextAll]_allVars => InspectionInv'
    <2> SUFFICES ASSUME InspectionInv, [NextAll]_allVars
                 PROVE  InspectionInv'
      OBVIOUS
    <2>1. [Inspections!Next]_viewVars
      BY StepOfParts
    <2> QED BY <2>1, InspectionNextInv
  <1> QED BY <1>1, <1>2, PTL DEF SpecAll

\* The part of LatestInspectionShown that is about safety: once the view has stopped loading
\* it answers the last click, with a process its row has had since that click or with none.
THEOREM SpecAllLatestInspection ==
    SpecAll => [](~loading => view.of = generation /\ view.pid \in since \cup {NoPid})
  <1>1. InspectionInv => (~loading => view.of = generation /\ view.pid \in since \cup {NoPid})
    BY DEF InspectionInv, ShownSince
  <1> QED BY <1>1, InspectionInvariance, PTL

-----------------------------------------------------------------------------
\* Every component keeps its types, however its steps follow one another.
THEOREM SpecAllTypesOK == SpecAll => []TypesOK
  <1>1. Inv => TypeOK
    BY DEF Inv
  <1>2. JobProofs!Inv => Job!TypeOK
    BY DEF JobProofs!Inv, JobProofs!TypeOK, Job!TypeOK, JobProofs!Life, Job!Life
  <1>3. MemoryProofs!Inv => Memory!TypeOK
    BY DEF MemoryProofs!Inv, MemoryProofs!TypeOK, MemoryProofs!MemoryValue, MemoryProofs!Thread,
       MemoryProofs!Tool!ToolState, Memory!TypeOK, Memory!MemoryValue, Memory!Thread,
       Memory!Tool!ToolState
  <1>4. TreeInv => Tree!TypeOK
    BY DEF TreeInv
  <1>5. InspectionInv => Inspections!TypeOK
    BY DEF InspectionInv
  <1>6. Inv /\ JobProofs!Inv /\ MemoryProofs!Inv /\ TreeInv /\ ReaderInv /\ InspectionInv => TypesOK
    BY <1>1, <1>2, <1>3, <1>4, <1>5, ReaderTyped DEF TypesOK
  <1> QED
    BY <1>6, LinuxInvariance, JobInvariance, MemoryInvariance, TreeInvariance,
       ReaderInvariance, InspectionInvariance, PTL

=============================================================================
