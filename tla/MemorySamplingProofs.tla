------------------------ MODULE MemorySamplingProofs ------------------------
(***************************************************************************)
(* Safety proofs about MemorySampling, for every number of pids and of      *)
(* sampler threads.  Both properties compare what is in the memory field    *)
(* with the pid of the row; a thread that was sent to another pid cannot    *)
(* change the field, and a row that loses its pid is set to Idle.           *)
(***************************************************************************)
EXTENDS MemorySampling, TLAPS

-----------------------------------------------------------------------------
(* The inductive invariant *)

\* A thread that sleeps has a sample to take, and the manager's samplers are about the manager.
ThreadInv ==
    /\ \A s \in Samplers : sampler[s].does = "sleep" => sampler[s].left > 0
    /\ row \in {"tool", "manager"}
    /\ row = "manager" =>
         \A s \in Samplers : sampler[s].does # "none" => sampler[s].pid = pid

Inv == TypeOK /\ ThreadInv /\ PendingIsServed /\ SampleMatchesProcess

-----------------------------------------------------------------------------
LEMMA InitInv ==
    ASSUME Readings \cap {"idle", "pending"} = {}
    PROVE  Init => Inv
  <1> SUFFICES ASSUME Init
               PROVE  Inv
    OBVIOUS
  <1>1. /\ memory = Idle /\ Idle \in MemoryValue /\ Idle # Pending /\ Idle.is \notin Readings
        /\ refreshing = FALSE /\ launched = FALSE
    BY DEF Init, Idle, Pending, MemoryValue
  <1>2. /\ row \in {"tool", "manager"} /\ row \in Rows
        /\ state \in Tool!ToolState /\ pid \in Pids \cup {NoPid}
        /\ row = "manager" => state = "Running" /\ pid \in Pids
    BY DEF Init, Tool!Init, Tool!ToolState
  <1>3. \A s \in Samplers :
          sampler[s] \in {NoThread, [does |-> "sleep", pid |-> pid, left |-> 2]}
    BY DEF Init
  <1>4. sampler \in [Samplers -> Thread]
    <2>1. {NoThread, [does |-> "sleep", pid |-> pid, left |-> 2]} \subseteq Thread
      BY <1>2 DEF NoThread, Thread
    <2>2. sampler = [s \in Samplers |-> sampler[s]]
      BY DEF Init
    <2> QED BY <1>3, <2>1, <2>2
  <1>5. shown \in [state : Tool!ToolState, pid : Pids \cup {NoPid}, memory : MemoryValue]
    BY <1>1, <1>2 DEF Init, Snapshot
  <1>6. ThreadInv
    BY <1>2, <1>3 DEF ThreadInv, NoThread
  <1> QED
    BY <1>1, <1>2, <1>4, <1>5, <1>6 DEF Inv, TypeOK, PendingIsServed, SampleMatchesProcess

LEMMA NextInv ==
    ASSUME Readings \cap {"idle", "pending"} = {}
    PROVE  Inv /\ [Next]_vars => Inv'
  <1> SUFFICES ASSUME Inv, [Next]_vars
               PROVE  Inv'
    OBVIOUS
  <1> USE DEF Inv, TypeOK, ThreadInv, PendingIsServed, SampleMatchesProcess, MemoryValue, Idle,
          Pending, Thread, NoThread, Querying, Current, Tool!ToolState, Tool!AtRest, windowUnchanged,
          toolVars
  <1>1. CASE Begin
    BY <1>1 DEF Begin, Tool!BeginStart, Tool!GiveUpStart, Tool!AskRestart, Tool!BeginStop
  <1>2. CASE End
    BY <1>2 DEF End, Tool!LoseProcess, Tool!EndStop, Tool!ClearState
  <1>3. ASSUME NEW s \in Samplers, Publish(s)
        PROVE  Inv'
    BY <1>3 DEF Publish, Tool!Publish
  <1>4. ASSUME SampleMemory, UNCHANGED <<row, toolVars, shown>>, refreshing' \in BOOLEAN
        PROVE  Inv'
    <2>1. CASE state # "Running"
      BY <1>4, <2>1 DEF SampleMemory
    <2>2. CASE state = "Running"
      <3>1. PICK s \in Samplers :
              sampler' = [sampler EXCEPT ![s] = [does |-> "query", pid |-> pid, left |-> 0]]
        BY <1>4, <2>2 DEF SampleMemory, Free
      <3>2. memory' = Pending /\ s \in Querying' /\ Current(s)'
        BY <1>4, <2>2, <3>1 DEF SampleMemory
      <3> QED BY <1>4, <3>1, <3>2
    <2> QED BY <2>1, <2>2
  <1>5. ASSUME NEW s \in Samplers, Wake(s)
        PROVE  Inv'
    <2>1. CASE Current(s)
      <3>1. s \in Querying' /\ Current(s)'
        BY <1>5, <2>1 DEF Wake
      <3> QED BY <1>5, <2>1, <3>1 DEF Wake
    <2>2. CASE ~Current(s)
      BY <1>5, <2>2 DEF Wake
    <2> QED BY <2>1, <2>2
  <1>6. ASSUME NEW s \in Samplers, NEW value \in Readings, Answer(s, value)
        PROVE  Inv'
    <2>1. After(s) \in Thread /\ After(s).does # "query"
          /\ (After(s).does = "sleep" => After(s).left > 0)
          /\ (After(s).does # "none" => After(s).pid = sampler[s].pid)
      BY <1>6 DEF Answer, After
    <2>2. CASE Current(s)
      BY <1>6, <2>1, <2>2 DEF Answer
    <2>3. CASE ~Current(s)
      BY <1>6, <2>1, <2>3 DEF Answer
    <2> QED BY <2>2, <2>3
  <1>7. CASE RefreshState
    BY <1>7 DEF RefreshState, Snapshot
  <1>8. CASE UNCHANGED vars
    BY <1>8 DEF vars
  <1> QED
    BY <1>1, <1>2, <1>3, <1>4, <1>5, <1>6, <1>7, <1>8 DEF Next, RefreshMemory, ShowManager, Sampler

\* Every reachable state is well typed: a sampler that sleeps has samples left to take.
THEOREM SpecTypeOK ==
    ASSUME Readings \cap {"idle", "pending"} = {}
    PROVE  Spec => []TypeOK
  <1>1. Inv => TypeOK
    BY DEF Inv
  <1>2. Init => Inv
    BY InitInv
  <1>3. Inv /\ [Next]_vars => Inv'
    BY NextInv
  <1> QED BY <1>1, <1>2, <1>3, PTL DEF Spec

\* However launches, stops, the button and the samplers overlap, a row that says Pending has a
\* query under way that will write its answer.
THEOREM SpecPendingIsServed ==
    ASSUME Readings \cap {"idle", "pending"} = {}
    PROVE  Spec => []PendingIsServed
  <1>1. Inv => PendingIsServed
    BY DEF Inv
  <1>2. Init => Inv
    BY InitInv
  <1>3. Inv /\ [Next]_vars => Inv'
    BY NextInv
  <1> QED BY <1>1, <1>2, <1>3, PTL DEF Spec

\* No row ever shows a value that was taken of another process than its own, however late the
\* sampler of an earlier process ends.
THEOREM SpecSampleMatchesProcess ==
    ASSUME Readings \cap {"idle", "pending"} = {}
    PROVE  Spec => []SampleMatchesProcess
  <1>1. Inv => SampleMatchesProcess
    BY DEF Inv
  <1>2. Init => Inv
    BY InitInv
  <1>3. Inv /\ [Next]_vars => Inv'
    BY NextInv
  <1> QED BY <1>1, <1>2, <1>3, PTL DEF Spec

=============================================================================
