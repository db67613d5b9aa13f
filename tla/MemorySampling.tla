--------------------------- MODULE MemorySampling ---------------------------
(***************************************************************************)
(* The memory shown in one row of the manager window: a tool's, or the      *)
(* manager's own.  A sample is taken by a thread of its own, which may take *)
(* seconds; meanwhile the tool is stopped, lost and launched again by its   *)
(* worker, other samples are asked for, and a timer of the window compares  *)
(* what it shows with what there is.                                        *)
(*                                                                         *)
(* The worker is ToolLifecycle: it is all a sampler or the window can       *)
(* observe of it.                                                           *)
(***************************************************************************)
EXTENDS Integers

CONSTANTS
    Pids,       \* process identifiers the operating system hands out
    NoPid,
    Samplers,   \* bound: the sampler threads there are at a time
    Readings,   \* what a query answers: numbers of bytes, or Unavailable
    Rows        \* the kinds of row looked at, out of "tool" and "manager"

VARIABLES
    row,        \* the kind of the row
    state,      \* the tool's ToolState; the manager is running
    pid,        \* its process
    memory,     \* Runtime::memory, or Supervisor::manager_memory
    launched,   \* has_started_once of the worker
    sampler,    \* the sampler threads
    shown,      \* StateRefreshCache: what the row shows
    refreshing  \* memory_refreshing: the refresh button is disabled

toolVars == <<state, pid, launched>>
vars == <<row, toolVars, memory, sampler, shown, refreshing>>

Tool == INSTANCE ToolLifecycle

\* MemoryValue: a reading keeps the process it was taken of, which the code's does not.
MemoryValue == [is : {"idle", "pending"} \cup Readings, of : Pids \cup {NoPid}]
Idle == [is |-> "idle", of |-> NoPid]
Pending == [is |-> "pending", of |-> NoPid]

\* A thread sleeps until a scheduled sample, of which some are left, or waits for a query.
Thread == [does : {"none", "sleep", "query"}, pid : Pids \cup {NoPid}, left : 0 .. 2]
NoThread == [does |-> "none", pid |-> NoPid, left |-> 0]

Free == {s \in Samplers : sampler[s] = NoThread}
Querying == {s \in Samplers : sampler[s].does = "query"}

Snapshot == [state |-> state, pid |-> pid, memory |-> memory]

\* Is the process a sampler was sent to still the one of the row?  The manager's is.
Current(s) == row = "manager" \/ sampler[s].pid = pid

-----------------------------------------------------------------------------
Init ==
    /\ row \in Rows
    /\ memory = Idle /\ launched = FALSE /\ refreshing = FALSE
    /\ \/ /\ row = "tool" /\ Tool!Init
          /\ sampler = [s \in Samplers |-> NoThread]
       \/ /\ row = "manager" /\ state = "Running" /\ pid \in Pids
          /\ \E s \in Samplers :
               sampler = [t \in Samplers |->
                   IF t = s THEN [does |-> "sleep", pid |-> pid, left |-> 2] ELSE NoThread]
    /\ shown = Snapshot

windowUnchanged == UNCHANGED <<shown, refreshing>>

-----------------------------------------------------------------------------
(* The worker *)

\* Its steps that leave the memory alone
Begin ==
    /\ row = "tool"
    /\ Tool!BeginStart \/ Tool!GiveUpStart \/ Tool!AskRestart \/ Tool!BeginStop
    /\ UNCHANGED <<row, memory, launched, sampler>> /\ windowUnchanged

\* The launch: later samples are scheduled, two of the first process.  The system gives a pid
\* away again, but not while a query about it is under way, nor between two looks of the window.
Publish(s) ==
    /\ row = "tool" /\ s \in Free
    /\ Tool!Publish
    /\ pid' \notin {sampler[q].pid : q \in Querying} \cup {shown.pid}
    /\ memory' = Idle /\ launched' = TRUE
    /\ sampler' = [sampler EXCEPT ![s] =
           [does |-> "sleep", pid |-> pid', left |-> IF launched THEN 1 ELSE 2]]
    /\ UNCHANGED row /\ windowUnchanged

\* Mutant: what is shown of a process that ended keeps its memory.
EndKeepsMemory ==
    /\ row = "tool"
    /\ Tool!LoseProcess \/ Tool!EndStop \/ Tool!ClearState
    /\ UNCHANGED <<row, memory, launched, sampler>> /\ windowUnchanged

End ==
    /\ row = "tool"
    /\ Tool!LoseProcess \/ Tool!EndStop \/ Tool!ClearState
    /\ memory' = Idle
    /\ UNCHANGED <<row, launched, sampler>> /\ windowUnchanged

-----------------------------------------------------------------------------
(* sample_memory, called for the button and whenever the window is opened *)

SampleMemory ==
    \/ /\ state = "Running"
       /\ memory' = Pending
       /\ \E s \in Free :
            sampler' = [sampler EXCEPT ![s] = [does |-> "query", pid |-> pid, left |-> 0]]
    \/ /\ state # "Running"
       /\ memory' = Idle /\ UNCHANGED sampler

\* on_refresh_memory
RefreshMemory ==
    /\ ~refreshing
    /\ refreshing' = TRUE
    /\ SampleMemory
    /\ UNCHANGED <<row, toolVars, shown>>

\* show_manager
ShowManager ==
    /\ SampleMemory
    /\ UNCHANGED <<row, toolVars>> /\ windowUnchanged

(* A sampler thread *)

\* Mutant: the process is not compared again when the sleep is over.
WakeAnyway(s) ==
    /\ sampler[s].does = "sleep"
    /\ memory' = Pending
    /\ sampler' = [sampler EXCEPT ![s].does = "query", ![s].left = @ - 1]
    /\ UNCHANGED <<row, toolVars>> /\ windowUnchanged

\* schedule_tool_memory_refresh, schedule_initial_manager_memory_refresh: the sleep is over.
Wake(s) ==
    /\ sampler[s].does = "sleep"
    /\ IF Current(s)
       THEN /\ memory' = Pending
            /\ sampler' = [sampler EXCEPT ![s].does = "query", ![s].left = @ - 1]
       ELSE /\ sampler' = [sampler EXCEPT ![s] = NoThread]
            /\ UNCHANGED memory
    /\ UNCHANGED <<row, toolVars>> /\ windowUnchanged

After(s) ==
    IF Current(s) /\ sampler[s].left > 0 THEN [sampler[s] EXCEPT !.does = "sleep"] ELSE NoThread

\* Mutant: the answer is written whatever process is there now.
AnswerAnyway(s, value) ==
    /\ s \in Querying
    /\ memory' = [is |-> value, of |-> sampler[s].pid]
    /\ sampler' = [sampler EXCEPT ![s] = After(s)]
    /\ UNCHANGED <<row, toolVars>> /\ windowUnchanged

Answer(s, value) ==
    /\ s \in Querying
    /\ memory' = IF Current(s) THEN [is |-> value, of |-> sampler[s].pid] ELSE memory
    /\ sampler' = [sampler EXCEPT ![s] = After(s)]
    /\ UNCHANGED <<row, toolVars>> /\ windowUnchanged

(* The window's timer *)

\* refresh_state: nothing is done when nothing changed.
RefreshState ==
    /\ shown # Snapshot
    /\ shown' = Snapshot
    /\ refreshing' = (memory = Pending)
    /\ UNCHANGED <<row, toolVars, memory, sampler>>

-----------------------------------------------------------------------------
Sampler(s) == Wake(s) \/ \E value \in Readings : Answer(s, value)

Next ==
    \/ Begin \/ End \/ RefreshMemory \/ ShowManager \/ RefreshState
    \/ \E s \in Samplers : Publish(s) \/ Sampler(s)

Spec == Init /\ [][Next]_vars

\* Sleeps and queries end, and the window's timer fires.  Nothing is asked of the worker or
\* of the user.
Fairness == WF_vars(RefreshState) /\ \A s \in Samplers : WF_vars(Sampler(s))

FairSpec == Spec /\ Fairness

-----------------------------------------------------------------------------
(* Properties *)

TypeOK ==
    /\ row \in Rows /\ state \in Tool!ToolState /\ pid \in Pids \cup {NoPid}
    /\ memory \in MemoryValue /\ launched \in BOOLEAN /\ refreshing \in BOOLEAN
    /\ sampler \in [Samplers -> Thread]
    /\ shown \in [state : Tool!ToolState, pid : Pids \cup {NoPid}, memory : MemoryValue]
    /\ row = "manager" => state = "Running" /\ pid \in Pids

\* A row that says Pending has a query under way that will write its answer: no end of a
\* process, launch or overlapping sample leaves it waiting for a thread that is gone or will
\* find another pid.
PendingIsServed ==
    memory = Pending => \E s \in Querying : Current(s)

\* A memory value is never shown for a process it was not taken of, although samplers
\* outlive the process they were sent to.
SampleMatchesProcess ==
    memory.is \in Readings => memory.of = pid

\* Once nobody starts, stops or asks any more, the row comes to rest as well: the samplers that
\* are left end, none of them leaves Pending behind for a process that is gone, and the row shows
\* what there is, for ever.
RestIsShown == <>[][RefreshState \/ \E s \in Samplers : Sampler(s)]_vars
                   => <>[](memory # Pending /\ shown = Snapshot)

\* The refresh button is not left disabled with no sample under way: memory can be sampled
\* on demand, and a control is disabled only while its action is unavailable.
RefreshEnds == []<>(refreshing => memory = Pending)

=============================================================================
