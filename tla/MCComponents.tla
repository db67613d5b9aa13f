---------------------------- MODULE MCComponents ----------------------------
(***************************************************************************)
(* The components that run beside the workers and do not interact with one  *)
(* another, model-checked side by side: a behaviour belongs to one of them, *)
(* and the others stay in an initial state in which they have nothing to    *)
(* do.  What is checked of each is checked as if it were alone.             *)
(***************************************************************************)
EXTENDS LinuxGuard, Integers

CONSTANTS
    TableSize, MaxBytes, MaxLine,
    Pids, NoPid, Samplers, WindowRows, MaxClicks

ASSUME ComponentsAssumption ==
    /\ TableSize \in Nat /\ TableSize >= 2
    /\ MaxBytes \in Nat /\ MaxLine \in Nat
    /\ WindowRows # {} /\ MaxClicks \in Nat

VARIABLES
    part,                                                           \* the component
    jobPhase, open, job, jobLife, hook, reaper, refused,            \* JobGuard
    parent, members, walk, visited, output, stage,                  \* ProcessTree
    written, rest, line, truncated, observed, logged, reading,      \* OutputReader
    viewPid, generation, thread, posted, loading, view, since,      \* Inspection
    row, state, pid, memory, launched, sampler, shown, refreshing   \* MemorySampling

Job == INSTANCE JobGuard WITH phase <- jobPhase, life <- jobLife

Tree == INSTANCE ProcessTree WITH Pids <- 1 .. TableSize, Root <- 2, Elsewhere <- 0

Reader == INSTANCE OutputReader

Inspections == INSTANCE Inspection WITH Rows <- WindowRows, pid <- viewPid

Memory ==
    INSTANCE MemorySampling WITH Readings <- {"bytes", "unavailable"},
                                 Rows <- {"tool", "manager"}

jobVars == <<jobPhase, open, job, jobLife, hook, reaper, refused>>
listVars == <<parent, members, walk, visited, output, stage>>
readerVars == <<written, rest, line, truncated, observed, logged, reading>>
viewVars == <<viewPid, generation, thread, posted, loading, view, since>>
memoryVars == <<row, state, pid, memory, launched, sampler, shown, refreshing>>

allVars == <<part, vars, jobVars, listVars, readerVars, viewVars, memoryVars>>

-----------------------------------------------------------------------------
InitAll ==
    /\ part \in {"linux", "windows", "tree", "reader", "inspection", "memory"}
    /\ part = "linux" \/ enabled = FALSE
    /\ part = "tree" \/ (parent = <<>> /\ members = {2})
    /\ part = "reader" \/ written = <<>>
    /\ part = "memory" \/ row = "tool"
    /\ Init /\ Job!Init /\ Tree!Init /\ Reader!Init /\ Inspections!Init /\ Memory!Init

LinuxStep ==
    /\ part = "linux" /\ Next
    /\ UNCHANGED <<part, jobVars, listVars, readerVars, viewVars, memoryVars>>

JobStep ==
    /\ part = "windows" /\ Job!Next
    /\ UNCHANGED <<part, vars, listVars, readerVars, viewVars, memoryVars>>

ListStep ==
    /\ part = "tree" /\ Tree!Next
    /\ UNCHANGED <<part, vars, jobVars, readerVars, viewVars, memoryVars>>

ReaderStep ==
    /\ part = "reader" /\ Reader!Next
    /\ UNCHANGED <<part, vars, jobVars, listVars, viewVars, memoryVars>>

InspectionStep ==
    /\ part = "inspection" /\ Inspections!Next
    /\ UNCHANGED <<part, vars, jobVars, listVars, readerVars, memoryVars>>

MemoryStep ==
    /\ part = "memory" /\ Memory!Next
    /\ UNCHANGED <<part, vars, jobVars, listVars, readerVars, viewVars>>

NextAll ==
    \/ LinuxStep \/ JobStep \/ ListStep
    \/ ReaderStep \/ InspectionStep \/ MemoryStep

SpecAll ==
    /\ InitAll /\ [][NextAll]_allVars
    /\ Fairness /\ Job!Fairness /\ Inspections!Fairness /\ Memory!Fairness

-----------------------------------------------------------------------------
\* The type invariants of the components.
TypesOK ==
    /\ TypeOK /\ Job!TypeOK /\ Tree!TypeOK
    /\ Reader!TypeOK /\ Inspections!TypeOK /\ Memory!TypeOK

\* JobGuard: no process of the tool runs outside its job, or after the job is closed.
JobNoEscape == Job!JobNoEscape

\* JobGuard: the command of a graceful stop is waited for and ended.
HookIsReaped == Job!HookIsReaped

\* Both guards are, to the worker, the guard of GuardContract.
GuardContracts == GuardContractKept /\ Job!GuardContractKept

\* ProcessTree: the list is complete and shows nothing twice.
TreeIsComplete == Tree!TreeIsComplete

\* OutputReader: the log gets the lines of the output.
LinesDelivered == Reader!LinesDelivered

\* Inspection: the view answers the last click.
LatestInspectionShown == Inspections!LatestInspectionShown

\* MemorySampling: a pending row is served.
PendingIsServed == Memory!PendingIsServed

\* MemorySampling: a value belongs to the process of its row.
SampleMatchesProcess == Memory!SampleMatchesProcess

\* MemorySampling: left alone, the row comes to show a value and stays with it.
RestIsShown == Memory!RestIsShown

=============================================================================
