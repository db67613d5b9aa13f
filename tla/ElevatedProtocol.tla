-------------------------- MODULE ElevatedProtocol --------------------------
(***************************************************************************)
(* A tool that needs administrator rights: the manager's proxy thread asks,  *)
(* the elevated helper, another process, launches and stops.  They share a   *)
(* directory: the proxy writes numbered command files and reads a state      *)
(* file, the helper claims and executes the commands and publishes the       *)
(* state of the tool with the number of the last command it acknowledges.    *)
(*                                                                         *)
(* Either side may die and come back, at any point.  Command numbers are     *)
(* read from the wall clock.  Deadlines are not counted: a deadline may be   *)
(* over as soon as its wait has begun, unless Patient says that eight        *)
(* seconds are enough for a live helper to carry out what it was asked and   *)
(* to renew its state.  The proxy cannot see whether a helper lives: that of *)
(* a live one may be too old, missing or unreadable for eight seconds.       *)
(***************************************************************************)
EXTENDS Integers, Sequences, FiniteSets

CONSTANTS
    MaxId,          \* bound: command numbers
    LastAsked,      \* bound: users ask no more once this number is used
    MaxHelpers,     \* bound: launches of the helper
    MaxBoots,       \* bound: launches of the manager
    Patient,        \* eight seconds are enough for a live helper to settle
    Faults,         \* bound: the kinds of fault, of which one happens at most
    Asked,          \* bound: the commands users ask for
    None            \* no file, no command

\* "write": a command file cannot be written; "claim": one cannot be renamed; "clock": the
\* wall clock steps back; "exit": the tool fails to start, or ends by itself.
ASSUME BoundAssumption ==
    /\ MaxId \in Nat \ {0} /\ LastAsked \in 0..MaxId
    /\ MaxHelpers \in Nat /\ MaxBoots \in Nat \ {0}
    /\ Patient \in BOOLEAN /\ Asked \subseteq {"Start", "Stop", "Restart", "Sample"}
    /\ Faults \subseteq {"write", "claim", "clock", "exit"}

VARIABLES
    autoStart,      \* ToolConfig::auto_start
    clock,          \* the number next_command_id gives
    files,          \* the command files of the tool
    claimed,        \* the file renamed by a helper, dead or alive
    state,          \* the state file
    fresh,          \* it was updated in the last eight seconds
    manager,        \* "up", "shutdown" or "dead"
    boots,          \* launches of the manager so far
    reading,        \* the proxy's loop has to look at the state file next
    desired,        \* desired_running
    satisfied,      \* desired_state_satisfied
    pending,        \* pending_command
    seen,           \* helper_started_unix_ms, 0 when no helper was seen
    unavailable,    \* unavailable_since: "no", "since" a moment, "due" when eight seconds are over
    shown,          \* Runtime::state
    helper,         \* "down", "list", "work", "remove" or "replace"
    launches,       \* launches of the helper so far, which identify it
    batch,          \* numbers of the listed files it has still to look at
    acknowledged,
    draft,          \* the state it is about to publish
    todo,           \* what it has asked of its supervisor's worker
    tool,           \* the tool, in that worker's runtime record
    executed,       \* history: for each number the last helper to execute it, or 0
    faults          \* history: the fault that happened, if any

proxyVars  ==
    <<manager, boots, reading, desired, satisfied, pending, seen, unavailable, shown>>
helperVars == <<helper, launches, batch, acknowledged, draft, todo, tool>>
vars == <<autoStart, clock, files, claimed, state, fresh, proxyVars, helperVars, executed, faults>>

-----------------------------------------------------------------------------
\* ElevatedCommand; "Sample" asks for a memory sample and leaves the tool alone.
Command == {"Start", "Stop", "Restart", "Sample"}

\* CommandRequest, and the file that holds it
Request == [id : 1..MaxId, command : Command]

\* A tool that is launched or given up; the states it passes through are left out.
ToolState == {"Stopped", "Running", "Crashed"}

State == [tool : ToolState, ack : 0..MaxId, helper : 1..MaxHelpers]

Fault(kind) == kind \in Faults /\ faults = {} /\ faults' = {kind}

Ids(requests) == {f.id : f \in requests}
Least(ids) == CHOOSE i \in ids : \A j \in ids : i <= j

\* The command that asks for the desired state
Wanted == IF desired THEN "Start" ELSE "Stop"

(* send_command: its number is the clock's, and beyond what is known as acknowledged *)

NextId ==
    LET minimum == IF state = None THEN 0 ELSE state.ack + 1
    IN  IF clock > minimum THEN clock ELSE minimum

\* write_command leaves a file of that number alone.
Written(request) ==
    files' = IF request.id \in Ids(files) THEN files ELSE files \cup {request}

\* The command is on its way, or could not be written; the clock has moved on.
SendCommand(command) ==
    /\ NextId <= MaxId
    /\ clock' = clock + 1
    /\ \/ Written([id |-> NextId, command |-> command]) /\ UNCHANGED faults
       \/ UNCHANGED files /\ Fault("write")

Sent(command) ==
    IF faults' # faults THEN None ELSE [id |-> NextId, command |-> command]

-----------------------------------------------------------------------------
Init ==
    /\ autoStart \in BOOLEAN
    /\ clock = 1
    /\ files = {} /\ claimed = None /\ state = None /\ fresh = FALSE
    /\ manager = "dead" /\ boots = 0
    /\ reading = FALSE /\ desired = FALSE /\ satisfied = FALSE
    /\ pending = None /\ seen = 0 /\ unavailable = "since" /\ shown = "Stopped"
    /\ helper = "down" /\ launches = 0 /\ batch = {} /\ acknowledged = 0
    /\ draft = None /\ todo = <<>> /\ tool = "Stopped"
    /\ executed = [id \in 1..MaxId |-> 0]
    /\ faults = {}

(* The proxy thread of the manager *)

proxyUnchanged == UNCHANGED <<autoStart, claimed, state, fresh, helperVars, executed>>

\* The thread ends, and its variables with it.
Forgotten ==
    /\ reading' = FALSE /\ desired' = FALSE /\ satisfied' = FALSE
    /\ pending' = None /\ seen' = 0 /\ unavailable' = "since" /\ shown' = "Stopped"

\* The manager is launched; a tool with auto_start is asked for before the loop.
ManagerStarts ==
    /\ manager # "up" /\ boots < MaxBoots
    /\ manager' = "up" /\ boots' = boots + 1
    /\ reading' = FALSE /\ desired' = autoStart /\ satisfied' = FALSE
    /\ seen' = 0 /\ unavailable' = "since"
    /\ IF autoStart
       THEN SendCommand("Start") /\ pending' = Sent("Start")
       ELSE UNCHANGED <<clock, files, faults>> /\ pending' = None
    /\ shown' = IF autoStart THEN "Starting" ELSE "Stopped"
    /\ proxyUnchanged

Asks(command) == command \in Asked /\ NextId <= LastAsked

\* The Control message of a user, and what it makes of the runtime record
Receive(command, display) ==
    /\ manager = "up" /\ ~reading /\ Asks(command)
    /\ reading' = TRUE
    /\ desired' = (command # "Stop") /\ satisfied' = FALSE
    /\ SendCommand(command) /\ pending' = Sent(command)
    /\ shown' = display
    /\ UNCHANGED <<manager, boots, seen, unavailable>> /\ proxyUnchanged

ReceiveStart   == Receive("Start", "Starting")
ReceiveStop    == Receive("Stop", "Stopping")
ReceiveRestart == Receive("Restart", "Restarting")

ReceiveSample ==
    /\ manager = "up" /\ ~reading /\ Asks("Sample")
    /\ reading' = TRUE
    /\ SendCommand("Sample")
    /\ UNCHANGED <<manager, boots, desired, satisfied, pending, seen, unavailable, shown>>
    /\ proxyUnchanged

\* Mutant: the proxy ends without asking for the tool to be stopped.
ReceiveShutdownSilently ==
    /\ manager = "up" /\ ~reading
    /\ manager' = "shutdown"
    /\ Forgotten /\ UNCHANGED <<clock, files, faults, boots>>
    /\ proxyUnchanged

\* The last command is not followed up: the thread ends.
ReceiveShutdown ==
    /\ manager = "up" /\ ~reading
    /\ SendCommand("Stop")
    /\ manager' = IF faults' = faults THEN "shutdown" ELSE "dead"
    /\ Forgotten /\ UNCHANGED boots
    /\ proxyUnchanged

ReceiveTimeout ==
    /\ manager = "up" /\ ~reading
    /\ reading' = TRUE
    /\ UNCHANGED <<clock, files, faults, manager, boots, desired, satisfied, pending, seen,
                   unavailable, shown>>
    /\ proxyUnchanged

-----------------------------------------------------------------------------
(* Its look at a fresh state file *)

HelperFirstSeen == seen = 0
HelperChanged == seen \notin {0, state.helper}

Acknowledged == pending # None /\ state.ack >= pending.id
Unacknowledged == IF Acknowledged THEN None ELSE pending

Matches == state.tool = IF desired THEN "Running" ELSE "Stopped"

\* Eight seconds, during which a patient proxy's helper had the time to settle.
EightSeconds ==
    Patient => helper \in {"list", "work"} /\ todo = <<>> /\ batch = {} /\ state.tool = tool

ReadFresh ==
    /\ manager = "up" /\ reading
    /\ state # None /\ fresh
    /\ reading' = FALSE
    /\ seen' = state.helper /\ shown' = state.tool /\ unavailable' = "no"
    /\ UNCHANGED <<manager, boots, desired>> /\ proxyUnchanged

\* pending_command becomes that command again, or the desired one under a new number.
Reissue == SendCommand(Wanted) /\ pending' = Sent(Wanted)

\* Mutant: the new helper is noticed, and the desired state is not asked for again.
ReadChangedHelperIgnored ==
    /\ ReadFresh /\ HelperChanged
    /\ satisfied' = (satisfied \/ Matches)
    /\ pending' = Unacknowledged
    /\ UNCHANGED <<clock, files, faults>>

ReadChangedHelper ==
    /\ ReadFresh /\ HelperChanged
    /\ satisfied' = FALSE
    /\ Reissue

ReadFirstHelper ==
    /\ ReadFresh /\ HelperFirstSeen /\ ~Matches /\ Unacknowledged = None
    /\ UNCHANGED satisfied
    /\ Reissue

\* Two seconds without an acknowledgement: the same command under the same number.
ReadResends ==
    /\ ReadFresh /\ ~HelperChanged /\ Unacknowledged # None
    /\ satisfied' = (satisfied \/ Matches)
    /\ \/ Written(pending) /\ UNCHANGED faults
       \/ UNCHANGED files /\ Fault("write")
    /\ UNCHANGED <<clock, pending>>

ReadReconciles ==
    /\ ReadFresh /\ ~HelperChanged /\ ~HelperFirstSeen
    /\ Unacknowledged = None /\ ~satisfied /\ ~Matches
    /\ EightSeconds
    /\ UNCHANGED satisfied
    /\ Reissue

ReadOnly ==
    /\ ReadFresh /\ ~HelperChanged
    /\ HelperFirstSeen => Matches \/ Unacknowledged # None
    /\ satisfied' = (satisfied \/ Matches)
    /\ pending' = Unacknowledged
    /\ UNCHANGED <<clock, files, faults>>

(* Its look at no state, at a stale one, or at one that cannot be read *)

Unavailable ==
    /\ manager = "up" /\ reading
    /\ reading' = FALSE
    /\ UNCHANGED <<clock, files, faults, manager, boots, desired, satisfied, pending, seen>>
    /\ proxyUnchanged

\* Mutant: each look starts the wait anew.
ReadUnavailableAnew ==
    /\ Unavailable
    /\ unavailable' = "since" /\ UNCHANGED shown

\* The first such look starts the wait; once it is over, the tool is shown as down.
ReadUnavailable ==
    /\ Unavailable
    /\ unavailable' = IF unavailable = "no" THEN "since" ELSE unavailable
    /\ shown' = IF unavailable # "due" THEN shown ELSE IF desired THEN "Crashed" ELSE "Stopped"

\* Eight seconds without a look at a fresh state
EightSecondsUnavailable ==
    /\ manager = "up" /\ unavailable = "since"
    /\ unavailable' = "due"
    /\ UNCHANGED <<clock, files, faults, manager, boots, reading, desired, satisfied, pending,
                   seen, shown>>
    /\ proxyUnchanged

-----------------------------------------------------------------------------
(* run_helper *)

helperUnchanged == UNCHANGED <<autoStart, clock, fresh, proxyVars, launches>>

\* Mutant: what a dead helper had claimed stays claimed.
HelperStartsAfresh ==
    /\ helper = "down" /\ launches < MaxHelpers
    /\ helper' = "list" /\ launches' = launches + 1
    /\ UNCHANGED files /\ claimed' = None
    /\ acknowledged' = IF state = None THEN 0 ELSE state.ack
    /\ UNCHANGED <<autoStart, clock, state, fresh, proxyVars, batch, draft, todo, tool,
                   executed, faults>>

\* recover_claimed_commands, and the acknowledgement its predecessor published
HelperStarts ==
    /\ helper = "down" /\ launches < MaxHelpers
    /\ helper' = "list" /\ launches' = launches + 1
    /\ IF claimed # None THEN Written(claimed) ELSE UNCHANGED files
    /\ claimed' = None
    /\ acknowledged' = IF state = None THEN 0 ELSE state.ack
    /\ UNCHANGED <<autoStart, clock, state, fresh, proxyVars, batch, draft, todo, tool,
                   executed, faults>>

HelperLists ==
    /\ helper = "list"
    /\ batch' = Ids(files)
    /\ helper' = "work"
    /\ helperUnchanged
    /\ UNCHANGED <<files, claimed, state, acknowledged, draft, todo, tool, executed, faults>>

\* Mutant: a claimed command stays on the list.
HelperClaimsAndKeeps ==
    /\ helper = "work" /\ claimed = None /\ batch # {}
    /\ UNCHANGED batch
    /\ claimed' \in {f \in files : f.id = Least(batch)}
    /\ files' = files \ {claimed'}
    /\ helperUnchanged
    /\ UNCHANGED <<helper, state, acknowledged, draft, todo, tool, executed, faults>>

HelperClaims ==
    /\ helper = "work" /\ claimed = None /\ batch # {}
    /\ batch' = batch \ {Least(batch)}
    /\ \/ /\ claimed' \in {f \in files : f.id = Least(batch)}
          /\ files' = files \ {claimed'}
          /\ UNCHANGED faults
       \/ UNCHANGED <<claimed, files>> /\ Fault("claim")
    /\ helperUnchanged
    /\ UNCHANGED <<helper, state, acknowledged, draft, todo, tool, executed>>

\* Mutant: the last acknowledged number is executed again.
HelperExecutesAgain ==
    /\ helper = "work" /\ claimed # None /\ claimed.id >= acknowledged
    /\ helper' = "remove"
    /\ todo' = IF claimed.command = "Sample" THEN todo ELSE Append(todo, claimed)
    /\ acknowledged' = claimed.id
    /\ executed' = [executed EXCEPT ![claimed.id] = launches]
    /\ helperUnchanged
    /\ UNCHANGED <<batch, files, claimed, state, draft, tool, faults>>

HelperExecutes ==
    /\ helper = "work" /\ claimed # None /\ claimed.id > acknowledged
    /\ helper' = "remove"
    /\ todo' = IF claimed.command = "Sample" THEN todo ELSE Append(todo, claimed)
    /\ acknowledged' = claimed.id
    /\ executed' = [executed EXCEPT ![claimed.id] = launches]
    /\ helperUnchanged
    /\ UNCHANGED <<batch, files, claimed, state, draft, tool, faults>>

\* The claimed file is removed, executed just now or acknowledged before.
HelperRemoves ==
    /\ \/ helper = "remove"
       \/ helper = "work" /\ claimed # None /\ claimed.id <= acknowledged
    /\ helper' = "work" /\ claimed' = None
    /\ helperUnchanged
    /\ UNCHANGED <<batch, files, state, acknowledged, draft, todo, tool, executed, faults>>

\* publish_state: the old file is removed before the new one takes its name.
HelperPublishes ==
    /\ helper = "work" /\ claimed = None /\ batch = {}
    /\ draft' = [tool |-> tool, ack |-> acknowledged, helper |-> launches]
    /\ state' = None /\ fresh' = FALSE
    /\ helper' = "replace"
    /\ UNCHANGED <<autoStart, clock, proxyVars, launches, batch, files, claimed, acknowledged,
                   todo, tool, executed, faults>>

HelperReplaces ==
    /\ helper = "replace"
    /\ state' = draft /\ fresh' = TRUE /\ draft' = None
    /\ helper' = "list"
    /\ UNCHANGED <<autoStart, clock, proxyVars, launches, batch, files, claimed, acknowledged,
                   todo, tool, executed, faults>>

\* Nothing to report: neither a command nor a change, and not two seconds since.
HelperSkips ==
    /\ helper = "work" /\ claimed = None /\ batch = {}
    /\ state = [tool |-> tool, ack |-> acknowledged, helper |-> launches] /\ fresh
    /\ helper' = "list"
    /\ helperUnchanged
    /\ UNCHANGED <<batch, files, claimed, state, acknowledged, draft, todo, tool, executed, faults>>

\* It is killed, or leaves on an error; the job object it held takes the tool along.
HelperDies ==
    /\ helper # "down"
    /\ helper' = "down"
    /\ batch' = {} /\ acknowledged' = 0 /\ draft' = None /\ todo' = <<>> /\ tool' = "Stopped"
    /\ helperUnchanged
    /\ UNCHANGED <<files, claimed, state, executed, faults>>

-----------------------------------------------------------------------------
(* The worker of the tool in the helper's Supervisor, and the surroundings *)

workerUnchanged ==
    /\ helperUnchanged
    /\ UNCHANGED <<helper, batch, acknowledged, draft, files, claimed, state, executed>>

\* A start of a running tool does nothing; any other launch succeeds or is given up.
WorkerLaunches ==
    /\ todo # <<>> /\ Head(todo).command \in {"Start", "Restart"}
    /\ todo' = Tail(todo)
    /\ \/ tool' = "Running" /\ UNCHANGED faults
       \/ /\ tool # "Running" \/ Head(todo).command = "Restart"
          /\ tool' = "Crashed" /\ Fault("exit")
    /\ workerUnchanged

WorkerStops ==
    /\ todo # <<>> /\ Head(todo).command = "Stop"
    /\ todo' = Tail(todo)
    /\ tool' = "Stopped"
    /\ workerUnchanged /\ UNCHANGED faults

\* It ends by itself: without auto_restart it is stopped, with it it was given up.
ToolExits ==
    /\ tool = "Running" /\ Fault("exit")
    /\ tool' \in {"Stopped", "Crashed"}
    /\ workerUnchanged /\ UNCHANGED todo

\* Eight seconds without a new state: the helper is gone, or slow.
StateAges ==
    /\ fresh /\ (Patient => helper = "down")
    /\ fresh' = FALSE
    /\ UNCHANGED <<autoStart, clock, files, claimed, state, proxyVars, helperVars, executed, faults>>

ManagerDies ==
    /\ manager = "up"
    /\ manager' = "dead"
    /\ Forgotten
    /\ UNCHANGED <<autoStart, clock, files, claimed, state, fresh, boots, helperVars, executed,
                   faults>>

ClockStepsBack ==
    /\ Fault("clock")
    /\ clock' \in 1..clock - 1
    /\ UNCHANGED <<autoStart, files, claimed, state, fresh, proxyVars, helperVars, executed>>

-----------------------------------------------------------------------------
User == ReceiveStart \/ ReceiveStop \/ ReceiveRestart \/ ReceiveSample \/ ReceiveShutdown

ReadState == ReadChangedHelper \/ ReadFirstHelper \/ ReadResends \/ ReadReconciles \/ ReadOnly

Proxy == ReceiveTimeout \/ ReadState \/ ReadUnavailable

Helper ==
    \/ HelperLists \/ HelperClaims \/ HelperExecutes \/ HelperRemoves
    \/ HelperPublishes \/ HelperReplaces \/ HelperSkips

Worker == WorkerLaunches \/ WorkerStops

Environment ==
    \/ ManagerStarts \/ ManagerDies \/ HelperStarts \/ HelperDies
    \/ EightSecondsUnavailable \/ ToolExits \/ StateAges \/ ClockStepsBack

Next == User \/ Proxy \/ Helper \/ Worker \/ Environment

Spec == Init /\ [][Next]_vars

\* The threads of both processes are scheduled and time passes: a deadline of the proxy's
\* loop is over at last, and a state nobody renews is stale at last.  The proxy does not find
\* the state of a helper that lives missing or stale each time it looks: it is missing for the
\* length of a rename, and renewed every two seconds.
FairSpec ==
    /\ Spec
    /\ WF_vars(Proxy) /\ WF_vars(EightSecondsUnavailable)
    /\ WF_vars(Helper) /\ WF_vars(Worker) /\ WF_vars(StateAges /\ helper = "down")
    /\ SF_vars(ReceiveTimeout /\ state # None /\ fresh) /\ SF_vars(ReadState)
    /\ SF_vars(ReadResends) /\ SF_vars(ReadReconciles)

-----------------------------------------------------------------------------
(* Properties *)

\* Every variable has its type, and the numbers stay in their bound.
TypeOK ==
    /\ autoStart \in BOOLEAN /\ clock \in 1..MaxId + 1
    /\ files \subseteq Request /\ claimed \in Request \cup {None}
    /\ state \in State \cup {None} /\ fresh \in BOOLEAN
    /\ manager \in {"up", "shutdown", "dead"} /\ boots \in 0..MaxBoots
    /\ reading \in BOOLEAN /\ desired \in BOOLEAN /\ satisfied \in BOOLEAN
    /\ pending \in Request \cup {None} /\ seen \in 0..MaxHelpers
    /\ unavailable \in {"no", "since", "due"}
    /\ shown \in ToolState \cup {"Starting", "Stopping", "Restarting"}
    /\ helper \in {"down", "list", "work", "remove", "replace"} /\ launches \in 0..MaxHelpers
    /\ batch \subseteq Ids(files) /\ acknowledged \in 0..MaxId
    /\ draft \in State \cup {None} /\ todo \in Seq(Request) /\ tool \in ToolState
    /\ executed \in [1..MaxId -> 0..MaxHelpers]
    /\ faults \subseteq Faults

\* No helper executes a command twice, although commands are written again while it may
\* already have claimed, executed or acknowledged them: neither the last one nor any before.
AtMostOncePerHelper ==
    [][(helper = "work" /\ helper' = "remove") => executed[claimed.id] # launches]_vars

\* What is acknowledged was executed, by this helper or by one that died: as long as the
\* clock only moves on and files can be written and renamed, no command is skipped.
AcknowledgedIsExecuted ==
    (state # None /\ faults \subseteq {"exit"})
        => \A id \in 1..clock - 1 : id <= state.ack => executed[id] # 0

\* When both processes stay and nobody asks any more, the tool ends up as last asked for,
\* whatever deaths of either side and repeated commands came before.
Converges ==
    <>[](manager = "up" /\ helper # "down")
        => <>[](manager = "up" => (desired <=> tool = "Running"))

\* A manager that shuts down leaves no elevated tool running behind.
ShutdownStops ==
    manager = "shutdown" ~> (tool # "Running" \/ manager = "up")

\* A tool whose helper is gone is not shown as running for ever.
NoGhost ==
    (manager = "up" /\ helper = "down") ~> (shown # "Running" \/ helper # "down" \/ manager # "up")

\* The proxy does not of its own accord ask for the launch of a tool that the helper it
\* knows reports as given up; repeating the user's command is not its own accord.
NoUnaskedRevival ==
    [][(reading /\ state # None /\ state.tool = "Crashed" /\ state.helper = seen)
          => \A f \in files' \ files : f.command = "Stop" \/ f = pending]_vars

=============================================================================
