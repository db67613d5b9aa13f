--------------------------- MODULE ToolLifecycle ---------------------------
(***************************************************************************)
(* What one supervised tool promises to whoever reads its snapshot: the    *)
(* manager window, the tray, the memory samplers, the process-tree view.   *)
(* A snapshot shows a ToolState and an optional pid, and this module says   *)
(* which changes of that pair a reader may ever observe.  How the worker    *)
(* thread brings them about is the business of ToolWorker, which is shown   *)
(* to implement this specification.                                        *)
(***************************************************************************)

CONSTANTS Pids,     \* process identifiers the operating system hands out
          NoPid     \* the snapshot shows no process

VARIABLES state,    \* the ToolState of the snapshot
          pid       \* its pid

vars == <<state, pid>>

\* enum ToolState
ToolState == {"Stopped", "Starting", "Running", "Stopping", "Restarting", "Crashed"}

\* The states of a tool nothing is being done to and that has no process.
AtRest == {"Stopped", "Restarting", "Crashed"}

Init == state = "Stopped" /\ pid = NoPid

\* The worker sets out to launch the command: only when no process is shown.
BeginStart ==
    /\ state \in AtRest /\ pid = NoPid
    /\ state' = "Starting" /\ UNCHANGED pid

\* The launch succeeded: state and pid appear together.
Publish ==
    /\ state = "Starting"
    /\ state' = "Running" /\ pid' \in Pids

\* The launch failed: the tool is given up, or waits for another attempt.
GiveUpStart ==
    /\ state = "Starting"
    /\ state' \in {"Crashed", "Restarting"} /\ UNCHANGED pid

\* The worker noticed that the process ended by itself.
LoseProcess ==
    /\ state = "Running"
    /\ state' \in AtRest /\ pid' = NoPid

\* A restart was asked for; the process, if there is one, is still shown.
AskRestart ==
    /\ state \in AtRest \cup {"Running"}
    /\ state' = "Restarting" /\ UNCHANGED pid

BeginStop ==
    /\ state \in {"Running", "Restarting"} /\ pid \in Pids
    /\ state' = "Stopping" /\ UNCHANGED pid

EndStop ==
    /\ state = "Stopping"
    /\ state' = "Stopped" /\ pid' = NoPid

\* Stopping a tool that has no process only clears what is shown.
ClearState ==
    /\ state \in AtRest /\ pid = NoPid
    /\ state' = "Stopped" /\ UNCHANGED pid

Next ==
    \/ BeginStart \/ Publish \/ GiveUpStart \/ LoseProcess
    \/ AskRestart \/ BeginStop \/ EndStop \/ ClearState

Spec == Init /\ [][Next]_vars

=============================================================================
