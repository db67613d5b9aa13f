--------------------------- MODULE SingleInstance ---------------------------
(***************************************************************************)
(* Launches of WinKeeper by one user.  The first takes a lock file and runs  *)
(* the manager until it quits or dies; one that finds the lock taken leaves  *)
(* a request in a file, which a timer of the running manager consumes to     *)
(* open its window.  Launches, exits and deaths overlap in any order.        *)
(***************************************************************************)
CONSTANTS
    Instances,      \* processes, each of which may be launched again once it is gone
    Endings,        \* the ways a manager may end: "quit" in order, "die" at any point
    None

ASSUME EndingsAssumption == Endings \subseteq {"quit", "die"}

ASSUME NoneAssumption == None \notin Instances

VARIABLES
    phase,          \* the point of main each process has reached
    opens,          \* the processes launched to open the window: a normal launch or --show
    lock,           \* the holder of instance.lock
    request,        \* show-window.request exists
    visible,        \* the window of the manager is open
    asked,          \* history: the window was asked for, by someone or by the configuration,
                    \*   since the lock was taken
    owed            \* history: launches that left a request no opened window has followed

vars == <<phase, opens, lock, request, visible, asked, owed>>

-----------------------------------------------------------------------------
Phase == {"out", "try", "refused", "locked", "boot", "loop", "closing"}

At(i, from, to) == phase[i] = from /\ phase' = [phase EXCEPT ![i] = to]

\* Past try_acquire
Holding == {"locked", "boot", "loop", "closing"}

\* The event loop of the manager runs, or has yet to return from the handler of Exit.
Looping == \E i \in Instances : phase[i] = "loop"

\* show_manager, by whatever way it is reached
Opened == visible' = TRUE /\ owed' = {}

Init ==
    /\ phase = [i \in Instances |-> "out"] /\ opens = {}
    /\ lock = None /\ request = FALSE /\ visible = FALSE
    /\ asked = FALSE /\ owed = {}

\* A normal launch or --show opens the window; one with --autostart alone may stay minimized.
Launch(i, open) ==
    /\ At(i, "out", "try")
    /\ opens' = IF open THEN opens \cup {i} ELSE opens \ {i}
    /\ UNCHANGED <<lock, request, visible, asked, owed>>

\* Mutant: a lock that is taken is no reason to stop.
TakeLockAnyway(i) ==
    /\ At(i, "try", "locked")
    /\ lock' = i
    /\ asked' = (i \in opens)
    /\ UNCHANGED <<opens, request, visible, owed>>

TakeLock(i) ==
    /\ At(i, "try", "locked") /\ lock = None
    /\ lock' = i
    /\ asked' = (i \in opens)
    /\ UNCHANGED <<opens, request, visible, owed>>

FindLocked(i) ==
    /\ At(i, "try", "refused") /\ lock # None
    /\ UNCHANGED <<opens, lock, request, visible, asked, owed>>

\* Mutant: a request left behind by an earlier run survives.
KeepRequest(i) ==
    /\ At(i, "locked", "boot")
    /\ UNCHANGED <<opens, lock, request, visible, asked, owed>>

\* The end of try_acquire: a request that is there is not for this instance.
DropRequest(i) ==
    /\ At(i, "locked", "boot")
    /\ request' = FALSE
    /\ UNCHANGED <<opens, lock, visible, asked, owed>>

\* The rest of main and the beginning of ui::run, with minimize_to_tray as configured
EnterLoop(i, minimize) ==
    /\ At(i, "boot", "loop")
    /\ IF i \in opens \/ ~minimize THEN Opened /\ asked' = TRUE
                                    ELSE UNCHANGED <<visible, owed, asked>>
    /\ UNCHANGED <<opens, lock, request>>

RequestActivation(i) ==
    /\ At(i, "refused", "out")
    /\ IF i \in opens THEN request' = TRUE /\ asked' = TRUE /\ owed' = owed \cup {i}
                      ELSE UNCHANGED <<request, asked, owed>>
    /\ UNCHANGED <<opens, lock, visible>>

\* Mutant: like the timer of the log, this one passes over a window that is not visible.
TakeRequestIfVisible(i) ==
    /\ phase[i] = "loop" /\ request
    /\ request' = FALSE
    /\ IF visible THEN Opened ELSE UNCHANGED <<visible, owed>>
    /\ UNCHANGED <<phase, opens, lock, asked>>

\* The activation timer
TakeRequest(i) ==
    /\ phase[i] = "loop" /\ request
    /\ request' = FALSE
    /\ Opened
    /\ UNCHANGED <<phase, opens, lock, asked>>

OpenFromTray(i) ==
    /\ phase[i] = "loop"
    /\ asked' = TRUE
    /\ Opened
    /\ UNCHANGED <<phase, opens, lock, request>>

HideWindow(i) ==
    /\ phase[i] = "loop" /\ visible
    /\ visible' = FALSE
    /\ UNCHANGED <<phase, opens, lock, request, asked, owed>>

\* Exit or a signal ends the event loop: the timer runs no more, the window stays until the
\* tools are stopped, and the lock is held all the while.
Quit(i) ==
    /\ "quit" \in Endings /\ At(i, "loop", "closing")
    /\ UNCHANGED <<opens, lock, request, visible, asked, owed>>

\* The process ends, its window and its lock with it.
Ends(i) ==
    /\ phase' = [phase EXCEPT ![i] = "out"]
    /\ IF lock = i THEN lock' = None /\ visible' = FALSE ELSE UNCHANGED <<lock, visible>>
    /\ UNCHANGED <<opens, request, asked, owed>>

Exit(i) == phase[i] = "closing" /\ Ends(i)

Die(i) == "die" \in Endings /\ phase[i] # "out" /\ Ends(i)

-----------------------------------------------------------------------------
Main(i) ==
    \/ TakeLock(i) \/ FindLocked(i) \/ DropRequest(i)
    \/ \E minimize \in BOOLEAN : EnterLoop(i, minimize)
    \/ RequestActivation(i) \/ TakeRequest(i) \/ Exit(i)

User(i) ==
    \/ OpenFromTray(i) \/ HideWindow(i) \/ Quit(i) \/ Die(i)
    \/ \E open \in BOOLEAN : Launch(i, open)

Next == \E i \in Instances : Main(i) \/ User(i)

Spec == Init /\ [][Next]_vars

\* A launched process goes on to the event loop or out, the timer fires, and a manager
\* that quits gets its tools stopped.  No user has to do anything.
FairSpec == Spec /\ \A i \in Instances : WF_vars(Main(i))

-----------------------------------------------------------------------------
(* Properties *)

\* Every variable has its type; who is past the lock holds it, and only it has a window.
TypeOK ==
    /\ phase \in [Instances -> Phase] /\ opens \subseteq Instances
    /\ lock \in Instances \cup {None}
    /\ request \in BOOLEAN /\ visible \in BOOLEAN /\ asked \in BOOLEAN
    /\ owed \subseteq Instances
    /\ \A i \in Instances : phase[i] \in Holding <=> lock = i
    /\ visible => \E i \in Instances : phase[i] \in {"loop", "closing"}

\* A manager that was launched minimized opens its window only for someone who asked for it
\* while it held the lock: not for a request that was left to an earlier one.
NoStaleActivation == visible => asked

\* A launch that left its request with a manager in its event loop gets the window opened,
\* unless the manager is quit or dies first.
RequestAnswered ==
    \A i \in Instances : (i \in owed /\ request /\ Looping) ~> (i \notin owed \/ ~Looping)

\* Every launch that is to open the manager gets its window opened.
LaunchOpensManager == \A i \in Instances : i \in owed ~> i \notin owed

=============================================================================
