--------------------------- MODULE GuardContract ---------------------------
(***************************************************************************)
(* What the worker relies on when it holds a ProcessGuard, whichever        *)
(* platform it was compiled for: a healthy tree is let alone, and a guard   *)
(* is let go only with its tree stopped.  LinuxGuard and JobGuard implement *)
(* it, each under a refinement mapping of its own.                          *)
(***************************************************************************)

VARIABLES
    stage,      \* how far the worker is with the guard
    tree,       \* the processes the guard answers for
    trouble     \* what the system did to excuse the guard

vars == <<stage, tree, trouble>>

\* "crashed": the manager died and the worker with it.
Stage == {"none", "attaching", "held", "stopping", "released", "crashed"}

\* "alive": some process goes on; "doomed": all that are left were killed.
Tree == {"none", "alive", "doomed", "gone"}

\* "refused": a stop was not carried out; "late": the guard was not armed in time.
Trouble == {"refused", "late"}

\* What is over does not begin again.
Declines ==
    tree' \in CASE tree = "none"   -> {"none"}
                [] tree = "alive"  -> {"alive", "doomed", "gone"}
                [] tree = "doomed" -> {"doomed", "gone"}
                [] tree = "gone"   -> {"gone"}

Excuses == trouble \subseteq trouble' /\ trouble' \subseteq Trouble

Init == stage = "none" /\ tree = "none" /\ trouble = {}

\* prepare_command and Command::spawn
Launch ==
    /\ stage = "none" /\ stage' = "attaching"
    /\ tree' = "alive" /\ UNCHANGED trouble

\* The guard learns what belongs to the tree while it attaches: "gone" may turn out wrong.
Attaching ==
    /\ stage = "attaching" /\ stage' \in {"attaching", "held"}
    /\ Excuses
    /\ tree' \in {"alive", "gone"} \/ (tree' = "doomed" /\ "late" \in trouble)

\* Processes end by themselves: nobody kills a tree that is neither being stopped nor, for
\* being late, given up.
Holding ==
    /\ stage = "held" /\ UNCHANGED stage
    /\ Declines /\ Excuses
    /\ tree = "alive" /\ tree' = "doomed" => "late" \in trouble

\* request_graceful_stop, force_stop and child.kill, of a tree that was held or could not be
Stopping ==
    /\ stage \in {"attaching", "held", "stopping"} /\ stage' = "stopping"
    /\ Declines /\ Excuses

\* The guard is dropped, by the end of a stop or after a failed attach.
Release ==
    /\ stage \in {"attaching", "stopping"} /\ stage' = "released"
    /\ Declines /\ Excuses
    /\ tree' \in {"doomed", "gone"} \/ "refused" \in trouble'

\* The manager dies: the platforms promise different things of what is left.
Crash ==
    /\ stage \notin {"none", "crashed"} /\ stage' = "crashed"
    /\ Declines /\ Excuses

Afterwards ==
    /\ stage \in {"released", "crashed"} /\ UNCHANGED stage
    /\ Declines /\ Excuses

Next ==
    \/ Launch \/ Attaching \/ Holding \/ Stopping
    \/ Release \/ Crash \/ Afterwards

Spec == Init /\ [][Next]_vars

=============================================================================
