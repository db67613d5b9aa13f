---------------------------- MODULE ProcessTree ----------------------------
(***************************************************************************)
(* The process tree of a tool, as the window lists it: one line per         *)
(* process, indented by its depth.  It is assembled from a table of all     *)
(* processes, read entry by entry while processes start, end and are taken  *)
(* over by other parents: the table may hold any parent, cycles included,   *)
(* and may miss the root.  On Linux the members of the root's process group *)
(* or scope are listed as well, wherever their parents are.                 *)
(***************************************************************************)
EXTENDS SequencesExt, Integers, SortedNumbers

CONSTANTS
    Pids,       \* the processes that may be in the table: numbers, for they are sorted
    Root,       \* the one the tree is asked for, a member of Pids
    Elsewhere   \* a parent that is not in Pids

VARIABLES
    parent,     \* the table: the parent of every process in it
    members,    \* member_pids
    walk,       \* the calls of append that are still to be made: pids with their depths
    visited,    \* the pids append was called with
    output,     \* the lines so far
    stage       \* whose subtrees are appended: "root", "detached", "remaining"; or "done"

vars == <<parent, members, walk, visited, output, stage>>

Present == DOMAIN parent
Line == [pid : Pids, depth : Nat]

Calls(pids, depth) ==
    [i \in DOMAIN Sorted(pids) |-> [pid |-> Sorted(pids)[i], depth |-> depth]]

Children(p) == {c \in Present : parent[c] = p}

-----------------------------------------------------------------------------
\* build_process_tree selects no members; the root is made one in any case.
Init ==
    /\ parent \in UNION {[present -> Pids \cup {Elsewhere}] : present \in SUBSET Pids}
    /\ \E selected \in SUBSET (Present \ {Root}) : members = selected \cup {Root}
    /\ walk = Calls({Root}, 0)
    /\ visited = {} /\ output = <<>>
    /\ stage = "root"

\* append, for a pid it was called with before
SkipVisited ==
    /\ walk # <<>> /\ Head(walk).pid \in visited
    /\ walk' = Tail(walk)
    /\ UNCHANGED <<parent, members, visited, output, stage>>

\* A pid without an entry: a root that ended before the table was read.
SkipAbsent ==
    /\ walk # <<>> /\ Head(walk).pid \notin visited \cup Present
    /\ visited' = visited \cup {Head(walk).pid}
    /\ walk' = Tail(walk)
    /\ UNCHANGED <<parent, members, output, stage>>

AppendEntry ==
    /\ walk # <<>> /\ Head(walk).pid \in Present \ visited
    /\ LET p == Head(walk) IN
         /\ visited' = visited \cup {p.pid}
         /\ output' = Append(output, p)
         /\ walk' = Calls(Children(p.pid), p.depth + 1) \o Tail(walk)
    /\ UNCHANGED <<parent, members, stage>>

\* The members that no walk reaches from another member: their parents are strangers.
AppendDetached ==
    /\ walk = <<>> /\ stage = "root"
    /\ walk' = Calls({p \in (members \cap Present) \ visited : parent[p] \notin members}, 1)
    /\ stage' = "detached"
    /\ UNCHANGED <<parent, members, visited, output>>

\* Mutant: members that form a cycle are left out.
AppendNothing ==
    /\ walk = <<>> /\ stage = "detached"
    /\ walk' = <<>>
    /\ stage' = "remaining"
    /\ UNCHANGED <<parent, members, visited, output>>

\* The fallback for members in a cycle
AppendRemaining ==
    /\ walk = <<>> /\ stage = "detached"
    /\ walk' = Calls(members \ visited, 1)
    /\ stage' = "remaining"
    /\ UNCHANGED <<parent, members, visited, output>>

Finish ==
    /\ walk = <<>> /\ stage = "remaining"
    /\ stage' = "done"
    /\ UNCHANGED <<parent, members, walk, visited, output>>

Next ==
    \/ SkipVisited \/ SkipAbsent \/ AppendEntry
    \/ AppendDetached \/ AppendRemaining \/ Finish

Spec == Init /\ [][Next]_vars

-----------------------------------------------------------------------------
(* Properties *)

TypeOK ==
    /\ Present \subseteq Pids /\ members \subseteq Pids /\ visited \subseteq Pids
    /\ walk \in Seq(Line) /\ output \in Seq(Line)
    /\ stage \in {"root", "detached", "remaining", "done"}

\* What the reader of the list is owed: the members and everything below them, which is the
\* least set that holds the members and with a process its children.
Selected ==
    {p \in Present :
        \A closed \in SUBSET Present :
            members \cap Present \subseteq closed /\ (\A q \in closed : Children(q) \subseteq closed)
                => p \in closed}

\* The line a branch is drawn from: the last one before it that is one step less indented.
DrawnParent(i) ==
    LET above == {j \in 1 .. i - 1 : output[j].depth = output[i].depth - 1}
    IN output[CHOOSE j \in above : \A k \in above : k <= j].pid

\* A finished list shows every selected process once and nothing else, cycles of parents or
\* not, and a branch below the first level is drawn from the process's parent; on the first
\* level are children of the root, and members found elsewhere.
TreeIsComplete ==
    stage = "done" =>
        /\ {output[i].pid : i \in DOMAIN output} = Selected
        /\ IsInjective([i \in DOMAIN output |-> output[i].pid])
        /\ \A i \in DOMAIN output :
             LET p == output[i].pid IN
               CASE output[i].depth = 0 -> p = Root
                 [] output[i].depth = 1 -> parent[p] = Root \/ p \in members
                 [] OTHER -> parent[p] = DrawnParent(i)

=============================================================================
