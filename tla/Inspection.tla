----------------------------- MODULE Inspection -----------------------------
(***************************************************************************)
(* The process-tree view of the manager window.  Every click on a row's     *)
(* inspect button starts a thread that looks up the row's process and reads *)
(* the process table, and then posts what it found to the event loop.  The  *)
(* threads end in any order, tools stop and start meanwhile, and the view   *)
(* belongs to the last click.                                               *)
(***************************************************************************)
EXTENDS Sequences, Naturals

CONSTANTS
    Rows,       \* the rows of the window
    Pids,
    NoPid,      \* a row without a process
    MaxClicks   \* bound: the inspections asked for

VARIABLES
    pid,        \* Runtime::pid of every row
    generation, \* inspect_generation: the clicks so far
    thread,     \* of every click: its row, how far its thread is, and what it found
    posted,     \* the event loop's queue: clicks whose threads posted their result
    loading,    \* process_tree_loading
    view,       \* what is in the view: the click it answers, and the process or NoPid
    since       \* history: what the row last asked for has had for a process since then

vars == <<pid, generation, thread, posted, loading, view, since>>

Clicks == 1 .. MaxClicks
NoThread == [row |-> CHOOSE r \in Rows : TRUE, does |-> "none", found |-> NoPid]

-----------------------------------------------------------------------------
Init ==
    /\ pid = [r \in Rows |-> NoPid]
    /\ generation = 0 /\ thread = [c \in Clicks |-> NoThread] /\ posted = <<>>
    /\ loading = FALSE /\ view = [of |-> 0, pid |-> NoPid]
    /\ since = {}

\* on_inspect_process
Inspect(r) ==
    /\ generation < MaxClicks
    /\ generation' = generation + 1
    /\ thread' = [thread EXCEPT ![generation + 1] = [@ EXCEPT !.row = r, !.does = "lookUp"]]
    /\ loading' = TRUE
    /\ view' = [of |-> 0, pid |-> NoPid]
    /\ since' = {pid[r]} \ {NoPid}
    /\ UNCHANGED <<pid, posted>>

\* Supervisor::process_tree, which fails for a row without a process ...
LookUp(c) ==
    /\ thread[c].does = "lookUp"
    /\ thread' = [thread EXCEPT ![c].found = pid[thread[c].row],
                                ![c].does = IF pid[thread[c].row] = NoPid THEN "post" ELSE "read"]
    /\ UNCHANGED <<pid, generation, posted, loading, view, since>>

\* ... or for one that has ended by the time the process table is read.
ReadTable(c) ==
    /\ thread[c].does = "read"
    /\ \E found \in {thread[c].found, NoPid} :
         thread' = [thread EXCEPT ![c].found = found, ![c].does = "post"]
    /\ UNCHANGED <<pid, generation, posted, loading, view, since>>

\* invoke_from_event_loop
Post(c) ==
    /\ thread[c].does = "post"
    /\ posted' = Append(posted, c)
    /\ thread' = [thread EXCEPT ![c].does = "none"]
    /\ UNCHANGED <<pid, generation, loading, view, since>>

\* Mutant: whoever comes last is shown.
ShowAny ==
    /\ posted # <<>>
    /\ LET c == Head(posted) IN
         /\ view' = [of |-> c, pid |-> thread[c].found]
         /\ loading' = FALSE
    /\ posted' = Tail(posted)
    /\ thread' = [thread EXCEPT ![Head(posted)].found = NoPid]
    /\ UNCHANGED <<pid, generation, since>>

\* The event: a result that was overtaken by a click is dropped.
Show ==
    /\ posted # <<>>
    /\ LET c == Head(posted) IN
         IF c = generation
         THEN view' = [of |-> c, pid |-> thread[c].found] /\ loading' = FALSE
         ELSE UNCHANGED <<view, loading>>
    /\ posted' = Tail(posted)
    /\ thread' = [thread EXCEPT ![Head(posted)].found = NoPid]
    /\ UNCHANGED <<pid, generation, since>>

\* The row's worker publishes a process, or its end.
ProcessChanges(r, p) ==
    /\ pid[r] # p /\ NoPid \in {pid[r], p}
    /\ p \notin {pid[q] : q \in Rows} \ {NoPid}
    /\ pid' = [pid EXCEPT ![r] = p]
    /\ since' = IF generation > 0 /\ thread[generation].row = r THEN since \cup ({p} \ {NoPid}) ELSE since
    /\ UNCHANGED <<generation, thread, posted, loading, view>>

-----------------------------------------------------------------------------
Thread(c) == LookUp(c) \/ ReadTable(c) \/ Post(c)

Next ==
    \/ Show
    \/ \E c \in Clicks : Thread(c)
    \/ \E r \in Rows : Inspect(r) \/ \E p \in Pids \cup {NoPid} : ProcessChanges(r, p)

Spec == Init /\ [][Next]_vars

\* Threads end, and the event loop runs.
Fairness == WF_vars(Show) /\ \A c \in Clicks : WF_vars(Thread(c))

-----------------------------------------------------------------------------
(* Properties *)

TypeOK ==
    /\ pid \in [Rows -> Pids \cup {NoPid}] /\ generation \in 0 .. MaxClicks
    /\ thread \in [Clicks -> [row : Rows, does : {"none", "lookUp", "read", "post"},
                              found : Pids \cup {NoPid}]]
    /\ posted \in Seq(Clicks)
    /\ loading \in BOOLEAN /\ view \in [of : 0 .. MaxClicks, pid : Pids \cup {NoPid}]
    /\ since \subseteq Pids

\* The view is never left with the answer to an earlier click: once it has stopped loading it
\* shows what the last one found, a process its row has had since that click or none, and it
\* does stop.
LatestInspectionShown ==
    /\ [](~loading => view.of = generation /\ view.pid \in since \cup {NoPid})
    /\ []<>(~loading)

=============================================================================
