------------------------------ MODULE TaskPool ------------------------------
(***************************************************************************)
(* What ThreadPool promises its user, without threads, locks or a log: a   *)
(* bounded first-in first-out queue whose tasks are started in order, each *)
(* one once, and a close that waits for all of them.                       *)
(***************************************************************************)
EXTENDS Integers, Sequences

CONSTANTS Tasks, QueueSize

VARIABLES
    phase,     \* "open", "closing" or "closed"
    pending,   \* accepted tasks that have not started, oldest first
    running,
    finished

vars == <<phase, pending, running, finished>>

Init ==
    /\ phase = "open"
    /\ pending = <<>>
    /\ running = {}
    /\ finished = {}

\* The application submits while the pool is open, a running task at any time.
Submit(task) ==
    /\ phase = "open" \/ running # {}
    /\ Len(pending) < QueueSize
    /\ pending' = Append(pending, task)
    /\ UNCHANGED <<phase, running, finished>>

Start ==
    /\ pending # <<>>
    /\ pending' = Tail(pending)
    /\ running' = running \cup {Head(pending)}
    /\ UNCHANGED <<phase, finished>>

Finish(task) ==
    /\ task \in running
    /\ running' = running \ {task}
    /\ finished' = finished \cup {task}
    /\ UNCHANGED <<phase, pending>>

Close ==
    /\ phase = "open"
    /\ phase' = "closing"
    /\ UNCHANGED <<pending, running, finished>>

Closed ==
    /\ phase = "closing"
    /\ pending = <<>>
    /\ running = {}
    /\ phase' = "closed"
    /\ UNCHANGED <<pending, running, finished>>

Next ==
    \/ \E task \in Tasks : Submit(task) \/ Finish(task)
    \/ Start
    \/ Close
    \/ Closed

SafeSpec == Init /\ [][Next]_vars

\* Accepted tasks start, tasks that run end, and a close in progress completes.
Spec ==
    /\ SafeSpec
    /\ WF_vars(Start)
    /\ \A task \in Tasks : WF_vars(Finish(task))
    /\ WF_vars(Closed)
=============================================================================
