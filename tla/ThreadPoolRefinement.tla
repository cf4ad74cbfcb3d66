------------------------ MODULE ThreadPoolRefinement ------------------------
(* ThreadPool implements TaskPool: a task is running from the moment a worker has taken it
   out of the queue until func() has returned, whatever the log says of it meanwhile. *)
EXTENDS ThreadPool

Abstract == INSTANCE TaskPool WITH
    phase    <- CASE life \in {"ctor", "alive"}  -> "open"
                  [] life \in {"notify", "join"} -> "closing"
                  [] life = "destroyed"          -> "closed",
    pending  <- deque_,
    running  <- {func[w] : w \in {v \in Workers : pc[v] \in {"logRun", "setRun", "task"}}},
    finished <- done

\* Every behaviour of the pool is one of TaskPool: bounded first-in first-out submission, each
\* task started and finished once, and a destructor that returns when all are.
ImplementsTaskPool == Abstract!Spec
=============================================================================
