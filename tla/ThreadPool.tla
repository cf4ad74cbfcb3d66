----------------------------- MODULE ThreadPool -----------------------------
(***************************************************************************)
(* The worker pool of thread/MyThread.{hpp,cpp}: class ThreadPool, the     *)
(* Queue<T> it owns and the Logger every queue operation reports to.       *)
(*                                                                         *)
(* mutex_ guards the queue and isRunning_, mtx_ is the Logger's own lock,  *)
(* cv_ the set of workers blocked in cv_.wait.  A step is a stretch of     *)
(* code under one lock, or one access made under none; a locked stretch    *)
(* is cut where a thread outside the lock could see or disturb it.         *)
(***************************************************************************)
EXTENDS Integers, Sequences, Functions

CONSTANTS
    Workers,    \* the pool's threads: threads_, threadCount of them
    Clients,    \* threads of the application that call add
    Owner,      \* the client that constructs and destroys the pool
    Tasks,      \* function objects, each passed to add at most once
    QueueSize,  \* the queue's size_
    NoThread,   \* nobody: the holder of a free lock
    NoTask      \* an empty std::function

ASSUME PoolAssumption ==
    /\ Owner \in Clients
    /\ Clients \cap Workers = {}
    /\ NoThread \notin Clients \cup Workers
    /\ NoTask \notin Tasks
    /\ QueueSize \in Int

VARIABLES
    life,          \* where the owner is in the life of the object
    mutex_,        \* the thread that keeps ThreadPool::mutex_ between two steps
    isRunning_,
    cv_,
    deque_,        \* queued tasks, oldest first
    deque_index_,  \* the log rows of the queued tasks (counted from 1)
    pc,            \* where each worker is in main_task
    func, idx,     \* main_task's locals
    call, arg,     \* where each thread is in add, and add's argument
    mtx_,          \* the thread that is growing logqueues under Logger::mtx_
    logqueues,     \* the rows of the log
    logthreads,    \* the state shown for each worker
    \* History: read by no guard, except that a task is passed to add once.
    fresh,         \* tasks not yet passed to add
    accepted,      \* tasks put in the queue, in order
    taken,         \* tasks a worker removed from it, in order
    done           \* tasks whose func() returned

queueVars == <<deque_, deque_index_>>
workVars  == <<pc, func, idx>>
logVars   == <<mtx_, logqueues, logthreads>>
history   == <<fresh, accepted, taken, done>>
vars      == <<life, mutex_, isRunning_, cv_, queueVars, workVars, call, arg, logVars, history>>

Threads == Clients \cup Workers

\* LogQueue.  task is a history field: the argument of the add the row reports.
Row == [state : {"WAIT", "RUN", "FINISH", "ERR"}, id : Workers \cup {NoThread}, task : Tasks]

Init ==
    /\ life = "ctor" /\ isRunning_ = TRUE
    /\ mutex_ = NoThread /\ mtx_ = NoThread /\ cv_ = {}
    /\ deque_ = <<>> /\ deque_index_ = <<>>
    /\ pc = [w \in Workers |-> "unborn"]
    /\ func = [w \in Workers |-> NoTask]
    /\ idx = [w \in Workers |-> 0]
    /\ call = [t \in Threads |-> "none"]
    /\ arg = [t \in Threads |-> NoTask]
    /\ logqueues = <<>> /\ logthreads = [w \in Workers |-> "none"]
    /\ fresh = Tasks /\ accepted = <<>> /\ taken = <<>> /\ done = {}

Goto(w, label) == pc' = [pc EXCEPT ![w] = label]

-----------------------------------------------------------------------------
(* ThreadPool::ThreadPool.  A thread runs as soon as it is created, before  *)
(* addThread has given it a column in the log.                              *)

SpawnThread(w) ==
    /\ life = "ctor" /\ pc[w] = "unborn"
    /\ \A v \in Workers : pc[v] = "unborn" \/ logthreads[v] # "none"
    /\ Goto(w, "lock")
    /\ UNCHANGED <<life, mutex_, isRunning_, cv_, queueVars, func, idx, call, arg, logVars, history>>

AddThread(w) ==
    /\ life = "ctor" /\ pc[w] # "unborn" /\ logthreads[w] = "none"
    /\ mtx_ = NoThread
    /\ logthreads' = [logthreads EXCEPT ![w] = "START"]
    /\ UNCHANGED <<life, mutex_, isRunning_, cv_, queueVars, workVars, call, arg, mtx_, logqueues, history>>

Constructed ==
    /\ life = "ctor"
    /\ \A w \in Workers : logthreads[w] # "none"
    /\ life' = "alive"
    /\ UNCHANGED <<mutex_, isRunning_, cv_, queueVars, workVars, call, arg, logVars, history>>

-----------------------------------------------------------------------------
(* ThreadPool::add, both overloads.  The application calls it between the   *)
(* constructor and the destructor, a task from inside func().               *)

MayAdd(t) ==
    /\ call[t] = "none"
    /\ IF t \in Clients THEN life = "alive" ELSE pc[t] = "task"

\* Mutant: one task too many.
MutQueueFull == QueueSize < Len(deque_)

QueueFull == QueueSize <= Len(deque_)

\* add locks mutex_ and put looks at the size: from here the caller is in addQueue.
Add(t, task) ==
    /\ MayAdd(t)
    /\ mutex_ = NoThread
    /\ mutex_' = t
    /\ arg' = [arg EXCEPT ![t] = task]
    /\ fresh' = fresh \ {task}
    /\ IF QueueFull
       THEN /\ call' = [call EXCEPT ![t] = "err"]
            /\ UNCHANGED <<deque_, accepted>>
       ELSE /\ call' = [call EXCEPT ![t] = "wait"]
            /\ deque_' = Append(deque_, task)
            /\ accepted' = Append(accepted, task)
    /\ UNCHANGED <<life, isRunning_, cv_, deque_index_, workVars, logVars, taken, done>>

\* Logger::addQueue has mtx_ and emplace_back is under way.
AddQueueBegin(t) ==
    /\ call[t] \in {"err", "wait"}
    /\ mtx_ = NoThread
    /\ mtx_' = t
    /\ call' = [call EXCEPT ![t] = IF @ = "err" THEN "errGrow" ELSE "waitGrow"]
    /\ UNCHANGED <<life, mutex_, isRunning_, cv_, queueVars, workVars, arg, logqueues, logthreads, history>>

\* The row is there.  A refused add returns false; put pushes the row of an accepted task.
AddQueueEnd(t) ==
    /\ mtx_' = NoThread
    /\ \/ /\ call[t] = "errGrow"
          /\ logqueues' = Append(logqueues, [state |-> "ERR", id |-> NoThread, task |-> arg[t]])
          /\ mutex_' = NoThread
          /\ call' = [call EXCEPT ![t] = "none"]
          /\ UNCHANGED deque_index_
       \/ /\ call[t] = "waitGrow"
          /\ logqueues' = Append(logqueues, [state |-> "WAIT", id |-> NoThread, task |-> arg[t]])
          /\ deque_index_' = Append(deque_index_, Len(logqueues) + 1)
          /\ call' = [call EXCEPT ![t] = "notify"]
          /\ UNCHANGED mutex_
    /\ UNCHANGED <<life, isRunning_, cv_, deque_, workVars, arg, logthreads, history>>

\* Mutants: nobody is woken, or one sleeper.
MutNotifyNone == UNCHANGED cv_
MutNotifyOne == \E w \in cv_ \cup {NoThread} : cv_' = cv_ \ {w} /\ (w = NoThread => cv_ = {})

NotifyAll == cv_' = {}

\* cv_.notify_all under the lock, the unlock, and add returns true.
AddNotify(t) ==
    /\ call[t] = "notify"
    /\ NotifyAll
    /\ mutex_' = NoThread
    /\ call' = [call EXCEPT ![t] = "none"]
    /\ UNCHANGED <<life, isRunning_, queueVars, workVars, arg, logVars, history>>

AddReturns(t) == AddQueueBegin(t) \/ AddQueueEnd(t) \/ AddNotify(t)

-----------------------------------------------------------------------------
(* ThreadPool::main_task *)

\* The worker gets mutex_: at the head of the loop, or again inside cv_.wait.
MayLock(w) ==
    /\ pc[w] \in {"lock", "wait"} /\ w \notin cv_
    /\ mutex_ = NoThread

\* Mutant: a stopping pool takes its queue for empty.
MutQueueEmpty == deque_ = <<>> \/ ~isRunning_

QueueEmpty == deque_ = <<>>

\* Mutant: mutex_ is released before updateThread.
MutNothingToDo(w) ==
    /\ MayLock(w)
    /\ QueueEmpty
    /\ mutex_' = IF isRunning_ THEN w ELSE NoThread
    /\ Goto(w, IF isRunning_ THEN "sleep" ELSE "stop")
    /\ UNCHANGED <<life, isRunning_, cv_, queueVars, func, idx, call, arg, logVars, history>>

\* An empty queue: the worker is about to sleep, or to leave when the pool is stopping.
NothingToDo(w) ==
    /\ MayLock(w)
    /\ QueueEmpty
    /\ mutex_' = w
    /\ Goto(w, IF isRunning_ THEN "sleep" ELSE "stop")
    /\ UNCHANGED <<life, isRunning_, cv_, queueVars, func, idx, call, arg, logVars, history>>

\* cv_.wait releases mutex_ and blocks in one step.
Wait(w) ==
    /\ pc[w] = "sleep"
    /\ cv_' = cv_ \cup {w}
    /\ mutex_' = NoThread
    /\ Goto(w, "wait")
    /\ UNCHANGED <<life, isRunning_, queueVars, func, idx, call, arg, logVars, history>>

\* cv_.wait may return without a notification.
SpuriousWakeup(w) ==
    /\ w \in cv_
    /\ cv_' = cv_ \ {w}
    /\ UNCHANGED <<life, mutex_, isRunning_, queueVars, workVars, call, arg, logVars, history>>

\* Mutant: the front is read, the back removed.
MutGet(w) ==
    /\ func' = [func EXCEPT ![w] = Head(deque_)]
    /\ deque_' = SubSeq(deque_, 1, Len(deque_) - 1)

Get(w) ==
    /\ func' = [func EXCEPT ![w] = Head(deque_)]
    /\ deque_' = Tail(deque_)

\* Mutant: the index stays in the queue.
MutGetIndex(w) ==
    /\ idx' = [idx EXCEPT ![w] = Head(deque_index_)]
    /\ UNCHANGED deque_index_

GetIndex(w) ==
    /\ idx' = [idx EXCEPT ![w] = Head(deque_index_)]
    /\ deque_index_' = Tail(deque_index_)

\* A task is there: the worker takes it and leaves the locked block.
Take(w) ==
    /\ MayLock(w)
    /\ ~QueueEmpty
    /\ Get(w)
    /\ GetIndex(w)
    /\ taken' = Append(taken, Head(deque_))
    /\ Goto(w, "logRun")
    /\ UNCHANGED <<life, mutex_, isRunning_, cv_, call, arg, logVars, fresh, accepted, done>>

\* updateQueue compares idx with logqueues.size() before it locks mtx_.  Read while addQueue
\* moves the vector, the size can come out as anything and the update be dropped.
CheckRow(w) ==
    /\ pc[w] \in {"logRun", "logFin"}
    /\ \/ /\ idx[w] <= Len(logqueues)
          /\ Goto(w, IF pc[w] = "logRun" THEN "setRun" ELSE "setFin")
       \/ /\ idx[w] > Len(logqueues) \/ mtx_ # NoThread
          /\ Goto(w, IF pc[w] = "logRun" THEN "task" ELSE "lock")
    /\ UNCHANGED <<life, mutex_, isRunning_, cv_, queueVars, func, idx, call, arg, logVars, history>>

\* Mutant: whatever is reported, the row says FINISH.
MutSetRow(w, state) ==
    logqueues' = [logqueues EXCEPT ![idx[w]] = [@ EXCEPT !.state = "FINISH", !.id = w]]

SetRow(w, state) ==
    logqueues' = [logqueues EXCEPT ![idx[w]] = [@ EXCEPT !.state = state, !.id = w]]

\* Mutant: the row is back to WAIT after func().
MutUpdateQueue(w) ==
    /\ mtx_ = NoThread
    /\ \/ pc[w] = "setRun" /\ SetRow(w, "RUN") /\ Goto(w, "task")
       \/ pc[w] = "setFin" /\ SetRow(w, "WAIT") /\ Goto(w, "lock")
    /\ UNCHANGED <<life, mutex_, isRunning_, cv_, queueVars, func, idx, call, arg, mtx_, logthreads, history>>

\* updateQueue's locked part, for RUN before func() and for FINISH after it.
UpdateQueue(w) ==
    /\ mtx_ = NoThread
    /\ \/ pc[w] = "setRun" /\ SetRow(w, "RUN") /\ Goto(w, "task")
       \/ pc[w] = "setFin" /\ SetRow(w, "FINISH") /\ Goto(w, "lock")
    /\ UNCHANGED <<life, mutex_, isRunning_, cv_, queueVars, func, idx, call, arg, mtx_, logthreads, history>>

\* func() returns; what it did meanwhile is Add(w, task).
TaskReturns(w) ==
    /\ pc[w] = "task" /\ call[w] = "none"
    /\ done' = done \cup {func[w]}
    /\ Goto(w, "logFin")
    /\ UNCHANGED <<life, mutex_, isRunning_, cv_, queueVars, func, idx, call, arg, logVars, fresh, accepted, taken>>

\* updateThread, which takes no lock and walks both vectors of the log, and the return.
Exit(w) ==
    /\ pc[w] = "stop"
    /\ logthreads' = [logthreads EXCEPT ![w] = "STOP"]
    /\ mutex_' = NoThread
    /\ Goto(w, "exited")
    /\ UNCHANGED <<life, isRunning_, cv_, queueVars, func, idx, call, arg, mtx_, logqueues, history>>

MainTask(w) ==
    \/ NothingToDo(w) \/ Wait(w) \/ Take(w) \/ CheckRow(w)
    \/ UpdateQueue(w) \/ TaskReturns(w) \/ Exit(w)

-----------------------------------------------------------------------------
(* ThreadPool::~ThreadPool.  No client may be inside add when it starts.    *)

\* Mutant: isRunning_ is cleared without mutex_.
MutDestroyBegin ==
    /\ life = "alive" /\ \A c \in Clients : call[c] = "none"
    /\ isRunning_' = FALSE
    /\ life' = "notify"
    /\ UNCHANGED <<mutex_, cv_, queueVars, workVars, call, arg, logVars, history>>

DestroyBegin ==
    /\ life = "alive" /\ \A c \in Clients : call[c] = "none"
    /\ mutex_ = NoThread
    /\ isRunning_' = FALSE
    /\ life' = "notify"
    /\ UNCHANGED <<mutex_, cv_, queueVars, workVars, call, arg, logVars, history>>

DestroyNotify ==
    /\ life = "notify"
    /\ NotifyAll
    /\ life' = "join"
    /\ UNCHANGED <<mutex_, isRunning_, queueVars, workVars, call, arg, logVars, history>>

\* Every join has returned.
DestroyJoin ==
    /\ life = "join"
    /\ \A w \in Workers : pc[w] = "exited"
    /\ life' = "destroyed"
    /\ UNCHANGED <<mutex_, isRunning_, cv_, queueVars, workVars, call, arg, logVars, history>>

Destroyed == life = "destroyed" /\ UNCHANGED vars

-----------------------------------------------------------------------------

OwnerStep == Constructed \/ DestroyNotify \/ DestroyJoin

Next ==
    \/ \E w \in Workers : SpawnThread(w) \/ AddThread(w) \/ MainTask(w) \/ SpuriousWakeup(w)
    \/ \E t \in Threads : AddReturns(t) \/ \E task \in fresh : Add(t, task)
    \/ OwnerStep \/ DestroyBegin \/ Destroyed

Spec == Init /\ [][Next]_vars

(***************************************************************************)
(* A thread that can go on does so, and a worker waiting for a mutex that  *)
(* is released again and again gets it once.  Nobody has to call add or    *)
(* destroy the pool, no wakeup is spurious by obligation.  Every task      *)
(* returns: TaskReturns is part of MainTask.                               *)
(***************************************************************************)
Fairness ==
    /\ \A w \in Workers :
         /\ WF_vars(SpawnThread(w) \/ AddThread(w))
         /\ WF_vars(MainTask(w))
         /\ SF_vars(NothingToDo(w) \/ Take(w))
    /\ \A t \in Threads : WF_vars(AddReturns(t))
    /\ WF_vars(OwnerStep)

FairSpec == Spec /\ Fairness

-----------------------------------------------------------------------------
(* Standstill *)

\* When something goes on without a new call of add, a destructor that begins or a spurious
\* wakeup: the guards of MainTask, AddReturns and the constructor's and destructor's steps.

WorkerCanGo(w) ==
    \/ pc[w] \in {"sleep", "stop", "logRun", "logFin"}
    \/ pc[w] \in {"setRun", "setFin"} /\ mtx_ = NoThread
    \/ pc[w] = "task" /\ call[w] = "none"
    \/ pc[w] = "lock" /\ mutex_ = NoThread
    \/ pc[w] = "wait" /\ w \notin cv_ /\ mutex_ = NoThread

\* addQueue waits for mtx_ with mutex_ held.
AddCanGo(t) ==
    \/ call[t] \in {"err", "wait"} /\ mtx_ = NoThread
    \/ call[t] \in {"errGrow", "waitGrow", "notify"}

OwnerCanGo ==
    \/ life \in {"ctor", "notify"}
    \/ life = "join" /\ \A w \in Workers : pc[w] = "exited"

CanGo == OwnerCanGo \/ (\E w \in Workers : WorkerCanGo(w)) \/ (\E t \in Threads : AddCanGo(t))

\* Nobody wants anything: every worker sleeps, or the pool is gone.
AtRest ==
    \/ life = "destroyed"
    \/ /\ life = "alive"
       /\ \A w \in Workers : w \in cv_
       /\ \A t \in Threads : call[t] = "none"
       /\ Workers # {} => deque_ = <<>>

-----------------------------------------------------------------------------

Labels == {"unborn", "lock", "sleep", "wait", "logRun", "setRun", "task", "logFin",
           "setFin", "stop", "exited"}

Calls == {"none", "err", "wait", "errGrow", "waitGrow", "notify"}

\* Every variable has its type; a queue never holds more than queueSize tasks.
TypeOK ==
    /\ life \in {"ctor", "alive", "notify", "join", "destroyed"}
    /\ mutex_ \in Threads \cup {NoThread}
    /\ isRunning_ \in BOOLEAN
    /\ cv_ \subseteq Workers
    /\ deque_ \in Seq(Tasks)
    /\ Len(deque_) <= QueueSize \/ deque_ = <<>>
    /\ deque_index_ \in Seq(1..Len(logqueues))
    /\ pc \in [Workers -> Labels]
    /\ func \in [Workers -> Tasks \cup {NoTask}]
    /\ idx \in [Workers -> 0..Len(logqueues)]
    /\ call \in [Threads -> Calls]
    /\ arg \in [Threads -> Tasks \cup {NoTask}]
    /\ mtx_ \in Threads \cup {NoThread}
    /\ logqueues \in Seq(Row)
    /\ logthreads \in [Workers -> {"none", "START", "STOP"}]
    /\ fresh \subseteq Tasks
    /\ accepted \in Seq(Tasks)
    /\ taken \in Seq(Tasks)
    /\ done \subseteq Tasks

\* No wakeup is lost: a worker sleeps in cv_.wait only while the queue is empty and the pool
\* runs, or while the thread that changed that still has its notify_all to do.
SleepsOnlyWhenIdle ==
    cv_ # {} =>
      /\ deque_ = <<>> \/ \E t \in Threads : call[t] \in {"wait", "waitGrow", "notify"}
      /\ isRunning_ \/ life = "notify"

\* First in, first out, nothing lost and nothing run twice: what was accepted is what was
\* taken followed by what is queued.
FifoNoLoss == accepted = taken \o deque_

\* The destructor drains the queue: once it has joined the workers every accepted task has
\* run, the tasks that other tasks added during the shutdown included.  (A pool built with
\* threadCount 0 has nobody to run them.)
DrainedWhenDestroyed ==
    life = "destroyed" /\ Workers # {} => deque_ = <<>> /\ Range(accepted) = done

\* deque_index_ runs in step with deque_, though put fills them in two steps: it is one short
\* only while an accepted task is being logged, and the row a worker reports on is the row of
\* the task it took.
RowOfTask ==
    /\ Len(deque_) = Len(deque_index_)
                       + IF \E t \in Threads : call[t] \in {"wait", "waitGrow"} THEN 1 ELSE 0
    /\ \A i \in DOMAIN deque_index_ : logqueues[deque_index_[i]].task = deque_[i]
    /\ \A w \in Workers : idx[w] # 0 => logqueues[idx[w]].task = func[w]

\* The log never runs ahead of the pool: RUN is shown only of a task a worker took, FINISH
\* only of one that returned, ERR only of one that was refused.
LogIsSound ==
    \A i \in DOMAIN logqueues :
      LET row == logqueues[i] IN
      /\ row.state = "RUN" => row.task \in Range(taken)
      /\ row.state = "FINISH" => row.task \in done
      /\ row.state = "ERR" => row.task \notin Range(accepted)

Progress == [WAIT |-> 0, RUN |-> 1, FINISH |-> 2, ERR |-> 3]

\* A row is never removed nor re-assigned and its state only goes from WAIT to RUN to FINISH,
\* though updates are dropped when updateQueue reads the size while the vector grows.
RowsGoForward ==
    [][\A i \in DOMAIN logqueues :
         /\ i \in DOMAIN logqueues'
         /\ logqueues'[i].task = logqueues[i].task
         /\ Progress[logqueues[i].state] <= Progress[logqueues'[i].state]
         /\ (logqueues[i].state = "ERR") <=> (logqueues'[i].state = "ERR")]_vars

\* updateThread walks logqueues without mtx_, yet never while addQueue grows it: a worker that
\* stops holds mutex_, and so does every caller of addQueue.  This is for one pool: pools that
\* share the Logger hold a mutex_ each.
NoWalkDuringGrowth ==
    \A w \in Workers : pc[w] = "stop" => mtx_ = NoThread

\* mutex_, mtx_, cv_ and the joins never leave everyone waiting for someone else, however many
\* there are: something goes on, or there is nothing left to do.
NeverStandsStill == CanGo \/ AtRest

\* Every accepted task is run in the end, whether the pool is destroyed or not.
AcceptedRuns ==
    \A task \in Tasks : task \in Range(accepted) ~> task \in done

\* A destructor that has begun returns.
DestructorReturns == life = "notify" ~> life = "destroyed"
=============================================================================
