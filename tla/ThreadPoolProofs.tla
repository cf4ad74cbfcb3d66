-------------------------- MODULE ThreadPoolProofs --------------------------
(***************************************************************************)
(* Proofs about ThreadPool for any number of workers, clients and tasks    *)
(* and any queue size: its locks and its shutdown, then its log, then that *)
(* it implements TaskPool.                                                 *)
(***************************************************************************)
EXTENDS ThreadPoolRefinement, TLAPS, SequenceTheorems

\* Who holds which lock.  mutex_ is kept between two steps by a caller of add and by a worker
\* that is about to sleep or to leave; mtx_ by a caller that is growing the log.
LockInv ==
    /\ \A t \in Threads : call[t] # "none" => mutex_ = t /\ arg[t] \in Tasks
    /\ \A w \in Workers : call[w] # "none" => pc[w] = "task"
    /\ \A w \in Workers : pc[w] \in {"sleep", "stop"} => mutex_ = w
    /\ mtx_ # NoThread => mtx_ \in Threads /\ call[mtx_] \in {"errGrow", "waitGrow"}

\* The first conjunct of RowOfTask: the index of an accepted task is missing from the queue
\* only while its caller still has the log to write.
IndexInStep ==
    Len(deque_) = Len(deque_index_)
                    + IF \E t \in Threads : call[t] \in {"wait", "waitGrow"} THEN 1 ELSE 0

\* A worker that reports on a task or runs it has one.
HasTask ==
    \A w \in Workers : pc[w] \in {"logRun", "setRun", "task"} => func[w] \in Tasks

\* Which states of the workers go with which life of the pool.
LifeInv ==
    /\ isRunning_ <=> life \in {"ctor", "alive"}
    /\ \A c \in Clients : call[c] # "none" => life = "alive"
    /\ \A w \in Workers :
         /\ w \in cv_ => pc[w] = "wait"
         /\ pc[w] = "sleep" => deque_ = <<>> /\ isRunning_
         /\ pc[w] \in {"stop", "exited"} => ~isRunning_
    /\ life = "destroyed" => \A w \in Workers : pc[w] = "exited"

\* Between Take and TaskReturns a task is neither queued nor done.
InHand == {func[w] : w \in {v \in Workers : pc[v] \in {"logRun", "setRun", "task"}}}

\* A queued task has a worker that has not left, and a taken one is in hand or done.
DrainInv ==
    /\ deque_ # <<>> /\ Workers # {} => \E w \in Workers : pc[w] \notin {"stop", "exited"}
    /\ Range(taken) = done \cup InHand

IInv == TypeOK /\ LockInv /\ HasTask /\ IndexInStep

-----------------------------------------------------------------------------

\* The initial state satisfies the inductive invariant.
LEMMA InitIInv == Init => IInv
<1>1. SUFFICES ASSUME Init PROVE IInv
  OBVIOUS
<1>2. TypeOK
  BY <1>1, PoolAssumption DEF Init, TypeOK, Threads, Labels, Calls, Row
<1>3. LockInv /\ HasTask /\ IndexInStep
  BY <1>1, PoolAssumption DEF Init, LockInv, HasTask, IndexInStep, Threads
<1> QED BY <1>2, <1>3 DEF IInv

\* SetRow changes at most one row, and nothing but its state and its worker.
LEMMA RowUpdate ==
  ASSUME logqueues \in Seq(Row),
         NEW w \in Workers, NEW s \in {"RUN", "FINISH"}, SetRow(w, s)
  PROVE  /\ logqueues' \in Seq(Row)
         /\ Len(logqueues') = Len(logqueues)
         /\ \A j \in 1..Len(logqueues) :
              /\ logqueues'[j].task = logqueues[j].task
              /\ logqueues'[j] = logqueues[j] \/ (j = idx[w] /\ logqueues'[j].state = s)
<1> DEFINE upd == [logqueues[idx[w]] EXCEPT !.state = s, !.id = w]
<1>1. logqueues \in [1..Len(logqueues) -> Row] /\ Len(logqueues) \in Nat
  BY LenProperties
<1>2. \A j \in 1..Len(logqueues) : logqueues'[j] = IF j = idx[w] THEN upd ELSE logqueues[j]
  BY <1>1 DEF SetRow
<1>3. idx[w] \in 1..Len(logqueues) =>
        upd \in Row /\ upd.task = logqueues[idx[w]].task /\ upd.state = s
  BY <1>1 DEF Row
<1>4. DOMAIN logqueues' = 1..Len(logqueues) /\ logqueues' \in [1..Len(logqueues) -> Row]
  BY <1>1, <1>2, <1>3 DEF SetRow
<1>5. logqueues' \in Seq(Row) /\ Len(logqueues') = Len(logqueues)
  BY <1>1, <1>4
<1> HIDE DEF upd
<1> QED BY <1>1, <1>2, <1>3, <1>5

\* Every step preserves it.
LEMMA NextIInv == IInv /\ [Next]_vars => IInv'
<1> SUFFICES ASSUME IInv, [Next]_vars PROVE IInv'
  OBVIOUS
<1> USE PoolAssumption DEF IInv, Threads, queueVars, workVars, logVars, history
<1>1. ASSUME NEW w \in Workers, SpawnThread(w) PROVE IInv'
  <2>1. TypeOK'
    BY <1>1 DEF TypeOK, Row, Labels, Calls, SpawnThread, Goto
  <2>2. LockInv' /\ HasTask'
    BY <1>1 DEF TypeOK, LockInv, HasTask, SpawnThread, Goto
  <2>3. IndexInStep'
    BY <1>1 DEF TypeOK, LockInv, IndexInStep, SpawnThread, Goto
  <2> QED BY <2>1, <2>2, <2>3
<1>2. ASSUME NEW w \in Workers, AddThread(w) PROVE IInv'
  <2>1. TypeOK'
    BY <1>2 DEF TypeOK, Row, Labels, Calls, AddThread
  <2>2. LockInv' /\ HasTask'
    BY <1>2 DEF TypeOK, LockInv, HasTask, AddThread
  <2>3. IndexInStep'
    BY <1>2 DEF TypeOK, LockInv, IndexInStep, AddThread
  <2> QED BY <2>1, <2>2, <2>3
<1>3. ASSUME NEW w \in Workers, NothingToDo(w) PROVE IInv'
  <2>1. TypeOK'
    BY <1>3 DEF TypeOK, Row, Labels, Calls, NothingToDo, MayLock, Goto, QueueEmpty
  <2>2. LockInv' /\ HasTask'
    BY <1>3 DEF TypeOK, LockInv, HasTask, NothingToDo, MayLock, Goto, QueueEmpty
  <2>3. IndexInStep'
    BY <1>3 DEF TypeOK, LockInv, IndexInStep, NothingToDo, MayLock, Goto, QueueEmpty
  <2> QED BY <2>1, <2>2, <2>3
<1>4. ASSUME NEW w \in Workers, Wait(w) PROVE IInv'
  <2>1. TypeOK'
    BY <1>4 DEF TypeOK, Row, Labels, Calls, Wait, Goto
  <2>2. LockInv' /\ HasTask'
    BY <1>4 DEF TypeOK, LockInv, HasTask, Wait, Goto
  <2>3. IndexInStep'
    BY <1>4 DEF TypeOK, LockInv, IndexInStep, Wait, Goto
  <2> QED BY <2>1, <2>2, <2>3
<1>5. ASSUME NEW w \in Workers, SpuriousWakeup(w) PROVE IInv'
  <2>1. TypeOK'
    BY <1>5 DEF TypeOK, Row, Labels, Calls, SpuriousWakeup
  <2>2. LockInv' /\ HasTask'
    BY <1>5 DEF TypeOK, LockInv, HasTask, SpuriousWakeup
  <2>3. IndexInStep'
    BY <1>5 DEF TypeOK, LockInv, IndexInStep, SpuriousWakeup
  <2> QED BY <2>1, <2>2, <2>3
<1>6. ASSUME NEW w \in Workers, Take(w) PROVE IInv'
  <2> USE DEF Take, MayLock, QueueEmpty, Get, GetIndex, Goto
  <2>1. \A t \in Threads : call[t] = "none"
    BY <1>6 DEF LockInv
  <2>2. deque_ # <<>> /\ deque_index_ # <<>> /\ Len(deque_) = Len(deque_index_)
    BY <1>6, <2>1 DEF TypeOK, IndexInStep
  <2>3. /\ Head(deque_) \in Tasks
        /\ Tail(deque_) \in Seq(Tasks) /\ Len(Tail(deque_)) = Len(deque_) - 1
    BY <2>2, HeadTailProperties DEF TypeOK
  <2>4. /\ Head(deque_index_) \in 1..Len(logqueues)
        /\ Tail(deque_index_) \in Seq(1..Len(logqueues))
        /\ Len(Tail(deque_index_)) = Len(deque_index_) - 1
    BY <2>2, HeadTailProperties DEF TypeOK
  <2>5. TypeOK'
    <3>1. deque_' \in Seq(Tasks) /\ (Len(deque_') <= QueueSize \/ deque_' = <<>>)
      BY <1>6, <2>3, EmptySeq DEF TypeOK
    <3>2. /\ deque_index_' \in Seq(1..Len(logqueues')) /\ idx' \in [Workers -> 0..Len(logqueues')]
          /\ func' \in [Workers -> Tasks \cup {NoTask}]
      BY <1>6, <2>3, <2>4 DEF TypeOK
    <3>3. taken' \in Seq(Tasks)
      BY <1>6, <2>3 DEF TypeOK
    <3> QED BY <1>6, <3>1, <3>2, <3>3 DEF TypeOK, Labels
  <2>6. LockInv' /\ HasTask'
    BY <1>6, <2>3 DEF TypeOK, LockInv, HasTask
  <2>7. IndexInStep'
    BY <1>6, <2>1, <2>2, <2>3, <2>4 DEF IndexInStep
  <2> QED BY <2>5, <2>6, <2>7
<1>7. ASSUME NEW w \in Workers, CheckRow(w) PROVE IInv'
  <2>1. PICK next \in {"setRun", "setFin", "task", "lock"} :
          /\ pc' = [pc EXCEPT ![w] = next]
          /\ next \in {"setRun", "task"} => pc[w] = "logRun"
    BY <1>7 DEF CheckRow, Goto
  <2>2. pc[w] \in {"logRun", "logFin"} /\ UNCHANGED <<life, mutex_, isRunning_, cv_, deque_, deque_index_,
                     func, idx, call, arg, mtx_, logthreads, logqueues, fresh, accepted, taken, done>>
    BY <1>7 DEF CheckRow, queueVars, logVars, history
  <2>3. TypeOK'
    BY <2>1, <2>2 DEF TypeOK, Labels
  <2>4. LockInv' /\ HasTask' /\ IndexInStep'
    BY <2>1, <2>2 DEF TypeOK, LockInv, HasTask, IndexInStep
  <2> QED BY <2>3, <2>4
<1>8. ASSUME NEW w \in Workers, UpdateQueue(w) PROVE IInv'
  <2>1. ASSUME NEW s \in {"RUN", "FINISH"}, SetRow(w, s)
        PROVE  logqueues' \in Seq(Row) /\ Len(logqueues') = Len(logqueues)
    BY <2>1, RowUpdate DEF TypeOK
  <2>2. logqueues' \in Seq(Row) /\ Len(logqueues') = Len(logqueues)
    BY <1>8, <2>1 DEF UpdateQueue
  <2>3. TypeOK'
    BY <1>8, <2>2 DEF TypeOK, Labels, UpdateQueue, Goto
  <2>4. LockInv' /\ HasTask'
    BY <1>8 DEF TypeOK, LockInv, HasTask, UpdateQueue, Goto
  <2>5. IndexInStep'
    BY <1>8 DEF IndexInStep, UpdateQueue
  <2> QED BY <2>3, <2>4, <2>5
<1>9. ASSUME NEW w \in Workers, TaskReturns(w) PROVE IInv'
  <2>1. TypeOK'
    BY <1>9 DEF TypeOK, HasTask, Labels, TaskReturns, Goto
  <2>2. LockInv' /\ HasTask'
    BY <1>9 DEF TypeOK, LockInv, HasTask, TaskReturns, Goto
  <2>3. IndexInStep'
    BY <1>9 DEF TypeOK, LockInv, IndexInStep, TaskReturns, Goto
  <2> QED BY <2>1, <2>2, <2>3
<1>10. ASSUME NEW w \in Workers, Exit(w) PROVE IInv'
  <2>1. TypeOK'
    BY <1>10 DEF TypeOK, Row, Labels, Calls, Exit, Goto
  <2>2. LockInv' /\ HasTask'
    BY <1>10 DEF TypeOK, LockInv, HasTask, Exit, Goto
  <2>3. IndexInStep'
    BY <1>10 DEF TypeOK, LockInv, IndexInStep, Exit, Goto
  <2> QED BY <2>1, <2>2, <2>3
<1>11. ASSUME NEW t \in Threads, NEW task \in fresh, Add(t, task) PROVE IInv'
  <2> USE DEF Add, MayAdd, QueueFull
  <2>1. /\ task \in Tasks
        /\ Append(deque_, task) \in Seq(Tasks) /\ Len(Append(deque_, task)) = Len(deque_) + 1
        /\ Append(accepted, task) \in Seq(Tasks)
    BY AppendProperties DEF TypeOK
  <2>2. \A u \in Threads : call[u] = "none"
    BY <1>11 DEF LockInv
  <2>3. TypeOK'
    <3>1. deque_' \in Seq(Tasks) /\ (Len(deque_') <= QueueSize \/ deque_' = <<>>)
      <4>1. CASE QueueFull
        BY <1>11, <4>1 DEF TypeOK
      <4>2. CASE ~QueueFull
        <5>1. Len(deque_) \in Nat /\ deque_' = Append(deque_, task)
          BY <1>11, <4>2, LenProperties DEF TypeOK
        <5>2. Len(deque_) + 1 <= QueueSize
          BY <4>2, <5>1
        <5> QED BY <2>1, <5>1, <5>2
      <4> QED BY <4>1, <4>2
    <3>2. accepted' \in Seq(Tasks)
      BY <1>11, <2>1 DEF TypeOK
    <3>3. call' \in [Threads -> Calls] /\ arg' \in [Threads -> Tasks \cup {NoTask}]
      BY <1>11, <2>1 DEF TypeOK, Calls
    <3> QED BY <1>11, <3>1, <3>2, <3>3 DEF TypeOK
  <2>4. LockInv' /\ HasTask'
    BY <1>11, <2>1, <2>2 DEF TypeOK, LockInv, HasTask
  <2>5. IndexInStep'
    <3>1. CASE QueueFull
      BY <1>11, <2>2, <3>1 DEF TypeOK, IndexInStep
    <3>2. CASE ~QueueFull
      <4>1. Len(deque_') = Len(deque_) + 1 /\ call'[t] = "wait" /\ deque_index_' = deque_index_
        BY <1>11, <2>1, <3>2 DEF TypeOK
      <4>2. Len(deque_) = Len(deque_index_)
        BY <2>2 DEF TypeOK, IndexInStep
      <4> QED BY <4>1, <4>2 DEF TypeOK, IndexInStep
    <3> QED BY <3>1, <3>2
  <2> QED BY <2>3, <2>4, <2>5
<1>12. ASSUME NEW t \in Threads, AddQueueBegin(t) PROVE IInv'
  <2>1. TypeOK'
    BY <1>12 DEF TypeOK, Row, Labels, Calls, AddQueueBegin
  <2>2. LockInv' /\ HasTask'
    BY <1>12 DEF TypeOK, LockInv, HasTask, AddQueueBegin
  <2>3. IndexInStep'
    BY <1>12 DEF TypeOK, LockInv, IndexInStep, AddQueueBegin
  <2> QED BY <2>1, <2>2, <2>3
<1>13. ASSUME NEW t \in Threads, AddQueueEnd(t) PROVE IInv'
  <2>1. PICK row \in Row : logqueues' = Append(logqueues, row)
    BY <1>13 DEF TypeOK, LockInv, AddQueueEnd, Row
  <2>2. logqueues' \in Seq(Row) /\ Len(logqueues') = Len(logqueues) + 1
    BY <2>1, AppendProperties DEF TypeOK
  <2>3. /\ deque_index_' \in Seq(1..Len(logqueues'))
        /\ Len(deque_index_') = Len(deque_index_) + IF call[t] = "waitGrow" THEN 1 ELSE 0
    <3>1. deque_index_ \in Seq(1..Len(logqueues'))
      BY <2>2, SeqMonotonic DEF TypeOK
    <3>2. Len(logqueues) + 1 \in 1..Len(logqueues')
      BY <2>2 DEF TypeOK
    <3>3. CASE call[t] = "waitGrow"
      <4>1. deque_index_' = Append(deque_index_, Len(logqueues) + 1)
        BY <1>13, <3>3 DEF AddQueueEnd
      <4> QED BY <3>1, <3>2, <3>3, <4>1, AppendProperties
    <3>4. CASE call[t] # "waitGrow"
      BY <1>13, <3>1, <3>4, LenProperties DEF AddQueueEnd
    <3> QED BY <3>3, <3>4
  <2>4. TypeOK'
    <3>1. idx' \in [Workers -> 0..Len(logqueues')]
      BY <1>13, <2>2 DEF TypeOK, AddQueueEnd
    <3>2. call' \in [Threads -> Calls] /\ mutex_' \in Threads \cup {NoThread}
      BY <1>13 DEF TypeOK, Calls, AddQueueEnd
    <3> QED BY <1>13, <2>2, <2>3, <3>1, <3>2 DEF TypeOK, AddQueueEnd
  <2>5. LockInv' /\ HasTask'
    BY <1>13 DEF TypeOK, LockInv, HasTask, AddQueueEnd
  <2>6. IndexInStep'
    <3>1. \A u \in Threads : u # t => call[u] = "none" /\ call'[u] = "none"
      BY <1>13 DEF TypeOK, LockInv, AddQueueEnd
    <3>2. call'[t] \in {"none", "notify"} /\ deque_' = deque_
      BY <1>13 DEF TypeOK, AddQueueEnd
    <3>3. Len(deque_) = Len(deque_index_) + IF call[t] = "waitGrow" THEN 1 ELSE 0
      BY <1>13, <3>1 DEF IndexInStep, AddQueueEnd
    <3>4. Len(deque_) = Len(deque_index_')
      BY <2>3, <3>3, LenProperties DEF TypeOK
    <3>5. Len(deque_index_') \in Nat
      BY <2>3, LenProperties
    <3>6. \A u \in Threads : call'[u] \notin {"wait", "waitGrow"}
      BY <3>1, <3>2
    <3> QED BY <3>2, <3>4, <3>5, <3>6 DEF IndexInStep
  <2> QED BY <2>4, <2>5, <2>6
<1>14. ASSUME NEW t \in Threads, AddNotify(t) PROVE IInv'
  <2>1. TypeOK'
    BY <1>14 DEF TypeOK, Row, Labels, Calls, AddNotify, NotifyAll
  <2>2. LockInv' /\ HasTask'
    BY <1>14 DEF TypeOK, LockInv, HasTask, AddNotify, NotifyAll
  <2>3. IndexInStep'
    BY <1>14 DEF TypeOK, LockInv, IndexInStep, AddNotify, NotifyAll
  <2> QED BY <2>1, <2>2, <2>3
<1>15. ASSUME Constructed PROVE IInv'
  <2>1. TypeOK'
    BY <1>15 DEF TypeOK, Row, Labels, Calls, Constructed
  <2>2. LockInv' /\ HasTask'
    BY <1>15 DEF TypeOK, LockInv, HasTask, Constructed
  <2>3. IndexInStep'
    BY <1>15 DEF TypeOK, LockInv, IndexInStep, Constructed
  <2> QED BY <2>1, <2>2, <2>3
<1>16. ASSUME DestroyBegin PROVE IInv'
  <2>1. TypeOK'
    BY <1>16 DEF TypeOK, Row, Labels, Calls, DestroyBegin
  <2>2. LockInv' /\ HasTask'
    BY <1>16 DEF TypeOK, LockInv, HasTask, DestroyBegin
  <2>3. IndexInStep'
    BY <1>16 DEF TypeOK, LockInv, IndexInStep, DestroyBegin
  <2> QED BY <2>1, <2>2, <2>3
<1>17. ASSUME DestroyNotify PROVE IInv'
  <2>1. TypeOK'
    BY <1>17 DEF TypeOK, Row, Labels, Calls, DestroyNotify, NotifyAll
  <2>2. LockInv' /\ HasTask'
    BY <1>17 DEF TypeOK, LockInv, HasTask, DestroyNotify, NotifyAll
  <2>3. IndexInStep'
    BY <1>17 DEF TypeOK, LockInv, IndexInStep, DestroyNotify, NotifyAll
  <2> QED BY <2>1, <2>2, <2>3
<1>18. ASSUME DestroyJoin PROVE IInv'
  <2>1. TypeOK'
    BY <1>18 DEF TypeOK, Row, Labels, Calls, DestroyJoin
  <2>2. LockInv' /\ HasTask'
    BY <1>18 DEF TypeOK, LockInv, HasTask, DestroyJoin
  <2>3. IndexInStep'
    BY <1>18 DEF TypeOK, LockInv, IndexInStep, DestroyJoin
  <2> QED BY <2>1, <2>2, <2>3
<1>19. ASSUME UNCHANGED vars PROVE IInv'
  <2>1. TypeOK'
    BY <1>19 DEF TypeOK, Row, Labels, Calls, vars
  <2>2. LockInv' /\ HasTask'
    BY <1>19 DEF TypeOK, LockInv, HasTask, vars
  <2>3. IndexInStep'
    BY <1>19 DEF TypeOK, LockInv, IndexInStep, vars
  <2> QED BY <2>1, <2>2, <2>3
<1> QED
  BY <1>1, <1>2, <1>3, <1>4, <1>5, <1>6, <1>7, <1>8, <1>9, <1>10, <1>11, <1>12, <1>13, <1>14, <1>15, <1>16, <1>17, <1>18, <1>19
     DEF Next, MainTask, AddReturns, OwnerStep, Destroyed

\* Every reachable state satisfies the inductive invariant.
THEOREM Invariant == Spec => []IInv
<1> QED BY InitIInv, NextIInv, PTL DEF Spec

\* The types are kept and no queue holds more than queueSize tasks, whatever queueSize is.
THEOREM TypeCorrect == Spec => []TypeOK
<1>1. IInv => TypeOK
  BY DEF IInv
<1> QED BY Invariant, <1>1, PTL

\* updateThread, which walks the log without mtx_, never meets a growing vector: mutex_ keeps
\* a worker that stops and a caller that logs apart.
THEOREM NeverWalksAGrowingLog == Spec => []NoWalkDuringGrowth
<1>1. IInv => NoWalkDuringGrowth
  <2> SUFFICES ASSUME IInv, NEW w \in Workers, pc[w] = "stop" PROVE mtx_ = NoThread
    BY DEF NoWalkDuringGrowth
  <2>1. mtx_ # NoThread => mtx_ = w
    BY DEF IInv, LockInv, Threads
  <2>2. call[w] = "none"
    BY DEF IInv, LockInv, Threads
  <2> QED BY <2>1, <2>2 DEF IInv, LockInv
<1> QED BY Invariant, <1>1, PTL

-----------------------------------------------------------------------------

\* The queue is first in, first out and loses nothing, whoever adds and however the pool ends.
THEOREM FirstInFirstOut == Spec => []FifoNoLoss
<1>1. Init => FifoNoLoss
  BY DEF Init, FifoNoLoss
<1>2. IInv /\ FifoNoLoss /\ [Next]_vars => FifoNoLoss'
  <2> SUFFICES ASSUME IInv, FifoNoLoss, [Next]_vars PROVE FifoNoLoss'
    OBVIOUS
  <2> USE DEF IInv, TypeOK, FifoNoLoss
  <2>1. ASSUME NEW w \in Workers, Take(w) PROVE FifoNoLoss'
    <3>1. deque_ # <<>> /\ Head(deque_) \in Tasks /\ Tail(deque_) \in Seq(Tasks)
      BY <2>1, HeadTailProperties DEF Take, QueueEmpty
    <3>2. deque_ = <<Head(deque_)>> \o Tail(deque_)
      BY <3>1, HeadTailProperties
    <3>3. taken' = taken \o <<Head(deque_)>>
      BY <2>1, <3>1, AppendIsConcat DEF Take
    <3>4. (taken \o <<Head(deque_)>>) \o Tail(deque_) = taken \o (<<Head(deque_)>> \o Tail(deque_))
      BY <3>1, ConcatAssociative
    <3> QED BY <2>1, <3>2, <3>3, <3>4 DEF Take, Get
  <2>2. ASSUME NEW t \in Threads, NEW task \in fresh, Add(t, task) PROVE FifoNoLoss'
    <3>1. CASE QueueFull
      BY <2>2, <3>1 DEF Add
    <3>2. CASE ~QueueFull
      <4>1. /\ deque_' = deque_ \o <<task>>
            /\ accepted' = accepted \o <<task>>
        <5>1. deque_' = Append(deque_, task) /\ accepted' = Append(accepted, task)
          BY <2>2, <3>2 DEF Add
        <5>2. task \in Tasks
          OBVIOUS
        <5> QED BY <5>1, <5>2, AppendIsConcat
      <4>2. (taken \o deque_) \o <<task>> = taken \o (deque_ \o <<task>>)
        BY ConcatAssociative
      <4> QED BY <2>2, <4>1, <4>2 DEF Add
    <3> QED BY <3>1, <3>2
  <2>3. CASE UNCHANGED <<deque_, taken, accepted>>
    BY <2>3
  <2> QED BY <2>1, <2>2, <2>3
          DEF Next, vars, queueVars, workVars, logVars, history, MainTask, AddReturns, OwnerStep,
              Destroyed, SpawnThread, AddThread, NothingToDo, Wait, SpuriousWakeup, CheckRow,
              UpdateQueue, TaskReturns, Exit, AddQueueBegin, AddQueueEnd, AddNotify,
              Constructed, DestroyBegin, DestroyNotify, DestroyJoin
<1> QED BY Invariant, <1>1, <1>2, PTL DEF Spec

-----------------------------------------------------------------------------

\* The life of the pool and the places of its workers agree in every reachable state.
THEOREM Lifecycle == Spec => []LifeInv
<1>1. Init => LifeInv
  BY DEF Init, LifeInv, Threads
<1>2. IInv /\ LifeInv /\ [Next]_vars => LifeInv'
  <2> SUFFICES ASSUME IInv, LifeInv, [Next]_vars PROVE LifeInv'
    OBVIOUS
  <2> USE PoolAssumption DEF IInv, TypeOK, LifeInv, Threads, queueVars, workVars, logVars, history
  <2>1. ASSUME NEW w \in Workers, SpawnThread(w) PROVE LifeInv'
    BY <2>1 DEF SpawnThread, Goto
  <2>2. ASSUME NEW w \in Workers, NothingToDo(w) PROVE LifeInv'
    BY <2>2 DEF NothingToDo, MayLock, QueueEmpty, Goto
  <2>3. ASSUME NEW w \in Workers, Wait(w) PROVE LifeInv'
    BY <2>3 DEF Wait, Goto
  <2>4. ASSUME NEW w \in Workers, Take(w) PROVE LifeInv'
    BY <2>4 DEF Take, MayLock, QueueEmpty, Goto
  <2>5. ASSUME NEW w \in Workers, CheckRow(w) PROVE LifeInv'
    BY <2>5 DEF CheckRow, Goto
  <2>6. ASSUME NEW w \in Workers, UpdateQueue(w) PROVE LifeInv'
    BY <2>6 DEF UpdateQueue, Goto
  <2>7. ASSUME NEW w \in Workers, TaskReturns(w) PROVE LifeInv'
    BY <2>7 DEF TaskReturns, Goto
  <2>8. ASSUME NEW w \in Workers, Exit(w) PROVE LifeInv'
    BY <2>8 DEF Exit, Goto
  <2>9. ASSUME NEW t \in Threads, NEW task \in fresh, Add(t, task) PROVE LifeInv'
    BY <2>9 DEF Add, MayAdd, QueueFull, LockInv
  <2>10. ASSUME NEW t \in Threads, AddReturns(t) PROVE LifeInv'
    BY <2>10 DEF AddReturns, AddQueueBegin, AddQueueEnd, AddNotify, NotifyAll
  <2>11. ASSUME OwnerStep PROVE LifeInv'
    BY <2>11 DEF OwnerStep, Constructed, DestroyNotify, NotifyAll, DestroyJoin
  <2>12. ASSUME DestroyBegin PROVE LifeInv'
    BY <2>12 DEF DestroyBegin, LockInv
  <2>13. ASSUME NEW w \in Workers, AddThread(w) \/ SpuriousWakeup(w) PROVE LifeInv'
    BY <2>13 DEF AddThread, SpuriousWakeup
  <2>14. CASE UNCHANGED vars
    BY <2>14 DEF vars
  <2> QED BY <2>1, <2>2, <2>3, <2>4, <2>5, <2>6, <2>7, <2>8, <2>9, <2>10, <2>11, <2>12, <2>13, <2>14
          DEF Next, MainTask, Destroyed
<1> QED BY Invariant, <1>1, <1>2, PTL DEF Spec

\* No worker sleeps through work or through the shutdown: the lost-wakeup property, for any
\* number of workers and callers.
THEOREM NoLostWakeup == Spec => []SleepsOnlyWhenIdle
<1>1. Init => SleepsOnlyWhenIdle
  BY DEF Init, SleepsOnlyWhenIdle
<1>2. IInv /\ LifeInv /\ SleepsOnlyWhenIdle /\ [Next]_vars => SleepsOnlyWhenIdle'
  <2> SUFFICES ASSUME IInv, LifeInv, SleepsOnlyWhenIdle, [Next]_vars PROVE SleepsOnlyWhenIdle'
    OBVIOUS
  <2> USE PoolAssumption DEF IInv, TypeOK, SleepsOnlyWhenIdle, Threads, queueVars, workVars,
                             logVars, history
  <2>1. ASSUME NEW w \in Workers, Wait(w) PROVE SleepsOnlyWhenIdle'
    BY <2>1 DEF Wait, LifeInv
  <2>2. ASSUME NEW w \in Workers, Take(w) PROVE SleepsOnlyWhenIdle'
    BY <2>2 DEF Take, MayLock, LockInv, QueueEmpty
  <2>3. ASSUME NEW t \in Threads, NEW task \in fresh, Add(t, task) PROVE SleepsOnlyWhenIdle'
    BY <2>3 DEF Add, LockInv
  <2>4. ASSUME NEW t \in Threads, AddQueueBegin(t) PROVE SleepsOnlyWhenIdle'
    BY <2>4 DEF AddQueueBegin
  <2>5. ASSUME NEW t \in Threads, AddQueueEnd(t) PROVE SleepsOnlyWhenIdle'
    BY <2>5 DEF AddQueueEnd
  <2>6. ASSUME NEW t \in Threads, AddNotify(t) PROVE SleepsOnlyWhenIdle'
    BY <2>6 DEF AddNotify, NotifyAll
  <2>7. CASE OwnerStep \/ DestroyBegin
    BY <2>7 DEF OwnerStep, Constructed, DestroyNotify, NotifyAll, DestroyJoin, DestroyBegin, LifeInv
  <2>8. ASSUME NEW w \in Workers, SpuriousWakeup(w) PROVE SleepsOnlyWhenIdle'
    BY <2>8 DEF SpuriousWakeup
  <2>9. CASE UNCHANGED <<life, isRunning_, cv_, deque_, call>>
    BY <2>9
  <2> QED BY <2>1, <2>2, <2>3, <2>4, <2>5, <2>6, <2>7, <2>8, <2>9
          DEF Next, vars, MainTask, AddReturns, Destroyed, SpawnThread, AddThread, NothingToDo,
              CheckRow, UpdateQueue, TaskReturns, Exit
<1> QED BY Invariant, Lifecycle, <1>1, <1>2, PTL DEF Spec

-----------------------------------------------------------------------------

\* mutex_ kept between two steps is kept by someone who can go on, and once the pool is
\* constructed all its threads are.
HeldInv ==
    mutex_ # NoThread =>
      call[mutex_] # "none" \/ (mutex_ \in Workers /\ pc[mutex_] \in {"sleep", "stop"})
BornInv == \A w \in Workers : pc[w] = "unborn" => life = "ctor" /\ logthreads[w] = "none"

\* Both hold in every reachable state.
THEOREM HeldAndBorn == Spec => [](HeldInv /\ BornInv)
<1>1. Init => HeldInv /\ BornInv
  BY DEF Init, HeldInv, BornInv
<1>2. IInv /\ LifeInv /\ HeldInv /\ BornInv /\ [Next]_vars => (HeldInv /\ BornInv)'
  <2> SUFFICES ASSUME IInv, LifeInv, HeldInv, BornInv, [Next]_vars PROVE HeldInv' /\ BornInv'
    OBVIOUS
  <2> USE PoolAssumption DEF IInv, TypeOK, HeldInv, BornInv, Threads, queueVars, workVars,
                             logVars, history
  <2>1. ASSUME NEW w \in Workers, SpawnThread(w) PROVE HeldInv' /\ BornInv'
    BY <2>1 DEF SpawnThread, Goto
  <2>2. ASSUME NEW w \in Workers, AddThread(w) PROVE HeldInv' /\ BornInv'
    BY <2>2 DEF AddThread
  <2>3. ASSUME NEW w \in Workers, NothingToDo(w) PROVE HeldInv' /\ BornInv'
    BY <2>3 DEF NothingToDo, MayLock, Goto
  <2>4. ASSUME NEW w \in Workers, Wait(w) PROVE HeldInv' /\ BornInv'
    BY <2>4 DEF Wait, Goto
  <2>5. ASSUME NEW w \in Workers, Take(w) PROVE HeldInv' /\ BornInv'
    BY <2>5 DEF Take, MayLock, Goto
  <2>6. ASSUME NEW w \in Workers, CheckRow(w) \/ UpdateQueue(w) \/ TaskReturns(w)
        PROVE  HeldInv' /\ BornInv'
    BY <2>6 DEF CheckRow, UpdateQueue, TaskReturns, Goto
  <2>7. ASSUME NEW w \in Workers, Exit(w) PROVE HeldInv' /\ BornInv'
    BY <2>7 DEF Exit, Goto
  <2>8. ASSUME NEW t \in Threads, NEW task \in fresh, Add(t, task) PROVE HeldInv' /\ BornInv'
    BY <2>8 DEF Add
  <2>9. ASSUME NEW t \in Threads, AddReturns(t) PROVE HeldInv' /\ BornInv'
    BY <2>9 DEF AddReturns, AddQueueBegin, AddQueueEnd, AddNotify, LockInv
  <2>10. ASSUME OwnerStep \/ DestroyBegin PROVE HeldInv' /\ BornInv'
    BY <2>10 DEF OwnerStep, Constructed, DestroyNotify, DestroyJoin, DestroyBegin
  <2>11. CASE UNCHANGED <<life, mutex_, pc, call, logthreads>>
    BY <2>11
  <2> QED BY <2>1, <2>2, <2>3, <2>4, <2>5, <2>6, <2>7, <2>8, <2>9, <2>10, <2>11
          DEF Next, vars, MainTask, Destroyed, SpuriousWakeup
<1> QED BY Invariant, Lifecycle, <1>1, <1>2, PTL DEF Spec

\* If nobody can go on, both locks are free and nobody is in add: whoever waits for mtx_ waits
\* for a thread that is growing the log, and mutex_ is never kept by one that waits for
\* anything but mtx_.
LEMMA LocksAreFree ==
  ASSUME IInv, HeldInv, ~CanGo
  PROVE  mutex_ = NoThread /\ mtx_ = NoThread /\ \A t \in Threads : call[t] = "none"
<1> USE PoolAssumption DEF IInv, TypeOK
<1>1. \A w \in Workers : ~WorkerCanGo(w)
  BY DEF CanGo
<1>2. \A t \in Threads : ~AddCanGo(t)
  BY DEF CanGo
<1>3. mtx_ = NoThread
  BY <1>2 DEF LockInv, AddCanGo
<1>4. \A t \in Threads : call[t] = "none"
  BY <1>2, <1>3 DEF AddCanGo, Calls
<1>5. mutex_ = NoThread
  <2> SUFFICES ASSUME mutex_ # NoThread PROVE FALSE
    OBVIOUS
  <2>1. mutex_ \in Workers /\ pc[mutex_] \in {"sleep", "stop"}
    BY <1>4 DEF HeldInv
  <2> QED BY <1>1, <2>1 DEF WorkerCanGo
<1> QED BY <1>3, <1>4, <1>5

\* The pool never stands still with something left to do, whatever the number of workers and
\* callers.
THEOREM PoolGoesOn == Spec => []NeverStandsStill
<1>1. IInv /\ LifeInv /\ SleepsOnlyWhenIdle /\ HeldInv /\ BornInv => NeverStandsStill
  <2> SUFFICES ASSUME IInv, LifeInv, SleepsOnlyWhenIdle, HeldInv, BornInv, ~CanGo
               PROVE  AtRest
    BY DEF NeverStandsStill
  <2> USE PoolAssumption DEF IInv, TypeOK
  <2>1. mutex_ = NoThread /\ mtx_ = NoThread /\ \A t \in Threads : call[t] = "none"
    BY LocksAreFree
  <2>2. life \notin {"ctor", "notify"}
    BY DEF CanGo, OwnerCanGo
  <2>3. \A w \in Workers : w \in cv_ \/ pc[w] = "exited"
    <3> TAKE w \in Workers
    <3>1. ~WorkerCanGo(w)
      BY DEF CanGo
    <3>2. pc[w] # "unborn"
      BY <2>2 DEF BornInv
    <3>3. pc[w] # "task"
      BY <2>1, <3>1 DEF WorkerCanGo, Threads
    <3>4. pc[w] \in {"lock", "wait", "exited"}
      BY <2>1, <3>1, <3>2, <3>3 DEF WorkerCanGo, Labels
    <3> QED BY <2>1, <3>1, <3>4 DEF WorkerCanGo
  <2>4. CASE life = "alive"
    <3>1. \A w \in Workers : w \in cv_
      BY <2>3, <2>4 DEF LifeInv
    <3>2. Workers # {} => deque_ = <<>>
      BY <2>1, <3>1 DEF SleepsOnlyWhenIdle
    <3> QED BY <2>1, <2>4, <3>1, <3>2 DEF AtRest
  <2>5. CASE life = "join"
    <3>1. cv_ = {}
      BY <2>5 DEF SleepsOnlyWhenIdle, LifeInv
    <3> QED BY <2>3, <2>5, <3>1 DEF CanGo, OwnerCanGo
  <2>6. CASE life = "destroyed"
    BY <2>6 DEF AtRest
  <2> QED BY <2>2, <2>4, <2>5, <2>6
<1> QED BY Invariant, Lifecycle, NoLostWakeup, HeldAndBorn, <1>1, PTL

-----------------------------------------------------------------------------

\* Append adds one element to the range of a sequence.
LEMMA RangeOfAppend ==
  ASSUME NEW S, NEW s \in Seq(S), NEW e \in S
  PROVE  Range(Append(s, e)) = Range(s) \cup {e}
<1> DEFINE t == Append(s, e)
<1>1. /\ DOMAIN s = 1..Len(s) /\ Len(s) \in Nat
      /\ DOMAIN t = 1..(Len(s) + 1)
      /\ \A i \in 1..Len(s) : t[i] = s[i]
      /\ t[Len(s) + 1] = e
  BY AppendProperties, LenProperties
<1> HIDE DEF t
<1> QED BY <1>1 DEF Range

\* While a task is queued a worker is there to take it, and a taken task is in hand or done.
THEOREM TakenIsInHandOrDone == Spec => []DrainInv
<1>1. Init => DrainInv
  <2> SUFFICES ASSUME Init PROVE DrainInv
    OBVIOUS
  <2>1. InHand = {} /\ Range(taken) = {} /\ done = {} /\ deque_ = <<>>
    BY DEF Init, InHand, Range
  <2> QED BY <2>1 DEF DrainInv
<1>2. IInv /\ LifeInv /\ DrainInv /\ [Next]_vars => DrainInv'
  <2> SUFFICES ASSUME IInv, LifeInv, DrainInv, [Next]_vars PROVE DrainInv'
    OBVIOUS
  <2> USE PoolAssumption DEF IInv, TypeOK, DrainInv, Threads, queueVars, workVars, logVars, history
  <2>1. ASSUME NEW w \in Workers, Take(w) PROVE DrainInv'
    <3>1. deque_ # <<>> /\ Head(deque_) \in Tasks
      BY <2>1, HeadTailProperties DEF Take, QueueEmpty
    <3>2. taken' = Append(taken, Head(deque_))
      BY <2>1 DEF Take
    <3>3. Range(taken') = Range(taken) \cup {Head(deque_)}
      BY <3>1, <3>2, RangeOfAppend
    <3>4. InHand' = InHand \cup {Head(deque_)}
      BY <2>1 DEF Take, MayLock, Get, Goto, InHand
    <3>5. pc'[w] \notin {"stop", "exited"}
      BY <2>1 DEF Take, Goto
    <3> QED BY <2>1, <3>3, <3>4, <3>5 DEF Take
  <2>2. ASSUME NEW w \in Workers, TaskReturns(w) PROVE DrainInv'
    <3>1. InHand = InHand' \cup {func[w]}
      BY <2>2 DEF TaskReturns, Goto, InHand
    <3>2. done' = done \cup {func[w]} /\ taken' = taken /\ deque_' = deque_
      BY <2>2 DEF TaskReturns
    <3>3. \A v \in Workers : pc'[v] \in {"stop", "exited"} => pc[v] \in {"stop", "exited"}
      BY <2>2 DEF TaskReturns, Goto
    <3> QED BY <3>1, <3>2, <3>3
  <2>3. ASSUME NEW t \in Threads, NEW task \in fresh, Add(t, task) PROVE DrainInv'
    <3>1. InHand' = InHand /\ taken' = taken /\ done' = done /\ pc' = pc
      BY <2>3 DEF Add, InHand
    <3>2. Workers # {} => \E w \in Workers : pc[w] \notin {"stop", "exited"}
      BY <2>3 DEF Add, MayAdd, LifeInv
    <3> QED BY <3>1, <3>2
  <2>4. ASSUME NEW w \in Workers, NothingToDo(w) \/ Exit(w) PROVE DrainInv'
    <3>1. InHand' = InHand /\ taken' = taken /\ done' = done /\ deque_' = deque_
      BY <2>4 DEF NothingToDo, Exit, MayLock, Goto, InHand
    <3>2. NothingToDo(w) => deque_ = <<>>
      BY DEF NothingToDo, QueueEmpty
    <3>3. Exit(w) => \A v \in Workers : pc'[v] \in {"stop", "exited"} => pc[v] \in {"stop", "exited"}
      BY DEF Exit, Goto
    <3> QED BY <2>4, <3>1, <3>2, <3>3
  <2>5. ASSUME NEW w \in Workers,
               SpawnThread(w) \/ Wait(w) \/ CheckRow(w) \/ UpdateQueue(w)
        PROVE  DrainInv'
    <3>1. InHand' = InHand
      BY <2>5 DEF SpawnThread, Wait, CheckRow, UpdateQueue, Goto, InHand
    <3>2. taken' = taken /\ done' = done /\ deque_' = deque_
      BY <2>5 DEF SpawnThread, Wait, CheckRow, UpdateQueue
    <3>3. \A v \in Workers : pc'[v] \in {"stop", "exited"} => pc[v] \in {"stop", "exited"}
      BY <2>5 DEF SpawnThread, Wait, CheckRow, UpdateQueue, Goto
    <3> QED BY <3>1, <3>2, <3>3
  <2>6. CASE UNCHANGED <<deque_, pc, func, taken, done>>
    BY <2>6 DEF InHand
  <2> QED BY <2>1, <2>2, <2>3, <2>4, <2>5, <2>6
          DEF Next, vars, MainTask, AddReturns, OwnerStep, Destroyed, AddThread, SpuriousWakeup,
              AddQueueBegin, AddQueueEnd, AddNotify, Constructed, DestroyBegin, DestroyNotify,
              DestroyJoin
<1> QED BY Invariant, Lifecycle, <1>1, <1>2, PTL DEF Spec

\* A destroyed pool has run every task it accepted.
THEOREM DestructorDrains == Spec => []DrainedWhenDestroyed
<1>1. IInv /\ LifeInv /\ FifoNoLoss /\ DrainInv => DrainedWhenDestroyed
  <2> SUFFICES ASSUME IInv, LifeInv, FifoNoLoss, DrainInv, life = "destroyed", Workers # {}
               PROVE  deque_ = <<>> /\ Range(accepted) = done
    BY DEF DrainedWhenDestroyed
  <2>1. InHand = {} /\ deque_ = <<>>
    BY DEF LifeInv, DrainInv, InHand
  <2>2. accepted = taken
    BY <2>1, ConcatEmptySeq DEF IInv, TypeOK, FifoNoLoss
  <2> QED BY <2>1, <2>2 DEF DrainInv
<1> QED BY Invariant, Lifecycle, FirstInFirstOut, TakenIsInHandOrDone, <1>1, PTL

-----------------------------------------------------------------------------
(* The log: its rows are those of the tasks the queue and the workers take them for, and they
   only go forward *)

\* The row at the i-th place of deque_index_ is that of the i-th queued task; a caller of add
\* whose row is not written yet has put the last task.
RowInv ==
    /\ \A i \in DOMAIN deque_index_ : logqueues[deque_index_[i]].task = deque_[i]
    /\ \A w \in Workers : idx[w] # 0 => logqueues[idx[w]].task = func[w]
    /\ \A t \in Threads :
         call[t] \in {"wait", "waitGrow"} => deque_ # <<>> /\ deque_[Len(deque_)] = arg[t]

\* A worker at these labels reports on the row idx names, and will not before it takes the next.
Reporting(w) == pc[w] \in {"logRun", "setRun", "task", "logFin", "setFin"}

\* Queued tasks and reporting workers have rows of their own, and a row that is still to be
\* written has not been written already.
StateInv ==
    /\ \A i, j \in DOMAIN deque_index_ : deque_index_[i] = deque_index_[j] => i = j
    /\ \A i \in DOMAIN deque_index_ : logqueues[deque_index_[i]].state = "WAIT"
    /\ \A w \in Workers : Reporting(w) =>
         /\ idx[w] # 0
         /\ \A i \in DOMAIN deque_index_ : deque_index_[i] # idx[w]
         /\ \A v \in Workers : Reporting(v) /\ idx[v] = idx[w] => v = w
         /\ logqueues[idx[w]].state \in {"WAIT", "RUN"}
         /\ pc[w] \in {"logRun", "setRun"} => logqueues[idx[w]].state = "WAIT"

\* What each state of a row says, and where its task is meanwhile.
SoundInv ==
    /\ LogIsSound
    /\ fresh \cap Range(accepted) = {}
    /\ \A i \in DOMAIN logqueues : logqueues[i].state = "ERR" => logqueues[i].task \notin fresh
    /\ \A t \in Threads : call[t] \in {"err", "errGrow"} => arg[t] \notin Range(accepted) \cup fresh
    /\ \A w \in Workers : pc[w] \in {"logFin", "setFin"} => func[w] \in done

LogInv == RowInv /\ StateInv /\ SoundInv

\* RowsGoForward, of one step.
Forward ==
    \A i \in DOMAIN logqueues :
      /\ i \in DOMAIN logqueues'
      /\ logqueues'[i].task = logqueues[i].task
      /\ Progress[logqueues[i].state] <= Progress[logqueues'[i].state]
      /\ (logqueues[i].state = "ERR") <=> (logqueues'[i].state = "ERR")

-----------------------------------------------------------------------------

\* The rows of the log are rows.
LEMMA RowType ==
  ASSUME IInv
  PROVE  \A i \in DOMAIN logqueues : logqueues[i].state \in {"WAIT", "RUN", "FINISH", "ERR"}
<1> SUFFICES ASSUME NEW i \in DOMAIN logqueues
             PROVE  logqueues[i].state \in {"WAIT", "RUN", "FINISH", "ERR"}
  OBVIOUS
<1>1. logqueues \in Seq(Row)
  BY DEF IInv, TypeOK
<1>2. logqueues[i] \in Row
  BY <1>1, LenProperties
<1> QED BY <1>2 DEF Row

\* Rows that a step leaves alone do not go back.
LEMMA NothingGoesBack == IInv /\ UNCHANGED logqueues => Forward
BY RowType DEF Forward, Progress

\* A worker takes the oldest task and the oldest index together.
LEMMA TakeLogInv ==
  ASSUME IInv, LifeInv, DrainInv, LogInv, NEW w \in Workers, Take(w)
  PROVE  LogInv'
<1> USE DEF IInv, TypeOK
<1>1. \A t \in Threads : call[t] = "none"
  BY PoolAssumption DEF Take, MayLock, LockInv, Threads
<1>2. deque_ # <<>> /\ deque_index_ # <<>> /\ Len(deque_) = Len(deque_index_)
  BY <1>1 DEF Take, QueueEmpty, IndexInStep
<1>3. /\ deque_' = Tail(deque_) /\ Head(deque_) = deque_[1]
      /\ Len(deque_') = Len(deque_) - 1 /\ Head(deque_) \in Tasks
      /\ \A i \in 1..Len(deque_') : deque_'[i] = deque_[i + 1]
  BY <1>2, HeadTailProperties DEF Take, Get
<1>4. /\ deque_index_' = Tail(deque_index_) /\ Head(deque_index_) = deque_index_[1]
      /\ Len(deque_index_') = Len(deque_index_) - 1
      /\ Head(deque_index_) \in 1..Len(logqueues)
      /\ deque_index_' \in Seq(1..Len(logqueues))
      /\ \A i \in 1..Len(deque_index_') : deque_index_'[i] = deque_index_[i + 1]
  BY <1>2, HeadTailProperties DEF Take, GetIndex
<1>5. /\ DOMAIN deque_index_ = 1..Len(deque_index_) /\ Len(deque_index_) \in Nat \ {0}
      /\ DOMAIN deque_index_' = 1..Len(deque_index_')
  BY <1>2, <1>4, LenProperties, EmptySeq
<1>6. /\ idx' = [idx EXCEPT ![w] = deque_index_[1]] /\ func' = [func EXCEPT ![w] = deque_[1]]
      /\ pc' = [pc EXCEPT ![w] = "logRun"]
      /\ taken' = Append(taken, Head(deque_))
      /\ UNCHANGED <<call, arg, logqueues, fresh, accepted, done>>
  BY <1>3, <1>4 DEF Take, Get, GetIndex, Goto, logVars
<1>7. RowInv'
  <2>1. ASSUME NEW i \in DOMAIN deque_index_'
        PROVE  logqueues[deque_index_'[i]].task = deque_'[i]
    <3>1. i \in 1..(Len(deque_index_) - 1)
      BY <1>4, <1>5
    <3>2. i + 1 \in DOMAIN deque_index_ /\ deque_index_'[i] = deque_index_[i + 1]
      BY <1>4, <1>5, <3>1
    <3>3. deque_'[i] = deque_[i + 1]
      BY <1>2, <1>3, <3>1
    <3> QED BY <3>2, <3>3 DEF LogInv, RowInv
  <2>2. logqueues[deque_index_[1]].task = deque_[1]
    <3>1. 1 \in DOMAIN deque_index_
      BY <1>5
    <3> QED BY <3>1 DEF LogInv, RowInv
  <2>3. \A v \in Workers : idx'[v] # 0 => logqueues[idx'[v]].task = func'[v]
    BY <1>6, <2>2 DEF LogInv, RowInv
  <2> QED BY <1>1, <1>6, <2>1, <2>3 DEF RowInv
<1>8. StateInv'
  <2>1. ASSUME NEW i \in DOMAIN deque_index_'
        PROVE  i + 1 \in DOMAIN deque_index_ /\ i + 1 # 1 /\ deque_index_'[i] = deque_index_[i + 1]
    <3>1. i \in 1..(Len(deque_index_) - 1)
      BY <1>4, <1>5
    <3>2. i + 1 \in DOMAIN deque_index_ /\ i + 1 # 1
      BY <1>5, <3>1
    <3>3. deque_index_'[i] = deque_index_[i + 1]
      BY <1>4, <1>5
    <3> QED BY <3>2, <3>3
  <2>2. 1 \in DOMAIN deque_index_ /\ deque_index_[1] # 0
    BY <1>4, <1>5
  <2>3. \A v \in Workers : v # w => (Reporting(v)' <=> Reporting(v)) /\ idx'[v] = idx[v] /\ pc'[v] = pc[v]
    BY <1>6 DEF Reporting
  <2>4. idx'[w] = deque_index_[1] /\ pc'[w] = "logRun"
    BY <1>6
  <2>5. \A i, j \in DOMAIN deque_index_' : deque_index_'[i] = deque_index_'[j] => i = j
    BY <1>5, <2>1 DEF LogInv, StateInv
  <2>6. \A i \in DOMAIN deque_index_' : logqueues'[deque_index_'[i]].state = "WAIT"
    BY <1>6, <2>1 DEF LogInv, StateInv
  <2>7. \A i \in DOMAIN deque_index_' : deque_index_'[i] # deque_index_[1]
    BY <2>1, <2>2 DEF LogInv, StateInv
  <2>8. \A v \in Workers : Reporting(v) => idx[v] # deque_index_[1]
    BY <2>2 DEF LogInv, StateInv
  <2>9. logqueues[deque_index_[1]].state = "WAIT"
    BY <2>2 DEF LogInv, StateInv
  <2>10. ASSUME NEW v \in Workers, Reporting(v)'
         PROVE  /\ idx'[v] # 0
                /\ \A i \in DOMAIN deque_index_' : deque_index_'[i] # idx'[v]
                /\ \A u \in Workers : Reporting(u)' /\ idx'[u] = idx'[v] => u = v
                /\ logqueues'[idx'[v]].state \in {"WAIT", "RUN"}
                /\ pc'[v] \in {"logRun", "setRun"} => logqueues'[idx'[v]].state = "WAIT"
    <3>1. CASE v = w
      <4>1. \A u \in Workers : Reporting(u)' /\ idx'[u] = idx'[w] => u = w
        BY <2>3, <2>4, <2>8
      <4> QED BY <1>6, <2>2, <2>4, <2>7, <2>9, <3>1, <4>1
    <3>2. CASE v # w
      <4>1. Reporting(v) /\ idx'[v] = idx[v] /\ pc'[v] = pc[v] /\ idx[v] # deque_index_[1]
        BY <2>3, <2>8, <2>10, <3>2
      <4>2. \A i \in DOMAIN deque_index_' : deque_index_'[i] # idx[v]
        BY <2>1, <4>1 DEF LogInv, StateInv
      <4>3. \A u \in Workers : Reporting(u)' /\ idx'[u] = idx[v] => u = v
        BY <2>3, <2>4, <4>1 DEF LogInv, StateInv
      <4> QED BY <1>6, <4>1, <4>2, <4>3 DEF LogInv, StateInv
    <3> QED BY <3>1, <3>2
  <2> QED BY <2>5, <2>6, <2>10 DEF StateInv
<1>9. SoundInv'
  <2>1. Range(taken') = Range(taken) \cup {Head(deque_)}
    BY <1>3, <1>6, RangeOfAppend
  <2> QED BY <1>6, <2>1 DEF LogInv, SoundInv, LogIsSound
<1> QED BY <1>7, <1>8, <1>9 DEF LogInv

\* put appends the task; nothing is written to the log yet.
LEMMA AddLogInv ==
  ASSUME IInv, LogInv, NEW t \in Threads, NEW task \in fresh, Add(t, task)
  PROVE  LogInv'
<1> USE DEF IInv, TypeOK
<1>1. \A u \in Threads : call[u] = "none"
  BY PoolAssumption DEF Add, LockInv, Threads
<1>2. DOMAIN deque_index_ = 1..Len(deque_index_) /\ Len(deque_) \in Nat /\ Len(deque_) = Len(deque_index_)
  BY <1>1, LenProperties DEF IndexInStep
<1>3. /\ call'[t] \in {"err", "wait"} /\ arg'[t] = task
      /\ \A u \in Threads : u # t => call'[u] = "none"
      /\ fresh' = fresh \ {task}
      /\ UNCHANGED <<deque_index_, pc, func, idx, logqueues, taken, done>>
  BY <1>1 DEF Add, logVars, workVars
<1>4. CASE QueueFull
  <2>1. call'[t] = "err" /\ UNCHANGED <<deque_, accepted>>
    BY <1>4 DEF Add
  <2>2. RowInv'
    BY <1>3, <2>1 DEF LogInv, RowInv
  <2>3. StateInv'
    BY <1>3 DEF LogInv, StateInv, Reporting
  <2>4. SoundInv'
    BY <1>3, <2>1 DEF LogInv, SoundInv, LogIsSound
  <2> QED BY <2>2, <2>3, <2>4 DEF LogInv
<1>5. CASE ~QueueFull
  <2>1. call'[t] = "wait" /\ deque_' = Append(deque_, task) /\ accepted' = Append(accepted, task)
    BY <1>5 DEF Add
  <2>2. /\ deque_' # <<>> /\ Len(deque_') = Len(deque_) + 1 /\ deque_'[Len(deque_) + 1] = task
        /\ \A i \in 1..Len(deque_) : deque_'[i] = deque_[i]
    BY <2>1, AppendProperties
  <2>3. RowInv'
    BY <1>2, <1>3, <2>2 DEF LogInv, RowInv
  <2>4. StateInv'
    BY <1>3 DEF LogInv, StateInv, Reporting
  <2>5. Range(accepted') = Range(accepted) \cup {task}
    BY <2>1, RangeOfAppend
  <2>6. SoundInv'
    BY <1>3, <2>1, <2>5 DEF LogInv, SoundInv, LogIsSound
  <2> QED BY <2>3, <2>4, <2>6 DEF LogInv
<1> QED BY <1>4, <1>5

\* addQueue writes the row of the task its caller has put or was refused.
LEMMA AddQueueEndLogInv ==
  ASSUME IInv, LogInv, NEW t \in Threads, AddQueueEnd(t)
  PROVE  LogInv' /\ Forward
<1> USE DEF IInv, TypeOK
<1>1. /\ arg[t] \in Tasks /\ \A u \in Threads : u # t => call[u] = "none"
      /\ call[t] \in {"errGrow", "waitGrow"}
  BY DEF AddQueueEnd, LockInv
<1>2. PICK s \in {"ERR", "WAIT"} :
        /\ s = "ERR" <=> call[t] = "errGrow"
        /\ logqueues' = Append(logqueues, [state |-> s, id |-> NoThread, task |-> arg[t]])
  BY <1>1 DEF AddQueueEnd
<1> DEFINE row == [state |-> s, id |-> NoThread, task |-> arg[t]]
<1>3. row \in Row
  BY <1>1 DEF Row
<1>4. /\ DOMAIN logqueues = 1..Len(logqueues) /\ Len(logqueues) \in Nat
      /\ DOMAIN logqueues' = 1..(Len(logqueues) + 1)
      /\ \A i \in 1..Len(logqueues) : logqueues'[i] = logqueues[i]
      /\ logqueues'[Len(logqueues) + 1] = row
  <2>1. logqueues' \in Seq(Row)
    BY <1>2, <1>3, AppendProperties
  <2> QED BY <1>2, <1>3, <2>1, AppendProperties, LenProperties
<1>5. row.state = s /\ row.task = arg[t]
  OBVIOUS
<1> HIDE DEF row
<1>6. /\ call'[t] \in {"none", "notify"} /\ \A u \in Threads : u # t => call'[u] = "none"
      /\ UNCHANGED <<deque_, pc, func, idx, arg, fresh, accepted, taken, done>>
  BY <1>1 DEF AddQueueEnd, workVars, history
<1>7. /\ \A i \in DOMAIN deque_index_ : deque_index_[i] \in 1..Len(logqueues)
      /\ DOMAIN deque_index_ = 1..Len(deque_index_) /\ Len(deque_index_) \in Nat
  BY LenProperties, ElementOfSeq
<1>8. \/ /\ call[t] = "errGrow" /\ deque_index_' = deque_index_
      \/ /\ call[t] = "waitGrow"
         /\ DOMAIN deque_index_' = 1..(Len(deque_index_) + 1)
         /\ Len(deque_) = Len(deque_index_) + 1
         /\ \A i \in 1..Len(deque_index_) : deque_index_'[i] = deque_index_[i]
         /\ deque_index_'[Len(deque_index_) + 1] = Len(logqueues) + 1
  <2>1. CASE call[t] = "errGrow"
    BY <2>1 DEF AddQueueEnd
  <2>2. CASE call[t] = "waitGrow"
    <3>1. deque_index_' = Append(deque_index_, Len(logqueues) + 1)
      BY <2>2 DEF AddQueueEnd
    <3>2. deque_index_ \in Seq(Nat) /\ Len(logqueues) + 1 \in Nat
      BY <1>4, SeqMonotonic
    <3>3. deque_index_' \in Seq(Nat)
      BY <3>1, <3>2, AppendProperties
    <3>4. Len(deque_) = Len(deque_index_) + 1
      BY <2>2, <1>7 DEF IndexInStep
    <3> QED BY <2>2, <3>1, <3>2, <3>3, <3>4, AppendProperties, LenProperties
  <2> QED BY <1>1, <2>1, <2>2
<1>9. \A w \in Workers : idx[w] # 0 => idx[w] \in 1..Len(logqueues)
  BY <1>4
<1>14. \A i \in DOMAIN deque_index_' :
         \/ i \in DOMAIN deque_index_ /\ deque_index_'[i] = deque_index_[i]
         \/ call[t] = "waitGrow" /\ i = Len(deque_) /\ deque_index_'[i] = Len(logqueues) + 1
  BY <1>7, <1>8
<1>15. \A i \in DOMAIN deque_index_ :
         deque_index_[i] \in 1..Len(logqueues) /\ deque_index_[i] # Len(logqueues) + 1
           /\ logqueues'[deque_index_[i]] = logqueues[deque_index_[i]]
  BY <1>4, <1>7
<1>10. RowInv'
  <2>1. \A i \in DOMAIN deque_index_' : logqueues'[deque_index_'[i]].task = deque_[i]
    <3> SUFFICES ASSUME NEW i \in DOMAIN deque_index_'
                 PROVE  logqueues'[deque_index_'[i]].task = deque_[i]
      OBVIOUS
    <3>1. CASE i \in DOMAIN deque_index_ /\ deque_index_'[i] = deque_index_[i]
      BY <1>15, <3>1 DEF LogInv, RowInv
    <3>2. CASE call[t] = "waitGrow" /\ i = Len(deque_) /\ deque_index_'[i] = Len(logqueues) + 1
      BY <1>4, <1>5, <3>2 DEF LogInv, RowInv
    <3> QED BY <1>14, <3>1, <3>2
  <2>2. \A w \in Workers : idx[w] # 0 => logqueues'[idx[w]].task = func[w]
    BY <1>4, <1>9 DEF LogInv, RowInv
  <2> QED BY <1>6, <2>1, <2>2 DEF RowInv
<1>11. StateInv'
  <2>1. \A i, j \in DOMAIN deque_index_' : deque_index_'[i] = deque_index_'[j] => i = j
    BY <1>14, <1>15 DEF LogInv, StateInv
  <2>2. \A i \in DOMAIN deque_index_' : logqueues'[deque_index_'[i]].state = "WAIT"
    <3>1. call[t] = "waitGrow" => s = "WAIT"
      BY <1>2
    <3> QED BY <1>4, <1>5, <1>14, <1>15, <3>1 DEF LogInv, StateInv
  <2>3. ASSUME NEW w \in Workers, Reporting(w)
        PROVE  /\ idx[w] # 0 /\ logqueues'[idx[w]] = logqueues[idx[w]]
               /\ \A i \in DOMAIN deque_index_' : deque_index_'[i] # idx[w]
    <3>1. idx[w] # 0 /\ \A i \in DOMAIN deque_index_ : deque_index_[i] # idx[w]
      BY <2>3 DEF LogInv, StateInv
    <3>2. idx[w] \in 1..Len(logqueues) /\ idx[w] # Len(logqueues) + 1
      BY <1>4, <1>9, <3>1
    <3> QED BY <1>4, <1>14, <3>1, <3>2
  <2>4. \A w \in Workers : Reporting(w)' <=> Reporting(w)
    BY <1>6 DEF Reporting
  <2>5. ASSUME NEW w \in Workers, Reporting(w)
        PROVE  /\ \A v \in Workers : Reporting(v) /\ idx[v] = idx[w] => v = w
               /\ logqueues'[idx[w]].state \in {"WAIT", "RUN"}
               /\ pc[w] \in {"logRun", "setRun"} => logqueues'[idx[w]].state = "WAIT"
    BY <2>3, <2>5 DEF LogInv, StateInv
  <2> QED BY <1>6, <2>1, <2>2, <2>3, <2>4, <2>5 DEF StateInv
<1>12. SoundInv'
  <2>1. s = "ERR" => arg[t] \notin Range(accepted) \cup fresh
    BY <1>2 DEF LogInv, SoundInv
  <2>2. \A i \in DOMAIN logqueues' :
          \/ i \in DOMAIN logqueues /\ logqueues'[i] = logqueues[i]
          \/ logqueues'[i].state = s /\ logqueues'[i].task = arg[t]
    BY <1>4, <1>5
  <2>3. LogIsSound'
    BY <1>6, <2>1, <2>2 DEF LogInv, SoundInv, LogIsSound
  <2>4. \A i \in DOMAIN logqueues' : logqueues'[i].state = "ERR" => logqueues'[i].task \notin fresh
    BY <2>1, <2>2 DEF LogInv, SoundInv
  <2> QED BY <1>6, <2>3, <2>4 DEF LogInv, SoundInv
<1>13. Forward
  <2>1. \A i \in DOMAIN logqueues : logqueues[i].state \in {"WAIT", "RUN", "FINISH", "ERR"}
    BY RowType
  <2> QED BY <1>4, <2>1 DEF Forward, Progress
<1> QED BY <1>10, <1>11, <1>12, <1>13 DEF LogInv

\* updateQueue writes the worker's own row, RUN before FINISH.
LEMMA UpdateQueueLogInv ==
  ASSUME IInv, DrainInv, LogInv, NEW w \in Workers, UpdateQueue(w)
  PROVE  LogInv' /\ Forward
<1> USE DEF IInv, TypeOK
<1>1. PICK s \in {"RUN", "FINISH"} :
        /\ SetRow(w, s)
        /\ s = "RUN" => pc[w] = "setRun" /\ pc' = [pc EXCEPT ![w] = "task"]
        /\ s = "FINISH" => pc[w] = "setFin" /\ pc' = [pc EXCEPT ![w] = "lock"]
  BY DEF UpdateQueue, Goto
<1>2. /\ Len(logqueues') = Len(logqueues) /\ logqueues' \in Seq(Row)
      /\ \A j \in 1..Len(logqueues) :
           /\ logqueues'[j].task = logqueues[j].task
           /\ logqueues'[j] = logqueues[j] \/ (j = idx[w] /\ logqueues'[j].state = s)
  BY <1>1, RowUpdate
<1>3. DOMAIN logqueues = 1..Len(logqueues) /\ DOMAIN logqueues' = 1..Len(logqueues) /\ Len(logqueues) \in Nat
  BY <1>2, LenProperties
<1>4. UNCHANGED <<deque_, deque_index_, func, idx, call, arg, fresh, accepted, taken, done>>
  BY DEF UpdateQueue, queueVars, history
<1>5. /\ \A i \in DOMAIN deque_index_ : deque_index_[i] \in 1..Len(logqueues)
      /\ \A v \in Workers : idx[v] # 0 => idx[v] \in 1..Len(logqueues)
  BY <1>3, LenProperties, ElementOfSeq
<1>6. Reporting(w) /\ idx[w] \in 1..Len(logqueues)
  BY <1>1, <1>5 DEF LogInv, StateInv, Reporting
<1>7. RowInv'
  BY <1>2, <1>4, <1>5 DEF LogInv, RowInv
<1>8. StateInv'
  <2>1. \A i \in DOMAIN deque_index_ : logqueues'[deque_index_[i]] = logqueues[deque_index_[i]]
    BY <1>2, <1>5, <1>6 DEF LogInv, StateInv
  <2>2. ASSUME NEW v \in Workers, v # w, Reporting(v)
        PROVE  logqueues'[idx[v]] = logqueues[idx[v]] /\ pc'[v] = pc[v]
    BY <1>1, <1>2, <1>5, <1>6, <2>2 DEF LogInv, StateInv
  <2>3. Reporting(w)' => s = "RUN" /\ pc'[w] = "task"
    BY <1>1 DEF Reporting
  <2>4. s = "RUN" => logqueues'[idx[w]].state \in {"WAIT", "RUN"}
    BY <1>2, <1>6 DEF LogInv, StateInv
  <2>5. \A v \in Workers : v # w => (Reporting(v)' <=> Reporting(v))
    BY <1>1 DEF Reporting
  <2>6. /\ \A i, j \in DOMAIN deque_index_ : deque_index_[i] = deque_index_[j] => i = j
        /\ \A i \in DOMAIN deque_index_ : logqueues'[deque_index_[i]].state = "WAIT"
    BY <2>1 DEF LogInv, StateInv
  <2>7. ASSUME NEW v \in Workers, Reporting(v)'
        PROVE  /\ idx[v] # 0
               /\ \A i \in DOMAIN deque_index_ : deque_index_[i] # idx[v]
               /\ \A u \in Workers : Reporting(u)' /\ idx[u] = idx[v] => u = v
               /\ logqueues'[idx[v]].state \in {"WAIT", "RUN"}
               /\ pc'[v] \in {"logRun", "setRun"} => logqueues'[idx[v]].state = "WAIT"
    <3>1. \A u \in Workers : Reporting(u)' => Reporting(u)
      BY <1>6, <2>5
    <3>2. /\ idx[v] # 0 /\ \A i \in DOMAIN deque_index_ : deque_index_[i] # idx[v]
          /\ \A u \in Workers : Reporting(u)' /\ idx[u] = idx[v] => u = v
      BY <2>7, <3>1 DEF LogInv, StateInv
    <3>3. CASE v = w
      BY <2>3, <2>4, <2>7, <3>2, <3>3
    <3>4. CASE v # w
      BY <2>2, <2>7, <3>1, <3>2, <3>4 DEF LogInv, StateInv
    <3> QED BY <3>3, <3>4
  <2> QED BY <1>4, <2>6, <2>7 DEF StateInv
<1>9. SoundInv'
  <2>1. s = "RUN" => func[w] \in Range(taken)
    BY <1>1 DEF DrainInv, InHand
  <2>2. s = "FINISH" => func[w] \in done
    BY <1>1 DEF LogInv, SoundInv
  <2>3. logqueues[idx[w]].task = func[w]
    BY <1>6 DEF LogInv, RowInv
  <2>4. LogIsSound'
    BY <1>2, <1>3, <1>4, <2>1, <2>2, <2>3 DEF LogInv, SoundInv, LogIsSound
  <2>5. \A v \in Workers : pc'[v] \in {"logFin", "setFin"} => pc[v] = pc'[v]
    BY <1>1
  <2> QED BY <1>2, <1>3, <1>4, <2>4, <2>5 DEF LogInv, SoundInv
<1>10. Forward
  <2>1. \A i \in DOMAIN logqueues : logqueues[i].state \in {"WAIT", "RUN", "FINISH", "ERR"}
    BY RowType
  <2>2. /\ s = "RUN" => logqueues[idx[w]].state = "WAIT"
        /\ logqueues[idx[w]].state \in {"WAIT", "RUN"}
    BY <1>1, <1>6 DEF LogInv, StateInv
  <2> SUFFICES ASSUME NEW i \in DOMAIN logqueues
               PROVE  /\ i \in DOMAIN logqueues'
                      /\ logqueues'[i].task = logqueues[i].task
                      /\ Progress[logqueues[i].state] <= Progress[logqueues'[i].state]
                      /\ (logqueues[i].state = "ERR") <=> (logqueues'[i].state = "ERR")
    BY DEF Forward
  <2>3. CASE logqueues'[i] = logqueues[i]
    BY <1>3, <2>1, <2>3 DEF Progress
  <2>4. CASE i = idx[w] /\ logqueues'[i].state = s
    BY <1>2, <1>3, <2>2, <2>4 DEF Progress
  <2> QED BY <1>2, <1>3, <2>3, <2>4
<1> QED BY <1>7, <1>8, <1>9, <1>10 DEF LogInv

\* The other steps leave the rows, the indices and the tasks alone.
LEMMA OthersLogInv ==
  ASSUME IInv, LogInv, UNCHANGED <<queueVars, func, idx, arg, logqueues, fresh, accepted, taken>>,
         \A t \in Threads : call'[t] \in {"wait", "waitGrow"} => call[t] \in {"wait", "waitGrow"},
         \A t \in Threads : call'[t] \in {"err", "errGrow"} => call[t] \in {"err", "errGrow"},
         \A w \in Workers : Reporting(w)' => Reporting(w),
         \A w \in Workers : pc'[w] \in {"logRun", "setRun"} => pc[w] \in {"logRun", "setRun"},
         done \subseteq done',
         \A w \in Workers : pc'[w] \in {"logFin", "setFin"} =>
                              pc[w] \in {"logFin", "setFin"} \/ func[w] \in done'
  PROVE  LogInv' /\ Forward
<1>1. RowInv'
  BY DEF LogInv, RowInv, queueVars
<1>2. StateInv'
  BY DEF LogInv, StateInv, queueVars
<1>3. SoundInv'
  BY DEF LogInv, SoundInv, LogIsSound
<1> QED BY <1>1, <1>2, <1>3, NothingGoesBack DEF LogInv

\* Every step preserves the invariant and takes no row back.
LEMMA NextLogInv ==
  ASSUME IInv, LifeInv, DrainInv, LogInv, [Next]_vars
  PROVE  LogInv' /\ Forward
<1> USE DEF vars, queueVars, workVars, logVars, history
<1>0. pc \in [Workers -> Labels] /\ call \in [Threads -> Calls]
  BY DEF IInv, TypeOK
<1>1. ASSUME NEW w \in Workers, Take(w) PROVE LogInv' /\ Forward
  <2>1. UNCHANGED logqueues
    BY <1>1 DEF Take
  <2> QED BY <1>1, <2>1, TakeLogInv, NothingGoesBack
<1>2. ASSUME NEW t \in Threads, NEW task \in fresh, Add(t, task) PROVE LogInv' /\ Forward
  <2>1. UNCHANGED logqueues
    BY <1>2 DEF Add
  <2> QED BY <1>2, <2>1, AddLogInv, NothingGoesBack
<1>3. ASSUME NEW t \in Threads, AddQueueEnd(t) PROVE LogInv' /\ Forward
  BY <1>3, AddQueueEndLogInv
<1>4. ASSUME NEW w \in Workers, UpdateQueue(w) PROVE LogInv' /\ Forward
  BY <1>4, UpdateQueueLogInv
<1>5. ASSUME NEW t \in Threads, AddQueueBegin(t) \/ AddNotify(t) PROVE LogInv' /\ Forward
  BY <1>0, <1>5, OthersLogInv DEF AddQueueBegin, AddNotify, Reporting
<1>6. ASSUME NEW w \in Workers, TaskReturns(w) PROVE LogInv' /\ Forward
  BY <1>0, <1>6, OthersLogInv DEF TaskReturns, Goto, Reporting
<1>7. ASSUME NEW w \in Workers, CheckRow(w) PROVE LogInv' /\ Forward
  BY <1>0, <1>7, OthersLogInv DEF CheckRow, Goto, Reporting
<1>8. ASSUME NEW w \in Workers, NothingToDo(w) \/ Wait(w) \/ Exit(w) \/ SpawnThread(w)
      PROVE  LogInv' /\ Forward
  BY <1>0, <1>8, OthersLogInv DEF NothingToDo, MayLock, Wait, Exit, SpawnThread, Goto, Reporting
<1>9. CASE UNCHANGED <<queueVars, workVars, call, arg, logqueues, history>>
  BY <1>9, OthersLogInv DEF Reporting
<1> QED
  BY <1>1, <1>2, <1>3, <1>4, <1>5, <1>6, <1>7, <1>8, <1>9
     DEF Next, MainTask, AddReturns, OwnerStep, Destroyed, AddThread, SpuriousWakeup,
         Constructed, DestroyBegin, DestroyNotify, DestroyJoin

\* An empty log.
LEMMA InitLogInv == Init => LogInv
<1> SUFFICES ASSUME Init PROVE LogInv
  OBVIOUS
<1>1. RowInv /\ StateInv
  BY DEF Init, RowInv, StateInv, Reporting
<1>2. Range(accepted) = {} /\ DOMAIN logqueues = {}
  BY DEF Init, Range
<1>3. SoundInv
  BY <1>2 DEF Init, SoundInv, LogIsSound
<1> QED BY <1>1, <1>3 DEF LogInv

\* Every reachable state satisfies the invariant.
THEOREM LogInvariant == Spec => []LogInv
BY InitLogInv, NextLogInv, Invariant, Lifecycle, TakenIsInHandOrDone, PTL DEF Spec

\* A worker always reports on the row of the task it took, and the two queues run in step.
THEOREM ReportsOnItsTask == Spec => []RowOfTask
<1>1. IInv /\ LogInv => RowOfTask
  BY DEF IInv, IndexInStep, LogInv, RowInv, RowOfTask
<1> QED BY <1>1, Invariant, LogInvariant, PTL

\* The log never runs ahead of the pool.
THEOREM LogNeverAhead == Spec => []LogIsSound
<1>1. LogInv => LogIsSound
  BY DEF LogInv, SoundInv
<1> QED BY <1>1, LogInvariant, PTL

\* No row is removed, re-assigned or taken back.
THEOREM LogGoesForward == Spec => RowsGoForward
<1>1. IInv /\ LifeInv /\ DrainInv /\ LogInv /\ [Next]_vars => [Forward]_vars
  BY NextLogInv
<1>2. [Forward]_vars <=>
        [\A i \in DOMAIN logqueues :
           /\ i \in DOMAIN logqueues'
           /\ logqueues'[i].task = logqueues[i].task
           /\ Progress[logqueues[i].state] <= Progress[logqueues'[i].state]
           /\ (logqueues[i].state = "ERR") <=> (logqueues'[i].state = "ERR")]_vars
  BY DEF Forward
<1> QED
  BY <1>1, <1>2, Invariant, Lifecycle, TakenIsInHandOrDone, LogInvariant, PTL DEF Spec, RowsGoForward

-----------------------------------------------------------------------------
(* A pool with at least one worker implements TaskPool: every step of it is one of TaskPool's *)
(* or none. *)

\* A worker has a task in hand between Take and TaskReturns.
Busy(w) == pc[w] \in {"logRun", "setRun", "task"}

\* A task is in one place at most: not yet added, queued once, or in the hands of one worker.
OnePlaceInv ==
    /\ \A i, j \in DOMAIN deque_ : deque_[i] = deque_[j] => i = j
    /\ \A i \in DOMAIN deque_ : deque_[i] \notin fresh
    /\ \A w \in Workers : Busy(w) =>
         /\ func[w] \notin fresh
         /\ \A i \in DOMAIN deque_ : deque_[i] # func[w]
         /\ \A v \in Workers : Busy(v) /\ func[v] = func[w] => v = w

-----------------------------------------------------------------------------

\* add puts a task that was in no queue at the end of this one.
LEMMA AddOnePlace ==
  ASSUME IInv, OnePlaceInv, NEW t \in Threads, NEW task \in fresh, Add(t, task)
  PROVE  OnePlaceInv'
<1> USE DEF OnePlaceInv, Busy
<1>1. fresh' = fresh \ {task} /\ UNCHANGED <<pc, func>>
  BY DEF Add, workVars
<1>2. CASE QueueFull
  BY <1>1, <1>2 DEF Add
<1>3. CASE ~QueueFull
  <2>1. deque_' = Append(deque_, task) /\ deque_ \in Seq(Tasks) /\ task \in Tasks
    BY <1>3 DEF Add, IInv, TypeOK
  <2>2. /\ Len(deque_) \in Nat /\ DOMAIN deque_ = 1..Len(deque_)
        /\ DOMAIN deque_' = 1..(Len(deque_) + 1)
        /\ \A i \in 1..Len(deque_) : deque_'[i] = deque_[i]
        /\ deque_'[Len(deque_) + 1] = task
    BY <2>1, AppendProperties, LenProperties
  <2>3. \A i \in DOMAIN deque_' :
          \/ i \in DOMAIN deque_ /\ deque_'[i] = deque_[i]
          \/ i = Len(deque_) + 1 /\ deque_'[i] = task
    BY <2>2
  <2> QED BY <1>1, <2>3
<1> QED BY <1>2, <1>3

\* A worker takes the head out of the queue into its hands.
LEMMA TakeOnePlace ==
  ASSUME IInv, OnePlaceInv, NEW w \in Workers, Take(w)
  PROVE  /\ OnePlaceInv'
         /\ InHand' = InHand \cup {Head(deque_)}
<1> USE DEF OnePlaceInv
<1>1. deque_ \in Seq(Tasks) /\ deque_ # <<>> /\ deque_' = Tail(deque_)
  BY DEF Take, QueueEmpty, Get, IInv, TypeOK
<1>2. /\ Len(deque_) \in Nat \ {0} /\ DOMAIN deque_ = 1..Len(deque_)
      /\ DOMAIN deque_' = 1..(Len(deque_) - 1)
      /\ \A i \in 1..(Len(deque_) - 1) : deque_'[i] = deque_[i + 1]
      /\ Head(deque_) = deque_[1]
  BY <1>1, HeadTailProperties, LenProperties, EmptySeq
<1>3. 1 \in DOMAIN deque_
  BY <1>2
<1>4. \A i \in DOMAIN deque_' :
        i + 1 \in DOMAIN deque_ /\ i + 1 # 1 /\ deque_'[i] = deque_[i + 1]
  BY <1>2
<1>5. /\ pc' = [pc EXCEPT ![w] = "logRun"] /\ func' = [func EXCEPT ![w] = deque_[1]]
      /\ pc \in [Workers -> Labels] /\ func \in [Workers -> Tasks \cup {NoTask}]
      /\ ~Busy(w) /\ fresh' = fresh
  BY <1>2 DEF Take, MayLock, Get, Goto, IInv, TypeOK, Busy
<1>6. \A i, j \in DOMAIN deque_' : deque_'[i] = deque_'[j] => i = j
  BY <1>2, <1>4
<1>7. \A i \in DOMAIN deque_' : deque_'[i] \notin fresh /\ deque_'[i] # deque_[1]
  BY <1>3, <1>4
<1>8. \A v \in Workers : v # w => (Busy(v)' <=> Busy(v)) /\ func'[v] = func[v]
  BY <1>5 DEF Busy
<1>9. \A v \in Workers : Busy(v) => func[v] # deque_[1]
  BY <1>3
<1>10. Busy(w)' /\ func'[w] = deque_[1] /\ deque_[1] \notin fresh
  BY <1>3, <1>5 DEF Busy
<1>11. OnePlaceInv'
  BY <1>4, <1>5, <1>6, <1>7, <1>8, <1>9, <1>10
<1>12. InHand' = InHand \cup {Head(deque_)}
  BY <1>2, <1>5, <1>8, <1>10 DEF InHand, Busy
<1> QED BY <1>11, <1>12

\* Every reachable state has each task in one place.
THEOREM OnePlace == Spec => []OnePlaceInv
<1>1. Init => OnePlaceInv
  BY DEF Init, OnePlaceInv, Busy
<1>2. IInv /\ OnePlaceInv /\ [Next]_vars => OnePlaceInv'
  <2> SUFFICES ASSUME IInv, OnePlaceInv, [Next]_vars PROVE OnePlaceInv'
    OBVIOUS
  <2> USE DEF vars, queueVars, workVars, logVars, history
  <2>1. ASSUME NEW w \in Workers, Take(w) PROVE OnePlaceInv'
    BY <2>1, TakeOnePlace
  <2>2. ASSUME NEW t \in Threads, NEW task \in fresh, Add(t, task) PROVE OnePlaceInv'
    BY <2>2, AddOnePlace
  <2>3. ASSUME UNCHANGED <<deque_, func, fresh>>,
               \A w \in Workers : Busy(w)' => Busy(w)
        PROVE  OnePlaceInv'
    BY <2>3 DEF OnePlaceInv
  <2>4. ASSUME NEW w \in Workers,
               \/ SpawnThread(w) \/ NothingToDo(w) \/ Wait(w) \/ CheckRow(w)
               \/ UpdateQueue(w) \/ TaskReturns(w) \/ Exit(w)
        PROVE  OnePlaceInv'
    <3>1. pc \in [Workers -> Labels]
      BY DEF IInv, TypeOK
    <3>2. UNCHANGED <<deque_, func, fresh>>
      BY <2>4 DEF SpawnThread, NothingToDo, Wait, CheckRow, UpdateQueue, TaskReturns, Exit
    <3>3. \A v \in Workers : Busy(v)' => Busy(v)
      BY <2>4, <3>1 DEF SpawnThread, NothingToDo, MayLock, Wait, CheckRow, UpdateQueue,
                        TaskReturns, Exit, Goto, Busy
    <3> QED BY <2>3, <3>2, <3>3
  <2>5. CASE UNCHANGED <<deque_, func, fresh, pc>>
    BY <2>3, <2>5 DEF Busy
  <2> QED BY <2>1, <2>2, <2>4, <2>5
          DEF Next, MainTask, AddReturns, OwnerStep, Destroyed, AddThread, SpuriousWakeup,
              AddQueueBegin, AddQueueEnd, AddNotify, Constructed, DestroyBegin, DestroyNotify,
              DestroyJoin
<1> QED BY Invariant, <1>1, <1>2, PTL DEF Spec

-----------------------------------------------------------------------------

\* Every step of the pool is a step of TaskPool or none.
LEMMA NextRefines ==
  ASSUME Workers # {}, IInv, LifeInv, DrainInv, OnePlaceInv, [Next]_vars
  PROVE  [Abstract!Next]_Abstract!vars
<1> DEFINE Phase == CASE life \in {"ctor", "alive"}  -> "open"
                      [] life \in {"notify", "join"} -> "closing"
                      [] life = "destroyed"          -> "closed"
<1> USE DEF queueVars, workVars, logVars, history
<1>1. pc \in [Workers -> Labels] /\ life \in {"ctor", "alive", "notify", "join", "destroyed"}
  BY DEF IInv, TypeOK
<1>2. ASSUME UNCHANGED <<Phase, deque_, InHand, done>> PROVE UNCHANGED Abstract!vars
  BY <1>2 DEF Abstract!vars, InHand
<1>3. ASSUME NEW w \in Workers, Take(w) PROVE Abstract!Next
  <2>1. InHand' = InHand \cup {Head(deque_)}
    BY <1>3, TakeOnePlace
  <2>2. deque_ # <<>> /\ deque_' = Tail(deque_) /\ UNCHANGED <<life, done>>
    BY <1>3 DEF Take, QueueEmpty, Get
  <2>3. Abstract!Start
    BY <2>1, <2>2 DEF Abstract!Start, InHand
  <2> QED BY <2>3 DEF Abstract!Next
<1>4. ASSUME NEW w \in Workers, TaskReturns(w) PROVE Abstract!Next
  <2>1. /\ Busy(w) /\ pc' = [pc EXCEPT ![w] = "logFin"] /\ func' = func
        /\ done' = done \cup {func[w]} /\ UNCHANGED <<life, deque_>>
    BY <1>4 DEF TaskReturns, Goto, Busy
  <2>2. func[w] \in InHand /\ func[w] \in Tasks
    BY <2>1 DEF InHand, Busy, IInv, HasTask
  <2>3. InHand' = InHand \ {func[w]}
    BY <1>1, <2>1 DEF InHand, Busy, OnePlaceInv
  <2>4. PICK task \in Tasks : task = func[w]
    BY <2>2
  <2>5. Abstract!Finish(task)
    BY <2>1, <2>2, <2>3, <2>4 DEF Abstract!Finish, InHand
  <2> QED BY <2>5 DEF Abstract!Next
<1>5. ASSUME NEW t \in Threads, NEW task \in fresh, Add(t, task)
      PROVE  [Abstract!Next]_Abstract!vars
  <2>1. InHand' = InHand /\ UNCHANGED <<life, done>>
    BY <1>5 DEF Add, InHand
  <2>2. CASE QueueFull
    BY <1>2, <1>5, <2>1, <2>2 DEF Add
  <2>3. CASE ~QueueFull
    <3>1. deque_' = Append(deque_, task) /\ Len(deque_) < QueueSize /\ task \in Tasks
      BY <1>5, <2>3, PoolAssumption, LenProperties DEF Add, QueueFull, IInv, TypeOK
    <3>2. life = "alive" \/ InHand # {}
      BY <1>5, PoolAssumption DEF Add, MayAdd, Threads, InHand
    <3>3. Abstract!Submit(task)
      BY <2>1, <3>1, <3>2 DEF Abstract!Submit, InHand
    <3> QED BY <3>1, <3>3 DEF Abstract!Next
  <2> QED BY <2>2, <2>3
<1>6. ASSUME DestroyBegin PROVE Abstract!Next
  BY <1>6 DEF DestroyBegin, Abstract!Next, Abstract!Close
<1>7. ASSUME DestroyJoin PROVE Abstract!Next
  <2>1. deque_ = <<>> /\ InHand = {}
    BY <1>7 DEF DestroyJoin, DrainInv, InHand
  <2>2. Abstract!Closed
    BY <1>7, <2>1 DEF DestroyJoin, Abstract!Closed, InHand
  <2> QED BY <2>2 DEF Abstract!Next
<1>8. ASSUME Constructed \/ DestroyNotify PROVE UNCHANGED Abstract!vars
  BY <1>2, <1>8 DEF Constructed, DestroyNotify, InHand
<1>9. ASSUME NEW w \in Workers,
             SpawnThread(w) \/ NothingToDo(w) \/ Wait(w) \/ CheckRow(w) \/ UpdateQueue(w) \/ Exit(w)
      PROVE  UNCHANGED Abstract!vars
  <2>1. InHand' = InHand
    BY <1>1, <1>9 DEF SpawnThread, NothingToDo, MayLock, Wait, CheckRow, UpdateQueue, Exit, Goto, InHand
  <2>2. UNCHANGED <<life, deque_, done>>
    BY <1>9 DEF SpawnThread, NothingToDo, Wait, CheckRow, UpdateQueue, Exit
  <2> QED BY <1>2, <2>1, <2>2
<1>10. CASE UNCHANGED <<life, deque_, pc, func, done>>
  BY <1>2, <1>10 DEF InHand
<1> QED
  BY <1>3, <1>4, <1>5, <1>6, <1>7, <1>8, <1>9, <1>10
     DEF Next, vars, MainTask, AddReturns, OwnerStep, Destroyed, AddThread, SpuriousWakeup,
         AddQueueBegin, AddQueueEnd, AddNotify

\* A pool with at least one worker is a TaskPool to its user: bounded first-in first-out
\* submission, each task started and finished once, and a destructor that waits for them all.
THEOREM PoolIsTaskPool == Workers # {} => (Spec => Abstract!SafeSpec)
<1>1. Init => Abstract!Init
  BY DEF Init, Abstract!Init
<1>2. Workers # {} /\ IInv /\ LifeInv /\ DrainInv /\ OnePlaceInv /\ [Next]_vars
        => [Abstract!Next]_Abstract!vars
  BY NextRefines
<1>3. SUFFICES ASSUME Workers # {} PROVE Spec => Abstract!SafeSpec
  OBVIOUS
<1>4. IInv /\ LifeInv /\ DrainInv /\ OnePlaceInv /\ [Next]_vars => [Abstract!Next]_Abstract!vars
  BY <1>2, <1>3
<1> QED
  BY <1>1, <1>4, Invariant, Lifecycle, TakenIsInHandOrDone, OnePlace, PTL DEF Spec, Abstract!SafeSpec
=============================================================================
