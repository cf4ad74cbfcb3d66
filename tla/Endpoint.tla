------------------------------ MODULE Endpoint ------------------------------
(***************************************************************************)
(* What class Server and class Client share, line for line: start and end, *)
(* the thread th_ that runs task(), and the receiver its callback reports  *)
(* to.  task() itself is in SocketServer and SocketClient.                 *)
(*                                                                         *)
(* One thread, the owner, calls start and end.  mtx_ is held between two   *)
(* steps by a callback in progress only, the one on receiver `called'.     *)
(***************************************************************************)
CONSTANTS
    Recievers,    \* receivers the owner hands to start
    NoReciever    \* nullptr

ASSUME RecieverAssumption == NoReciever \notin Recievers

VARIABLES
    owner,        \* "idle", or where end() is: it wants the "lock", will "stop" or "join" th_
    task,         \* where th_ is in task()
    reciever_,
    isRunning_,
    called        \* the receiver whose recieveData is running

endpointVars == <<owner, task, reciever_, isRunning_, called>>

EndpointInit ==
    /\ owner = "idle"
    /\ task = "none"
    /\ reciever_ = NoReciever
    /\ isRunning_ = FALSE
    /\ called = NoReciever

Start(r) ==
    /\ owner = "idle" /\ called = NoReciever
    /\ reciever_' = r
    /\ isRunning_' = TRUE
    /\ task' = IF isRunning_ THEN task ELSE "begin"
    /\ UNCHANGED <<owner, called>>

EndCall ==
    /\ owner = "idle"
    /\ owner' = "lock"
    /\ UNCHANGED <<task, reciever_, isRunning_, called>>

\* Mutant: the receiver is cleared without mtx_.
MutEndClear ==
    /\ owner = "lock"
    /\ reciever_' = NoReciever
    /\ owner' = "stop"
    /\ UNCHANGED <<task, isRunning_, called>>

EndClear ==
    /\ owner = "lock" /\ called = NoReciever
    /\ reciever_' = NoReciever
    /\ owner' = "stop"
    /\ UNCHANGED <<task, isRunning_, called>>

\* Mutant: end returns without join.
MutEndStop ==
    /\ owner = "stop"
    /\ isRunning_' = FALSE
    /\ owner' = "idle"
    /\ UNCHANGED <<task, reciever_, called>>

\* isRunning_ is read and cleared without a lock; a stopped endpoint has nothing to join.
EndStop ==
    /\ owner = "stop"
    /\ isRunning_' = FALSE
    /\ owner' = IF isRunning_ THEN "join" ELSE "idle"
    /\ UNCHANGED <<task, reciever_, called>>

EndJoin ==
    /\ owner = "join" /\ task = "exit"
    /\ task' = "none"
    /\ owner' = "idle"
    /\ UNCHANGED <<reciever_, isRunning_, called>>

EndReturns == EndClear \/ EndStop \/ EndJoin

OwnerStep == EndCall \/ EndReturns \/ \E r \in Recievers : Start(r)

\* The callback task() passes down: with mtx_ it calls the receiver, if there is one.
CallbackBegin(from, next) ==
    /\ task = from /\ called = NoReciever
    /\ called' = reciever_
    /\ task' = IF reciever_ = NoReciever THEN next ELSE "callback"
    /\ UNCHANGED <<owner, reciever_, isRunning_>>

CallbackEnd(next) ==
    /\ task = "callback"
    /\ called' = NoReciever
    /\ task' = next
    /\ UNCHANGED <<owner, reciever_, isRunning_>>

\* A step of task() that concerns the socket only.
TaskStep(from, next) ==
    /\ task = from
    /\ task' = next
    /\ UNCHANGED <<owner, reciever_, isRunning_, called>>

-----------------------------------------------------------------------------

\* The receiver a callback runs on is still the registered one: once end has returned, or
\* start has replaced it, the application may destroy a receiver.
CallsRegisteredReciever == called # NoReciever => called = reciever_

\* After end the thread is gone, so nothing of the endpoint runs any more.
QuietAfterEnd == owner = "idle" /\ ~isRunning_ => task = "none" /\ called = NoReciever

\* What the application sees of an endpoint: it is ending until end() returns.
Abstract == INSTANCE Reporter WITH
    stage      <- IF owner # "idle" THEN "ending" ELSE IF isRunning_ THEN "running" ELSE "stopped",
    registered <- reciever_,
    calling    <- called

\* Every behaviour of an endpoint is one of Reporter: whatever the socket, the kernel and the
\* senders do, the registered receiver is called once at a time and end() withdraws it and returns.
ImplementsReporter == Abstract!Spec

\* An end() returns, though it waits for the callback in progress and then for the thread.
EndTerminates == owner = "lock" ~> owner = "idle"
=============================================================================
