---------------------------- MODULE SocketClient ----------------------------
(***************************************************************************)
(* class Client and class ClientSocket: task() creates a socket, connects  *)
(* it, receives until the connection is cut, destroys the socket and       *)
(* begins again.                                                           *)
(***************************************************************************)
EXTENDS Endpoint, Socket

CONSTANTS
    Task,      \* th_, which sends from inside recieveData
    Apps,      \* other threads that call sendData
    Backends   \* the builds: "epoll" or "kevent" or both

ASSUME ClientAssumption ==
    /\ Senders = Apps \cup {Task}
    /\ Task \notin Apps
    /\ Backends \subseteq {"epoll", "kevent"}

VARIABLES
    link,     \* sock_'s connection: "none", "up", or "cut" by the server
    refused,  \* sock_ has been through a connect that failed
    backend   \* the build that runs, one and the same throughout

clientVars == <<link, refused, backend>>
vars == <<endpointVars, socketVars, clientVars>>

Init ==
    /\ EndpointInit /\ SocketInit
    /\ link = "none" /\ refused = FALSE
    /\ backend \in Backends

-----------------------------------------------------------------------------
(* Client::task *)

\* Mutant: the outer loop never ends.
MutOuterLoop == TaskStep("begin", "create") /\ UNCHANGED <<socketVars, clientVars>>

OuterLoop ==
    /\ TaskStep("begin", IF isRunning_ THEN "create" ELSE "exit")
    /\ UNCHANGED <<socketVars, clientVars>>

\* Mutant: do_create's result is not looked at.
MutCreate ==
    /\ \E ok \in BOOLEAN : do_create(ok) /\ TaskStep("create", "connect")
    /\ UNCHANGED clientVars

Create ==
    /\ \/ do_create(TRUE) /\ TaskStep("create", "connect")
       \/ do_create(FALSE) /\ TaskStep("create", "begin")
    /\ UNCHANGED clientVars

\* Mutant: the connected socket is not listed.
MutConnected ==
    /\ TaskStep("connect", "loop")
    /\ link' = "up"
    /\ UNCHANGED <<socketVars, refused, backend>>

Connected ==
    /\ TaskStep("connect", "loop")
    /\ link' = "up"
    /\ connectedSockets_' = connectedSockets_ \cup {sock_}
    /\ UNCHANGED <<fds, sock_, epfd_, sendVars, refused, backend>>

\* Mutant: the socket is kept for the retry in the kevent build too.
MutRefused ==
    /\ TaskStep("connect", "begin")
    /\ refused' = TRUE
    /\ UNCHANGED <<socketVars, link, backend>>

\* The kevent build discards the socket before it retries, the epoll build keeps it.
Refused ==
    /\ TaskStep("connect", IF backend = "kevent" THEN "discard" ELSE "begin")
    /\ refused' = TRUE
    /\ UNCHANGED <<socketVars, link, backend>>

Discard ==
    /\ TaskStep("discard", "begin")
    /\ do_delete
    /\ refused' = FALSE
    /\ UNCHANGED <<link, backend>>

\* The inner loop and the head of do_recieve_event: sock_ is registered with epfd_, which
\* fails when there is no epfd_, and may fail when there is.
InnerLoop ==
    /\ \/ ~isRunning_ /\ TaskStep("loop", "disconnect")
       \/ isRunning_ /\ epfd_ # NoFd /\ TaskStep("loop", "poll")
       \/ isRunning_ /\ TaskStep("loop", "loop")
    /\ UNCHANGED <<socketVars, clientVars>>

\* Mutant: a cut connection is polled again.
MutPoll ==
    /\ \/ link = "cut" /\ TaskStep("poll", "loop")
       \/ link = "up" /\ \E next \in {"loop", "recv"} : TaskStep("poll", next)
    /\ UNCHANGED <<socketVars, clientVars>>

\* epoll_wait: a cut connection is left at once, its unread data with it; otherwise data or a
\* timeout.
Poll ==
    /\ \/ link = "cut" /\ TaskStep("poll", "disconnect")
       \/ link = "up" /\ \E next \in {"loop", "recv"} : TaskStep("poll", next)
    /\ UNCHANGED <<socketVars, clientVars>>

PollFails ==
    /\ TaskStep("poll", "loop")
    /\ UNCHANGED <<socketVars, clientVars>>

\* do_recieve blocks until the message is complete, whatever isRunning_ says.  It returns 0 or an
\* error when the connection is cut first, and 0 for a message of size 0.
Recieve ==
    /\ \E next \in {"loop", "report"} : TaskStep("recv", next)
    /\ UNCHANGED <<socketVars, clientVars>>

Report == CallbackBegin("report", "loop") /\ UNCHANGED <<socketVars, clientVars>>

ReportEnd ==
    /\ sendPc[Task] = "idle"
    /\ CallbackEnd("loop")
    /\ UNCHANGED <<socketVars, clientVars>>

\* ClientSocket::do_disconnect, under no lock.
Disconnect ==
    /\ TaskStep("disconnect", "delete")
    /\ connectedSockets_' = connectedSockets_ \ {sock_}
    /\ UNCHANGED <<fds, sock_, epfd_, sendVars, clientVars>>

Delete ==
    /\ TaskStep("delete", "begin")
    /\ do_delete
    /\ link' = "none" /\ refused' = FALSE
    /\ UNCHANGED backend

\* Client::sendData reads sock_ before do_send has mtx_.
Send(a) ==
    /\ a = Task => task = "callback"
    /\ SendCall(a, sock_)
    /\ UNCHANGED <<endpointVars, clientVars>>

ServerCuts ==
    /\ link = "up"
    /\ link' = "cut"
    /\ UNCHANGED <<endpointVars, socketVars, refused, backend>>

-----------------------------------------------------------------------------

ClientTask ==
    \/ OuterLoop \/ Create \/ Connected \/ Refused \/ Discard \/ InnerLoop \/ Poll
    \/ PollFails \/ Recieve \/ Report \/ ReportEnd \/ Disconnect \/ Delete

Next ==
    \/ ClientTask
    \/ OwnerStep /\ UNCHANGED <<socketVars, clientVars>>
    \/ \E a \in Senders :
         \/ Send(a)
         \/ SendReturns(a) /\ UNCHANGED <<endpointVars, clientVars>>
    \/ OtherFile /\ UNCHANGED <<endpointVars, clientVars>>
    \/ ServerCuts

Spec == Init /\ [][Next]_vars

(***************************************************************************)
(* task(), an end() and a do_send in progress go on, and get the mutex     *)
(* they wait for however often others take it.  ::send and the rest of a   *)
(* message come, for the server reads and do_send writes a message at      *)
(* once; recieveData returns.  Creating, connecting and epoll_wait do not  *)
(* fail for ever.  Nobody has to start, send or end.                       *)
(***************************************************************************)
Fairness ==
    /\ WF_vars(ClientTask)
    /\ SF_vars(Discard \/ Delete)
    /\ SF_vars(Create /\ epfd_' # NoFd)
    /\ SF_vars(Create /\ sock_ # NoFd)
    /\ SF_vars(Connected)
    /\ SF_vars(Poll)
    /\ SF_vars(ReportEnd)
    /\ SF_vars(EndReturns /\ UNCHANGED <<socketVars, clientVars>>)
    /\ \A a \in Senders : SF_vars(SendReturns(a) /\ UNCHANGED <<endpointVars, clientVars>>)

FairSpec == Spec /\ Fairness

-----------------------------------------------------------------------------

TypeOK ==
    /\ SocketTypeOK
    /\ owner \in {"idle", "lock", "stop", "join"}
    /\ task \in {"none", "begin", "create", "connect", "discard", "loop", "poll", "recv",
                 "report", "callback", "disconnect", "delete", "exit"}
    /\ reciever_ \in Recievers \cup {NoReciever}
    /\ called \in Recievers \cup {NoReciever}
    /\ isRunning_ \in BOOLEAN
    /\ link \in {"none", "up", "cut"}
    /\ refused \in BOOLEAN
    /\ backend \in Backends

\* do_send writes to the client's own socket, never to a descriptor closed and handed out again
\* meanwhile: sock_ is read before the lock, but do_disconnect unlists it before do_delete
\* closes it, and do_delete waits for a sender that has found it listed.
WritesToOwnSocket ==
    \A a \in Senders :
      sendPc[a] = "write" => sndSock[a] = sock_ /\ fds[sock_] = "socket"

\* do_disconnect erases the socket it finds: erasing end() would be undefined.
ErasesListedSocket == task = "disconnect" => connectedSockets_ = {sock_}

\* In the kevent build no socket is connected again after a connect that failed, which the BSD
\* kernels refuse.
ConnectsFreshSocket == backend = "kevent" /\ task = "connect" => ~refused

\* A client whose connection was cut connects again, unless it is ended.
Reconnects == link = "cut" /\ task = "poll" ~> (link = "up" \/ ~isRunning_)

\* After a creation that failed the task retries until it can receive, unless it is ended: the
\* comment "retry" (リトライ) at do_create's call in Client::task.
RetryRecovers == task = "begin" ~> (task = "poll" \/ ~isRunning_)
=============================================================================
