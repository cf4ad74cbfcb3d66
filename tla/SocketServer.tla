---------------------------- MODULE SocketServer ----------------------------
(***************************************************************************)
(* class Server and class ServerSocket: task() creates a socket, binds it  *)
(* and listens, then handles batches of events, one after the other, until *)
(* it is ended.                                                            *)
(***************************************************************************)
EXTENDS Endpoint, Socket

CONSTANTS
    Task,      \* th_, which sends from inside recieveData
    Apps,      \* other threads that call sendData
    NoPeer,
    Backends   \* the builds: "epoll" or "kevent" or both

ASSUME ServerAssumption ==
    /\ Senders = Apps \cup {Task}
    /\ Task \notin Apps
    /\ NoPeer \notin Peers \cup File
    /\ Backends \subseteq {"epoll", "kevent"}

VARIABLES
    listener,   \* the kernel's view of sock_: "new", "bound" or "listening"
    peer,       \* each peer: "away", "queued" for accept, "up", or "cut" its connection
    watched,    \* the accepted sockets registered with epfd_
    events,     \* what is left of the batch epoll_wait returned
    client,     \* the event whose socket is being received from, reported or hung up
    backend     \* the build that runs, one and the same throughout

serverVars == <<listener, peer, watched, events, client, backend>>
vars == <<endpointVars, socketVars, serverVars>>

\* An event of the batch; the peer is history, what the descriptor stood for when it was reported.
Event == [fd : Fds, flag : {"ACCEPT", "IN", "RDHUP"}, peer : Peers \cup {NoPeer}]

NoClient == [fd |-> NoFd, flag |-> "IN", peer |-> NoPeer]

Init ==
    /\ EndpointInit /\ SocketInit
    /\ listener = "new"
    /\ peer = [p \in Peers |-> "away"]
    /\ watched = {} /\ events = {} /\ client = NoClient
    /\ backend \in Backends

-----------------------------------------------------------------------------
(* Server::task up to its loop.  A failure returns at once, with isRunning_ and sock_ as they are. *)

Create ==
    /\ \/ do_create(TRUE) /\ TaskStep("begin", "bind")
       \/ do_create(FALSE) /\ TaskStep("begin", "exit")
    /\ UNCHANGED serverVars

\* do_bind_listen; a socket that is bound cannot be bound again.
Bind ==
    /\ \/ listener = "new" /\ listener' = "bound" /\ TaskStep("bind", "listen")
       \/ UNCHANGED listener /\ TaskStep("bind", "exit")
    /\ UNCHANGED <<socketVars, peer, watched, events, client, backend>>

Listen ==
    /\ \/ listener' = "listening" /\ TaskStep("listen", "loop")
       \/ UNCHANGED listener /\ TaskStep("listen", "exit")
    /\ UNCHANGED <<socketVars, peer, watched, events, client, backend>>

-----------------------------------------------------------------------------
(* ServerSocket::do_recieve_event *)

Loop ==
    /\ \/ ~isRunning_ /\ TaskStep("loop", "close")
       \/ isRunning_ /\ epfd_ # NoFd /\ TaskStep("loop", "wait")
       \/ isRunning_ /\ TaskStep("loop", "loop")
    /\ UNCHANGED <<socketVars, serverVars>>

\* What is certainly ready: a cut connection, and the listener when a peer is queued.
Ready ==
    {[fd |-> f, flag |-> "RDHUP", peer |-> fds[f]] :
        f \in {g \in watched : fds[g] \in Peers /\ peer[fds[g]] = "cut"}}
    \cup {[fd |-> sock_, flag |-> "ACCEPT", peer |-> NoPeer] : p \in {q \in Peers : peer[q] = "queued"}}

\* A connection that is up has data or has none.
MaybeReady ==
    {[fd |-> f, flag |-> "IN", peer |-> fds[f]] :
        f \in {g \in watched : fds[g] \in Peers /\ peer[fds[g]] = "up"}}

\* epoll_wait: a batch of at most MAX_EVENTS descriptors, each once; none after a timeout or an
\* error, which task() does not look at.
Wait ==
    /\ TaskStep("wait", "dispatch")
    /\ \E some \in SUBSET MaybeReady : events' = Ready \cup some
    /\ UNCHANGED <<socketVars, listener, peer, watched, client, backend>>

WaitFails ==
    /\ TaskStep("wait", "loop")
    /\ UNCHANGED <<socketVars, serverVars>>

BatchDone ==
    /\ events = {}
    /\ TaskStep("dispatch", "loop")
    /\ UNCHANGED <<socketVars, serverVars>>

\* do_accept for a queued peer: the connection is registered and listed.
Accept(e) ==
    /\ TaskStep("dispatch", "dispatch")
    /\ e.flag = "ACCEPT" /\ events' = events \ {e}
    /\ \E p \in Peers, f \in Free :
         /\ peer[p] = "queued"
         /\ peer' = [peer EXCEPT ![p] = "up"]
         /\ fds' = [fds EXCEPT ![f] = p]
         /\ watched' = watched \cup {f}
         /\ connectedSockets_' = connectedSockets_ \cup {f}
    /\ UNCHANGED <<sock_, epfd_, sendVars, listener, client, backend>>

\* Mutant: the epoll build forgets the socket too.
MutAcceptUnwatched(e) ==
    /\ TaskStep("dispatch", "dispatch")
    /\ e.flag = "ACCEPT" /\ events' = events \ {e}
    /\ \E p \in Peers, f \in Free :
         /\ peer[p] = "queued"
         /\ peer' = [peer EXCEPT ![p] = "up"]
         /\ fds' = [fds EXCEPT ![f] = p]
    /\ UNCHANGED <<sock_, epfd_, connectedSockets_, sendVars, listener, watched, client, backend>>

\* do_accept when the registration fails: the epoll build closes the connection, the kevent
\* build returns and forgets it.
AcceptUnwatched(e) ==
    /\ TaskStep("dispatch", "dispatch")
    /\ e.flag = "ACCEPT" /\ events' = events \ {e}
    /\ \E p \in Peers, f \in Free :
         /\ peer[p] = "queued"
         /\ peer' = [peer EXCEPT ![p] = IF backend = "epoll" THEN "away" ELSE "up"]
         /\ fds' = [fds EXCEPT ![f] = IF backend = "epoll" THEN "free" ELSE p]
    /\ UNCHANGED <<sock_, epfd_, connectedSockets_, sendVars, listener, watched, client, backend>>

\* accept itself fails.
AcceptFails(e) ==
    /\ TaskStep("dispatch", "dispatch")
    /\ e.flag = "ACCEPT" /\ events' = events \ {e}
    /\ UNCHANGED <<socketVars, listener, peer, watched, client, backend>>

\* Closing a descriptor takes it out of epfd_ and ends the connection it stood for.
Close(set) ==
    /\ fds' = [f \in Fds |-> IF f \in set THEN "free" ELSE fds[f]]
    /\ peer' = [p \in Peers |-> IF \E f \in set : fds[f] = p THEN "away" ELSE peer[p]]
    /\ watched' = watched \ set

\* Mutants: every connection is closed; the one that was cut is not, or is not unlisted.
MutDisconnectAll(e) ==
    /\ TaskStep("dispatch", "dispatch")
    /\ e.flag = "RDHUP" /\ events' = events \ {e}
    /\ connectedSockets_' = {}
    /\ Close(connectedSockets_)
    /\ UNCHANGED <<sock_, epfd_, sendVars, listener, client, backend>>
MutDisconnectOpen(e) ==
    /\ TaskStep("dispatch", "dispatch")
    /\ e.flag = "RDHUP" /\ events' = events \ {e}
    /\ connectedSockets_' = connectedSockets_ \ {e.fd}
    /\ UNCHANGED <<fds, sock_, epfd_, sendVars, listener, peer, watched, client, backend>>

MutDisconnect(e) ==
    /\ TaskStep("dispatch", "hangup")
    /\ e.flag = "RDHUP" /\ events' = events \ {e}
    /\ watched' = watched \ {e.fd}
    /\ client' = e
    /\ UNCHANGED <<socketVars, listener, peer, backend>>

\* do_disconnect, under no lock: the connection is unregistered and unlisted, then closed.
Disconnect(e) ==
    /\ TaskStep("dispatch", "hangup")
    /\ e.flag = "RDHUP" /\ events' = events \ {e}
    /\ watched' = watched \ {e.fd}
    /\ connectedSockets_' = connectedSockets_ \ {e.fd}
    /\ client' = e
    /\ UNCHANGED <<fds, sock_, epfd_, sendVars, listener, peer, backend>>

\* Unread data is dropped with the connection.
HangUp ==
    /\ TaskStep("hangup", "dispatch")
    /\ Close({client.fd})
    /\ client' = NoClient
    /\ UNCHANGED <<sock_, epfd_, connectedSockets_, sendVars, listener, events, backend>>

\* Mutant: the message is reported under the id of some connection.
MutRecieveBegin(e) ==
    /\ TaskStep("dispatch", "recv")
    /\ e.flag = "IN" /\ events' = events \ {e}
    /\ \E f \in connectedSockets_ : client' = [e EXCEPT !.fd = f]
    /\ UNCHANGED <<socketVars, listener, peer, watched, backend>>

RecieveBegin(e) ==
    /\ TaskStep("dispatch", "recv")
    /\ e.flag = "IN" /\ events' = events \ {e}
    /\ client' = e
    /\ UNCHANGED <<socketVars, listener, peer, watched, backend>>

HandleEvent(e) ==
    \/ Accept(e) \/ AcceptUnwatched(e) \/ AcceptFails(e)
    \/ Disconnect(e)
    \/ RecieveBegin(e)

\* do_recieve blocks until the message is complete or fails; 0 and errors are not reported.
RecieveEnd ==
    /\ \/ TaskStep("recv", "report") /\ UNCHANGED client
       \/ TaskStep("recv", "dispatch") /\ client' = NoClient
    /\ UNCHANGED <<socketVars, listener, peer, watched, events, backend>>

Report ==
    /\ CallbackBegin("report", "dispatch")
    /\ client' = IF reciever_ = NoReciever THEN NoClient ELSE client
    /\ UNCHANGED <<socketVars, listener, peer, watched, events, backend>>

ReportEnd ==
    /\ sendPc[Task] = "idle"
    /\ CallbackEnd("dispatch")
    /\ client' = NoClient
    /\ UNCHANGED <<socketVars, listener, peer, watched, events, backend>>

-----------------------------------------------------------------------------
(* do_disconnect_all, under no lock either: each connection is closed first, then erased from the
   list; in between other threads find the closed one listed. *)

\* What itr points to from close to erase.
Closed == IF task = "erase" THEN connectedSockets_ \ watched ELSE {}

CloseConnection ==
    /\ TaskStep("close", "erase")
    /\ \E f \in connectedSockets_ : Close({f})
    /\ UNCHANGED <<sock_, epfd_, connectedSockets_, sendVars, listener, events, client, backend>>

EraseConnection ==
    /\ TaskStep("erase", "close")
    /\ connectedSockets_' = connectedSockets_ \ Closed
    /\ UNCHANGED <<fds, sock_, epfd_, sendVars, serverVars>>

AllClosed ==
    /\ connectedSockets_ = {}
    /\ TaskStep("close", "delete")
    /\ UNCHANGED <<socketVars, serverVars>>

\* Closing the listener resets the peers still queued on it.
Delete ==
    /\ TaskStep("delete", "exit")
    /\ do_delete
    /\ listener' = "new"
    /\ peer' = [p \in Peers |-> IF peer[p] = "queued" THEN "away" ELSE peer[p]]
    /\ UNCHANGED <<watched, events, client, backend>>

\* An application thread sends to some id, the task to the one it was handed.
Send(a) ==
    /\ \E f \in Fds :
         /\ a = Task => task = "callback" /\ f = client.fd
         /\ SendCall(a, f)
    /\ UNCHANGED <<endpointVars, serverVars>>

PeerConnects ==
    /\ listener = "listening"
    /\ \E p \in Peers : peer[p] = "away" /\ peer' = [peer EXCEPT ![p] = "queued"]
    /\ UNCHANGED <<endpointVars, socketVars, listener, watched, events, client, backend>>

PeerCuts ==
    /\ \E p \in Peers : peer[p] = "up" /\ peer' = [peer EXCEPT ![p] = "cut"]
    /\ UNCHANGED <<endpointVars, socketVars, listener, watched, events, client, backend>>

-----------------------------------------------------------------------------

ServerTask ==
    \/ Create \/ Bind \/ Listen \/ Loop \/ Wait \/ WaitFails \/ BatchDone
    \/ \E e \in events : HandleEvent(e)
    \/ HangUp \/ RecieveEnd \/ Report \/ ReportEnd
    \/ CloseConnection \/ EraseConnection \/ AllClosed \/ Delete

Next ==
    \/ ServerTask
    \/ OwnerStep /\ UNCHANGED <<socketVars, serverVars>>
    \/ \E a \in Senders :
         \/ Send(a)
         \/ SendReturns(a) /\ UNCHANGED <<endpointVars, serverVars>>
    \/ OtherFile /\ UNCHANGED <<endpointVars, serverVars>>
    \/ PeerConnects \/ PeerCuts

Spec == Init /\ [][Next]_vars

(***************************************************************************)
(* task(), an end() and a do_send in progress go on, and get the mutex     *)
(* they wait for however often others take it; recieveData and ::send      *)
(* return, and the rest of a message comes.  epoll_wait does not fail for  *)
(* ever.                                                                   *)
(***************************************************************************)
Fairness ==
    /\ WF_vars(ServerTask)
    /\ SF_vars(Create \/ Delete)
    /\ SF_vars(Wait)
    /\ SF_vars(ReportEnd)
    /\ SF_vars(EndReturns /\ UNCHANGED <<socketVars, serverVars>>)
    /\ \A a \in Senders : SF_vars(SendReturns(a) /\ UNCHANGED <<endpointVars, serverVars>>)

FairSpec == Spec /\ Fairness

-----------------------------------------------------------------------------

TypeOK ==
    /\ SocketTypeOK
    /\ owner \in {"idle", "lock", "stop", "join"}
    /\ task \in {"none", "begin", "bind", "listen", "loop", "wait", "dispatch", "recv", "report",
                 "callback", "hangup", "close", "erase", "delete", "exit"}
    /\ reciever_ \in Recievers \cup {NoReciever}
    /\ called \in Recievers \cup {NoReciever}
    /\ isRunning_ \in BOOLEAN
    /\ listener \in {"new", "bound", "listening"}
    /\ peer \in [Peers -> {"away", "queued", "up", "cut"}]
    /\ watched \subseteq Fds
    /\ events \subseteq Event
    /\ client \in Event \cup {NoClient}
    /\ backend \in Backends

\* The rest of a batch never goes stale: whatever the events before it closed or accepted, an
\* event's descriptor is listed and still leads to the peer it was reported for.
EventsStayValid ==
    \A e \in events :
      e.flag # "ACCEPT" => e.fd \in connectedSockets_ /\ fds[e.fd] = e.peer

\* What recieveData sends to the id it was handed goes to the peer that sent the message,
\* though descriptors are handed out again and other threads send at the same time.
RepliesReachSender ==
    task = "callback" /\ sendPc[Task] = "write" =>
      sndSock[Task] \in connectedSockets_ /\ fds[sndSock[Task]] = client.peer

\* The connection do_disconnect has unlisted and is about to close.
Unlisted == IF task = "hangup" THEN {client.fd} ELSE {}

\* No descriptor is leaked by the epoll build, by accepts that fail halfway included: what is open
\* for the server is what its members name, but for the one connection do_disconnect is about to
\* close or do_disconnect_all to erase.  The kevent build forgets those it cannot register.
EpollLeaksNothing ==
    backend = "epoll" =>
      /\ {f \in Fds : fds[f] \notin {"free", "other"}} =
           ({sock_, epfd_} \cup connectedSockets_ \cup Unlisted) \ ({NoFd} \cup Closed)
      /\ \A f, g \in Closed : f = g

\* isConnected, which reads a list that changes under no lock, lets a sender through to an open
\* connection only; but when the server is ended, also to the one do_disconnect_all has closed
\* and not yet erased, whose number may be another file's by then.
ChecksOpenConnection ==
    [][\A a \in Senders :
         sendPc[a] = "want" /\ sendPc'[a] = "write" =>
           fds[sndSock[a]] \in Peers \/ (~isRunning_ /\ sndSock[a] \in Closed)]_vars

\* A connection its peer has cut is closed, unless the server is ended.
CutIsClosed ==
    \A p \in Peers : peer[p] = "cut" ~> (peer[p] = "away" \/ ~isRunning_)
=============================================================================
