------------------------- MODULE SocketServerProofs -------------------------
(***************************************************************************)
(* Proofs about SocketServer, both builds, for any number of receivers,    *)
(* descriptors, peers and sending threads.                                 *)
(***************************************************************************)
EXTENDS SocketServer, EndpointProofs, SocketProofs

\* The sockets listed are those registered with epfd_, which are connections, and the one that
\* do_disconnect_all has closed and not erased; in the epoll build there are no other connections
\* but the one do_disconnect has unlisted.  From do_create's success to do_delete there is a socket.
ListInv ==
    /\ connectedSockets_ = watched \cup Closed
    /\ \A f, g \in Closed : f = g
    /\ \A f \in Closed : fds[f] \in {"free", "other"}
    /\ \A f \in watched \cup Unlisted : f \in Fds /\ fds[f] \in Peers
    /\ Unlisted \cap connectedSockets_ = {}
    /\ backend = "epoll" => \A f \in Fds : fds[f] \in Peers => f \in watched \cup Unlisted
    /\ task \notin {"none", "begin", "exit"} => sock_ # NoFd

\* A server that closes its connections is being ended, and end() waits for the thread.
EndInv == task \in {"close", "erase", "delete"} => ~isRunning_

\* A batch is worked off before the next is fetched; a connection has one event in it at most, so
\* that handling one event never closes the connection of another.
BatchInv ==
    /\ task \notin {"dispatch", "hangup", "recv", "report", "callback"} => events = {}
    /\ EventsStayValid
    /\ \A d, e \in events :
         d.flag # "ACCEPT" /\ e.flag # "ACCEPT" /\ d.fd = e.fd => d = e

\* The connection whose message is received and reported stays, and the task sends to it only.
ClientInv ==
    /\ task \in {"recv", "report", "callback"} =>
         client.fd \in connectedSockets_ /\ fds[client.fd] = client.peer
    /\ sendPc[Task] # "idle" => task = "callback" /\ sndSock[Task] = client.fd

SInv == TypeOK /\ EndpointInv /\ NamesInv /\ ListInv /\ EndInv /\ BatchInv /\ ClientInv

-----------------------------------------------------------------------------

\* The initial state satisfies the invariant and is Reporter's.
LEMMA InitSInv == Init => SInv /\ Abstract!Init
<1> SUFFICES ASSUME Init PROVE SInv /\ Abstract!Init
  OBVIOUS
<1> USE SocketAssumption, ServerAssumption DEF Init
<1>1. EndpointType /\ EndpointInv /\ Abstract!Init
  BY EndpointStarts
<1>2. TypeOK
  BY <1>1 DEF SocketInit, EndpointInit, EndpointType, TypeOK, SocketTypeOK, File
<1>3. NamesInv /\ ListInv /\ EndInv /\ BatchInv
  BY DEF SocketInit, EndpointInit, NamesInv, ListInv, Closed, Unlisted, EndInv, BatchInv,
         EventsStayValid
<1>4. ClientInv
  BY DEF SocketInit, EndpointInit, ClientInv
<1> QED BY <1>1, <1>2, <1>3, <1>4 DEF SInv

\* Steps that move the task and leave descriptors, list, batch and client alone.
LEMMA QuietStepPreserves ==
  ASSUME SInv, NEW from, NEW next, TaskStep(from, next),
         from \in {"begin", "bind", "listen", "loop", "wait", "dispatch", "close"},
         next \in {"bind", "listen", "loop", "wait", "close", "delete", "exit"},
         next \in {"close", "delete"} => ~isRunning_,
         from = "begin" => next = "exit",
         from = "dispatch" => events = {},
         listener' \in {"new", "bound", "listening"},
         UNCHANGED <<socketVars, peer, watched, events, client, backend>>
  PROVE  TypeOK' /\ NamesInv' /\ ListInv' /\ EndInv' /\ BatchInv' /\ ClientInv'
BY DEF SInv, TaskStep, TypeOK, SocketTypeOK, socketVars, sendVars,
       NamesInv, ListInv, Closed, Unlisted, EndInv, BatchInv, EventsStayValid, ClientInv

\* epoll_wait reports each connection once: it is cut or it is up.
LEMMA WaitPreserves ==
  ASSUME SInv, Wait
  PROVE  TypeOK' /\ NamesInv' /\ ListInv' /\ EndInv' /\ BatchInv' /\ ClientInv'
<1> USE DEF SInv
<1>1. PICK some \in SUBSET MaybeReady : events' = Ready \cup some
  BY DEF Wait
<1>2. \A e \in Ready \cup MaybeReady :
        /\ e \in Event
        /\ e.flag # "ACCEPT" =>
             /\ e.fd \in connectedSockets_ /\ fds[e.fd] \in Peers /\ e.peer = fds[e.fd]
             /\ e = [fd |-> e.fd, peer |-> fds[e.fd],
                     flag |-> IF peer[fds[e.fd]] = "cut" THEN "RDHUP" ELSE "IN"]
  <2>1. ASSUME NEW f \in watched, fds[f] \in Peers
        PROVE  \A flag \in {"RDHUP", "IN"} : [fd |-> f, flag |-> flag, peer |-> fds[f]] \in Event
    BY <2>1 DEF Event, TypeOK
  <2>2. sock_ \in Fds
    BY DEF Wait, TaskStep, TypeOK, SocketTypeOK, ListInv
  <2> QED BY <2>1, <2>2 DEF Wait, TaskStep, Ready, MaybeReady, ListInv, Closed, Event
<1>3. TypeOK'
  BY <1>1, <1>2 DEF Wait, TaskStep, TypeOK, SocketTypeOK, socketVars, sendVars
<1>4. BatchInv'
  <2>1. \A e \in events' : e \in Ready \cup MaybeReady
    BY <1>1
  <2> QED
    BY <1>2, <2>1 DEF Wait, TaskStep, socketVars, BatchInv, EventsStayValid
<1>5. ListInv'
  BY DEF Wait, TaskStep, socketVars, ListInv, Closed, Unlisted
<1> QED
  BY <1>3, <1>4, <1>5 DEF Wait, TaskStep, socketVars, sendVars, TypeOK, NamesInv, EndInv, ClientInv

\* A connection that is accepted gets a free descriptor, so no event of the batch names it.
LEMMA AcceptPreserves ==
  ASSUME SInv, NEW e \in events, Accept(e)
  PROVE  TypeOK' /\ NamesInv' /\ ListInv' /\ EndInv' /\ BatchInv' /\ ClientInv'
<1>1. PICK p \in Peers : \E f \in Free :
        /\ peer' = [peer EXCEPT ![p] = "up"]
        /\ fds' = [fds EXCEPT ![f] = p]
        /\ watched' = watched \cup {f}
        /\ connectedSockets_' = connectedSockets_ \cup {f}
  BY DEF Accept
<1>2. PICK f \in Free :
        /\ peer' = [peer EXCEPT ![p] = "up"]
        /\ fds' = [fds EXCEPT ![f] = p]
        /\ watched' = watched \cup {f}
        /\ connectedSockets_' = connectedSockets_ \cup {f}
  BY <1>1
<1>3. /\ task = "dispatch" /\ task' = "dispatch" /\ events' = events \ {e}
      /\ UNCHANGED <<owner, reciever_, isRunning_, called, sock_, epfd_, sendVars, listener, client, backend>>
  BY DEF Accept, TaskStep
<1> USE SocketAssumption, ServerAssumption
    DEF SInv, TypeOK, SocketTypeOK, sendVars, File, Event,
        NamesInv, ListInv, Closed, Unlisted, EndInv, BatchInv, EventsStayValid, ClientInv
<1>4. f \in Fds /\ fds[f] = "free" /\ f \notin connectedSockets_
        /\ f # sock_ /\ f # epfd_ /\ fds' \in [Fds -> File] /\ fds'[f] = p
        /\ \A g \in Fds \ {f} : fds'[g] = fds[g]
  BY <1>2 DEF Free
<1>5. TypeOK'
  BY <1>2, <1>3, <1>4
<1>6. NamesInv' /\ ListInv' /\ EndInv'
  BY <1>2, <1>3, <1>4
<1>7. BatchInv' /\ ClientInv'
  BY <1>2, <1>3, <1>4
<1> QED BY <1>5, <1>6, <1>7

\* One that cannot be registered is closed again, or in the kevent build left unlisted.
LEMMA AcceptUnwatchedPreserves ==
  ASSUME SInv, NEW e \in events, AcceptUnwatched(e)
  PROVE  TypeOK' /\ NamesInv' /\ ListInv' /\ EndInv' /\ BatchInv' /\ ClientInv'
<1>1. PICK p \in Peers : \E f \in Free :
        /\ peer' = [peer EXCEPT ![p] = IF backend = "epoll" THEN "away" ELSE "up"]
        /\ fds' = [fds EXCEPT ![f] = IF backend = "epoll" THEN "free" ELSE p]
  BY DEF AcceptUnwatched
<1>2. PICK f \in Free :
        /\ peer' = [peer EXCEPT ![p] = IF backend = "epoll" THEN "away" ELSE "up"]
        /\ fds' = [fds EXCEPT ![f] = IF backend = "epoll" THEN "free" ELSE p]
  BY <1>1
<1>3. /\ task = "dispatch" /\ task' = "dispatch" /\ events' = events \ {e}
      /\ UNCHANGED <<owner, reciever_, isRunning_, called, sock_, epfd_, connectedSockets_, sendVars,
                     listener, watched, client, backend>>
  BY DEF AcceptUnwatched, TaskStep
<1> USE SocketAssumption, ServerAssumption
    DEF SInv, TypeOK, SocketTypeOK, sendVars, File, Event,
        NamesInv, ListInv, Closed, Unlisted, EndInv, BatchInv, EventsStayValid, ClientInv
<1>4. f \in Fds /\ fds[f] = "free" /\ f \notin connectedSockets_
        /\ f # sock_ /\ f # epfd_ /\ fds' \in [Fds -> File]
        /\ (backend = "epoll" => fds' = fds) /\ fds'[f] \notin {"socket", "epoll"}
        /\ \A g \in Fds \ {f} : fds'[g] = fds[g]
  BY <1>2 DEF Free
<1>5. TypeOK'
  BY <1>2, <1>3, <1>4
<1>6. NamesInv' /\ ListInv' /\ EndInv'
  BY <1>3, <1>4
<1>7. BatchInv' /\ ClientInv'
  BY <1>3, <1>4
<1> QED BY <1>5, <1>6, <1>7

\* A connection is unlisted by its own event only, which is no other event's.
LEMMA DisconnectPreserves ==
  ASSUME SInv, NEW e \in events, Disconnect(e)
  PROVE  TypeOK' /\ NamesInv' /\ ListInv' /\ EndInv' /\ BatchInv' /\ ClientInv'
<1> USE SocketAssumption, ServerAssumption
    DEF SInv, TypeOK, SocketTypeOK, TaskStep, socketVars, sendVars, File, Event,
        NamesInv, ListInv, Closed, Unlisted, EndInv, BatchInv, EventsStayValid, ClientInv
<1>1. /\ e.fd \in connectedSockets_ /\ fds[e.fd] \in Peers
      /\ task = "dispatch" /\ task' = "hangup" /\ client' = e /\ e \in Event
      /\ connectedSockets_' = connectedSockets_ \ {e.fd} /\ watched' = watched \ {e.fd}
      /\ events' = events \ {e} /\ e.flag = "RDHUP"
      /\ UNCHANGED <<owner, reciever_, isRunning_, called, fds, sock_, epfd_, sendVars, listener, peer, backend>>
  BY DEF Disconnect
<1>2. TypeOK'
  BY <1>1
<1>3. NamesInv' /\ ListInv' /\ EndInv'
  BY <1>1
<1>4. BatchInv' /\ ClientInv'
  BY <1>1
<1> QED BY <1>2, <1>3, <1>4

\* The connection that is closed is no longer listed, and no event of the batch names it.
LEMMA HangUpPreserves ==
  ASSUME SInv, HangUp
  PROVE  TypeOK' /\ NamesInv' /\ ListInv' /\ EndInv' /\ BatchInv' /\ ClientInv'
<1> USE SocketAssumption, ServerAssumption
    DEF SInv, TypeOK, SocketTypeOK, sendVars, File, NamesInv, ListInv, Closed, Unlisted, EndInv,
        BatchInv, EventsStayValid, ClientInv
<1>1. /\ task = "hangup" /\ task' = "dispatch" /\ client' = NoClient
      /\ UNCHANGED <<owner, reciever_, isRunning_, called, sock_, epfd_, connectedSockets_, sendVars,
                     listener, events, backend>>
  BY DEF HangUp, TaskStep
<1>2. fds[client.fd] \in Peers /\ client.fd \notin connectedSockets_
  BY <1>1
<1>3. /\ fds' \in [Fds -> File]
      /\ \A f \in Fds : fds'[f] = IF f = client.fd THEN "free" ELSE fds[f]
  BY DEF HangUp, Close
<1>4. peer' \in [Peers -> {"away", "queued", "up", "cut"}] /\ watched' = watched
  BY <1>1, <1>2 DEF HangUp, Close
<1>5. TypeOK'
  BY <1>1, <1>3, <1>4
<1>6. NamesInv' /\ ListInv' /\ EndInv'
  BY <1>1, <1>2, <1>3, <1>4
<1>7. BatchInv' /\ ClientInv'
  BY <1>1, <1>2, <1>3
<1> QED BY <1>5, <1>6, <1>7

\* Each way to handle an event leaves the rest of the batch valid.
LEMMA HandlePreserves ==
  ASSUME SInv, NEW e \in events, HandleEvent(e)
  PROVE  TypeOK' /\ NamesInv' /\ ListInv' /\ EndInv' /\ BatchInv' /\ ClientInv'
<1>1. CASE Accept(e)
  BY <1>1, AcceptPreserves
<1>2. CASE AcceptUnwatched(e)
  BY <1>2, AcceptUnwatchedPreserves
<1>3. CASE Disconnect(e)
  BY <1>3, DisconnectPreserves
<1>4. CASE AcceptFails(e)
  BY <1>4 DEF AcceptFails, SInv, TypeOK, SocketTypeOK, TaskStep, socketVars, sendVars,
              NamesInv, ListInv, Closed, Unlisted, EndInv, BatchInv, EventsStayValid, ClientInv
<1>5. CASE RecieveBegin(e)
  BY <1>5 DEF RecieveBegin, SInv, TypeOK, SocketTypeOK, TaskStep, socketVars, sendVars, Event,
              NamesInv, ListInv, Closed, Unlisted, EndInv, BatchInv, EventsStayValid, ClientInv
<1> QED BY <1>1, <1>2, <1>3, <1>4, <1>5 DEF HandleEvent

\* Receiving and the callback: the client stays the one the event named.
LEMMA ClientStepPreserves ==
  ASSUME SInv, NEW from, NEW next,
         task = from, task' = next,
         from \in {"recv", "report", "callback"}, next \in {"dispatch", "report", "callback"},
         from = "callback" => sendPc[Task] = "idle",
         next = "dispatch" => client' \in {client, NoClient}, next # "dispatch" => client' = client,
         EndpointType', UNCHANGED <<socketVars, listener, peer, watched, events, backend>>
  PROVE  TypeOK' /\ NamesInv' /\ ListInv' /\ EndInv' /\ BatchInv' /\ ClientInv'
BY DEF SInv, TypeOK, EndpointType, SocketTypeOK, socketVars, sendVars,
       NamesInv, ListInv, Closed, Unlisted, EndInv, BatchInv, EventsStayValid, ClientInv

\* Ending: each connection is closed, which leaves it listed, and erased; then come the descriptors
\* of the server.
LEMMA ClosePreserves ==
  ASSUME SInv, CloseConnection \/ EraseConnection \/ Delete
  PROVE  TypeOK' /\ NamesInv' /\ ListInv' /\ EndInv' /\ BatchInv' /\ ClientInv'
<1> USE SocketAssumption, ServerAssumption DEF SInv
<1>1. CASE CloseConnection
  <2>1. PICK f \in connectedSockets_ : Close({f})
    BY <1>1 DEF CloseConnection
  <2>2. /\ task = "close" /\ task' = "erase"
        /\ UNCHANGED <<owner, reciever_, isRunning_, called, sock_, epfd_, connectedSockets_, sendVars,
                       listener, events, client, backend>>
    BY <1>1 DEF CloseConnection, TaskStep
  <2>3. connectedSockets_ = watched /\ fds[f] \in Peers
    BY <2>2 DEF ListInv, Closed
  <2>4. fds' \in [Fds -> File] /\ \A g \in Fds : fds'[g] = IF g = f THEN "free" ELSE fds[g]
    BY <2>1 DEF Close, TypeOK, SocketTypeOK, File
  <2>5. peer' \in [Peers -> {"away", "queued", "up", "cut"}] /\ watched' = watched \ {f}
    BY <2>1 DEF Close, TypeOK
  <2>6. Closed' = {f} /\ Unlisted = {} /\ Unlisted' = {}
    BY <2>2, <2>3, <2>5 DEF Closed, Unlisted
  <2>7. TypeOK'
    BY <2>2, <2>4, <2>5 DEF TypeOK, SocketTypeOK, sendVars
  <2>8. NamesInv'
    BY <2>2, <2>3, <2>4 DEF NamesInv, TypeOK, SocketTypeOK
  <2>9. ListInv'
    BY <2>2, <2>3, <2>4, <2>5, <2>6 DEF ListInv, TypeOK, SocketTypeOK
  <2>10. EndInv' /\ BatchInv' /\ ClientInv'
    BY <2>2 DEF EndInv, BatchInv, EventsStayValid, ClientInv, sendVars
  <2> QED BY <2>7, <2>8, <2>9, <2>10
<1>3. CASE EraseConnection
  <2>1. /\ task = "erase" /\ task' = "close"
        /\ connectedSockets_' = watched
        /\ UNCHANGED <<owner, reciever_, isRunning_, called, fds, sock_, epfd_, sendVars, serverVars>>
    BY <1>3 DEF EraseConnection, TaskStep, ListInv, Closed
  <2> QED
    BY <2>1 DEF serverVars, sendVars, TypeOK, SocketTypeOK, NamesInv, ListInv, Closed, Unlisted, EndInv,
                BatchInv, EventsStayValid, ClientInv
<1>2. CASE Delete
  <2>1. SocketTypeOK' /\ NamesInv' /\ SamePeers
    BY <1>2, DeleteFds DEF Delete, TypeOK
  <2>2. peer' \in [Peers -> {"away", "queued", "up", "cut"}]
    BY <1>2 DEF Delete, TypeOK
  <2>3. TypeOK'
    BY <1>2, <2>1, <2>2 DEF Delete, TaskStep, TypeOK
  <2>4. ListInv'
    BY <1>2, <2>1
       DEF Delete, do_delete, TaskStep, ListInv, Closed, Unlisted, SamePeers, TypeOK, SocketTypeOK
  <2>5. EndInv' /\ BatchInv' /\ ClientInv'
    BY <1>2 DEF Delete, do_delete, TaskStep, EndInv, BatchInv, EventsStayValid, ClientInv, sendVars
  <2> QED BY <2>1, <2>3, <2>4, <2>5
<1> QED BY <1>1, <1>2, <1>3

\* Every step of the thread th_ preserves the invariant, and is Reporter's call, its return or
\* nothing to Reporter.
LEMMA TaskPreserves ==
  ASSUME SInv, ServerTask
  PROVE  SInv' /\ [Abstract!Next]_Abstract!vars
<1> DEFINE Rest == TypeOK /\ NamesInv /\ ListInv /\ EndInv /\ BatchInv /\ ClientInv
           Step == EndpointType' /\ EndpointInv' /\ [Abstract!Next]_Abstract!vars
<1>0. EndpointType /\ EndpointInv /\ TypeOK
  BY DEF SInv, TypeOK, EndpointType
<1>1. CASE Create
  <2>1. Step
    BY <1>0, <1>1, TaskStepPreserves DEF Create
  <2>2. PICK ok \in BOOLEAN : do_create(ok) /\ TaskStep("begin", IF ok THEN "bind" ELSE "exit")
    BY <1>1 DEF Create
  <2>3. SocketTypeOK' /\ NamesInv' /\ SamePeers /\ (ok => sock_' # NoFd)
    BY <2>2, CreateFds DEF SInv, TypeOK
  <2>4. TypeOK'
    BY <1>1, <2>2, <2>3 DEF Create, TaskStep, SInv, TypeOK, serverVars
  <2>5. ListInv'
    BY <1>1, <2>2, <2>3
       DEF Create, do_create, TaskStep, SInv, ListInv, Closed, Unlisted, SamePeers, TypeOK, SocketTypeOK,
           serverVars
  <2>6. EndInv' /\ BatchInv' /\ ClientInv'
    BY <1>1, <2>2
       DEF Create, do_create, TaskStep, SInv, EndInv, BatchInv, EventsStayValid, ClientInv, serverVars, sendVars
  <2> QED BY <2>1, <2>3, <2>4, <2>5, <2>6 DEF SInv
<1>2. CASE Bind
  <2>1. Step
    BY <1>0, <1>2, TaskStepPreserves DEF Bind
  <2>2. Rest'
    BY <1>0, <1>2, QuietStepPreserves DEF Bind, TypeOK
  <2> QED BY <2>1, <2>2 DEF SInv
<1>3. CASE Listen
  <2>1. Step
    BY <1>0, <1>3, TaskStepPreserves DEF Listen
  <2>2. Rest'
    BY <1>0, <1>3, QuietStepPreserves DEF Listen, TypeOK
  <2> QED BY <2>1, <2>2 DEF SInv
<1>4. CASE Loop
  <2>1. Step
    BY <1>0, <1>4, TaskStepPreserves DEF Loop
  <2>2. Rest'
    BY <1>0, <1>4, QuietStepPreserves DEF Loop, TypeOK, serverVars
  <2> QED BY <2>1, <2>2 DEF SInv
<1>5. CASE Wait
  <2>1. Step
    BY <1>0, <1>5, TaskStepPreserves DEF Wait
  <2> QED BY <1>5, <2>1, WaitPreserves DEF SInv
<1>6. CASE BatchDone
  <2>1. Step
    BY <1>0, <1>6, TaskStepPreserves DEF BatchDone
  <2>2. Rest'
    BY <1>0, <1>6, QuietStepPreserves DEF BatchDone, TypeOK, serverVars
  <2> QED BY <2>1, <2>2 DEF SInv
<1>7. CASE \E e \in events : HandleEvent(e)
  <2>1. PICK e \in events : HandleEvent(e)
    BY <1>7
  <2>2. Step
    BY <1>0, <2>1, TaskStepPreserves
       DEF HandleEvent, Accept, AcceptUnwatched, AcceptFails, Disconnect, RecieveBegin
  <2> QED BY <2>1, <2>2, HandlePreserves DEF SInv
<1>8. CASE RecieveEnd
  <2>1. Step
    BY <1>0, <1>8, TaskStepPreserves DEF RecieveEnd
  <2>2. Rest'
    BY <1>0, <1>8, <2>1, ClientStepPreserves DEF RecieveEnd, TaskStep
  <2> QED BY <2>1, <2>2 DEF SInv
<1>9. CASE Report
  <2>1. Step
    BY <1>0, <1>9, CallbackBeginPreserves DEF Report
  <2>2. Rest'
    BY <1>0, <1>9, <2>1, ClientStepPreserves DEF Report, CallbackBegin
  <2> QED BY <2>1, <2>2 DEF SInv
<1>10. CASE ReportEnd
  <2>1. Step
    BY <1>0, <1>10, CallbackEndPreserves DEF ReportEnd
  <2>2. Rest'
    BY <1>0, <1>10, <2>1, ClientStepPreserves DEF ReportEnd, CallbackEnd
  <2> QED BY <2>1, <2>2 DEF SInv
<1>11. CASE CloseConnection \/ EraseConnection
  <2>1. Step
    BY <1>0, <1>11, TaskStepPreserves DEF CloseConnection, EraseConnection
  <2> QED BY <1>11, <2>1, ClosePreserves DEF SInv
<1>12. CASE Delete
  <2>1. Step
    BY <1>0, <1>12, TaskStepPreserves DEF Delete
  <2> QED BY <1>12, <2>1, ClosePreserves DEF SInv
<1>13. CASE WaitFails
  <2>1. Step
    BY <1>0, <1>13, TaskStepPreserves DEF WaitFails
  <2>2. Rest'
    BY <1>0, <1>13, QuietStepPreserves DEF WaitFails, TypeOK, serverVars
  <2> QED BY <2>1, <2>2 DEF SInv
<1>14. CASE HangUp
  <2>1. Step
    BY <1>0, <1>14, TaskStepPreserves DEF HangUp
  <2> QED BY <1>14, <2>1, HangUpPreserves DEF SInv
<1>15. CASE AllClosed
  <2>1. Step
    BY <1>0, <1>15, TaskStepPreserves DEF AllClosed
  <2>2. ~isRunning_
    BY <1>15 DEF AllClosed, TaskStep, SInv, EndInv
  <2>3. Rest'
    BY <1>0, <1>15, <2>2, QuietStepPreserves DEF AllClosed, TypeOK, serverVars
  <2> QED BY <2>1, <2>3 DEF SInv
<1> QED BY <1>1, <1>2, <1>3, <1>4, <1>5, <1>6, <1>7, <1>8, <1>9, <1>10, <1>11, <1>12, <1>13, <1>14, <1>15
        DEF ServerTask

\* So does every step of the owner, the senders, the peers and the rest of the process.
LEMMA OthersPreserveSInv ==
  ASSUME SInv, [Next]_vars, ~ServerTask
  PROVE  SInv' /\ [Abstract!Next]_Abstract!vars
<1> USE SocketAssumption, ServerAssumption
    DEF SInv, socketVars, sendVars, serverVars, endpointVars
<1> DEFINE Rest == TypeOK /\ NamesInv /\ ListInv /\ EndInv /\ BatchInv /\ ClientInv
<1>0. EndpointType
  BY DEF TypeOK, EndpointType
<1>1. CASE OwnerStep /\ UNCHANGED <<socketVars, serverVars>>
  <2>1. EndpointType' /\ EndpointInv' /\ [Abstract!Next]_Abstract!vars
    BY <1>0, <1>1, OwnerPreserves
  <2>2. task' = task \/ {task, task'} \subseteq {"none", "begin", "exit"}
    BY <1>1 DEF OwnerStep, EndReturns, Start, EndCall, EndClear, EndStop, EndJoin, EndpointInv
  <2>3. EndInv'
    BY <1>1, <2>2
       DEF OwnerStep, EndReturns, Start, EndCall, EndClear, EndStop, EndJoin, EndpointInv, EndInv
  <2>4. TypeOK' /\ NamesInv' /\ ListInv'
    BY <1>1, <2>1, <2>2 DEF EndpointType, TypeOK, SocketTypeOK, NamesInv, ListInv, Closed, Unlisted
  <2>5. BatchInv' /\ ClientInv'
    BY <1>1, <2>2 DEF BatchInv, EventsStayValid, ClientInv
  <2> QED BY <2>1, <2>3, <2>4, <2>5
<1>2. ASSUME NEW a \in Senders,
             \/ Send(a)
             \/ SendReturns(a) /\ UNCHANGED <<endpointVars, serverVars>>
      PROVE  Rest' /\ UNCHANGED endpointVars
  <2>1. (\E s \in Fds \cup {NoFd} : SendCall(a, s)) \/ SendReturns(a)
    BY <1>2 DEF Send
  <2>2. UNCHANGED <<endpointVars, serverVars>>
    BY <1>2 DEF Send
  <2>3. SocketTypeOK' /\ NamesInv' /\ UNCHANGED <<fds, sock_, epfd_, connectedSockets_>>
    BY <2>1, SendFds DEF TypeOK
  <2>4. TypeOK' /\ ListInv' /\ EndInv' /\ BatchInv'
    BY <2>2, <2>3 DEF TypeOK, ListInv, Closed, Unlisted, EndInv, BatchInv, EventsStayValid
  <2>5. ClientInv'
    BY <1>2, <2>2, <2>3
       DEF Send, SendCall, SendReturns, SendCheck, SendWrite, ClientInv, TypeOK, SocketTypeOK
  <2> QED BY <2>2, <2>3, <2>4, <2>5
<1>3. ASSUME OtherFile, UNCHANGED <<endpointVars, serverVars>>
      PROVE  Rest' /\ UNCHANGED endpointVars
  <2>1. SocketTypeOK' /\ NamesInv' /\ SamePeers
    BY <1>3, OtherFileFds DEF TypeOK
  <2> QED
    BY <1>3, <2>1
       DEF OtherFile, SamePeers, TypeOK, SocketTypeOK, ListInv, Closed, Unlisted, EndInv,
           BatchInv, EventsStayValid, ClientInv
<1>4. ASSUME PeerConnects \/ PeerCuts \/ UNCHANGED vars PROVE Rest' /\ UNCHANGED endpointVars
  <2>1. /\ UNCHANGED <<endpointVars, socketVars, listener, watched, events, client, backend>>
        /\ peer' \in [Peers -> {"away", "queued", "up", "cut"}]
    BY <1>4 DEF PeerConnects, PeerCuts, vars, TypeOK
  <2>2. TypeOK' /\ NamesInv'
    BY <2>1 DEF TypeOK, SocketTypeOK, NamesInv
  <2>3. ListInv' /\ EndInv'
    BY <2>1 DEF ListInv, Closed, Unlisted, EndInv
  <2>4. BatchInv' /\ ClientInv'
    BY <2>1 DEF BatchInv, EventsStayValid, ClientInv
  <2> QED BY <2>1, <2>2, <2>3, <2>4
<1>5. ASSUME Rest', UNCHANGED endpointVars PROVE SInv' /\ [Abstract!Next]_Abstract!vars
  BY <1>0, <1>5, OthersPreserve
<1> QED BY <1>1, <1>2, <1>3, <1>4, <1>5 DEF Next

\* The inductive invariant.
THEOREM Inductive == Spec => []SInv
<1>1. Init => SInv
  BY InitSInv
<1>2. SInv /\ [Next]_vars => SInv'
  BY TaskPreserves, OthersPreserveSInv
<1> QED BY <1>1, <1>2, PTL DEF Spec

-----------------------------------------------------------------------------

\* What the code keeps to at any moment, for any number of receivers, threads, descriptors and peers.

\* Every variable has its type.
THEOREM TypeCorrect == Spec => []TypeOK
BY Inductive, PTL DEF SInv

\* A receiver runs only while it is registered: end() and start() wait for its call.
THEOREM CalledIsRegistered == Spec => []CallsRegisteredReciever
<1>1. SInv => CallsRegisteredReciever
  BY EndpointSafe DEF SInv
<1> QED BY <1>1, Inductive, PTL

\* After end() nothing of the server runs.
THEOREM ServerQuietAfterEnd == Spec => []QuietAfterEnd
<1>1. SInv => QuietAfterEnd
  BY EndpointSafe DEF SInv
<1> QED BY <1>1, Inductive, PTL

\* No event of a batch goes stale, whatever the events handled before it close or accept.
THEOREM BatchStaysValid == Spec => []EventsStayValid
BY Inductive, PTL DEF SInv, BatchInv

\* recieveData's answers go to the peer whose message it was handed.
THEOREM AnswersReachSender == Spec => []RepliesReachSender
<1>1. SInv => RepliesReachSender
  BY DEF SInv, ClientInv, RepliesReachSender
<1> QED BY <1>1, Inductive, PTL

\* The epoll build leaks no descriptor, and names none it has closed but while it erases it.
THEOREM NoDescriptorLeaks == Spec => []EpollLeaksNothing
<1>1. SInv => EpollLeaksNothing
  <2>1. SUFFICES ASSUME SInv, backend = "epoll" PROVE EpollLeaksNothing
    BY DEF EpollLeaksNothing
  <2>2. \A f \in Fds : fds[f] \notin {"free", "other"} <=> fds[f] \in {"socket", "epoll"} \cup Peers
    BY <2>1, SocketAssumption DEF SInv, TypeOK, SocketTypeOK, File
  <2>3. \A f \in Fds : fds[f] \in Peers <=> f \in watched \cup Unlisted
    BY <2>1 DEF SInv, ListInv
  <2>4. \A f \in Fds : fds[f] \in {"socket", "epoll"} <=> f \in {sock_, epfd_} \ {NoFd}
    BY <2>1, SocketAssumption DEF SInv, NamesInv
  <2>5. watched \subseteq Fds /\ sock_ \in Fds \cup {NoFd} /\ epfd_ \in Fds \cup {NoFd} /\ NoFd \notin Fds
    BY <2>1, SocketAssumption DEF SInv, TypeOK, SocketTypeOK
  <2>6. Unlisted \subseteq Fds
    BY <2>1 DEF SInv, ListInv
  <2>7. \A f \in Closed : f \notin watched \cup Unlisted \cup {sock_, epfd_}
    BY <2>1, SocketAssumption DEF SInv, ListInv, NamesInv, TypeOK, SocketTypeOK
  <2>8. (connectedSockets_ \cup Unlisted) \ Closed = watched \cup Unlisted
    BY <2>1, <2>7 DEF SInv, ListInv
  <2> QED BY <2>1, <2>2, <2>3, <2>4, <2>5, <2>6, <2>7, <2>8 DEF EpollLeaksNothing, SInv, ListInv
<1> QED BY <1>1, Inductive, PTL

\* A sender passes isConnected for an open connection only, or for the closed one that the end of
\* the server has yet to erase.
THEOREM SendersCheckOpenConnections == Spec => ChecksOpenConnection
<1> DEFINE Checked(a) ==
      sendPc[a] = "want" /\ sendPc'[a] = "write" =>
        fds[sndSock[a]] \in Peers \/ (~isRunning_ /\ sndSock[a] \in Closed)
<1>1. ASSUME SInv, [Next]_vars, NEW a \in Senders PROVE Checked(a)
  <2>1. SUFFICES ASSUME sendPc[a] = "want", sendPc'[a] = "write" PROVE Checked(a)
    OBVIOUS
  <2>2. sendPc' # sendPc
    BY <2>1
  <2>3. PICK b \in Senders : Send(b) \/ SendReturns(b)
    BY <1>1, <2>2 DEF Next, vars, socketVars, sendVars, OwnerStep, OtherFile, PeerConnects, PeerCuts,
         ServerTask, Create, do_create, Bind, Listen, Loop, Wait, WaitFails, BatchDone, HandleEvent,
         Accept, AcceptUnwatched, AcceptFails, Disconnect, RecieveBegin, HangUp, RecieveEnd, Report,
         ReportEnd, CloseConnection, EraseConnection, AllClosed, Delete, do_delete
  <2>4. SendCheck(a)
    BY <1>1, <2>1, <2>3
       DEF Send, SendCall, SendReturns, SendCheck, SendWrite, SInv, TypeOK, SocketTypeOK
  <2>5. sndSock[a] \in connectedSockets_
    BY <1>1, <2>1, <2>4 DEF SendCheck, isConnected, SInv, TypeOK, SocketTypeOK
  <2> QED BY <1>1, <2>5 DEF SInv, ListInv, Closed, EndInv
<1>2. SInv /\ [Next]_vars => [\A a \in Senders : Checked(a)]_vars
  BY <1>1
<1> QED BY <1>2, Inductive, PTL DEF Spec, ChecksOpenConnection

\* To the application a server is a Reporter: each of its steps is one of Reporter's or none.
THEOREM ServerIsReporter == Spec => Abstract!SafeSpec
<1>1. Init => Abstract!Init
  BY InitSInv
<1>2. SInv /\ [Next]_vars => [Abstract!Next]_Abstract!vars
  BY TaskPreserves, OthersPreserveSInv
<1> QED BY <1>1, <1>2, Inductive, PTL DEF Spec, Abstract!SafeSpec
=============================================================================
