---------------------------- MODULE SocketProofs ----------------------------
(***************************************************************************)
(* What every operation of Socket does to the descriptors.                 *)
(* SocketClientProofs and SocketServerProofs cite these lemmas.            *)
(***************************************************************************)
EXTENDS Socket, TLAPS

\* sock_ and epfd_ name the open socket and the open epoll instance, if there are any, and
\* nothing else of that kind is open; there is no epoll instance without a socket.
NamesInv ==
    /\ sock_ = NoFd => epfd_ = NoFd
    /\ sock_ # NoFd => fds[sock_] = "socket"
    /\ epfd_ # NoFd => fds[epfd_] = "epoll"
    /\ \A f \in Fds : fds[f] \in {"socket", "epoll"} => f \in {sock_, epfd_}

\* Accepted connections are where they were.
SamePeers == \A f \in Fds : fds[f] \in Peers \/ fds'[f] \in Peers => fds'[f] = fds[f]

\* do_create, whichever of its calls fails, touches free descriptors only, and a socket it finds
\* it keeps.
LEMMA CreateFds ==
  ASSUME SocketTypeOK, NamesInv, NEW ok \in BOOLEAN, do_create(ok)
  PROVE  /\ SocketTypeOK' /\ NamesInv' /\ SamePeers
         /\ ok => sock_' # NoFd
         /\ sock_ # NoFd => sock_' = sock_
<1> USE SocketAssumption DEF SocketTypeOK, NamesInv, SamePeers, File, sendVars
<1>1. CASE UNCHANGED <<fds, sock_, epfd_>>
  BY <1>1 DEF do_create
<1>2. CASE \E s \in Free : sock_ = NoFd /\ sock_' = s /\ ~ok /\ epfd_' = NoFd
                             /\ fds' = [fds EXCEPT ![s] = "socket"]
  BY <1>2 DEF do_create, Free
<1>3. CASE \E s \in Free : \E e \in Free \ {s} :
             sock_ = NoFd /\ sock_' = s /\ epfd_' = e
               /\ fds' = [fds EXCEPT ![s] = "socket", ![e] = "epoll"]
  <2>1. PICK s \in Free : \E e \in Free \ {s} :
          sock_ = NoFd /\ sock_' = s /\ epfd_' = e
            /\ fds' = [fds EXCEPT ![s] = "socket", ![e] = "epoll"]
    BY <1>3
  <2>2. PICK e \in Free \ {s} :
          sock_ = NoFd /\ sock_' = s /\ epfd_' = e
            /\ fds' = [fds EXCEPT ![s] = "socket", ![e] = "epoll"]
    BY <2>1
  <2>3. s \in Fds /\ e \in Fds /\ s # e /\ fds[s] = "free" /\ fds[e] = "free"
    BY DEF Free
  <2>4. fds' \in [Fds -> File] /\ fds'[s] = "socket" /\ fds'[e] = "epoll"
          /\ \A f \in Fds \ {s, e} : fds'[f] = fds[f]
    BY <2>2, <2>3
  <2> QED BY <2>2, <2>3, <2>4 DEF do_create
<1> QED BY <1>1, <1>2, <1>3 DEF do_create

\* do_delete closes what sock_ and epfd_ name, and no thread is in ::send meanwhile.
LEMMA DeleteFds ==
  ASSUME SocketTypeOK, NamesInv, do_delete
  PROVE  SocketTypeOK' /\ NamesInv' /\ SamePeers
BY SocketAssumption DEF SocketTypeOK, NamesInv, SamePeers, File, sendVars, do_delete

\* Files of the rest of the process come from and go to the free descriptors.
LEMMA OtherFileFds ==
  ASSUME SocketTypeOK, NamesInv, OtherFile
  PROVE  SocketTypeOK' /\ NamesInv' /\ SamePeers
<1>1. PICK f \in Fds, kind \in {"free", "other"} :
        fds[f] \in {"free", "other"} /\ fds' = [fds EXCEPT ![f] = kind]
  BY DEF OtherFile
<1> QED
  BY <1>1, SocketAssumption
     DEF OtherFile, SocketTypeOK, NamesInv, SamePeers, File, sendVars

\* A sender's steps touch no descriptor, and only one that is listed is written to.
LEMMA SendFds ==
  ASSUME SocketTypeOK, NamesInv, NEW a \in Senders,
         (\E s \in Fds \cup {NoFd} : SendCall(a, s)) \/ SendReturns(a)
  PROVE  /\ SocketTypeOK' /\ NamesInv' /\ UNCHANGED <<fds, sock_, epfd_, connectedSockets_>>
         /\ \A b \in Senders :
              sendPc'[b] = "write" => sndSock'[b] = sndSock[b]
                                        /\ (sendPc[b] = "write" \/ sndSock[b] \in connectedSockets_)
BY DEF SocketTypeOK, NamesInv, SendCall, SendReturns, SendCheck, SendWrite, isConnected
=============================================================================
