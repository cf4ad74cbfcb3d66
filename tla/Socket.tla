------------------------------- MODULE Socket -------------------------------
(***************************************************************************)
(* class Socket, the base of ServerSocket and ClientSocket: the two        *)
(* descriptors it owns, the list of connected sockets, and do_send, which  *)
(* any thread of the application may be in while task() runs.              *)
(*                                                                         *)
(* A descriptor is a small integer the kernel hands out again as soon as   *)
(* it is closed, to anybody in the process: `fds' says what it stands for. *)
(***************************************************************************)
EXTENDS Integers, FiniteSets

CONSTANTS
    Fds,        \* descriptor numbers
    NoFd,       \* INVALID_SOCKET and an epfd_ of -1
    Senders,    \* threads that call do_send
    Peers,      \* what an accepted connection leads to
    MaxOther    \* bound on the descriptors the rest of the process has open

ASSUME SocketAssumption ==
    /\ NoFd \notin Fds
    /\ IsFiniteSet(Fds)
    /\ MaxOther \in Nat
    /\ Peers \cap {"free", "other", "socket", "epoll"} = {}

VARIABLES
    fds,                \* what each descriptor stands for
    sock_, epfd_,
    connectedSockets_,
    sendPc,             \* "idle", "want"ing mtx_, or about to "write" with it
    sndSock             \* the argument of do_send

sendVars   == <<sendPc, sndSock>>
socketVars == <<fds, sock_, epfd_, connectedSockets_, sendVars>>

File == {"free", "other", "socket", "epoll"} \cup Peers

Free == {f \in Fds : fds[f] = "free"}

SocketInit ==
    /\ fds = [f \in Fds |-> "free"]
    /\ sock_ = NoFd /\ epfd_ = NoFd
    /\ connectedSockets_ = {}
    /\ sendPc = [a \in Senders |-> "idle"]
    /\ sndSock = [a \in Senders |-> NoFd]

\* Only do_send keeps Socket::mtx_ between two steps.
MtxFree == \A a \in Senders : sendPc[a] # "write"

\* do_create returns ok.  A retry that finds sock_ set does nothing, whatever epfd_ is.
do_create(ok) ==
    /\ MtxFree
    /\ \/ /\ sock_ # NoFd /\ ok
          /\ UNCHANGED <<fds, sock_, epfd_>>
       \/ /\ sock_ = NoFd /\ ~ok
          /\ UNCHANGED <<fds, sock_, epfd_>>
       \/ /\ sock_ = NoFd
          /\ \E s \in Free :
               /\ sock_' = s
               /\ \/ /\ ~ok /\ epfd_' = NoFd
                     /\ fds' = [fds EXCEPT ![s] = "socket"]
                  \/ \E e \in Free \ {s} :
                       /\ ok /\ epfd_' = e
                       /\ fds' = [fds EXCEPT ![s] = "socket", ![e] = "epoll"]
    /\ UNCHANGED <<connectedSockets_, sendVars>>

\* Mutant: an endpoint without epfd_ keeps its socket open.
Mutdo_delete ==
    /\ MtxFree
    /\ fds' = [f \in Fds |-> IF f = epfd_ \/ (f = sock_ /\ epfd_ # NoFd) THEN "free" ELSE fds[f]]
    /\ sock_' = NoFd /\ epfd_' = NoFd
    /\ UNCHANGED <<connectedSockets_, sendVars>>

\* Mutant: the descriptors are closed without mtx_.
Mutdo_deleteUnlocked ==
    /\ fds' = [f \in Fds |-> IF f \in {epfd_, sock_} THEN "free" ELSE fds[f]]
    /\ sock_' = NoFd /\ epfd_' = NoFd
    /\ UNCHANGED <<connectedSockets_, sendVars>>

do_delete ==
    /\ MtxFree
    /\ fds' = [f \in Fds |-> IF f \in {epfd_, sock_} THEN "free" ELSE fds[f]]
    /\ sock_' = NoFd /\ epfd_' = NoFd
    /\ UNCHANGED <<connectedSockets_, sendVars>>

\* A thread calls do_send on socket s and waits for mtx_.
SendCall(a, s) ==
    /\ sendPc[a] = "idle"
    /\ sendPc' = [sendPc EXCEPT ![a] = "want"]
    /\ sndSock' = [sndSock EXCEPT ![a] = s]
    /\ UNCHANGED <<fds, sock_, epfd_, connectedSockets_>>

isConnected(s) == s \in connectedSockets_

\* do_send has mtx_: it refuses a socket that is not connected, or goes on to ::send.  The list
\* changes under no lock; one push_back or erase at a time, the walk sees it before or after.
SendCheck(a) ==
    /\ sendPc[a] = "want"
    /\ MtxFree
    /\ sendPc' = [sendPc EXCEPT ![a] = IF isConnected(sndSock[a]) THEN "write" ELSE "idle"]
    /\ UNCHANGED <<fds, sock_, epfd_, connectedSockets_, sndSock>>

\* ::send has returned, with an error or without.
SendWrite(a) ==
    /\ sendPc[a] = "write"
    /\ sendPc' = [sendPc EXCEPT ![a] = "idle"]
    /\ UNCHANGED <<fds, sock_, epfd_, connectedSockets_, sndSock>>

SendReturns(a) == SendCheck(a) \/ SendWrite(a)

\* The rest of the process opens and closes files.
OtherFile ==
    /\ \E f \in Fds :
         \/ /\ fds[f] = "free" /\ Cardinality({g \in Fds : fds[g] = "other"}) < MaxOther
            /\ fds' = [fds EXCEPT ![f] = "other"]
         \/ fds[f] = "other" /\ fds' = [fds EXCEPT ![f] = "free"]
    /\ UNCHANGED <<sock_, epfd_, connectedSockets_, sendVars>>

-----------------------------------------------------------------------------

SocketTypeOK ==
    /\ fds \in [Fds -> File]
    /\ sock_ \in Fds \cup {NoFd}
    /\ epfd_ \in Fds \cup {NoFd}
    /\ connectedSockets_ \subseteq Fds
    /\ sendPc \in [Senders -> {"idle", "want", "write"}]
    /\ sndSock \in [Senders -> Fds \cup {NoFd}]

\* No descriptor is leaked and no member names a closed one: what is open for a client is what
\* its members name, through failed creations, refused connects, reconnects and restarts.
OwnsWhatItNames ==
    {f \in Fds : fds[f] \notin {"free", "other"}} =
        ({sock_, epfd_} \cup connectedSockets_) \ {NoFd}
=============================================================================
