------------------------- MODULE SocketClientProofs -------------------------
(***************************************************************************)
(* Proofs about SocketClient, both builds, for any number of receivers,    *)
(* descriptors and sending threads.                                        *)
(***************************************************************************)
EXTENDS SocketClient, EndpointProofs, SocketProofs

\* The socket is listed from do_connect to do_disconnect; connecting and what follows have one.
ListInv ==
    /\ connectedSockets_ =
         IF task \in {"loop", "poll", "recv", "report", "callback", "disconnect"} THEN {sock_} ELSE {}
    /\ task \notin {"none", "begin", "create", "exit"} => sock_ # NoFd

\* A client accepts no connections.
NoPeers == \A f \in Fds : fds[f] \notin Peers

\* A sender that has found its socket listed still names the client's.
SendInv == \A a \in Senders : sendPc[a] = "write" => sock_ # NoFd /\ sndSock[a] = sock_

\* In the kevent build a socket that was refused is only ever discarded.
RefusedInv == backend = "kevent" /\ refused => task = "discard"

CInv == TypeOK /\ EndpointInv /\ NamesInv /\ NoPeers /\ ListInv /\ SendInv /\ RefusedInv

-----------------------------------------------------------------------------

\* The initial state satisfies the invariant and is Reporter's.
LEMMA InitCInv == Init => CInv /\ Abstract!Init
<1> SUFFICES ASSUME Init PROVE CInv /\ Abstract!Init
  OBVIOUS
<1>1. EndpointType /\ EndpointInv /\ Abstract!Init
  BY EndpointStarts DEF Init
<1>2. TypeOK
  BY <1>1 DEF Init, SocketInit, EndpointInit, EndpointType, TypeOK, SocketTypeOK, File
<1>3. NamesInv /\ NoPeers /\ ListInv /\ SendInv /\ RefusedInv
  BY SocketAssumption
     DEF Init, SocketInit, EndpointInit, NamesInv, NoPeers, ListInv, SendInv, RefusedInv
<1> QED BY <1>1, <1>2, <1>3 DEF CInv

\* Every step of the thread th_ preserves the invariant, and is Reporter's call, its return or
\* nothing to Reporter.
LEMMA TaskPreserves ==
  ASSUME CInv, ClientTask
  PROVE  CInv' /\ [Abstract!Next]_Abstract!vars
<1> USE SocketAssumption, ClientAssumption
    DEF CInv, socketVars, sendVars, clientVars, endpointVars
<1>0. EndpointType
  BY DEF TypeOK, EndpointType
<1> DEFINE Rest == TypeOK /\ NamesInv /\ NoPeers /\ ListInv /\ SendInv /\ RefusedInv
           Step == EndpointInv' /\ [Abstract!Next]_Abstract!vars
<1>1. CASE OuterLoop
  <2>1. Step
    BY <1>0, <1>1, TaskStepPreserves DEF OuterLoop
  <2>2. Rest'
    BY <1>1 DEF OuterLoop, TaskStep, TypeOK, SocketTypeOK, NamesInv, NoPeers, ListInv, SendInv, RefusedInv
  <2> QED BY <2>1, <2>2
<1>2. CASE Create
  <2>1. Step
    BY <1>0, <1>2, TaskStepPreserves DEF Create
  <2>2. PICK ok \in BOOLEAN : do_create(ok) /\ TaskStep("create", IF ok THEN "connect" ELSE "begin")
    BY <1>2 DEF Create
  <2>3. SocketTypeOK' /\ NamesInv' /\ SamePeers /\ (ok => sock_' # NoFd) /\ (sock_ # NoFd => sock_' = sock_)
    BY <2>2, CreateFds DEF TypeOK
  <2>4. TypeOK'
    BY <1>2, <2>2, <2>3 DEF Create, TaskStep, TypeOK
  <2>5. NoPeers' /\ ListInv' /\ SendInv' /\ RefusedInv'
    BY <1>2, <2>2, <2>3 DEF Create, do_create, MtxFree, TaskStep,
                            NoPeers, SamePeers, ListInv, SendInv, RefusedInv
  <2> QED BY <2>1, <2>3, <2>4, <2>5
<1>3. CASE Connected
  <2>1. Step
    BY <1>0, <1>3, TaskStepPreserves DEF Connected
  <2>2. Rest'
    BY <1>3 DEF Connected, TaskStep, TypeOK, SocketTypeOK, NamesInv, NoPeers, ListInv, SendInv, RefusedInv
  <2> QED BY <2>1, <2>2
<1>4. CASE Refused
  <2>1. Step
    BY <1>0, <1>4, TaskStepPreserves DEF Refused
  <2>2. Rest'
    BY <1>4 DEF Refused, TaskStep, TypeOK, SocketTypeOK, NamesInv, NoPeers, ListInv, SendInv, RefusedInv
  <2> QED BY <2>1, <2>2
<1>5. CASE Discard
  <2>1. Step
    BY <1>0, <1>5, TaskStepPreserves DEF Discard
  <2>2. SocketTypeOK' /\ NamesInv' /\ SamePeers
    BY <1>5, DeleteFds DEF Discard, TypeOK
  <2>3. TypeOK'
    BY <1>5, <2>2 DEF Discard, TaskStep, TypeOK
  <2>4. NoPeers' /\ ListInv' /\ SendInv' /\ RefusedInv'
    BY <1>5, <2>2 DEF Discard, do_delete, MtxFree, TaskStep,
                    NoPeers, SamePeers, ListInv, SendInv, RefusedInv
  <2> QED BY <2>1, <2>2, <2>3, <2>4
<1>6. CASE InnerLoop
  <2>1. Step
    BY <1>0, <1>6, TaskStepPreserves DEF InnerLoop
  <2>2. Rest'
    BY <1>6 DEF InnerLoop, TaskStep, TypeOK, SocketTypeOK, NamesInv, NoPeers, ListInv, SendInv, RefusedInv
  <2> QED BY <2>1, <2>2
<1>7. CASE Poll
  <2>1. Step
    BY <1>0, <1>7, TaskStepPreserves DEF Poll
  <2>2. Rest'
    BY <1>7 DEF Poll, TaskStep, TypeOK, SocketTypeOK, NamesInv, NoPeers, ListInv, SendInv, RefusedInv
  <2> QED BY <2>1, <2>2
<1>8. CASE Recieve
  <2>1. Step
    BY <1>0, <1>8, TaskStepPreserves DEF Recieve
  <2>2. Rest'
    BY <1>8 DEF Recieve, TaskStep, TypeOK, SocketTypeOK, NamesInv, NoPeers, ListInv, SendInv, RefusedInv
  <2> QED BY <2>1, <2>2
<1>9. CASE Report
  <2>1. Step
    BY <1>0, <1>9, CallbackBeginPreserves DEF Report
  <2>2. Rest'
    BY <1>9 DEF Report, CallbackBegin, TypeOK, SocketTypeOK, NamesInv, NoPeers, ListInv, SendInv, RefusedInv
  <2> QED BY <2>1, <2>2
<1>10. CASE ReportEnd
  <2>1. Step
    BY <1>0, <1>10, CallbackEndPreserves DEF ReportEnd
  <2>2. Rest'
    BY <1>10 DEF ReportEnd, CallbackEnd, TypeOK, SocketTypeOK, NamesInv, NoPeers, ListInv, SendInv, RefusedInv
  <2> QED BY <2>1, <2>2
<1>11. CASE Disconnect
  <2>1. Step
    BY <1>0, <1>11, TaskStepPreserves DEF Disconnect
  <2>2. Rest'
    BY <1>11 DEF Disconnect, TaskStep, TypeOK, SocketTypeOK, NamesInv, NoPeers, ListInv, SendInv, RefusedInv
  <2> QED BY <2>1, <2>2
<1>12. CASE Delete
  <2>1. Step
    BY <1>0, <1>12, TaskStepPreserves DEF Delete
  <2>2. SocketTypeOK' /\ NamesInv' /\ SamePeers
    BY <1>12, DeleteFds DEF Delete, TypeOK
  <2>3. TypeOK'
    BY <1>12, <2>2 DEF Delete, TaskStep, TypeOK
  <2>4. NoPeers' /\ ListInv' /\ SendInv' /\ RefusedInv'
    BY <1>12, <2>2 DEF Delete, do_delete, MtxFree, TaskStep,
                    NoPeers, SamePeers, ListInv, SendInv, RefusedInv
  <2> QED BY <2>1, <2>2, <2>3, <2>4
<1>13. CASE PollFails
  <2>1. Step
    BY <1>0, <1>13, TaskStepPreserves DEF PollFails
  <2>2. Rest'
    BY <1>13 DEF PollFails, TaskStep, TypeOK, SocketTypeOK, NamesInv, NoPeers, ListInv, SendInv, RefusedInv
  <2> QED BY <2>1, <2>2
<1> QED BY <1>1, <1>2, <1>3, <1>4, <1>5, <1>6, <1>7, <1>8, <1>9, <1>10, <1>11, <1>12, <1>13 DEF ClientTask

\* So does every step of the owner, the senders, the server and the rest of the process.
LEMMA OthersPreserveCInv ==
  ASSUME CInv, [Next]_vars, ~ClientTask
  PROVE  CInv' /\ [Abstract!Next]_Abstract!vars
<1> USE SocketAssumption, ClientAssumption
    DEF CInv, socketVars, sendVars, clientVars, endpointVars
<1>0. EndpointType
  BY DEF TypeOK, EndpointType
<1> DEFINE Rest == TypeOK /\ NamesInv /\ NoPeers /\ ListInv /\ SendInv /\ RefusedInv
           Step == EndpointInv' /\ [Abstract!Next]_Abstract!vars
<1>1. CASE OwnerStep /\ UNCHANGED <<socketVars, clientVars>>
  <2>1. EndpointType' /\ Step
    BY <1>0, <1>1, OwnerPreserves
  <2>2. task' \notin {"none", "begin", "exit"} => task' = task
    BY <1>1 DEF OwnerStep, EndReturns, Start, EndCall, EndClear, EndStop, EndJoin
  <2>3. task' = task \/ {task, task'} \subseteq {"none", "begin", "exit"}
    BY <1>1 DEF OwnerStep, EndReturns, Start, EndCall, EndClear, EndStop, EndJoin, EndpointInv
  <2>4. Rest'
    BY <1>1, <2>1, <2>3
       DEF EndpointType, TypeOK, SocketTypeOK, NamesInv, NoPeers, ListInv, SendInv, RefusedInv
  <2> QED BY <2>1, <2>4
<1>2. ASSUME NEW a \in Senders,
             \/ Send(a)
             \/ SendReturns(a) /\ UNCHANGED <<endpointVars, clientVars>>
      PROVE  Rest' /\ UNCHANGED endpointVars
  <2>1. (\E s \in Fds \cup {NoFd} : SendCall(a, s)) \/ SendReturns(a)
    BY <1>2 DEF Send, TypeOK, SocketTypeOK
  <2>2. UNCHANGED <<endpointVars, clientVars>>
    BY <1>2 DEF Send
  <2> QED
    BY <2>1, <2>2, SendFds DEF TypeOK, NoPeers, ListInv, SendInv, RefusedInv
<1>3. ASSUME OtherFile, UNCHANGED <<endpointVars, clientVars>>
      PROVE  Rest' /\ UNCHANGED endpointVars
  <2>1. SocketTypeOK' /\ NamesInv' /\ SamePeers
    BY <1>3, OtherFileFds DEF TypeOK
  <2> QED
    BY <1>3, <2>1 DEF OtherFile, TypeOK, NoPeers, SamePeers, ListInv, SendInv, RefusedInv
<1>4. ASSUME ServerCuts PROVE Rest' /\ UNCHANGED endpointVars
  BY <1>4 DEF ServerCuts, TypeOK, SocketTypeOK, NamesInv, NoPeers, ListInv, SendInv, RefusedInv
<1>5. ASSUME UNCHANGED vars PROVE Rest' /\ UNCHANGED endpointVars
  BY <1>5 DEF vars, TypeOK, SocketTypeOK, NamesInv, NoPeers, ListInv, SendInv, RefusedInv
<1>6. ASSUME Rest', UNCHANGED endpointVars PROVE CInv' /\ [Abstract!Next]_Abstract!vars
  BY <1>0, <1>6, OthersPreserve
<1> QED BY <1>1, <1>2, <1>3, <1>4, <1>5, <1>6 DEF Next

\* The inductive invariant.
THEOREM Inductive == Spec => []CInv
<1>1. Init => CInv
  BY InitCInv
<1>2. CInv /\ [Next]_vars => CInv'
  BY TaskPreserves, OthersPreserveCInv
<1> QED BY <1>1, <1>2, PTL DEF Spec

-----------------------------------------------------------------------------

\* What the code keeps to at any moment, for any number of receivers, threads and descriptors.

\* Every variable has its type.
THEOREM TypeCorrect == Spec => []TypeOK
BY Inductive, PTL DEF CInv

\* A receiver runs only while it is registered: end() and start() wait for its call.
THEOREM CalledIsRegistered == Spec => []CallsRegisteredReciever
<1>1. CInv => CallsRegisteredReciever
  BY EndpointSafe DEF CInv
<1> QED BY <1>1, Inductive, PTL

\* After end() nothing of the client runs.
THEOREM ClientQuietAfterEnd == Spec => []QuietAfterEnd
<1>1. CInv => QuietAfterEnd
  BY EndpointSafe DEF CInv
<1> QED BY <1>1, Inductive, PTL

\* do_send writes to the client's own open socket, however its unlocked read of sock_ interleaves
\* with do_disconnect, do_delete and the next do_create.
THEOREM SenderOwnsSocket == Spec => []WritesToOwnSocket
<1>1. CInv => WritesToOwnSocket
  BY DEF CInv, SendInv, NamesInv, WritesToOwnSocket
<1> QED BY <1>1, Inductive, PTL

\* No descriptor is leaked or named after it is closed, whatever creation or connect fails.
THEOREM NoDescriptorLeaks == Spec => []OwnsWhatItNames
<1>1. CInv => OwnsWhatItNames
  <2>1. SUFFICES ASSUME CInv PROVE OwnsWhatItNames
    OBVIOUS
  <2>2. \A f \in Fds : fds[f] \notin {"free", "other"} <=> fds[f] \in {"socket", "epoll"}
    BY <2>1, SocketAssumption DEF CInv, TypeOK, SocketTypeOK, File, NoPeers
  <2>3. connectedSockets_ \subseteq {sock_}
    BY <2>1 DEF CInv, ListInv
  <2>4. {f \in Fds : fds[f] \in {"socket", "epoll"}} = {sock_, epfd_} \ {NoFd}
    BY <2>1, SocketAssumption DEF CInv, NamesInv, TypeOK, SocketTypeOK
  <2> QED BY <2>2, <2>3, <2>4 DEF OwnsWhatItNames
<1> QED BY <1>1, Inductive, PTL

\* do_disconnect finds in the list the socket it erases.
THEOREM ErasesOnlyListed == Spec => []ErasesListedSocket
<1>1. CInv => ErasesListedSocket
  BY DEF CInv, ListInv, ErasesListedSocket
<1> QED BY <1>1, Inductive, PTL

\* The kevent build never connects a socket again that was refused.
THEOREM KeventConnectsFresh == Spec => []ConnectsFreshSocket
<1>1. CInv => ConnectsFreshSocket
  BY DEF CInv, RefusedInv, ConnectsFreshSocket
<1> QED BY <1>1, Inductive, PTL

\* To the application a client is a Reporter: each of its steps is one of Reporter's or none.
THEOREM ClientIsReporter == Spec => Abstract!SafeSpec
<1>1. Init => Abstract!Init
  BY InitCInv
<1>2. CInv /\ [Next]_vars => [Abstract!Next]_Abstract!vars
  BY TaskPreserves, OthersPreserveCInv
<1> QED BY <1>1, <1>2, Inductive, PTL DEF Spec, Abstract!SafeSpec
=============================================================================
