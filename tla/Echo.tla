-------------------------------- MODULE Echo --------------------------------
(***************************************************************************)
(* A client and a server on one connection, as the tests use them: the     *)
(* application sends requests through the client, the server's receiver    *)
(* replies to each from inside recieveData.  Two Endpoints and, one in     *)
(* each direction, two Framings: here ::send returns when the stream has   *)
(* room, and there is room when the task at the other end receives.        *)
(*                                                                         *)
(* The connection is up and both are started at first; each is ended at    *)
(* most once and nothing else cuts the connection.                         *)
(***************************************************************************)
EXTENDS Integers, Sequences, SequencesExt

CONSTANTS
    Owner,       \* the thread that starts and ends the client
    Task,        \* the client's th_, the server's when it replies
    Users,       \* the threads of the client's process that call its sendData
    Requests,
    RequestSize, ReplySize,   \* of each request and of its reply, in cells
    Capacity,
    Reciever, NoReciever, NoRequest

ASSUME EchoAssumption ==
    /\ RequestSize \in [Requests -> Nat \ {0}] /\ ReplySize \in [Requests -> Nat \ {0}]
    /\ Capacity \in Nat \ {0}
    /\ Reciever # NoReciever /\ NoRequest \notin Requests
    /\ Owner # Task

VARIABLES
    cOwner, cTask, cReciever, cRunning, cCalled,       \* the client
    sOwner, sTask, sReciever, sRunning, sCalled,       \* the server
    uUnsent, uStream, uPhase, uNeed, uGot, uOrder, uSent, uDelivered,  \* requests, up to the server
    dUnsent, dStream, dPhase, dNeed, dGot, dOrder, dSent, dDelivered,  \* replies, down to the client
    cut,       \* either side has closed the connection
    wanted     \* the request each user has called sendData with and do_send has not begun

clientVars == <<cOwner, cTask, cReciever, cRunning, cCalled>>
serverVars == <<sOwner, sTask, sReciever, sRunning, sCalled>>
upVars     == <<uUnsent, uStream, uPhase, uNeed, uGot, uOrder, uSent, uDelivered>>
downVars   == <<dUnsent, dStream, dPhase, dNeed, dGot, dOrder, dSent, dDelivered>>
vars       == <<clientVars, serverVars, upVars, downVars, cut, wanted>>

C == INSTANCE Endpoint WITH Recievers <- {Reciever},
       owner <- cOwner, task <- cTask, reciever_ <- cReciever, isRunning_ <- cRunning, called <- cCalled
S == INSTANCE Endpoint WITH Recievers <- {Reciever},
       owner <- sOwner, task <- sTask, reciever_ <- sReciever, isRunning_ <- sRunning, called <- sCalled
Up == INSTANCE Framing WITH Senders <- Users, Messages <- Requests, Size <- RequestSize,
       unsent <- uUnsent, stream <- uStream, phase <- uPhase, need <- uNeed, got <- uGot,
       order <- uOrder, sent <- uSent, delivered <- uDelivered
Down == INSTANCE Framing WITH Senders <- {Task}, Messages <- Requests, Size <- ReplySize,
       unsent <- dUnsent, stream <- dStream, phase <- dPhase, need <- dNeed, got <- dGot,
       order <- dOrder, sent <- dSent, delivered <- dDelivered

Init ==
    /\ cOwner = "idle" /\ cTask = "loop" /\ cReciever = Reciever /\ cRunning = TRUE /\ cCalled = NoReciever
    /\ sOwner = "idle" /\ sTask = "loop" /\ sReciever = Reciever /\ sRunning = TRUE /\ sCalled = NoReciever
    /\ Up!Init /\ Down!Init
    /\ wanted = [a \in Users |-> NoRequest]

-----------------------------------------------------------------------------
(* Client::sendData and do_send; mtx_ is kept while a frame is partly unsent *)

InSend(a) == wanted[a] # NoRequest \/ uUnsent[a] # <<>>

\* do_connect has listed the socket, do_disconnect has not erased it.
Listed == cTask \in {"loop", "poll", "report", "callback", "disconnect"}

\* Mutant: the owner sends in end as well.
MutSendCall(a) ==
    /\ ~InSend(a)
    /\ a = Task => cTask = "callback"
    /\ \E m \in Requests :
         /\ m \notin Range(uOrder) \cup Range(wanted)
         /\ wanted' = [wanted EXCEPT ![a] = m]
    /\ UNCHANGED <<clientVars, serverVars, upVars, downVars, cut>>

\* The owner does not send while it is in end, nor after; th_ sends from its callback.
SendCall(a) ==
    /\ ~InSend(a)
    /\ a = Owner => cOwner = "idle" /\ cRunning
    /\ a = Task => cTask = "callback"
    /\ \E m \in Requests :
         /\ m \notin Range(uOrder) \cup Range(wanted)
         /\ wanted' = [wanted EXCEPT ![a] = m]
    /\ UNCHANGED <<clientVars, serverVars, upVars, downVars, cut>>

SendCheck(a) ==
    /\ wanted[a] # NoRequest
    /\ \/ Listed /\ Up!SendBegin(a, wanted[a])
       \/ ~Listed /\ Up!MtxFree /\ UNCHANGED <<upVars, cut>>
    /\ wanted' = [wanted EXCEPT ![a] = NoRequest]
    /\ UNCHANGED <<clientVars, serverVars, downVars>>

SendGoesOn(a) ==
    /\ Up!SendSome(a) \/ Up!SendCut(a)
    /\ UNCHANGED <<clientVars, serverVars, downVars, wanted>>

-----------------------------------------------------------------------------
(* Both task()s: the loop, do_recieve_event, and the callback *)

\* Where a step of do_recieve_event that has left the stream in `phase' takes the task.
AfterRecieve(phase, isReport) ==
    IF isReport THEN "report"
    ELSE IF phase = "idle" THEN "loop"
    ELSE IF phase = "closed" THEN "disconnect"
    ELSE "poll"

\* Mutant: the client's loop does not look at isRunning_.
MutClientLoop == C!TaskStep("loop", "poll") /\ UNCHANGED <<serverVars, upVars, downVars, cut, wanted>>

ClientLoop ==
    /\ C!TaskStep("loop", IF cRunning THEN "poll" ELSE "disconnect")
    /\ UNCHANGED <<serverVars, upVars, downVars, cut, wanted>>

ClientRecieve ==
    /\ Down!Recieve
    /\ C!TaskStep("poll", AfterRecieve(dPhase', dDelivered' # dDelivered))
    /\ UNCHANGED <<serverVars, upVars, wanted>>

ClientReport ==
    /\ C!CallbackBegin("report", "loop")
    /\ UNCHANGED <<serverVars, upVars, downVars, cut, wanted>>

\* The receiver returns, with what it sent on its way or refused.
ClientReportEnd ==
    /\ Task \in Users => ~InSend(Task)
    /\ C!CallbackEnd("loop")
    /\ UNCHANGED <<serverVars, upVars, downVars, cut, wanted>>

ClientDisconnect ==
    /\ C!TaskStep("disconnect", "delete")
    /\ UNCHANGED <<serverVars, upVars, downVars, cut, wanted>>

\* Mutant: do_delete closes the socket without mtx_.
MutClientDelete ==
    /\ C!TaskStep("delete", "begin")
    /\ cut' = TRUE
    /\ UNCHANGED <<serverVars, upVars, downVars, wanted>>

\* do_delete waits for mtx_ and closes the socket.
ClientDelete ==
    /\ Up!MtxFree
    /\ C!TaskStep("delete", "begin")
    /\ cut' = TRUE
    /\ UNCHANGED <<serverVars, upVars, downVars, wanted>>

\* The outer loop: the server is not started again, so a client that is not ended retries.
ClientExit ==
    /\ ~cRunning
    /\ C!TaskStep("begin", "exit")
    /\ UNCHANGED <<serverVars, upVars, downVars, cut, wanted>>

ServerLoop ==
    /\ \/ ~sRunning /\ S!TaskStep("loop", "close")
       \/ sRunning /\ uPhase # "closed" /\ S!TaskStep("loop", "poll")
    /\ UNCHANGED <<clientVars, upVars, downVars, cut, wanted>>

\* The server closes a connection that is cut and goes on without it.
ServerRecieve ==
    /\ Up!Recieve
    /\ LET next == AfterRecieve(uPhase', uDelivered' # uDelivered)
       IN  S!TaskStep("poll", IF next = "disconnect" THEN "loop" ELSE next)
    /\ UNCHANGED <<clientVars, downVars, wanted>>

\* Mutant: a report that finds mtx_ taken is given up.
MutServerReport ==
    /\ \/ S!CallbackBegin("report", "loop")
       \/ S!TaskStep("report", "loop")
    /\ UNCHANGED <<clientVars, upVars, downVars, cut, wanted>>

ServerReport ==
    /\ S!CallbackBegin("report", "loop")
    /\ UNCHANGED <<clientVars, upVars, downVars, cut, wanted>>

\* The request the server's callback was handed.
Request == Head(Last(uDelivered))[1]

\* Manager::recieveData sends its reply to the connection the request came from.
Reply ==
    /\ sTask = "callback"
    /\ Down!SendBegin(Task, Request)
    /\ UNCHANGED <<clientVars, serverVars, upVars, wanted>>

ReplyGoesOn ==
    /\ Down!SendSome(Task) \/ Down!SendCut(Task)
    /\ UNCHANGED <<clientVars, serverVars, upVars, wanted>>

\* Mutant: the server closes the connection after a reply.
MutServerReportEnd ==
    /\ S!CallbackEnd("loop")
    /\ Request \in Range(dOrder) /\ Down!MtxFree
    /\ cut' = TRUE
    /\ UNCHANGED <<clientVars, upVars, downVars, wanted>>

ServerReportEnd ==
    /\ S!CallbackEnd("loop")
    /\ Request \in Range(dOrder) /\ Down!MtxFree
    /\ UNCHANGED <<clientVars, upVars, downVars, cut, wanted>>

\* Mutant: the accepted connections are forgotten, not closed.
MutServerClose ==
    /\ S!TaskStep("close", "exit")
    /\ UNCHANGED <<clientVars, upVars, downVars, cut, wanted>>

\* do_disconnect_all and do_delete.
ServerClose ==
    /\ S!TaskStep("close", "exit")
    /\ cut' = TRUE
    /\ UNCHANGED <<clientVars, upVars, downVars, wanted>>

-----------------------------------------------------------------------------
(* The owners' end(), once *)

ClientEnd ==
    /\ \/ cRunning /\ ~(Owner \in Users /\ InSend(Owner)) /\ C!EndCall
       \/ C!EndReturns
    /\ UNCHANGED <<serverVars, upVars, downVars, cut, wanted>>

ServerEnd ==
    /\ \/ sRunning /\ S!EndCall
       \/ S!EndReturns
    /\ UNCHANGED <<clientVars, upVars, downVars, cut, wanted>>

Finished ==
    /\ cTask = "none" /\ sTask = "none" /\ \A a \in Users : ~InSend(a)
    /\ UNCHANGED vars

-----------------------------------------------------------------------------

ClientTask ==
    \/ ClientLoop \/ ClientRecieve \/ ClientReport \/ ClientReportEnd
    \/ ClientDisconnect \/ ClientDelete \/ ClientExit

ServerTask ==
    \/ ServerLoop \/ ServerRecieve \/ ServerReport \/ Reply \/ ReplyGoesOn \/ ServerReportEnd
    \/ ServerClose

Next ==
    \/ ClientTask \/ ServerTask \/ ClientEnd \/ ServerEnd
    \/ \E a \in Users : SendCall(a) \/ SendCheck(a) \/ SendGoesOn(a)
    \/ Finished

Spec == Init /\ [][Next]_vars

(***************************************************************************)
(* Every thread goes on when it can, and epoll_wait does not overlook for  *)
(* ever what there is to receive.  That ::send returns is not assumed.     *)
(***************************************************************************)
FairSpec ==
    /\ Spec
    /\ WF_vars(ClientTask) /\ SF_vars(ClientRecieve /\ dPhase' # dPhase)
    /\ WF_vars(ServerTask) /\ SF_vars(ServerRecieve /\ uPhase' # uPhase)
    /\ WF_vars(C!EndReturns /\ ClientEnd)
    /\ WF_vars(S!EndReturns /\ ServerEnd)
    /\ \A a \in Users : WF_vars(SendCheck(a) \/ SendGoesOn(a))

-----------------------------------------------------------------------------
(* Standstill *)

ClientCanGo ==
    \/ cTask \in {"loop", "report", "disconnect"}
    \/ cTask = "poll" /\ Down!CanRecieve
    \/ cTask = "callback" /\ (Task \in Users => ~InSend(Task))
    \/ cTask = "delete" /\ Up!MtxFree
    \/ cTask = "begin" /\ ~cRunning

ServerCanGo ==
    \/ sTask \in {"report", "close"}
    \/ sTask = "loop" /\ (sRunning => uPhase # "closed")
    \/ sTask = "poll" /\ Up!CanRecieve
    \/ sTask = "callback" /\ (dUnsent[Task] = <<>> \/ Down!CanSend(Task))

\* end() waits for the callback, then for the thread.
EndCanGo(owner, task, called) ==
    \/ owner = "lock" /\ called = NoReciever
    \/ owner = "stop"
    \/ owner = "join" /\ task = "exit"

\* Something goes on without a new call of sendData or end().
CanGo ==
    \/ ClientCanGo \/ ServerCanGo
    \/ EndCanGo(cOwner, cTask, cCalled) \/ EndCanGo(sOwner, sTask, sCalled)
    \/ \E a \in Users : Up!CanSend(a) \/ (wanted[a] # NoRequest /\ Up!MtxFree)

\* The client is ended or would connect again, the server is ended or waits for a client.
AtRest ==
    /\ cOwner = "idle" /\ (cTask = "none" \/ (cTask = "begin" /\ cRunning))
    /\ sOwner = "idle" /\ (sTask = "none" \/ (sTask = "loop" /\ sRunning /\ uPhase = "closed"))
    /\ \A a \in Users : ~InSend(a)

\* A user is in ::send with the client's mtx_ and waits for the server to receive; the server's
\* callback is in ::send and waits for the client to receive; and the client's task does not, for
\* its receiver is sending too or it waits for that mtx_.
Knot ==
    /\ \E a \in Users : uUnsent[a] # <<>>
    /\ sTask = "callback" /\ dUnsent[Task] # <<>>
    /\ cTask = "delete" \/ (cTask = "callback" /\ Task \in Users /\ InSend(Task))
    /\ Len(uStream) = Capacity /\ Len(dStream) = Capacity /\ ~cut

-----------------------------------------------------------------------------

TypeOK ==
    /\ Up!TypeOK /\ Down!TypeOK
    /\ cOwner \in {"idle", "lock", "stop", "join"} /\ sOwner \in {"idle", "lock", "stop", "join"}
    /\ cTask \in {"loop", "poll", "report", "callback", "disconnect", "delete", "begin", "exit", "none"}
    /\ sTask \in {"loop", "poll", "report", "callback", "close", "exit", "none"}
    /\ {cReciever, sReciever, cCalled, sCalled} \subseteq {Reciever, NoReciever}
    /\ cRunning \in BOOLEAN /\ sRunning \in BOOLEAN
    /\ wanted \in [Users -> Requests \cup {NoRequest}]

\* The i-th reply the client receives is the one to the i-th request the client sent, whole,
\* whoever sent it and whatever is ended in between.
AnswersInOrder ==
    /\ Len(dDelivered) <= Len(uOrder)
    /\ \A i \in DOMAIN dDelivered : dDelivered[i] = Down!Data(uOrder[i])

\* A request that sendData accepted is answered, unless a side is ended meanwhile: request and
\* reply may both be longer than what the connection holds.
Answered ==
    \A m \in Requests :
      m \in uSent ~> \/ ~cRunning \/ ~sRunning
                     \/ \E i \in DOMAIN dDelivered : dDelivered[i] = Down!Data(m)

\* An end() of either side returns, whatever the other side and the sender are doing.
EndsReturn == C!EndTerminates /\ S!EndTerminates

\* Both sides keep to Reporter also while they wait for each other in ::send: an end() goes past
\* the callback only when it is over, and no receiver is called from then on.
BothReport ==
    /\ [][C!Abstract!Next]_(C!Abstract!vars)
    /\ [][S!Abstract!Next]_(S!Abstract!vars)

\* A standstill is always this knot, or nothing is left to do: no thread is ever lost, and no lock
\* is, in any other way.
OnlyKnot == CanGo \/ Knot \/ AtRest

\* The knot is not untied by anything either side does, an end() of either included.
KnotStays == [][Knot => Knot']_vars

\* With the owner alone sending, as in the tests, there is no knot.
OneSenderGoesOn == Users \subseteq {Owner} => CanGo \/ AtRest
=============================================================================
