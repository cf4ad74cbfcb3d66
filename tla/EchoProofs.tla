----------------------------- MODULE EchoProofs -----------------------------
(***************************************************************************)
(* Proofs about Echo.  Each direction of the connection is a Framing, so   *)
(* what FramingProofs proves holds of it; the server's callback replies to *)
(* each request it is handed before the next one is received.              *)
(***************************************************************************)
EXTENDS Echo, TLAPS, SequenceTheorems, FiniteSetTheorems

CP == INSTANCE EndpointProofs WITH Recievers <- {Reciever},
       owner <- cOwner, task <- cTask, reciever_ <- cReciever, isRunning_ <- cRunning, called <- cCalled
SP == INSTANCE EndpointProofs WITH Recievers <- {Reciever},
       owner <- sOwner, task <- sTask, reciever_ <- sReciever, isRunning_ <- sRunning, called <- sCalled
UpP == INSTANCE FramingProofs WITH Senders <- Users, Messages <- Requests, Size <- RequestSize,
       unsent <- uUnsent, stream <- uStream, phase <- uPhase, need <- uNeed, got <- uGot,
       order <- uOrder, sent <- uSent, delivered <- uDelivered
DownP == INSTANCE FramingProofs WITH Senders <- {Task}, Messages <- Requests, Size <- ReplySize,
       unsent <- dUnsent, stream <- dStream, phase <- dPhase, need <- dNeed, got <- dGot,
       order <- dOrder, sent <- dSent, delivered <- dDelivered

-----------------------------------------------------------------------------
(* Assumptions and names of the instances *)

\* What the instances assume of their constants, Echo assumes.
LEMMA Assumptions ==
  /\ RequestSize \in [Requests -> Nat] /\ ReplySize \in [Requests -> Nat]
  /\ Capacity \in Nat \ {0}
  /\ NoReciever \notin {Reciever}
BY EchoAssumption

\* What the stream of requests promises: each request is sent once, and the first ones are
\* delivered, whole and in order.
UpSound ==
    /\ uOrder \in Seq(Requests) /\ uDelivered \in Seq(Seq(Up!Cells))
    /\ \A j, k \in 1..Len(uOrder) : uOrder[j] = uOrder[k] => j = k
    /\ Len(uDelivered) <= Len(uOrder)
    /\ \A k \in 1..Len(uDelivered) : uDelivered[k] = Up!Data(uOrder[k])

\* The same of the stream of replies.
DownSound ==
    /\ dOrder \in Seq(Requests) /\ dDelivered \in Seq(Seq(Down!Cells))
    /\ \A j, k \in 1..Len(dOrder) : dOrder[j] = dOrder[k] => j = k
    /\ Len(dDelivered) <= Len(dOrder)
    /\ \A k \in 1..Len(dDelivered) : dDelivered[k] = Down!Data(dOrder[k])

\* Up and UpP are the same Framing.
LEMMA UpNames ==
  /\ Up!Init => UpP!Init
  /\ [Up!Next]_Up!vars => [UpP!Next]_UpP!vars
  /\ UpP!TypeOK => Up!TypeOK
  /\ \A m : Up!Data(m) = UpP!Data(m)
<1>1. Up!HeaderSize = UpP!HeaderSize
  BY DEF Up!HeaderSize, UpP!HeaderSize
<1>2. \A m : Up!Frame(m) = UpP!Frame(m)
  BY <1>1 DEF Up!Frame, UpP!Frame
<1>3. \A m : Up!Data(m) = UpP!Data(m)
  BY <1>1 DEF Up!Data, UpP!Data
<1>4. Up!Init => UpP!Init
  BY DEF Up!Init, UpP!Init
<1>5. [Up!Next]_Up!vars => [UpP!Next]_UpP!vars
  <2>1. ASSUME NEW a \in Users
        PROVE  /\ Up!SendSome(a) => UpP!SendSome(a)
               /\ Up!SendCut(a) => UpP!SendCut(a)
               /\ \A m \in Requests : Up!SendBegin(a, m) => UpP!SendBegin(a, m)
    <3>1. Up!SendSome(a) => UpP!SendSome(a)
      BY DEF Up!SendSome, UpP!SendSome
    <3>2. Up!SendCut(a) => UpP!SendCut(a)
      BY DEF Up!SendCut, UpP!SendCut
    <3>3. \A m \in Requests : Up!SendBegin(a, m) => UpP!SendBegin(a, m)
      BY <1>2 DEF Up!SendBegin, UpP!SendBegin, Up!MtxFree, UpP!MtxFree, Up!Range, UpP!Range
    <3> QED BY <3>1, <3>2, <3>3
  <2>2. Up!WaitEvent => UpP!WaitEvent
    BY <1>1 DEF Up!WaitEvent, UpP!WaitEvent
  <2>3. Up!recv_ => UpP!recv_
    BY DEF Up!recv_, UpP!recv_
  <2>4. Up!RecvCut => UpP!RecvCut
    BY DEF Up!RecvCut, UpP!RecvCut
  <2>5. Up!RecvData => UpP!RecvData
    BY DEF Up!RecvData, UpP!RecvData
  <2>6. Up!GiveUp => UpP!GiveUp
    BY DEF Up!GiveUp, UpP!GiveUp
  <2>7. Up!PeerCuts => UpP!PeerCuts
    BY DEF Up!PeerCuts, UpP!PeerCuts
  <2>8. Up!RecvHead => UpP!RecvHead
    BY DEF Up!RecvHead, UpP!RecvHead, Up!SizeIn, UpP!SizeIn
  <2>9. Up!Closed => UpP!Closed
    BY DEF Up!Closed, UpP!Closed, Up!vars, UpP!vars
  <2>10. UNCHANGED Up!vars => UNCHANGED UpP!vars
    BY DEF Up!vars, UpP!vars
  <2> QED BY <2>1, <2>2, <2>3, <2>4, <2>5, <2>6, <2>7, <2>8, <2>9, <2>10
          DEF Up!Next, UpP!Next, Up!Recieve, UpP!Recieve
<1>6. UpP!TypeOK => Up!TypeOK
  <2>1. Up!Cells = UpP!Cells
    BY <1>2 DEF Up!Cells, UpP!Cells, Up!Range, UpP!Range
  <2> QED BY <2>1 DEF Up!TypeOK, UpP!TypeOK
<1> QED BY <1>3, <1>4, <1>5, <1>6

\* So they have the same behaviours.
LEMMA UpSpecs == Up!Spec => UpP!Spec
<1>1. Up!Init => UpP!Init
  BY UpNames
<1>2. [Up!Next]_Up!vars => [UpP!Next]_UpP!vars
  BY UpNames
<1> QED BY <1>1, <1>2, PTL DEF Up!Spec, UpP!Spec

\* What FramingProofs proves, where every message has data.
LEMMA UpIsSound == Up!Spec => [](Up!TypeOK /\ UpSound)
<1>1. Up!Spec => UpP!Spec
  BY UpSpecs
<1>2. UpP!Spec => [](UpP!FInv /\ UpP!WholeAndInOrder)
  <2>1. UpP!Spec => []UpP!FInv
    BY Assumptions, UpP!Inductive
  <2>2. UpP!Spec => []UpP!WholeAndInOrder
    BY Assumptions, UpP!ReportedAsSent
  <2> QED BY <2>1, <2>2, PTL
<1>3. ASSUME UpP!FInv, UpP!WholeAndInOrder PROVE Up!TypeOK /\ UpSound
  <2>1. UpP!TypeOK /\ UpP!SenderInv
    BY <1>3 DEF UpP!FInv
  <2>2. Up!TypeOK
    BY <2>1, UpNames
  <2>3. uOrder \in Seq(Requests) /\ uDelivered \in Seq(Seq(Up!Cells))
    BY <2>2 DEF Up!TypeOK
  <2>4. /\ Len(uOrder) \in Nat /\ DOMAIN uOrder = 1..Len(uOrder) /\ Len(uDelivered) \in Nat
        /\ \A k \in 1..Len(uOrder) : uOrder[k] \in Requests
    BY <2>3, LenProperties, ElementOfSeq
  <2>5. ASSUME NEW k \in 0..Len(uOrder) PROVE UpP!Rank(k) = k
    <3>1. {j \in 1..k : RequestSize[uOrder[j]] > 0} = 1..k
      BY <2>4, EchoAssumption
    <3>2. Cardinality(1..k) = k
      BY <2>4, FS_Interval
    <3>3. \A T : UpP!Cardinality(T) = Cardinality(T)
      BY DEF UpP!Cardinality, Cardinality
    <3> QED BY <3>1, <3>2, <3>3 DEF UpP!Rank
  <2>6. Len(uDelivered) <= Len(uOrder)
    BY <1>3, <2>4, <2>5 DEF UpP!WholeAndInOrder
  <2>7. ASSUME NEW k \in 1..Len(uDelivered) PROVE uDelivered[k] = Up!Data(uOrder[k])
    <3>1. k \in 1..Len(uOrder) /\ k \in 0..Len(uOrder)
      BY <2>4, <2>6
    <3>2. RequestSize[uOrder[k]] > 0
      BY <2>4, <3>1, EchoAssumption
    <3>3. UpP!Rank(k) = k /\ k <= Len(uDelivered)
      BY <2>4, <2>5, <3>1
    <3>4. uDelivered[k] = UpP!Data(uOrder[k])
      BY <1>3, <2>4, <3>1, <3>2, <3>3 DEF UpP!WholeAndInOrder
    <3> QED BY <3>4, UpNames
  <2> QED BY <2>1, <2>2, <2>3, <2>6, <2>7 DEF UpSound, UpP!SenderInv
<1> QED BY <1>1, <1>2, <1>3, PTL

\* Down and DownP are the same Framing.
LEMMA DownNames ==
  /\ Down!Init => DownP!Init
  /\ [Down!Next]_Down!vars => [DownP!Next]_DownP!vars
  /\ DownP!TypeOK => Down!TypeOK
  /\ \A m : Down!Data(m) = DownP!Data(m)
<1>1. Down!HeaderSize = DownP!HeaderSize
  BY DEF Down!HeaderSize, DownP!HeaderSize
<1>2. \A m : Down!Frame(m) = DownP!Frame(m)
  BY <1>1 DEF Down!Frame, DownP!Frame
<1>3. \A m : Down!Data(m) = DownP!Data(m)
  BY <1>1 DEF Down!Data, DownP!Data
<1>4. Down!Init => DownP!Init
  BY DEF Down!Init, DownP!Init
<1>5. [Down!Next]_Down!vars => [DownP!Next]_DownP!vars
  <2>1. ASSUME NEW a \in {Task}
        PROVE  /\ Down!SendSome(a) => DownP!SendSome(a)
               /\ Down!SendCut(a) => DownP!SendCut(a)
               /\ \A m \in Requests : Down!SendBegin(a, m) => DownP!SendBegin(a, m)
    <3>1. Down!SendSome(a) => DownP!SendSome(a)
      BY DEF Down!SendSome, DownP!SendSome
    <3>2. Down!SendCut(a) => DownP!SendCut(a)
      BY DEF Down!SendCut, DownP!SendCut
    <3>3. \A m \in Requests : Down!SendBegin(a, m) => DownP!SendBegin(a, m)
      BY <1>2 DEF Down!SendBegin, DownP!SendBegin, Down!MtxFree, DownP!MtxFree, Down!Range, DownP!Range
    <3> QED BY <3>1, <3>2, <3>3
  <2>2. Down!WaitEvent => DownP!WaitEvent
    BY <1>1 DEF Down!WaitEvent, DownP!WaitEvent
  <2>3. Down!recv_ => DownP!recv_
    BY DEF Down!recv_, DownP!recv_
  <2>4. Down!RecvCut => DownP!RecvCut
    BY DEF Down!RecvCut, DownP!RecvCut
  <2>5. Down!RecvData => DownP!RecvData
    BY DEF Down!RecvData, DownP!RecvData
  <2>6. Down!GiveUp => DownP!GiveUp
    BY DEF Down!GiveUp, DownP!GiveUp
  <2>7. Down!PeerCuts => DownP!PeerCuts
    BY DEF Down!PeerCuts, DownP!PeerCuts
  <2>8. Down!RecvHead => DownP!RecvHead
    BY DEF Down!RecvHead, DownP!RecvHead, Down!SizeIn, DownP!SizeIn
  <2>9. Down!Closed => DownP!Closed
    BY DEF Down!Closed, DownP!Closed, Down!vars, DownP!vars
  <2>10. UNCHANGED Down!vars => UNCHANGED DownP!vars
    BY DEF Down!vars, DownP!vars
  <2> QED BY <2>1, <2>2, <2>3, <2>4, <2>5, <2>6, <2>7, <2>8, <2>9, <2>10
          DEF Down!Next, DownP!Next, Down!Recieve, DownP!Recieve
<1>6. DownP!TypeOK => Down!TypeOK
  <2>1. Down!Cells = DownP!Cells
    BY <1>2 DEF Down!Cells, DownP!Cells, Down!Range, DownP!Range
  <2> QED BY <2>1 DEF Down!TypeOK, DownP!TypeOK
<1> QED BY <1>3, <1>4, <1>5, <1>6

\* So they have the same behaviours.
LEMMA DownSpecs == Down!Spec => DownP!Spec
<1>1. Down!Init => DownP!Init
  BY DownNames
<1>2. [Down!Next]_Down!vars => [DownP!Next]_DownP!vars
  BY DownNames
<1> QED BY <1>1, <1>2, PTL DEF Down!Spec, DownP!Spec

\* The same of the replies.
LEMMA DownIsSound == Down!Spec => [](Down!TypeOK /\ DownSound)
<1>1. Down!Spec => DownP!Spec
  BY DownSpecs
<1>2. DownP!Spec => [](DownP!FInv /\ DownP!WholeAndInOrder)
  <2>1. DownP!Spec => []DownP!FInv
    BY Assumptions, DownP!Inductive
  <2>2. DownP!Spec => []DownP!WholeAndInOrder
    BY Assumptions, DownP!ReportedAsSent
  <2> QED BY <2>1, <2>2, PTL
<1>3. ASSUME DownP!FInv, DownP!WholeAndInOrder PROVE Down!TypeOK /\ DownSound
  <2>1. DownP!TypeOK /\ DownP!SenderInv
    BY <1>3 DEF DownP!FInv
  <2>2. Down!TypeOK
    BY <2>1, DownNames
  <2>3. dOrder \in Seq(Requests) /\ dDelivered \in Seq(Seq(Down!Cells))
    BY <2>2 DEF Down!TypeOK
  <2>4. /\ Len(dOrder) \in Nat /\ DOMAIN dOrder = 1..Len(dOrder) /\ Len(dDelivered) \in Nat
        /\ \A k \in 1..Len(dOrder) : dOrder[k] \in Requests
    BY <2>3, LenProperties, ElementOfSeq
  <2>5. ASSUME NEW k \in 0..Len(dOrder) PROVE DownP!Rank(k) = k
    <3>1. {j \in 1..k : ReplySize[dOrder[j]] > 0} = 1..k
      BY <2>4, EchoAssumption
    <3>2. Cardinality(1..k) = k
      BY <2>4, FS_Interval
    <3>3. \A T : DownP!Cardinality(T) = Cardinality(T)
      BY DEF DownP!Cardinality, Cardinality
    <3> QED BY <3>1, <3>2, <3>3 DEF DownP!Rank
  <2>6. Len(dDelivered) <= Len(dOrder)
    BY <1>3, <2>4, <2>5 DEF DownP!WholeAndInOrder
  <2>7. ASSUME NEW k \in 1..Len(dDelivered) PROVE dDelivered[k] = Down!Data(dOrder[k])
    <3>1. k \in 1..Len(dOrder) /\ k \in 0..Len(dOrder)
      BY <2>4, <2>6
    <3>2. ReplySize[dOrder[k]] > 0
      BY <2>4, <3>1, EchoAssumption
    <3>3. DownP!Rank(k) = k /\ k <= Len(dDelivered)
      BY <2>4, <2>5, <3>1
    <3>4. dDelivered[k] = DownP!Data(dOrder[k])
      BY <1>3, <2>4, <3>1, <3>2, <3>3 DEF DownP!WholeAndInOrder
    <3> QED BY <3>4, DownNames
  <2> QED BY <2>1, <2>2, <2>3, <2>6, <2>7 DEF DownSound, DownP!SenderInv
<1> QED BY <1>1, <1>2, <1>3, PTL

-----------------------------------------------------------------------------
(* The two endpoints, and the users of the client *)

\* Where the client's task is, outside of the callback and while it exists; and the server's.
ClientTasks == {"loop", "poll", "report", "disconnect", "delete", "begin", "exit"}
ServerTasks == {"loop", "poll", "report", "close", "exit"}

\* Both endpoints keep what Endpoint promises, and a user wants a request or none.
SidesInv ==
    /\ CP!EndpointType /\ CP!EndpointInv /\ cTask \in ClientTasks \cup {"callback", "none"}
    /\ SP!EndpointType /\ SP!EndpointInv /\ sTask \in ServerTasks \cup {"callback", "none"}
    /\ wanted \in [Users -> Requests \cup {NoRequest}]

\* A step is one operation of the client's Endpoint, or none.
LEMMA ClientSteps ==
  ASSUME [Next]_vars
  PROVE  \/ UNCHANGED clientVars
         \/ C!EndCall \/ C!EndReturns
         \/ C!CallbackBegin("report", "loop") \/ C!CallbackEnd("loop")
         \/ \E from, next \in ClientTasks : C!TaskStep(from, next)
<1>1. CASE ClientRecieve
  <2>1. AfterRecieve(dPhase', dDelivered' # dDelivered) \in ClientTasks
    BY DEF AfterRecieve, ClientTasks
  <2> QED BY <1>1, <2>1 DEF ClientRecieve, ClientTasks
<1>2. CASE ClientTask /\ ~ClientRecieve
  BY <1>2 DEF ClientTask, ClientLoop, ClientReport, ClientReportEnd, ClientDisconnect, ClientDelete,
              ClientExit, ClientTasks
<1>3. CASE ClientEnd
  BY <1>3 DEF ClientEnd
<1>4. CASE ServerTask
  BY <1>4 DEF ServerTask, ServerLoop, ServerRecieve, ServerReport, Reply, ReplyGoesOn,
              ServerReportEnd, ServerClose
<1>5. CASE ServerEnd
  BY <1>5 DEF ServerEnd
<1>6. ASSUME NEW a \in Users, SendCall(a) \/ SendCheck(a) \/ SendGoesOn(a) PROVE UNCHANGED clientVars
  BY <1>6 DEF SendCall, SendCheck, SendGoesOn
<1>7. CASE Finished \/ UNCHANGED vars
  BY <1>7 DEF Finished, vars
<1> QED BY <1>1, <1>2, <1>3, <1>4, <1>5, <1>6, <1>7 DEF Next

\* The same of the server's.
LEMMA ServerSteps ==
  ASSUME [Next]_vars
  PROVE  \/ UNCHANGED serverVars
         \/ S!EndCall \/ S!EndReturns
         \/ S!CallbackBegin("report", "loop") \/ S!CallbackEnd("loop")
         \/ \E from, next \in ServerTasks : S!TaskStep(from, next)
<1>1. CASE ServerRecieve
  <2>1. PICK next : /\ S!TaskStep("poll", next)
                    /\ next \in {"report", "loop", "poll"}
    BY <1>1 DEF ServerRecieve, AfterRecieve
  <2> QED BY <2>1 DEF ServerTasks
<1>2. CASE ServerTask /\ ~ServerRecieve
  BY <1>2 DEF ServerTask, ServerLoop, ServerReport, Reply, ReplyGoesOn, ServerReportEnd,
              ServerClose, ServerTasks
<1>3. CASE ServerEnd
  BY <1>3 DEF ServerEnd
<1>4. CASE ClientTask
  BY <1>4 DEF ClientTask, ClientLoop, ClientRecieve, ClientReport, ClientReportEnd,
              ClientDisconnect, ClientDelete, ClientExit
<1>5. CASE ClientEnd
  BY <1>5 DEF ClientEnd
<1>6. ASSUME NEW a \in Users, SendCall(a) \/ SendCheck(a) \/ SendGoesOn(a) PROVE UNCHANGED serverVars
  BY <1>6 DEF SendCall, SendCheck, SendGoesOn
<1>7. CASE Finished \/ UNCHANGED vars
  BY <1>7 DEF Finished, vars
<1> QED BY <1>1, <1>2, <1>3, <1>4, <1>5, <1>6, <1>7 DEF Next

\* C and CP are the same Endpoint, S and SP are.
LEMMA SideNames ==
  /\ [CP!Abstract!Next]_(CP!Abstract!vars) => [C!Abstract!Next]_(C!Abstract!vars)
  /\ [SP!Abstract!Next]_(SP!Abstract!vars) => [S!Abstract!Next]_(S!Abstract!vars)
<1>1. [CP!Abstract!Next]_(CP!Abstract!vars) => [C!Abstract!Next]_(C!Abstract!vars)
  <2>1. CP!Abstract!Next => C!Abstract!Next
    BY DEF CP!Abstract!Next, C!Abstract!Next,
           CP!Abstract!Start, C!Abstract!Start, CP!Abstract!End, C!Abstract!End,
           CP!Abstract!Unregister, C!Abstract!Unregister, CP!Abstract!Report, C!Abstract!Report,
           CP!Abstract!Return, C!Abstract!Return, CP!Abstract!Ended, C!Abstract!Ended
  <2>2. UNCHANGED CP!Abstract!vars => UNCHANGED C!Abstract!vars
    BY DEF CP!Abstract!vars, C!Abstract!vars
  <2> QED BY <2>1, <2>2
<1>2. [SP!Abstract!Next]_(SP!Abstract!vars) => [S!Abstract!Next]_(S!Abstract!vars)
  <2>1. SP!Abstract!Next => S!Abstract!Next
    BY DEF SP!Abstract!Next, S!Abstract!Next,
           SP!Abstract!Start, S!Abstract!Start, SP!Abstract!End, S!Abstract!End,
           SP!Abstract!Unregister, S!Abstract!Unregister, SP!Abstract!Report, S!Abstract!Report,
           SP!Abstract!Return, S!Abstract!Return, SP!Abstract!Ended, S!Abstract!Ended
  <2>2. UNCHANGED SP!Abstract!vars => UNCHANGED S!Abstract!vars
    BY DEF SP!Abstract!vars, S!Abstract!vars
  <2> QED BY <2>1, <2>2
<1> QED BY <1>1, <1>2

\* The client's endpoint keeps its invariant, and a step is one of Reporter's or none.
LEMMA ClientSide ==
  ASSUME SidesInv, [Next]_vars
  PROVE  /\ CP!EndpointType' /\ CP!EndpointInv'
         /\ cTask' \in ClientTasks \cup {"callback", "none"}
         /\ [CP!Abstract!Next]_(CP!Abstract!vars)
<1>1. CP!EndpointType /\ CP!EndpointInv /\ cTask \in ClientTasks \cup {"callback", "none"}
  BY DEF SidesInv
<1>2. CASE UNCHANGED clientVars
  <2>1. UNCHANGED CP!endpointVars
    BY <1>2 DEF clientVars, CP!endpointVars
  <2> QED BY <1>1, <1>2, <2>1, Assumptions, CP!OthersPreserve DEF clientVars
<1>3. CASE C!EndCall \/ C!EndReturns
  <2>1. CP!OwnerStep
    BY <1>3 DEF CP!OwnerStep, CP!EndCall, CP!EndReturns, CP!EndClear, CP!EndStop, CP!EndJoin,
                C!EndCall, C!EndReturns, C!EndClear, C!EndStop, C!EndJoin
  <2>2. cTask' \in {cTask, "none"}
    BY <1>3 DEF C!EndCall, C!EndReturns, C!EndClear, C!EndStop, C!EndJoin
  <2> QED BY <1>1, <2>1, <2>2, Assumptions, CP!OwnerPreserves
<1>4. CASE C!CallbackBegin("report", "loop")
  <2>1. CP!CallbackBegin("report", "loop") /\ cTask' \in {"loop", "callback"}
    BY <1>4 DEF CP!CallbackBegin, C!CallbackBegin
  <2> QED BY <1>1, <2>1, Assumptions, CP!CallbackBeginPreserves DEF ClientTasks
<1>5. CASE C!CallbackEnd("loop")
  <2>1. CP!CallbackEnd("loop") /\ cTask' = "loop"
    BY <1>5 DEF CP!CallbackEnd, C!CallbackEnd
  <2> QED BY <1>1, <2>1, Assumptions, CP!CallbackEndPreserves DEF ClientTasks
<1>6. ASSUME NEW from \in ClientTasks, NEW next \in ClientTasks, C!TaskStep(from, next)
      PROVE  CP!EndpointType' /\ CP!EndpointInv' /\ cTask' \in ClientTasks /\ UNCHANGED CP!Abstract!vars
  <2>1. CP!TaskStep(from, next) /\ cTask' = next
    BY <1>6 DEF CP!TaskStep, C!TaskStep
  <2>2. from \notin {"none", "callback"} /\ next \notin {"none", "callback"}
    BY DEF ClientTasks
  <2> QED BY <1>1, <2>1, <2>2, Assumptions, CP!TaskStepPreserves
<1> QED BY <1>2, <1>3, <1>4, <1>5, <1>6, ClientSteps

\* The server's endpoint keeps its invariant, and a step is one of Reporter's or none.
LEMMA ServerSide ==
  ASSUME SidesInv, [Next]_vars
  PROVE  /\ SP!EndpointType' /\ SP!EndpointInv'
         /\ sTask' \in ServerTasks \cup {"callback", "none"}
         /\ [SP!Abstract!Next]_(SP!Abstract!vars)
<1>1. SP!EndpointType /\ SP!EndpointInv /\ sTask \in ServerTasks \cup {"callback", "none"}
  BY DEF SidesInv
<1>2. CASE UNCHANGED serverVars
  <2>1. UNCHANGED SP!endpointVars
    BY <1>2 DEF serverVars, SP!endpointVars
  <2> QED BY <1>1, <1>2, <2>1, Assumptions, SP!OthersPreserve DEF serverVars
<1>3. CASE S!EndCall \/ S!EndReturns
  <2>1. SP!OwnerStep
    BY <1>3 DEF SP!OwnerStep, SP!EndCall, SP!EndReturns, SP!EndClear, SP!EndStop, SP!EndJoin,
                S!EndCall, S!EndReturns, S!EndClear, S!EndStop, S!EndJoin
  <2>2. sTask' \in {sTask, "none"}
    BY <1>3 DEF S!EndCall, S!EndReturns, S!EndClear, S!EndStop, S!EndJoin
  <2> QED BY <1>1, <2>1, <2>2, Assumptions, SP!OwnerPreserves
<1>4. CASE S!CallbackBegin("report", "loop")
  <2>1. SP!CallbackBegin("report", "loop") /\ sTask' \in {"loop", "callback"}
    BY <1>4 DEF SP!CallbackBegin, S!CallbackBegin
  <2> QED BY <1>1, <2>1, Assumptions, SP!CallbackBeginPreserves DEF ServerTasks
<1>5. CASE S!CallbackEnd("loop")
  <2>1. SP!CallbackEnd("loop") /\ sTask' = "loop"
    BY <1>5 DEF SP!CallbackEnd, S!CallbackEnd
  <2> QED BY <1>1, <2>1, Assumptions, SP!CallbackEndPreserves DEF ServerTasks
<1>6. ASSUME NEW from \in ServerTasks, NEW next \in ServerTasks, S!TaskStep(from, next)
      PROVE  SP!EndpointType' /\ SP!EndpointInv' /\ sTask' \in ServerTasks /\ UNCHANGED SP!Abstract!vars
  <2>1. SP!TaskStep(from, next) /\ sTask' = next
    BY <1>6 DEF SP!TaskStep, S!TaskStep
  <2>2. from \notin {"none", "callback"} /\ next \notin {"none", "callback"}
    BY DEF ServerTasks
  <2> QED BY <1>1, <2>1, <2>2, Assumptions, SP!TaskStepPreserves
<1> QED BY <1>2, <1>3, <1>4, <1>5, <1>6, ServerSteps

\* Every step preserves it: the two owners, the two tasks and the users each do their part.
LEMMA NextSides == SidesInv /\ [Next]_vars => SidesInv'
<1> SUFFICES ASSUME SidesInv, [Next]_vars PROVE SidesInv'
  OBVIOUS
<1>1. /\ CP!EndpointType' /\ CP!EndpointInv'
      /\ cTask' \in ClientTasks \cup {"callback", "none"}
  BY ClientSide
<1>2. /\ SP!EndpointType' /\ SP!EndpointInv'
      /\ sTask' \in ServerTasks \cup {"callback", "none"}
  BY ServerSide
<1>3. wanted' \in [Users -> Requests \cup {NoRequest}]
  <2>1. wanted \in [Users -> Requests \cup {NoRequest}]
    BY DEF SidesInv
  <2>2. ASSUME NEW a \in Users, SendCall(a) PROVE wanted' \in [Users -> Requests \cup {NoRequest}]
    BY <2>1, <2>2 DEF SendCall
  <2>3. ASSUME NEW a \in Users, SendCheck(a) PROVE wanted' \in [Users -> Requests \cup {NoRequest}]
    BY <2>1, <2>3 DEF SendCheck
  <2>4. ASSUME NEW a \in Users, SendGoesOn(a) PROVE wanted' = wanted
    BY <2>4 DEF SendGoesOn
  <2>5. CASE ClientTask
    BY <2>1, <2>5 DEF ClientTask, ClientLoop, ClientRecieve, ClientReport, ClientReportEnd,
                      ClientDisconnect, ClientDelete, ClientExit
  <2>6. CASE ServerTask
    BY <2>1, <2>6 DEF ServerTask, ServerLoop, ServerRecieve, ServerReport, Reply, ReplyGoesOn,
                      ServerReportEnd, ServerClose
  <2>7. CASE ClientEnd \/ ServerEnd \/ Finished \/ UNCHANGED vars
    BY <2>1, <2>7 DEF ClientEnd, ServerEnd, Finished, vars
  <2> QED BY <2>1, <2>2, <2>3, <2>4, <2>5, <2>6, <2>7 DEF Next
<1> QED BY <1>1, <1>2, <1>3 DEF SidesInv

\* It holds from the start, where both sides run.
LEMMA Sides == Spec => []SidesInv
<1>1. Init => SidesInv
  <2> SUFFICES ASSUME Init PROVE SidesInv
    OBVIOUS
  <2>1. CP!EndpointType /\ SP!EndpointType
    BY DEF Init, CP!EndpointType, SP!EndpointType
  <2>2. CP!EndpointInv /\ SP!EndpointInv
    BY EchoAssumption DEF Init, CP!EndpointInv, SP!EndpointInv
  <2> QED BY <2>1, <2>2 DEF Init, SidesInv, ClientTasks, ServerTasks
<1> QED BY <1>1, NextSides, PTL DEF Spec

\* Each side promises its application what Reporter says, with the other side in any state.
THEOREM BothAreReporters == Spec => BothReport
<1>1. SidesInv /\ [Next]_vars => /\ [C!Abstract!Next]_(C!Abstract!vars)
                                 /\ [S!Abstract!Next]_(S!Abstract!vars)
  BY ClientSide, ServerSide, SideNames
<1> QED BY <1>1, Sides, PTL DEF Spec, BothReport

-----------------------------------------------------------------------------
(* Each direction is a Framing *)

\* A step of the two sides is a step of the framing of the requests, or none of it.
LEMMA UpSteps ==
  ASSUME SidesInv, [Next]_vars
  PROVE  [Up!Next]_Up!vars
<1>1. \A a \in Users : wanted[a] # NoRequest => wanted[a] \in Requests
  BY DEF SidesInv
<1>2. ASSUME NEW a \in Users, SendCheck(a) PROVE [Up!Next]_Up!vars
  <2>1. CASE Listed /\ Up!SendBegin(a, wanted[a])
    <3>1. wanted[a] \in Requests
      BY <1>1, <1>2 DEF SendCheck
    <3> QED BY <2>1, <3>1 DEF Up!Next
  <2>2. CASE UNCHANGED <<upVars, cut>>
    BY <2>2 DEF Up!vars, upVars
  <2> QED BY <1>2, <2>1, <2>2 DEF SendCheck
<1>3. ASSUME NEW a \in Users, SendGoesOn(a) PROVE Up!Next
  BY <1>3 DEF SendGoesOn, Up!Next
<1>4. CASE ServerRecieve
  BY <1>4 DEF ServerRecieve, Up!Next
<1>5. CASE ClientDelete \/ ServerClose
  <2>1. cut' = TRUE /\ UNCHANGED upVars
    BY <1>5 DEF ClientDelete, ServerClose
  <2>2. CASE cut
    <3>1. cut' = cut \/ cut # TRUE
      BY <2>1
    <3>2. CASE cut' = cut
      BY <2>1, <3>2 DEF Up!vars, upVars
    <3>3. CASE cut # TRUE
      BY <2>2, <3>3
    <3> QED BY <3>1, <3>2, <3>3
  <2>3. CASE ~cut
    <3>1. Up!PeerCuts
      BY <2>1, <2>3 DEF Up!PeerCuts, upVars
    <3> QED BY <3>1 DEF Up!Next
  <2> QED BY <2>2, <2>3
<1>6. ASSUME NEW a \in Users, SendCall(a) PROVE UNCHANGED <<upVars, cut>>
  BY <1>6 DEF SendCall
<1>7. CASE ClientTask /\ ~ClientDelete
  <2>1. CASE ClientRecieve
    <3>1. UNCHANGED <<upVars, cut>>
      BY <2>1 DEF ClientRecieve, Down!Recieve, Down!WaitEvent, Down!recv_, Down!RecvCut, Down!RecvHead,
                  Down!RecvData, Down!GiveUp
    <3> QED BY <3>1 DEF Up!vars, upVars
  <2>2. CASE UNCHANGED <<upVars, cut>>
    BY <2>2 DEF Up!vars, upVars
  <2> QED BY <1>7, <2>1, <2>2 DEF ClientTask, ClientLoop, ClientReport, ClientReportEnd,
              ClientDisconnect, ClientExit
<1>8. CASE ServerTask /\ ~ServerRecieve /\ ~ServerClose
  <2>1. UNCHANGED <<upVars, cut>>
    BY <1>8 DEF ServerTask, ServerLoop, ServerReport, Reply, ReplyGoesOn, ServerReportEnd,
                Down!SendBegin, Down!SendSome, Down!SendCut
  <2> QED BY <2>1 DEF Up!vars, upVars
<1>9. CASE ClientEnd \/ ServerEnd \/ Finished \/ UNCHANGED vars
  BY <1>9 DEF ClientEnd, ServerEnd, Finished, vars, Up!vars, upVars
<1>10. \A a \in Users : SendCall(a) => [Up!Next]_Up!vars
  BY <1>6 DEF Up!vars, upVars
<1> QED BY <1>2, <1>3, <1>4, <1>5, <1>7, <1>8, <1>9, <1>10 DEF Next, ClientTask, ServerTask

\* The requests go up to the server as Framing has it: whoever sends, receives, ends or cuts, no
\* step of the two sides does to their stream what the framing does not.
THEOREM UpIsFraming == Spec => Up!Spec
<1>1. Init => Up!Init
  BY DEF Init
<1>2. SidesInv /\ [Next]_vars => [Up!Next]_Up!vars
  BY UpSteps
<1> QED BY <1>1, <1>2, Sides, PTL DEF Spec, Up!Spec

-----------------------------------------------------------------------------
(* The server replies to each request before it receives the next one *)

\* The replies begun are to the first requests received, in their order; while no report is in
\* progress and a receiver is registered, to all of them.
OrderInv ==
    /\ dOrder \in Seq(Requests) /\ Len(dOrder) <= Len(uDelivered)
    /\ \A i \in 1..Len(dOrder) : dOrder[i] = uOrder[i]
    /\ sReciever # NoReciever =>
         /\ sTask = "report" => Len(dOrder) + 1 = Len(uDelivered)
         /\ sTask = "callback" => /\ Len(uDelivered) > 0
                                  /\ Len(dOrder) \in {Len(uDelivered) - 1, Len(uDelivered)}
         /\ sTask \notin {"report", "callback"} => Len(dOrder) = Len(uDelivered)

\* The request in the callback is the last one received, and it was sent.
LEMMA RequestIs ==
  ASSUME UpSound, Len(uDelivered) > 0
  PROVE  /\ Request = uOrder[Len(uDelivered)]
         /\ Request \in Requests
         /\ Len(uDelivered) \in 1..Len(uOrder)
<1>1. /\ Len(uDelivered) \in Nat /\ Len(uOrder) \in Nat
      /\ Len(uDelivered) <= Len(uOrder)
      /\ uOrder \in Seq(Requests)
  BY LenProperties DEF UpSound
<1>2. Len(uDelivered) \in 1..Len(uOrder) /\ Len(uDelivered) \in 1..Len(uDelivered)
  BY <1>1
<1>3. PICK m \in Requests : m = uOrder[Len(uDelivered)]
  BY <1>1, <1>2, ElementOfSeq
<1>4. uDelivered[Len(uDelivered)] = Up!Data(m)
  BY <1>2, <1>3 DEF UpSound
<1>5. 1 \in 1..RequestSize[m] /\ RequestSize[m] \in Nat
  BY EchoAssumption
<1>6. Head(Up!Data(m)) = <<m, Up!HeaderSize + 1>>
  <2>1. Up!Data(m) = [i \in 1..RequestSize[m] |-> <<m, Up!HeaderSize + i>>]
    BY DEF Up!Data
  <2>2. Up!Data(m)[1] = <<m, Up!HeaderSize + 1>>
    BY <2>1, <1>5
  <2>3. Head(Up!Data(m)) = Up!Data(m)[1]
    OBVIOUS
  <2> QED BY <2>2, <2>3
<1>7. Last(uDelivered) = Up!Data(m)
  BY <1>4 DEF Last
<1>8. Request = m
  BY <1>6, <1>7 DEF Request
<1> QED BY <1>2, <1>3, <1>8

\* While the callback is in progress its receiver is registered.
LEMMA CallbackRegistered ==
  ASSUME SidesInv, sTask = "callback"
  PROVE  sReciever # NoReciever
BY Assumptions DEF SidesInv, SP!EndpointInv, SP!CallsRegisteredReciever

\* The reply begun in the callback is to the request received last, and the first to it.
LEMMA ReplyOrder ==
  ASSUME SidesInv, UpSound, OrderInv, Reply
  PROVE  OrderInv'
<1>1. /\ sTask = "callback" /\ sReciever # NoReciever
      /\ UNCHANGED <<sTask, sReciever, uDelivered, uOrder>>
  BY CallbackRegistered DEF Reply, serverVars, upVars
<1>2. /\ dOrder \in Seq(Requests) /\ Len(dOrder) \in Nat /\ Len(uDelivered) \in Nat
      /\ Len(uDelivered) > 0
      /\ Len(dOrder) \in {Len(uDelivered) - 1, Len(uDelivered)}
      /\ \A i \in 1..Len(dOrder) : dOrder[i] = uOrder[i]
      /\ DOMAIN dOrder = 1..Len(dOrder)
  BY <1>1, LenProperties DEF OrderInv, UpSound
<1>3. /\ Request = uOrder[Len(uDelivered)] /\ Request \in Requests
  BY <1>2, RequestIs
<1>4. Request \notin Range(dOrder) /\ dOrder' = Append(dOrder, Request)
  BY DEF Reply, Down!SendBegin, Down!Range, Range
<1>5. Len(dOrder) + 1 = Len(uDelivered)
  <2>1. CASE Len(dOrder) = Len(uDelivered)
    <3>1. Len(uDelivered) \in DOMAIN dOrder
      BY <1>2, <2>1
    <3>2. dOrder[Len(uDelivered)] = Request
      BY <1>2, <1>3, <3>1
    <3> QED BY <1>4, <3>1, <3>2 DEF Range
  <2> QED BY <1>2, <2>1
<1>6. /\ dOrder' \in Seq(Requests) /\ Len(dOrder') = Len(dOrder) + 1
      /\ \A i \in 1..Len(dOrder) : dOrder'[i] = dOrder[i]
      /\ dOrder'[Len(dOrder) + 1] = Request
  BY <1>2, <1>3, <1>4, AppendProperties
<1>7. \A i \in 1..Len(dOrder') : dOrder'[i] = uOrder'[i]
  <2> SUFFICES ASSUME NEW i \in 1..Len(dOrder') PROVE dOrder'[i] = uOrder[i]
    BY <1>1
  <2>1. CASE i = Len(dOrder) + 1
    BY <1>3, <1>5, <1>6, <2>1
  <2>2. CASE i # Len(dOrder) + 1
    <3>1. i \in 1..Len(dOrder)
      BY <1>2, <1>6, <2>2
    <3> QED BY <1>2, <1>6, <3>1
  <2> QED BY <2>1, <2>2
<1>8. Len(dOrder') = Len(uDelivered') /\ Len(uDelivered') \in Nat /\ Len(uDelivered') > 0
  BY <1>1, <1>2, <1>5, <1>6
<1>9. sTask' = "callback"
  BY <1>1
<1> QED BY <1>6, <1>7, <1>8, <1>9 DEF OrderInv

\* A step that neither receives nor replies, and neither begins nor ends a report.
LEMMA OrderElsewhere ==
  ASSUME OrderInv, UpSound, UpSound', UNCHANGED <<dOrder, uDelivered>>,
         uOrder' = uOrder \/ \E m : uOrder' = Append(uOrder, m),
         sReciever' # NoReciever =>
           /\ sReciever' = sReciever
           /\ \/ sTask' = sTask
              \/ {sTask, sTask'} \cap {"report", "callback"} = {}
  PROVE  OrderInv'
<1>1. \A i \in 1..Len(dOrder) : uOrder'[i] = uOrder[i]
  <2>1. CASE uOrder' = uOrder
    BY <2>1
  <2>2. ASSUME NEW m, uOrder' = Append(uOrder, m)
        PROVE  \A i \in 1..Len(dOrder) : uOrder'[i] = uOrder[i]
    <3>1. /\ uOrder \in Seq(Requests) /\ Len(uOrder) \in Nat /\ Len(uDelivered) \in Nat
          /\ Len(dOrder) \in Nat /\ Len(dOrder) <= Len(uDelivered) /\ Len(uDelivered) <= Len(uOrder)
      BY LenProperties DEF UpSound, OrderInv
    <3>2. uOrder \in Seq(Requests \cup {m})
      BY <3>1, SeqDef
    <3>3. \A i \in 1..Len(uOrder) : Append(uOrder, m)[i] = uOrder[i]
      BY <3>2, AppendProperties
    <3>4. \A i \in 1..Len(dOrder) : i \in 1..Len(uOrder)
      BY <3>1
    <3> QED BY <2>2, <3>3, <3>4
  <2> QED BY <2>1, <2>2
<1>2. \A i \in 1..Len(dOrder') : dOrder'[i] = uOrder'[i]
  BY <1>1 DEF OrderInv
<1>3. dOrder' \in Seq(Requests) /\ Len(dOrder') <= Len(uDelivered')
  BY DEF OrderInv
<1>4. sReciever' # NoReciever =>
        /\ sTask' = "report" => Len(dOrder') + 1 = Len(uDelivered')
        /\ sTask' = "callback" => /\ Len(uDelivered') > 0
                                  /\ Len(dOrder') \in {Len(uDelivered') - 1, Len(uDelivered')}
        /\ sTask' \notin {"report", "callback"} => Len(dOrder') = Len(uDelivered')
  BY DEF OrderInv
<1> QED BY <1>2, <1>3, <1>4 DEF OrderInv

\* The step that receives the last of a request's data takes the task to its report.
LEMMA RecieveOrder ==
  ASSUME SidesInv, UpSound, UpSound', OrderInv, ServerRecieve
  PROVE  OrderInv'
<1>1. /\ sTask = "poll" /\ UNCHANGED <<sReciever, dOrder, uOrder>>
      /\ sTask' = IF uDelivered' # uDelivered THEN "report" ELSE sTask'
      /\ uDelivered' = uDelivered => sTask' \in {"loop", "poll"}
  <2>1. sTask = "poll" /\ UNCHANGED <<sReciever, dOrder>>
    BY DEF ServerRecieve, S!TaskStep, downVars
  <2>2. UNCHANGED uOrder
    BY DEF ServerRecieve, Up!Recieve, Up!WaitEvent, Up!recv_, Up!RecvCut, Up!RecvHead, Up!RecvData,
           Up!GiveUp
  <2>3. /\ uDelivered' # uDelivered => sTask' = "report"
        /\ uDelivered' = uDelivered => sTask' \in {"loop", "poll"}
    BY DEF ServerRecieve, S!TaskStep, AfterRecieve
  <2> QED BY <2>1, <2>2, <2>3
<1>2. CASE uDelivered' = uDelivered
  BY <1>1, <1>2, OrderElsewhere
<1>3. CASE uDelivered' # uDelivered
  <2>1. \E d : uDelivered' = Append(uDelivered, d)
    BY <1>3 DEF ServerRecieve, Up!Recieve, Up!WaitEvent, Up!recv_, Up!RecvCut, Up!RecvHead, Up!RecvData,
           Up!GiveUp
  <2>2. /\ Len(uDelivered') = Len(uDelivered) + 1 /\ Len(uDelivered) \in Nat
        /\ dOrder \in Seq(Requests) /\ Len(dOrder) \in Nat
    <3>1. PICK d : uDelivered' = Append(uDelivered, d)
      BY <2>1
    <3>2. uDelivered \in Seq(Seq(Up!Cells)) /\ dOrder \in Seq(Requests)
      BY DEF UpSound, OrderInv
    <3>3. uDelivered \in Seq(Seq(Up!Cells) \cup {d})
      BY <3>2, SeqDef
    <3> QED BY <3>1, <3>2, <3>3, AppendProperties, LenProperties
  <2>3. sReciever # NoReciever => Len(dOrder) = Len(uDelivered)
    BY <1>1 DEF OrderInv
  <2>4. Len(dOrder) <= Len(uDelivered)
    BY DEF OrderInv
  <2>5. Len(dOrder') <= Len(uDelivered')
    BY <1>1, <2>2, <2>4
  <2>6. sReciever' # NoReciever => Len(dOrder') + 1 = Len(uDelivered')
    BY <1>1, <2>2, <2>3
  <2>7. dOrder' \in Seq(Requests) /\ \A i \in 1..Len(dOrder') : dOrder'[i] = uOrder'[i]
    BY <1>1 DEF OrderInv
  <2>8. sTask' = "report"
    BY <1>1, <1>3
  <2> QED BY <2>5, <2>6, <2>7, <2>8 DEF OrderInv
<1> QED BY <1>2, <1>3

\* The callback returns when the reply to its request has been sent, so none is missing.
LEMMA ReportEndOrder ==
  ASSUME SidesInv, UpSound, UpSound', OrderInv, ServerReportEnd
  PROVE  OrderInv'
<1>1. /\ sTask = "callback" /\ sReciever # NoReciever /\ sTask' = "loop"
      /\ UNCHANGED <<sReciever, uDelivered, uOrder, dOrder>>
      /\ Request \in Range(dOrder)
  BY CallbackRegistered DEF ServerReportEnd, S!CallbackEnd, upVars, downVars
<1>2. /\ dOrder \in Seq(Requests) /\ Len(dOrder) \in Nat /\ Len(uDelivered) \in Nat
      /\ Len(uDelivered) > 0
      /\ Len(dOrder) \in {Len(uDelivered) - 1, Len(uDelivered)}
      /\ \A i \in 1..Len(dOrder) : dOrder[i] = uOrder[i]
      /\ DOMAIN dOrder = 1..Len(dOrder)
  BY <1>1, LenProperties DEF OrderInv, UpSound
<1>3. /\ Request = uOrder[Len(uDelivered)] /\ Len(uDelivered) \in 1..Len(uOrder)
  BY <1>2, RequestIs
<1>4. PICK j \in 1..Len(dOrder) : dOrder[j] = Request
  BY <1>1, <1>2 DEF Range
<1>5. j \in 1..Len(uOrder) /\ uOrder[j] = uOrder[Len(uDelivered)]
  <2>1. Len(uOrder) \in Nat
    BY LenProperties DEF UpSound
  <2> QED BY <1>2, <1>3, <1>4, <2>1
<1>6. j = Len(uDelivered)
  BY <1>3, <1>5 DEF UpSound
<1>7. Len(dOrder) = Len(uDelivered)
  <2>1. Len(uDelivered) \in 1..Len(dOrder)
    BY <1>4, <1>6
  <2> QED BY <1>2, <2>1
<1>8. Len(dOrder') = Len(uDelivered') /\ Len(dOrder') <= Len(uDelivered')
  BY <1>1, <1>2, <1>7
<1>9. dOrder' \in Seq(Requests) /\ \A i \in 1..Len(dOrder') : dOrder'[i] = uOrder'[i]
  BY <1>1, <1>2
<1> QED BY <1>1, <1>8, <1>9 DEF OrderInv

\* The task calls the receiver, if there is one.
LEMMA ReportOrder ==
  ASSUME SidesInv, UpSound, UpSound', OrderInv, ServerReport
  PROVE  OrderInv'
<1>1. /\ sTask = "report" /\ sTask' = IF sReciever = NoReciever THEN "loop" ELSE "callback"
      /\ UNCHANGED <<sReciever, uDelivered, uOrder, dOrder>>
  BY DEF ServerReport, S!CallbackBegin, upVars, downVars
<1>2. CASE sReciever = NoReciever
  BY <1>1, <1>2 DEF OrderInv
<1>3. CASE sReciever # NoReciever
  <2>1. /\ Len(dOrder) + 1 = Len(uDelivered) /\ sTask' = "callback"
        /\ dOrder \in Seq(Requests) /\ \A i \in 1..Len(dOrder) : dOrder[i] = uOrder[i]
    BY <1>1, <1>3 DEF OrderInv
  <2>2. Len(dOrder) \in Nat /\ Len(uDelivered) \in Nat
    BY <2>1, LenProperties DEF UpSound
  <2>3. /\ Len(dOrder) = Len(uDelivered) - 1 /\ Len(uDelivered) > 0
        /\ Len(dOrder) <= Len(uDelivered)
    BY <2>1, <2>2
  <2>4. /\ Len(dOrder') = Len(uDelivered') - 1 /\ Len(uDelivered') > 0
        /\ Len(dOrder') <= Len(uDelivered')
    BY <1>1, <2>3
  <2>5. dOrder' \in Seq(Requests) /\ \A i \in 1..Len(dOrder') : dOrder'[i] = uOrder'[i]
    BY <1>1, <2>1
  <2> QED BY <2>1, <2>4, <2>5 DEF OrderInv
<1> QED BY <1>2, <1>3

\* Every step keeps the replies in the order of the requests.
LEMMA NextOrder ==
  ASSUME SidesInv, UpSound, UpSound', OrderInv, [Next]_vars
  PROVE  OrderInv'
<1>1. CASE ClientTask \/ ClientEnd \/ Finished \/ UNCHANGED vars
  <2>1. UNCHANGED serverVars /\ UNCHANGED <<uOrder, uDelivered>>
    BY <1>1 DEF ClientTask, ClientLoop, ClientRecieve, ClientReport, ClientReportEnd, ClientDisconnect,
                ClientDelete, ClientExit, ClientEnd, Finished, vars, upVars
  <2>2. UNCHANGED dOrder
    <3>1. CASE ClientRecieve
      BY <3>1 DEF ClientRecieve, Down!Recieve, Down!WaitEvent, Down!recv_, Down!RecvCut, Down!RecvHead,
                  Down!RecvData, Down!GiveUp
    <3>2. CASE ~ClientRecieve
      BY <1>1, <3>2 DEF ClientTask, ClientLoop, ClientReport, ClientReportEnd, ClientDisconnect,
                        ClientDelete, ClientExit, ClientEnd, Finished, vars, downVars
    <3> QED BY <3>1, <3>2
  <2> QED BY <2>1, <2>2, OrderElsewhere DEF serverVars
<1>2. ASSUME NEW a \in Users, SendCall(a) \/ SendCheck(a) \/ SendGoesOn(a) PROVE OrderInv'
  <2>1. UNCHANGED serverVars /\ UNCHANGED dOrder
    BY <1>2 DEF SendCall, SendCheck, SendGoesOn, downVars
  <2>2. UNCHANGED uDelivered /\ (uOrder' = uOrder \/ \E m : uOrder' = Append(uOrder, m))
    BY <1>2 DEF SendCall, SendCheck, SendGoesOn, upVars, Up!SendBegin, Up!SendSome, Up!SendCut
  <2> QED BY <2>1, <2>2, OrderElsewhere DEF serverVars
<1>3. CASE ServerRecieve
  BY <1>3, RecieveOrder
<1>4. CASE ServerReport
  BY <1>4, ReportOrder
<1>5. CASE Reply
  BY <1>5, ReplyOrder
<1>6. CASE ServerReportEnd
  BY <1>6, ReportEndOrder
<1>7. CASE ServerLoop \/ ServerClose \/ ReplyGoesOn \/ ServerEnd
  <2>1. UNCHANGED <<uOrder, uDelivered, dOrder>>
    BY <1>7 DEF ServerLoop, ServerClose, ReplyGoesOn, ServerEnd, Down!SendSome, Down!SendCut, upVars,
                downVars
  <2>2. sReciever' # NoReciever => sReciever' = sReciever
    BY <1>7 DEF ServerLoop, ServerClose, ReplyGoesOn, ServerEnd, serverVars, S!TaskStep, S!EndCall,
                S!EndReturns, S!EndClear, S!EndStop, S!EndJoin
  <2>3. sTask' = sTask \/ {sTask, sTask'} \cap {"report", "callback"} = {}
    BY <1>7 DEF ServerLoop, ServerClose, ReplyGoesOn, ServerEnd, serverVars, S!TaskStep, S!EndCall,
                S!EndReturns, S!EndClear, S!EndStop, S!EndJoin
  <2> QED BY <2>1, <2>2, <2>3, OrderElsewhere
<1> QED BY <1>1, <1>2, <1>3, <1>4, <1>5, <1>6, <1>7 DEF Next, ServerTask

\* The requests arrive as sent, and are replied to in that order.
LEMMA Order == Spec => [](SidesInv /\ UpSound /\ OrderInv)
<1>1. Spec => [](SidesInv /\ UpSound)
  BY UpIsFraming, UpIsSound, Sides, PTL
<1>2. Init => OrderInv
  <2> SUFFICES ASSUME Init PROVE OrderInv
    OBVIOUS
  <2>1. dOrder = <<>> /\ uDelivered = <<>> /\ sTask = "loop"
    BY DEF Init, Up!Init, Down!Init
  <2> QED BY <2>1, EmptySeq DEF OrderInv
<1>3. SidesInv /\ UpSound /\ UpSound' /\ OrderInv /\ [Next]_vars => OrderInv'
  BY NextOrder
<1> QED BY <1>1, <1>2, <1>3, PTL DEF Spec

-----------------------------------------------------------------------------
(* The replies, and both directions together *)

\* A step of the two sides is a step of the framing of the replies, or none of it.
LEMMA DownSteps ==
  ASSUME SidesInv, UpSound, OrderInv, [Next]_vars
  PROVE  [Down!Next]_Down!vars
<1>1. CASE Reply
  <2>1. sReciever # NoReciever /\ sTask = "callback"
    BY <1>1, CallbackRegistered DEF Reply
  <2>2. Request \in Requests
    BY <2>1, RequestIs DEF OrderInv
  <2> QED BY <1>1, <2>2 DEF Reply, Down!Next
<1>2. CASE ReplyGoesOn
  BY <1>2 DEF ReplyGoesOn, Down!Next
<1>3. CASE ClientRecieve
  BY <1>3 DEF ClientRecieve, Down!Next
<1>4. CASE ClientDelete \/ ServerClose
  <2>1. cut' = TRUE /\ UNCHANGED downVars
    BY <1>4 DEF ClientDelete, ServerClose
  <2>2. CASE cut
    <3>1. CASE cut = TRUE
      BY <2>1, <3>1 DEF Down!vars, downVars
    <3>2. CASE cut # TRUE
      BY <2>2, <3>2
    <3> QED BY <3>1, <3>2
  <2>3. CASE ~cut
    <3>1. Down!PeerCuts
      BY <2>1, <2>3 DEF Down!PeerCuts, downVars
    <3> QED BY <3>1 DEF Down!Next
  <2> QED BY <2>2, <2>3
<1>5. ASSUME NEW a \in Users, SendCall(a) \/ SendCheck(a) \/ SendGoesOn(a)
      PROVE  UNCHANGED Down!vars
  <2>1. UNCHANGED downVars
    BY <1>5 DEF SendCall, SendCheck, SendGoesOn
  <2>2. UNCHANGED cut
    BY <1>5 DEF SendCall, SendCheck, SendGoesOn, Up!SendBegin, Up!SendSome, Up!SendCut
  <2> QED BY <2>1, <2>2 DEF Down!vars, downVars
<1>6. CASE ServerRecieve
  <2>1. UNCHANGED <<downVars, cut>>
    BY <1>6 DEF ServerRecieve, Up!Recieve, Up!WaitEvent, Up!recv_, Up!RecvCut, Up!RecvHead,
                Up!RecvData, Up!GiveUp
  <2> QED BY <2>1 DEF Down!vars, downVars
<1>7. CASE ServerLoop \/ ServerReport \/ ServerReportEnd
  BY <1>7 DEF ServerLoop, ServerReport, ServerReportEnd, Down!vars, downVars
<1>8. CASE ClientTask /\ ~ClientRecieve /\ ~ClientDelete
  BY <1>8 DEF ClientTask, ClientLoop, ClientReport, ClientReportEnd, ClientDisconnect, ClientExit,
              Down!vars, downVars
<1>9. CASE ClientEnd \/ ServerEnd \/ Finished \/ UNCHANGED vars
  BY <1>9 DEF ClientEnd, ServerEnd, Finished, vars, Down!vars, downVars
<1> QED BY <1>1, <1>2, <1>3, <1>4, <1>5, <1>6, <1>7, <1>8, <1>9 DEF Next, ClientTask, ServerTask

\* The replies come down to the client as Framing has it: each request is replied to once, by the
\* one thread that runs the server's callback.
THEOREM DownIsFraming == Spec => Down!Spec
<1>1. Init => Down!Init
  BY DEF Init
<1>2. SidesInv /\ UpSound /\ OrderInv /\ [Next]_vars => [Down!Next]_Down!vars
  BY DownSteps
<1> QED BY <1>1, <1>2, Order, PTL DEF Spec, Down!Spec

\* All that is proved of the composition.
LEMMA Together ==
  Spec => [](SidesInv /\ Up!TypeOK /\ UpSound /\ OrderInv /\ Down!TypeOK /\ DownSound)
BY Order, UpIsFraming, UpIsSound, DownIsFraming, DownIsSound, PTL

\* The variables of both sides and of both streams have their types in every behaviour.
THEOREM TypeCorrect == Spec => []TypeOK
<1>1. SidesInv /\ Up!TypeOK /\ Down!TypeOK => TypeOK
  BY DEF SidesInv, TypeOK, ClientTasks, ServerTasks, CP!EndpointType, SP!EndpointType
<1> QED BY <1>1, Together, PTL

\* The i-th reply the client receives is the one to the i-th request it sent, whole, whatever the
\* users send at once, however the streams cut and join the frames, and whichever side ends when.
THEOREM InOrder == Spec => []AnswersInOrder
<1>1. ASSUME UpSound, OrderInv, DownSound PROVE AnswersInOrder
  <2>1. /\ Len(dDelivered) \in Nat /\ Len(dOrder) \in Nat /\ Len(uDelivered) \in Nat
        /\ Len(uOrder) \in Nat
        /\ DOMAIN dDelivered = 1..Len(dDelivered)
    BY <1>1, LenProperties DEF UpSound, OrderInv, DownSound
  <2>2. /\ Len(dDelivered) <= Len(dOrder) /\ Len(dOrder) <= Len(uDelivered)
        /\ Len(uDelivered) <= Len(uOrder)
    BY <1>1 DEF UpSound, OrderInv, DownSound
  <2>3. Len(dDelivered) <= Len(uOrder)
    BY <2>1, <2>2
  <2>4. ASSUME NEW i \in DOMAIN dDelivered PROVE dDelivered[i] = Down!Data(uOrder[i])
    <3>1. i \in 1..Len(dDelivered) /\ i \in 1..Len(dOrder)
      BY <2>1, <2>2
    <3>2. dDelivered[i] = Down!Data(dOrder[i])
      BY <1>1, <3>1 DEF DownSound
    <3>3. dOrder[i] = uOrder[i]
      BY <1>1, <3>1 DEF OrderInv
    <3> QED BY <3>2, <3>3
  <2> QED BY <2>3, <2>4 DEF AnswersInOrder
<1> QED BY <1>1, Together, PTL

-----------------------------------------------------------------------------
(* Standstill *)

\* Whoever has left the connection has cut it; who has seen it cut, does not wait on it; and
\* where the tasks leave their loops for good, their side is ended.
CutInv ==
    /\ cTask \in {"begin", "exit", "none"} \/ sTask \in {"exit", "none"} => cut
    /\ uPhase = "closed" \/ dPhase = "closed" => cut
    /\ cTask = "exit" => ~cRunning
    /\ sTask \in {"close", "exit"} => ~sRunning
    /\ cTask \in {"disconnect", "delete"} => cut \/ ~cRunning
    /\ cTask \in {"loop", "poll", "report", "callback"} => dPhase # "closed"
    /\ sTask = "poll" => uPhase # "closed"

\* The owner is one thread: while it sends it is not in end(), nor has it been.
OwnerInv == Owner \in Users /\ InSend(Owner) => cOwner = "idle" /\ cRunning

\* A reply is unsent only while the callback that sends it runs.
ReplyInv == dUnsent[Task] # <<>> => sTask = "callback"

\* What a step of do_recieve_event does to the phase.
LEMMA DownRecieves ==
  ASSUME Down!Recieve
  PROVE  /\ UNCHANGED <<cut, dUnsent>>
         /\ dDelivered' # dDelivered => dPhase' = "idle"
         /\ dPhase' = "closed" => cut
BY DEF Down!Recieve, Down!WaitEvent, Down!recv_, Down!RecvCut, Down!RecvHead, Down!RecvData, Down!GiveUp

\* The same on the server's side.
LEMMA UpRecieves ==
  ASSUME Up!Recieve
  PROVE  /\ UNCHANGED <<cut, uUnsent>>
         /\ uDelivered' # uDelivered => uPhase' = "idle"
         /\ uPhase' = "closed" => cut
BY DEF Up!Recieve, Up!WaitEvent, Up!recv_, Up!RecvCut, Up!RecvHead, Up!RecvData, Up!GiveUp

\* What CutInv speaks of, but the tasks' own steps, leaves it as it is.
LEMMA CutElsewhere ==
  ASSUME CutInv, UNCHANGED <<uPhase, dPhase, cut>>,
         cTask' = cTask \/ (cTask = "exit" /\ cTask' = "none"),
         sTask' = sTask \/ (sTask = "exit" /\ sTask' = "none"),
         cRunning' = cRunning \/ cRunning' = FALSE, sRunning' = sRunning \/ sRunning' = FALSE
  PROVE  CutInv'
BY DEF CutInv

\* Every step preserves it.
LEMMA NextCut ==
  ASSUME SidesInv, CutInv, [Next]_vars
  PROVE  CutInv'
<1>1. CASE ClientRecieve
  <2>1. /\ cTask = "poll" /\ cTask' = AfterRecieve(dPhase', dDelivered' # dDelivered)
        /\ UNCHANGED <<cRunning, sTask, sRunning, uPhase, cut>>
    BY <1>1, DownRecieves DEF ClientRecieve, C!TaskStep, serverVars, upVars
  <2>2. /\ cTask' \in {"report", "loop", "poll"} => dPhase' # "closed"
        /\ cTask' = "disconnect" => dPhase' = "closed"
        /\ cTask' \in {"report", "loop", "poll", "disconnect"}
    BY <1>1, <2>1, DownRecieves DEF ClientRecieve, AfterRecieve
  <2>3. dPhase' = "closed" => cut
    BY <1>1, DownRecieves DEF ClientRecieve
  <2> QED BY <2>1, <2>2, <2>3 DEF CutInv
<1>2. CASE ServerRecieve
  <2>1. /\ sTask = "poll" /\ UNCHANGED <<cTask, cRunning, sRunning, dPhase, cut>>
    BY <1>2, UpRecieves DEF ServerRecieve, S!TaskStep, clientVars, downVars
  <2>2. /\ sTask' = "poll" => uPhase' # "closed"
        /\ sTask' \in {"report", "loop", "poll"}
    BY <1>2, UpRecieves DEF ServerRecieve, S!TaskStep, AfterRecieve
  <2>3. uPhase' = "closed" => cut
    BY <1>2, UpRecieves DEF ServerRecieve
  <2> QED BY <2>1, <2>2, <2>3 DEF CutInv
<1>3. CASE ClientTask /\ ~ClientRecieve
  <2>1. UNCHANGED <<cRunning, sTask, sRunning, uPhase, dPhase>>
    BY <1>3 DEF ClientTask, ClientLoop, ClientReport, ClientReportEnd, ClientDisconnect, ClientDelete,
                ClientExit, C!TaskStep, C!CallbackBegin, C!CallbackEnd, serverVars, upVars, downVars
  <2>2. \/ /\ UNCHANGED cut
           /\ \/ cTask = "loop" /\ cTask' = IF cRunning THEN "poll" ELSE "disconnect"
              \/ cTask \in {"report", "callback"} /\ cTask' \in {"loop", "callback"}
              \/ cTask = "disconnect" /\ cTask' = "delete"
              \/ ~cRunning /\ cTask = "begin" /\ cTask' = "exit"
        \/ cut' = TRUE /\ cTask = "delete" /\ cTask' = "begin"
    BY <1>3 DEF ClientTask, ClientLoop, ClientReport, ClientReportEnd, ClientDisconnect, ClientDelete,
                ClientExit, C!TaskStep, C!CallbackBegin, C!CallbackEnd
  <2> QED BY <2>1, <2>2 DEF CutInv
<1>4. CASE ServerTask /\ ~ServerRecieve
  <2>1. UNCHANGED <<sRunning, cTask, cRunning, uPhase, dPhase>>
    BY <1>4 DEF ServerTask, ServerLoop, ServerReport, Reply, ReplyGoesOn, ServerReportEnd, ServerClose,
                S!TaskStep, S!CallbackBegin, S!CallbackEnd, clientVars, serverVars, upVars, downVars,
                Down!SendBegin, Down!SendSome, Down!SendCut
  <2>2. \/ /\ UNCHANGED cut
           /\ \/ sTask' = sTask
              \/ sTask = "loop" /\ ~sRunning /\ sTask' = "close"
              \/ sTask = "loop" /\ uPhase # "closed" /\ sTask' = "poll"
              \/ sTask \in {"report", "callback"} /\ sTask' \in {"loop", "callback"}
        \/ cut' = TRUE /\ sTask = "close" /\ sTask' = "exit"
    BY <1>4 DEF ServerTask, ServerLoop, ServerReport, Reply, ReplyGoesOn, ServerReportEnd, ServerClose,
                S!TaskStep, S!CallbackBegin, S!CallbackEnd, serverVars,
                Down!SendBegin, Down!SendSome, Down!SendCut
  <2> QED BY <2>1, <2>2 DEF CutInv
<1>5. CASE ClientEnd
  BY <1>5, CutElsewhere DEF ClientEnd, C!EndCall, C!EndReturns, C!EndClear, C!EndStop, C!EndJoin,
              serverVars, upVars, downVars
<1>6. CASE ServerEnd
  BY <1>6, CutElsewhere DEF ServerEnd, S!EndCall, S!EndReturns, S!EndClear, S!EndStop, S!EndJoin,
              clientVars, upVars, downVars
<1>7. ASSUME NEW a \in Users, SendCall(a) \/ SendCheck(a) \/ SendGoesOn(a) PROVE CutInv'
  <2>1. UNCHANGED clientVars /\ UNCHANGED serverVars /\ UNCHANGED dPhase
    BY <1>7 DEF SendCall, SendCheck, SendGoesOn, downVars
  <2>2. UNCHANGED <<uPhase, cut>>
    BY <1>7 DEF SendCall, SendCheck, SendGoesOn, upVars, Up!SendBegin, Up!SendSome, Up!SendCut
  <2> QED BY <2>1, <2>2, CutElsewhere DEF clientVars, serverVars
<1>8. CASE Finished \/ UNCHANGED vars
  BY <1>8, CutElsewhere DEF Finished, vars, clientVars, serverVars, upVars, downVars
<1> QED BY <1>1, <1>2, <1>3, <1>4, <1>5, <1>6, <1>7, <1>8 DEF Next

\* Every step preserves OwnerInv.
LEMMA NextOwner ==
  ASSUME SidesInv, Up!TypeOK, OwnerInv, [Next]_vars
  PROVE  OwnerInv'
<1> SUFFICES ASSUME Owner \in Users, InSend(Owner)' PROVE cOwner' = "idle" /\ cRunning'
  BY DEF OwnerInv
<1>1. wanted \in [Users -> Requests \cup {NoRequest}] /\ DOMAIN uUnsent = Users
  BY DEF SidesInv, Up!TypeOK
<1>2. InSend(Owner) => cOwner = "idle" /\ cRunning
  BY DEF OwnerInv
<1>3. ASSUME NEW a \in Users, SendCall(a) PROVE cOwner' = "idle" /\ cRunning'
  <2>1. UNCHANGED <<cOwner, cRunning, uUnsent>>
    BY <1>3 DEF SendCall, clientVars, upVars
  <2>2. CASE a = Owner
    BY <1>3, <2>1, <2>2 DEF SendCall
  <2>3. CASE a # Owner
    <3>1. wanted'[Owner] = wanted[Owner]
      BY <1>1, <1>3, <2>3 DEF SendCall
    <3> QED BY <1>2, <2>1, <3>1 DEF InSend
  <2> QED BY <2>2, <2>3
<1>4. ASSUME NEW a \in Users, SendCheck(a) PROVE InSend(Owner) /\ UNCHANGED <<cOwner, cRunning>>
  <2>1. UNCHANGED <<cOwner, cRunning>>
    BY <1>4 DEF SendCheck, clientVars
  <2>2. CASE a = Owner
    BY <1>4, <2>1, <2>2 DEF SendCheck, InSend
  <2>3. CASE a # Owner
    <3>1. wanted'[Owner] = wanted[Owner] /\ uUnsent'[Owner] = uUnsent[Owner]
      BY <1>1, <1>4, <2>3 DEF SendCheck, Up!SendBegin, upVars
    <3> QED BY <2>1, <3>1 DEF InSend
  <2> QED BY <2>2, <2>3
<1>5. ASSUME NEW a \in Users, SendGoesOn(a) PROVE InSend(Owner) /\ UNCHANGED <<cOwner, cRunning>>
  <2>1. UNCHANGED <<cOwner, cRunning, wanted>>
    BY <1>5 DEF SendGoesOn, clientVars
  <2>2. CASE a = Owner
    BY <1>5, <2>1, <2>2 DEF SendGoesOn, InSend, Up!SendSome, Up!SendCut
  <2>3. CASE a # Owner
    <3>1. uUnsent'[Owner] = uUnsent[Owner]
      BY <1>1, <1>5, <2>3 DEF SendGoesOn, Up!SendSome, Up!SendCut
    <3> QED BY <2>1, <3>1 DEF InSend
  <2> QED BY <2>2, <2>3
<1>6. CASE ClientTask
  <2>1. UNCHANGED <<cOwner, cRunning, uUnsent, wanted>>
    BY <1>6 DEF ClientTask, ClientLoop, ClientRecieve, ClientReport, ClientReportEnd, ClientDisconnect,
                ClientDelete, ClientExit, C!TaskStep, C!CallbackBegin, C!CallbackEnd, upVars
  <2> QED BY <1>2, <2>1 DEF InSend
<1>7. CASE ServerTask
  <2>1. UNCHANGED <<cOwner, cRunning, uUnsent, wanted>>
    BY <1>7, UpRecieves DEF ServerTask, ServerLoop, ServerRecieve, ServerReport, Reply, ReplyGoesOn,
                ServerReportEnd, ServerClose, clientVars, upVars
  <2> QED BY <1>2, <2>1 DEF InSend
<1>8. CASE ClientEnd
  <2>1. UNCHANGED <<uUnsent, wanted>> /\ (cOwner # "idle" \/ ~InSend(Owner))
    BY <1>8 DEF ClientEnd, C!EndReturns, C!EndClear, C!EndStop, C!EndJoin, upVars
  <2> QED BY <1>2, <2>1 DEF InSend
<1>9. CASE ServerEnd \/ Finished \/ UNCHANGED vars
  <2>1. UNCHANGED <<cOwner, cRunning, uUnsent, wanted>>
    BY <1>9 DEF ServerEnd, Finished, vars, clientVars, upVars
  <2> QED BY <1>2, <2>1 DEF InSend
<1> QED BY <1>2, <1>3, <1>4, <1>5, <1>6, <1>7, <1>8, <1>9 DEF Next

\* Every step preserves ReplyInv.
LEMMA NextReply ==
  ASSUME ReplyInv, [Next]_vars
  PROVE  ReplyInv'
<1>1. CASE Reply \/ ReplyGoesOn
  BY <1>1 DEF ReplyInv, Reply, ReplyGoesOn, serverVars, Down!SendSome, Down!SendCut
<1>2. CASE ServerReportEnd
  BY <1>2 DEF ReplyInv, ServerReportEnd, Down!MtxFree, downVars
<1>3. CASE ServerLoop \/ ServerRecieve \/ ServerReport \/ ServerClose
  <2>1. sTask # "callback" /\ UNCHANGED dUnsent
    BY <1>3 DEF ServerLoop, ServerRecieve, ServerReport, ServerClose, S!TaskStep, S!CallbackBegin, downVars
  <2> QED BY <2>1 DEF ReplyInv
<1>4. CASE ServerEnd
  <2>1. UNCHANGED dUnsent /\ (sTask' = sTask \/ sTask = "exit")
    BY <1>4 DEF ServerEnd, S!EndCall, S!EndReturns, S!EndClear, S!EndStop, S!EndJoin, downVars
  <2> QED BY <2>1 DEF ReplyInv
<1>5. CASE ClientTask
  <2>1. UNCHANGED <<dUnsent, sTask>>
    BY <1>5, DownRecieves DEF ClientTask, ClientLoop, ClientRecieve, ClientReport, ClientReportEnd,
                ClientDisconnect, ClientDelete, ClientExit, serverVars, downVars
  <2> QED BY <2>1 DEF ReplyInv
<1>6. CASE ClientEnd \/ Finished \/ UNCHANGED vars
  BY <1>6 DEF ReplyInv, ClientEnd, Finished, vars, serverVars, downVars
<1>7. ASSUME NEW a \in Users, SendCall(a) \/ SendCheck(a) \/ SendGoesOn(a) PROVE ReplyInv'
  BY <1>7 DEF ReplyInv, SendCall, SendCheck, SendGoesOn, serverVars, downVars
<1> QED BY <1>1, <1>2, <1>3, <1>4, <1>5, <1>6, <1>7 DEF Next, ServerTask

\* What the framings promise whoever waits.
LEMMA Waits == Spec => [](Up!NeverWaitsInVain /\ Down!NeverWaitsInVain)
<1>1. UpP!Spec => []UpP!NeverWaitsInVain
  BY Assumptions, UpP!WaitsForASender
<1>2. DownP!Spec => []DownP!NeverWaitsInVain
  BY Assumptions, DownP!WaitsForASender
<1>3. UpP!NeverWaitsInVain => Up!NeverWaitsInVain
  BY DEF UpP!NeverWaitsInVain, Up!NeverWaitsInVain, UpP!MtxFree, Up!MtxFree
<1>4. DownP!NeverWaitsInVain => Down!NeverWaitsInVain
  BY DEF DownP!NeverWaitsInVain, Down!NeverWaitsInVain, DownP!MtxFree, Down!MtxFree
<1> QED BY <1>1, <1>2, <1>3, <1>4, UpIsFraming, UpSpecs, DownIsFraming, DownSpecs, PTL

\* All that the standstill theorems rest on.
StillInv ==
    /\ SidesInv /\ Up!TypeOK /\ Down!TypeOK
    /\ CutInv /\ OwnerInv /\ ReplyInv
    /\ Up!NeverWaitsInVain /\ Down!NeverWaitsInVain

\* It holds in every behaviour.
LEMMA Still == Spec => []StillInv
<1>1. Init => CutInv
  BY DEF Init, CutInv, Up!Init, Down!Init
<1>2. Init => OwnerInv
  BY DEF Init, OwnerInv
<1>3. SidesInv /\ CutInv /\ [Next]_vars => CutInv'
  BY NextCut
<1>4. Init => ReplyInv
  BY DEF Init, ReplyInv, Down!Init
<1>5. ReplyInv /\ [Next]_vars => ReplyInv'
  BY NextReply
<1>6. SidesInv /\ Up!TypeOK /\ OwnerInv /\ [Next]_vars => OwnerInv'
  BY NextOwner
<1>7. Spec => [](SidesInv /\ Up!TypeOK /\ Down!TypeOK)
  BY Together, PTL
<1>8. StillInv <=> /\ SidesInv /\ Up!TypeOK /\ Down!TypeOK
                   /\ CutInv /\ OwnerInv /\ ReplyInv
                   /\ Up!NeverWaitsInVain /\ Down!NeverWaitsInVain
  BY DEF StillInv
<1> QED BY <1>1, <1>2, <1>3, <1>4, <1>5, <1>6, <1>7, <1>8, Waits, PTL DEF Spec

\* A sender with mtx_ goes on unless the stream is full and the connection up.
LEMMA SenderGoesOn ==
  ASSUME Up!TypeOK, ~CanGo, NEW a \in Users, uUnsent[a] # <<>>
  PROVE  ~cut /\ Len(uStream) = Capacity
<1>1. ~Up!CanSend(a)
  BY DEF CanGo
<1>2. Len(uStream) \in Nat /\ Capacity \in Nat /\ Len(uStream) <= Capacity
  BY EchoAssumption, LenProperties DEF Up!TypeOK
<1> QED BY <1>1, <1>2 DEF Up!CanSend

\* Whoever is in sendData has mtx_ or waits for one who has.
LEMMA SomebodyHasMtx ==
  ASSUME ~CanGo, NEW a \in Users, InSend(a)
  PROVE  \E b \in Users : uUnsent[b] # <<>>
BY DEF CanGo, InSend, Up!MtxFree

\* A task that waits in recv_ is not part of any standstill.
LEMMA PollGoesOn ==
  ASSUME StillInv, ~CanGo
  PROVE  cTask # "poll" /\ sTask # "poll"
<1> USE DEF StillInv
<1>1. Capacity \in Nat /\ Capacity > 0
  BY EchoAssumption
<1>2. ASSUME sTask = "poll" PROVE FALSE
  <2>1. ~Up!CanRecieve /\ uPhase # "closed"
    BY <1>2 DEF CanGo, ServerCanGo, CutInv
  <2>2. uPhase \in {"head", "data"} /\ uNeed > 0 /\ uStream = <<>> /\ ~cut
    BY <2>1 DEF Up!CanRecieve
  <2>3. PICK a \in Users : uUnsent[a] # <<>>
    BY <2>2 DEF Up!NeverWaitsInVain, Up!MtxFree
  <2>4. Len(uStream) = Capacity
    BY <2>3, SenderGoesOn
  <2> QED BY <1>1, <2>2, <2>4, EmptySeq
<1>3. ASSUME cTask = "poll" PROVE FALSE
  <2>1. ~Down!CanRecieve /\ dPhase # "closed"
    BY <1>3 DEF CanGo, ClientCanGo, CutInv
  <2>2. dPhase \in {"head", "data"} /\ dNeed > 0 /\ dStream = <<>> /\ ~cut
    BY <2>1 DEF Down!CanRecieve
  <2>3. dUnsent[Task] # <<>>
    BY <2>2 DEF Down!NeverWaitsInVain, Down!MtxFree
  <2>4. Len(dStream) = 0
    BY <2>2, EmptySeq
  <2>5. Down!CanSend(Task)
    BY <1>1, <2>3, <2>4 DEF Down!CanSend
  <2>6. sTask = "callback"
    BY <2>3 DEF ReplyInv
  <2> QED BY <2>5, <2>6 DEF CanGo, ServerCanGo
<1> QED BY <1>2, <1>3

\* An end() that cannot go on is over, or its thread is in the callback or has not left.
LEMMA EndStands ==
  ASSUME SidesInv, ~CanGo
  PROVE  /\ cTask = "callback" \/ cOwner \in {"idle", "join"}
         /\ cOwner = "join" => cTask # "exit" /\ cTask # "none"
         /\ sTask = "callback" \/ sOwner \in {"idle", "join"}
         /\ sOwner = "join" => sTask # "exit" /\ sTask # "none"
<1>1. ~EndCanGo(cOwner, cTask, cCalled) /\ ~EndCanGo(sOwner, sTask, sCalled)
  BY DEF CanGo
<1>2. /\ cOwner \in {"idle", "lock", "stop", "join"} /\ sOwner \in {"idle", "lock", "stop", "join"}
      /\ cTask # "callback" => cCalled = NoReciever
      /\ sTask # "callback" => sCalled = NoReciever
      /\ cOwner = "join" => cTask # "none"
      /\ sOwner = "join" => sTask # "none"
  BY DEF SidesInv, CP!EndpointType, SP!EndpointType, CP!EndpointInv, SP!EndpointInv
<1> QED BY <1>1, <1>2 DEF EndCanGo

\* The server stands still in ::send, or its side is at rest on a connection that is cut.
LEMMA ServerStands ==
  ASSUME StillInv, ~CanGo
  PROVE  \/ sTask = "callback" /\ dUnsent[Task] # <<>> /\ Len(dStream) = Capacity /\ ~cut
         \/ /\ sOwner = "idle" /\ cut
            /\ \/ sTask = "none"
               \/ sTask = "loop" /\ sRunning /\ uPhase = "closed"
<1>1. sTask \in ServerTasks \cup {"callback", "none"} /\ sTask # "poll" /\ ~ServerCanGo
  BY PollGoesOn DEF StillInv, SidesInv, CanGo
<1>2. CASE sTask = "callback"
  <2>1. dUnsent[Task] # <<>> /\ ~Down!CanSend(Task)
    BY <1>1, <1>2 DEF ServerCanGo
  <2>2. Len(dStream) \in Nat /\ Capacity \in Nat /\ Len(dStream) <= Capacity
    BY EchoAssumption, LenProperties DEF StillInv, Down!TypeOK
  <2> QED BY <1>2, <2>1, <2>2 DEF Down!CanSend
<1>3. CASE sTask = "loop"
  <2>1. sRunning /\ uPhase = "closed"
    BY <1>1, <1>3 DEF ServerCanGo
  <2>2. cut
    BY <2>1 DEF StillInv, CutInv
  <2>3. sOwner # "join"
    BY <2>1 DEF StillInv, SidesInv, SP!EndpointInv
  <2>4. sOwner = "idle"
    BY <1>3, <2>3, EndStands DEF StillInv
  <2> QED BY <1>3, <2>1, <2>2, <2>4
<1>4. CASE sTask = "exit"
  <2>1. ~sRunning
    BY <1>4 DEF StillInv, CutInv
  <2>2. sOwner = "join"
    BY <1>4, <2>1 DEF StillInv, SidesInv, SP!EndpointInv
  <2> QED BY <1>4, <2>2, EndStands DEF StillInv
<1>5. CASE sTask = "none"
  <2>1. cut /\ sOwner = "idle"
    BY <1>5, EndStands DEF StillInv, CutInv
  <2> QED BY <1>5, <2>1
<1>6. sTask \notin {"report", "close"}
  BY <1>1 DEF ServerCanGo
<1> QED BY <1>1, <1>2, <1>3, <1>4, <1>5, <1>6 DEF ServerTasks

\* The client stands still where it waits for a sender, or is at rest on a connection it has cut.
LEMMA ClientStands ==
  ASSUME StillInv, ~CanGo
  PROVE  \/ /\ \E a \in Users : uUnsent[a] # <<>>
            /\ cTask = "delete" \/ (cTask = "callback" /\ Task \in Users /\ InSend(Task))
         \/ /\ cOwner = "idle" /\ cut
            /\ cTask = "none" \/ (cTask = "begin" /\ cRunning)
<1>1. cTask \in ClientTasks \cup {"callback", "none"} /\ cTask # "poll" /\ ~ClientCanGo
  BY PollGoesOn DEF StillInv, SidesInv, CanGo
<1>2. CASE cTask = "callback"
  <2>1. Task \in Users /\ InSend(Task)
    BY <1>1, <1>2 DEF ClientCanGo
  <2> QED BY <1>2, <2>1, SomebodyHasMtx
<1>3. CASE cTask = "delete"
  BY <1>1, <1>3 DEF ClientCanGo, Up!MtxFree
<1>4. CASE cTask = "begin"
  <2>1. cRunning /\ cut
    BY <1>1, <1>4 DEF ClientCanGo, StillInv, CutInv
  <2>2. cOwner # "join"
    BY <2>1 DEF StillInv, SidesInv, CP!EndpointInv
  <2>3. cOwner = "idle"
    BY <1>4, <2>2, EndStands DEF StillInv
  <2> QED BY <1>4, <2>1, <2>3
<1>5. CASE cTask = "exit"
  <2>1. ~cRunning
    BY <1>5 DEF StillInv, CutInv
  <2>2. cOwner = "join"
    BY <1>5, <2>1 DEF StillInv, SidesInv, CP!EndpointInv
  <2> QED BY <1>5, <2>2, EndStands DEF StillInv
<1>6. CASE cTask = "none"
  <2>1. cut /\ cOwner = "idle"
    BY <1>6, EndStands DEF StillInv, CutInv
  <2> QED BY <1>6, <2>1
<1>7. cTask \notin {"loop", "report", "disconnect"}
  BY <1>1 DEF ClientCanGo
<1> QED BY <1>1, <1>2, <1>3, <1>4, <1>5, <1>6, <1>7 DEF ClientTasks

\* Where nothing goes on, each side waits for the other to receive, or both are at rest.
LEMMA Standstill == StillInv => OnlyKnot
<1> SUFFICES ASSUME StillInv, ~CanGo PROVE Knot \/ AtRest
  BY DEF OnlyKnot
<1>1. Up!TypeOK
  BY DEF StillInv
<1>2. CASE \E a \in Users : uUnsent[a] # <<>>
  <2>1. ~cut /\ Len(uStream) = Capacity
    BY <1>1, <1>2, SenderGoesOn
  <2>2. sTask = "callback" /\ dUnsent[Task] # <<>> /\ Len(dStream) = Capacity
    BY <2>1, ServerStands
  <2>3. cTask = "delete" \/ (cTask = "callback" /\ Task \in Users /\ InSend(Task))
    BY <2>1, ClientStands
  <2> QED BY <1>2, <2>1, <2>2, <2>3 DEF Knot
<1>3. CASE ~\E a \in Users : uUnsent[a] # <<>>
  <2>1. cOwner = "idle" /\ cut /\ (cTask = "none" \/ (cTask = "begin" /\ cRunning))
    BY <1>3, ClientStands
  <2>2. /\ sOwner = "idle"
        /\ sTask = "none" \/ (sTask = "loop" /\ sRunning /\ uPhase = "closed")
    BY <2>1, ServerStands
  <2>3. \A a \in Users : ~InSend(a)
    BY <1>3, SomebodyHasMtx
  <2> QED BY <2>1, <2>2, <2>3 DEF AtRest
<1> QED BY <1>2, <1>3

\* Something other than a new call can happen, or both sides are done with the connection, or it
\* is the knot: no lock, thread or message is lost in any other way, for any users and any sizes.
THEOREM NoOtherStandstill == Spec => []OnlyKnot
BY Standstill, Still, PTL

\* Used as the tests use it, with the owner alone sending, the two sides never stand still: the
\* owner is not in ::send when it ends the client, so nobody holds the mtx_ do_delete waits for.
THEOREM OwnerAloneGoesOn == Spec => []OneSenderGoesOn
<1>1. ASSUME StillInv PROVE OneSenderGoesOn
  <2> SUFFICES ASSUME Users \subseteq {Owner}, Knot PROVE FALSE
    BY <1>1, Standstill DEF OneSenderGoesOn, OnlyKnot
  <2>1. PICK a \in Users : uUnsent[a] # <<>>
    BY DEF Knot
  <2>2. Owner \in Users /\ InSend(Owner)
    BY <2>1 DEF InSend
  <2>3. cRunning
    BY <1>1, <2>2 DEF StillInv, OwnerInv
  <2>4. Task \notin Users /\ cTask = "delete" /\ ~cut
    BY EchoAssumption DEF Knot
  <2> QED BY <1>1, <2>3, <2>4 DEF StillInv, CutInv
<1> QED BY <1>1, Still, PTL

\* Once in the knot, always in the knot: nothing either side does takes a cell out of a stream,
\* releases a mutex or closes the connection, and so an end() of the client never returns.
THEOREM KnotIsForEver == Spec => KnotStays
<1>1. ASSUME SidesInv, [Next]_vars PROVE Knot => Knot'
  <2> SUFFICES ASSUME Knot PROVE Knot'
    OBVIOUS
  <2>1. /\ ~Up!MtxFree /\ ~Down!MtxFree /\ ~cut
        /\ sTask = "callback" /\ cTask \in {"callback", "delete"}
    BY DEF Knot, Up!MtxFree, Down!MtxFree
  <2>2. /\ Capacity \in Nat /\ Len(uStream) = Capacity /\ Len(dStream) = Capacity
        /\ wanted \in [Users -> Requests \cup {NoRequest}]
    BY <1>1, EchoAssumption DEF Knot, SidesInv
  <2>3. ASSUME NEW a \in Users PROVE ~SendGoesOn(a) /\ ~SendCheck(a)
    <3>1. ~Up!SendSome(a)
      BY <2>2 DEF Up!SendSome
    <3>2. ~Up!SendCut(a)
      BY <2>1 DEF Up!SendCut
    <3>3. ~SendCheck(a)
      BY <2>1 DEF SendCheck, Up!SendBegin
    <3> QED BY <3>1, <3>2, <3>3 DEF SendGoesOn
  <2>4. ~ServerTask
    <3>1. ~Down!SendSome(Task)
      BY <2>2 DEF Down!SendSome
    <3>2. ~Reply /\ ~ReplyGoesOn /\ ~ServerReportEnd
      BY <2>1, <3>1 DEF Reply, ReplyGoesOn, ServerReportEnd, Down!SendBegin, Down!SendCut
    <3> QED BY <2>1, <3>2 DEF ServerTask, ServerLoop, ServerRecieve, ServerReport, ServerClose,
                S!TaskStep, S!CallbackBegin
  <2>5. ~ClientTask
    <3>1. ~ClientReportEnd
      BY DEF Knot, ClientReportEnd, C!CallbackEnd
    <3>2. ~ClientDelete
      BY <2>1 DEF ClientDelete
    <3> QED BY <2>1, <3>1, <3>2 DEF ClientTask, ClientLoop, ClientRecieve, ClientReport, ClientDisconnect,
                ClientExit, C!TaskStep, C!CallbackBegin
  <2>6. ASSUME NEW a \in Users, SendCall(a) PROVE Knot'
    <3>1. UNCHANGED <<uUnsent, uStream, dUnsent, dStream, sTask, cTask, cut>>
      BY <2>6 DEF SendCall, clientVars, serverVars, upVars, downVars
    <3>2. Task \in Users /\ InSend(Task) /\ cTask = "callback" => InSend(Task)'
      BY <2>2, <2>6, <3>1 DEF SendCall, InSend
    <3> QED BY <3>1, <3>2 DEF Knot
  <2>7. CASE ClientEnd \/ ServerEnd
    <3>1. UNCHANGED <<uUnsent, uStream, dUnsent, dStream, wanted, cut>>
      BY <2>7 DEF ClientEnd, ServerEnd, upVars, downVars
    <3>2. UNCHANGED <<sTask, cTask>>
      BY <2>1, <2>7 DEF ClientEnd, ServerEnd, clientVars, serverVars, C!EndCall, C!EndReturns,
         C!EndClear, C!EndStop, C!EndJoin, S!EndCall, S!EndReturns, S!EndClear, S!EndStop, S!EndJoin
    <3> QED BY <3>1, <3>2 DEF Knot, InSend
  <2>8. CASE Finished \/ UNCHANGED vars
    BY <2>8 DEF Finished, vars, Knot, InSend, clientVars, serverVars, upVars, downVars
  <2> QED BY <1>1, <2>3, <2>4, <2>5, <2>6, <2>7, <2>8 DEF Next
<1>2. SidesInv /\ [Next]_vars => [Knot => Knot']_vars
  BY <1>1
<1> QED BY <1>2, Sides, PTL DEF Spec, KnotStays
=============================================================================
