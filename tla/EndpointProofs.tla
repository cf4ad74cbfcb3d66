--------------------------- MODULE EndpointProofs ---------------------------
(***************************************************************************)
(* What every operation of Endpoint preserves, and which step of Reporter  *)
(* it is.  SocketClientProofs and SocketServerProofs cite these lemmas.    *)
(***************************************************************************)
EXTENDS Endpoint, TLAPS

\* Types, as far as the proofs need them.
EndpointType ==
    /\ owner \in {"idle", "lock", "stop", "join"}
    /\ reciever_ \in Recievers \cup {NoReciever}
    /\ called \in Recievers \cup {NoReciever}
    /\ isRunning_ \in BOOLEAN

\* A receiver is called exactly while the task is in its callback, and it is the registered one;
\* from EndClear to the end of end() none is; th_ exists from start to the end's join.
EndpointInv ==
    /\ called # NoReciever <=> task = "callback"
    /\ called # NoReciever => called = reciever_
    /\ owner \in {"stop", "join"} => reciever_ = NoReciever
    /\ owner = "join" => ~isRunning_
    /\ task = "none" <=> ~isRunning_ /\ owner # "join"

\* The two safety invariants of an endpoint follow.
LEMMA EndpointSafe == EndpointInv => CallsRegisteredReciever /\ QuietAfterEnd
BY DEF EndpointInv, CallsRegisteredReciever, QuietAfterEnd

\* A fresh endpoint.
LEMMA EndpointStarts == EndpointInit => EndpointType /\ EndpointInv /\ Abstract!Init
BY RecieverAssumption DEF EndpointInit, EndpointType, EndpointInv, Abstract!Init

\* start and the four steps of end(): one step of Reporter each, or none when the thread still
\* has to be joined.
LEMMA OwnerPreserves ==
  ASSUME EndpointType, EndpointInv, OwnerStep
  PROVE  EndpointType' /\ EndpointInv' /\ [Abstract!Next]_Abstract!vars
<1> USE RecieverAssumption DEF EndpointType, EndpointInv, Abstract!Next, Abstract!vars
<1>1. ASSUME NEW r \in Recievers, Start(r) PROVE EndpointType' /\ EndpointInv' /\ Abstract!Next
  <2>1. EndpointType' /\ EndpointInv'
    BY <1>1 DEF Start
  <2>2. Abstract!Start(r)
    BY <1>1 DEF Start, Abstract!Start
  <2> QED BY <2>1, <2>2
<1>2. CASE EndCall
  BY <1>2 DEF EndCall, Abstract!End
<1>3. CASE EndClear
  BY <1>3 DEF EndClear, Abstract!Unregister
<1>4. CASE EndStop
  BY <1>4 DEF EndStop, Abstract!Ended
<1>5. CASE EndJoin
  BY <1>5 DEF EndJoin, Abstract!Ended
<1> QED BY <1>1, <1>2, <1>3, <1>4, <1>5 DEF OwnerStep, EndReturns

\* The callback begins: Reporter's call, or nothing when no receiver is registered.
LEMMA CallbackBeginPreserves ==
  ASSUME EndpointType, EndpointInv, NEW from, NEW next,
         from \notin {"none", "callback"}, next \notin {"none", "callback"},
         CallbackBegin(from, next)
  PROVE  EndpointType' /\ EndpointInv' /\ Abstract!Next
BY RecieverAssumption
   DEF EndpointType, EndpointInv, CallbackBegin, Abstract!Next, Abstract!Report

\* The callback ends.
LEMMA CallbackEndPreserves ==
  ASSUME EndpointType, EndpointInv, NEW next, next \notin {"none", "callback"}, CallbackEnd(next)
  PROVE  EndpointType' /\ EndpointInv' /\ Abstract!Next
BY RecieverAssumption
   DEF EndpointType, EndpointInv, CallbackEnd, Abstract!Next, Abstract!Return

\* A step of the task that concerns the socket only.
LEMMA TaskStepPreserves ==
  ASSUME EndpointType, EndpointInv, NEW from, NEW next,
         from \notin {"none", "callback"}, next \notin {"none", "callback"},
         TaskStep(from, next)
  PROVE  EndpointType' /\ EndpointInv' /\ UNCHANGED Abstract!vars
BY DEF EndpointType, EndpointInv, TaskStep, Abstract!vars

\* A step of somebody else.
LEMMA OthersPreserve ==
  ASSUME EndpointType, EndpointInv, UNCHANGED endpointVars
  PROVE  EndpointType' /\ EndpointInv' /\ UNCHANGED Abstract!vars
BY DEF EndpointType, EndpointInv, endpointVars, Abstract!vars
=============================================================================
