------------------------------ MODULE Reporter ------------------------------
(***************************************************************************)
(* What a Server or a Client promises the application that starts and ends *)
(* it, without threads, locks or sockets: it calls the receiver registered *)
(* last, one call at a time, and calls none from some moment of end() on.  *)
(***************************************************************************)
CONSTANTS Recievers, NoReciever

VARIABLES
    stage,        \* "stopped", "running", or "ending": end() has been called
    registered,
    calling       \* the receiver that is being called

vars == <<stage, registered, calling>>

Init ==
    /\ stage = "stopped"
    /\ registered = NoReciever
    /\ calling = NoReciever

\* A second start only replaces the receiver, and waits for a call in progress.
Start(r) ==
    /\ stage # "ending" /\ calling = NoReciever
    /\ stage' = "running"
    /\ registered' = r
    /\ UNCHANGED calling

End ==
    /\ stage # "ending"
    /\ stage' = "ending"
    /\ UNCHANGED <<registered, calling>>

Unregister ==
    /\ stage = "ending" /\ calling = NoReciever
    /\ registered' = NoReciever
    /\ UNCHANGED <<stage, calling>>

Report ==
    /\ stage # "stopped" /\ calling = NoReciever
    /\ calling' = registered
    /\ UNCHANGED <<stage, registered>>

Return ==
    /\ calling # NoReciever
    /\ calling' = NoReciever
    /\ UNCHANGED <<stage, registered>>

Ended ==
    /\ stage = "ending" /\ registered = NoReciever /\ calling = NoReciever
    /\ stage' = "stopped"
    /\ UNCHANGED <<registered, calling>>

Next == End \/ Unregister \/ Report \/ Return \/ Ended \/ \E r \in Recievers : Start(r)

SafeSpec == Init /\ [][Next]_vars

\* A call returns, and an end() in progress withdraws the receiver, however many calls are made
\* in the meantime, and returns.
Spec ==
    /\ SafeSpec
    /\ SF_vars(Unregister)
    /\ WF_vars(Return)
    /\ WF_vars(Ended)
=============================================================================
