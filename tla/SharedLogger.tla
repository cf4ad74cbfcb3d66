---------------------------- MODULE SharedLogger ----------------------------
(***************************************************************************)
(* Several ThreadPools in one process share one Logger: each constructor   *)
(* calls createInstance, each destructor freeInstance after its joins, and *)
(* every thread in between calls getInstance()->... .  No lock guards the  *)
(* pointer.  ThreadPool has the rest of a pool.                            *)
(***************************************************************************)
EXTENDS Integers, FiniteSets

CONSTANTS
    Pools,     \* each is constructed and destroyed once
    Threads,   \* of each pool; what its constructor and add call is over before its destructor begins
    Loggers,   \* the objects new may return, no address twice
    nullptr,
    NoCall

ASSUME LoggerAssumption ==
    /\ nullptr \notin Loggers
    /\ NoCall \notin Loggers \cup {nullptr}

VARIABLES
    logger,    \* the pointer
    object,    \* each Logger: "unborn", "live", "freed", or "broken" by a second delete
    life,      \* where each pool's constructor or destructor is
    calling,   \* per pool and thread: the pointer getInstance returned, while its function runs
    \* History.
    met,       \* pairs of pools that existed at the same time
    raced      \* two pools have been in createInstance, or two in freeInstance, at once

vars == <<logger, object, life, calling, met, raced>>

Init ==
    /\ logger = nullptr
    /\ object = [l \in Loggers |-> "unborn"]
    /\ life = [p \in Pools |-> "none"]
    /\ calling = [p \in Pools |-> [t \in Threads |-> NoCall]]
    /\ met = {}
    /\ raced = FALSE

Creating == {"check", "create"}
Freeing  == {"free", "clear"}

Goto(p, from, to) ==
    /\ life[p] = from
    /\ life' = [life EXCEPT ![p] = to]
    /\ raced' = (raced \/ \E set \in {Creating, Freeing} :
                            to \in set /\ \E q \in Pools \ {p} : life[q] \in set)

-----------------------------------------------------------------------------

Construct(p) ==
    /\ Goto(p, "none", "check")
    /\ met' = met \cup {{p, q} : q \in {r \in Pools \ {p} : life[r] \notin {"none", "gone"}}}
    /\ UNCHANGED <<logger, object, calling>>

\* Mutant: every pool makes a Logger.
MutCheck(p) ==
    /\ Goto(p, "check", "create")
    /\ UNCHANGED <<logger, object, calling, met>>

\* createInstance: the pointer is looked at, then a Logger is made and stored.
Check(p) ==
    /\ Goto(p, "check", IF logger = nullptr THEN "create" ELSE "alive")
    /\ UNCHANGED <<logger, object, calling, met>>

Create(p) ==
    /\ Goto(p, "create", "alive")
    /\ \E l \in Loggers :
         /\ object[l] = "unborn"
         /\ object' = [object EXCEPT ![l] = "live"]
         /\ logger' = l
    /\ UNCHANGED <<calling, met>>

\* addThread, updateThread, addQueue or updateQueue on what getInstance returns.
Call(p, t) ==
    /\ life[p] \in {"alive", "join"}
    /\ calling[p][t] = NoCall
    /\ calling' = [calling EXCEPT ![p][t] = logger]
    /\ UNCHANGED <<logger, object, life, met, raced>>

CallReturns(p, t) ==
    /\ calling[p][t] # NoCall
    /\ calling' = [calling EXCEPT ![p][t] = NoCall]
    /\ UNCHANGED <<logger, object, life, met, raced>>

Destroy(p) ==
    /\ Goto(p, "alive", "join")
    /\ UNCHANGED <<logger, object, calling, met>>

\* Mutant: freeInstance before the joins.
MutJoin(p) ==
    /\ Goto(p, "join", "free")
    /\ UNCHANGED <<logger, object, calling, met>>

Join(p) ==
    /\ \A t \in Threads : calling[p][t] = NoCall
    /\ Goto(p, "join", "free")
    /\ UNCHANGED <<logger, object, calling, met>>

\* freeInstance: the Logger is deleted, then the pointer cleared.
Free(p) ==
    /\ IF logger = nullptr
       THEN Goto(p, "free", "gone") /\ UNCHANGED object
       ELSE /\ Goto(p, "free", "clear")
            /\ object' = [object EXCEPT ![logger] = IF @ = "live" THEN "freed" ELSE "broken"]
    /\ UNCHANGED <<logger, calling, met>>

\* Mutant: the pointer is kept.
MutClear(p) ==
    /\ Goto(p, "clear", "gone")
    /\ UNCHANGED <<logger, object, calling, met>>

Clear(p) ==
    /\ Goto(p, "clear", "gone")
    /\ logger' = nullptr
    /\ UNCHANGED <<object, calling, met>>

AllGone == (\A p \in Pools : life[p] = "gone") /\ UNCHANGED vars

Next ==
    \/ \E p \in Pools :
         \/ Construct(p) \/ Check(p) \/ Create(p)
         \/ Destroy(p) \/ Join(p) \/ Free(p) \/ Clear(p)
         \/ \E t \in Threads : Call(p, t) \/ CallReturns(p, t)
    \/ AllGone

Spec == Init /\ [][Next]_vars

-----------------------------------------------------------------------------

TypeOK ==
    /\ logger \in Loggers \cup {nullptr}
    /\ object \in [Loggers -> {"unborn", "live", "freed", "broken"}]
    /\ life \in [Pools -> {"none", "check", "create", "alive", "join", "free", "clear", "gone"}]
    /\ calling \in [Pools -> [Threads -> Loggers \cup {nullptr, NoCall}]]
    /\ met \subseteq SUBSET Pools
    /\ raced \in BOOLEAN
    /\ \A p \in Pools, t \in Threads : calling[p][t] # NoCall => life[p] \in {"alive", "join"}

Dead(l) == l = nullptr \/ (l # NoCall /\ object[l] # "live")

\* A pool whose life met no other's never uses a deleted or missing Logger, however often pools
\* were made and destroyed before it: only the end of a pool it met can take its Logger away.
OnlyAnEndedPoolTakesIt ==
    \A p \in Pools, t \in Threads :
      Dead(calling[p][t]) =>
        \E q \in Pools : {p, q} \in met /\ q # p /\ life[q] \in {"clear", "gone"}

\* Pools may overlap in any way: unless two constructors are in createInstance or two destructors
\* in freeInstance at once, there is never a second Logger, none is lost, none is deleted twice,
\* and the last pool leaves none behind.
OneLoggerUnlessRaced ==
    raced \/ /\ \A l \in Loggers : object[l] = "live" => l = logger
             /\ \A l \in Loggers : object[l] # "broken"
             /\ (\A p \in Pools : life[p] \in {"none", "gone"}) => logger = nullptr
=============================================================================
