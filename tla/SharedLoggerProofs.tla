------------------------- MODULE SharedLoggerProofs -------------------------
(***************************************************************************)
(* Proofs about SharedLogger, for any number of pools, threads and Loggers *)
(***************************************************************************)
EXTENDS SharedLogger, TLAPS

\* Two pools that exist have met.
MetInv ==
    \A p, q \in Pools :
      p # q /\ life[p] \notin {"none", "gone"} /\ life[q] \notin {"none", "gone"} => {p, q} \in met

\* Somebody p has met has got as far as deleting the Logger.
MetAnEnd(p) == \E q \in Pools : {p, q} \in met /\ q # p /\ life[q] \in {"clear", "gone"}

\* A deleted Logger is pointed to only until its destructor clears the pointer, and what a pool
\* finds there is dead only if a pool it met has ended.
DeadInv ==
    /\ logger # nullptr /\ object[logger] # "live" => \E q \in Pools : life[q] = "clear"
    /\ \A p \in Pools : life[p] \in {"alive", "join"} /\ Dead(logger) => MetAnEnd(p)
    /\ \A p \in Pools, t \in Threads : Dead(calling[p][t]) => MetAnEnd(p)

\* While nobody has raced there is one pool at most in createInstance and one in freeInstance, and
\* what they have seen of the pointer is still so.
OneInv ==
    ~raced =>
      /\ \A p, q \in Pools : life[p] \in Creating /\ life[q] \in Creating => p = q
      /\ \A p, q \in Pools : life[p] \in Freeing /\ life[q] \in Freeing => p = q
      /\ \A p \in Pools : life[p] = "create" => logger = nullptr
      /\ \A p \in Pools : life[p] = "clear" => logger # nullptr /\ object[logger] = "freed"
      /\ \A l \in Loggers : object[l] = "live" => l = logger
      /\ \A l \in Loggers : object[l] # "broken"
      /\ logger # nullptr => \E p \in Pools : life[p] \in {"alive", "join", "free", "clear"}

LInv == TypeOK /\ MetInv /\ DeadInv /\ OneInv

-----------------------------------------------------------------------------

\* The initial state.
LEMMA InitLInv == Init => LInv
<1> SUFFICES ASSUME Init PROVE LInv
  OBVIOUS
<1>1. TypeOK
  BY LoggerAssumption DEF Init, TypeOK
<1>2. MetInv /\ OneInv
  BY LoggerAssumption DEF Init, MetInv, OneInv, Creating, Freeing
<1>3. DeadInv
  BY LoggerAssumption DEF Init, DeadInv, Dead
<1> QED BY <1>1, <1>2, <1>3 DEF LInv

\* A call begins or returns: one pool's entry for one thread changes.
LEMMA CallChanges ==
  ASSUME TypeOK, NEW p \in Pools, NEW t \in Threads, Call(p, t) \/ CallReturns(p, t)
  PROVE  /\ UNCHANGED <<logger, object, life, met, raced>>
         /\ calling' \in [Pools -> [Threads -> Loggers \cup {nullptr, NoCall}]]
         /\ \A q \in Pools, u \in Threads :
              \/ calling'[q][u] \in {calling[q][u], NoCall}
              \/ q = p /\ life[p] \in {"alive", "join"} /\ calling'[q][u] = logger
<1>1. PICK l \in Loggers \cup {nullptr, NoCall} :
        /\ calling' = [calling EXCEPT ![p][t] = l]
        /\ l = NoCall \/ (l = logger /\ life[p] \in {"alive", "join"})
  BY DEF TypeOK, Call, CallReturns
<1>2. calling \in [Pools -> [Threads -> Loggers \cup {nullptr, NoCall}]]
  BY DEF TypeOK
<1>3. \A q \in Pools, u \in Threads :
        calling'[q][u] = IF q = p /\ u = t THEN l ELSE calling[q][u]
  BY <1>1, <1>2
<1>4. calling' \in [Pools -> [Threads -> Loggers \cup {nullptr, NoCall}]]
  BY <1>1, <1>2
<1>5. UNCHANGED <<logger, object, life, met, raced>>
  BY DEF Call, CallReturns
<1> QED BY <1>1, <1>3, <1>4, <1>5

\* Types are kept.
LEMMA NextTypeOK == TypeOK /\ [Next]_vars => TypeOK'
<1> SUFFICES ASSUME TypeOK, [Next]_vars PROVE TypeOK'
  OBVIOUS
<1> USE LoggerAssumption DEF TypeOK, Goto
<1>1. ASSUME NEW p \in Pools, Construct(p) PROVE TypeOK'
  BY <1>1 DEF Construct
<1>2. ASSUME NEW p \in Pools, Check(p) \/ Create(p) PROVE TypeOK'
  BY <1>2 DEF Check, Create
<1>3. ASSUME NEW p \in Pools, Destroy(p) \/ Join(p) PROVE TypeOK'
  BY <1>3 DEF Destroy, Join
<1>4. ASSUME NEW p \in Pools, Free(p) \/ Clear(p) PROVE TypeOK'
  BY <1>4 DEF Free, Clear
<1>5. ASSUME NEW p \in Pools, NEW t \in Threads, Call(p, t) \/ CallReturns(p, t) PROVE TypeOK'
  BY <1>5, CallChanges
<1>6. CASE UNCHANGED vars
  BY <1>6 DEF vars
<1> QED BY <1>1, <1>2, <1>3, <1>4, <1>5, <1>6 DEF Next, AllGone

\* A pool that is constructed meets all there are.
LEMMA NextMetInv == TypeOK /\ MetInv /\ [Next]_vars => MetInv' /\ met \subseteq met'
<1> SUFFICES ASSUME TypeOK, MetInv, [Next]_vars PROVE MetInv' /\ met \subseteq met'
  OBVIOUS
<1> USE DEF TypeOK, MetInv, Goto
<1>1. ASSUME NEW p \in Pools, Construct(p) PROVE MetInv' /\ met \subseteq met'
  <2>1. /\ life' = [life EXCEPT ![p] = "check"]
        /\ met' = met \cup {{p, q} : q \in {r \in Pools \ {p} : life[r] \notin {"none", "gone"}}}
    BY <1>1 DEF Construct
  <2>2. ASSUME NEW q \in Pools, q # p, life[q] \notin {"none", "gone"}
        PROVE  {p, q} \in met' /\ {q, p} \in met'
    <3>1. {p, q} = {q, p}
      OBVIOUS
    <3> QED BY <2>1, <2>2, <3>1
  <2> QED BY <2>1, <2>2
<1>2. ASSUME NEW p \in Pools, Check(p) \/ Create(p) \/ Destroy(p) \/ Join(p) \/ Free(p) \/ Clear(p)
      PROVE  MetInv' /\ met \subseteq met'
  BY <1>2 DEF Check, Create, Destroy, Join, Free, Clear
<1>3. CASE UNCHANGED <<life, met>>
  BY <1>3
<1> QED BY <1>1, <1>2, <1>3 DEF Next, AllGone, vars, Call, CallReturns

\* Only freeInstance kills a Logger, and whoever uses it has met the pool that called it.
LEMMA NextDeadInv ==
  ASSUME LInv, [Next]_vars, TypeOK', MetInv', met \subseteq met'
  PROVE  DeadInv'
<1>0. /\ life \in [Pools -> {"none", "check", "create", "alive", "join", "free", "clear", "gone"}]
      /\ object \in [Loggers -> {"unborn", "live", "freed", "broken"}]
      /\ logger \in Loggers \cup {nullptr}
      /\ nullptr \notin Loggers /\ NoCall \notin Loggers \cup {nullptr}
      /\ \A p \in Pools, t \in Threads : calling[p][t] # NoCall => life[p] \in {"alive", "join"}
  BY LoggerAssumption DEF LInv, TypeOK
<1> USE DEF Goto
<1>1. \A q \in Pools : life[q] \in {"clear", "gone"} => life'[q] \in {"clear", "gone"}
  BY <1>0 DEF Next, AllGone, vars, Construct, Check, Create, Destroy, Join, Free, Clear, Call, CallReturns
<1>2. \A p \in Pools : MetAnEnd(p) => MetAnEnd(p)'
  BY <1>1 DEF MetAnEnd
<1> DEFINE Stale == logger # nullptr /\ object[logger] # "live" => \E q \in Pools : life[q] = "clear"
           Finds == \A p \in Pools : life[p] \in {"alive", "join"} /\ Dead(logger) => MetAnEnd(p)
           Uses  == \A p \in Pools, t \in Threads : Dead(calling[p][t]) => MetAnEnd(p)
<1>3. Stale /\ Finds /\ Uses
  BY DEF LInv, DeadInv
<1>4. ASSUME NEW p \in Pools, Construct(p) \/ Destroy(p) \/ Join(p) PROVE Stale' /\ Finds' /\ Uses'
  <2>1. UNCHANGED <<logger, object, calling>>
    BY <1>4 DEF Construct, Destroy, Join
  <2>2. /\ \A q \in Pools : life[q] = "clear" => life'[q] = "clear"
        /\ \A q \in Pools : life'[q] \in {"alive", "join"} => life[q] \in {"alive", "join"}
    BY <1>0, <1>4 DEF Construct, Destroy, Join
  <2> QED BY <1>2, <1>3, <2>1, <2>2 DEF Dead
<1>5. ASSUME NEW p \in Pools, Check(p) PROVE Stale' /\ Finds' /\ Uses'
  <2>1. UNCHANGED <<logger, object, calling>>
    BY <1>5 DEF Check
  <2>2. /\ life[p] = "check" /\ \A q \in Pools \ {p} : life'[q] = life[q]
        /\ life'[p] \in {"alive", "join"} => logger # nullptr /\ life'[p] = "alive"
    BY <1>0, <1>5 DEF Check
  <2>3. Stale' /\ Uses'
    BY <1>2, <1>3, <2>1, <2>2 DEF Dead
  <2>4. ASSUME life'[p] \in {"alive", "join"}, Dead(logger) PROVE MetAnEnd(p)'
    <3>1. PICK q \in Pools : life[q] = "clear"
      BY <1>3, <2>2, <2>4 DEF Dead
    <3>2. q # p /\ life'[q] = "clear" /\ life'[p] = "alive"
      BY <2>2, <2>4, <3>1
    <3>3. {p, q} \in met'
      BY <3>2 DEF MetInv
    <3> QED BY <3>2, <3>3 DEF MetAnEnd
  <2>5. Finds'
    BY <1>2, <1>3, <2>1, <2>2, <2>4 DEF Dead
  <2> QED BY <2>3, <2>5
<1>6. ASSUME NEW p \in Pools, Create(p) PROVE Stale' /\ Finds' /\ Uses'
  <2>1. PICK l \in Loggers :
          object[l] = "unborn" /\ object' = [object EXCEPT ![l] = "live"] /\ logger' = l
    BY <1>6 DEF Create
  <2>2. calling' = calling
    BY <1>6 DEF Create
  <2>3. object'[logger'] = "live" /\ ~Dead(logger)'
    BY <1>0, <2>1 DEF Dead
  <2>4. \A q \in Pools, t \in Threads : Dead(calling[q][t])' => Dead(calling[q][t])
    BY <1>0, <2>1, <2>2 DEF Dead
  <2> QED BY <1>2, <1>3, <2>3, <2>4
<1>7. ASSUME NEW p \in Pools, Free(p) PROVE Stale' /\ Finds' /\ Uses'
  <2>1. /\ life[p] = "free" /\ \A q \in Pools \ {p} : life'[q] = life[q]
        /\ life'[p] \in {"clear", "gone"} /\ UNCHANGED <<logger, calling>>
        /\ logger # nullptr => life'[p] = "clear"
        /\ logger = nullptr => object' = object
    BY <1>0, <1>7 DEF Free
  <2>2. Stale'
    BY <2>1
  <2>3. \A q \in Pools : life'[q] \in {"alive", "join"} => q # p /\ life[q] = life'[q]
    BY <2>1
  <2>4. CASE logger = nullptr
    BY <1>2, <1>3, <2>1, <2>2, <2>3, <2>4 DEF Dead
  <2>5. CASE logger # nullptr
    <3>1. ASSUME NEW q \in Pools, life'[q] \in {"alive", "join"} PROVE MetAnEnd(q)'
      <4>1. {q, p} \in met' /\ p # q
        BY <2>1, <2>3, <2>5, <3>1 DEF MetInv
      <4> QED BY <2>1, <4>1 DEF MetAnEnd
    <3>2. ASSUME NEW q \in Pools, NEW t \in Threads, Dead(calling[q][t])' PROVE MetAnEnd(q)'
      <4>1. CASE calling[q][t] = NoCall
        BY <1>0, <2>1, <3>2, <4>1 DEF Dead
      <4>2. CASE calling[q][t] # NoCall
        BY <1>0, <2>1, <3>1, <4>2
      <4> QED BY <4>1, <4>2
    <3> QED BY <2>2, <3>1, <3>2
  <2> QED BY <2>4, <2>5
<1>8. ASSUME NEW p \in Pools, Clear(p) PROVE Stale' /\ Finds' /\ Uses'
  <2>1. /\ life[p] = "clear" /\ \A q \in Pools \ {p} : life'[q] = life[q]
        /\ life'[p] = "gone" /\ logger' = nullptr /\ UNCHANGED <<object, calling>>
    BY <1>0, <1>8 DEF Clear
  <2>2. ASSUME NEW q \in Pools, life'[q] \in {"alive", "join"} PROVE MetAnEnd(q)'
    <3>1. q # p /\ life[q] \in {"alive", "join"}
      BY <2>1, <2>2
    <3>2. {q, p} \in met
      BY <2>1, <3>1 DEF LInv, MetInv
    <3> QED BY <2>1, <3>1, <3>2 DEF MetAnEnd
  <2>3. Uses'
    BY <1>2, <1>3, <2>1 DEF Dead
  <2> QED BY <2>1, <2>2, <2>3
<1>9. ASSUME NEW p \in Pools, NEW t \in Threads, Call(p, t) \/ CallReturns(p, t)
      PROVE  Stale' /\ Finds' /\ Uses'
  <2>1. /\ UNCHANGED <<logger, object, life>>
        /\ \A q \in Pools, u \in Threads :
             \/ calling'[q][u] \in {calling[q][u], NoCall}
             \/ q = p /\ life[p] \in {"alive", "join"} /\ calling'[q][u] = logger
    BY <1>9, CallChanges DEF LInv
  <2>2. ~Dead(NoCall)
    BY <1>0 DEF Dead
  <2>3. ASSUME NEW q \in Pools, NEW u \in Threads, Dead(calling[q][u])' PROVE MetAnEnd(q)
    BY <1>3, <2>1, <2>2, <2>3 DEF Dead
  <2>4. Stale' /\ Finds'
    BY <1>2, <1>3, <2>1 DEF Dead
  <2> QED BY <1>2, <2>3, <2>4
<1>10. ASSUME UNCHANGED vars PROVE Stale' /\ Finds' /\ Uses'
  <2>1. UNCHANGED <<logger, object, life, calling, met>>
    BY <1>10 DEF vars
  <2> QED BY <1>2, <1>3, <2>1 DEF Dead
<1> HIDE DEF Stale, Finds, Uses, Goto
<1>11. Stale' /\ Finds' /\ Uses'
  BY <1>4, <1>5, <1>6, <1>7, <1>8, <1>9, <1>10 DEF Next, AllGone
<1> QED BY <1>11 DEF DeadInv, Stale, Finds, Uses

\* A race is remembered; without one, what createInstance and freeInstance saw stays true.
LEMMA NextOneInv == TypeOK /\ DeadInv /\ OneInv /\ [Next]_vars => OneInv'
<1> SUFFICES ASSUME TypeOK, DeadInv, OneInv, [Next]_vars, ~raced' PROVE OneInv'
  BY DEF OneInv
<1>0. /\ life \in [Pools -> {"none", "check", "create", "alive", "join", "free", "clear", "gone"}]
      /\ object \in [Loggers -> {"unborn", "live", "freed", "broken"}]
      /\ logger \in Loggers \cup {nullptr} /\ nullptr \notin Loggers
  BY LoggerAssumption DEF TypeOK
<1> USE DEF OneInv, Goto, Creating, Freeing
<1>1. ~raced
  BY DEF Next, AllGone, vars, Construct, Check, Create, Destroy, Join, Free, Clear, Call, CallReturns
<1>2. ASSUME NEW p \in Pools, Construct(p) \/ Destroy(p) \/ Join(p) PROVE OneInv'
  <2>1. /\ UNCHANGED <<logger, object>> /\ \A q \in Pools \ {p} : life'[q] = life[q]
        /\ <<life[p], life'[p]>> \in {<<"none", "check">>, <<"alive", "join">>, <<"join", "free">>}
    BY <1>0, <1>2 DEF Construct, Destroy, Join
  <2>2. \A set \in {Creating, Freeing} :
          life'[p] \in set => \A q \in Pools \ {p} : life[q] \notin set
    BY <1>0, <1>2 DEF Construct, Destroy, Join
  <2>3. /\ \A q, r \in Pools : life'[q] \in Creating /\ life'[r] \in Creating => q = r
        /\ \A q, r \in Pools : life'[q] \in Freeing /\ life'[r] \in Freeing => q = r
    BY <1>1, <2>1, <2>2
  <2>4. \A q \in Pools : life'[q] \in {"create", "clear"} => life[q] = life'[q]
    BY <2>1
  <2>5. logger # nullptr => \E q \in Pools : life'[q] \in {"alive", "join", "free", "clear"}
    BY <1>1, <2>1
  <2> QED BY <1>1, <2>1, <2>3, <2>4, <2>5
<1>3. ASSUME NEW p \in Pools, Check(p) PROVE OneInv'
  BY <1>0, <1>1, <1>3 DEF Check
<1>4. ASSUME NEW p \in Pools, Create(p) PROVE OneInv'
  BY <1>0, <1>1, <1>4 DEF Create
<1>5. ASSUME NEW p \in Pools, Free(p) PROVE OneInv'
  <2>1. /\ life[p] = "free" /\ \A q \in Pools \ {p} : life'[q] = life[q] /\ life[q] \notin Freeing
        /\ logger' = logger
    BY <1>0, <1>1, <1>5 DEF Free
  <2>2. CASE logger = nullptr
    BY <1>0, <1>1, <1>5, <2>1, <2>2 DEF Free
  <2>3. CASE logger # nullptr
    <3>1. life'[p] = "clear" /\ logger \in Loggers
            /\ object' = [object EXCEPT ![logger] = IF @ = "live" THEN "freed" ELSE "broken"]
      BY <1>0, <1>5, <2>3 DEF Free
    <3>2. object[logger] = "live"
      BY <1>0, <2>1, <2>3 DEF DeadInv
    <3> QED BY <1>0, <1>1, <2>1, <2>3, <3>1, <3>2
  <2> QED BY <2>2, <2>3
<1>6. ASSUME NEW p \in Pools, Clear(p) PROVE OneInv'
  BY <1>0, <1>1, <1>6 DEF Clear
<1>7. CASE UNCHANGED <<logger, object, life, raced>>
  BY <1>7
<1> QED BY <1>2, <1>3, <1>4, <1>5, <1>6, <1>7 DEF Next, AllGone, vars, Call, CallReturns

\* The inductive invariant.
THEOREM Inductive == Spec => []LInv
<1>1. LInv /\ [Next]_vars => LInv'
  BY NextTypeOK, NextMetInv, NextDeadInv, NextOneInv DEF LInv
<1> QED BY <1>1, InitLInv, PTL DEF Spec

\* Every variable has its type, and no thread of a pool uses the Logger after the pool's joins.
THEOREM TypeCorrect == Spec => []TypeOK
BY Inductive, PTL DEF LInv

\* A pool's Logger is taken away only by the end of a pool it met, races or not.
THEOREM OnlyAnEndedPool == Spec => []OnlyAnEndedPoolTakesIt
<1>1. LInv => OnlyAnEndedPoolTakesIt
  BY DEF LInv, DeadInv, MetAnEnd, OnlyAnEndedPoolTakesIt
<1> QED BY <1>1, Inductive, PTL

\* There is one Logger at most unless createInstance or freeInstance was raced.
THEOREM OneLogger == Spec => []OneLoggerUnlessRaced
<1>1. LInv => OneLoggerUnlessRaced
  BY DEF LInv, OneInv, OneLoggerUnlessRaced
<1> QED BY <1>1, Inductive, PTL
=============================================================================
