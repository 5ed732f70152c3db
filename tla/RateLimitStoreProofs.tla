------------------------- MODULE RateLimitStoreProofs -------------------------
(* Proofs of the invariants of RateLimitStore, for any number of instances, any
   limit and any number of starts. *)
EXTENDS RateLimitStore, TLAPS

(* The store an instance has is the configured one: nothing replaces it. *)
StoreIsConfigured == \A i \in Instances : store[i] \in {"none", provider}

(* Whatever passed was counted where the configuration says it is counted. *)
PassedWasCounted ==
    /\ provider = "redis" => admittedEver <= Max /\ admittedEver <= redisCount
    /\ provider = "redis" => \A i \in Instances : admitted[i] <= redisCount
    /\ provider = "memory" => \A i \in Instances : admitted[i] <= memoryCount[i]

(* As long as no warning was given nothing was logged as an error. *)
QuietBeforeWarning == \A i \in Instances : ~warned[i] => loudErrors[i] = 0

IInv ==
    /\ TypeOK
    /\ StoreIsConfigured
    /\ PassedWasCounted
    /\ LiveClientOffered
    /\ QuietBeforeWarning
    /\ OneLoudErrorPerOutage

----------------------------------------------------------------------------

LEMMA InitEstablishesIInv == Init => IInv
BY MaxAssumption, MaxStartsAssumption
   DEF Init, IInv, TypeOK, StoreIsConfigured, PassedWasCounted, LiveClientOffered,
       OffersClient, QuietBeforeWarning, OneLoudErrorPerOutage

(* The counter never leaves its range, and moves only upwards. *)
LEMMA CountedBounds ==
    ASSUME NEW count \in 0 .. Max + 1
    PROVE  /\ Counted(count) \in 0 .. Max + 1
           /\ count <= Counted(count)
           /\ count < Max => Counted(count) = count + 1
BY MaxAssumption DEF Counted

(* A start takes the configured store, whatever the flags were before. *)
LEMMA StartPreservesIInv ==
    ASSUME IInv, NEW i \in Instances, Start(i)
    PROVE  IInv'
<1> USE MaxAssumption, MaxStartsAssumption DEF Start, Set, UseRedisAtFirst, ChosenStore, RedisAdapter
<1>1. TypeOK'
  BY DEF IInv, TypeOK
<1>2. StoreIsConfigured'
  BY DEF IInv, TypeOK, StoreIsConfigured
<1>3. PassedWasCounted'
  BY DEF IInv, TypeOK, PassedWasCounted
<1>4. LiveClientOffered'
  BY DEF IInv, TypeOK, LiveClientOffered, OffersClient
<1>5. QuietBeforeWarning' /\ OneLoudErrorPerOutage'
  BY DEF IInv, TypeOK, QuietBeforeWarning, OneLoudErrorPerOutage
<1> QED BY <1>1, <1>2, <1>3, <1>4, <1>5 DEF IInv

(* The events of the connection change flags and history, and no counter. *)
LEMMA EventsPreserveIInv ==
    ASSUME IInv, NEW i \in Instances,
           \/ OnReady(i)
           \/ \E code \in ErrorCodes : OnError(i, code)
           \/ ConnectionLost(i)
           \/ OnEnd(i)
    PROVE  IInv'
<1>1. StoreIsConfigured' /\ PassedWasCounted'
  BY DEF IInv, StoreIsConfigured, PassedWasCounted, OnReady, OnError, ConnectionLost,
         OnEnd, countVars
<1>2. CASE OnReady(i)
  <2>1. TypeOK'
    BY <1>2 DEF IInv, TypeOK, OnReady, Set, countVars
  <2>2. LiveClientOffered'
    BY <1>2 DEF IInv, TypeOK, LiveClientOffered, OffersClient, OnReady, Set
  <2>3. QuietBeforeWarning' /\ OneLoudErrorPerOutage'
    BY <1>2 DEF IInv, TypeOK, QuietBeforeWarning, OneLoudErrorPerOutage, OnReady, Set
  <2> QED BY <1>1, <2>1, <2>2, <2>3 DEF IInv
<1>3. ASSUME NEW code \in ErrorCodes, OnError(i, code)
      PROVE  IInv'
  <2>1. TypeOK'
    BY <1>3 DEF IInv, TypeOK, OnError, Set, Refusals, countVars
  <2>2. LiveClientOffered'
    BY <1>3 DEF IInv, TypeOK, LiveClientOffered, OffersClient, OnError, Set, Refusals
  <2>3. warned' = Set(warned, i, TRUE)
    BY <1>3 DEF IInv, TypeOK, OnError, Set
  <2>4. QuietBeforeWarning' /\ OneLoudErrorPerOutage'
    BY <1>3, <2>3
       DEF IInv, TypeOK, QuietBeforeWarning, OneLoudErrorPerOutage, OnError, Set
  <2> QED BY <1>1, <2>1, <2>2, <2>4 DEF IInv
<1>4. CASE ConnectionLost(i)
  <2>1. TypeOK'
    BY <1>4 DEF IInv, TypeOK, ConnectionLost, Set, flagVars, countVars
  <2>2. LiveClientOffered'
    BY <1>4 DEF IInv, TypeOK, LiveClientOffered, OffersClient, ConnectionLost, Set, flagVars
  <2>3. QuietBeforeWarning' /\ OneLoudErrorPerOutage'
    BY <1>4 DEF IInv, QuietBeforeWarning, OneLoudErrorPerOutage, ConnectionLost, flagVars
  <2> QED BY <1>1, <2>1, <2>2, <2>3 DEF IInv
<1>5. CASE OnEnd(i)
  <2>1. TypeOK'
    BY <1>5 DEF IInv, TypeOK, OnEnd, Set, countVars
  <2>2. LiveClientOffered'
    BY <1>5 DEF IInv, TypeOK, LiveClientOffered, OffersClient, OnEnd, Set
  <2>3. QuietBeforeWarning' /\ OneLoudErrorPerOutage'
    BY <1>5 DEF IInv, QuietBeforeWarning, OneLoudErrorPerOutage, OnEnd
  <2> QED BY <1>1, <2>1, <2>2, <2>3 DEF IInv
<1> QED BY <1>2, <1>3, <1>4, <1>5

(* A request passes only when the count it raises is still below the limit. *)
LEMMA RequestPreservesIInv ==
    ASSUME IInv, NEW i \in Instances, Request(i)
    PROVE  IInv'
<1> USE MaxAssumption
<1>1. CASE store[i] = "memory"
  <2>1. provider = "memory"
    BY <1>1 DEF IInv, TypeOK, StoreIsConfigured
  <2>2. /\ Counted(memoryCount[i]) \in 0 .. Max + 1
        /\ memoryCount[i] <= Counted(memoryCount[i])
        /\ memoryCount[i] < Max => Counted(memoryCount[i]) = memoryCount[i] + 1
    BY CountedBounds DEF IInv, TypeOK
  <2>3. /\ memoryCount' = [memoryCount EXCEPT ![i] = Counted(memoryCount[i])]
        /\ redisCount' = redisCount
        /\ IF memoryCount[i] < Max
           THEN /\ admitted' = [admitted EXCEPT ![i] = admitted[i] + 1]
                /\ admittedEver' = admittedEver + 1
           ELSE admitted' = admitted /\ admittedEver' = admittedEver
    BY <1>1 DEF Request, LetPass, Set
  <2>4. admitted[i] <= memoryCount[i]
    BY <2>1 DEF IInv, PassedWasCounted
  <2>5. TypeOK' /\ PassedWasCounted'
    BY <2>1, <2>2, <2>3, <2>4
       DEF IInv, TypeOK, PassedWasCounted, Request, flagVars
  <2> QED
    BY <2>5 DEF IInv, StoreIsConfigured, LiveClientOffered, OffersClient,
                QuietBeforeWarning, OneLoudErrorPerOutage, Request, flagVars
<1>2. CASE store[i] = "redis"
  <2>1. provider = "redis"
    BY <1>2 DEF IInv, TypeOK, StoreIsConfigured
  <2>2. /\ Counted(redisCount) \in 0 .. Max + 1
        /\ redisCount <= Counted(redisCount)
        /\ redisCount < Max => Counted(redisCount) = redisCount + 1
    BY CountedBounds DEF IInv, TypeOK
  <2>3. /\ redisCount' = Counted(redisCount)
        /\ memoryCount' = memoryCount
        /\ \/ /\ redisCount < Max
              /\ admitted' = [admitted EXCEPT ![i] = admitted[i] + 1]
              /\ admittedEver' = admittedEver + 1
           \/ admitted' = admitted /\ admittedEver' = admittedEver
    BY <1>2 DEF Request, LetPass, Set
  <2>4. admitted[i] <= redisCount /\ admittedEver <= redisCount
    BY <2>1 DEF IInv, PassedWasCounted
  <2>5. TypeOK' /\ PassedWasCounted'
    BY <2>1, <2>2, <2>3, <2>4
       DEF IInv, TypeOK, PassedWasCounted, Request, flagVars
  <2> QED
    BY <2>5 DEF IInv, StoreIsConfigured, LiveClientOffered, OffersClient,
                QuietBeforeWarning, OneLoudErrorPerOutage, Request, flagVars
<1> QED BY <1>1, <1>2 DEF Request

LEMMA StutterPreservesIInv ==
    ASSUME IInv, UNCHANGED vars
    PROVE  IInv'
BY DEF IInv, TypeOK, StoreIsConfigured, PassedWasCounted, LiveClientOffered,
       OffersClient, QuietBeforeWarning, OneLoudErrorPerOutage, vars, flagVars,
       countVars

LEMMA IInvIsInvariant == Spec => []IInv
<1>1. IInv /\ [Next]_vars => IInv'
  <2> SUFFICES ASSUME IInv, [Next]_vars PROVE IInv'
    OBVIOUS
  <2>1. CASE UNCHANGED vars
    BY <2>1, StutterPreservesIInv
  <2>2. CASE Next
    <3>1. PICK i \in Instances :
             \/ Start(i)
             \/ OnReady(i)
             \/ \E code \in ErrorCodes : OnError(i, code)
             \/ ConnectionLost(i)
             \/ OnEnd(i)
             \/ Request(i)
      BY <2>2 DEF Next
    <3> QED
      BY <3>1, StartPreservesIInv, EventsPreserveIInv, RequestPreservesIInv
  <2> QED BY <2>1, <2>2
<1> QED BY <1>1, InitEstablishesIInv, PTL DEF Spec

----------------------------------------------------------------------------

(* The variables of RateLimitStore have their types: the counters and the
   history of admitted requests stay within the limit. *)
THEOREM TypeCorrect == Spec => []TypeOK
<1>1. IInv => TypeOK
  BY DEF IInv
<1> QED BY <1>1, IInvIsInvariant, PTL

(* One limit for all instances on Redis, through every restart of a process and
   every event of a connection: the store is taken once, and it is the shared one. *)
THEOREM LimitIsShared == Spec => []SharedLimit
<1>1. IInv => SharedLimit
  BY DEF IInv, PassedWasCounted, SharedLimit
<1> QED BY <1>1, IInvIsInvariant, PTL

(* getClient() offers every connection that is up, in any order of ready, errors,
   losses and reconnections before, and none that was closed. *)
THEOREM LiveClientIsOffered == Spec => []LiveClientOffered
<1>1. IInv => LiveClientOffered
  BY DEF IInv
<1> QED BY <1>1, IInvIsInvariant, PTL

(* The error handler logs one error for an outage, however often ioredis tries
   to reconnect, and is not quiet about the next. *)
THEOREM OutageLoggedOnce == Spec => []OneLoudErrorPerOutage
<1>1. IInv => OneLoudErrorPerOutage
  BY DEF IInv
<1> QED BY <1>1, IInvIsInvariant, PTL
=============================================================================
