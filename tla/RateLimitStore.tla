---------------------------- MODULE RateLimitStore ----------------------------
(***************************************************************************)
(* The choice of the rate-limit store and the life of the Redis connection   *)
(* behind it, in several instances of the service: the plugin creates the    *)
(* adapter and takes the store from it once, at the start of the process,     *)
(* while the adapter's flags go on changing with the connection's events.     *)
(*                                                                           *)
(* One key (an address on one route) is followed for one time window.        *)
(* @fastify/rate-limit, ioredis and Redis are the environment: the plugin     *)
(* counts in the store it was registered with, and a request whose Redis      *)
(* command fails is answered with an error, so it is not admitted.            *)
(***************************************************************************)
EXTENDS Naturals

CONSTANTS
    Instances,      \* processes of the service
    Max,            \* requests the limit admits in a window
    MaxStarts       \* bound on the starts of each process

ASSUME MaxAssumption == Max \in Nat
ASSUME MaxStartsAssumption == MaxStarts \in Nat

VARIABLES
    provider,       \* RATE_LIMIT_STORE_PROVIDER, the same for every instance
    starts,         \* how often each process was started
    store,          \* the store the plugin was registered with
    link,           \* the connection, as ioredis sees it
    useRedis,       \* RedisStoreAdapter.useRedis
    warned,         \* RedisStoreAdapter.warned
    ready,          \* RedisStoreAdapter.ready
    redisCount,     \* the counter in Redis
    memoryCount,    \* the counter in each process
    admitted,       \* history: requests each process let pass since its start
    admittedEver,   \* history: requests let pass by all of them
    loudErrors      \* history: errors logged as errors since the last "ready"

flagVars == <<useRedis, warned, ready>>
countVars == <<redisCount, memoryCount, admitted, admittedEver>>
vars == <<provider, starts, store, link, flagVars, countVars, loudErrors>>

ErrorCodes == {"ECONNREFUSED", "ENOTFOUND", "ECONNRESET"}

TypeOK ==
    /\ provider \in {"memory", "redis"}
    /\ starts \in [Instances -> 0..MaxStarts]
    /\ store \in [Instances -> {"none", "memory", "redis"}]
    /\ link \in [Instances -> {"none", "connecting", "ready", "ended"}]
    /\ useRedis \in [Instances -> BOOLEAN]
    /\ warned \in [Instances -> BOOLEAN]
    /\ ready \in [Instances -> BOOLEAN]
    /\ redisCount \in 0 .. Max + 1
    /\ memoryCount \in [Instances -> 0 .. Max + 1]
    /\ admitted \in [Instances -> 0..Max]
    /\ admittedEver \in Nat
    /\ loudErrors \in [Instances -> Nat]

Init ==
    /\ provider \in {"memory", "redis"}
    /\ starts = [i \in Instances |-> 0]
    /\ store = [i \in Instances |-> "none"]
    /\ link = [i \in Instances |-> "none"]
    /\ useRedis = [i \in Instances |-> FALSE]
    /\ warned = [i \in Instances |-> FALSE]
    /\ ready = [i \in Instances |-> FALSE]
    /\ redisCount = 0
    /\ memoryCount = [i \in Instances |-> 0]
    /\ admitted = [i \in Instances |-> 0]
    /\ admittedEver = 0
    /\ loudErrors = [i \in Instances |-> 0]

Set(f, i, value) == [f EXCEPT ![i] = value]

----------------------------------------------------------------------------
(* The adapter *)

(* Faulty variant: the adapter waits for the connection before it offers Redis. *)
UseRedisOnceReady == FALSE

(* RedisStoreAdapter.useRedis when it is constructed. *)
UseRedisAtFirst == TRUE

(* createRateLimitStore makes a RedisStoreAdapter, else a MemoryStoreAdapter,
   which has no flags and no connection. *)
RedisAdapter == provider = "redis"

(* buildGlobalOptions *)
ChosenStore(use) == IF RedisAdapter /\ use THEN "redis" ELSE "memory"

(* The process starts, or starts again: the plugin constructs the adapter and
   takes the store from it before any event of the connection can be handled. *)
Start(i) ==
    /\ starts[i] < MaxStarts
    /\ starts' = Set(starts, i, starts[i] + 1)
    /\ useRedis' = Set(useRedis, i, RedisAdapter /\ UseRedisAtFirst)
    /\ warned' = Set(warned, i, FALSE)
    /\ ready' = Set(ready, i, FALSE)
    /\ store' = Set(store, i, ChosenStore(UseRedisAtFirst))
    /\ link' = Set(link, i, IF RedisAdapter THEN "connecting" ELSE "none")
    /\ memoryCount' = Set(memoryCount, i, 0)
    /\ admitted' = Set(admitted, i, 0)
    /\ loudErrors' = Set(loudErrors, i, 0)
    /\ UNCHANGED <<provider, redisCount, admittedEver>>

(* Faulty variant: useRedis is not set again after an error has cleared it. *)
OnReadyForgetful(i) ==
    /\ link[i] = "connecting"
    /\ link' = Set(link, i, "ready")
    /\ warned' = Set(warned, i, FALSE)
    /\ ready' = Set(ready, i, TRUE)
    /\ loudErrors' = Set(loudErrors, i, 0)
    /\ UNCHANGED <<provider, starts, store, useRedis, countVars>>

(* Faulty variant: warned is not reset, so the next outage is quiet. *)
OnReadyStaysWarned(i) ==
    /\ link[i] = "connecting"
    /\ link' = Set(link, i, "ready")
    /\ useRedis' = Set(useRedis, i, TRUE)
    /\ ready' = Set(ready, i, TRUE)
    /\ loudErrors' = Set(loudErrors, i, 0)
    /\ UNCHANGED <<provider, starts, store, warned, countVars>>

OnReady(i) ==
    /\ link[i] = "connecting"
    /\ link' = Set(link, i, "ready")
    /\ useRedis' = Set(useRedis, i, TRUE)
    /\ warned' = Set(warned, i, FALSE)
    /\ ready' = Set(ready, i, TRUE)
    /\ loudErrors' = Set(loudErrors, i, 0)
    /\ UNCHANGED <<provider, starts, store, countVars>>

(* The codes that clear useRedis. *)
Refusals == {"ECONNREFUSED", "ENOTFOUND"}

(* An attempt to connect fails, or a connection is reset; ioredis goes on trying. *)
OnError(i, code) ==
    /\ link[i] = "connecting" \/ (link[i] = "ready" /\ code \notin Refusals)
    /\ loudErrors' = IF warned[i] THEN loudErrors
                                  ELSE Set(loudErrors, i, loudErrors[i] + 1)
    /\ warned' = Set(warned, i, TRUE)
    /\ useRedis' = Set(useRedis, i, useRedis[i] /\ code \notin Refusals)
    /\ UNCHANGED <<provider, starts, store, link, ready, countVars>>

(* The connection breaks off: ioredis reconnects, and no handler hears of it. *)
ConnectionLost(i) ==
    /\ link[i] = "ready"
    /\ link' = Set(link, i, "connecting")
    /\ UNCHANGED <<provider, starts, store, flagVars, countVars, loudErrors>>

(* close() quits the connection when the server closes, and "end" is handled. *)
OnEnd(i) ==
    /\ link[i] \in {"connecting", "ready"}
    /\ link' = Set(link, i, "ended")
    /\ useRedis' = Set(useRedis, i, FALSE)
    /\ UNCHANGED <<provider, starts, store, warned, ready, countVars, loudErrors>>

(* getClient() *)
OffersClient(i) == useRedis[i] /\ ready[i]

----------------------------------------------------------------------------
(* Requests *)

(* Faulty variant: the counter starts over at the limit. *)
CountedAround(count) == IF count < Max THEN count + 1 ELSE 0

(* The counter stops at the first request past the limit. *)
Counted(count) == IF count <= Max THEN count + 1 ELSE count

LetPass(i) ==
    /\ admitted' = Set(admitted, i, admitted[i] + 1)
    /\ admittedEver' = admittedEver + 1

(* A request is counted in the store, and passes if the count is within the
   limit; Redis may count it and the answer be lost. *)
Request(i) ==
    /\ \/ /\ store[i] = "memory" /\ link[i] # "ended"
          /\ memoryCount' = Set(memoryCount, i, Counted(memoryCount[i]))
          /\ IF memoryCount[i] < Max THEN LetPass(i)
                                     ELSE UNCHANGED <<admitted, admittedEver>>
          /\ UNCHANGED redisCount
       \/ /\ store[i] = "redis" /\ link[i] = "ready"
          /\ redisCount' = Counted(redisCount)
          /\ \/ redisCount < Max /\ LetPass(i)
             \/ UNCHANGED <<admitted, admittedEver>>
          /\ UNCHANGED memoryCount
    /\ UNCHANGED <<provider, starts, store, link, flagVars, loudErrors>>

Next ==
    \E i \in Instances :
        \/ Start(i)
        \/ OnReady(i)
        \/ \E code \in ErrorCodes : OnError(i, code)
        \/ ConnectionLost(i)
        \/ OnEnd(i)
        \/ Request(i)

Spec == Init /\ [][Next]_vars

----------------------------------------------------------------------------
(* Properties *)

(* With the Redis store one limit holds for all instances together, however
   they restart and whatever the connections do: no instance falls back to a
   counter of its own. *)
SharedLimit == provider = "redis" => admittedEver <= Max

(* A connection that is up is offered, whatever errors, losses and reconnections
   came before, a reset heard while it was up included; one that was closed never
   is.  Nothing is said of one that is being made anew: no handler hears of the
   loss, so the client may then be offered or not. *)
LiveClientOffered ==
    \A i \in Instances :
        /\ link[i] = "ready" => OffersClient(i)
        /\ link[i] = "ended" => ~OffersClient(i)

(* An outage is logged as an error once, not at every attempt to reconnect, and
   errors are logged quietly only once it was: so the next outage is loud again. *)
OneLoudErrorPerOutage ==
    \A i \in Instances :
        /\ loudErrors[i] <= 1
        /\ warned[i] => loudErrors[i] = 1
============================================================================
