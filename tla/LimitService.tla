---------------------------- MODULE LimitService ----------------------------
(***************************************************************************)
(* RateLimitService: every check goes to the backend that the settings     *)
(* name, the deques of RateLimit or the counters of RedisLimit.  The       *)
(* setting does not change while the process runs, and the backends share  *)
(* nothing but the clock.                                                  *)
(***************************************************************************)
EXTENDS RateLimit

CONSTANTS MaxCount   \* bound: a Redis counter stops here

ASSUME ServiceAssumption == MaxCount \in Nat

VARIABLES
    backend,       \* rate_limit_backend
    count,         \* the counters of Redis,
    ttl,           \* and their times to live
    redisCall,     \* each thread's control point in the Redis backend
    redisGranted,  \* history: granted, for the Redis backend
    lost           \* history: the EXPIRE of the counter was never executed

redisVars == <<count, ttl, redisCall, redisGranted, lost>>
serviceVars == <<vars, backend, redisVars>>

Redis == INSTANCE RedisLimit WITH call <- redisCall, granted <- redisGranted

ServiceTypeOK ==
    /\ backend \in {"memory", "redis"}
    /\ TypeOK
    /\ Redis!TypeOK

ServiceInit ==
    /\ backend \in {"memory", "redis"}
    /\ Init
    /\ Redis!Init

ServiceNext ==
    /\ \/ backend = "memory" /\ Next /\ UNCHANGED redisVars
       \/ backend = "redis" /\ Redis!Next /\ UNCHANGED <<lock, events, call, granted>>
    /\ UNCHANGED backend

ServiceSpec == ServiceInit /\ [][ServiceNext]_serviceVars

(* With Redis time passes.  A thread need not go on with its call: the     *)
(* Redis client waits for an answer without a timeout.                     *)
ServiceFairSpec == ServiceSpec /\ WF_serviceVars(ServiceNext /\ Redis!Tick)

-----------------------------------------------------------------------------
(* What the Redis backend promises; ImplementsWindow and RefusalsAreDue    *)
(* are the promises of the other one.                                      *)

(* With Redis at most twice the limit passes in a window, see RedisLimit.  *)
TwiceTheLimit == Redis!TwiceTheLimit

(* With Redis an address is served again, unless the EXPIRE of its counter *)
(* was lost or hangs, see RedisLimit.                                      *)
BlocksEnd == Redis!BlocksEnd
=============================================================================
