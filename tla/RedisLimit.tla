----------------------------- MODULE RedisLimit -----------------------------
(***************************************************************************)
(* RedisRateLimitBackend.check, called by the threads that serve the /auth *)
(* endpoints.  INCR, EXPIRE and TTL are separate commands, and each may    *)
(* fail, with or without having taken effect; a failure lets the request   *)
(* pass.  The client has no timeout: a command may also leave its thread   *)
(* waiting for ever.  Redis removes a counter when its time to live has    *)
(* run out.                                                                *)
(***************************************************************************)
EXTENDS Integers, Sequences

CONSTANTS
    Threads,
    Keys,          \* client addresses, "auth:<host>"
    Nobody,        \* the key of an idle thread
    MaxAttempts,   \* auth_rate_limit_attempts
    Window,        \* auth_rate_limit_window_seconds, in ticks
    MaxCount,      \* bound: a counter stops here
    MaxTime        \* bound: no request is counted after this time

VARIABLES
    now,      \* the clock
    count,    \* value of rate-limit:<key>, 0 when it does not exist
    ttl,      \* its time to live, 0 when it has none
    call,     \* control point and key of every thread
    granted,  \* history: times at which a counted request of the key passed
    lost      \* history: the EXPIRE of the counter was never executed

vars == <<now, count, ttl, call, granted, lost>>

TypeOK ==
    /\ now \in 0..MaxTime
    /\ count \in [Keys -> 0..MaxCount]
    /\ ttl \in [Keys -> 0..Window]
    /\ call \in [Threads -> [pc: {"idle", "incr", "expire", "ttl"},
                             key: Keys \union {Nobody}]]
    /\ granted \in [Keys -> Seq(0..MaxTime)]
    /\ lost \subseteq Keys

Idle == [pc |-> "idle", key |-> Nobody]

Init ==
    /\ now = 0
    /\ count = [k \in Keys |-> 0]
    /\ ttl = [k \in Keys |-> 0]
    /\ call = [t \in Threads |-> Idle]
    /\ granted = [k \in Keys |-> << >>]
    /\ lost = {}

At(t, label) == call[t].pc = label
Goto(t, label) == call' = [call EXCEPT ![t].pc = label]
Decided(t) == call' = [call EXCEPT ![t] = Idle]

-----------------------------------------------------------------------------
(* Faulty variants, see the properties below.                              *)

(* The comparison is off by one.                                           *)
LaterOver(current) == current > MaxAttempts + 1

(* EXPIRE is given the time at which the window ends.                      *)
AbsoluteExpire(t) ==
    /\ At(t, "expire")
    /\ ttl' = [ttl EXCEPT ![call[t].key] = now + Window]
    /\ Decided(t)
    /\ UNCHANGED <<now, count, granted, lost>>

(* The time to live is set when the limit is reached, not at first.        *)
LateOpens(current) == current > MaxAttempts

-----------------------------------------------------------------------------

Check(t, k) ==
    /\ At(t, "idle")
    /\ call' = [call EXCEPT ![t] = [pc |-> "incr", key |-> k]]
    /\ UNCHANGED <<now, count, ttl, granted, lost>>

Over(current) == current > MaxAttempts
Opens(current) == current = 1

(* INCR, and the branch that its result chooses.                           *)
Incr(t) ==
    LET k == call[t].key
        current == count[k] + 1
    IN
    /\ At(t, "incr")
    /\ now < MaxTime
    /\ current <= MaxCount
    /\ count' = [count EXCEPT ![k] = current]
    /\ granted' = IF Over(current) THEN granted
                  ELSE [granted EXCEPT ![k] = Append(@, now)]
    /\ \/ Opens(current) /\ Goto(t, "expire")
       \/ ~Opens(current) /\ Over(current) /\ Goto(t, "ttl")
       \/ ~Opens(current) /\ ~Over(current) /\ Decided(t)
    /\ UNCHANGED <<now, ttl, lost>>

(* The request passes; its INCR may have been executed.                    *)
IncrFails(t) ==
    LET k == call[t].key IN
    /\ At(t, "incr")
    /\ \/ UNCHANGED <<count, lost>>
       \/ /\ count[k] < MaxCount
          /\ count' = [count EXCEPT ![k] = @ + 1]
          /\ lost' = IF Opens(count[k] + 1) THEN lost \union {k} ELSE lost
    /\ Decided(t)
    /\ UNCHANGED <<now, ttl, granted>>

Expire(t) ==
    /\ At(t, "expire")
    /\ ttl' = [ttl EXCEPT ![call[t].key] = Window]
    /\ Decided(t)
    /\ UNCHANGED <<now, count, granted, lost>>

(* EXPIRE fails or the server dies: the counter stays without a time to    *)
(* live.                                                                   *)
ExpireFails(t) ==
    /\ At(t, "expire")
    /\ lost' = lost \union {call[t].key}
    /\ Decided(t)
    /\ UNCHANGED <<now, count, ttl, granted>>

(* TTL is for the answer only: refused, or passed when it fails.           *)
Ttl(t) ==
    /\ At(t, "ttl")
    /\ Decided(t)
    /\ UNCHANGED <<now, count, ttl, granted, lost>>

(* Time passes, and with it the counters whose time to live has run out.   *)
Tick ==
    /\ now < MaxTime \/ \E k \in Keys : ttl[k] > 0
    /\ now' = IF now < MaxTime THEN now + 1 ELSE now
    /\ ttl' = [k \in Keys |-> IF ttl[k] > 0 THEN ttl[k] - 1 ELSE 0]
    /\ count' = [k \in Keys |-> IF ttl[k] = 1 THEN 0 ELSE count[k]]
    /\ UNCHANGED <<call, granted, lost>>

Step(t) == Incr(t) \/ IncrFails(t) \/ Expire(t) \/ ExpireFails(t) \/ Ttl(t)

Next ==
    \/ \E t \in Threads : Step(t) \/ \E k \in Keys : Check(t, k)
    \/ Tick

Spec == Init /\ [][Next]_vars

-----------------------------------------------------------------------------
(* What the limiter promises with this backend.                            *)

Promise == INSTANCE RateWindow WITH
    Times <- 0..MaxTime,
    MaxAttempts <- 2 * MaxAttempts

(* The counter's window is fixed, not sliding: around its end twice the    *)
(* limit may pass within one window, and never more, however the commands  *)
(* of the threads interleave.  Requests that passed because Redis failed   *)
(* are not counted.                                                        *)
TwiceTheLimit == Promise!Spec

(* The EXPIRE of the counter was sent and is not executed yet.             *)
Expiring(k) == \E t \in Threads : At(t, "expire") /\ call[t].key = k

(* An address that has used up its limit is served again, whatever hangs   *)
(* or fails, unless the EXPIRE of its counter was lost, or hangs for ever: *)
(* then it is not.                                                         *)
BlocksEnd ==
    \A k \in Keys :
        count[k] >= MaxAttempts ~> count[k] = 0 \/ k \in lost \/ Expiring(k)
=============================================================================
