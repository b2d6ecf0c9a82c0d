------------------------------ MODULE RateLimit ------------------------------
(***************************************************************************)
(* MemoryRateLimitBackend.check, called by the threads that serve the      *)
(* /auth endpoints.  One lock protects the deques of all keys; the clock   *)
(* is read after the lock is taken, and may move on before the decision.   *)
(***************************************************************************)
EXTENDS Integers, Sequences, FiniteSets

CONSTANTS
    Threads,
    Keys,          \* client addresses, "auth:<host>"
    Nobody,        \* holder of a free lock, and the key of an idle thread
    MaxAttempts,   \* auth_rate_limit_attempts
    Window,        \* auth_rate_limit_window_seconds, in ticks
    MaxTime        \* bound: the clock stops here

ASSUME RateAssumption ==
    /\ Nobody \notin Threads
    /\ Nobody \notin Keys
    /\ MaxAttempts \in Nat \ {0}
    /\ Window \in Nat \ {0}
    /\ MaxTime \in Nat

VARIABLES
    now,       \* time.time()
    lock,      \* holder of the backend's lock, or Nobody
    events,    \* the deque of each key, oldest first
    call,      \* each thread's control point, key and reading of the clock
    granted    \* history: every time at which a request of the key passed

vars == <<now, lock, events, call, granted>>

Call == [pc: {"idle", "called", "reading", "deciding"},
         key: Keys \union {Nobody},
         at: 0..MaxTime]

TypeOK ==
    /\ now \in 0..MaxTime
    /\ lock \in Threads \union {Nobody}
    /\ events \in [Keys -> Seq(0..MaxTime)]
    /\ call \in [Threads -> Call]
    /\ granted \in [Keys -> Seq(0..MaxTime)]

Local(label, key, time) == [pc |-> label, key |-> key, at |-> time]
Idle == Local("idle", Nobody, 0)

Init ==
    /\ now = 0
    /\ lock = Nobody
    /\ events = [k \in Keys |-> << >>]
    /\ call = [t \in Threads |-> Idle]
    /\ granted = [k \in Keys |-> << >>]

At(t, label) == call[t].pc = label

-----------------------------------------------------------------------------
(* Faulty variants, see the properties below.                              *)

(* The lock is not waited for.                                             *)
BargingAcquire(t) ==
    /\ At(t, "called")
    /\ lock' = t
    /\ call' = [call EXCEPT ![t] = Local("reading", @.key, @.at)]
    /\ UNCHANGED <<now, events, granted>>

(* An entry is kept one tick longer than the window.                       *)
LateExpired(e, t) == t - e > Window

(* The reading of the clock is rounded up.                                 *)
RoundedReadClock(t) ==
    /\ At(t, "reading")
    /\ call' = [call EXCEPT ![t] = Local("deciding", @.key, now + 1)]
    /\ UNCHANGED <<now, lock, events, granted>>

-----------------------------------------------------------------------------

Check(t, k) ==
    /\ At(t, "idle")
    /\ call' = [call EXCEPT ![t] = Local("called", k, 0)]
    /\ UNCHANGED <<now, lock, events, granted>>

Acquire(t) ==
    /\ At(t, "called")
    /\ lock = Nobody
    /\ lock' = t
    /\ call' = [call EXCEPT ![t] = Local("reading", @.key, @.at)]
    /\ UNCHANGED <<now, events, granted>>

ReadClock(t) ==
    /\ At(t, "reading")
    /\ call' = [call EXCEPT ![t] = Local("deciding", @.key, now)]
    /\ UNCHANGED <<now, lock, events, granted>>

(* The popleft loop: what is left of the deque starts at the first entry   *)
(* still inside the window.                                                *)
Expired(e, t) == t - e >= Window

Kept(deque, first, t) ==
    /\ \A i \in 1..(first - 1) : Expired(deque[i], t)
    /\ first <= Len(deque) => ~Expired(deque[first], t)

Refuse(t) ==
    /\ call' = [call EXCEPT ![t] = Idle]
    /\ lock' = Nobody
    /\ UNCHANGED granted

Allow(t, k, time) ==
    /\ call' = [call EXCEPT ![t] = Idle]
    /\ lock' = Nobody
    /\ granted' = [granted EXCEPT ![k] = Append(@, time)]

Decide(t) ==
    LET k == call[t].key
        time == call[t].at
    IN
    /\ At(t, "deciding")
    /\ \E first \in 1..(Len(events[k]) + 1) :
         LET deque == SubSeq(events[k], first, Len(events[k])) IN
         /\ Kept(events[k], first, time)
         /\ \/ /\ Len(deque) >= MaxAttempts
               /\ events' = [events EXCEPT ![k] = deque]
               /\ Refuse(t)
            \/ /\ Len(deque) < MaxAttempts
               /\ events' = [events EXCEPT ![k] = Append(deque, time)]
               /\ Allow(t, k, time)
    /\ UNCHANGED now

Tick ==
    /\ now < MaxTime
    /\ now' = now + 1
    /\ UNCHANGED <<lock, events, call, granted>>

Step(t) == Acquire(t) \/ ReadClock(t) \/ Decide(t)

Next ==
    \/ \E t \in Threads : Step(t) \/ \E k \in Keys : Check(t, k)
    \/ Tick

Spec == Init /\ [][Next]_vars

-----------------------------------------------------------------------------
(* What the limiter promises.                                              *)

Promise == INSTANCE RateWindow WITH Times <- 0..MaxTime

(* No window of any key lets more than MaxAttempts requests pass, however  *)
(* the threads interleave: the deque never forgets a request that counts.  *)
ImplementsWindow == Promise!Spec

(* A request is only refused when MaxAttempts requests of its own key      *)
(* passed within the window before it: the deque holds nothing stale, and  *)
(* refusals do not count.                                                  *)
RefusalsAreDue ==
    [][\A t \in Threads :
         At(t, "deciding") /\ ~At(t, "deciding")' /\ UNCHANGED granted =>
           LET k == call[t].key IN
           Cardinality({i \in DOMAIN granted[k] :
                          granted[k][i] > call[t].at - Window}) >= MaxAttempts]_vars
=============================================================================
