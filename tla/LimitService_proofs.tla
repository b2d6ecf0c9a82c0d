------------------------ MODULE LimitService_proofs ------------------------
(***************************************************************************)
(* Proofs about RateLimit, RedisLimit and the service that chooses between *)
(* them, for any number of threads and keys and any limit and window.  The *)
(* in-process backend implements RateWindow, whatever the threads do       *)
(* between taking the lock, reading the clock and deciding; the Redis      *)
(* backend implements it with twice the limit, whatever becomes of its     *)
(* commands.                                                               *)
(***************************************************************************)
EXTENDS LimitService, SequenceTheorems, FiniteSetTheorems, TLAPS

-----------------------------------------------------------------------------
(* The in-process backend.                                                 *)

(* Between taking the lock and deciding a thread holds it.                 *)
LockInv ==
    \A t \in Threads :
      /\ call[t].pc \in {"reading", "deciding"} => lock = t
      /\ call[t].pc # "idle" => call[t].key \in Keys
      /\ At(t, "deciding") => call[t].at <= now

(* Neither the clock nor a thread that decides is behind the time.         *)
Reached(time) ==
    /\ time <= now
    /\ \A t \in Threads : At(t, "deciding") => time <= call[t].at

LogInv ==
    \A k \in Keys :
      /\ \A i \in 1..Len(granted[k]) : Reached(granted[k][i])
      /\ \A i, j \in 1..Len(granted[k]) : i < j => granted[k][i] <= granted[k][j]

(* The deque is the log without its first d entries.                       *)
Without(k, d) ==
    /\ Len(events[k]) = Len(granted[k]) - d
    /\ \A i \in 1..Len(events[k]) : events[k][i] = granted[k][d + i]

(* What the deque has forgotten left the window.                           *)
DequeInv ==
    \A k \in Keys : \E d \in 0..Len(granted[k]) :
      /\ Without(k, d)
      /\ \A i \in 1..d : Reached(granted[k][i] + Window)

IInv == TypeOK /\ LockInv /\ LogInv /\ DequeInv

-----------------------------------------------------------------------------
(* The local variables of a thread are well typed.                         *)
LEMMA Types ==
    ASSUME TypeOK
    PROVE  /\ now \in 0..MaxTime /\ now \in Nat
           /\ \A t \in Threads : call[t] \in Call /\ call[t].at \in 0..MaxTime /\ call[t].at \in Nat
           /\ \A k \in Keys :
                /\ granted[k] \in Seq(0..MaxTime) /\ Len(granted[k]) \in Nat
                /\ events[k] \in Seq(0..MaxTime) /\ Len(events[k]) \in Nat
                /\ \A i \in 1..Len(granted[k]) :
                     granted[k][i] \in 0..MaxTime /\ granted[k][i] \in Nat
                /\ \A i \in 1..Len(events[k]) : events[k][i] \in 0..MaxTime /\ events[k][i] \in Nat
           /\ MaxAttempts \in Nat /\ MaxAttempts > 0 /\ Window \in Nat /\ MaxTime \in Nat
  BY RateAssumption DEF TypeOK, Call

(* The logs and the deques stay as they are, and nothing goes back.        *)
LEMMA LogsKeep ==
    ASSUME IInv, UNCHANGED <<events, granted>>,
           \A time \in Nat : Reached(time) => Reached(time)'
    PROVE  LogInv' /\ DequeInv'
<1>1. LogInv'
  <2>1. ASSUME NEW k \in Keys, NEW i \in 1..Len(granted[k])
        PROVE  Reached(granted[k][i])'
    <3>1. Reached(granted[k][i]) /\ granted[k][i] \in Nat
      BY <2>1, Types DEF IInv, LogInv
    <3>2. PICK time \in Nat : time = granted[k][i]
      BY <3>1
    <3>3. Reached(time)'
      BY <3>1, <3>2
    <3> QED
      BY <3>2, <3>3 DEF Reached
  <2> QED
    BY <2>1 DEF IInv, LogInv
<1>2. DequeInv'
  <2>1. ASSUME NEW k \in Keys
        PROVE  \E d \in 0..Len(granted[k]) :
                 /\ Without(k, d)
                 /\ \A i \in 1..d : Reached(granted[k][i] + Window)'
    <3>1. PICK d \in 0..Len(granted[k]) :
            Without(k, d) /\ \A i \in 1..d : Reached(granted[k][i] + Window)
      BY <2>1 DEF IInv, DequeInv
    <3>2. ASSUME NEW i \in 1..d PROVE Reached(granted[k][i] + Window)'
      <4>1. i \in 1..Len(granted[k])
        BY <2>1, Types DEF IInv
      <4>a. granted[k][i] \in Nat /\ Window \in Nat
        BY <2>1, <4>1, Types DEF IInv
      <4>2. PICK time \in Nat : time = granted[k][i] + Window
        BY <4>a
      <4>3. Reached(time)'
        BY <3>1, <4>2
      <4> QED
        BY <4>2, <4>3 DEF Reached
    <3> QED
      BY <3>1, <3>2
  <2> QED
    BY <2>1 DEF DequeInv, Without
<1> QED
  BY <1>1, <1>2

(* The calls of a thread: its new local variables, and the others.         *)
CallFacts(t, label, k, time) ==
    /\ call' \in [Threads -> Call]
    /\ call'[t].pc = label /\ call'[t].key = k /\ call'[t].at = time
    /\ \A u \in Threads \ {t} : call'[u] = call[u]

(* Assigning all of them.                                                  *)
LEMMA CallMoves ==
    ASSUME TypeOK, NEW t \in Threads, NEW label \in {"idle", "called", "reading", "deciding"},
           NEW k \in Keys \union {Nobody}, NEW time \in 0..MaxTime,
           call' = [call EXCEPT ![t] = Local(label, k, time)]
    PROVE  CallFacts(t, label, k, time)
<1>1. Local(label, k, time) \in Call
  BY DEF Local, Call
<1>2. call \in [Threads -> Call]
  BY DEF TypeOK
<1> QED
  BY <1>1, <1>2 DEF CallFacts, Local

(* Time passes, in this backend or while the other one serves.             *)
LEMMA ClockKeeps ==
    ASSUME IInv, now <= now', now' \in 0..MaxTime, UNCHANGED <<lock, events, call, granted>>
    PROVE  IInv'
<1>1. now \in Nat /\ now' \in Nat
  BY Types DEF IInv
<1>2. TypeOK' /\ LockInv'
  BY <1>1, Types DEF IInv, TypeOK, LockInv, At
<1>3. \A time \in Nat : Reached(time) => Reached(time)'
  BY <1>1 DEF Reached, At
<1> QED
  BY <1>2, <1>3, LogsKeep DEF IInv

(* The thread moves, the log and the deques stay.                          *)
LEMMA QuietSteps ==
    ASSUME IInv,
           Tick \/ \E t \in Threads :
             Acquire(t) \/ ReadClock(t) \/ \E k \in Keys : Check(t, k)
    PROVE  IInv'
<1>a. TypeOK /\ now \in Nat /\ MaxTime \in Nat /\ 0 \in 0..MaxTime /\ lock \in Threads \union {Nobody}
  BY Types DEF IInv, TypeOK
<1>1. CASE Tick
  <2>1. now <= now' /\ now' \in 0..MaxTime /\ UNCHANGED <<lock, events, call, granted>>
    BY <1>1, <1>a DEF Tick, TypeOK
  <2> QED
    BY <2>1, ClockKeeps
<1>2. ASSUME NEW t \in Threads, NEW k \in Keys, Check(t, k) PROVE IInv'
  <2>1. /\ CallFacts(t, "called", k, 0)
        /\ UNCHANGED <<now, lock, events, granted>> /\ At(t, "idle")
    BY <1>2, <1>a, CallMoves DEF Check
  <2>2. TypeOK' /\ LockInv'
    BY <2>1, <1>a DEF IInv, TypeOK, LockInv, At, CallFacts
  <2>3. \A time \in Nat : Reached(time) => Reached(time)'
    BY <2>1 DEF Reached, At, CallFacts
  <2> QED
    BY <2>1, <2>2, <2>3, LogsKeep DEF IInv
<1>3. ASSUME NEW t \in Threads, Acquire(t) PROVE IInv'
  <2>1. /\ CallFacts(t, "reading", call[t].key, call[t].at)
        /\ lock = Nobody /\ lock' = t
        /\ UNCHANGED <<now, events, granted>> /\ At(t, "called")
    BY <1>3, <1>a, Types, CallMoves DEF Acquire, Call
  <2>2. TypeOK'
    BY <2>1, <1>a DEF TypeOK, CallFacts
  <2>3. LockInv'
    <3>1. \A u \in Threads : call[u].pc \notin {"reading", "deciding"}
      BY <2>1, RateAssumption DEF IInv, LockInv
    <3> QED
      BY <2>1, <3>1 DEF IInv, LockInv, At, CallFacts
  <2>4. \A time \in Nat : Reached(time) => Reached(time)'
    BY <2>1 DEF Reached, At, CallFacts
  <2> QED
    BY <2>1, <2>2, <2>3, <2>4, LogsKeep DEF IInv
<1>4. ASSUME NEW t \in Threads, ReadClock(t) PROVE IInv'
  <2>1. /\ CallFacts(t, "deciding", call[t].key, now)
        /\ UNCHANGED <<now, lock, events, granted>> /\ At(t, "reading")
    BY <1>4, <1>a, Types, CallMoves DEF ReadClock, Call, IInv
  <2>2. TypeOK'
    BY <2>1, <1>a DEF TypeOK, CallFacts
  <2>3. LockInv'
    BY <2>1, <1>a DEF IInv, LockInv, At, CallFacts
  <2>4. \A time \in Nat : Reached(time) => Reached(time)'
    BY <2>1 DEF Reached, At, CallFacts
  <2> QED
    BY <2>1, <2>2, <2>3, <2>4, LogsKeep DEF IInv
<1> QED
  BY <1>1, <1>2, <1>3, <1>4

-----------------------------------------------------------------------------
(* A decision about key k at the time read: d requests of the log are      *)
(* forgotten, those of the deque count.                                    *)
Decision(t, k, time, d, deque) ==
    /\ At(t, "deciding")
    /\ k \in Keys /\ k = call[t].key
    /\ time \in 0..MaxTime /\ time \in Nat /\ time = call[t].at /\ time <= now
    /\ d \in 0..Len(granted[k])
    /\ deque \in Seq(0..MaxTime) /\ Len(deque) \in Nat /\ Len(deque) = Len(granted[k]) - d
    /\ \A i \in 1..Len(deque) : deque[i] = granted[k][d + i]
    /\ \A i \in 1..d : granted[k][i] + Window \in Nat /\ granted[k][i] + Window <= time
    /\ Len(deque) > 0 => ~Expired(deque[1], time)
    /\ CallFacts(t, "idle", Nobody, 0)
    /\ UNCHANGED now /\ lock' = Nobody

Refused(k, deque) ==
    /\ Len(deque) >= MaxAttempts
    /\ events' = [events EXCEPT ![k] = deque]
    /\ granted' = granted

Allowed(k, time, deque) ==
    /\ Len(deque) < MaxAttempts
    /\ events' = [events EXCEPT ![k] = Append(deque, time)]
    /\ granted' = [granted EXCEPT ![k] = Append(granted[k], time)]

(* Every decision is one of these.                                         *)
LEMMA Decisions ==
    ASSUME IInv, NEW t \in Threads, Decide(t)
    PROVE  \E k, time, d, deque :
             /\ Decision(t, k, time, d, deque)
             /\ Refused(k, deque) \/ Allowed(k, time, deque)
<1> DEFINE k == call[t].key
           time == call[t].at
           n == Len(events[k])
<1>a. /\ TypeOK /\ At(t, "deciding") /\ k \in Keys /\ time \in 0..MaxTime /\ time \in Nat
      /\ time <= now /\ UNCHANGED now /\ 0 \in 0..MaxTime
      /\ Window \in Nat
  <2>1. TypeOK /\ At(t, "deciding") /\ UNCHANGED now
    BY DEF Decide, IInv
  <2>2. k \in Keys /\ time <= now
    BY <2>1 DEF IInv, LockInv, At
  <2> QED
    BY <2>1, <2>2, Types
<1>b. /\ events[k] \in Seq(0..MaxTime) /\ n \in Nat /\ Len(granted[k]) \in Nat
      /\ \A i \in 1..Len(granted[k]) : granted[k][i] \in Nat
  BY <1>a, Types
<1>c. \A i \in 1..n : events[k][i] \in 0..MaxTime
  BY <1>a, Types
<1>1. PICK first \in 1..(n + 1) :
        LET deque == SubSeq(events[k], first, n) IN
        /\ Kept(events[k], first, time)
        /\ \/ /\ Len(deque) >= MaxAttempts
              /\ events' = [events EXCEPT ![k] = deque]
              /\ Refuse(t)
           \/ /\ Len(deque) < MaxAttempts
              /\ events' = [events EXCEPT ![k] = Append(deque, time)]
              /\ Allow(t, k, time)
  BY DEF Decide
<1> DEFINE deque == SubSeq(events[k], first, n)
<1>2. Refused(k, deque) \/ Allowed(k, time, deque)
  BY <1>1 DEF Refuse, Allow, Refused, Allowed
<1>3. CallFacts(t, "idle", Nobody, 0) /\ lock' = Nobody
  <2>1. call' = [call EXCEPT ![t] = Local("idle", Nobody, 0)] /\ lock' = Nobody
    BY <1>1 DEF Refuse, Allow, Idle
  <2> QED
    BY <1>a, <2>1, CallMoves
<1>4. PICK d \in 0..Len(granted[k]) :
        Without(k, d) /\ \A i \in 1..d : Reached(granted[k][i] + Window)
  BY <1>a DEF IInv, DequeInv
<1>5. /\ deque \in Seq(0..MaxTime) /\ Len(deque) = n - first + 1
      /\ \A i \in 1..Len(deque) : deque[i] = events[k][first + i - 1]
  <2>1. first \in Int /\ n \in Int /\ 1 <= first /\ first <= n + 1
    BY <1>b
  <2>2. \A i \in first..n : events[k][i] \in 0..MaxTime
    <3>1. \A i \in first..n : i \in 1..n
      BY <1>b, <2>1
    <3> QED
      BY <1>c, <3>1
  <2>3. /\ SubSeq(events[k], first, n) \in Seq(0..MaxTime)
        /\ Len(SubSeq(events[k], first, n)) = IF first <= n THEN n - first + 1 ELSE 0
        /\ \A i \in 1..(n - first + 1) :
             SubSeq(events[k], first, n)[i] = events[k][first + i - 1]
    BY <2>1, <2>2, SubSeqProperties
  <2> QED
    BY <2>1, <2>3
<1> HIDE DEF deque, n
<1>6. d + (first - 1) \in 0..Len(granted[k]) /\ Len(deque) = Len(granted[k]) - (d + (first - 1))
  BY <1>b, <1>4, <1>5 DEF Without, n
<1>7. \A i \in 1..Len(deque) : deque[i] = granted[k][d + (first - 1) + i]
  <2> SUFFICES ASSUME NEW i \in 1..Len(deque) PROVE deque[i] = granted[k][d + (first - 1) + i]
    OBVIOUS
  <2>0. first \in Nat /\ d \in Nat /\ n \in Nat /\ i \in Nat /\ 1 <= first /\ 1 <= i /\ i <= n - first + 1
    BY <1>b, <1>5
  <2>1. first + i - 1 \in 1..n /\ d + (first + i - 1) = d + (first - 1) + i
    BY <2>0
  <2> QED
    BY <1>4, <1>5, <2>1 DEF Without, n
<1>8. \A i \in 1..(d + (first - 1)) :
        granted[k][i] + Window \in Nat /\ granted[k][i] + Window <= time
  <2> SUFFICES ASSUME NEW i \in 1..(d + (first - 1))
               PROVE  granted[k][i] + Window \in Nat /\ granted[k][i] + Window <= time
    OBVIOUS
  <2>0. granted[k][i] \in Nat /\ granted[k][i] + Window \in Nat
    <3>1. i \in 1..Len(granted[k])
      <4>1. Len(granted[k]) \in Nat /\ d + (first - 1) \in 0..Len(granted[k])
        BY <1>b, <1>6
      <4>2. \A m, h \in Nat : m \in 0..h => 1..m \subseteq 1..h
        OBVIOUS
      <4> QED
        BY <4>1, <4>2
    <3>2. granted[k][i] \in Nat
      BY <1>b, <3>1
    <3>3. Window \in Nat
      BY <1>a
    <3>4. \A g, w \in Nat : g + w \in Nat
      OBVIOUS
    <3> QED
      BY <3>2, <3>3, <3>4, Zenon
  <2>1. CASE i <= d
    BY <1>a, <1>4, <2>0, <2>1 DEF Reached
  <2>2. CASE i > d
    <3>1. i - d \in 1..(first - 1) /\ i - d \in 1..n /\ d + (i - d) = i
      BY <1>b, <1>4, <2>2
    <3>2. Expired(events[k][i - d], time) /\ events[k][i - d] = granted[k][i]
      BY <1>1, <1>4, <3>1 DEF Kept, Without, n
    <3>3. granted[k][i] \in Nat
      BY <1>b, <1>6
    <3>4. time - granted[k][i] >= Window
      BY <3>2 DEF Expired
    <3>5. \A e, w, now_ \in Nat : now_ - e >= w => e + w <= now_
      OBVIOUS
    <3>6. time \in Nat /\ Window \in Nat
      BY <1>a
    <3>7. granted[k][i] + Window <= time
      BY <3>3, <3>4, <3>5, <3>6
    <3> QED
      BY <2>0, <3>7
  <2> QED
    BY <2>1, <2>2, <1>4
<1>9. Len(deque) > 0 => ~Expired(deque[1], time)
  <2> SUFFICES ASSUME Len(deque) > 0 PROVE ~Expired(deque[1], time)
    OBVIOUS
  <2>1. first <= n /\ deque[1] = events[k][first]
    BY <1>b, <1>5
  <2> QED
    BY <1>1, <2>1 DEF Kept, n
<1> HIDE DEF k, time
<1>10. Decision(t, k, time, d + (first - 1), deque)
  <2>1. deque \in Seq(0..MaxTime) /\ Len(deque) \in Nat
    BY <1>5
  <2>2. k = call[t].key /\ time = call[t].at
    BY DEF k, time
  <2> QED
    BY <1>a, <1>3, <1>6, <1>7, <1>8, <1>9, <2>1, <2>2 DEF Decision
<1> QED
  BY <1>2, <1>10

(* The log and the deque after a decision.                                 *)
LEMMA DecideKeeps ==
    ASSUME IInv, NEW t \in Threads, Decide(t)
    PROVE  IInv'
<1>1. PICK k, time, d, deque :
        /\ Decision(t, k, time, d, deque)
        /\ Refused(k, deque) \/ Allowed(k, time, deque)
  BY Decisions
<1>a. /\ TypeOK /\ now \in Nat /\ MaxTime \in Nat /\ Window \in Nat
      /\ \A j \in Keys : Len(granted[j]) \in Nat
      /\ \A j \in Keys : \A i \in 1..Len(granted[j]) : granted[j][i] \in Nat
  BY Types DEF IInv
<1>b. /\ k \in Keys /\ k = call[t].key /\ At(t, "deciding")
      /\ time \in 0..MaxTime /\ time \in Nat /\ time = call[t].at /\ time <= now
      /\ d \in 0..Len(granted[k])
      /\ deque \in Seq(0..MaxTime) /\ Len(deque) \in Nat /\ Len(deque) = Len(granted[k]) - d
      /\ \A i \in 1..Len(deque) : deque[i] = granted[k][d + i]
      /\ \A i \in 1..d : granted[k][i] + Window \in Nat /\ granted[k][i] + Window <= time
      /\ CallFacts(t, "idle", Nobody, 0)
      /\ now' = now /\ lock' = Nobody
  BY <1>1 DEF Decision
<1>c. \A i \in 1..d : granted[k][i] + Window <= now /\ granted[k][i] + Window \in Nat
  <2>1. time \in Nat /\ now \in Nat /\ time <= now
    BY <1>a, <1>b
  <2>2. \A g \in Nat : g <= time => g <= now
    BY <2>1
  <2>3. \A i \in 1..d : granted[k][i] + Window \in Nat /\ granted[k][i] + Window <= time
    BY <1>b
  <2> QED
    BY <2>2, <2>3, Zenon
<1>2. \A u \in Threads : call'[u].pc \notin {"reading", "deciding"}
  BY <1>b DEF IInv, LockInv, At, CallFacts
<1>3. \A x \in Nat : x <= now => Reached(x)'
  BY <1>b, <1>2 DEF Reached, At
<1>4. LockInv'
  BY <1>b, <1>2 DEF IInv, LockInv, CallFacts, At
<1>5. \A j \in Keys : \A i \in 1..Len(granted[j]) :
        granted[j][i] <= now /\ (j = k => granted[j][i] <= time)
  BY <1>b DEF IInv, LogInv, Reached
<1>6. CASE Refused(k, deque)
  <2>1. /\ events' = [events EXCEPT ![k] = deque] /\ granted' = granted
    BY <1>6 DEF Refused
  <2>2. TypeOK'
    BY <1>a, <1>b, <2>1 DEF TypeOK, CallFacts
  <2>3. LogInv'
    BY <1>a, <1>3, <1>5, <2>1 DEF IInv, LogInv
  <2>4. events'[k] = deque /\ \A j \in Keys \ {k} : events'[j] = events[j]
    BY <1>a, <1>b, <2>1 DEF TypeOK
  <2>5. ASSUME NEW j \in Keys
        PROVE  \E e \in 0..Len(granted'[j]) :
                 /\ Without(j, e)'
                 /\ \A i \in 1..e : Reached(granted[j][i] + Window)'
    <3>1. CASE j = k
      <4>1. Without(k, d)'
        BY <1>b, <2>1, <2>4 DEF Without
      <4>2. \A i \in 1..d : granted[k][i] + Window <= now /\ granted[k][i] + Window \in Nat
        BY <1>c
      <4>3. \A i \in 1..d : Reached(granted[k][i] + Window)'
        BY <1>3, <2>1, <4>2 DEF Reached
      <4> QED
        BY <1>b, <2>1, <3>1, <4>1, <4>3
    <3>2. CASE j # k
      <4>1. PICK e \in 0..Len(granted[j]) :
              Without(j, e) /\ \A i \in 1..e : Reached(granted[j][i] + Window)
        BY DEF IInv, DequeInv
      <4>2. Without(j, e)'
        BY <2>1, <2>4, <3>2, <4>1 DEF Without
      <4>3. \A i \in 1..e : granted[j][i] + Window <= now /\ granted[j][i] + Window \in Nat
        BY <1>a, <4>1 DEF Reached
      <4>4. \A i \in 1..e : Reached(granted[j][i] + Window)'
        BY <1>3, <2>1, <4>3 DEF Reached
      <4> QED
        BY <2>1, <4>1, <4>2, <4>4
    <3> QED
      BY <3>1, <3>2
  <2>6. DequeInv'
    BY <2>5 DEF DequeInv
  <2> QED
    BY <1>4, <2>2, <2>3, <2>6 DEF IInv
<1>7. CASE Allowed(k, time, deque)
  <2> DEFINE n == Len(granted[k])
  <2>1. /\ events' = [events EXCEPT ![k] = Append(deque, time)]
        /\ granted' = [granted EXCEPT ![k] = Append(granted[k], time)]
    BY <1>7 DEF Allowed
  <2>2. /\ events'[k] = Append(deque, time) /\ granted'[k] = Append(granted[k], time)
        /\ \A j \in Keys \ {k} : events'[j] = events[j] /\ granted'[j] = granted[j]
        /\ granted[k] \in Seq(0..MaxTime)
    BY <1>a, <1>b, <2>1 DEF TypeOK
  <2>3. /\ Len(events'[k]) = Len(deque) + 1 /\ Len(granted'[k]) = n + 1
        /\ \A i \in 1..n : granted'[k][i] = granted[k][i]
        /\ granted'[k][n + 1] = time
        /\ \A i \in 1..Len(deque) : events'[k][i] = deque[i]
        /\ events'[k][Len(deque) + 1] = time
        /\ events'[k] \in Seq(0..MaxTime) /\ granted'[k] \in Seq(0..MaxTime)
    <3>1. /\ Append(deque, time) \in Seq(0..MaxTime)
          /\ Len(Append(deque, time)) = Len(deque) + 1
          /\ \A i \in 1..Len(deque) : Append(deque, time)[i] = deque[i]
          /\ Append(deque, time)[Len(deque) + 1] = time
      <4>1. deque \in Seq(0..MaxTime) /\ time \in 0..MaxTime
        BY <1>b
      <4> QED
        BY <4>1, AppendProperties
    <3>2. /\ Append(granted[k], time) \in Seq(0..MaxTime)
          /\ Len(Append(granted[k], time)) = n + 1
          /\ \A i \in 1..n : Append(granted[k], time)[i] = granted[k][i]
          /\ Append(granted[k], time)[n + 1] = time
      BY <1>b, <2>2, AppendProperties
    <3> QED
      BY <2>2, <3>1, <3>2
  <2>n. /\ n \in Nat /\ n = Len(granted[k]) /\ d \in Nat /\ d <= n /\ Len(deque) = n - d
        /\ Len(deque) \in Nat
        /\ time \in Nat
        /\ \A i \in 1..n : granted[k][i] \in Nat /\ granted[k][i] <= time /\ granted[k][i] <= now
        /\ \A i, e \in 1..n : i < e => granted[k][i] <= granted[k][e]
    <3>1. n \in Nat /\ time \in Nat /\ \A i \in 1..n : granted[k][i] \in Nat
      BY <1>a, <1>b, Types
    <3>2. d \in Nat /\ d <= n /\ Len(deque) = n - d /\ Len(deque) \in Nat
      BY <1>b, <3>1
    <3>3. \A i \in 1..n : granted[k][i] <= time /\ granted[k][i] <= now
      BY <1>b, <1>5 DEF IInv, LogInv
    <3>4. \A i, e \in 1..n : i < e => granted[k][i] <= granted[k][e]
      BY <1>b DEF IInv, LogInv
    <3> QED
      BY <3>1, <3>2, <3>3, <3>4
  <2> HIDE DEF n
  <2>4. TypeOK'
    <3>1. events' \in [Keys -> Seq(0..MaxTime)] /\ granted' \in [Keys -> Seq(0..MaxTime)]
      BY <1>a, <1>b, <2>1, <2>2, <2>3 DEF TypeOK
    <3> QED
      BY <1>a, <1>b, <3>1 DEF TypeOK, CallFacts
  <2>5. LogInv'
    <3>1. ASSUME NEW j \in Keys
          PROVE  /\ \A i \in 1..Len(granted'[j]) :
                      granted'[j][i] \in Nat /\ granted'[j][i] <= now
                 /\ \A i, e \in 1..Len(granted'[j]) : i < e => granted'[j][i] <= granted'[j][e]
      <4>1. CASE j # k
        BY <1>a, <1>5, <2>2, <4>1 DEF IInv, LogInv
      <4>2. CASE j = k
        <5>1. \A i \in 1..(n + 1) :
                granted'[k][i] \in Nat /\ granted'[k][i] <= time /\ granted'[k][i] <= now
          <6>1. ASSUME NEW i \in 1..(n + 1), i # n + 1
                PROVE  granted'[k][i] \in Nat /\ granted'[k][i] <= time /\ granted'[k][i] <= now
            <7>1. i \in 1..n
              BY <2>n, <6>1
            <7> QED
              BY <2>3, <2>n, <7>1
          <6>2. granted'[k][n + 1] \in Nat /\ granted'[k][n + 1] <= time /\ granted'[k][n + 1] <= now
            <7>1. granted'[k][n + 1] = time
              BY <2>3
            <7>2. time \in Nat /\ time <= time /\ time <= now
              BY <1>b, <2>n
            <7> QED
              BY <7>1, <7>2
          <6> QED
            BY <6>1, <6>2
        <5>2. \A i, e \in 1..(n + 1) : i < e => granted'[k][i] <= granted'[k][e]
          <6>1. ASSUME NEW i \in 1..(n + 1), NEW e \in 1..(n + 1), i < e
                PROVE  granted'[k][i] <= granted'[k][e]
            <7>1. CASE e = n + 1
              BY <2>3, <5>1, <7>1
            <7>2. CASE e # n + 1
              <8>1. i \in 1..n /\ e \in 1..n
                BY <2>n, <6>1, <7>2
              <8>2. granted'[k][i] = granted[k][i] /\ granted'[k][e] = granted[k][e]
                BY <2>3, <8>1
              <8>3. granted[k][i] <= granted[k][e]
                BY <2>n, <6>1, <8>1
              <8> QED
                BY <8>2, <8>3
            <7> QED
              BY <7>1, <7>2
          <6> QED
            BY <6>1
        <5> QED
          BY <2>3, <4>2, <5>1, <5>2
      <4> QED
        BY <4>1, <4>2
    <3>2. ASSUME NEW j \in Keys, NEW i \in 1..Len(granted'[j])
          PROVE  Reached(granted[j][i])'
      BY <1>3, <3>1, <3>2 DEF Reached
    <3> QED
      BY <3>1, <3>2 DEF LogInv
  <2>6. ASSUME NEW j \in Keys
        PROVE  \E e \in 0..Len(granted'[j]) :
                 /\ Without(j, e)'
                 /\ \A i \in 1..e : Reached(granted[j][i] + Window)'
    <3>1. CASE j = k
      <4>1. Without(k, d)'
        <5>1. Len(events'[k]) = Len(granted'[k]) - d
          BY <2>3, <2>n
        <5>2. ASSUME NEW i \in 1..Len(events'[k]) PROVE events'[k][i] = granted'[k][d + i]
          <6>1. CASE i = Len(deque) + 1
            <7>1. events'[k][i] = time /\ granted'[k][n + 1] = time
              BY <2>3, <6>1
            <7>2. d + i = n + 1
              BY <2>n, <6>1
            <7> QED
              BY <7>1, <7>2
          <6>2. CASE i # Len(deque) + 1
            <7>a. i \in 1..(Len(deque) + 1)
              BY <2>3
            <7>1. i \in 1..Len(deque) /\ d + i \in 1..n
              BY <2>n, <6>2, <7>a
            <7>2. events'[k][i] = deque[i] /\ granted'[k][d + i] = granted[k][d + i]
              BY <2>3, <7>1
            <7>3. deque[i] = granted[k][d + i]
              BY <1>b, <7>1
            <7> QED
              BY <7>2, <7>3
          <6> QED
            BY <6>1, <6>2
        <5> QED
          BY <5>1, <5>2 DEF Without
      <4>2. \A i \in 1..d : /\ granted'[k][i] + Window <= now
                            /\ granted'[k][i] + Window \in Nat
        <5>1. \A i \in 1..d : i \in 1..n
          BY <2>n
        <5> QED
          BY <1>c, <2>3, <5>1
      <4>3. \A i \in 1..d : Reached(granted[k][i] + Window)'
        BY <1>3, <4>2 DEF Reached
      <4>4. d \in 0..Len(granted'[k])
        <5>1. Len(granted'[k]) = n + 1
          BY <2>3
        <5> QED
          BY <2>n, <5>1
      <4> QED
        BY <3>1, <4>1, <4>3, <4>4
    <3>2. CASE j # k
      <4>1. PICK e \in 0..Len(granted[j]) :
              Without(j, e) /\ \A i \in 1..e : Reached(granted[j][i] + Window)
        BY DEF IInv, DequeInv
      <4>0. events'[j] = events[j] /\ granted'[j] = granted[j]
        BY <2>2, <3>2
      <4>2. Without(j, e)'
        BY <4>0, <4>1 DEF Without
      <4>3. \A i \in 1..e : granted[j][i] + Window <= now /\ granted[j][i] + Window \in Nat
        BY <1>a, <4>1 DEF Reached
      <4>4. \A i \in 1..e : Reached(granted[j][i] + Window)'
        <5> SUFFICES ASSUME NEW i \in 1..e PROVE Reached(granted[j][i] + Window)'
          OBVIOUS
        <5>1. granted'[j][i] = granted[j][i]
          BY <4>0
        <5> QED
          BY <1>3, <4>3, <5>1 DEF Reached
      <4> QED
        BY <4>0, <4>1, <4>2, <4>4
    <3> QED
      BY <3>1, <3>2
  <2>7. DequeInv'
    BY <2>6 DEF DequeInv
  <2> QED
    BY <1>4, <2>4, <2>5, <2>7 DEF IInv
<1> QED
  BY <1>1, <1>6, <1>7

(* Nothing has passed yet.                                                 *)
LEMMA Start == Init => IInv
<1> SUFFICES ASSUME Init PROVE IInv
  OBVIOUS
<1>1. Idle \in Call /\ \A t \in Threads : call[t] = Idle
  BY RateAssumption DEF Init, Idle, Local, Call
<1>2. \A t \in Threads : call[t].pc = "idle"
  BY <1>1 DEF Idle, Local
<1>3. \A k \in Keys : events[k] = << >> /\ granted[k] = << >>
  BY DEF Init
<1>4. TypeOK
  <2>1. << >> \in Seq(0..MaxTime) /\ 0 \in 0..MaxTime
    BY RateAssumption
  <2> QED
    BY <1>1, <2>1 DEF Init, TypeOK
<1>5. LockInv
  BY <1>2 DEF LockInv, At
<1>6. LogInv
  BY <1>3 DEF LogInv
<1>7. DequeInv
  <2>1. \A k \in Keys : Len(granted[k]) = 0 /\ Len(events[k]) = 0 /\ 0 \in 0..Len(granted[k])
    BY <1>3
  <2> QED
    BY <2>1 DEF DequeInv, Without
<1> QED
  BY <1>4, <1>5, <1>6, <1>7 DEF IInv

(* Every step keeps the invariant.                                         *)
LEMMA StepsKeep == IInv /\ [Next]_vars => IInv'
<1> SUFFICES ASSUME IInv, [Next]_vars PROVE IInv'
  OBVIOUS
<1>1. ASSUME Tick \/ \E t \in Threads :
               Acquire(t) \/ ReadClock(t) \/ \E k \in Keys : Check(t, k)
      PROVE  IInv'
  BY <1>1, QuietSteps
<1>2. ASSUME NEW t \in Threads, Decide(t) PROVE IInv'
  BY <1>2, DecideKeeps
<1>3. CASE UNCHANGED vars
  <2>1. UNCHANGED <<now, lock, events, call, granted>>
    BY <1>3 DEF vars
  <2>2. TypeOK' /\ LockInv'
    BY <2>1 DEF IInv, TypeOK, LockInv, At
  <2>3. \A time \in Nat : Reached(time) => Reached(time)'
    BY <2>1 DEF Reached, At
  <2> QED
    BY <2>1, <2>2, <2>3, LogsKeep DEF IInv
<1> QED
  BY <1>1, <1>2, <1>3 DEF Next, Step

(* The inductive invariant: the deque is the end of the log, and what it   *)
(* has forgotten left the window.                                          *)
THEOREM Invariance == Spec => []IInv
  BY Start, StepsKeep, PTL DEF Spec

(* Every variable keeps its type.                                          *)
THEOREM TypeCorrect == Spec => []TypeOK
<1>1. IInv => TypeOK
  BY DEF IInv
<1> QED
  BY <1>1, Invariance, PTL

-----------------------------------------------------------------------------
(* A request that is allowed may pass.                                     *)
LEMMA AllowedMayPass ==
    ASSUME IInv, NEW t \in Threads, NEW k, NEW time, NEW d, NEW deque,
           Decision(t, k, time, d, deque), Allowed(k, time, deque)
    PROVE  Promise!Next
<1> DEFINE n == Len(granted[k])
<1>1. /\ k \in Keys /\ time \in 0..MaxTime /\ time \in Nat /\ At(t, "deciding") /\ time = call[t].at
      /\ Len(deque) = n - d /\ Len(deque) < MaxAttempts
      /\ \A i \in 1..d : granted[k][i] + Window <= time
      /\ granted' = [granted EXCEPT ![k] = Append(granted[k], time)]
      /\ d \in 0..n
  BY DEF Decision, Allowed
<1>2. n \in Nat /\ MaxAttempts \in Nat /\ MaxAttempts > 0
  BY <1>1, Types DEF IInv
<1>3. \A i \in 1..n : granted[k][i] <= time
  BY <1>1 DEF IInv, LogInv, Reached
<1> HIDE DEF n
<1>4. n > 0 => granted[k][n] <= time
  BY <1>2, <1>3
<1>5. n >= MaxAttempts => granted[k][n - MaxAttempts + 1] + Window <= time
  <2>1. n >= MaxAttempts => n - MaxAttempts + 1 \in 1..d
    BY <1>1, <1>2
  <2> QED
    BY <1>1, <2>1
<1>6. Promise!MayPass(granted[k], time)
  BY <1>4, <1>5 DEF Promise!MayPass, n
<1> QED
  BY <1>1, <1>6 DEF Promise!Next, Promise!Pass

(* Initially nothing has passed.                                           *)
LEMMA WindowStart == Init => Promise!Init
  BY DEF Init, Promise!Init

(* A step of the backend lets one request pass that may, or none.          *)
LEMMA WindowStep == IInv /\ [Next]_vars => [Promise!Next]_granted
<1> SUFFICES ASSUME IInv, [Next]_vars PROVE Promise!Next \/ UNCHANGED granted
  OBVIOUS
<1>1. ASSUME NEW t \in Threads, Decide(t) PROVE Promise!Next \/ UNCHANGED granted
  BY <1>1, Decisions, AllowedMayPass DEF Refused
<1>2. CASE Tick \/ (\E t \in Threads :
             Acquire(t) \/ ReadClock(t) \/ \E k \in Keys : Check(t, k)) \/ UNCHANGED vars
  BY <1>2 DEF Tick, Acquire, ReadClock, Check, vars
<1> QED
  BY <1>1, <1>2 DEF Next, Step

(* For every limit, window, number of threads and of keys: in no window    *)
(* more than MaxAttempts requests of a key pass.                           *)
THEOREM WindowHolds == Spec => ImplementsWindow
  BY WindowStart, WindowStep, Invariance, PTL DEF Spec, ImplementsWindow, Promise!Spec

(* What counts when a request is refused: the whole deque.                 *)
LEMMA RefusedIsDue ==
    ASSUME IInv, NEW t \in Threads, NEW k, NEW time, NEW d, NEW deque,
           Decision(t, k, time, d, deque), Refused(k, deque)
    PROVE  Cardinality({i \in DOMAIN granted[k] : granted[k][i] > time - Window}) >= MaxAttempts
<1> DEFINE n == Len(granted[k])
           S == {i \in DOMAIN granted[k] : granted[k][i] > time - Window}
<1>1. /\ k \in Keys /\ time \in Nat /\ d \in 0..n
      /\ Len(deque) = n - d /\ Len(deque) >= MaxAttempts
      /\ \A i \in 1..Len(deque) : deque[i] = granted[k][d + i]
      /\ Len(deque) > 0 => ~Expired(deque[1], time)
  BY DEF Decision, Refused
<1>2. /\ n \in Nat /\ MaxAttempts \in Nat /\ MaxAttempts > 0 /\ Window \in Nat
      /\ \A i \in 1..n : granted[k][i] \in Nat
      /\ DOMAIN granted[k] = 1..n
  <2>1. TypeOK /\ k \in Keys
    BY <1>1 DEF IInv
  <2>2. granted[k] \in Seq(0..MaxTime)
    BY <2>1 DEF TypeOK
  <2>3. n \in Nat /\ DOMAIN granted[k] = 1..n
    BY <2>2
  <2>4. \A i \in 1..n : granted[k][i] \in Nat
    BY <2>1, Types
  <2>5. MaxAttempts \in Nat /\ MaxAttempts > 0 /\ Window \in Nat
    BY RateAssumption
  <2> QED
    BY <2>3, <2>4, <2>5
<1>3. \A i, j \in 1..n : i < j => granted[k][i] <= granted[k][j]
  BY <1>1 DEF IInv, LogInv
<1>4. S \subseteq 1..n
  BY <1>2
<1> HIDE DEF n
<1>5. d \in Nat /\ d + 1 \in 1..n /\ n - d >= MaxAttempts /\ Len(deque) > 0 /\ 1 \in 1..Len(deque)
  BY <1>1, <1>2
<1>6. granted[k][d + 1] > time - Window
  <2>1. deque[1] = granted[k][d + 1] /\ ~(time - deque[1] >= Window)
    BY <1>1, <1>5 DEF Expired
  <2>2. granted[k][d + 1] \in Nat
    BY <1>2, <1>5
  <2> QED
    BY <1>1, <1>2, <2>1, <2>2
<1>7. (d + 1)..n \subseteq S
  <2> SUFFICES ASSUME NEW i \in (d + 1)..n PROVE i \in S
    OBVIOUS
  <2>1. i \in 1..n /\ (i = d + 1 \/ d + 1 < i)
    BY <1>2, <1>5
  <2>2. granted[k][d + 1] <= granted[k][i] /\ granted[k][i] \in Nat /\ granted[k][d + 1] \in Nat
    BY <1>2, <1>3, <1>5, <2>1
  <2>3. granted[k][i] > time - Window
    BY <1>1, <1>2, <1>6, <2>2
  <2> QED
    BY <1>2, <2>1, <2>3
<1> HIDE DEF S
<1>8. Cardinality((d + 1)..n) = n - d
  <2>1. d + 1 \in Int /\ n \in Int /\ ~(d + 1 > n)
    BY <1>2, <1>5
  <2>2. Cardinality((d + 1)..n) = IF d + 1 > n THEN 0 ELSE n - (d + 1) + 1
    BY <2>1, FS_Interval
  <2> QED
    BY <1>2, <1>5, <2>1, <2>2
<1>9. IsFiniteSet(S)
  <2>1. 1 \in Int /\ n \in Int
    BY <1>2
  <2>2. IsFiniteSet(1..n)
    BY <2>1, FS_Interval
  <2> QED
    BY <1>4, <2>2, FS_Subset
<1>10. Cardinality((d + 1)..n) <= Cardinality(S) /\ Cardinality(S) \in Nat
  BY <1>7, <1>9, FS_Subset, FS_CardinalityType
<1>11. Cardinality(S) >= MaxAttempts
  BY <1>2, <1>5, <1>8, <1>10
<1> QED
  BY <1>11 DEF S

(* Only a decision refuses, and only when it is due.                       *)
LEMMA RefusalStep ==
    IInv /\ [Next]_vars =>
      [\A t \in Threads :
         At(t, "deciding") /\ ~At(t, "deciding")' /\ UNCHANGED granted =>
           LET k == call[t].key IN
           Cardinality({i \in DOMAIN granted[k] :
                          granted[k][i] > call[t].at - Window}) >= MaxAttempts]_vars
<1>1. ASSUME IInv, [Next]_vars, NEW t \in Threads,
             At(t, "deciding"), ~At(t, "deciding")', UNCHANGED granted
      PROVE  Cardinality({i \in DOMAIN granted[call[t].key] :
                            granted[call[t].key][i] > call[t].at - Window}) >= MaxAttempts
  <2>1. Decide(t)
    <3>a. call \in [Threads -> Call]
      BY <1>1 DEF IInv, TypeOK
    <3>1. ASSUME NEW u \in Threads,
                 Acquire(u) \/ ReadClock(u) \/ \E k \in Keys : Check(u, k)
          PROVE  FALSE
      BY <1>1, <3>1, <3>a DEF Acquire, ReadClock, Check, At, Local
    <3>2. ASSUME NEW u \in Threads, u # t, Decide(u) PROVE FALSE
      BY <1>1, <3>2 DEF Decide, At, IInv, LockInv
    <3>3. CASE Tick \/ UNCHANGED vars
      BY <1>1, <3>3 DEF Tick, vars, At
    <3> QED
      BY <1>1, <3>1, <3>2, <3>3 DEF Next, Step
  <2>2. PICK k, time, d, deque :
          /\ Decision(t, k, time, d, deque)
          /\ Refused(k, deque) \/ Allowed(k, time, deque)
    BY <1>1, <2>1, Decisions
  <2>3. k = call[t].key /\ time = call[t].at /\ k \in Keys /\ time \in 0..MaxTime
    BY <2>2 DEF Decision
  <2>4. ~Allowed(k, time, deque)
    <3>1. SUFFICES ASSUME granted' = [granted EXCEPT ![k] = Append(granted[k], time)] PROVE FALSE
      BY DEF Allowed
    <3>2. granted[k] = Append(granted[k], time) /\ granted[k] \in Seq(0..MaxTime)
          /\ Len(granted[k]) \in Nat
      BY <1>1, <2>3, <3>1, Types DEF IInv, TypeOK
    <3>3. Len(Append(granted[k], time)) = Len(granted[k]) + 1
      BY <2>3, <3>2, AppendProperties
    <3> QED
      BY <3>2, <3>3
  <2> QED
    BY <1>1, <2>2, <2>3, <2>4, RefusedIsDue
<1> QED
  BY <1>1

(* A request is only refused for requests of its own key in its window.    *)
THEOREM RefusedWhenDue == Spec => RefusalsAreDue
  BY RefusalStep, Invariance, PTL DEF Spec, RefusalsAreDue

-----------------------------------------------------------------------------
(* The Redis backend.                                                      *)

(* A thread that has begun a check has a key.                              *)
CallerInv == \A t \in Threads : redisCall[t].pc # "idle" => redisCall[t].key \in Keys

(* The clock is not behind the log.                                        *)
ClockInv == \A k \in Keys : \A i \in 1..Len(redisGranted[k]) : redisGranted[k][i] <= now

(* The first n entries have left the window by the time given.             *)
OutBy(log, n, time) == \A i \in 1..n : log[i] + Window <= time

(* The log of a key has three parts: what has left the window, what will   *)
(* have left it when the counter expires, and what the counter still       *)
(* counts.  Neither of the last two is longer than the limit.              *)
Parts(k, c, d) ==
    LET log == redisGranted[k] IN
    /\ c <= d
    /\ d - c <= MaxAttempts
    /\ Len(log) - d <= MaxAttempts
    /\ Len(log) - d <= count[k]
    /\ now < MaxTime => OutBy(log, c, now)
    /\ now < MaxTime /\ ttl[k] > 0 => OutBy(log, d, now + ttl[k])

LogParts(k) == \E c, d \in 0..Len(redisGranted[k]) : Parts(k, c, d)

(* A counter has a time to live, or a thread is about to set it, unless    *)
(* the EXPIRE was lost.                                                    *)
CounterExpires ==
    \A k \in Keys :
      count[k] > 0 /\ k \notin lost =>
        ttl[k] > 0 \/ \E t \in Threads : redisCall[t].pc = "expire" /\ redisCall[t].key = k

RInv ==
    /\ Redis!TypeOK
    /\ CallerInv
    /\ ClockInv
    /\ \A k \in Keys : LogParts(k)
    /\ CounterExpires

RCall == [pc: {"idle", "incr", "expire", "ttl"}, key: Keys \union {Nobody}]

(* The variables of the Redis backend are well typed.                      *)
LEMMA RedisTypes ==
    ASSUME Redis!TypeOK
    PROVE  /\ now \in 0..MaxTime /\ now \in Nat
           /\ redisCall \in [Threads -> RCall]
           /\ count \in [Keys -> 0..MaxCount] /\ ttl \in [Keys -> 0..Window]
           /\ redisGranted \in [Keys -> Seq(0..MaxTime)]
           /\ lost \subseteq Keys
           /\ MaxAttempts \in Nat /\ MaxAttempts > 0 /\ Window \in Nat /\ Window > 0
           /\ MaxTime \in Nat /\ MaxCount \in Nat
           /\ \A k \in Keys :
                /\ count[k] \in Nat /\ ttl[k] \in Nat
                /\ redisGranted[k] \in Seq(0..MaxTime)
                /\ Len(redisGranted[k]) \in Nat
                /\ \A i \in 1..Len(redisGranted[k]) :
                     redisGranted[k][i] \in 0..MaxTime /\ redisGranted[k][i] \in Nat
<1>1. /\ now \in 0..MaxTime /\ now \in Nat
      /\ redisCall \in [Threads -> RCall]
      /\ count \in [Keys -> 0..MaxCount] /\ ttl \in [Keys -> 0..Window]
      /\ redisGranted \in [Keys -> Seq(0..MaxTime)]
      /\ lost \subseteq Keys
      /\ MaxAttempts \in Nat /\ MaxAttempts > 0 /\ Window \in Nat /\ Window > 0
      /\ MaxTime \in Nat /\ MaxCount \in Nat
  BY RateAssumption, ServiceAssumption DEF Redis!TypeOK, RCall
<1>2. ASSUME NEW k \in Keys
      PROVE  /\ count[k] \in Nat /\ ttl[k] \in Nat
             /\ redisGranted[k] \in Seq(0..MaxTime)
             /\ Len(redisGranted[k]) \in Nat
             /\ \A i \in 1..Len(redisGranted[k]) :
                  redisGranted[k][i] \in 0..MaxTime /\ redisGranted[k][i] \in Nat
  <2>1. redisGranted[k] \in Seq(0..MaxTime)
    BY <1>1, <1>2
  <2>2. Len(redisGranted[k]) \in Nat
    BY <2>1
  <2>3. \A i \in 1..Len(redisGranted[k]) : redisGranted[k][i] \in 0..MaxTime
    BY <2>1, ElementOfSeq
  <2>4. \A i \in 1..Len(redisGranted[k]) : redisGranted[k][i] \in Nat
    BY <1>1, <2>3
  <2>5. count[k] \in 0..MaxCount /\ ttl[k] \in 0..Window
    BY <1>1, <1>2
  <2> QED
    BY <1>1, <2>1, <2>2, <2>3, <2>4, <2>5
<1> QED
  BY <1>1, <1>2

(* A thread's control point and key after its step, and the others'.       *)
RCallFacts(t, label, k) ==
    /\ redisCall' \in [Threads -> RCall]
    /\ redisCall'[t].pc = label /\ redisCall'[t].key = k
    /\ \A u \in Threads \ {t} : redisCall'[u] = redisCall[u]

(* A thread takes up a check, goes on with it or leaves it.                *)
LEMMA RCallMoves ==
    ASSUME redisCall \in [Threads -> RCall], NEW t \in Threads
    PROVE  /\ \A k \in Keys :
                redisCall' = [redisCall EXCEPT ![t] = [pc |-> "incr", key |-> k]]
                  => RCallFacts(t, "incr", k)
           /\ \A label \in {"expire", "ttl"} :
                Redis!Goto(t, label) => RCallFacts(t, label, redisCall[t].key)
           /\ Redis!Decided(t) => RCallFacts(t, "idle", Nobody)
<1>1. ASSUME NEW k \in Keys,
             redisCall' = [redisCall EXCEPT ![t] = [pc |-> "incr", key |-> k]]
      PROVE  RCallFacts(t, "incr", k)
  BY <1>1 DEF RCallFacts, RCall
<1>2. ASSUME NEW label \in {"expire", "ttl"}, Redis!Goto(t, label)
      PROVE  RCallFacts(t, label, redisCall[t].key)
  BY <1>2 DEF RCallFacts, RCall, Redis!Goto
<1>3. Redis!Decided(t) => RCallFacts(t, "idle", Nobody)
  BY DEF RCallFacts, RCall, Redis!Decided, Redis!Idle
<1> QED
  BY <1>1, <1>2, <1>3

(* A key whose log stays keeps its parts, when the clock does not go back, *)
(* the counter does not go down and its end does not come nearer.          *)
LEMMA PartsStay ==
    ASSUME Redis!TypeOK, Redis!TypeOK', NEW k \in Keys, LogParts(k),
           redisGranted'[k] = redisGranted[k],
           now <= now', count[k] <= count'[k],
           now' < MaxTime /\ ttl'[k] > 0 => ttl[k] > 0 /\ now + ttl[k] <= now' + ttl'[k]
    PROVE  LogParts(k)'
<1>1. PICK c, d \in 0..Len(redisGranted[k]) : Parts(k, c, d)
  BY DEF LogParts
<1>2. /\ now \in Nat /\ now' \in Nat /\ MaxTime \in Nat /\ Window \in Nat /\ MaxAttempts \in Nat
      /\ count[k] \in Nat /\ count'[k] \in Nat /\ ttl[k] \in Nat /\ ttl'[k] \in Nat
      /\ Len(redisGranted[k]) \in Nat /\ c \in Nat /\ d \in Nat
      /\ c <= Len(redisGranted[k]) /\ d <= Len(redisGranted[k])
      /\ \A i \in 1..Len(redisGranted[k]) : redisGranted[k][i] \in Nat
  <2>1. now' \in Nat /\ count'[k] \in Nat /\ ttl'[k] \in Nat
    BY RateAssumption, ServiceAssumption DEF Redis!TypeOK
  <2>2. /\ now \in Nat /\ MaxTime \in Nat /\ Window \in Nat /\ MaxAttempts \in Nat
        /\ count[k] \in Nat /\ ttl[k] \in Nat /\ Len(redisGranted[k]) \in Nat
    BY RedisTypes
  <2>3. \A i \in 1..Len(redisGranted[k]) : redisGranted[k][i] \in Nat
    BY RedisTypes
  <2>4. c \in Nat /\ d \in Nat /\ c <= Len(redisGranted[k]) /\ d <= Len(redisGranted[k])
    BY <2>2
  <2> QED
    BY <2>1, <2>2, <2>3, <2>4
<1>a. now' < MaxTime => now < MaxTime
  BY <1>2
<1>3. now' < MaxTime => OutBy(redisGranted[k], c, now')
  <2>1. SUFFICES ASSUME now' < MaxTime, NEW i \in 1..c
                 PROVE  redisGranted[k][i] + Window <= now'
    BY DEF OutBy
  <2>2. redisGranted[k][i] + Window <= now
    BY <1>1, <1>a, <2>1 DEF Parts, OutBy
  <2>3. i \in 1..Len(redisGranted[k])
    BY <1>2
  <2>4. PICK entry \in Nat : entry = redisGranted[k][i]
    BY <1>2, <2>3
  <2>5. entry + Window <= now
    BY <2>2, <2>4
  <2>6. now \in Nat /\ now' \in Nat /\ now <= now' /\ Window \in Nat
    BY <1>2
  <2>7. entry + Window <= now'
    BY <2>4, <2>5, <2>6
  <2> QED
    BY <2>4, <2>7
<1>4. now' < MaxTime /\ ttl'[k] > 0 => OutBy(redisGranted[k], d, now' + ttl'[k])
  <2>1. SUFFICES ASSUME now' < MaxTime, ttl'[k] > 0, NEW i \in 1..d
                 PROVE  redisGranted[k][i] + Window <= now' + ttl'[k]
    BY DEF OutBy
  <2>2. redisGranted[k][i] + Window <= now + ttl[k]
    BY <1>1, <1>a, <2>1 DEF Parts, OutBy
  <2>3. now + ttl[k] <= now' + ttl'[k]
    BY <2>1
  <2>4. i \in 1..Len(redisGranted[k])
    BY <1>2
  <2>5. PICK entry \in Nat : entry = redisGranted[k][i]
    BY <1>2, <2>4
  <2>6. entry + Window <= now + ttl[k] /\ now + ttl[k] <= now' + ttl'[k]
    BY <2>2, <2>3, <2>5
  <2>7. entry + Window <= now' + ttl'[k]
    BY <1>2, <2>6
  <2> QED
    BY <2>5, <2>7
<1>5. Parts(k, c, d)'
  BY <1>1, <1>2, <1>3, <1>4 DEF Parts
<1> QED
  BY <1>5 DEF LogParts

(* A thread moves, no time passes and no request is logged.                *)
LEMMA RQuiet ==
    ASSUME RInv, NEW t \in Threads,
           NEW label \in {"idle", "incr", "expire", "ttl"}, NEW k \in Keys \union {Nobody},
           RCallFacts(t, label, k), label # "idle" => k \in Keys,
           UNCHANGED <<now, redisGranted>>,
           count' \in [Keys -> 0..MaxCount], ttl' \in [Keys -> 0..Window], lost' \subseteq Keys,
           \A j \in Keys : count[j] <= count'[j],
           \A j \in Keys : ttl'[j] = ttl[j] \/ LogParts(j)',
           CounterExpires'
    PROVE  RInv'
<1>1. Redis!TypeOK'
  BY DEF RInv, Redis!TypeOK, RCallFacts, RCall
<1>2. CallerInv' /\ ClockInv'
  BY DEF RInv, CallerInv, ClockInv, RCallFacts
<1>3. ASSUME NEW j \in Keys PROVE LogParts(j)'
  <2>1. CASE ttl'[j] = ttl[j]
    <3>1. /\ now \in Nat /\ ttl[j] \in Nat /\ Redis!TypeOK /\ LogParts(j)
          /\ redisGranted'[j] = redisGranted[j] /\ count[j] <= count'[j]
      BY <1>3, RedisTypes DEF RInv
    <3>2. now <= now' /\ (now' < MaxTime /\ ttl'[j] > 0 =>
                            ttl[j] > 0 /\ now + ttl[j] <= now' + ttl'[j])
      BY <2>1, <3>1
    <3> QED
      BY <1>1, <3>1, <3>2, PartsStay
  <2> QED
    BY <1>3, <2>1
<1> QED
  BY <1>1, <1>2, <1>3 DEF RInv

(* A counter that expires goes on doing so while a thread goes on that was *)
(* not about to set its time to live.                                      *)
LEMMA StillExpires ==
    ASSUME CounterExpires, NEW t \in Threads, NEW label, NEW key, RCallFacts(t, label, key),
           UNCHANGED ttl, lost \subseteq lost', NEW k \in Keys,
           redisCall[t].pc # "expire" \/ redisCall[t].key # k, count[k] > 0, k \notin lost'
    PROVE  ttl'[k] > 0 \/ \E u \in Threads : redisCall'[u].pc = "expire" /\ redisCall'[u].key = k
<1>1. CASE ttl[k] > 0
  BY <1>1
<1>2. ASSUME NEW u \in Threads, redisCall[u].pc = "expire", redisCall[u].key = k
      PROVE  \E v \in Threads : redisCall'[v].pc = "expire" /\ redisCall'[v].key = k
  BY <1>2 DEF RCallFacts
<1> QED
  BY <1>1, <1>2 DEF CounterExpires

(* A request comes in, EXPIRE fails, or TTL has been answered.             *)
LEMMA RCommands ==
    ASSUME RInv, NEW t \in Threads,
           \/ \E k \in Keys : Redis!Check(t, k)
           \/ Redis!ExpireFails(t) \/ Redis!Ttl(t)
    PROVE  RInv'
<1>a. /\ count \in [Keys -> 0..MaxCount] /\ ttl \in [Keys -> 0..Window] /\ lost \subseteq Keys
      /\ redisCall \in [Threads -> RCall] /\ CounterExpires /\ CallerInv
      /\ \A j \in Keys : count[j] \in Nat
  BY RedisTypes DEF RInv
<1>b. \A j \in Keys : count[j] <= count[j]
  BY <1>a
<1>1. ASSUME NEW k \in Keys, Redis!Check(t, k) PROVE RInv'
  <2>1. RCallFacts(t, "incr", k) /\ redisCall[t].pc # "expire"
    BY <1>1, <1>a, RCallMoves DEF Redis!Check, Redis!At
  <2>2. UNCHANGED <<now, redisGranted, count, ttl, lost>>
    BY <1>1 DEF Redis!Check
  <2>3. CounterExpires'
    BY <1>a, <2>1, <2>2, StillExpires DEF CounterExpires
  <2> QED
    BY <1>a, <1>b, <2>1, <2>2, <2>3, RQuiet
<1>2. CASE Redis!Ttl(t)
  <2>1. RCallFacts(t, "idle", Nobody) /\ redisCall[t].pc # "expire"
    BY <1>2, <1>a, RCallMoves DEF Redis!Ttl, Redis!At
  <2>2. UNCHANGED <<now, redisGranted, count, ttl, lost>>
    BY <1>2 DEF Redis!Ttl
  <2>3. CounterExpires'
    BY <1>a, <2>1, <2>2, StillExpires DEF CounterExpires
  <2> QED
    BY <1>a, <1>b, <2>1, <2>2, <2>3, RQuiet
<1>3. CASE Redis!ExpireFails(t)
  <2>1. RCallFacts(t, "idle", Nobody) /\ redisCall[t].pc = "expire"
    BY <1>3, <1>a, RCallMoves DEF Redis!ExpireFails, Redis!At
  <2>2. /\ UNCHANGED <<now, redisGranted, count, ttl>>
        /\ lost' = lost \union {redisCall[t].key} /\ redisCall[t].key \in Keys
    BY <1>3, <1>a, <2>1 DEF Redis!ExpireFails, CallerInv
  <2>3. CounterExpires'
    <3>1. ASSUME NEW j \in Keys, count[j] > 0, j \notin lost'
          PROVE  ttl'[j] > 0 \/ \E u \in Threads : redisCall'[u].pc = "expire" /\ redisCall'[u].key = j
      BY <1>a, <2>1, <2>2, <3>1, StillExpires
    <3> QED
      BY <2>2, <3>1 DEF CounterExpires
  <2> QED
    BY <1>a, <1>b, <2>1, <2>2, <2>3, RQuiet
<1> QED
  BY <1>1, <1>2, <1>3

(* EXPIRE: what is in the log leaves the window before the counter goes.   *)
LEMMA RExpire ==
    ASSUME RInv, NEW t \in Threads, Redis!Expire(t)
    PROVE  RInv'
<1>a. /\ count \in [Keys -> 0..MaxCount] /\ ttl \in [Keys -> 0..Window] /\ lost \subseteq Keys
      /\ redisCall \in [Threads -> RCall] /\ CounterExpires /\ CallerInv
      /\ \A j \in Keys : count[j] \in Nat
      /\ now \in Nat /\ Window \in Nat /\ Window > 0
  BY RedisTypes DEF RInv
<1>b. redisCall[t].pc = "expire" /\ redisCall[t].key \in Keys
  BY <1>a DEF Redis!Expire, Redis!At, CallerInv
<1>c. PICK k \in Keys : k = redisCall[t].key
  BY <1>b
<1>1. RCallFacts(t, "idle", Nobody)
  BY <1>a, RCallMoves DEF Redis!Expire
<1>2. UNCHANGED <<now, redisGranted, count, lost>> /\ ttl' = [ttl EXCEPT ![k] = Window]
  BY <1>c DEF Redis!Expire
<1>3. ttl' \in [Keys -> 0..Window] /\ ttl'[k] = Window /\ \A j \in Keys \ {k} : ttl'[j] = ttl[j]
  BY <1>a, <1>1, <1>2
<1>4. CounterExpires'
  <2>1. ASSUME NEW j \in Keys \ {k}, count[j] > 0, j \notin lost, ttl[j] = 0
        PROVE  \E u \in Threads : redisCall'[u].pc = "expire" /\ redisCall'[u].key = j
    <3>1. PICK u \in Threads : redisCall[u].pc = "expire" /\ redisCall[u].key = j
      BY <1>a, <2>1 DEF CounterExpires
    <3> QED
      BY <1>1, <1>c, <3>1 DEF RCallFacts
  <2>2. \A j \in Keys : ttl[j] > 0 \/ ttl[j] = 0
    BY <1>a
  <2> QED
    BY <1>a, <1>2, <1>3, <2>1, <2>2 DEF CounterExpires
<1>5. LogParts(k)'
  <2>1. PICK c, d \in 0..Len(redisGranted[k]) : Parts(k, c, d)
    BY <1>1 DEF RInv, LogParts
  <2>2. OutBy(redisGranted[k], d, now + Window)
    <3>1. ASSUME NEW i \in 1..d PROVE redisGranted[k][i] + Window <= now + Window
      <4>1. i \in 1..Len(redisGranted[k])
        BY <1>1, RedisTypes DEF RInv
      <4>2. redisGranted[k][i] <= now /\ redisGranted[k][i] \in Nat
        BY <1>1, <4>1, RedisTypes DEF RInv, ClockInv
      <4> QED
        BY <1>a, <4>2
    <3> QED
      BY <3>1 DEF OutBy
  <2>3. Parts(k, c, d)'
    BY <1>1, <1>2, <1>3, <2>1, <2>2 DEF Parts
  <2> QED
    BY <1>2, <2>3 DEF LogParts
<1>6. \A j \in Keys : count[j] <= count'[j] /\ (ttl'[j] = ttl[j] \/ LogParts(j)')
  BY <1>a, <1>2, <1>3, <1>5
<1>7. count' \in [Keys -> 0..MaxCount] /\ lost' \subseteq Keys
  BY <1>a, <1>2
<1> QED
  BY <1>1, <1>2, <1>3, <1>4, <1>6, <1>7, RQuiet

(* A counter is raised by one: the first time somebody sets its time to    *)
(* live, or its EXPIRE is lost.                                            *)
LEMMA Raised ==
    ASSUME RInv, NEW t \in Threads, NEW label, NEW key, RCallFacts(t, label, key),
           redisCall[t].pc = "incr", NEW k \in Keys,
           count' = [count EXCEPT ![k] = count[k] + 1], count[k] + 1 <= MaxCount,
           count[k] = 0 => k \in lost' \/ (label = "expire" /\ key = k),
           UNCHANGED ttl, lost \subseteq lost'
    PROVE  /\ CounterExpires'
           /\ count' \in [Keys -> 0..MaxCount]
           /\ \A j \in Keys : count[j] <= count'[j]
           /\ count'[k] = count[k] + 1
<1>1. /\ count \in [Keys -> 0..MaxCount] /\ CounterExpires /\ MaxCount \in Nat
      /\ \A j \in Keys : count[j] \in Nat
  BY RedisTypes DEF RInv
<1>2. count[k] + 1 \in 0..MaxCount /\ count[k] <= count[k] + 1
  BY <1>1
<1>3. count' \in [Keys -> 0..MaxCount] /\ count'[k] = count[k] + 1
  BY <1>1, <1>2
<1>4. \A j \in Keys \ {k} : count'[j] = count[j]
  BY <1>1
<1>5. \A j \in Keys : count[j] <= count'[j]
  BY <1>1, <1>2, <1>3, <1>4
<1>6. ASSUME NEW j \in Keys, count'[j] > 0, j \notin lost'
      PROVE  ttl'[j] > 0 \/ \E u \in Threads : redisCall'[u].pc = "expire" /\ redisCall'[u].key = j
  <2>1. CASE j = k /\ count[k] = 0
    BY <1>6, <2>1 DEF RCallFacts
  <2>2. CASE j # k \/ count[k] # 0
    <3>1. count[j] > 0
      BY <1>1, <1>4, <1>6, <2>2
    <3> QED
      BY <1>1, <1>6, <3>1, StillExpires
  <2> QED
    BY <2>1, <2>2
<1> QED
  BY <1>3, <1>5, <1>6 DEF CounterExpires

(* INCR fails, and may have counted.                                       *)
LEMMA RIncrFails ==
    ASSUME RInv, NEW t \in Threads, Redis!IncrFails(t)
    PROVE  RInv'
<1>a. /\ count \in [Keys -> 0..MaxCount] /\ ttl \in [Keys -> 0..Window] /\ lost \subseteq Keys
      /\ redisCall \in [Threads -> RCall] /\ CounterExpires /\ CallerInv
      /\ MaxCount \in Nat /\ \A j \in Keys : count[j] \in Nat /\ count[j] <= count[j]
  BY RedisTypes DEF RInv
<1>1. /\ RCallFacts(t, "idle", Nobody) /\ redisCall[t].pc = "incr"
      /\ UNCHANGED <<now, ttl, redisGranted>>
  BY <1>a, RCallMoves DEF Redis!IncrFails, Redis!At
<1>2. PICK k \in Keys : k = redisCall[t].key
  BY <1>a, <1>1 DEF CallerInv
<1>3. CASE UNCHANGED <<count, lost>>
  <2>1. CounterExpires'
    BY <1>a, <1>1, <1>3, StillExpires DEF CounterExpires
  <2> QED
    BY <1>a, <1>1, <1>3, <2>1, RQuiet
<1>4. CASE /\ count[k] < MaxCount
           /\ count' = [count EXCEPT ![k] = count[k] + 1]
           /\ lost' = IF Redis!Opens(count[k] + 1) THEN lost \union {k} ELSE lost
  <2>1. count[k] + 1 <= MaxCount /\ (count[k] = 0 => Redis!Opens(count[k] + 1))
    BY <1>a, <1>4 DEF Redis!Opens
  <2>2. lost' \subseteq Keys /\ lost \subseteq lost' /\ (count[k] = 0 => k \in lost')
    BY <1>a, <1>4, <2>1
  <2>3. /\ CounterExpires' /\ count' \in [Keys -> 0..MaxCount]
        /\ \A j \in Keys : count[j] <= count'[j]
    BY <1>1, <1>4, <2>1, <2>2, Raised
  <2> QED
    BY <1>a, <1>1, <2>2, <2>3, RQuiet
<1> QED
  BY <1>2, <1>3, <1>4 DEF Redis!IncrFails

(* INCR: the control point that its result chooses, and the log.           *)
Counted(t, k, label, key) ==
    /\ redisCall[t].pc = "incr" /\ redisCall[t].key = k
    /\ RCallFacts(t, label, key)
    /\ label = "idle" => key = Nobody
    /\ label # "idle" => key = k
    /\ count[k] = 0 => label = "expire"
    /\ now < MaxTime /\ count[k] + 1 <= MaxCount
    /\ count' = [count EXCEPT ![k] = count[k] + 1]
    /\ UNCHANGED <<now, ttl, lost>>

LEMMA RIncrCounts ==
    ASSUME RInv, NEW t \in Threads, Redis!Incr(t)
    PROVE  \E k \in Keys, label \in {"idle", "expire", "ttl"}, key \in Keys \union {Nobody} :
             /\ Counted(t, k, label, key)
             /\ redisGranted' = IF count[k] + 1 > MaxAttempts THEN redisGranted
                                ELSE [redisGranted EXCEPT ![k] = Append(redisGranted[k], now)]
<1>a. /\ redisCall \in [Threads -> RCall] /\ CallerInv
      /\ \A j \in Keys : count[j] \in Nat
  BY RedisTypes DEF RInv
<1>1. redisCall[t].pc = "incr"
  BY DEF Redis!Incr, Redis!At
<1>2. PICK k \in Keys : k = redisCall[t].key
  BY <1>a, <1>1 DEF CallerInv
<1>3. \E label \in {"idle", "expire", "ttl"}, key \in Keys \union {Nobody} :
        /\ RCallFacts(t, label, key) /\ (label = "idle" => key = Nobody)
        /\ label # "idle" => key = k
        /\ count[k] = 0 => label = "expire"
  <2>1. count[k] = 0 => Redis!Opens(count[k] + 1)
    BY DEF Redis!Opens
  <2>2. CASE Redis!Goto(t, "expire")
    BY <1>a, <1>2, <2>2, RCallMoves
  <2>3. CASE Redis!Goto(t, "ttl") /\ count[k] # 0
    BY <1>a, <1>2, <2>3, RCallMoves
  <2>4. CASE Redis!Decided(t) /\ count[k] # 0
    BY <1>a, <2>4, RCallMoves
  <2> QED
    BY <1>2, <2>1, <2>2, <2>3, <2>4 DEF Redis!Incr
<1>4. /\ now < MaxTime /\ count[k] + 1 <= MaxCount
      /\ count' = [count EXCEPT ![k] = count[k] + 1]
      /\ redisGranted' = IF count[k] + 1 > MaxAttempts THEN redisGranted
                         ELSE [redisGranted EXCEPT ![k] = Append(redisGranted[k], now)]
      /\ UNCHANGED <<now, ttl, lost>>
  BY <1>2 DEF Redis!Incr, Redis!Over
<1> QED
  BY <1>1, <1>2, <1>3, <1>4 DEF Counted

(* INCR: whoever is over the limit is not logged; the others are counted   *)
(* by the counter of their key, and two counters make up any window.       *)
LEMMA RIncr ==
    ASSUME RInv, NEW t \in Threads, Redis!Incr(t)
    PROVE  RInv' /\ [Redis!Promise!Next]_redisGranted
<1>1. PICK k \in Keys, label \in {"idle", "expire", "ttl"}, key \in Keys \union {Nobody} :
        /\ Counted(t, k, label, key)
        /\ redisGranted' = IF count[k] + 1 > MaxAttempts THEN redisGranted
                           ELSE [redisGranted EXCEPT ![k] = Append(redisGranted[k], now)]
  BY RIncrCounts
<1>a. /\ ttl \in [Keys -> 0..Window] /\ lost \subseteq Keys
      /\ redisGranted \in [Keys -> Seq(0..MaxTime)] /\ now \in 0..MaxTime /\ now \in Nat
      /\ count[k] \in Nat /\ ttl[k] \in Nat /\ Len(redisGranted[k]) \in Nat
      /\ MaxAttempts \in Nat /\ MaxAttempts > 0 /\ Window \in Nat /\ MaxTime \in Nat
      /\ \A i \in 1..Len(redisGranted[k]) : redisGranted[k][i] \in Nat
  BY RedisTypes DEF RInv
<1>2. /\ CounterExpires' /\ count' \in [Keys -> 0..MaxCount]
      /\ \A j \in Keys : count[j] <= count'[j]
      /\ count'[k] = count[k] + 1
  BY <1>1, Raised DEF Counted
<1>3. CASE redisGranted' = redisGranted
  <2>1. /\ RCallFacts(t, label, key) /\ label \in {"idle", "incr", "expire", "ttl"}
        /\ key \in Keys \union {Nobody} /\ (label # "idle" => key \in Keys)
        /\ UNCHANGED <<now, redisGranted>> /\ ttl' \in [Keys -> 0..Window] /\ lost' \subseteq Keys
        /\ \A j \in Keys : ttl'[j] = ttl[j]
    BY <1>1, <1>3, <1>a DEF Counted
  <2>2. RInv'
    BY <1>2, <2>1, RQuiet
  <2> QED
    BY <1>3, <2>2
<1>4. CASE /\ count[k] + 1 <= MaxAttempts
           /\ redisGranted' = [redisGranted EXCEPT ![k] = Append(redisGranted[k], now)]
  <2> DEFINE n == Len(redisGranted[k])
  <2>1. PICK log \in Seq(0..MaxTime) : log = redisGranted[k]
    BY <1>a
  <2>2. /\ redisGranted' \in [Keys -> Seq(0..MaxTime)]
        /\ redisGranted'[k] = Append(log, now)
        /\ \A j \in Keys \ {k} : redisGranted'[j] = redisGranted[j]
        /\ Append(log, now) \in Seq(0..MaxTime)
    <3>1. Append(log, now) \in Seq(0..MaxTime)
      BY <1>a, <2>1, AppendProperties
    <3> QED
      BY <1>4, <1>a, <2>1, <3>1
  <2>3. /\ Len(log) \in Nat /\ Len(Append(log, now)) = Len(log) + 1
        /\ \A i \in 1..Len(log) : Append(log, now)[i] = log[i]
        /\ Append(log, now)[Len(log) + 1] = now
    BY <1>a, <2>1, AppendProperties
  <2>4. Redis!TypeOK'
    BY <1>1, <1>2, <1>a, <2>2 DEF Redis!TypeOK, Counted, RCallFacts, RCall
  <2>5. CallerInv'
    BY <1>1 DEF RInv, CallerInv, Counted, RCallFacts
  <2>6. ClockInv'
    <3>1. ASSUME NEW i \in 1..Len(Append(log, now)) PROVE Append(log, now)[i] <= now
      <4>1. i = Len(log) + 1 \/ i \in 1..Len(log)
        BY <2>3
      <4>2. \A x \in 1..Len(log) : log[x] <= now
        BY <2>1 DEF RInv, ClockInv
      <4> QED
        BY <1>a, <2>3, <4>1, <4>2
    <3>2. ASSUME NEW j \in Keys \ {k}, NEW i \in 1..Len(redisGranted[j])
          PROVE  redisGranted[j][i] <= now
      BY DEF RInv, ClockInv
    <3>3. now' = now
      BY <1>1 DEF Counted
    <3> QED
      BY <2>2, <3>1, <3>2, <3>3 DEF ClockInv
  <2>7. PICK c, d \in 0..Len(log) : Parts(k, c, d)
    BY <2>1 DEF RInv, LogParts
  <2>8. /\ c \in Nat /\ d \in Nat /\ c <= d /\ d <= Len(log)
        /\ d - c <= MaxAttempts /\ Len(log) - d <= count[k]
        /\ OutBy(log, c, now) /\ (ttl[k] > 0 => OutBy(log, d, now + ttl[k]))
    BY <1>1, <2>1, <2>3, <2>7 DEF Parts, Counted
  <2>9. LogParts(k)'
    <3>1. OutBy(Append(log, now), c, now) /\ (ttl[k] > 0 => OutBy(Append(log, now), d, now + ttl[k]))
      <4>1. \A i \in 1..d : Append(log, now)[i] = log[i]
        BY <2>3, <2>8
      <4>2. \A i \in 1..c : i \in 1..d
        BY <2>8
      <4> QED
        BY <2>8, <4>1, <4>2 DEF OutBy
    <3>2. Len(log) + 1 - d <= MaxAttempts /\ Len(log) + 1 - d <= count[k] + 1
      <4>1. /\ Len(log) \in Nat /\ d \in Nat /\ count[k] \in Nat /\ MaxAttempts \in Nat
            /\ Len(log) - d <= count[k] /\ count[k] + 1 <= MaxAttempts
        BY <1>4, <1>a, <2>3, <2>8
      <4> QED
        BY <4>1
    <3>3. c \in 0..(Len(log) + 1) /\ d \in 0..(Len(log) + 1)
      BY <2>3, <2>8
    <3>4. now' = now /\ ttl' = ttl
      BY <1>1 DEF Counted
    <3>5. Parts(k, c, d)'
      BY <1>2, <2>2, <2>3, <2>8, <3>1, <3>2, <3>4 DEF Parts
    <3> QED
      BY <2>2, <2>3, <3>3, <3>5 DEF LogParts
  <2>10. ASSUME NEW j \in Keys PROVE LogParts(j)'
    <3>1. CASE j # k
      <4>1. /\ redisGranted'[j] = redisGranted[j] /\ Redis!TypeOK /\ LogParts(j)
            /\ now' = now /\ ttl' = ttl /\ ttl[j] \in Nat /\ now \in Nat
        BY <1>1, <2>2, <3>1, RedisTypes DEF Counted, RInv
      <4>2. now <= now' /\ (now' < MaxTime /\ ttl'[j] > 0 =>
                              ttl[j] > 0 /\ now + ttl[j] <= now' + ttl'[j])
        BY <4>1
      <4> QED
        BY <1>2, <2>4, <4>1, <4>2, PartsStay
    <3> QED
      BY <2>9, <3>1
  <2>11. Redis!Promise!MayPass(log, now)
    <3>1. Len(log) > 0 => log[Len(log)] <= now
      BY <2>1, <2>3 DEF RInv, ClockInv
    <3>2. ASSUME Len(log) >= 2 * MaxAttempts
          PROVE  log[Len(log) - 2 * MaxAttempts + 1] + Window <= now
      <4>1. /\ Len(log) - d <= count[k] /\ count[k] + 1 <= MaxAttempts /\ d - c <= MaxAttempts
            /\ Len(log) \in Nat /\ c \in Nat /\ d \in Nat /\ count[k] \in Nat /\ MaxAttempts \in Nat
        BY <1>4, <1>a, <2>3, <2>8
      <4>2. Len(log) - c <= 2 * MaxAttempts - 1
        BY <4>1
      <4>3. Len(log) - 2 * MaxAttempts + 1 \in 1..c
        BY <3>2, <4>1, <4>2
      <4> QED
        BY <2>8, <4>3 DEF OutBy
    <3> QED
      BY <3>1, <3>2 DEF Redis!Promise!MayPass
  <2>12. Redis!Promise!Next
    BY <1>4, <1>a, <2>1, <2>11 DEF Redis!Promise!Next, Redis!Promise!Pass
  <2> QED
    BY <1>2, <2>4, <2>5, <2>6, <2>10, <2>12 DEF RInv
<1> QED
  BY <1>1, <1>3, <1>4, <1>a

(* Time passes.  What the counter of a key still counted when it expires   *)
(* is the second part of the log from then on.                             *)
LEMMA RTick == ASSUME RInv, Redis!Tick PROVE RInv'
<1>a. /\ Redis!TypeOK /\ now \in Nat /\ MaxTime \in Nat /\ MaxAttempts \in Nat /\ Window \in Nat
      /\ count \in [Keys -> 0..MaxCount] /\ ttl \in [Keys -> 0..Window]
      /\ \A j \in Keys : count[j] \in Nat /\ ttl[j] \in Nat /\ Len(redisGranted[j]) \in Nat
  BY RedisTypes DEF RInv
<1>1. /\ now <= now' /\ now' \in 0..MaxTime /\ (now' < MaxTime => now' = now + 1 /\ now < MaxTime)
      /\ ttl' = [j \in Keys |-> IF ttl[j] > 0 THEN ttl[j] - 1 ELSE 0]
      /\ count' = [j \in Keys |-> IF ttl[j] = 1 THEN 0 ELSE count[j]]
      /\ UNCHANGED <<redisCall, redisGranted, lost>>
  <2>1. now \in 0..MaxTime
    BY <1>a DEF Redis!TypeOK
  <2>2. now' = IF now < MaxTime THEN now + 1 ELSE now
    BY DEF Redis!Tick
  <2>3. now <= now' /\ now' \in 0..MaxTime /\ (now' < MaxTime => now' = now + 1 /\ now < MaxTime)
    BY <1>a, <2>1, <2>2
  <2> QED
    BY <2>3 DEF Redis!Tick
<1>2. Redis!TypeOK'
  <2>1. ASSUME NEW j \in Keys
        PROVE  /\ (IF ttl[j] > 0 THEN ttl[j] - 1 ELSE 0) \in 0..Window
               /\ (IF ttl[j] = 1 THEN 0 ELSE count[j]) \in 0..MaxCount
    <3>1. ttl[j] \in 0..Window /\ count[j] \in 0..MaxCount /\ MaxCount \in Nat
      BY <1>a, ServiceAssumption
    <3> QED
      BY <1>a, <3>1
  <2>2. ttl' \in [Keys -> 0..Window] /\ count' \in [Keys -> 0..MaxCount]
    BY <1>1, <2>1
  <2> QED
    BY <1>1, <1>a, <2>2 DEF Redis!TypeOK
<1>3. CallerInv'
  BY <1>1 DEF RInv, CallerInv
<1>4. ClockInv'
  <2>1. ASSUME NEW j \in Keys, NEW i \in 1..Len(redisGranted[j]) PROVE redisGranted[j][i] <= now'
    <3>1. redisGranted[j][i] <= now /\ redisGranted[j][i] \in Nat
      BY <1>a, RedisTypes DEF RInv, ClockInv
    <3> QED
      BY <1>1, <1>a, <3>1
  <2> QED
    BY <1>1, <2>1 DEF ClockInv
<1>5. ASSUME NEW k \in Keys PROVE LogParts(k)'
  <2>1. CASE ttl[k] = 1
    <3>1. PICK c, d \in 0..Len(redisGranted[k]) : Parts(k, c, d)
      BY DEF RInv, LogParts
    <3>2. count'[k] = 0 /\ ttl'[k] = 0
      BY <1>1, <2>1
    <3>3. now' < MaxTime => OutBy(redisGranted[k], d, now')
      BY <1>1, <2>1, <3>1 DEF Parts
    <3>4. Parts(k, d, Len(redisGranted[k]))'
      BY <1>1, <1>a, <3>1, <3>2, <3>3 DEF Parts
    <3>5. Len(redisGranted[k]) \in 0..Len(redisGranted[k])
      BY <1>a
    <3> QED
      BY <1>1, <3>4, <3>5 DEF LogParts
  <2>2. CASE ttl[k] # 1
    <3>1. /\ ttl[k] \in Nat /\ count[k] \in Nat
          /\ ttl'[k] = (IF ttl[k] > 0 THEN ttl[k] - 1 ELSE 0) /\ count'[k] = count[k]
          /\ redisGranted'[k] = redisGranted[k] /\ LogParts(k)
      BY <1>1, <1>a, <2>2 DEF RInv
    <3>2. count[k] <= count'[k]
      BY <3>1
    <3>3. now' < MaxTime /\ ttl'[k] > 0 => ttl[k] > 0 /\ now + ttl[k] <= now' + ttl'[k]
      BY <1>1, <1>a, <3>1
    <3> QED
      BY <1>1, <1>2, <1>a, <3>1, <3>2, <3>3, PartsStay
  <2> QED
    BY <2>1, <2>2
<1>6. CounterExpires'
  <2>1. ASSUME NEW k \in Keys, count'[k] > 0, k \notin lost
        PROVE  ttl'[k] > 0 \/ \E t \in Threads : redisCall[t].pc = "expire" /\ redisCall[t].key = k
    <3>1. ttl[k] # 1 /\ count[k] > 0
      BY <1>1, <2>1
    <3>2. ttl[k] > 0 => ttl'[k] > 0
      BY <1>1, <1>a, <3>1
    <3> QED
      BY <2>1, <3>1, <3>2 DEF RInv, CounterExpires
  <2> QED
    BY <1>1, <2>1 DEF CounterExpires
<1> QED
  BY <1>2, <1>3, <1>4, <1>5, <1>6 DEF RInv

(* With the other backend only the clock moves.                            *)
LEMMA RClock ==
    ASSUME RInv, now' \in 0..MaxTime, now <= now', UNCHANGED redisVars
    PROVE  RInv'
<1>a. /\ Redis!TypeOK /\ now \in Nat /\ now' \in Nat
      /\ \A j \in Keys : count[j] \in Nat /\ ttl[j] \in Nat
  BY RedisTypes, RateAssumption DEF RInv
<1>1. UNCHANGED <<count, ttl, redisCall, redisGranted, lost>>
  BY DEF redisVars
<1>2. Redis!TypeOK'
  BY <1>1, <1>a DEF Redis!TypeOK
<1>3. CallerInv' /\ CounterExpires'
  BY <1>1 DEF RInv, CallerInv, CounterExpires
<1>4. ClockInv'
  <2>1. ASSUME NEW j \in Keys, NEW i \in 1..Len(redisGranted[j]) PROVE redisGranted[j][i] <= now'
    <3>1. redisGranted[j][i] <= now /\ redisGranted[j][i] \in Nat
      BY <1>a, RedisTypes DEF RInv, ClockInv
    <3> QED
      BY <1>a, <3>1
  <2> QED
    BY <1>1, <2>1 DEF ClockInv
<1>5. ASSUME NEW k \in Keys PROVE LogParts(k)'
  <2>1. /\ redisGranted'[k] = redisGranted[k] /\ LogParts(k) /\ count[k] <= count'[k]
        /\ (ttl'[k] > 0 => ttl[k] > 0 /\ now + ttl[k] <= now' + ttl'[k])
    BY <1>1, <1>a DEF RInv
  <2> QED
    BY <1>2, <1>a, <2>1, PartsStay
<1> QED
  BY <1>2, <1>3, <1>4, <1>5 DEF RInv

(* A step of the Redis backend.                                            *)
LEMMA RNext == ASSUME RInv, Redis!Next PROVE RInv' /\ [Redis!Promise!Next]_redisGranted
<1>1. ASSUME NEW t \in Threads,
             \/ \E k \in Keys : Redis!Check(t, k)
             \/ Redis!ExpireFails(t) \/ Redis!Ttl(t)
      PROVE  RInv' /\ UNCHANGED redisGranted
  BY <1>1, RCommands DEF Redis!Check, Redis!ExpireFails, Redis!Ttl
<1>2. ASSUME NEW t \in Threads, Redis!Expire(t) PROVE RInv' /\ UNCHANGED redisGranted
  BY <1>2, RExpire DEF Redis!Expire
<1>3. ASSUME NEW t \in Threads, Redis!IncrFails(t) PROVE RInv' /\ UNCHANGED redisGranted
  BY <1>3, RIncrFails DEF Redis!IncrFails
<1>4. CASE Redis!Tick
  BY <1>4, RTick DEF Redis!Tick
<1> QED
  BY <1>1, <1>2, <1>3, <1>4, RIncr DEF Redis!Next, Redis!Step

(* No request has been counted.                                            *)
LEMMA RStart == Redis!Init => RInv
<1> SUFFICES ASSUME Redis!Init PROVE RInv
  OBVIOUS
<1>1. /\ now = 0 /\ count = [k \in Keys |-> 0] /\ ttl = [k \in Keys |-> 0]
      /\ redisCall = [t \in Threads |-> [pc |-> "idle", key |-> Nobody]]
      /\ redisGranted = [k \in Keys |-> << >>] /\ lost = {}
  BY DEF Redis!Init, Redis!Idle
<1>2. Redis!TypeOK
  BY <1>1, RateAssumption, ServiceAssumption DEF Redis!TypeOK
<1>3. CallerInv /\ ClockInv /\ CounterExpires
  BY <1>1 DEF CallerInv, ClockInv, CounterExpires
<1>4. ASSUME NEW k \in Keys PROVE LogParts(k)
  <2>1. Len(redisGranted[k]) = 0 /\ 0 \in 0..Len(redisGranted[k]) /\ count[k] = 0 /\ ttl[k] = 0
    BY <1>1
  <2>2. Parts(k, 0, 0)
    BY <2>1, RateAssumption DEF Parts, OutBy
  <2> QED
    BY <2>1, <2>2 DEF LogParts
<1> QED
  BY <1>2, <1>3, <1>4 DEF RInv

-----------------------------------------------------------------------------
(* The service.                                                            *)

SInv == backend \in {"memory", "redis"} /\ IInv /\ RInv

(* Both backends start empty.                                              *)
LEMMA ServiceStart == ServiceInit => SInv
  BY Start, RStart DEF ServiceInit, SInv

(* A step of one backend leaves the other as it is, but for the clock.     *)
LEMMA MemoryStep ==
    ASSUME SInv, Next, UNCHANGED <<backend, redisVars>>
    PROVE  SInv'
<1>1. IInv'
  BY StepsKeep DEF SInv
<1>2. now \in Nat /\ now' \in 0..MaxTime
  BY <1>1, Types DEF SInv, IInv, TypeOK
<1>3. now <= now'
  <2>1. now' = now \/ now' = now + 1
    BY DEF Next, Step, Tick, Check, Acquire, ReadClock, Decide
  <2> QED
    BY <1>2, <2>1
<1>4. RInv'
  BY <1>2, <1>3, RClock DEF SInv
<1> QED
  BY <1>1, <1>4 DEF SInv

LEMMA RedisStep ==
    ASSUME SInv, Redis!Next, UNCHANGED <<backend, lock, events, call, granted>>
    PROVE  SInv'
<1>1. RInv'
  BY RNext DEF SInv
<1>2. now \in Nat /\ now' \in 0..MaxTime
  BY <1>1, RedisTypes DEF SInv, RInv, Redis!TypeOK
<1>3. now <= now'
  BY <1>2 DEF Redis!Next, Redis!Step, Redis!Tick, Redis!Check, Redis!Incr, Redis!IncrFails,
     Redis!Expire, Redis!ExpireFails, Redis!Ttl
<1>4. IInv'
  BY <1>2, <1>3, ClockKeeps DEF SInv
<1> QED
  BY <1>1, <1>4 DEF SInv

LEMMA ServiceStep == SInv /\ [ServiceNext]_serviceVars => SInv'
<1> SUFFICES ASSUME SInv, [ServiceNext]_serviceVars PROVE SInv'
  OBVIOUS
<1>1. CASE ServiceNext
  BY <1>1, MemoryStep, RedisStep DEF ServiceNext
<1>2. CASE UNCHANGED serviceVars
  <2>1. UNCHANGED vars /\ UNCHANGED redisVars /\ UNCHANGED backend
    BY <1>2 DEF serviceVars
  <2>2. IInv'
    BY <2>1, StepsKeep DEF SInv
  <2>3. now' \in 0..MaxTime /\ now <= now'
    BY <2>1, Types DEF SInv, IInv, vars
  <2>4. RInv'
    BY <2>1, <2>3, RClock DEF SInv
  <2> QED
    BY <2>1, <2>2, <2>4 DEF SInv
<1> QED
  BY <1>1, <1>2

(* The invariants of both backends hold whichever of them serves.          *)
THEOREM ServiceInvariance == ServiceSpec => []SInv
  BY ServiceStart, ServiceStep, PTL DEF ServiceSpec

(* Every variable of the service and of its backends keeps its type.       *)
THEOREM ServiceTypeCorrect == ServiceSpec => []ServiceTypeOK
<1>1. SInv => ServiceTypeOK
  BY DEF SInv, IInv, RInv, ServiceTypeOK
<1> QED
  BY <1>1, ServiceInvariance, PTL

(* With Redis no window of a key lets more than twice the limit pass: any  *)
(* window holds entries of two counters at most, whatever the threads      *)
(* interleave and whichever commands fail.                                 *)
THEOREM TwiceTheLimitHolds == ServiceSpec => TwiceTheLimit
<1>1. ServiceInit => Redis!Promise!Init
  BY DEF ServiceInit, Redis!Init, Redis!Promise!Init
<1>2. SInv /\ [ServiceNext]_serviceVars => [Redis!Promise!Next]_redisGranted
  BY RNext DEF SInv, ServiceNext, serviceVars, redisVars
<1> QED
  BY <1>1, <1>2, ServiceInvariance, PTL
  DEF ServiceSpec, TwiceTheLimit, Redis!TwiceTheLimit, Redis!Promise!Spec

(* A counter that blocks an address has a time to live, or a thread is     *)
(* about to give it one, unless an EXPIRE was lost: the only way to be     *)
(* blocked for good.                                                       *)
THEOREM CountersExpire == ServiceSpec => []CounterExpires
<1>1. SInv => CounterExpires
  BY DEF SInv, RInv
<1> QED
  BY <1>1, ServiceInvariance, PTL

(* The promise of the in-process backend, for the service that uses it.    *)
THEOREM ServiceWindowHolds == ServiceSpec => ImplementsWindow
<1>1. ServiceInit => Promise!Init
  BY WindowStart DEF ServiceInit
<1>2. SInv /\ [ServiceNext]_serviceVars => [Promise!Next]_granted
  BY WindowStep DEF SInv, ServiceNext, serviceVars, vars
<1> QED
  BY <1>1, <1>2, ServiceInvariance, PTL DEF ServiceSpec, ImplementsWindow, Promise!Spec

(* The service refuses a request only when its backend's refusal is due.   *)
THEOREM ServiceRefusedWhenDue == ServiceSpec => RefusalsAreDue
<1>1. SInv /\ [ServiceNext]_serviceVars =>
        [\A t \in Threads :
           At(t, "deciding") /\ ~At(t, "deciding")' /\ UNCHANGED granted =>
             LET k == call[t].key IN
             Cardinality({i \in DOMAIN granted[k] :
                            granted[k][i] > call[t].at - Window}) >= MaxAttempts]_vars
  <2> SUFFICES ASSUME SInv, [ServiceNext]_serviceVars
               PROVE  [\A t \in Threads :
                         At(t, "deciding") /\ ~At(t, "deciding")' /\ UNCHANGED granted =>
                           LET k == call[t].key IN
                           Cardinality({i \in DOMAIN granted[k] :
                                          granted[k][i] > call[t].at - Window}) >= MaxAttempts]_vars
    OBVIOUS
  <2>1. CASE [Next]_vars
    BY <2>1, RefusalStep DEF SInv
  <2>2. CASE UNCHANGED call
    BY <2>2 DEF At
  <2> QED
    BY <2>1, <2>2 DEF ServiceNext, serviceVars, vars
<1> QED
  BY <1>1, ServiceInvariance, PTL DEF ServiceSpec, RefusalsAreDue
=============================================================================
