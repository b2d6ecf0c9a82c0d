------------------------ MODULE MarzbanClient_proofs ------------------------
(***************************************************************************)
(* Proofs about MarzbanClient, for any number of threads: type             *)
(* correctness, that no refused token is picked up again, and that Marzban *)
(* is only asked for a token when one is due.                              *)
(***************************************************************************)
EXTENDS MarzbanClient, TLAPS

(* Who reads or fills the cache, or waits for a login, has the lock.       *)
LockInv == \A t \in Threads : call[t].pc \in Holding => lock = t

(* Tokens are numbered as they are issued; the one that is cached, and the *)
(* one that is about to be, have not been refused.                         *)
TokenInv ==
    /\ cached.token \notin refused /\ cached.token <= issued
    /\ \A n \in refused : n <= issued
    /\ \A t \in Threads :
         /\ call[t].token <= issued
         /\ call[t].pc \in {"send", "refused", "issued"} => call[t].token \in Tokens
         /\ call[t].pc = "issued" => call[t].token \notin refused

(* Unless a refusal has emptied it, the cache holds the token that was     *)
(* stored last, for as long as it was to be used; and while Marzban is     *)
(* asked for another one, that time is over.                               *)
DueInv ==
    stored # -1 /\ ~dropped =>
      /\ cached.token # 0 /\ cached.expires = stored + CacheSeconds
      /\ \A t \in Threads :
           call[t].pc \in {"login", "issued"} => now >= stored + CacheSeconds

IInv == TypeOK /\ LockInv /\ TokenInv /\ DueInv

-----------------------------------------------------------------------------
(* Moving one thread.                                                      *)
LEMMA GotoMoves ==
    ASSUME TypeOK, NEW t \in Threads, NEW label, NEW token \in 0..MaxLogins,
           label \in {"idle", "begun", "send", "refused"} \union Holding,
           Goto(t, label, token)
    PROVE  /\ call' \in [Threads -> Calls]
           /\ call'[t].pc = label /\ call'[t].token = token
           /\ \A s \in Threads \ {t} : call'[s] = call[s]
<1>1. call \in [Threads -> Calls]
  BY DEF TypeOK
<1>2. Call(label, token) \in Calls
  BY DEF Call, Calls
<1>3. Call(label, token).pc = label /\ Call(label, token).token = token
  BY DEF Call
<1> QED
  BY <1>1, <1>2, <1>3 DEF Goto

(* The types that the arithmetic of the proofs needs.                      *)
LEMMA Types ==
    ASSUME TypeOK
    PROVE  /\ now \in Nat /\ now <= MaxTime
           /\ issued \in Nat /\ issued <= MaxLogins
           /\ cached.token \in 0..MaxLogins /\ cached.expires \in Nat
           /\ stored \in Int /\ stored >= -1 /\ stored <= MaxTime
           /\ refused \subseteq Tokens /\ dropped \in BOOLEAN
           /\ \A t \in Threads :
                /\ call[t].pc \in {"idle", "begun", "send", "refused"} \union Holding
                /\ call[t].token \in 0..MaxLogins
           /\ MaxLogins \in Nat /\ MaxTime \in Nat /\ CacheSeconds \in Nat
           /\ CacheSeconds > 0
<1>1. /\ now \in 0..MaxTime /\ issued \in 0..MaxLogins /\ stored \in -1..MaxTime
      /\ cached \in [token: 0..MaxLogins, expires: 0..(MaxTime + CacheSeconds)]
      /\ refused \subseteq Tokens /\ dropped \in BOOLEAN
      /\ call \in [Threads -> Calls]
  BY DEF TypeOK
<1> QED
  BY <1>1, ClientAssumption DEF Calls

(* A step that leaves the cache and the history: the thread moves on.      *)
LEMMA QuietStep ==
    ASSUME IInv, NEW t \in Threads, NEW label, NEW token \in 0..MaxLogins,
           label \in {"idle", "begun", "send", "refused"} \union Holding,
           Goto(t, label, token), lock' \in Threads \union {Nobody},
           issued' \in {issued, issued + 1}, issued' <= MaxLogins,
           UNCHANGED <<now, cached, stored, dropped, refused>>,
           label \in Holding => lock' = t,
           \A s \in Threads \ {t} : call[s].pc \in Holding => lock' = lock,
           token <= issued',
           label \in {"send", "refused", "issued"} => token \in Tokens,
           label = "issued" => token \notin refused,
           label \in {"login", "issued"} /\ stored # -1 /\ ~dropped =>
             now >= stored + CacheSeconds
    PROVE  IInv'
<1>1. /\ call' \in [Threads -> Calls]
      /\ call'[t].pc = label /\ call'[t].token = token
      /\ \A s \in Threads \ {t} : call'[s] = call[s]
  BY GotoMoves DEF IInv
<1>2. TypeOK'
  BY <1>1, ClientAssumption DEF IInv, TypeOK
<1>3. LockInv'
  BY <1>1 DEF IInv, LockInv
<1>4. TokenInv'
  <2>1. issued <= issued' /\ issued \in Nat /\ issued' \in Nat
    BY Types DEF IInv
  <2>2. ASSUME NEW s \in Threads
        PROVE  /\ call'[s].token <= issued'
               /\ call'[s].pc \in {"send", "refused", "issued"} => call'[s].token \in Tokens
               /\ call'[s].pc = "issued" => call'[s].token \notin refused
    BY <1>1, <2>1, Types DEF IInv, TokenInv
  <2>3. cached.token <= issued' /\ \A n \in refused : n <= issued'
    BY <2>1, Types DEF IInv, TokenInv, Tokens
  <2> QED
    BY <2>2, <2>3 DEF IInv, TokenInv, Tokens
<1>5. DueInv'
  BY <1>1 DEF IInv, DueInv
<1> QED
  BY <1>2, <1>3, <1>4, <1>5 DEF IInv

-----------------------------------------------------------------------------
(* The invariant is inductive.                                             *)

(* The steps that neither fill nor empty the cache.                        *)
LEMMA QuietSteps ==
    ASSUME IInv, NEW t \in Threads,
           \/ Begin(t) \/ Acquire(t) \/ UseCached(t) \/ Login(t) \/ Issue(t)
           \/ LoginFails(t) \/ Answer(t) \/ Refuse(t)
    PROVE  IInv'
<1> USE DEF Holding, At
<1>a. /\ TypeOK /\ LockInv /\ TokenInv /\ DueInv
      /\ lock \in Threads \union {Nobody} /\ 0 \in 0..MaxLogins
  BY ClientAssumption DEF IInv, TypeOK
<1>b. 0 <= issued /\ issued <= MaxLogins /\ issued \in Nat
  BY <1>a, Types
<1>1. CASE Begin(t)
  BY <1>1, <1>a, <1>b, QuietStep DEF Begin
<1>2. CASE Acquire(t)
  <2>1. \A s \in Threads : call[s].pc \notin Holding
    BY <1>2, <1>a, ClientAssumption DEF Acquire, LockInv
  <2> QED
    BY <1>2, <1>a, <1>b, <2>1, QuietStep DEF Acquire
<1>3. ASSUME call[t].pc \in Holding
      PROVE  lock = t /\ \A s \in Threads \ {t} : call[s].pc \notin Holding
  BY <1>3, <1>a DEF LockInv
<1>4. CASE UseCached(t)
  <2>1. cached.token \in Tokens /\ cached.token \in 0..MaxLogins /\ cached.token <= issued
    BY <1>4, <1>a, Types DEF UseCached, Usable, Tokens, TokenInv
  <2> QED
    BY <1>3, <1>4, <1>a, <1>b, <2>1, QuietStep DEF UseCached
<1>5. CASE Login(t)
  <2>1. stored # -1 /\ ~dropped => now >= stored + CacheSeconds
    BY <1>5, <1>a, Types DEF Login, Usable, DueInv
  <2> QED
    BY <1>3, <1>5, <1>a, <1>b, <2>1, QuietStep DEF Login
<1>6. CASE Issue(t)
  <2>1. /\ issued + 1 \in 0..MaxLogins /\ issued + 1 \in Tokens
        /\ issued + 1 <= MaxLogins /\ issued + 1 \notin refused
    BY <1>6, <1>a, <1>b, Types DEF Issue, TokenInv, Tokens
  <2>2. stored # -1 /\ ~dropped => now >= stored + CacheSeconds
    BY <1>6, <1>a DEF Issue, DueInv
  <2> QED
    BY <1>3, <1>6, <1>a, <1>b, <2>1, <2>2, QuietStep DEF Issue
<1>7. CASE LoginFails(t)
  BY <1>3, <1>7, <1>a, <1>b, QuietStep DEF LoginFails, Return
<1>8. CASE Answer(t)
  BY <1>8, <1>a, <1>b, QuietStep DEF Answer, Return
<1>9. CASE Refuse(t)
  <2>1. call[t].token \in Tokens /\ call[t].token <= issued /\ call[t].token \in 0..MaxLogins
    BY <1>9, <1>a, Types DEF Refuse, TokenInv
  <2> QED
    BY <1>9, <1>a, <1>b, <2>1, QuietStep DEF Refuse
<1> QED
  BY <1>1, <1>2, <1>4, <1>5, <1>6, <1>7, <1>8, <1>9

(* The cache is filled: nobody else is at the lock, and the token is new.  *)
LEMMA StoreStep ==
    ASSUME IInv, NEW t \in Threads, Store(t)
    PROVE  IInv'
<1> USE DEF Holding, At
<1>a. TypeOK /\ LockInv /\ TokenInv /\ DueInv /\ call[t].pc = "issued"
  BY DEF IInv, Store
<1>b. /\ call[t].token \in Tokens /\ call[t].token \in 0..MaxLogins
      /\ call[t].token <= issued /\ call[t].token \notin refused
      /\ call[t].token # 0
  BY <1>a, Types DEF TokenInv, Tokens
<1>1. \A s \in Threads \ {t} : call[s].pc \notin Holding
  BY <1>a DEF LockInv
<1>2. /\ call' \in [Threads -> Calls]
      /\ call'[t].pc = "send" /\ call'[t].token = call[t].token
      /\ \A s \in Threads \ {t} : call'[s] = call[s]
  BY <1>a, <1>b, GotoMoves DEF Store
<1>3. cached'.token = call[t].token /\ cached'.expires = now + CacheSeconds
  BY DEF Store
<1>4. cached' \in [token: 0..MaxLogins, expires: 0..(MaxTime + CacheSeconds)]
  <2>1. now + CacheSeconds \in 0..(MaxTime + CacheSeconds)
    BY <1>a, Types
  <2> QED
    BY <1>b, <2>1 DEF Store
<1>5. TypeOK'
  <2>1. now \in -1..MaxTime
    BY <1>a, Types
  <2>2. /\ stored' = now /\ dropped' = FALSE /\ lock' = Nobody
        /\ UNCHANGED <<now, issued, refused>>
    BY DEF Store
  <2> QED
    BY <1>2, <1>4, <1>a, <2>1, <2>2 DEF TypeOK
<1>6. LockInv'
  BY <1>1, <1>2 DEF LockInv
<1>7. TokenInv'
  BY <1>2, <1>3, <1>a, <1>b DEF TokenInv, Store
<1>8. DueInv'
  BY <1>1, <1>2, <1>3, <1>b DEF DueInv, Store
<1> QED
  BY <1>5, <1>6, <1>7, <1>8 DEF IInv

(* The cache is emptied: no login is under way.                            *)
LEMMA InvalidateStep ==
    ASSUME IInv, NEW t \in Threads, Invalidate(t)
    PROVE  IInv'
<1> USE DEF Holding, At
<1>a. /\ TypeOK /\ LockInv /\ TokenInv /\ lock = Nobody
      /\ call[t].pc = "refused"
  BY DEF IInv, Invalidate
<1>b. call[t].token \in Tokens /\ call[t].token <= issued /\ 0 <= issued
      /\ 0 \in 0..MaxLogins
  BY <1>a, Types DEF TokenInv
<1>1. \A s \in Threads : call[s].pc \notin Holding
  BY <1>a, ClientAssumption DEF LockInv
<1>2. /\ call' \in [Threads -> Calls]
      /\ call'[t].pc = "idle" /\ call'[t].token = 0
      /\ \A s \in Threads \ {t} : call'[s] = call[s]
  BY <1>a, <1>b, GotoMoves DEF Invalidate, Return
<1>3. cached'.token = 0 /\ 0 \notin refused'
  BY <1>a, <1>b, Types DEF Invalidate, Empty, Tokens
<1>4. TypeOK'
  <2>1. cached' \in [token: 0..MaxLogins, expires: 0..(MaxTime + CacheSeconds)]
    BY <1>a, Types DEF Invalidate, Empty
  <2> QED
    BY <1>2, <1>a, <1>b, <2>1 DEF TypeOK, Invalidate
<1>5. LockInv'
  BY <1>1, <1>2 DEF LockInv
<1>6. TokenInv'
  BY <1>1, <1>2, <1>3, <1>a, <1>b DEF TokenInv, Invalidate
<1>7. DueInv'
  BY DEF DueInv, Invalidate
<1> QED
  BY <1>4, <1>5, <1>6, <1>7 DEF IInv

(* Every step keeps the invariant; the clock only makes a login more due.  *)
LEMMA StepInv == IInv /\ [Next]_vars => IInv'
<1> SUFFICES ASSUME IInv, [Next]_vars PROVE IInv'
  OBVIOUS
<1>1. CASE Tick
  <2>1. TypeOK' /\ LockInv' /\ TokenInv'
    BY <1>1, Types DEF IInv, TypeOK, LockInv, TokenInv, Tick
  <2>2. DueInv'
    BY <1>1, Types DEF IInv, DueInv, Tick
  <2> QED
    BY <2>1, <2>2 DEF IInv
<1>2. CASE UNCHANGED vars
  BY <1>2 DEF vars, IInv, TypeOK, LockInv, TokenInv, DueInv
<1> QED
  BY <1>1, <1>2, QuietSteps, StoreStep, InvalidateStep DEF Next

(* At first nothing is cached and nobody calls.                            *)
LEMMA InitInv == Init => IInv
<1> SUFFICES ASSUME Init PROVE IInv
  OBVIOUS
<1>1. TypeOK
  <2>1. /\ Call("idle", 0) \in Calls
        /\ Empty \in [token: 0..MaxLogins, expires: 0..(MaxTime + CacheSeconds)]
    BY ClientAssumption DEF Call, Calls, Empty
  <2>2. 0 \in 0..MaxTime /\ 0 \in 0..MaxLogins /\ -1 \in -1..MaxTime
    BY ClientAssumption
  <2> QED
    BY <2>1, <2>2 DEF Init, TypeOK
<1>2. LockInv /\ TokenInv /\ DueInv
  BY DEF Init, LockInv, TokenInv, DueInv, Empty, Call, Holding
<1> QED
  BY <1>1, <1>2 DEF IInv

-----------------------------------------------------------------------------
(* The theorems.                                                           *)

(* The lock has one holder at every step that reads or fills the cache,    *)
(* and the cached token is one that Marzban has not refused.               *)
THEOREM Invariance == Spec => []IInv
  BY InitInv, StepInv, PTL DEF Spec

(* Type correctness.                                                       *)
THEOREM TypeCorrect == Spec => []TypeOK
<1>1. IInv => TypeOK
  BY DEF IInv
<1> QED
  BY <1>1, Invariance, PTL

(* A token whose refusal has been handled is not picked up again, by any   *)
(* number of threads: neither from the cache nor from a login.             *)
THEOREM RefusedStaysUnused == Spec => RefusedNotReused
<1>1. ASSUME IInv, [Next]_vars, NEW t \in Threads, ~At(t, "send"), At(t, "send")'
      PROVE  call'[t].token \notin refused
  <2>a. TypeOK /\ TokenInv /\ call \in [Threads -> Calls]
    BY <1>1 DEF IInv, TypeOK
  <2>b. call'[t].pc # call[t].pc /\ call'[t].pc = "send"
    BY <1>1 DEF At
  <2>1. ASSUME NEW s \in Threads, NEW label, NEW token, Goto(s, label, token)
        PROVE  s = t /\ label = "send" /\ call'[t].token = token
    BY <2>1, <2>a, <2>b DEF Goto, Call
  <2>2. PICK s \in Threads : UseCached(s) \/ Store(s)
    BY <1>1, <2>b, <2>1 DEF Next, vars, Begin, Acquire, Login, Issue,
       LoginFails, Answer, Refuse, Invalidate, Return, Tick
  <2>3. CASE UseCached(s)
    BY <2>1, <2>3, <2>a DEF UseCached, TokenInv
  <2>4. CASE Store(s)
    BY <2>1, <2>4, <2>a DEF Store, TokenInv, At
  <2> QED
    BY <2>2, <2>3, <2>4
<1>2. IInv /\ [Next]_vars =>
        [\A t \in Threads :
           ~At(t, "send") /\ At(t, "send")' => call'[t].token \notin refused]_vars
  BY <1>1
<1> QED
  BY <1>2, Invariance, PTL DEF Spec, RefusedNotReused

(* However many threads find the cache unusable at once, the cache is      *)
(* refilled once per period, unless a refusal has emptied it.              *)
THEOREM LoginsOnlyWhenDue == Spec => LoginsAreDue
<1>1. ASSUME IInv, [Next]_vars, stored' # stored, stored # -1
      PROVE  dropped \/ stored' >= stored + CacheSeconds
  <2>1. PICK t \in Threads : Store(t)
    BY <1>1 DEF Next, vars, Begin, Acquire, UseCached, Login, Issue,
       LoginFails, Answer, Refuse, Invalidate, Tick
  <2> QED
    BY <1>1, <2>1 DEF IInv, DueInv, Store, At
<1>2. IInv /\ [Next]_vars =>
        [stored' # stored /\ stored # -1 =>
           dropped \/ stored' >= stored + CacheSeconds]_vars
  BY <1>1
<1> QED
  BY <1>2, Invariance, PTL DEF Spec, LoginsAreDue

=============================================================================
