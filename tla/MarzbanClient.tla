---------------------------- MODULE MarzbanClient ----------------------------
(***************************************************************************)
(* The admin token of MarzbanClient, shared by the threads that serve      *)
(* requests.  One non-reentrant lock protects the cached token, and is     *)
(* held across the HTTP request that logs in to Marzban; the request made  *)
(* with the token runs without the lock.                                   *)
(*                                                                         *)
(* A token is the number of the login that issued it.  What Marzban        *)
(* answers is free: it may refuse a token at any time.                     *)
(***************************************************************************)
EXTENDS Integers

CONSTANTS
    Threads,
    Nobody,        \* holder of a free lock
    CacheSeconds,  \* marzban_admin_token_cache_seconds, in ticks
    MaxLogins,     \* bound: logins that Marzban answers with a token
    MaxTime        \* bound: the clock stops here

ASSUME ClientAssumption ==
    /\ Nobody \notin Threads
    /\ CacheSeconds \in Nat \ {0}
    /\ MaxLogins \in Nat
    /\ MaxTime \in Nat

VARIABLES
    now,      \* unix_timestamp_now()
    lock,     \* holder of the client's lock, or Nobody
    cached,   \* token and end of its use; token 0 when there is none
    issued,   \* how many logins Marzban has answered
    call,     \* control point and token of every thread
    stored,   \* history: when a token was last put in the cache, -1 if never
    dropped,  \* history: a refusal has emptied the cache since then
    refused   \* history: the tokens whose refusal has been handled

vars == <<now, lock, cached, issued, call, stored, dropped, refused>>

Tokens == 1..MaxLogins
Holding == {"check", "login", "issued"}
Calls == [pc: {"idle", "begun", "send", "refused"} \union Holding,
          token: 0..MaxLogins]

TypeOK ==
    /\ now \in 0..MaxTime
    /\ lock \in Threads \union {Nobody}
    /\ cached \in [token: 0..MaxLogins, expires: 0..(MaxTime + CacheSeconds)]
    /\ issued \in 0..MaxLogins
    /\ call \in [Threads -> Calls]
    /\ stored \in -1..MaxTime
    /\ dropped \in BOOLEAN
    /\ refused \subseteq Tokens

Call(label, token) == [pc |-> label, token |-> token]
Empty == [token |-> 0, expires |-> 0]

Init ==
    /\ now = 0
    /\ lock = Nobody
    /\ cached = Empty
    /\ issued = 0
    /\ call = [t \in Threads |-> Call("idle", 0)]
    /\ stored = -1
    /\ dropped = FALSE
    /\ refused = {}

At(t, label) == call[t].pc = label
Goto(t, label, token) == call' = [call EXCEPT ![t] = Call(label, token)]
Return(t) == Goto(t, "idle", 0)

Usable == cached.token # 0 /\ cached.expires > now

-----------------------------------------------------------------------------
(* Faulty variants, see the properties below.                              *)

(* The seconds of the setting are taken for minutes.                       *)
LongStore(t) ==
    /\ At(t, "issued")
    /\ cached' = [token |-> call[t].token, expires |-> now + 60 * CacheSeconds]
    /\ stored' = now
    /\ dropped' = FALSE
    /\ Goto(t, "send", call[t].token)
    /\ lock' = Nobody
    /\ UNCHANGED <<now, issued, refused>>

(* The lock is given up while the login is under way.                      *)
UnlockedLogin(t) ==
    /\ At(t, "check")
    /\ ~Usable
    /\ Goto(t, "login", 0)
    /\ lock' = Nobody
    /\ UNCHANGED <<now, cached, issued, stored, dropped, refused>>

(* The login is made as any other request: its 401 enters                  *)
(* _invalidate_cached_token, which waits for the lock its caller holds.    *)
AuthenticatedLoginFails(t) ==
    /\ At(t, "login") \/ At(t, "issued")
    /\ Goto(t, "refused", 0)
    /\ UNCHANGED <<now, lock, cached, issued, stored, dropped, refused>>

(* The refusal is reported, but the refused token stays in the cache.      *)
ForgetfulInvalidate(t) ==
    /\ At(t, "refused")
    /\ lock = Nobody
    /\ refused' = refused \union {call[t].token}
    /\ Return(t)
    /\ UNCHANGED <<now, lock, cached, issued, stored, dropped>>

-----------------------------------------------------------------------------

(* get_user, create_user or update_user is called.                         *)
Begin(t) ==
    /\ At(t, "idle")
    /\ Goto(t, "begun", 0)
    /\ UNCHANGED <<now, lock, cached, issued, stored, dropped, refused>>

Acquire(t) ==
    /\ At(t, "begun")
    /\ lock = Nobody
    /\ lock' = t
    /\ Goto(t, "check", 0)
    /\ UNCHANGED <<now, cached, issued, stored, dropped, refused>>

UseCached(t) ==
    /\ At(t, "check")
    /\ Usable
    /\ Goto(t, "send", cached.token)
    /\ lock' = Nobody
    /\ UNCHANGED <<now, cached, issued, stored, dropped, refused>>

Login(t) ==
    /\ At(t, "check")
    /\ ~Usable
    /\ Goto(t, "login", 0)
    /\ UNCHANGED <<now, lock, cached, issued, stored, dropped, refused>>

(* Marzban answers POST /api/admin/token with a token.                     *)
Issue(t) ==
    /\ At(t, "login")
    /\ issued < MaxLogins
    /\ issued' = issued + 1
    /\ Goto(t, "issued", issued + 1)
    /\ UNCHANGED <<now, lock, cached, stored, dropped, refused>>

(* The answer arrives; the use of the token is counted from here.          *)
Store(t) ==
    /\ At(t, "issued")
    /\ cached' = [token |-> call[t].token, expires |-> now + CacheSeconds]
    /\ stored' = now
    /\ dropped' = FALSE
    /\ Goto(t, "send", call[t].token)
    /\ lock' = Nobody
    /\ UNCHANGED <<now, issued, refused>>

(* Wrong credentials, a server error, a time-out before or after Marzban   *)
(* has issued the token, or a body without one: every exception leaves     *)
(* the locked block, and the caller gets it.                               *)
LoginFails(t) ==
    /\ At(t, "login") \/ At(t, "issued")
    /\ Return(t)
    /\ lock' = Nobody
    /\ UNCHANGED <<now, cached, issued, stored, dropped, refused>>

(* Any answer but a refusal, or none in time.                              *)
Answer(t) ==
    /\ At(t, "send")
    /\ Return(t)
    /\ UNCHANGED <<now, lock, cached, issued, stored, dropped, refused>>

Refuse(t) ==
    /\ At(t, "send")
    /\ Goto(t, "refused", call[t].token)
    /\ UNCHANGED <<now, lock, cached, issued, stored, dropped, refused>>

(* Whatever token is cached by then is dropped, a newer one included.      *)
Invalidate(t) ==
    /\ At(t, "refused")
    /\ lock = Nobody
    /\ cached' = Empty
    /\ dropped' = TRUE
    /\ refused' = refused \union {call[t].token}
    /\ Return(t)
    /\ UNCHANGED <<now, lock, issued, stored>>

Tick ==
    /\ now < MaxTime
    /\ now' = now + 1
    /\ UNCHANGED <<lock, cached, issued, call, stored, dropped, refused>>

Next ==
    \/ \E t \in Threads : \/ Begin(t) \/ Acquire(t) \/ UseCached(t)
                          \/ Login(t) \/ Issue(t) \/ Store(t) \/ LoginFails(t)
                          \/ Answer(t) \/ Refuse(t) \/ Invalidate(t)
    \/ Tick

Spec == Init /\ [][Next]_vars

(* A request to Marzban is answered or times out; a threading.Lock serves  *)
(* its waiters in the end.                                                 *)
Fairness ==
    \A t \in Threads :
      /\ WF_vars(UseCached(t) \/ Login(t) \/ Store(t) \/ LoginFails(t))
      /\ WF_vars(Answer(t) \/ Refuse(t))
      /\ SF_vars(Acquire(t))
      /\ SF_vars(Invalidate(t))

FairSpec == Spec /\ Fairness

-----------------------------------------------------------------------------
(* What the client promises.                                               *)

(* Once a refusal has been handled, no call picks that token again: a      *)
(* login under way cannot bring it back, since both hold the lock.         *)
RefusedNotReused ==
    [][\A t \in Threads :
         ~At(t, "send") /\ At(t, "send")' => call'[t].token \notin refused]_vars

(* Marzban is asked for a token once per cache period, however many        *)
(* threads need one at the same time; only a refused request since then    *)
(* makes another login due.  A late refusal that drops a newer token costs *)
(* one login and no more.                                                  *)
LoginsAreDue ==
    [][stored' # stored /\ stored # -1 =>
         dropped \/ stored' >= stored + CacheSeconds]_vars

(* Every call ends: no path keeps the lock or waits for it while holding   *)
(* it.                                                                     *)
CallsEnd == \A t \in Threads : At(t, "begun") ~> At(t, "idle")
=============================================================================
