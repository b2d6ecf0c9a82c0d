------------------------------ MODULE AuthFlow ------------------------------
(***************************************************************************)
(* One-time-code sign-in of the BFF: AuthService.start_auth, verify_auth   *)
(* and cleanup_expired_auth_data, run concurrently by FastAPI's thread     *)
(* pool against the default SQLite database.                               *)
(*                                                                         *)
(* Every HTTP request is a process with one database session.  A SELECT    *)
(* outside a transaction reads the committed tables and takes no lock.     *)
(* The first INSERT, UPDATE or DELETE of a transaction takes SQLite's only *)
(* write lock, which is kept until the commit or the rollback; a request   *)
(* that finds the lock taken waits, and fails when its busy timeout runs   *)
(* out.  One action is what a request does between two points where the    *)
(* others may intervene.                                                   *)
(*                                                                         *)
(* A challenge id and a session id are fresh random tokens, so each is     *)
(* identified with the request that generates it.                          *)
(***************************************************************************)
EXTENDS Integers, FiniteSets

CONSTANTS
    Requests,     \* HTTP requests, each served once
    Logins,       \* login names, which are also the external ids of users
    NoOne,        \* holder of a free write lock, and the login of no request
    MaxAttempts,  \* auth_verify_max_attempts
    Cooldown,     \* auth_resend_cooldown_seconds, in ticks
    TTL,          \* auth_challenge_ttl_minutes, in ticks
    MaxTime       \* bound: the clock stops here

ASSUME ConstantsAssumption ==
    /\ NoOne \notin Requests
    /\ NoOne \notin Logins
    /\ MaxAttempts \in Nat \ {0}
    /\ Cooldown \in Nat
    /\ TTL \in Nat
    /\ MaxTime \in Nat

VARIABLES
    now,        \* the wall clock
    challenge,  \* committed rows of auth_challenges, by id
    user,       \* external ids of the committed rows of users
    session,    \* committed rows of auth_sessions, by id
    writer,     \* the request in a write transaction, or NoOne
    req         \* control point and local variables of every request

vars == <<now, challenge, user, session, writer, req>>

Challenge == [login: Logins, used: BOOLEAN, failed: Nat,
              expires: Nat, created: Nat]
Session == [login: Logins, challenge: Requests]

Terminal == {"done", "refused", "wrong", "failed"}
Waiting == {"retire", "miss", "addUser", "consume", "audit", "purge"}
Active == Waiting \union {"deliver", "findUser", "link"}

Request == [pc: {"idle"} \union Active \union Terminal,
            login: Logins \union {NoOne},
            challenge: Requests,        \* the row issued or verified
            at: 0..MaxTime,             \* utcnow() when the request began
            seen: 0..MaxAttempts,       \* failed_attempts as it was read
            retire: SUBSET Requests]    \* rows its pending UPDATE marks used

TypeOK ==
    /\ now \in 0..MaxTime
    /\ DOMAIN challenge \subseteq Requests
    /\ challenge \in [DOMAIN challenge -> Challenge]
    /\ user \subseteq Logins
    /\ DOMAIN session \subseteq Requests
    /\ session \in [DOMAIN session -> Session]
    /\ writer \in Requests \union {NoOne}
    /\ req \in [Requests -> Request]

(* The local variables of a handler at a control point.                    *)
Locals(label, login, c, at, seen, retire) ==
    [pc |-> label, login |-> login, challenge |-> c,
     at |-> at, seen |-> seen, retire |-> retire]

Init ==
    /\ now = 0
    /\ challenge = [c \in {} |-> 0]
    /\ user = {}
    /\ session = [s \in {} |-> 0]
    /\ writer = NoOne
    /\ req = [r \in Requests |-> Locals("idle", NoOne, r, 0, 0, {})]

-----------------------------------------------------------------------------

At(r, label) == req[r].pc = label
Goto(r, label) == req' = [req EXCEPT ![r].pc = label]

(* The handler returns: its local variables are gone.  The challenge it    *)
(* was about stays, to tell which one a client has guessed at.             *)
Returned(r, label) == Locals(label, NoOne, req[r].challenge, 0, 0, {})
Return(r, label) == req' = [req EXCEPT ![r] = Returned(r, label)]

(* Unused and unexpired rows of a login, as a WHERE clause selects them.   *)
LiveOf(login, t) ==
    {c \in DOMAIN challenge : /\ challenge[c].login = login
                              /\ ~challenge[c].used
                              /\ challenge[c].expires >= t}

RecentOf(login, t) ==
    {c \in LiveOf(login, t) : challenge[c].created >= t - Cooldown}

(* The checks verify_auth makes on the row it has read.                    *)
Open(c) ==
    /\ c \in DOMAIN challenge
    /\ ~challenge[c].used
    /\ challenge[c].expires >= now
    /\ challenge[c].failed < MaxAttempts

(* Acquiring the write lock, and giving it back at a commit or rollback.   *)
LockFree == writer = NoOne
Release == writer' = NoOne

-----------------------------------------------------------------------------
(* Faulty variants of definitions below.  No action uses them: they show    *)
(* that the properties at the end of the module can tell a bug from the    *)
(* code.                                                                   *)

(* The rows to retire are loaded as objects and marked in memory, so that  *)
(* nothing takes the write lock before the final commit.                   *)
LazyStartRetire(r) ==
    /\ At(r, "retire")
    /\ req' = [req EXCEPT ![r] =
                 Locals("deliver", req[r].login, r, req[r].at, 0,
                        LiveOf(req[r].login, req[r].at))]
    /\ UNCHANGED <<now, challenge, user, session, writer>>

(* The UPDATE is committed before the code is delivered.                   *)
EagerStartDeliveryFails(r) ==
    /\ At(r, "deliver")
    /\ challenge' = [c \in DOMAIN challenge |->
                       [challenge[c] EXCEPT !.used = @ \/ c \in req[r].retire]]
    /\ Return(r, "failed")
    /\ Release
    /\ UNCHANGED <<now, user, session>>

(* The limit on guesses is off by one.                                     *)
LaterCountMiss(c, seen) ==
    [challenge EXCEPT ![c].failed = seen + 1,
                      ![c].used = @ \/ seen + 1 > MaxAttempts]

(* The whole row is written back as it was read, is_used included.         *)
StaleCountMiss(c, seen) ==
    [challenge EXCEPT ![c].failed = seen + 1,
                      ![c].used = seen + 1 >= MaxAttempts]

(* The session is committed when the code matches, ahead of the user and   *)
(* of is_used.                                                             *)
EarlyVerifyFindUser(r) ==
    /\ At(r, "findUser")
    /\ session' = [s \in DOMAIN session \union {r} |->
                     IF s = r
                     THEN [login |-> req[r].login, challenge |-> req[r].challenge]
                     ELSE session[s]]
    /\ Goto(r, IF req[r].login \in user THEN "consume" ELSE "addUser")
    /\ UNCHANGED <<now, challenge, user, writer>>

(* The cut-off of the cleanup lies in the future.                          *)
HastyCleanupAuth(r) ==
    /\ At(r, "idle")
    /\ req' = [req EXCEPT ![r] = Locals("purge", NoOne, r, now + TTL, 0, {})]
    /\ UNCHANGED <<now, challenge, user, session, writer>>

(* A refused INSERT of the user is retried instead of reported.            *)
RetryVerifyAddUser(r) ==
    /\ At(r, "addUser")
    /\ LockFree
    /\ req[r].login \notin user
    /\ writer' = r
    /\ Goto(r, "consume")
    /\ UNCHANGED <<now, challenge, user, session>>

-----------------------------------------------------------------------------
(* POST /auth/start                                                        *)

(* The cooldown SELECT.                                                    *)
StartAuth(r, login) ==
    /\ At(r, "idle")
    /\ \/ /\ RecentOf(login, now) = {}
          /\ req' = [req EXCEPT ![r] =
                       Locals("retire", login, r, now, 0, {})]
       \/ /\ RecentOf(login, now) # {}
          /\ Return(r, "refused")
    /\ UNCHANGED <<now, challenge, user, session, writer>>

(* The UPDATE that retires the login's live challenges.  It opens the      *)
(* write transaction, and the delivery that follows runs inside it.        *)
StartRetire(r) ==
    /\ At(r, "retire")
    /\ LockFree
    /\ writer' = r
    /\ req' = [req EXCEPT ![r] =
                 Locals("deliver", req[r].login, r, req[r].at, 0,
                        LiveOf(req[r].login, req[r].at))]
    /\ UNCHANGED <<now, challenge, user, session>>

(* The provider refuses or times out: the HTTPException leaves the handler *)
(* and closing the session rolls the UPDATE back.                          *)
StartDeliveryFails(r) ==
    /\ At(r, "deliver")
    /\ Return(r, "failed")
    /\ Release
    /\ UNCHANGED <<now, challenge, user, session>>

(* The code is sent; the UPDATE and the new row commit together.           *)
NewChallenge(r) ==
    [login |-> req[r].login, used |-> FALSE, failed |-> 0,
     expires |-> req[r].at + TTL, created |-> now]

StartCommit(r) ==
    /\ At(r, "deliver")
    /\ challenge' = [c \in DOMAIN challenge \union {r} |->
                       IF c = r THEN NewChallenge(r)
                       ELSE IF c \in req[r].retire
                            THEN [challenge[c] EXCEPT !.used = TRUE]
                            ELSE challenge[c]]
    /\ req' = [req EXCEPT ![r] =
                 Locals("audit", req[r].login, r, req[r].at, 0, {})]
    /\ Release
    /\ UNCHANGED <<now, user, session>>

-----------------------------------------------------------------------------
(* POST /auth/verify                                                       *)

(* The SELECT of the challenge and the checks made on the row it returns;  *)
(* rightCode says whether the client presents the delivered code.          *)
VerifyAuth(r, c, rightCode) ==
    /\ At(r, "idle")
    /\ \/ /\ Open(c)
          /\ req' = [req EXCEPT ![r] =
                       Locals(IF rightCode THEN "findUser" ELSE "miss",
                              challenge[c].login, c, 0, challenge[c].failed, {})]
       \/ /\ ~Open(c)
          /\ Return(r, "refused")
    /\ UNCHANGED <<now, challenge, user, session, writer>>

(* A wrong code: the attempt is counted from the value read before, and    *)
(* only the columns that changed are written.  A row deleted meanwhile is  *)
(* a StaleDataError.                                                       *)
CountMiss(c, seen) ==
    [challenge EXCEPT ![c].failed = seen + 1,
                      ![c].used = @ \/ seen + 1 >= MaxAttempts]

VerifyMiss(r) ==
    LET c == req[r].challenge IN
    /\ At(r, "miss")
    /\ LockFree
    /\ \/ /\ c \in DOMAIN challenge
          /\ challenge' = CountMiss(c, req[r].seen)
          /\ Return(r, "wrong")
       \/ /\ c \notin DOMAIN challenge
          /\ Return(r, "failed")
          /\ UNCHANGED challenge
    /\ UNCHANGED <<now, user, session, writer>>

VerifyFindUser(r) ==
    /\ At(r, "findUser")
    /\ Goto(r, IF req[r].login \in user THEN "consume" ELSE "addUser")
    /\ UNCHANGED <<now, challenge, user, session, writer>>

(* db.flush() of the new user opens the write transaction.  The unique     *)
(* index on external_id refuses a user committed since the SELECT.         *)
VerifyAddUser(r) ==
    /\ At(r, "addUser")
    /\ LockFree
    /\ \/ /\ req[r].login \notin user
          /\ writer' = r
          /\ Goto(r, "consume")
       \/ /\ req[r].login \in user
          /\ Return(r, "failed")
          /\ UNCHANGED writer
    /\ UNCHANGED <<now, challenge, user, session>>

(* One commit marks the challenge used and inserts the session, and the    *)
(* user when this request created it.                                      *)
VerifyConsume(r) ==
    LET c == req[r].challenge IN
    /\ At(r, "consume")
    /\ writer \in {NoOne, r}
    /\ Release
    /\ \/ /\ c \in DOMAIN challenge
          /\ challenge' = [challenge EXCEPT ![c].used = TRUE]
          /\ user' = user \union {req[r].login}
          /\ session' = [s \in DOMAIN session \union {r} |->
                           IF s = r
                           THEN [login |-> req[r].login, challenge |-> c]
                           ELSE session[s]]
          /\ Goto(r, "link")
       \/ /\ c \notin DOMAIN challenge
          /\ Return(r, "failed")
          /\ UNCHANGED <<challenge, user, session>>
    /\ UNCHANGED now

(* Linking the Marzban account: its exceptions are swallowed, but one that *)
(* leaves the database session unusable surfaces in the next statement.    *)
VerifyLink(r) ==
    /\ At(r, "link")
    /\ \/ Goto(r, "audit")
       \/ Return(r, "failed")
    /\ UNCHANGED <<now, challenge, user, session, writer>>

-----------------------------------------------------------------------------
(* POST /internal/maintenance/cleanup-auth                                 *)

CleanupAuth(r) ==
    /\ At(r, "idle")
    /\ req' = [req EXCEPT ![r] = Locals("purge", NoOne, r, now, 0, {})]
    /\ UNCHANGED <<now, challenge, user, session, writer>>

CleanupCommit(r) ==
    LET kept == {c \in DOMAIN challenge : challenge[c].expires >= req[r].at} IN
    /\ At(r, "purge")
    /\ LockFree
    /\ challenge' = [c \in kept |-> challenge[c]]
    /\ Return(r, "done")
    /\ UNCHANGED <<now, user, session, writer>>

-----------------------------------------------------------------------------
(* Steps common to the handlers, and the environment.                      *)

(* audit_service.log: a transaction of its own, after the main commit.     *)
AuditCommit(r) ==
    /\ At(r, "audit")
    /\ LockFree
    /\ Return(r, "done")
    /\ UNCHANGED <<now, challenge, user, session, writer>>

(* "database is locked": the busy timeout of a waiting request runs out.   *)
LockTimeout(r) ==
    /\ req[r].pc \in Waiting
    /\ writer \notin {NoOne, r}
    /\ Return(r, "failed")
    /\ UNCHANGED <<now, challenge, user, session, writer>>

(* The server process dies: requests in flight are lost, and their open    *)
(* transactions with them.  Committed rows survive.                        *)
Restart ==
    /\ \E r \in Requests : req[r].pc \in Active
    /\ req' = [r \in Requests |->
                 IF req[r].pc \in Active THEN Returned(r, "failed") ELSE req[r]]
    /\ Release
    /\ UNCHANGED <<now, challenge, user, session>>

Tick ==
    /\ now < MaxTime
    /\ now' = now + 1
    /\ UNCHANGED <<challenge, user, session, writer, req>>

-----------------------------------------------------------------------------

Arrive(r) ==
    \/ \E login \in Logins : StartAuth(r, login)
    \/ \E c \in Requests, rightCode \in BOOLEAN : VerifyAuth(r, c, rightCode)
    \/ CleanupAuth(r)

Step(r) ==
    \/ StartRetire(r)
    \/ StartDeliveryFails(r)
    \/ StartCommit(r)
    \/ VerifyMiss(r)
    \/ VerifyFindUser(r)
    \/ VerifyAddUser(r)
    \/ VerifyConsume(r)
    \/ VerifyLink(r)
    \/ CleanupCommit(r)
    \/ AuditCommit(r)
    \/ LockTimeout(r)

Next ==
    \/ \E r \in Requests : Arrive(r) \/ Step(r)
    \/ Restart
    \/ Tick

Spec == Init /\ [][Next]_vars

(* A thread that can take a step takes it: network calls of the delivery   *)
(* and of the link have timeouts, and so does waiting for the lock.        *)
Fairness == \A r \in Requests : WF_vars(Step(r))

FairSpec == Spec /\ Fairness
-----------------------------------------------------------------------------
(* What the service promises.                                              *)

(* A login has at most one challenge that verify would still accept: the   *)
(* UPDATE and the INSERT of start_auth are one transaction, whatever other *)
(* starts, verifies and cleanups do meanwhile.                             *)
OneLiveChallenge ==
    \A login \in Logins : \A c, d \in LiveOf(login, now) : c = d

(* Wrong answers lock a challenge: the counter never passes the maximum,   *)
(* and at the maximum the row is used, although verify_auth computes the   *)
(* counter from a value that other requests may have changed.              *)
LockedAtMaximum ==
    \A c \in DOMAIN challenge :
        /\ challenge[c].failed <= MaxAttempts
        /\ challenge[c].failed = MaxAttempts => challenge[c].used

(* A session belongs to an existing user, and comes from a challenge of    *)
(* that login which is spent (or already cleaned up).                      *)
SessionsAreBacked ==
    \A s \in DOMAIN session :
        LET c == session[s].challenge IN
        /\ session[s].login \in user
        /\ c \in DOMAIN challenge => /\ challenge[c].used
                                     /\ challenge[c].login = session[s].login

(* Only a request that still has work to do holds the write lock: no error *)
(* path leaves the database locked for everybody.                          *)
WriterIsWorking ==
    \A r \in Requests : writer = r => req[r].pc \in {"deliver", "consume"}

(* A spent challenge is never accepted again: no handler writes an old     *)
(* value of is_used back.                                                  *)
SpentStaysSpent ==
    [][\A c \in DOMAIN challenge :
         challenge[c].used /\ c \in DOMAIN challenge' => challenge'[c].used]_vars

(* A challenge the user may be about to type is only taken away for a      *)
(* reason: a newer one of the login replaces it, it buys a session, its    *)
(* guesses are exhausted, or it had expired.  A start whose delivery fails *)
(* takes nothing away.                                                     *)
EndsForCause ==
    [][\A c \in DOMAIN challenge :
         ~challenge[c].used =>
           \/ c \notin DOMAIN challenge' /\ challenge[c].expires < now
           \/ /\ c \in DOMAIN challenge'
              /\ \/ ~challenge'[c].used
                 \/ \E d \in DOMAIN challenge' \ DOMAIN challenge :
                        challenge'[d].login = challenge[c].login
                 \/ \E s \in DOMAIN session' \ DOMAIN session :
                        session'[s].challenge = c
                 \/ challenge'[c].failed = MaxAttempts]_vars

(* Every request is answered, also those that wait for the lock while a    *)
(* slow delivery holds it.                                                 *)
RequestsEnd ==
    \A r \in Requests : req[r].pc \in Active ~> req[r].pc \in Terminal

(* Documented (README.md:109, docs/API.md:37): at most MaxAttempts guesses *)
(* are evaluated per challenge.                                            *)
GuessesBounded ==
    \A c \in Requests :
        Cardinality({r \in Requests : At(r, "wrong") /\ req[r].challenge = c})
            <= MaxAttempts

(* Documented (README.md:110, docs/API.md:38): a login is not sent a second *)
(* code within the cooldown, unless a verify has spent the first.          *)
ResendThrottled ==
    \A c, d \in DOMAIN challenge :
        \/ c = d
        \/ challenge[c].login # challenge[d].login
        \/ challenge[c].created > challenge[d].created + Cooldown
        \/ challenge[d].created > challenge[c].created + Cooldown
        \/ \E s \in DOMAIN session : session[s].challenge \in {c, d}
        \/ \E e \in {c, d} : challenge[e].failed = MaxAttempts
=============================================================================
