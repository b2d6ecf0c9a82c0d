--------------------------- MODULE AuthFlow_proofs ---------------------------
(***************************************************************************)
(* Proofs about AuthFlow, for any number of requests and logins and any    *)
(* limits.  IInv is the inductive strengthening of the safety properties:  *)
(* it adds to them what requests between two steps rely on.                *)
(***************************************************************************)
EXTENDS AuthFlow, TLAPS

(* Ids of challenges that start_auth has not inserted yet.                 *)
Fresh(r) == req[r].pc \in {"idle", "retire", "deliver"}

(* Verifies that hold a challenge read earlier.                            *)
Verifying(r) == req[r].pc \in {"miss", "findUser", "addUser", "consume"}

(* The lock protects the window between the UPDATE and the commit.         *)
LockInv ==
    \A r \in Requests : At(r, "deliver") => writer = r

(* While a code is being delivered, every challenge of the login that      *)
(* verify would accept is about to be retired.                             *)
RetireInv ==
    \A r \in Requests : At(r, "deliver") =>
        LiveOf(req[r].login, req[r].at) \subseteq req[r].retire

(* A request read the clock, its login and a counter below the maximum.    *)
LocalsOf(r) ==
    /\ req[r].at <= now
    /\ req[r].pc \in {"retire", "deliver", "miss", "findUser", "addUser", "consume"}
         => req[r].login \in Logins
    /\ At(r, "miss") => req[r].seen < MaxAttempts

LocalsInv == \A r \in Requests : LocalsOf(r)

(* Nothing refers to a challenge before it is inserted.                    *)
FreshInv ==
    /\ \A r \in Requests : Fresh(r) => r \notin DOMAIN challenge
    /\ \A r \in Requests : Verifying(r) => ~Fresh(req[r].challenge)
    /\ \A s \in DOMAIN session : ~Fresh(session[s].challenge)

(* The row a verify holds keeps its login.                                 *)
TargetInv ==
    \A r \in Requests :
        Verifying(r) /\ req[r].challenge \in DOMAIN challenge =>
            challenge[req[r].challenge].login = req[r].login

(* The pending UPDATE only covers rows of the login it is for.             *)
RetiredInv ==
    \A r \in Requests : At(r, "deliver") =>
        \A c \in req[r].retire \cap DOMAIN challenge :
            challenge[c].login = req[r].login

(* A request inserts its session once: afterwards it only links and logs.  *)
Opened(r) == req[r].pc \in {"link", "audit"} \union Terminal

OpenedInv == \A s \in DOMAIN session : Opened(s)

IInv ==
    /\ TypeOK
    /\ WriterIsWorking
    /\ LockInv
    /\ LocalsInv
    /\ RetireInv
    /\ FreshInv
    /\ TargetInv
    /\ RetiredInv
    /\ OpenedInv
    /\ OneLiveChallenge
    /\ LockedAtMaximum
    /\ SessionsAreBacked

-----------------------------------------------------------------------------
(* Moving to another control point changes nothing else.                   *)
LEMMA GotoLocals ==
    ASSUME NEW r \in Requests, NEW label, req \in [Requests -> Request],
           Goto(r, label)
    PROVE  /\ req'[r] = Locals(label, req[r].login, req[r].challenge, req[r].at,
                               req[r].seen, req[r].retire)
           /\ \A q \in Requests : q # r => req'[q] = req[q]
  BY DEF Goto, Locals, Request

(* A handler that returned refers to its challenge and to nothing else.    *)
LEMMA ReturnLocals ==
    ASSUME NEW r \in Requests, NEW label, req \in [Requests -> Request],
           Return(r, label)
    PROVE  /\ req'[r] = Locals(label, NoOne, req[r].challenge, 0, 0, {})
           /\ \A q \in Requests : q # r => req'[q] = req[q]
  BY DEF Return, Returned

(* Both keep the local variables of all requests within their types.       *)
LEMMA GotoTypes ==
    ASSUME NEW r \in Requests, NEW label \in Active,
           req \in [Requests -> Request], Goto(r, label)
    PROVE  req' \in [Requests -> Request]
<1>1. [req[r] EXCEPT !.pc = label] \in Request
  BY DEF Request
<1> QED
  BY <1>1 DEF Goto

LEMMA ReturnTypes ==
    ASSUME NEW r \in Requests, NEW label \in Terminal,
           req \in [Requests -> Request], Return(r, label)
    PROVE  req' \in [Requests -> Request]
<1>1. Returned(r, label) \in Request
  BY ConstantsAssumption DEF Request, Returned, Locals
<1> QED
  BY <1>1 DEF Return

-----------------------------------------------------------------------------
(* Type correctness: every handler keeps the tables and its own variables  *)
(* within their types.                                                     *)
LEMMA TypeStep == TypeOK /\ LocalsInv /\ [Next]_vars => TypeOK'
<1> SUFFICES ASSUME TypeOK, LocalsInv, [Next]_vars PROVE TypeOK'
  OBVIOUS
<1> USE ConstantsAssumption
        DEF TypeOK, Challenge, Session, Request, Active, Waiting, Terminal,
            At, Goto, Return, Returned, Locals, LiveOf
<1>used. \A row \in Challenge : [row EXCEPT !.used = TRUE] \in Challenge
  OBVIOUS
<1>1. ASSUME NEW r \in Requests, NEW login \in Logins, StartAuth(r, login)
      PROVE  TypeOK'
  BY <1>1 DEF StartAuth
<1>2. ASSUME NEW r \in Requests, NEW c \in Requests,
             NEW rightCode \in BOOLEAN, VerifyAuth(r, c, rightCode)
      PROVE  TypeOK'
  BY <1>2 DEF VerifyAuth, Open
<1>3. ASSUME NEW r \in Requests, CleanupAuth(r)
      PROVE  TypeOK'
  BY <1>3 DEF CleanupAuth
<1>4. ASSUME NEW r \in Requests, StartRetire(r)
      PROVE  TypeOK'
  BY <1>4 DEF StartRetire, LockFree
<1>5. ASSUME NEW r \in Requests, StartDeliveryFails(r)
      PROVE  TypeOK'
  BY <1>5 DEF StartDeliveryFails, Release
<1>6. ASSUME NEW r \in Requests, StartCommit(r)
      PROVE  TypeOK'
  <2>1. NewChallenge(r) \in Challenge
    <3>1. req[r].login \in Logins
      BY <1>6 DEF StartCommit, LocalsInv, LocalsOf
    <3>2. req[r].at + TTL \in Nat /\ now \in Nat
      OBVIOUS
    <3> QED
      BY <3>1, <3>2 DEF NewChallenge
  <2>2. challenge' \in [DOMAIN challenge \union {r} -> Challenge]
    BY <1>6, <2>1, <1>used DEF StartCommit
  <2>3. DOMAIN challenge' = DOMAIN challenge \union {r}
    BY <1>6 DEF StartCommit
  <2>4. req' \in [Requests -> Request]
    BY <1>6 DEF StartCommit
  <2> QED
    BY <1>6, <2>2, <2>3, <2>4 DEF StartCommit, Release
<1>7. ASSUME NEW r \in Requests, VerifyMiss(r)
      PROVE  TypeOK'
  <2> DEFINE c == req[r].challenge
  <2>1. CASE c \in DOMAIN challenge
    <3>1. challenge' \in [DOMAIN challenge -> Challenge]
      BY <1>7, <2>1 DEF VerifyMiss, CountMiss
    <3> QED
      BY <1>7, <3>1 DEF VerifyMiss, LockFree
  <2>2. CASE c \notin DOMAIN challenge
    BY <1>7, <2>2 DEF VerifyMiss, LockFree
  <2> QED
    BY <2>1, <2>2
<1>8. ASSUME NEW r \in Requests, VerifyFindUser(r)
      PROVE  TypeOK'
  BY <1>8 DEF VerifyFindUser
<1>9. ASSUME NEW r \in Requests, VerifyAddUser(r)
      PROVE  TypeOK'
  <2>1. req' \in [Requests -> Request]
    <3>1. CASE Goto(r, "consume")
      BY <3>1, GotoTypes
    <3>2. CASE Return(r, "failed")
      BY <3>2, ReturnTypes
    <3> QED
      BY <1>9, <3>1, <3>2 DEF VerifyAddUser
  <2> QED
    BY <1>9, <2>1 DEF VerifyAddUser, LockFree
<1>10. ASSUME NEW r \in Requests, VerifyConsume(r)
      PROVE  TypeOK'
  <2> DEFINE c == req[r].challenge
  <2>1. CASE c \in DOMAIN challenge
    <3>1. challenge' \in [DOMAIN challenge -> Challenge]
      <4>1. challenge' = [challenge EXCEPT ![c] = [challenge[c] EXCEPT !.used = TRUE]]
        BY <1>10, <2>1 DEF VerifyConsume
      <4>2. [challenge[c] EXCEPT !.used = TRUE] \in Challenge
        BY <2>1, <1>used
      <4> QED
        BY <4>1, <4>2
    <3>2. req[r].login \in Logins
      BY <1>10 DEF VerifyConsume, LocalsInv, LocalsOf
    <3>3. req' \in [Requests -> Request]
      <4>1. Goto(r, "link")
        BY <1>10, <2>1 DEF VerifyConsume
      <4> QED
        BY <4>1, GotoTypes
    <3>4. session' \in [DOMAIN session \union {r} -> Session]
      <4>1. [login |-> req[r].login, challenge |-> c] \in Session
        BY <3>2
      <4>2. session' = [s \in DOMAIN session \union {r} |->
                          IF s = r
                          THEN [login |-> req[r].login, challenge |-> c]
                          ELSE session[s]]
        BY <1>10, <2>1 DEF VerifyConsume
      <4> QED
        BY <4>1, <4>2
    <3> QED
      BY <1>10, <2>1, <3>1, <3>2, <3>3, <3>4 DEF VerifyConsume, Release
  <2>2. CASE c \notin DOMAIN challenge
    BY <1>10, <2>2 DEF VerifyConsume, Release
  <2> QED
    BY <2>1, <2>2
<1>11. ASSUME NEW r \in Requests, VerifyLink(r)
      PROVE  TypeOK'
  BY <1>11 DEF VerifyLink
<1>12. ASSUME NEW r \in Requests, CleanupCommit(r)
      PROVE  TypeOK'
  BY <1>12 DEF CleanupCommit, LockFree
<1>13. ASSUME NEW r \in Requests, AuditCommit(r)
      PROVE  TypeOK'
  BY <1>13 DEF AuditCommit, LockFree
<1>14. ASSUME NEW r \in Requests, LockTimeout(r)
      PROVE  TypeOK'
  BY <1>14 DEF LockTimeout
<1>15. CASE Restart
  BY <1>15 DEF Restart, Release
<1>16. CASE Tick
  BY <1>16 DEF Tick
<1>17. CASE UNCHANGED vars
  BY <1>17 DEF vars
<1> QED
  BY <1>1, <1>2, <1>3, <1>4, <1>5, <1>6, <1>7, <1>8, <1>9, <1>10, <1>11, <1>12, <1>13, <1>14, <1>15, <1>16, <1>17 DEF Next, Arrive, Step

(* What a handler keeps in its variables stays true of the clock.          *)
LEMMA LocalsStep == TypeOK /\ LocalsInv /\ [Next]_vars => LocalsInv'
<1> SUFFICES ASSUME TypeOK, LocalsInv, [Next]_vars, NEW q \in Requests
             PROVE  LocalsOf(q)'
  BY DEF LocalsInv
<1>a. req \in [Requests -> Request] /\ now \in Nat
  BY ConstantsAssumption DEF TypeOK
<1>b. \A r \in Requests : LocalsOf(r)
  BY DEF LocalsInv
<1>c. \A r \in Requests : req[r].at \in Nat
  BY <1>a, ConstantsAssumption DEF Request
<1> USE <1>a, <1>b, <1>c DEF LocalsOf, Request, At, Goto, Return, Returned, Locals
<1>1. ASSUME NEW r \in Requests, NEW login \in Logins,
             StartAuth(r, login)
      PROVE  LocalsOf(q)'
  BY <1>1 DEF StartAuth
<1>2. ASSUME NEW r \in Requests, NEW c \in Requests, NEW rightCode \in BOOLEAN,
             VerifyAuth(r, c, rightCode)
      PROVE  LocalsOf(q)'
  <2>1. CASE Open(c)
    <3>1. challenge[c].login \in Logins /\ challenge[c].failed < MaxAttempts
      BY <2>1 DEF Open, TypeOK, Challenge
    <3> QED
      BY <1>2, <2>1, <3>1 DEF VerifyAuth
  <2>2. CASE ~Open(c)
    BY <1>2, <2>2 DEF VerifyAuth
  <2> QED
    BY <2>1, <2>2
<1>3. ASSUME NEW r \in Requests, CleanupAuth(r)
      PROVE  LocalsOf(q)'
  BY <1>3 DEF CleanupAuth
<1>4. ASSUME NEW r \in Requests, StartRetire(r)
      PROVE  LocalsOf(q)'
  BY <1>4 DEF StartRetire, LockFree
<1>5. ASSUME NEW r \in Requests, StartDeliveryFails(r)
      PROVE  LocalsOf(q)'
  BY <1>5 DEF StartDeliveryFails, Release
<1>6. ASSUME NEW r \in Requests, StartCommit(r)
      PROVE  LocalsOf(q)'
  BY <1>6 DEF StartCommit, NewChallenge, Release
<1>7. ASSUME NEW r \in Requests, VerifyMiss(r)
      PROVE  LocalsOf(q)'
  BY <1>7 DEF VerifyMiss, CountMiss, LockFree
<1>8. ASSUME NEW r \in Requests, VerifyFindUser(r)
      PROVE  LocalsOf(q)'
  BY <1>8 DEF VerifyFindUser
<1>9. ASSUME NEW r \in Requests, VerifyAddUser(r)
      PROVE  LocalsOf(q)'
  BY <1>9 DEF VerifyAddUser, LockFree
<1>10. ASSUME NEW r \in Requests, VerifyConsume(r)
      PROVE  LocalsOf(q)'
  BY <1>10 DEF VerifyConsume, Release
<1>11. ASSUME NEW r \in Requests, VerifyLink(r)
      PROVE  LocalsOf(q)'
  BY <1>11 DEF VerifyLink
<1>12. ASSUME NEW r \in Requests, CleanupCommit(r)
      PROVE  LocalsOf(q)'
  BY <1>12 DEF CleanupCommit, LockFree
<1>13. ASSUME NEW r \in Requests, AuditCommit(r)
      PROVE  LocalsOf(q)'
  BY <1>13 DEF AuditCommit, LockFree
<1>14. ASSUME NEW r \in Requests, LockTimeout(r)
      PROVE  LocalsOf(q)'
  BY <1>14 DEF LockTimeout
<1>15. CASE Restart
  BY <1>15 DEF Restart, Active, Waiting
<1>16. CASE Tick
  BY <1>16 DEF Tick
<1>17. CASE UNCHANGED vars
  BY <1>17 DEF vars
<1> QED
  BY <1>1, <1>2, <1>3, <1>4, <1>5, <1>6, <1>7, <1>8, <1>9, <1>10, <1>11,
     <1>12, <1>13, <1>14, <1>15, <1>16, <1>17
  DEF Next, Arrive, Step

(* The lock is held by exactly the requests between their first write and  *)
(* their commit; a delivery always holds it.                               *)
LEMMA LockStep ==
    TypeOK /\ WriterIsWorking /\ LockInv /\ [Next]_vars
        => WriterIsWorking' /\ LockInv'
<1> SUFFICES ASSUME TypeOK, WriterIsWorking, LockInv, [Next]_vars,
                    NEW q \in Requests
             PROVE  /\ writer' = q => req'[q].pc \in {"deliver", "consume"}
                    /\ req'[q].pc = "deliver" => writer' = q
  BY DEF WriterIsWorking, LockInv, At
<1> DEFINE Goal == /\ writer' = q => req'[q].pc \in {"deliver", "consume"}
                   /\ req'[q].pc = "deliver" => writer' = q
<1> USE ConstantsAssumption
        DEF TypeOK, Request, WriterIsWorking, LockInv, At, Goto, Return,
            Returned, Locals
<1>1. ASSUME NEW r \in Requests, NEW login \in Logins,
             StartAuth(r, login)
      PROVE  Goal
  BY <1>1 DEF StartAuth
<1>2. ASSUME NEW r \in Requests, NEW c \in Requests, NEW rightCode \in BOOLEAN,
             VerifyAuth(r, c, rightCode)
      PROVE  Goal
  BY <1>2 DEF VerifyAuth, Open
<1>3. ASSUME NEW r \in Requests, CleanupAuth(r)
      PROVE  Goal
  BY <1>3 DEF CleanupAuth
<1>4. ASSUME NEW r \in Requests, StartRetire(r)
      PROVE  Goal
  BY <1>4 DEF StartRetire, LockFree
<1>5. ASSUME NEW r \in Requests, StartDeliveryFails(r)
      PROVE  Goal
  BY <1>5 DEF StartDeliveryFails, Release
<1>6. ASSUME NEW r \in Requests, StartCommit(r)
      PROVE  Goal
  BY <1>6 DEF StartCommit, NewChallenge, Release
<1>7. ASSUME NEW r \in Requests, VerifyMiss(r)
      PROVE  Goal
  BY <1>7 DEF VerifyMiss, CountMiss, LockFree
<1>8. ASSUME NEW r \in Requests, VerifyFindUser(r)
      PROVE  Goal
  BY <1>8 DEF VerifyFindUser
<1>9. ASSUME NEW r \in Requests, VerifyAddUser(r)
      PROVE  Goal
  BY <1>9 DEF VerifyAddUser, LockFree
<1>10. ASSUME NEW r \in Requests, VerifyConsume(r)
      PROVE  Goal
  BY <1>10 DEF VerifyConsume, Release
<1>11. ASSUME NEW r \in Requests, VerifyLink(r)
      PROVE  Goal
  BY <1>11 DEF VerifyLink
<1>12. ASSUME NEW r \in Requests, CleanupCommit(r)
      PROVE  Goal
  BY <1>12 DEF CleanupCommit, LockFree
<1>13. ASSUME NEW r \in Requests, AuditCommit(r)
      PROVE  Goal
  BY <1>13 DEF AuditCommit, LockFree
<1>14. ASSUME NEW r \in Requests, LockTimeout(r)
      PROVE  Goal
  BY <1>14 DEF LockTimeout, Waiting
<1>15. CASE Restart
  BY <1>15 DEF Restart, Release, Active, Waiting
<1>16. CASE Tick
  BY <1>16 DEF Tick
<1>17. CASE UNCHANGED vars
  BY <1>17 DEF vars
<1> QED
  BY <1>1, <1>2, <1>3, <1>4, <1>5, <1>6, <1>7, <1>8, <1>9, <1>10, <1>11,
     <1>12, <1>13, <1>14, <1>15, <1>16, <1>17
  DEF Next, Arrive, Step

(* No request refers to a challenge that is not inserted yet, so inserting *)
(* one never brings a row back.                                            *)
LEMMA FreshStep ==
    TypeOK /\ FreshInv /\ [Next]_vars => FreshInv'
<1> SUFFICES ASSUME TypeOK, FreshInv, [Next]_vars
             PROVE  FreshInv'
  OBVIOUS
<1>a. req \in [Requests -> Request]
  BY DEF TypeOK
<1>b. \A r \in Requests : req[r].challenge \in Requests
  BY <1>a DEF Request
<1>c. \A s \in DOMAIN session : session[s].challenge \in Requests
  BY DEF TypeOK, Session
<1> USE <1>a, <1>b, <1>c
        DEF FreshInv, Fresh, Verifying, At, Goto, Return, Returned, Locals
<1>1. ASSUME NEW r \in Requests, NEW login \in Logins,
             StartAuth(r, login)
      PROVE  FreshInv'
  BY <1>1 DEF StartAuth
<1>2. ASSUME NEW r \in Requests, NEW c \in Requests, NEW rightCode \in BOOLEAN,
             VerifyAuth(r, c, rightCode)
      PROVE  FreshInv'
  BY <1>2 DEF VerifyAuth, Open
<1>3. ASSUME NEW r \in Requests, CleanupAuth(r)
      PROVE  FreshInv'
  BY <1>3 DEF CleanupAuth
<1>4. ASSUME NEW r \in Requests, StartRetire(r)
      PROVE  FreshInv'
  BY <1>4 DEF StartRetire, LockFree
<1>5. ASSUME NEW r \in Requests, StartDeliveryFails(r)
      PROVE  FreshInv'
  BY <1>5 DEF StartDeliveryFails, Release
<1>6. ASSUME NEW r \in Requests, StartCommit(r)
      PROVE  FreshInv'
  BY <1>6 DEF StartCommit, NewChallenge, Release
<1>7. ASSUME NEW r \in Requests, VerifyMiss(r)
      PROVE  FreshInv'
  BY <1>7 DEF VerifyMiss, CountMiss, LockFree
<1>8. ASSUME NEW r \in Requests, VerifyFindUser(r)
      PROVE  FreshInv'
  BY <1>8 DEF VerifyFindUser
<1>9. ASSUME NEW r \in Requests, VerifyAddUser(r)
      PROVE  FreshInv'
  <2>1. CASE Goto(r, "consume")
    BY <1>9, <2>1, GotoLocals DEF VerifyAddUser
  <2>2. CASE Return(r, "failed")
    BY <1>9, <2>2, ReturnLocals DEF VerifyAddUser
  <2> QED
    BY <1>9, <2>1, <2>2 DEF VerifyAddUser
<1>10. ASSUME NEW r \in Requests, VerifyConsume(r)
      PROVE  FreshInv'
  <2>1. CASE Return(r, "failed")
    BY <1>10, <2>1, ReturnLocals DEF VerifyConsume
  <2>2. CASE /\ Goto(r, "link")
             /\ DOMAIN challenge' = DOMAIN challenge
             /\ session' = [s \in DOMAIN session \union {r} |->
                              IF s = r
                              THEN [login |-> req[r].login,
                                    challenge |-> req[r].challenge]
                              ELSE session[s]]
    BY <1>10, <2>2, GotoLocals DEF VerifyConsume
  <2> QED
    BY <1>10, <2>1, <2>2 DEF VerifyConsume
<1>11. ASSUME NEW r \in Requests, VerifyLink(r)
      PROVE  FreshInv'
  <2>1. CASE Goto(r, "audit")
    BY <1>11, <2>1, GotoLocals DEF VerifyLink
  <2>2. CASE Return(r, "failed")
    BY <1>11, <2>2, ReturnLocals DEF VerifyLink
  <2> QED
    BY <1>11, <2>1, <2>2 DEF VerifyLink
<1>12. ASSUME NEW r \in Requests, CleanupCommit(r)
      PROVE  FreshInv'
  BY <1>12 DEF CleanupCommit, LockFree
<1>13. ASSUME NEW r \in Requests, AuditCommit(r)
      PROVE  FreshInv'
  BY <1>13 DEF AuditCommit, LockFree
<1>14. ASSUME NEW r \in Requests, LockTimeout(r)
      PROVE  FreshInv'
  BY <1>14 DEF LockTimeout
<1>15. CASE Restart
  BY <1>15 DEF Restart, Active, Waiting
<1>16. CASE Tick
  BY <1>16 DEF Tick
<1>17. CASE UNCHANGED vars
  BY <1>17 DEF vars
<1> QED
  BY <1>1, <1>2, <1>3, <1>4, <1>5, <1>6, <1>7, <1>8, <1>9, <1>10, <1>11,
     <1>12, <1>13, <1>14, <1>15, <1>16, <1>17
  DEF Next, Arrive, Step

-----------------------------------------------------------------------------
(* What one step may do to a committed challenge.                          *)
RowEvolves(c) ==
    /\ challenge'[c].login = challenge[c].login
    /\ challenge'[c].expires = challenge[c].expires
    /\ challenge[c].used => challenge'[c].used
    /\ \/ challenge'[c].failed = challenge[c].failed
       \/ /\ challenge'[c].failed <= MaxAttempts
          /\ challenge'[c].failed = MaxAttempts => challenge'[c].used

(* Every row after a step was there before, and has evolved, or is the one *)
(* a delivery has just committed.                                          *)
RowsEvolve ==
    \A c \in DOMAIN challenge' :
        \/ c \in DOMAIN challenge /\ RowEvolves(c)
        \/ c \notin DOMAIN challenge /\ StartCommit(c)

(* No handler changes a row's login or times, or reopens a used one.       *)
LEMMA RowStep ==
    TypeOK /\ LocalsInv /\ FreshInv /\ [Next]_vars => RowsEvolve
<1> SUFFICES ASSUME TypeOK, LocalsInv, FreshInv, [Next]_vars
             PROVE  RowsEvolve
  OBVIOUS
<1>a. /\ challenge \in [DOMAIN challenge -> Challenge]
      /\ DOMAIN challenge \subseteq Requests
  BY DEF TypeOK
<1>b. \A c \in DOMAIN challenge :
        LET row == [challenge[c] EXCEPT !.used = TRUE] IN
        /\ row.login = challenge[c].login
        /\ row.used
        /\ row.failed = challenge[c].failed
        /\ row.expires = challenge[c].expires
  BY <1>a DEF Challenge
<1> USE <1>a DEF RowsEvolve, RowEvolves
<1>1. ASSUME NEW r \in Requests, NEW login \in Logins,
             StartAuth(r, login)
      PROVE  RowsEvolve
  BY <1>1 DEF StartAuth
<1>2. ASSUME NEW r \in Requests, NEW c \in Requests, NEW rightCode \in BOOLEAN,
             VerifyAuth(r, c, rightCode)
      PROVE  RowsEvolve
  BY <1>2 DEF VerifyAuth, Open
<1>3. ASSUME NEW r \in Requests, CleanupAuth(r)
      PROVE  RowsEvolve
  BY <1>3 DEF CleanupAuth
<1>4. ASSUME NEW r \in Requests, StartRetire(r)
      PROVE  RowsEvolve
  BY <1>4 DEF StartRetire, LockFree
<1>5. ASSUME NEW r \in Requests, StartDeliveryFails(r)
      PROVE  RowsEvolve
  BY <1>5 DEF StartDeliveryFails, Release
<1>6. ASSUME NEW r \in Requests, StartCommit(r)
      PROVE  RowsEvolve
  <2>1. r \notin DOMAIN challenge
    BY <1>6 DEF StartCommit, FreshInv, Fresh, At
  <2>2. DOMAIN challenge' = DOMAIN challenge \union {r}
    BY <1>6 DEF StartCommit
  <2>3. \A c \in DOMAIN challenge :
          challenge'[c] = IF c \in req[r].retire
                          THEN [challenge[c] EXCEPT !.used = TRUE]
                          ELSE challenge[c]
    BY <1>6, <2>1 DEF StartCommit
  <2> QED
    BY <1>6, <1>b, <2>1, <2>2, <2>3
<1>7. ASSUME NEW r \in Requests, VerifyMiss(r)
      PROVE  RowsEvolve
  <2> DEFINE c == req[r].challenge
  <2>1. CASE c \in DOMAIN challenge /\ challenge' = CountMiss(c, req[r].seen)
    <3>1. /\ challenge'[c].login = challenge[c].login
          /\ challenge'[c].expires = challenge[c].expires
          /\ challenge'[c].failed = req[r].seen + 1
          /\ challenge'[c].used =
               (challenge[c].used \/ req[r].seen + 1 >= MaxAttempts)
      BY <2>1 DEF CountMiss, Challenge
    <3>2. req[r].seen \in Nat /\ req[r].seen < MaxAttempts
      BY <1>7 DEF VerifyMiss, LocalsInv, LocalsOf, TypeOK, Request
    <3>3. \A d \in DOMAIN challenge : d # c => challenge'[d] = challenge[d]
      BY <2>1 DEF CountMiss
    <3>4. DOMAIN challenge' = DOMAIN challenge
      BY <2>1 DEF CountMiss
    <3>5. req[r].seen + 1 <= MaxAttempts
      BY <3>2, ConstantsAssumption
    <3>6. req[r].seen + 1 = MaxAttempts => req[r].seen + 1 >= MaxAttempts
      BY <3>2, ConstantsAssumption
    <3>7. RowEvolves(c)
      BY <3>1, <3>5, <3>6, Zenon
    <3> QED
      BY <2>1, <3>3, <3>4, <3>7
  <2>2. CASE UNCHANGED challenge
    BY <2>2
  <2> QED
    BY <1>7, <2>1, <2>2 DEF VerifyMiss
<1>8. ASSUME NEW r \in Requests, VerifyFindUser(r)
      PROVE  RowsEvolve
  BY <1>8 DEF VerifyFindUser
<1>9. ASSUME NEW r \in Requests, VerifyAddUser(r)
      PROVE  RowsEvolve
  BY <1>9 DEF VerifyAddUser, LockFree
<1>10. ASSUME NEW r \in Requests, VerifyConsume(r)
      PROVE  RowsEvolve
  <2> DEFINE c == req[r].challenge
  <2>1. CASE /\ c \in DOMAIN challenge
             /\ challenge' = [challenge EXCEPT ![c].used = TRUE]
    <3>1. challenge'[c] = [challenge[c] EXCEPT !.used = TRUE]
      BY <2>1
    <3>2. \A d \in DOMAIN challenge : d # c => challenge'[d] = challenge[d]
      BY <2>1
    <3>3. DOMAIN challenge' = DOMAIN challenge
      BY <2>1
    <3> QED
      BY <1>b, <2>1, <3>1, <3>2, <3>3
  <2>2. CASE UNCHANGED challenge
    BY <2>2
  <2> QED
    BY <1>10, <2>1, <2>2 DEF VerifyConsume
<1>11. ASSUME NEW r \in Requests, VerifyLink(r)
      PROVE  RowsEvolve
  BY <1>11 DEF VerifyLink
<1>12. ASSUME NEW r \in Requests, CleanupCommit(r)
      PROVE  RowsEvolve
  BY <1>12 DEF CleanupCommit, LockFree
<1>13. ASSUME NEW r \in Requests, AuditCommit(r)
      PROVE  RowsEvolve
  BY <1>13 DEF AuditCommit, LockFree
<1>14. ASSUME NEW r \in Requests, LockTimeout(r)
      PROVE  RowsEvolve
  BY <1>14 DEF LockTimeout
<1>15. CASE Restart
  BY <1>15 DEF Restart, Release
<1>16. CASE Tick
  BY <1>16 DEF Tick
<1>17. CASE UNCHANGED vars
  BY <1>17 DEF vars
<1> QED
  BY <1>1, <1>2, <1>3, <1>4, <1>5, <1>6, <1>7, <1>8, <1>9, <1>10, <1>11,
     <1>12, <1>13, <1>14, <1>15, <1>16, <1>17
  DEF Next, Arrive, Step

(* A verify in progress refers to the challenge it referred to before, or  *)
(* has just read it.                                                       *)
HoldsTarget(q) ==
    Verifying(q)' =>
        LET c == req'[q].challenge IN
        \/ /\ Verifying(q)
           /\ req[q].challenge = c
           /\ req[q].login = req'[q].login
        \/ c \in DOMAIN challenge /\ req'[q].login = challenge[c].login

(* A request verifies the row it verified before, or one it just read.     *)
LEMMA VerifyStep ==
    ASSUME TypeOK, [Next]_vars, NEW q \in Requests
    PROVE  HoldsTarget(q)
<1>a. req \in [Requests -> Request]
  BY DEF TypeOK
<1>b. ASSUME NEW r \in Requests, NEW label, Goto(r, label),
             Verifying(r) \/ label = "audit"
      PROVE  HoldsTarget(q)
  <2>1. /\ req'[r].pc = label
        /\ req'[r].login = req[r].login
        /\ req'[r].challenge = req[r].challenge
        /\ q # r => req'[q] = req[q]
    <3>1. /\ req'[r] = Locals(label, req[r].login, req[r].challenge, req[r].at,
                              req[r].seen, req[r].retire)
          /\ \A p \in Requests : p # r => req'[p] = req[p]
      BY <1>a, <1>b, GotoLocals
    <3> QED
      BY <3>1 DEF Locals
  <2> QED
    BY <1>b, <2>1 DEF HoldsTarget, Verifying
<1> USE <1>a
        DEF HoldsTarget, Verifying, At, Return, Returned, Locals
<1>1. ASSUME NEW r \in Requests, NEW login \in Logins,
             StartAuth(r, login)
      PROVE  HoldsTarget(q)
  BY <1>1 DEF StartAuth
<1>2. ASSUME NEW r \in Requests, NEW c \in Requests, NEW rightCode \in BOOLEAN,
             VerifyAuth(r, c, rightCode)
      PROVE  HoldsTarget(q)
  BY <1>2 DEF VerifyAuth, Open
<1>3. ASSUME NEW r \in Requests, CleanupAuth(r)
      PROVE  HoldsTarget(q)
  BY <1>3 DEF CleanupAuth
<1>4. ASSUME NEW r \in Requests, StartRetire(r)
      PROVE  HoldsTarget(q)
  BY <1>4 DEF StartRetire, LockFree
<1>5. ASSUME NEW r \in Requests, StartDeliveryFails(r)
      PROVE  HoldsTarget(q)
  BY <1>5 DEF StartDeliveryFails
<1>6. ASSUME NEW r \in Requests, StartCommit(r)
      PROVE  HoldsTarget(q)
  BY <1>6 DEF StartCommit, NewChallenge, Release
<1>7. ASSUME NEW r \in Requests, VerifyMiss(r)
      PROVE  HoldsTarget(q)
  BY <1>7 DEF VerifyMiss
<1>8. ASSUME NEW r \in Requests, VerifyFindUser(r)
      PROVE  HoldsTarget(q)
  BY <1>8, <1>b DEF VerifyFindUser
<1>9. ASSUME NEW r \in Requests, VerifyAddUser(r)
      PROVE  HoldsTarget(q)
  <2>1. CASE Goto(r, "consume")
    BY <1>9, <2>1, <1>b DEF VerifyAddUser
  <2>2. CASE Return(r, "failed")
    BY <1>9, <2>2
  <2> QED
    BY <1>9, <2>1, <2>2 DEF VerifyAddUser
<1>10. ASSUME NEW r \in Requests, VerifyConsume(r)
      PROVE  HoldsTarget(q)
  <2>1. CASE Goto(r, "link")
    BY <1>10, <2>1, <1>b DEF VerifyConsume
  <2>2. CASE Return(r, "failed")
    BY <1>10, <2>2
  <2> QED
    BY <1>10, <2>1, <2>2 DEF VerifyConsume
<1>11. ASSUME NEW r \in Requests, VerifyLink(r)
      PROVE  HoldsTarget(q)
  <2>1. CASE Goto(r, "audit")
    BY <1>11, <2>1, <1>b DEF VerifyLink
  <2>2. CASE Return(r, "failed")
    BY <1>11, <2>2
  <2> QED
    BY <1>11, <2>1, <2>2 DEF VerifyLink
<1>12. ASSUME NEW r \in Requests, CleanupCommit(r)
      PROVE  HoldsTarget(q)
  BY <1>12 DEF CleanupCommit, LockFree
<1>13. ASSUME NEW r \in Requests, AuditCommit(r)
      PROVE  HoldsTarget(q)
  BY <1>13 DEF AuditCommit, LockFree
<1>14. ASSUME NEW r \in Requests, LockTimeout(r)
      PROVE  HoldsTarget(q)
  BY <1>14 DEF LockTimeout
<1>15. CASE Restart
  BY <1>15 DEF Restart, Active, Waiting
<1>16. CASE Tick
  BY <1>16 DEF Tick
<1>17. CASE UNCHANGED vars
  BY <1>17 DEF vars
<1> QED
  BY <1>1, <1>2, <1>3, <1>4, <1>5, <1>6, <1>7, <1>8, <1>9, <1>10, <1>11,
     <1>12, <1>13, <1>14, <1>15, <1>16, <1>17
  DEF Next, Arrive, Step

(* So the row a verify holds keeps its login.                              *)
LEMMA TargetStep ==
    TypeOK /\ LocalsInv /\ FreshInv /\ TargetInv /\ [Next]_vars => TargetInv'
<1> SUFFICES ASSUME TypeOK, LocalsInv, FreshInv, TargetInv, [Next]_vars,
                    NEW q \in Requests, Verifying(q)',
                    req'[q].challenge \in DOMAIN challenge'
             PROVE  challenge'[req'[q].challenge].login = req'[q].login
  BY DEF TargetInv
<1> DEFINE c == req'[q].challenge
<1>1. HoldsTarget(q)
  BY VerifyStep
<1>2. c \in DOMAIN challenge => challenge[c].login = req'[q].login
  BY <1>1 DEF HoldsTarget, TargetInv
<1>3. Fresh(c) => c \in DOMAIN challenge
  BY <1>1 DEF HoldsTarget, FreshInv
<1>4. \/ c \in DOMAIN challenge /\ RowEvolves(c)
      \/ c \notin DOMAIN challenge /\ StartCommit(c)
  BY RowStep DEF RowsEvolve
<1>5. StartCommit(c) => Fresh(c)
  BY DEF StartCommit, Fresh, At
<1> QED
  BY <1>2, <1>3, <1>4, <1>5 DEF RowEvolves

(* A delivery in progress was in progress before, with the same locals, or *)
(* its UPDATE has just run.                                                *)
HoldsRetire(q) ==
    req'[q].pc = "deliver" =>
        \/ At(q, "deliver") /\ req'[q] = req[q]
        \/ StartRetire(q)

(* A delivery keeps its variables, or has just retired the live rows.      *)
LEMMA DeliverStep ==
    ASSUME TypeOK, [Next]_vars, NEW q \in Requests
    PROVE  HoldsRetire(q)
<1>a. req \in [Requests -> Request]
  BY DEF TypeOK
<1>b. ASSUME NEW r \in Requests, NEW label, Goto(r, label), label # "deliver"
      PROVE  HoldsRetire(q)
  <2>1. req'[r].pc = label /\ (q # r => req'[q] = req[q])
    <3>1. /\ req'[r] = Locals(label, req[r].login, req[r].challenge, req[r].at,
                              req[r].seen, req[r].retire)
          /\ \A p \in Requests : p # r => req'[p] = req[p]
      BY <1>a, <1>b, GotoLocals
    <3> QED
      BY <3>1 DEF Locals
  <2> QED
    BY <1>b, <2>1 DEF HoldsRetire, At
<1> USE <1>a DEF HoldsRetire, At, Return, Returned, Locals
<1>1. ASSUME NEW r \in Requests, NEW login \in Logins,
             StartAuth(r, login)
      PROVE  HoldsRetire(q)
  BY <1>1 DEF StartAuth
<1>2. ASSUME NEW r \in Requests, NEW c \in Requests, NEW rightCode \in BOOLEAN,
             VerifyAuth(r, c, rightCode)
      PROVE  HoldsRetire(q)
  BY <1>2 DEF VerifyAuth, Open
<1>3. ASSUME NEW r \in Requests, CleanupAuth(r)
      PROVE  HoldsRetire(q)
  BY <1>3 DEF CleanupAuth
<1>4. ASSUME NEW r \in Requests, StartRetire(r)
      PROVE  HoldsRetire(q)
  BY <1>4 DEF StartRetire
<1>5. ASSUME NEW r \in Requests, StartDeliveryFails(r)
      PROVE  HoldsRetire(q)
  BY <1>5 DEF StartDeliveryFails, Release
<1>6. ASSUME NEW r \in Requests, StartCommit(r)
      PROVE  HoldsRetire(q)
  BY <1>6 DEF StartCommit, NewChallenge, Release
<1>7. ASSUME NEW r \in Requests, VerifyMiss(r)
      PROVE  HoldsRetire(q)
  BY <1>7 DEF VerifyMiss, CountMiss, LockFree
<1>8. ASSUME NEW r \in Requests, VerifyFindUser(r)
      PROVE  HoldsRetire(q)
  BY <1>8, <1>b DEF VerifyFindUser
<1>9. ASSUME NEW r \in Requests, VerifyAddUser(r)
      PROVE  HoldsRetire(q)
  <2>1. CASE Goto(r, "consume")
    BY <2>1, <1>b
  <2>2. CASE Return(r, "failed")
    BY <2>2
  <2> QED
    BY <1>9, <2>1, <2>2 DEF VerifyAddUser
<1>10. ASSUME NEW r \in Requests, VerifyConsume(r)
      PROVE  HoldsRetire(q)
  <2>1. CASE Goto(r, "link")
    BY <2>1, <1>b
  <2>2. CASE Return(r, "failed")
    BY <2>2
  <2> QED
    BY <1>10, <2>1, <2>2 DEF VerifyConsume
<1>11. ASSUME NEW r \in Requests, VerifyLink(r)
      PROVE  HoldsRetire(q)
  <2>1. CASE Goto(r, "audit")
    BY <2>1, <1>b
  <2>2. CASE Return(r, "failed")
    BY <2>2
  <2> QED
    BY <1>11, <2>1, <2>2 DEF VerifyLink
<1>12. ASSUME NEW r \in Requests, CleanupCommit(r)
      PROVE  HoldsRetire(q)
  BY <1>12 DEF CleanupCommit, LockFree
<1>13. ASSUME NEW r \in Requests, AuditCommit(r)
      PROVE  HoldsRetire(q)
  BY <1>13 DEF AuditCommit, LockFree
<1>14. ASSUME NEW r \in Requests, LockTimeout(r)
      PROVE  HoldsRetire(q)
  BY <1>14 DEF LockTimeout
<1>15. CASE Restart
  BY <1>15 DEF Restart, Active, Waiting
<1>16. CASE Tick
  BY <1>16 DEF Tick
<1>17. CASE UNCHANGED vars
  BY <1>17 DEF vars
<1> QED
  BY <1>1, <1>2, <1>3, <1>4, <1>5, <1>6, <1>7, <1>8, <1>9, <1>10, <1>11,
     <1>12, <1>13, <1>14, <1>15, <1>16, <1>17
  DEF Next, Arrive, Step

(* The clock and the TTL only move expiry into the future: a request's own  *)
(* time is never ahead of the clock.                                       *)
LEMMA ClockStep == TypeOK /\ [Next]_vars => now' \in Nat /\ now <= now'
<1> SUFFICES ASSUME TypeOK, [Next]_vars PROVE now' \in Nat /\ now <= now'
  OBVIOUS
<1>1. now \in Nat
  BY ConstantsAssumption DEF TypeOK
<1>2. CASE Tick
  BY <1>1, <1>2 DEF Tick
<1>3. CASE UNCHANGED now
  BY <1>1, <1>3
<1> QED
  BY <1>2, <1>3
  DEF Next, Arrive, Step, vars, StartAuth, VerifyAuth, CleanupAuth, StartRetire,
      StartDeliveryFails, StartCommit, VerifyMiss, VerifyFindUser,
      VerifyAddUser, VerifyConsume, VerifyLink, CleanupCommit, AuditCommit,
      LockTimeout, Restart

(* The pending UPDATE covers every acceptable challenge of the login until *)
(* it commits: only a delivery inserts rows, and deliveries hold the lock. *)
LEMMA RetireStep ==
    TypeOK /\ TypeOK' /\ LocalsInv /\ FreshInv /\ LockInv /\ LockInv' /\ RetireInv
      /\ [Next]_vars => RetireInv'
<1> SUFFICES ASSUME TypeOK, TypeOK', LocalsInv, FreshInv, LockInv, LockInv',
                    RetireInv, [Next]_vars,
                    NEW q \in Requests, req'[q].pc = "deliver",
                    NEW c \in LiveOf(req[q].login, req[q].at)'
             PROVE  c \in req'[q].retire
  BY DEF RetireInv, At
<1>1. CASE StartRetire(q)
  <2>1. /\ req'[q].login = req[q].login
        /\ req'[q].at = req[q].at
        /\ req'[q].retire = LiveOf(req[q].login, req[q].at)
    BY <1>1 DEF StartRetire, TypeOK, Locals
  <2> QED
    BY <1>1, <2>1 DEF StartRetire, LiveOf
<1>2. CASE At(q, "deliver") /\ req'[q] = req[q]
  <2>1. \/ c \in DOMAIN challenge /\ RowEvolves(c)
        \/ c \notin DOMAIN challenge /\ StartCommit(c)
    BY RowStep DEF RowsEvolve, LiveOf
  <2>2. ~StartCommit(c)
    <3> SUFFICES ASSUME StartCommit(c) PROVE FALSE
      OBVIOUS
    <3>1. c \in Requests
      BY DEF TypeOK, LiveOf
    <3>2. c = q
      BY <1>2, <3>1 DEF LockInv, StartCommit, At
    <3>3. req'[q].pc = "audit"
      BY <3>2 DEF StartCommit, TypeOK, Locals
    <3> QED
      BY <3>3
  <2>3. c \in LiveOf(req[q].login, req[q].at)
    BY <1>2, <2>1, <2>2 DEF LiveOf, RowEvolves
  <2> QED
    BY <1>2, <2>3 DEF RetireInv
<1>3. HoldsRetire(q)
  BY DeliverStep
<1> QED
  BY <1>1, <1>2, <1>3 DEF HoldsRetire

(* The rows a pending UPDATE covers keep their login while it is pending.  *)
LEMMA RetiredStep ==
    TypeOK /\ LocalsInv /\ FreshInv /\ LockInv /\ RetiredInv /\ [Next]_vars
      => RetiredInv'
<1> SUFFICES ASSUME TypeOK, LocalsInv, FreshInv, LockInv, RetiredInv, [Next]_vars,
                    NEW q \in Requests, req'[q].pc = "deliver",
                    NEW c \in req'[q].retire, c \in DOMAIN challenge'
             PROVE  challenge'[c].login = req'[q].login
  BY DEF RetiredInv, At
<1>1. CASE StartRetire(q)
  <2>1. /\ req'[q].login = req[q].login
        /\ req'[q].retire = LiveOf(req[q].login, req[q].at)
    BY <1>1 DEF StartRetire, TypeOK, Locals
  <2> QED
    BY <1>1, <2>1 DEF StartRetire, LiveOf
<1>2. CASE At(q, "deliver") /\ req'[q] = req[q]
  <2>1. \/ c \in DOMAIN challenge /\ RowEvolves(c)
        \/ c \notin DOMAIN challenge /\ StartCommit(c)
    BY RowStep DEF RowsEvolve
  <2>2. ~StartCommit(c)
    <3> SUFFICES ASSUME StartCommit(c) PROVE FALSE
      OBVIOUS
    <3>1. c \in Requests
      BY <1>2 DEF TypeOK, Request
    <3>2. c = q
      BY <1>2, <3>1 DEF LockInv, StartCommit, At
    <3>3. req'[q].pc = "audit"
      BY <3>2 DEF StartCommit, TypeOK, Locals
    <3> QED
      BY <3>3
  <2> QED
    BY <1>2, <2>1, <2>2 DEF RetiredInv, RowEvolves
<1>3. HoldsRetire(q)
  BY DeliverStep
<1> QED
  BY <1>1, <1>2, <1>3 DEF HoldsRetire

(* Two acceptable challenges of one login after a step: both were there    *)
(* before, or one is new and its transaction has retired the other.        *)
LEMMA OneLiveStep ==
    TypeOK /\ TypeOK' /\ LocalsInv /\ FreshInv /\ RetireInv /\ OneLiveChallenge
      /\ [Next]_vars => OneLiveChallenge'
<1> SUFFICES ASSUME TypeOK, TypeOK', LocalsInv, FreshInv, RetireInv,
                    OneLiveChallenge, [Next]_vars,
                    NEW login \in Logins,
                    NEW c \in LiveOf(login, now)', NEW d \in LiveOf(login, now)'
             PROVE  c = d
  BY DEF OneLiveChallenge
<1>1. RowsEvolve
  BY RowStep
<1>2. now \in Nat /\ now' \in Nat /\ now <= now'
  BY ClockStep, ConstantsAssumption DEF TypeOK
<1>3. ASSUME NEW e \in LiveOf(login, now)', e \in DOMAIN challenge
      PROVE  e \in LiveOf(login, now)
  <2>1. RowEvolves(e) /\ challenge[e].expires \in Nat
    BY <1>1, <1>3 DEF RowsEvolve, LiveOf, TypeOK, Challenge
  <2> QED
    BY <1>2, <1>3, <2>1 DEF LiveOf, RowEvolves
<1>4. ASSUME NEW e \in LiveOf(login, now)', e \notin DOMAIN challenge,
             NEW f \in LiveOf(login, now)', f # e
      PROVE  FALSE
  <2>1. StartCommit(e) /\ e \in Requests
    BY <1>1, <1>4 DEF RowsEvolve, LiveOf, TypeOK
  <2>2. /\ now' = now
        /\ challenge'[e].login = req[e].login
        /\ challenge'[f] = IF f \in req[e].retire
                           THEN [challenge[f] EXCEPT !.used = TRUE]
                           ELSE challenge[f]
        /\ f \in DOMAIN challenge
    BY <1>4, <2>1 DEF StartCommit, NewChallenge, LiveOf
  <2>3. f \in LiveOf(login, now)
    BY <1>3, <1>4, <2>2
  <2>4. login = req[e].login
    BY <2>2 DEF LiveOf
  <2>5. req[e].at <= now /\ req[e].at \in Nat
    BY <2>1, ConstantsAssumption DEF LocalsInv, LocalsOf, TypeOK, Request
  <2>6. f \in LiveOf(req[e].login, req[e].at)
    BY <1>2, <2>3, <2>4, <2>5 DEF LiveOf, TypeOK, Challenge
  <2>7. f \in req[e].retire
    BY <2>1, <2>6 DEF RetireInv, StartCommit
  <2>8. challenge'[f].used
    BY <2>2, <2>7 DEF TypeOK, Challenge
  <2> QED
    BY <2>8 DEF LiveOf
<1> QED
  BY <1>3, <1>4 DEF OneLiveChallenge

(* A guess that is counted from a stale value still stays within the       *)
(* maximum, and sets is_used when it reaches it.                           *)
LEMMA LockedStep ==
    TypeOK /\ LocalsInv /\ FreshInv /\ LockedAtMaximum /\ [Next]_vars
      => LockedAtMaximum'
<1> SUFFICES ASSUME TypeOK, LocalsInv, FreshInv, LockedAtMaximum, [Next]_vars,
                    NEW c \in DOMAIN challenge'
             PROVE  /\ challenge'[c].failed <= MaxAttempts
                    /\ challenge'[c].failed = MaxAttempts => challenge'[c].used
  BY DEF LockedAtMaximum
<1>1. CASE c \in DOMAIN challenge /\ RowEvolves(c)
  BY <1>1 DEF RowEvolves, LockedAtMaximum
<1>2. CASE c \notin DOMAIN challenge /\ StartCommit(c)
  <2>1. challenge'[c].failed = 0
    BY <1>2 DEF StartCommit, NewChallenge
  <2> QED
    BY <2>1, ConstantsAssumption
<1> QED
  BY <1>1, <1>2, RowStep DEF RowsEvolve

(* Only VerifyConsume inserts sessions.                                    *)
SessionsGrow ==
    \/ UNCHANGED <<session, user>>
    \/ \E r \in Requests : VerifyConsume(r) /\ ~UNCHANGED <<session, user>>

LEMMA SessionStep == [Next]_vars => SessionsGrow
BY DEF SessionsGrow, Next, Arrive, Step, vars, StartAuth, VerifyAuth, CleanupAuth,
       StartRetire, StartDeliveryFails, StartCommit, VerifyMiss, VerifyFindUser,
       VerifyAddUser, VerifyConsume, VerifyLink, CleanupCommit, AuditCommit,
       LockTimeout, Restart, Tick

(* A session keeps its backing: users are never deleted, its challenge     *)
(* stays used, and no deleted challenge comes back.                        *)
LEMMA BackedStep ==
    TypeOK /\ LocalsInv /\ FreshInv /\ TargetInv /\ SessionsAreBacked /\ [Next]_vars
      => SessionsAreBacked'
<1> SUFFICES ASSUME TypeOK, LocalsInv, FreshInv, TargetInv, SessionsAreBacked,
                    [Next]_vars
             PROVE  SessionsAreBacked'
  OBVIOUS
<1> DEFINE Backed(s) ==
      LET c == session[s].challenge IN
      /\ session[s].login \in user
      /\ c \in DOMAIN challenge => /\ challenge[c].used
                                   /\ challenge[c].login = session[s].login
<1>1. RowsEvolve
  BY RowStep
<1>2. ASSUME NEW s \in DOMAIN session, session'[s] = session[s],
             user \subseteq user'
      PROVE  Backed(s)'
  <2> DEFINE c == session[s].challenge
  <2>1. ~StartCommit(c)
    BY DEF StartCommit, FreshInv, Fresh, At
  <2>2. c \in DOMAIN challenge' => c \in DOMAIN challenge /\ RowEvolves(c)
    BY <1>1, <2>1 DEF RowsEvolve
  <2>3. Backed(s)
    BY DEF SessionsAreBacked
  <2> QED
    BY <1>2, <2>2, <2>3 DEF RowEvolves
<1>3. CASE UNCHANGED <<session, user>>
  BY <1>2, <1>3 DEF SessionsAreBacked
<1>4. ASSUME NEW r \in Requests, VerifyConsume(r), ~UNCHANGED <<session, user>>
      PROVE  SessionsAreBacked'
  <2> DEFINE c == req[r].challenge
  <2>1. /\ c \in DOMAIN challenge
        /\ challenge' = [challenge EXCEPT ![c].used = TRUE]
        /\ user' = user \union {req[r].login}
        /\ session' = [s \in DOMAIN session \union {r} |->
                         IF s = r THEN [login |-> req[r].login, challenge |-> c]
                                  ELSE session[s]]
    BY <1>4 DEF VerifyConsume
  <2>2. challenge[c].login = req[r].login
    BY <1>4, <2>1 DEF TargetInv, Verifying, VerifyConsume, At
  <2>3. challenge'[c].used /\ challenge'[c].login = req[r].login
    BY <2>1, <2>2 DEF TypeOK, Challenge
  <2>4. Backed(r)'
    BY <2>1, <2>3
  <2>5. ASSUME NEW s \in DOMAIN session, s # r
        PROVE  Backed(s)'
    BY <1>2, <2>1, <2>5
  <2>6. DOMAIN session' = DOMAIN session \union {r}
    BY <2>1
  <2> QED
    BY <2>4, <2>5, <2>6 DEF SessionsAreBacked
<1> QED
  BY <1>3, <1>4, SessionStep DEF SessionsGrow

(* A request that has opened its session never opens another one.          *)
LEMMA StaysOpened ==
    ASSUME TypeOK, [Next]_vars, NEW q \in Requests, Opened(q)
    PROVE  Opened(q)'
<1>a. req \in [Requests -> Request]
  BY DEF TypeOK
<1>b. ASSUME NEW r \in Requests, NEW label, Goto(r, label) \/ Return(r, label),
             r = q => label \in {"audit", "failed", "done"}
      PROVE  Opened(q)'
  <2>1. CASE Goto(r, label)
    <3>1. /\ req'[r] = Locals(label, req[r].login, req[r].challenge, req[r].at,
                              req[r].seen, req[r].retire)
          /\ \A p \in Requests : p # r => req'[p] = req[p]
      BY <1>a, <1>b, <2>1, GotoLocals
    <3>2. req'[r].pc = label /\ (r # q => req'[q] = req[q])
      BY <3>1 DEF Locals
    <3> QED
      BY <1>b, <3>2 DEF Opened, Terminal
  <2>2. CASE Return(r, label)
    <3>1. /\ req'[r] = Locals(label, NoOne, req[r].challenge, 0, 0, {})
          /\ \A p \in Requests : p # r => req'[p] = req[p]
      BY <1>a, <1>b, <2>2, ReturnLocals
    <3>2. req'[r].pc = label /\ (r # q => req'[q] = req[q])
      BY <3>1 DEF Locals
    <3> QED
      BY <1>b, <3>2 DEF Opened, Terminal
  <2> QED
    BY <1>b, <2>1, <2>2
<1>c. ASSUME NEW r \in Requests, r # q, \E new : req' = [req EXCEPT ![r] = new]
      PROVE  Opened(q)'
  BY <1>a, <1>c DEF Opened
<1> USE <1>a DEF At
<1>1. ASSUME NEW r \in Requests, Arrive(r) PROVE Opened(q)'
  BY <1>1, <1>c DEF Arrive, StartAuth, VerifyAuth, CleanupAuth, Return, Opened, Terminal
<1>2. ASSUME NEW r \in Requests,
             StartRetire(r) \/ StartDeliveryFails(r) \/ StartCommit(r)
      PROVE  Opened(q)'
  BY <1>2, <1>c DEF StartRetire, StartDeliveryFails, StartCommit, Return, Opened, Terminal
<1>3. ASSUME NEW r \in Requests, VerifyMiss(r) \/ CleanupCommit(r) PROVE Opened(q)'
  BY <1>3, <1>c DEF VerifyMiss, CleanupCommit, Return, Opened, Terminal
<1>4. ASSUME NEW r \in Requests, VerifyFindUser(r) \/ VerifyAddUser(r) \/ VerifyConsume(r)
      PROVE  Opened(q)'
  <2>1. r # q
    BY <1>4 DEF VerifyFindUser, VerifyAddUser, VerifyConsume, Opened, Terminal
  <2> QED
    BY <1>4, <1>b, <2>1 DEF VerifyFindUser, VerifyAddUser, VerifyConsume
<1>5. ASSUME NEW r \in Requests, VerifyLink(r) PROVE Opened(q)'
  BY <1>5, <1>b DEF VerifyLink
<1>6. ASSUME NEW r \in Requests, AuditCommit(r) \/ LockTimeout(r) PROVE Opened(q)'
  BY <1>6, <1>b DEF AuditCommit, LockTimeout
<1>7. CASE Restart
  BY <1>7 DEF Restart, Returned, Locals, Opened, Terminal
<1>8. CASE UNCHANGED req
  BY <1>8 DEF Opened
<1> QED
  BY <1>1, <1>2, <1>3, <1>4, <1>5, <1>6, <1>7, <1>8 DEF Next, Step, Tick, vars

(* So every session is of a request that has opened it.                    *)
LEMMA OpenedStep == TypeOK /\ OpenedInv /\ [Next]_vars => OpenedInv'
<1> SUFFICES ASSUME TypeOK, OpenedInv, [Next]_vars, NEW s \in DOMAIN session'
             PROVE  Opened(s)'
  BY DEF OpenedInv
<1>1. CASE s \in DOMAIN session
  BY <1>1, StaysOpened DEF OpenedInv, TypeOK
<1>2. ASSUME NEW r \in Requests, VerifyConsume(r), ~UNCHANGED session, s \notin DOMAIN session
      PROVE  Opened(s)'
  <2>1. Goto(r, "link") /\ DOMAIN session' = DOMAIN session \union {r}
    BY <1>2 DEF VerifyConsume
  <2>2. req'[r] = Locals("link", req[r].login, req[r].challenge, req[r].at,
                         req[r].seen, req[r].retire)
    BY <2>1, GotoLocals DEF TypeOK
  <2>3. s = r /\ req'[r].pc = "link"
    BY <1>2, <2>1, <2>2 DEF Locals
  <2> QED
    BY <2>3 DEF Opened
<1>3. UNCHANGED session \/ \E r \in Requests : VerifyConsume(r) /\ ~UNCHANGED session
  BY SessionStep DEF SessionsGrow
<1> QED
  BY <1>1, <1>2, <1>3

-----------------------------------------------------------------------------
(* The empty database with idle requests satisfies the invariant.          *)
LEMMA InitInvariant == Init => IInv
<1> SUFFICES ASSUME Init PROVE IInv
  OBVIOUS
<1> USE ConstantsAssumption DEF Init, Locals, At
<1>1. TypeOK
  BY DEF TypeOK, Challenge, Session, Request
<1>2. WriterIsWorking /\ LockInv /\ RetireInv
  BY DEF WriterIsWorking, LockInv, RetireInv
<1>6. RetiredInv /\ OpenedInv
  BY DEF RetiredInv, OpenedInv
<1>3. LocalsInv
  BY DEF LocalsInv, LocalsOf
<1>4. FreshInv /\ TargetInv
  BY DEF FreshInv, TargetInv, Verifying
<1>5. OneLiveChallenge /\ LockedAtMaximum /\ SessionsAreBacked
  BY DEF OneLiveChallenge, LiveOf, LockedAtMaximum, SessionsAreBacked
<1> QED
  BY <1>1, <1>2, <1>3, <1>4, <1>5, <1>6 DEF IInv

(* Every step of every request preserves the invariant.                    *)
LEMMA NextInvariant == IInv /\ [Next]_vars => IInv'
BY TypeStep, LocalsStep, LockStep, RetireStep, RetiredStep, FreshStep, TargetStep,
   OpenedStep, OneLiveStep, LockedStep, BackedStep DEF IInv

(* The inductive invariant holds of every behaviour.                       *)
THEOREM Invariance == Spec => []IInv
BY InitInvariant, NextInvariant, PTL DEF Spec

(* Every handler keeps the tables and its own variables within their types. *)
THEOREM TypeCorrect == Spec => []TypeOK
<1>1. IInv => TypeOK
  BY DEF IInv
<1> QED
  BY <1>1, Invariance, PTL

(* A login never has two challenges that verify would accept, for any      *)
(* number of concurrent starts, verifies and cleanups.                     *)
THEOREM OneLive == Spec => []OneLiveChallenge
<1>1. IInv => OneLiveChallenge
  BY DEF IInv
<1> QED
  BY <1>1, Invariance, PTL

(* The guess counter never passes the maximum, and a challenge at the      *)
(* maximum is used, whatever lost updates the counter suffers.             *)
THEOREM Locked == Spec => []LockedAtMaximum
<1>1. IInv => LockedAtMaximum
  BY DEF IInv
<1> QED
  BY <1>1, Invariance, PTL

(* Every session belongs to a user and to a spent challenge of its login.  *)
THEOREM Backed == Spec => []SessionsAreBacked
<1>1. IInv => SessionsAreBacked
  BY DEF IInv
<1> QED
  BY <1>1, Invariance, PTL

(* No finished or waiting request holds the write lock.                    *)
THEOREM Working == Spec => []WriterIsWorking
<1>1. IInv => WriterIsWorking
  BY DEF IInv
<1> QED
  BY <1>1, Invariance, PTL

(* A spent challenge is never accepted again.                              *)
THEOREM Spent == Spec => SpentStaysSpent
<1> DEFINE Kept ==
      \A c \in DOMAIN challenge :
        challenge[c].used /\ c \in DOMAIN challenge' => challenge'[c].used
<1>1. IInv /\ [Next]_vars => [Kept]_vars
  BY RowStep DEF IInv, RowsEvolve, RowEvolves
<1> QED
  BY <1>1, Invariance, PTL DEF Spec, SpentStaysSpent

-----------------------------------------------------------------------------
(* A reason for which a challenge the user may be about to type is gone.   *)
EndedForCause(c) ==
    \/ c \notin DOMAIN challenge' /\ challenge[c].expires < now
    \/ /\ c \in DOMAIN challenge'
       /\ \/ ~challenge'[c].used
          \/ \E d \in DOMAIN challenge' \ DOMAIN challenge :
                 challenge'[d].login = challenge[c].login
          \/ \E s \in DOMAIN session' \ DOMAIN session :
                 session'[s].challenge = c
          \/ challenge'[c].failed = MaxAttempts

(* A start that commits retires the challenges of its login, for its own.  *)
LEMMA CommitHasCause ==
    ASSUME IInv, NEW r \in Requests, StartCommit(r),
           NEW c \in DOMAIN challenge, ~challenge[c].used
    PROVE  EndedForCause(c)
<1>1. r \notin DOMAIN challenge /\ c # r
  BY DEF IInv, FreshInv, Fresh, StartCommit, At
<1>2. /\ DOMAIN challenge' = DOMAIN challenge \union {r}
      /\ challenge'[r].login = req[r].login
      /\ c \notin req[r].retire => challenge'[c] = challenge[c]
  BY <1>1 DEF StartCommit, NewChallenge
<1>3. CASE c \in req[r].retire
  <2>1. challenge[c].login = req[r].login
    BY <1>3 DEF IInv, RetiredInv, StartCommit
  <2> QED
    BY <1>1, <1>2, <2>1 DEF EndedForCause
<1>4. CASE c \notin req[r].retire
  BY <1>2, <1>4 DEF EndedForCause
<1> QED
  BY <1>3, <1>4

(* A wrong guess spends the challenge only when it was the last one.       *)
LEMMA MissHasCause ==
    ASSUME IInv, NEW r \in Requests, VerifyMiss(r),
           NEW c \in DOMAIN challenge, ~challenge[c].used
    PROVE  EndedForCause(c)
<1>1. CASE UNCHANGED challenge
  BY <1>1 DEF EndedForCause
<1>2. CASE /\ req[r].challenge \in DOMAIN challenge
           /\ challenge' = CountMiss(req[r].challenge, req[r].seen)
  <2>1. challenge \in [DOMAIN challenge -> Challenge] /\ DOMAIN challenge' = DOMAIN challenge
    BY <1>2 DEF IInv, TypeOK, CountMiss
  <2>2. CASE c # req[r].challenge
    BY <1>2, <2>1, <2>2 DEF CountMiss, EndedForCause
  <2>3. CASE c = req[r].challenge
    <3>1. /\ challenge'[c].failed = req[r].seen + 1
          /\ challenge'[c].used = (challenge[c].used \/ req[r].seen + 1 >= MaxAttempts)
      BY <1>2, <2>1, <2>3 DEF CountMiss, Challenge
    <3>2. req[r].seen \in Nat /\ req[r].seen < MaxAttempts
      BY DEF IInv, VerifyMiss, LocalsInv, LocalsOf, TypeOK, Request
    <3>3. req[r].seen + 1 >= MaxAttempts => req[r].seen + 1 = MaxAttempts
      BY <3>2, ConstantsAssumption
    <3> QED
      BY <2>1, <3>1, <3>3 DEF EndedForCause
  <2> QED
    BY <2>2, <2>3
<1> QED
  BY <1>1, <1>2 DEF VerifyMiss

(* A consumed challenge has bought a session that was not there before.    *)
LEMMA ConsumeHasCause ==
    ASSUME IInv, NEW r \in Requests, VerifyConsume(r),
           NEW c \in DOMAIN challenge, ~challenge[c].used
    PROVE  EndedForCause(c)
<1>1. CASE UNCHANGED challenge
  BY <1>1 DEF EndedForCause
<1>2. CASE /\ req[r].challenge \in DOMAIN challenge
           /\ challenge' = [challenge EXCEPT ![req[r].challenge].used = TRUE]
           /\ session' = [s \in DOMAIN session \union {r} |->
                            IF s = r
                            THEN [login |-> req[r].login, challenge |-> req[r].challenge]
                            ELSE session[s]]
  <2>1. DOMAIN challenge' = DOMAIN challenge
    BY <1>2
  <2>2. r \notin DOMAIN session
    BY DEF IInv, OpenedInv, Opened, Terminal, VerifyConsume, At
  <2>3. r \in DOMAIN session' \ DOMAIN session /\ session'[r].challenge = req[r].challenge
    BY <1>2, <2>2
  <2>4. c # req[r].challenge => challenge'[c] = challenge[c]
    BY <1>2
  <2> QED
    BY <2>1, <2>3, <2>4 DEF EndedForCause
<1> QED
  BY <1>1, <1>2 DEF VerifyConsume

(* The cleanup removes what had expired when it began.                     *)
LEMMA CleanupHasCause ==
    ASSUME IInv, NEW r \in Requests, CleanupCommit(r),
           NEW c \in DOMAIN challenge, ~challenge[c].used
    PROVE  EndedForCause(c)
<1>1. /\ challenge[c].expires \in Nat /\ req[r].at \in Nat /\ now \in Nat
      /\ req[r].at <= now
  BY ConstantsAssumption DEF IInv, TypeOK, Challenge, Request, LocalsInv, LocalsOf
<1>2. /\ DOMAIN challenge' = {d \in DOMAIN challenge : challenge[d].expires >= req[r].at}
      /\ c \in DOMAIN challenge' => challenge'[c] = challenge[c]
  BY DEF CleanupCommit
<1> QED
  BY <1>1, <1>2 DEF EndedForCause

(* A challenge the user may be about to type is only taken away by a newer *)
(* one of the login, for a session, by the last wrong guess, or after it   *)
(* has expired, for any number of concurrent requests.                     *)
THEOREM EndedWithCause == Spec => EndsForCause
<1> DEFINE Causes ==
      \A c \in DOMAIN challenge :
        ~challenge[c].used =>
          \/ c \notin DOMAIN challenge' /\ challenge[c].expires < now
          \/ /\ c \in DOMAIN challenge'
             /\ \/ ~challenge'[c].used
                \/ \E d \in DOMAIN challenge' \ DOMAIN challenge :
                       challenge'[d].login = challenge[c].login
                \/ \E s \in DOMAIN session' \ DOMAIN session :
                       session'[s].challenge = c
                \/ challenge'[c].failed = MaxAttempts
<1>1. ASSUME IInv, [Next]_vars, NEW c \in DOMAIN challenge, ~challenge[c].used
      PROVE  EndedForCause(c)
  <2>1. CASE UNCHANGED challenge
    BY <1>1, <2>1 DEF EndedForCause
  <2>2. \/ UNCHANGED challenge
        \/ \E r \in Requests : \/ StartCommit(r) \/ VerifyMiss(r)
                               \/ VerifyConsume(r) \/ CleanupCommit(r)
    BY <1>1 DEF Next, Arrive, Step, vars, StartAuth, VerifyAuth, CleanupAuth, StartRetire,
                StartDeliveryFails, VerifyFindUser, VerifyAddUser, VerifyLink,
                AuditCommit, LockTimeout, Restart, Tick
  <2> QED
    BY <1>1, <2>1, <2>2, CommitHasCause, MissHasCause, ConsumeHasCause, CleanupHasCause
<1>2. IInv /\ [Next]_vars => [Causes]_vars
  BY <1>1 DEF EndedForCause
<1> QED
  BY <1>2, Invariance, PTL DEF Spec, EndsForCause
=============================================================================
