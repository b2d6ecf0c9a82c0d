----------------------------- MODULE AppSession -----------------------------
(***************************************************************************)
(* The session of the mobile app: AppController and SessionStore.          *)
(*                                                                         *)
(* A handler of AppController runs until its next await; between two       *)
(* awaits others run.  While a handler inside _guard is in flight every    *)
(* button is disabled, but logout and restartAuth are not inside _guard:   *)
(* others may begin, and they may begin again, while they wait.            *)
(*                                                                         *)
(* A save is one awaited write for each key of the secure storage, and the *)
(* system may kill the app between any two.  What the BFF answers is       *)
(* arbitrary.  An answer that does not begin in time fails its request;    *)
(* its body, and what the VPN engine returns, are awaited without a limit. *)
(* The login, which only fills a text field, and the state of the VPN are  *)
(* left out.                                                               *)
(***************************************************************************)
EXTENDS Naturals, Sequences

CONSTANTS
    Handlers,  \* bound: invocations of handlers in flight at the same time
    Sessions,  \* sessions of the BFF; tokens are named after their session
    None       \* null

ASSUME SessionAssumption == None \notin Sessions

VARIABLES
    stage,       \* _authStage
    mem,         \* _persistedSession
    disk,        \* the secure storage
    call,        \* control point and local variables of every invocation
    overlapped,  \* history: two handlers were in flight since the app started
    signedOut    \* history: a logout has ended since then, and no sign-in begun

vars == <<stage, mem, disk, call, overlapped, signedOut>>

Stages == {"bootstrapping", "onboarding", "codeVerification", "authenticated"}
Unguarded == {"logout", "restartAuth"}
Token == Sessions \union {None}
PersistedSession == [access: Token, refresh: Token, challenge: BOOLEAN]
Session(access, refresh, challenge) ==
    [access |-> access, refresh |-> refresh, challenge |-> challenge]
NoSession == Session(None, None, FALSE)

(* What a handler of the signed-in screens awaits: protected requests that *)
(* _authorizedCall tries again after a 401, others that are sent once, and *)
(* in the end the VPN engine, one call after another.  A handler that has  *)
(* come to them is a "request".                                            *)
Dashboard == <<"retried", "retried", "retried", "engine">>
Requested ==
    [refreshDashboard |-> Dashboard,
     linkMarzbanUser |-> <<"once">> \o Dashboard,
     connect |-> <<"once", "engine">>,
     disconnect |-> <<"engine">>,
     refreshVpnRuntimeStatus |-> <<"engine">>,
     sendSupportRequest |-> <<"retried">>]

Handler(pc, op, todo, copy, token, again) ==
    [pc |-> pc, op |-> op, todo |-> todo, copy |-> copy, token |-> token,
     again |-> again]
Idle == Handler("idle", "none", <<>>, NoSession, None, FALSE)

(* The answer of a request has begun, and its body is read.                *)
Waiting == {"ask", "verify", "send", "refresh"}
Reading == {"asked", "verified", "sent", "refreshed"}
Begun == [ask |-> "asked", verify |-> "verified", send |-> "sent",
          refresh |-> "refreshed"]

Labels == Waiting \union Reading \union
          {"load", "access", "refreshKey", "challenge", "login", "engine",
           "revoke", "clear", "cleared", "expire", "expired"}

TypeOK ==
    /\ stage \in Stages
    /\ mem \in PersistedSession
    /\ disk \in PersistedSession
    /\ overlapped \in BOOLEAN
    /\ signedOut \in BOOLEAN
    /\ \A h \in Handlers :
         /\ call[h].pc \in Labels \union {"idle"}
         /\ Len(call[h].todo) <= 5
         /\ call[h].pc \in {"send", "sent"} => call[h].todo # <<>>
         /\ call[h].copy \in PersistedSession
         /\ call[h].token \in Token
         /\ call[h].again \in BOOLEAN

Init ==
    /\ stage = "bootstrapping"
    /\ mem = NoSession
    /\ disk = NoSession
    /\ call = [h \in Handlers |-> Idle]
    /\ overlapped = FALSE
    /\ signedOut = FALSE

InFlight == {h \in Handlers : call[h].pc # "idle"}
IsLoading == \E h \in InFlight : call[h].op \notin Unguarded
At(h, label) == call[h].pc = label

(* The handler goes on as the record given; at rest it is Idle.            *)
Becomes(h, record) == call' = [call EXCEPT ![h] = record]
Ends(h) == Becomes(h, Idle)
Continues(h, label) ==
    Becomes(h, Handler(label, call[h].op, call[h].todo, call[h].copy,
                       call[h].token, call[h].again))

(* _persistedSession is assigned and its save begins.                      *)
Save(h, op, session, todo, token, again) ==
    /\ mem' = session
    /\ Becomes(h, Handler("access", op, todo, session, token, again))

(* A handler up to what it awaits next, or its end.  Before a request      *)
(* _ensureAccessToken finds an access token, asks for one, or throws       *)
(* 'Not authenticated'.                                                    *)
NextRequest(session, todo, again) ==
    LET Next(label, token) == Handler(label, "request", todo, NoSession, token, again)
    IN
    IF todo = <<>> THEN Idle
    ELSE CASE Head(todo) = "engine" -> Next("engine", None)
           [] Head(todo) # "engine" /\ session.access # None -> Next("send", session.access)
           [] Head(todo) # "engine" /\ session.access = None /\ session.refresh # None ->
                Next("refresh", session.refresh)
           [] Head(todo) # "engine" /\ session.access = None /\ session.refresh = None ->
                Next("expire", None)

-----------------------------------------------------------------------------
(* Launch and buttons.                                                     *)

(* initialize, once the widgets are built.                                 *)
Initialize(h) ==
    /\ stage = "bootstrapping"
    /\ InFlight = {}
    /\ Becomes(h, Handler("load", "initialize", <<>>, NoSession, None, FALSE))
    /\ UNCHANGED <<stage, mem, disk, overlapped, signedOut>>

(* A button of the stage's screen is pressed, and the handler runs to its  *)
(* first await.                                                            *)
Pressed(h, stages) ==
    /\ stage \in stages
    /\ ~IsLoading
    /\ At(h, "idle")
    /\ overlapped' = (overlapped \/ InFlight # {})

StartAuth(h) ==
    /\ Pressed(h, {"onboarding"})
    /\ Becomes(h, Handler("ask", "startAuth", <<>>, NoSession, None, FALSE))
    /\ signedOut' = FALSE
    /\ UNCHANGED <<stage, mem, disk>>

ResendAuthCode(h) ==
    /\ Pressed(h, {"codeVerification"})
    /\ Becomes(h, Handler("ask", "resendAuthCode", <<>>, NoSession, None, FALSE))
    /\ UNCHANGED <<stage, mem, disk, signedOut>>

(* Without a challenge verifyAuth throws before its first await.           *)
VerifyAuth(h) ==
    /\ Pressed(h, {"codeVerification"})
    /\ mem.challenge
    /\ Becomes(h, Handler("verify", "verifyAuth", <<>>, NoSession, None, FALSE))
    /\ UNCHANGED <<stage, mem, disk, signedOut>>

VerifyAuthLink(h) ==
    /\ Pressed(h, {"onboarding", "codeVerification"})
    /\ Becomes(h, Handler("verify", "verifyAuthLink", <<>>, NoSession, None, FALSE))
    /\ signedOut' = FALSE
    /\ UNCHANGED <<stage, mem, disk>>

RestartAuth(h) ==
    /\ Pressed(h, {"codeVerification"})
    /\ Save(h, "restartAuth", Session(mem.access, mem.refresh, FALSE), <<>>, None, FALSE)
    /\ UNCHANGED <<stage, disk, signedOut>>

(* The handlers of the signed-in screens; toggleVpn is connect or          *)
(* disconnect.                                                             *)
Request(h, op) ==
    /\ Pressed(h, {"authenticated"})
    /\ Becomes(h, NextRequest(mem, Requested[op], FALSE))
    /\ UNCHANGED <<stage, mem, disk, signedOut>>

Logout(h) ==
    /\ Pressed(h, {"authenticated"})
    /\ Becomes(h, Handler(IF mem.access # None THEN "revoke" ELSE "clear",
                          "logout", <<>>, NoSession, None, FALSE))
    /\ UNCHANGED <<stage, mem, disk, signedOut>>

-----------------------------------------------------------------------------
(* Faulty variants, see the properties below.                              *)

(* The request that was answered stays the next one.                       *)
RepeatedAnswered(h) ==
    /\ At(h, "sent")
    /\ Becomes(h, NextRequest(mem, <<"retried">> \o call[h].todo, FALSE))
    /\ UNCHANGED <<stage, mem, disk, overlapped, signedOut>>

(* A 401 is taken for the end of the whole session.                        *)
HarshRefused(h) ==
    /\ At(h, "sent")
    /\ IF Head(call[h].todo) = "retried" /\ ~call[h].again
       THEN Save(h, call[h].op, Session(None, None, mem.challenge), call[h].todo, None, TRUE)
       ELSE Ends(h) /\ UNCHANGED mem
    /\ UNCHANGED <<stage, disk, overlapped, signedOut>>

(* The request is tried again after every 401.                             *)
TirelessRefused(h) ==
    /\ At(h, "sent")
    /\ IF Head(call[h].todo) = "retried"
       THEN Save(h, call[h].op, Session(None, mem.refresh, mem.challenge), call[h].todo, None, TRUE)
       ELSE Ends(h) /\ UNCHANGED mem
    /\ UNCHANGED <<stage, disk, overlapped, signedOut>>

(* The access token that was refused is only forgotten in memory.          *)
UnsavedRefused(h) ==
    LET session == Session(None, mem.refresh, mem.challenge) IN
    /\ At(h, "sent")
    /\ IF Head(call[h].todo) = "retried" /\ ~call[h].again
       THEN /\ mem' = session
            /\ Becomes(h, NextRequest(session, call[h].todo, TRUE))
       ELSE Ends(h) /\ UNCHANGED mem
    /\ UNCHANGED <<stage, disk, overlapped, signedOut>>

(* _guard clears the storage, and stays on its screen.                     *)
StayingExpired(h) ==
    /\ At(h, "expired")
    /\ mem' = NoSession
    /\ Ends(h)
    /\ UNCHANGED <<stage, disk, overlapped, signedOut>>

-----------------------------------------------------------------------------
(* What follows an await.                                                  *)

(* initialize has read the storage: a challenge comes before the tokens,   *)
(* and a session needs both of them.                                       *)
Load(h) ==
    LET restored == disk.access # None /\ disk.refresh # None IN
    /\ At(h, "load")
    /\ mem' = disk
    /\ \/ /\ disk.challenge
          /\ stage' = "codeVerification"
          /\ Ends(h)
       \/ /\ ~disk.challenge /\ ~restored
          /\ stage' = "onboarding"
          /\ Ends(h)
       \/ /\ ~disk.challenge /\ restored
          /\ stage' = "authenticated"
          /\ Becomes(h, NextRequest(disk, Dashboard, FALSE))
    /\ UNCHANGED <<disk, overlapped, signedOut>>

(* The headers of an answer have come.                                     *)
AnswerBegins(h) ==
    /\ call[h].pc \in Waiting
    /\ Continues(h, Begun[call[h].pc])
    /\ UNCHANGED <<stage, mem, disk, overlapped, signedOut>>

(* POST /auth/start has sent a code.                                       *)
CodeSent(h) ==
    /\ At(h, "asked")
    /\ Save(h, call[h].op, Session(mem.access, mem.refresh, TRUE), <<>>, None, FALSE)
    /\ UNCHANGED <<stage, disk, overlapped, signedOut>>

(* POST /auth/verify has opened a session.                                 *)
Verified(h, s) ==
    /\ At(h, "verified")
    /\ Save(h, call[h].op, Session(s, s, FALSE), Dashboard, None, FALSE)
    /\ UNCHANGED <<stage, disk, overlapped, signedOut>>

(* The writes of SessionStore.save.                                        *)
WriteAccess(h) ==
    /\ At(h, "access")
    /\ disk' = Session(call[h].copy.access, disk.refresh, disk.challenge)
    /\ Continues(h, "refreshKey")
    /\ UNCHANGED <<stage, mem, overlapped, signedOut>>

WriteRefresh(h) ==
    /\ At(h, "refreshKey")
    /\ disk' = Session(disk.access, call[h].copy.refresh, disk.challenge)
    /\ Continues(h, "challenge")
    /\ UNCHANGED <<stage, mem, overlapped, signedOut>>

WriteChallenge(h) ==
    /\ At(h, "challenge")
    /\ disk' = Session(disk.access, disk.refresh, call[h].copy.challenge)
    /\ Continues(h, "login")
    /\ UNCHANGED <<stage, mem, overlapped, signedOut>>

(* The login is written too, and the handler goes on: it shows the next    *)
(* screen, sends a request with the token it has been given, or looks for  *)
(* one again.                                                              *)
Saved(h) ==
    LET op == call[h].op
        sent == Handler("send", "request", call[h].todo, NoSession, call[h].token, call[h].again)
    IN
    /\ At(h, "login")
    /\ \/ /\ op \in {"startAuth", "resendAuthCode"}
          /\ stage' = "codeVerification"
          /\ Ends(h)
       \/ /\ op = "restartAuth"
          /\ stage' = "onboarding"
          /\ Ends(h)
       \/ /\ op \in {"verifyAuth", "verifyAuthLink"}
          /\ stage' = "authenticated"
          /\ Becomes(h, NextRequest(mem, Dashboard, FALSE))
       \/ /\ op = "request"
          /\ UNCHANGED stage
          /\ Becomes(h, IF call[h].token # None THEN sent
                        ELSE NextRequest(mem, call[h].todo, call[h].again))
    /\ UNCHANGED <<mem, disk, overlapped, signedOut>>

(* POST /auth/refresh: the BFF does not exchange the refresh token.        *)
Refreshed(h) ==
    LET token == call[h].token IN
    /\ At(h, "refreshed")
    /\ Save(h, call[h].op, Session(token, mem.refresh, FALSE), call[h].todo, token,
            call[h].again)
    /\ UNCHANGED <<stage, disk, overlapped, signedOut>>

Answered(h) ==
    /\ At(h, "sent")
    /\ Becomes(h, NextRequest(mem, Tail(call[h].todo), FALSE))
    /\ UNCHANGED <<stage, mem, disk, overlapped, signedOut>>

(* 401: the access token is forgotten and the request tried again, once.   *)
Refused(h) ==
    /\ At(h, "sent")
    /\ IF Head(call[h].todo) = "retried" /\ ~call[h].again
       THEN Save(h, call[h].op, Session(None, mem.refresh, mem.challenge), call[h].todo, None, TRUE)
       ELSE Ends(h) /\ UNCHANGED mem
    /\ UNCHANGED <<stage, disk, overlapped, signedOut>>

(* Any other error, or no answer in time: _guard shows it.                 *)
Failed(h) ==
    /\ call[h].pc \in Waiting \union Reading
    /\ Ends(h)
    /\ UNCHANGED <<stage, mem, disk, overlapped, signedOut>>

(* The engine has returned, or thrown.                                     *)
EngineAnswers(h) ==
    /\ At(h, "engine")
    /\ Ends(h)
    /\ UNCHANGED <<stage, mem, disk, overlapped, signedOut>>

(* logout goes on whatever becomes of its request.                         *)
Revoked(h) ==
    /\ At(h, "revoke")
    /\ Continues(h, "clear")
    /\ UNCHANGED <<stage, mem, disk, overlapped, signedOut>>

(* SessionStore.clear: for logout, or for 'Not authenticated' in _guard.   *)
DeleteAll(h) ==
    /\ call[h].pc \in {"clear", "expire"}
    /\ disk' = NoSession
    /\ Continues(h, IF At(h, "clear") THEN "cleared" ELSE "expired")
    /\ UNCHANGED <<stage, mem, overlapped, signedOut>>

(* The assignments after it.                                               *)
Cleared(h) ==
    /\ At(h, "cleared")
    /\ mem' = NoSession
    /\ stage' = "onboarding"
    /\ Ends(h)
    /\ signedOut' = TRUE
    /\ UNCHANGED <<disk, overlapped>>

Expired(h) ==
    /\ At(h, "expired")
    /\ mem' = NoSession
    /\ stage' = "onboarding"
    /\ Ends(h)
    /\ UNCHANGED <<disk, overlapped, signedOut>>

(* The system kills the app; it starts again with what was written.        *)
Kill ==
    /\ stage # "bootstrapping" \/ InFlight # {}
    /\ stage' = "bootstrapping"
    /\ mem' = NoSession
    /\ call' = [h \in Handlers |-> Idle]
    /\ overlapped' = FALSE
    /\ signedOut' = FALSE
    /\ UNCHANGED disk

-----------------------------------------------------------------------------

Press(h) ==
    \/ StartAuth(h) \/ ResendAuthCode(h) \/ VerifyAuth(h) \/ VerifyAuthLink(h)
    \/ RestartAuth(h) \/ Logout(h)
    \/ \E op \in DOMAIN Requested : Request(h, op)

Resume(h) ==
    \/ Load(h) \/ AnswerBegins(h)
    \/ CodeSent(h) \/ \E s \in Sessions : Verified(h, s)
    \/ WriteAccess(h) \/ WriteRefresh(h) \/ WriteChallenge(h) \/ Saved(h)
    \/ Refreshed(h) \/ Answered(h) \/ Refused(h) \/ Failed(h) \/ EngineAnswers(h)
    \/ Revoked(h) \/ DeleteAll(h) \/ Cleared(h) \/ Expired(h)

Next ==
    \/ \E h \in Handlers : Initialize(h) \/ Press(h) \/ Resume(h)
    \/ Kill

Spec == Init /\ [][Next]_vars

(* The storage answers, and an answer of the BFF that does not begin in    *)
(* time fails its request.  Bodies and the engine may be awaited for ever, *)
(* and nobody has to press a button.                                       *)
Unlimited == Reading \union {"engine", "revoke"}
Limited(h) == call[h].pc \notin Unlimited /\ Resume(h)
FairSpec == Spec /\ \A h \in Handlers : WF_vars(Limited(h))

-----------------------------------------------------------------------------
(* What the app promises.                                                  *)

(* As long as handlers come one at a time, whatever they are answered and  *)
(* wherever the app was killed before: at rest the storage holds what the  *)
(* controller holds, the signed-in screens have a refresh token to go on   *)
(* with, and the code screen has a challenge to verify.                    *)
RestIsStored ==
    stage # "bootstrapping" /\ InFlight = {} /\ ~overlapped =>
      /\ disk = mem
      /\ stage = "authenticated" => mem.refresh # None
      /\ stage = "codeVerification" => mem.challenge

(* What the secure storage loses of a sign-in, as long as handlers come    *)
(* one at a time: the refresh token is replaced only by a logout and by a  *)
(* new sign-in, the access token removed only by a logout and by the save  *)
(* that follows a 401.  Requests that are lost or refused otherwise, a     *)
(* refresh that fails, a new code, Back and a kill at any point of these   *)
(* leave both.  (After that 401 the storage does not hold a session that   *)
(* initialize restores, until a refresh is saved.)                         *)
SignInIsKept ==
    [][~overlapped =>
         /\ disk.refresh # None /\ disk'.refresh # disk.refresh =>
              \E h \in Handlers :
                \/ At(h, "clear")
                \/ call[h].op \in {"verifyAuth", "verifyAuthLink"}
         /\ disk.access # None /\ disk'.access = None =>
              \E h \in Handlers :
                \/ At(h, "clear")
                \/ At(h, "access") /\ call[h].again]_vars

(* The loading indicator, which disables every button, goes out again,     *)
(* unless one handler stays for ever in one await without a limit: the     *)
(* body of an answer or the VPN engine.                                    *)
LoadingEnds ==
    \/ []<>~IsLoading
    \/ \E h \in Handlers :
         <>[](call[h].op \notin Unguarded /\ call[h].pc \in Unlimited)

(* A signed-in screen without any way to a token does not stay, even when  *)
(* a second logout has emptied the session of a sign-in that was under way.*)
NobodyIsStranded ==
    (stage = "authenticated" /\ mem.refresh = None) ~>
      (stage # "authenticated" \/ mem.refresh # None)

(* What the README of the app says: a logout clears the secure storage.    *)
(* When it has ended, and whatever it overlapped has, no token is left.    *)
LogoutClears ==
    signedOut /\ InFlight = {} => disk.access = None /\ disk.refresh = None
=============================================================================
