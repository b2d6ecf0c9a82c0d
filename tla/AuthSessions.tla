---------------------------- MODULE AuthSessions ----------------------------
(***************************************************************************)
(* Sessions of the BFF after sign-in: the bearer check of the              *)
(* authenticated endpoints, AuthService.refresh_access, logout,            *)
(* logout_all and the cleanup of expired sessions.                         *)
(*                                                                         *)
(* A request is a process, as in AuthFlow.  No handler of this module      *)
(* leaves the database while it holds SQLite's write lock, so a write      *)
(* transaction is one action; a request that waits too long for the lock   *)
(* of somebody else's delivery fails.                                      *)
(*                                                                         *)
(* A token names its session.  Its signature, and for an access token its  *)
(* own short life, can only add refusals.                                  *)
(***************************************************************************)
EXTENDS Integers

CONSTANTS
    Requests,   \* HTTP requests, each served once
    Sessions,   \* session ids, fresh random tokens
    Users,
    NoOne,      \* no session and no user
    TTL,        \* refresh_token_expire_days, in ticks
    MaxTime     \* bound: the clock stops here

ASSUME SessionsAssumption ==
    /\ NoOne \notin Sessions
    /\ NoOne \notin Users
    /\ TTL \in Nat
    /\ MaxTime \in Nat

VARIABLES
    now,       \* the wall clock
    session,   \* committed rows of auth_sessions, by id
    issued,    \* ids that were inserted, deleted ones included
    req,       \* control point and local variables of every request
    signedOut  \* history: sessions for which a client was told so

vars == <<now, session, issued, req, signedOut>>

Session == [user: Users, revoked: BOOLEAN, expires: Nat]

Terminal == {"done", "refused", "failed"}
Writing == {"revoke", "revokeAll", "audit", "purge"}

Request == [pc: {"idle", "logout"} \union Writing \union Terminal,
            user: Users \union {NoOne},         \* AuthContext.user
            session: Sessions \union {NoOne},   \* AuthContext.session
            revoke: SUBSET Sessions,            \* rows to be revoked
            asked: SUBSET Sessions,             \* what the client signs out
            at: 0..MaxTime]                     \* utcnow() of a cleanup

TypeOK ==
    /\ now \in 0..MaxTime
    /\ DOMAIN session \subseteq issued
    /\ session \in [DOMAIN session -> Session]
    /\ issued \subseteq Sessions
    /\ req \in [Requests -> Request]
    /\ signedOut \subseteq issued

Locals(label, user, s, revoke, asked, at) ==
    [pc |-> label, user |-> user, session |-> s,
     revoke |-> revoke, asked |-> asked, at |-> at]

Returned(label) == Locals(label, NoOne, NoOne, {}, {}, 0)

Init ==
    /\ now = 0
    /\ session = [s \in {} |-> 0]
    /\ issued = {}
    /\ req = [r \in Requests |-> Returned("idle")]
    /\ signedOut = {}

(* The main transaction is committed; the audit record is still to come.   *)
Audited(r) == Locals("audit", req[r].user, req[r].session, {}, req[r].asked, 0)

At(r, label) == req[r].pc = label
Continue(r, locals) == req' = [req EXCEPT ![r] = locals]
Return(r, label) == Continue(r, Returned(label))

-----------------------------------------------------------------------------
(* Faulty variants, see the properties below.                              *)

(* Either the bearer's session or the one of the refresh token is revoked. *)
EitherLogout(r, f) ==
    LET s == req[r].session IN
    /\ At(r, "logout")
    /\ Continue(r, Locals("revoke", req[r].user, s,
                          {IF f \in DOMAIN session THEN f ELSE s} \ {NoOne},
                          {s} \union ({f} \intersect DOMAIN session), 0))
    /\ UNCHANGED <<now, session, issued, signedOut>>

(* The rows are written back as they were read.                            *)
StaleRevoked(rows) ==
    [s \in DOMAIN session |-> [session[s] EXCEPT !.revoked = s \in rows]]

(* The WHERE clause of the UPDATE forgets the user.                        *)
WideSessionsOf(u) == DOMAIN session

(* The cut-off of the cleanup lies in the future.                          *)
HastyCleanup(r) ==
    /\ At(r, "idle")
    /\ Continue(r, Locals("purge", NoOne, NoOne, {}, {}, now + TTL))
    /\ UNCHANGED <<now, session, issued, signedOut>>

-----------------------------------------------------------------------------
(* The check of get_auth_context and of refresh_access on a row.           *)
Live(s) ==
    /\ s \in DOMAIN session
    /\ ~session[s].revoked
    /\ session[s].expires >= now

SessionsOf(u) == {s \in DOMAIN session : session[s].user = u}

(* The rows of a set are marked revoked, and nothing else is written.      *)
Revoked(rows) ==
    [s \in DOMAIN session |->
        [session[s] EXCEPT !.revoked = @ \/ s \in rows]]

-----------------------------------------------------------------------------

(* verify_auth commits a new session (AuthFlow!VerifyConsume).             *)
SignIn(s, u) ==
    /\ s \notin issued
    /\ issued' = issued \union {s}
    /\ session' = [x \in DOMAIN session \union {s} |->
                     IF x = s
                     THEN [user |-> u, revoked |-> FALSE, expires |-> now + TTL]
                     ELSE session[x]]
    /\ UNCHANGED <<now, req, signedOut>>

(* POST /auth/refresh: the row is read and the new access token is logged. *)
Refresh(r, s) ==
    /\ At(r, "idle")
    /\ \/ /\ Live(s)
          /\ Continue(r, Locals("audit", session[s].user, s, {}, {}, 0))
       \/ Return(r, "refused")
    /\ UNCHANGED <<now, session, issued, signedOut>>

(* get_auth_context, in front of a handler; what other handlers than the   *)
(* two below do with their context is not modelled here.                   *)
Authenticate(r, s, handler) ==
    /\ At(r, "idle")
    /\ \/ /\ Live(s)
          /\ LET u == session[s].user IN
             Continue(r, Locals(handler, u, s, {},
                                IF handler = "revokeAll" THEN SessionsOf(u)
                                                         ELSE {}, 0))
       \/ Return(r, "refused")
    /\ UNCHANGED <<now, session, issued, signedOut>>

(* POST /auth/logout with an optional refresh token.  The SELECT of the    *)
(* bearer's row returns the object of the bearer check, with is_revoked as *)
(* it was then, unless the row is gone.                                    *)
Logout(r, f) ==
    LET s == req[r].session
        found == {s, f} \intersect DOMAIN session
    IN
    /\ At(r, "logout")
    /\ Continue(r, Locals("revoke", req[r].user, s,
                          {x \in found : x = s \/ ~session[x].revoked},
                          found, 0))
    /\ UNCHANGED <<now, session, issued, signedOut>>

(* The commit.  A row that was deleted meanwhile is a StaleDataError, and  *)
(* then neither row is revoked.                                            *)
LogoutCommit(r) ==
    /\ At(r, "revoke")
    /\ \/ /\ req[r].revoke \subseteq DOMAIN session
          /\ session' = Revoked(req[r].revoke)
          /\ Continue(r, Audited(r))
       \/ /\ ~(req[r].revoke \subseteq DOMAIN session)
          /\ Return(r, "failed")
          /\ UNCHANGED session
    /\ UNCHANGED <<now, issued, signedOut>>

(* POST /auth/logout-all.                                                  *)
LogoutAll(r) ==
    /\ At(r, "revokeAll")
    /\ session' = Revoked(SessionsOf(req[r].user))
    /\ Continue(r, Audited(r))
    /\ UNCHANGED <<now, issued, signedOut>>

(* The audit record is committed, and the client gets its answer.          *)
Answer(r) ==
    /\ At(r, "audit")
    /\ signedOut' = signedOut \union req[r].asked
    /\ Return(r, "done")
    /\ UNCHANGED <<now, session, issued>>

(* cleanup_expired_auth_data.                                              *)
Cleanup(r) ==
    /\ At(r, "idle")
    /\ Continue(r, Locals("purge", NoOne, NoOne, {}, {}, now))
    /\ UNCHANGED <<now, session, issued, signedOut>>

CleanupCommit(r) ==
    LET kept == {s \in DOMAIN session : session[s].expires >= req[r].at} IN
    /\ At(r, "purge")
    /\ session' = [s \in kept |-> session[s]]
    /\ Return(r, "done")
    /\ UNCHANGED <<now, issued, signedOut>>

(* "database is locked", or the server dies.                               *)
Fail(r) ==
    /\ req[r].pc \in Writing \union {"logout"}
    /\ Return(r, "failed")
    /\ UNCHANGED <<now, session, issued, signedOut>>

Tick ==
    /\ now < MaxTime
    /\ now' = now + 1
    /\ UNCHANGED <<session, issued, req, signedOut>>

Next ==
    \/ \E s \in Sessions, u \in Users : SignIn(s, u)
    \/ \E r \in Requests :
          \/ \E s \in Sessions : Refresh(r, s)
          \/ \E s \in Sessions, handler \in {"logout", "revokeAll"} :
                Authenticate(r, s, handler)
          \/ \E f \in Sessions \union {NoOne} : Logout(r, f)
          \/ LogoutCommit(r)
          \/ LogoutAll(r)
          \/ Answer(r)
          \/ Cleanup(r)
          \/ CleanupCommit(r)
          \/ Fail(r)
    \/ Tick

Spec == Init /\ [][Next]_vars

-----------------------------------------------------------------------------
(* What the service promises.                                              *)

(* Documented in docs/API.md:43-44: once a client was told that it is      *)
(* signed out, neither a bearer nor a refresh token of the sessions it     *)
(* asked for is good for anything: its own, the one of the refresh token   *)
(* it sent, or all that its user had when logout-all was called.           *)
SignedOutIsOut == \A s \in signedOut : ~Live(s)

(* A revoked session is never revived, whatever a handler has read before. *)
RevokedStaysRevoked ==
    [][\A s \in DOMAIN session :
         session[s].revoked /\ s \in DOMAIN session' => session'[s].revoked]_vars

(* A session only ends when it has expired, or because a request that was  *)
(* admitted with a session of the same user, or that sent its own refresh  *)
(* token, signs out.                                                       *)
SessionEndsForCause ==
    [][\A s \in DOMAIN session :
         \/ s \notin DOMAIN session' /\ session[s].expires < now
         \/ /\ s \in DOMAIN session'
            /\ \/ session'[s].revoked = session[s].revoked
               \/ \E r \in Requests :
                    \/ At(r, "revoke") /\ s \in req[r].asked
                    \/ At(r, "revokeAll") /\ req[r].user = session[s].user]_vars
=============================================================================
