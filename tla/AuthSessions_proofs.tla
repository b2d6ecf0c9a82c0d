------------------------- MODULE AuthSessions_proofs -------------------------
(***************************************************************************)
(* Proofs about AuthSessions: type correctness, and that signing out and   *)
(* revoking are final, for any number of requests, sessions and users.     *)
(***************************************************************************)
EXTENDS AuthSessions, TLAPS

(* No token of the session will ever be accepted again.                    *)
Ended(s) == s \in DOMAIN session => session[s].revoked

(* What a handler that signs somebody out can rely on: of the sessions it  *)
(* was asked to end, those it will not revoke itself have ended, and       *)
(* logout-all will find the others under its user.                         *)
AskedInv ==
    \A r \in Requests :
        /\ req[r].asked \subseteq issued
        /\ At(r, "revoke") =>
              \A s \in req[r].asked \ req[r].revoke : Ended(s)
        /\ At(r, "revokeAll") =>
              \A s \in req[r].asked \intersect DOMAIN session :
                  session[s].user = req[r].user
        /\ At(r, "audit") => \A s \in req[r].asked : Ended(s)

OutInv == \A s \in signedOut : Ended(s)

(* A logout revokes nothing that it was not asked for, and the time of a   *)
(* cleanup is not ahead of the clock.                                      *)
Modest(locals) ==
    /\ locals.revoke \subseteq locals.asked
    /\ locals.pc = "purge" => locals.at <= now

ModestInv == \A r \in Requests : Modest(req[r])

IInv == TypeOK /\ AskedInv /\ OutInv /\ ModestInv

-----------------------------------------------------------------------------
(* A handler that returned refers to nothing.                              *)
LEMMA ReturnedType ==
    ASSUME NEW label \in {"idle"} \union Terminal
    PROVE  /\ Returned(label) \in Request
           /\ Returned(label).pc = label
           /\ Returned(label).asked = {}
  BY SessionsAssumption DEF Returned, Locals, Request, Terminal

(* Marking rows as revoked keeps the table well typed, changes no other    *)
(* column, and ends the marked rows.                                       *)
LEMMA RevokedRows ==
    ASSUME TypeOK, NEW rows
    PROVE  /\ DOMAIN Revoked(rows) = DOMAIN session
           /\ Revoked(rows) \in [DOMAIN session -> Session]
           /\ \A s \in DOMAIN session :
                 /\ Revoked(rows)[s].user = session[s].user
                 /\ session[s].revoked => Revoked(rows)[s].revoked
                 /\ s \in rows => Revoked(rows)[s].revoked
<1>1. session \in [DOMAIN session -> Session]
  BY DEF TypeOK
<1>2. ASSUME NEW s \in DOMAIN session
      PROVE  /\ Revoked(rows)[s] \in Session
             /\ Revoked(rows)[s].user = session[s].user
             /\ session[s].revoked => Revoked(rows)[s].revoked
             /\ s \in rows => Revoked(rows)[s].revoked
  <2>1. session[s] \in Session
    BY <1>1
  <2>2. Revoked(rows)[s] = [session[s] EXCEPT !.revoked = @ \/ s \in rows]
    BY DEF Revoked
  <2>3. (session[s].revoked \/ s \in rows) \in BOOLEAN
    OBVIOUS
  <2> QED
    BY <2>1, <2>2, <2>3 DEF Session
<1> QED
  BY <1>2 DEF Revoked

-----------------------------------------------------------------------------
(* What every step does to the table: ids are only added, a deleted row    *)
(* does not return, a row keeps its user and stays revoked.                *)
RowsEvolve ==
    /\ issued \subseteq issued'
    /\ \A s \in issued :
          s \in DOMAIN session' =>
            /\ s \in DOMAIN session
            /\ session'[s].user = session[s].user
            /\ session[s].revoked => session'[s].revoked

(* Inserting is left to fresh ids, and no UPDATE clears is_revoked.        *)
LEMMA RowsStep == TypeOK /\ [Next]_vars => RowsEvolve
<1> SUFFICES ASSUME TypeOK, [Next]_vars PROVE RowsEvolve
  OBVIOUS
<1>a. DOMAIN session \subseteq issued
  BY DEF TypeOK
<1>1. ASSUME NEW s \in Sessions, NEW u \in Users, SignIn(s, u) PROVE RowsEvolve
  BY <1>1, <1>a DEF SignIn, RowsEvolve
<1>2. ASSUME UNCHANGED <<session, issued>> PROVE RowsEvolve
  BY <1>2, <1>a DEF RowsEvolve
<1>3. ASSUME NEW r \in Requests, LogoutCommit(r) PROVE RowsEvolve
  <2>1. CASE session' = Revoked(req[r].revoke)
    BY <2>1, <1>3, RevokedRows DEF LogoutCommit, RowsEvolve
  <2>2. CASE session' = session
    BY <2>2, <1>3, <1>2 DEF LogoutCommit
  <2> QED
    BY <1>3, <2>1, <2>2 DEF LogoutCommit
<1>4. ASSUME NEW r \in Requests, LogoutAll(r) PROVE RowsEvolve
  BY <1>4, RevokedRows DEF LogoutAll, RowsEvolve
<1>5. ASSUME NEW r \in Requests, CleanupCommit(r) PROVE RowsEvolve
  BY <1>5 DEF CleanupCommit, RowsEvolve
<1>6. ASSUME NEW r \in Requests,
             \/ \E s \in Sessions : Refresh(r, s)
             \/ \E s \in Sessions, handler \in {"logout", "revokeAll"} :
                   Authenticate(r, s, handler)
             \/ \E f \in Sessions \union {NoOne} : Logout(r, f)
             \/ Answer(r) \/ Cleanup(r) \/ Fail(r)
      PROVE  RowsEvolve
  BY <1>6, <1>2 DEF Refresh, Authenticate, Logout, Answer, Cleanup, Fail
<1>7. CASE Tick
  BY <1>7, <1>2 DEF Tick
<1>8. CASE UNCHANGED vars
  BY <1>8, <1>2 DEF vars
<1> QED
  BY <1>1, <1>3, <1>4, <1>5, <1>6, <1>7, <1>8 DEF Next

(* So what has ended never comes back.                                     *)
LEMMA EndedStays ==
    ASSUME RowsEvolve, NEW s \in issued, Ended(s)
    PROVE  Ended(s)'
  BY DEF RowsEvolve, Ended

-----------------------------------------------------------------------------
(* Type correctness: every handler keeps the table and its own variables   *)
(* within their types.                                                     *)
LEMMA TypeStep == TypeOK /\ AskedInv /\ [Next]_vars => TypeOK'
<1> SUFFICES ASSUME TypeOK, AskedInv, [Next]_vars PROVE TypeOK'
  OBVIOUS
<1> USE SessionsAssumption
<1>a. /\ now \in 0..MaxTime /\ MaxTime \in Nat
      /\ req \in [Requests -> Request]
      /\ session \in [DOMAIN session -> Session]
      /\ DOMAIN session \subseteq issued
      /\ issued \subseteq Sessions /\ signedOut \subseteq issued
  BY DEF TypeOK
<1>b. ASSUME NEW r \in Requests, NEW locals \in Request, Continue(r, locals)
      PROVE  req' \in [Requests -> Request]
  BY <1>b, <1>a DEF Continue
<1>c. ASSUME NEW r \in Requests, NEW label \in Terminal, Return(r, label)
      PROVE  req' \in [Requests -> Request]
  BY <1>c, <1>b, ReturnedType DEF Return
<1>d. ASSUME NEW label \in {"logout"} \union Writing,
             NEW u \in Users \union {NoOne}, NEW s \in Sessions \union {NoOne},
             NEW revoke \in SUBSET Sessions, NEW asked \in SUBSET Sessions,
             NEW at \in 0..MaxTime
      PROVE  Locals(label, u, s, revoke, asked, at) \in Request
  BY <1>d DEF Locals, Request
<1>e. ASSUME NEW s \in DOMAIN session
      PROVE  /\ session[s].user \in Users /\ session[s].expires \in Nat
             /\ s \in Sessions
  BY <1>a DEF Session
<1>f. ASSUME NEW r \in Requests PROVE Audited(r) \in Request
  <2>1. /\ req[r].user \in Users \union {NoOne}
        /\ req[r].session \in Sessions \union {NoOne}
        /\ req[r].asked \in SUBSET Sessions
    BY <1>a DEF Request
  <2>2. Locals("audit", req[r].user, req[r].session, {}, req[r].asked, 0) \in Request
    BY <2>1, <1>a, <1>d DEF Writing
  <2> QED
    BY <2>2 DEF Audited
<1>1. ASSUME NEW s \in Sessions, NEW u \in Users, SignIn(s, u) PROVE TypeOK'
  <2>1. [user |-> u, revoked |-> FALSE, expires |-> now + TTL] \in Session
    BY <1>a DEF Session
  <2>2. /\ DOMAIN session' = DOMAIN session \union {s}
        /\ \A x \in DOMAIN session' : session'[x] \in Session
        /\ session' = [x \in DOMAIN session' |-> session'[x]]
    BY <1>1, <1>a, <2>1 DEF SignIn
  <2>3. session' \in [DOMAIN session' -> Session]
    BY <2>2
  <2> QED
    BY <1>1, <1>a, <2>2, <2>3 DEF SignIn, TypeOK
<1>2. ASSUME NEW r \in Requests, NEW s \in Sessions, Refresh(r, s) PROVE TypeOK'
  <2>1. CASE Return(r, "refused")
    BY <1>2, <2>1, <1>a, <1>c DEF Refresh, TypeOK, Terminal
  <2>2. CASE Live(s) /\ Continue(r, Locals("audit", session[s].user, s, {}, {}, 0))
    <3>1. Locals("audit", session[s].user, s, {}, {}, 0) \in Request
      BY <2>2, <1>d, <1>e DEF Live, Writing
    <3> QED
      BY <1>2, <2>2, <3>1, <1>a, <1>b DEF Refresh, TypeOK
  <2> QED
    BY <1>2, <2>1, <2>2 DEF Refresh
<1>3. ASSUME NEW r \in Requests, NEW s \in Sessions,
             NEW handler \in {"logout", "revokeAll"}, Authenticate(r, s, handler)
      PROVE  TypeOK'
  <2>1. CASE Return(r, "refused")
    BY <1>3, <2>1, <1>a, <1>c DEF Authenticate, TypeOK, Terminal
  <2>2. CASE Live(s) /\ ~Return(r, "refused")
    <3> DEFINE asked == IF handler = "revokeAll" THEN SessionsOf(session[s].user)
                                                 ELSE {}
               locals == Locals(handler, session[s].user, s, {}, asked, 0)
    <3>1. asked \in SUBSET Sessions
      BY <1>a DEF SessionsOf
    <3>2. locals \in Request
      BY <2>2, <3>1, <1>d, <1>e DEF Live, Writing
    <3>3. Continue(r, locals)
      BY <1>3, <2>2 DEF Authenticate
    <3> QED
      BY <1>3, <3>2, <3>3, <1>a, <1>b DEF Authenticate, TypeOK
  <2> QED
    BY <1>3, <2>1, <2>2 DEF Authenticate
<1>4. ASSUME NEW r \in Requests, NEW f \in Sessions \union {NoOne}, Logout(r, f)
      PROVE  TypeOK'
  <2> DEFINE found == {req[r].session, f} \intersect DOMAIN session
             revoke == {x \in found : x = req[r].session \/ ~session[x].revoked}
             locals == Locals("revoke", req[r].user, req[r].session, revoke, found, 0)
  <2>1. req[r].user \in Users \union {NoOne} /\ req[r].session \in Sessions \union {NoOne}
    BY <1>a DEF Request
  <2>2. found \in SUBSET Sessions /\ revoke \in SUBSET Sessions
    BY <1>a
  <2>3. locals \in Request
    BY <2>1, <2>2, <1>a, <1>d DEF Writing
  <2>4. Continue(r, locals)
    BY <1>4 DEF Logout
  <2> QED
    BY <1>4, <2>3, <2>4, <1>a, <1>b DEF Logout, TypeOK
<1>5. ASSUME NEW r \in Requests, LogoutCommit(r) PROVE TypeOK'
  <2>1. req' \in [Requests -> Request]
    BY <1>5, <1>b, <1>c, <1>f DEF LogoutCommit, Terminal
  <2>2. /\ DOMAIN session' = DOMAIN session
        /\ session' \in [DOMAIN session -> Session]
    BY <1>5, <1>a, RevokedRows DEF LogoutCommit
  <2> QED
    BY <1>5, <2>1, <2>2, <1>a DEF LogoutCommit, TypeOK
<1>6. ASSUME NEW r \in Requests, LogoutAll(r) PROVE TypeOK'
  <2>1. req' \in [Requests -> Request]
    BY <1>6, <1>b, <1>f DEF LogoutAll
  <2>2. /\ DOMAIN session' = DOMAIN session
        /\ session' \in [DOMAIN session -> Session]
    BY <1>6, RevokedRows DEF LogoutAll
  <2> QED
    BY <1>6, <2>1, <2>2, <1>a DEF LogoutAll, TypeOK
<1>7. ASSUME NEW r \in Requests, Answer(r) PROVE TypeOK'
  <2>1. req[r].asked \subseteq issued
    BY DEF AskedInv
  <2> QED
    BY <1>7, <2>1, <1>a, <1>c DEF Answer, TypeOK, Terminal
<1>8. ASSUME NEW r \in Requests, Cleanup(r) PROVE TypeOK'
  <2>1. Locals("purge", NoOne, NoOne, {}, {}, now) \in Request
    BY <1>a, <1>d DEF Writing
  <2> QED
    BY <1>8, <2>1, <1>a, <1>b DEF Cleanup, TypeOK
<1>9. ASSUME NEW r \in Requests, CleanupCommit(r) PROVE TypeOK'
  <2>1. req' \in [Requests -> Request]
    BY <1>9, <1>c DEF CleanupCommit, Terminal
  <2>2. /\ DOMAIN session' \subseteq DOMAIN session
        /\ session' \in [DOMAIN session' -> Session]
    BY <1>9, <1>a DEF CleanupCommit
  <2> QED
    BY <1>9, <2>1, <2>2, <1>a DEF CleanupCommit, TypeOK
<1>10. ASSUME NEW r \in Requests, Fail(r) PROVE TypeOK'
  BY <1>10, <1>a, <1>c DEF Fail, TypeOK, Terminal
<1>11. CASE Tick
  BY <1>11, <1>a DEF Tick, TypeOK
<1>12. CASE UNCHANGED vars
  BY <1>12 DEF vars, TypeOK
<1> QED
  BY <1>1, <1>2, <1>3, <1>4, <1>5, <1>6, <1>7, <1>8, <1>9, <1>10, <1>11, <1>12
  DEF Next

-----------------------------------------------------------------------------
(* The part of AskedInv about one request.                                 *)
Asked(r) ==
    /\ req[r].asked \subseteq issued
    /\ At(r, "revoke") =>
          \A s \in req[r].asked \ req[r].revoke : Ended(s)
    /\ At(r, "revokeAll") =>
          \A s \in req[r].asked \intersect DOMAIN session :
              session[s].user = req[r].user
    /\ At(r, "audit") => \A s \in req[r].asked : Ended(s)

(* A request that does not move keeps what it relies on, whatever the      *)
(* others do to the table.                                                 *)
LEMMA AskedStays ==
    ASSUME RowsEvolve, NEW r \in Requests, Asked(r), req'[r] = req[r]
    PROVE  Asked(r)'
  BY EndedStays DEF RowsEvolve, Asked, At

(* A request that has not asked for anything yet relies on nothing.        *)
LEMMA AskedNothing ==
    ASSUME NEW r \in Requests, req'[r].asked = {}
    PROVE  Asked(r)'
  BY DEF Asked, At

(* A request that moves relies on what its handler has just read or        *)
(* written.                                                                *)
LEMMA AskedStep ==
    TypeOK /\ AskedInv /\ RowsEvolve /\ [Next]_vars => AskedInv'
<1> SUFFICES ASSUME TypeOK, AskedInv, RowsEvolve, [Next]_vars PROVE AskedInv'
  OBVIOUS
<1>a. /\ req \in [Requests -> Request]
      /\ DOMAIN session \subseteq issued
      /\ issued \subseteq issued'
  BY DEF TypeOK, RowsEvolve
<1>b. \A q \in Requests : Asked(q)
  BY DEF AskedInv, Asked
<1>c. ASSUME NEW r \in Requests, NEW locals, Continue(r, locals), Asked(r)'
      PROVE  AskedInv'
  <2>1. \A q \in Requests : q # r => req'[q] = req[q]
    BY <1>c DEF Continue
  <2>2. \A q \in Requests : Asked(q)'
    BY <1>b, <1>c, <2>1, AskedStays
  <2> QED
    BY <2>2 DEF AskedInv, Asked
<1>d. ASSUME NEW r \in Requests, NEW locals, Continue(r, locals), locals.asked = {}
      PROVE  AskedInv'
  <2>1. req'[r] = locals
    BY <1>d, <1>a DEF Continue
  <2> QED
    BY <1>c, <1>d, <2>1, AskedNothing
<1>e. ASSUME NEW r \in Requests, NEW label \in Terminal, Return(r, label)
      PROVE  AskedInv'
  BY <1>d, <1>e, ReturnedType DEF Return
<1>f. ASSUME UNCHANGED req PROVE AskedInv'
  <2>1. \A q \in Requests : Asked(q)'
    BY <1>b, <1>f, AskedStays
  <2> QED
    BY <2>1 DEF AskedInv, Asked
<1>1. ASSUME NEW r \in Requests, NEW s \in Sessions, Refresh(r, s) PROVE AskedInv'
  <2>1. CASE Return(r, "refused")
    BY <2>1, <1>e DEF Terminal
  <2>2. CASE Continue(r, Locals("audit", session[s].user, s, {}, {}, 0))
    <3>1. Locals("audit", session[s].user, s, {}, {}, 0).asked = {}
      BY DEF Locals
    <3> QED
      BY <2>2, <3>1, <1>d
  <2> QED
    BY <1>1, <2>1, <2>2 DEF Refresh
<1>2. ASSUME NEW r \in Requests, NEW s \in Sessions,
             NEW handler \in {"logout", "revokeAll"}, Authenticate(r, s, handler)
      PROVE  AskedInv'
  <2>1. CASE Return(r, "refused")
    BY <2>1, <1>e DEF Terminal
  <2>2. CASE ~Return(r, "refused")
    <3> DEFINE asked == IF handler = "revokeAll" THEN SessionsOf(session[s].user)
                                                 ELSE {}
               locals == Locals(handler, session[s].user, s, {}, asked, 0)
    <3>1. Continue(r, locals)
      BY <1>2, <2>2 DEF Authenticate
    <3>2. /\ session' = session /\ issued' = issued
          /\ req'[r].pc = handler
          /\ req'[r].asked = asked
          /\ req'[r].user = session[s].user
      BY <1>2, <1>a, <3>1 DEF Authenticate, Continue, Locals
    <3>3. asked \subseteq issued
      BY <1>a DEF SessionsOf
    <3>4. \A x \in asked : session[x].user = session[s].user
      BY DEF SessionsOf
    <3>5. Asked(r)'
      BY <3>2, <3>3, <3>4 DEF Asked, At
    <3> QED
      BY <3>1, <3>5, <1>c
  <2> QED
    BY <2>1, <2>2
<1>3. ASSUME NEW r \in Requests, NEW f \in Sessions \union {NoOne}, Logout(r, f)
      PROVE  AskedInv'
  <2> DEFINE found == {req[r].session, f} \intersect DOMAIN session
             revoke == {x \in found : x = req[r].session \/ ~session[x].revoked}
             locals == Locals("revoke", req[r].user, req[r].session, revoke, found, 0)
  <2>1. Continue(r, locals)
    BY <1>3 DEF Logout
  <2>2. /\ session' = session /\ issued' = issued
        /\ req'[r].pc = "revoke"
        /\ req'[r].asked = found
        /\ req'[r].revoke = revoke
    BY <1>3, <1>a, <2>1 DEF Logout, Continue, Locals
  <2>3. \A x \in found \ revoke : session[x].revoked
    OBVIOUS
  <2>4. found \subseteq issued
    BY <1>a
  <2>5. Asked(r)'
    BY <2>2, <2>3, <2>4 DEF Asked, At, Ended
  <2> QED
    BY <2>1, <2>5, <1>c
<1>g. ASSUME NEW r \in Requests, Continue(r, Audited(r))
      PROVE  req'[r].pc = "audit" /\ req'[r].asked = req[r].asked
  BY <1>g, <1>a DEF Continue, Audited, Locals
<1>4. ASSUME NEW r \in Requests, LogoutCommit(r) PROVE AskedInv'
  <2>1. CASE Return(r, "failed")
    BY <2>1, <1>e DEF Terminal
  <2>2. CASE ~Return(r, "failed")
    <3>1. /\ session' = Revoked(req[r].revoke) /\ Continue(r, Audited(r))
          /\ At(r, "revoke")
      BY <1>4, <2>2 DEF LogoutCommit
    <3>2. \A s \in req[r].asked : s \in req[r].revoke \/ Ended(s)
      BY <1>b, <3>1 DEF Asked
    <3>3. \A s \in req[r].asked : Ended(s)'
      BY <3>1, <3>2, RevokedRows DEF Ended
    <3>4. req[r].asked \subseteq issued'
      BY <1>a, <1>b DEF Asked
    <3>5. Asked(r)'
      BY <3>1, <3>3, <3>4, <1>g DEF Asked, At
    <3> QED
      BY <3>1, <3>5, <1>c
  <2> QED
    BY <2>1, <2>2
<1>5. ASSUME NEW r \in Requests, LogoutAll(r) PROVE AskedInv'
  <2>1. /\ session' = Revoked(SessionsOf(req[r].user)) /\ Continue(r, Audited(r))
        /\ At(r, "revokeAll")
    BY <1>5 DEF LogoutAll
  <2>2. \A s \in req[r].asked : s \in DOMAIN session => s \in SessionsOf(req[r].user)
    BY <1>b, <2>1 DEF Asked, SessionsOf
  <2>3. \A s \in req[r].asked : Ended(s)'
    BY <2>1, <2>2, RevokedRows DEF Ended
  <2>4. req[r].asked \subseteq issued'
    BY <1>a, <1>b DEF Asked
  <2>5. Asked(r)'
    BY <2>1, <2>3, <2>4, <1>g DEF Asked, At
  <2> QED
    BY <2>1, <2>5, <1>c
<1>6. ASSUME NEW r \in Requests, Cleanup(r) PROVE AskedInv'
  <2>1. Locals("purge", NoOne, NoOne, {}, {}, now).asked = {}
    BY DEF Locals
  <2> QED
    BY <1>6, <2>1, <1>d DEF Cleanup
<1>7. ASSUME NEW r \in Requests, Answer(r) \/ CleanupCommit(r) \/ Fail(r)
      PROVE  AskedInv'
  BY <1>7, <1>e DEF Answer, CleanupCommit, Fail, Terminal
<1>8. ASSUME NEW s \in Sessions, NEW u \in Users, SignIn(s, u) PROVE AskedInv'
  BY <1>8, <1>f DEF SignIn
<1>9. CASE Tick \/ UNCHANGED vars
  BY <1>9, <1>f DEF Tick, vars
<1> QED
  BY <1>1, <1>2, <1>3, <1>4, <1>5, <1>6, <1>7, <1>8, <1>9 DEF Next

(* Clients are only told of sessions that have ended, and those stay so.   *)
LEMMA OutStep ==
    TypeOK /\ AskedInv /\ OutInv /\ RowsEvolve /\ [Next]_vars => OutInv'
<1> SUFFICES ASSUME TypeOK, AskedInv, OutInv, RowsEvolve, [Next]_vars
             PROVE  OutInv'
  OBVIOUS
<1>1. signedOut \subseteq issued
  BY DEF TypeOK
<1>2. ASSUME NEW s \in signedOut' PROVE s \in issued /\ Ended(s)
  <2>1. CASE s \in signedOut
    BY <2>1, <1>1 DEF OutInv
  <2>2. CASE s \notin signedOut
    <3>1. PICK r \in Requests : Answer(r)
      BY <1>2, <2>2 DEF Next, SignIn, Refresh, Authenticate, Logout,
         LogoutCommit, LogoutAll, Cleanup, CleanupCommit, Fail, Tick, vars
    <3>2. At(r, "audit") /\ s \in req[r].asked
      BY <1>2, <2>2, <3>1 DEF Answer
    <3> QED
      BY <3>2 DEF AskedInv
  <2> QED
    BY <2>1, <2>2
<1> QED
  BY <1>2, EndedStays DEF OutInv

(* A request that moves while the clock stands still.                      *)
LEMMA ModestMove ==
    ASSUME TypeOK, ModestInv, NEW r \in Requests, NEW locals,
           Continue(r, locals), UNCHANGED now, Modest(locals)
    PROVE  ModestInv'
<1>1. \A q \in Requests : req'[q] = IF q = r THEN locals ELSE req[q]
  BY DEF Continue, TypeOK
<1> QED
  BY <1>1 DEF ModestInv, Modest

(* Only Logout chooses rows to revoke, and only Cleanup reads the clock.   *)
LEMMA ModestStep == TypeOK /\ ModestInv /\ [Next]_vars => ModestInv'
<1> SUFFICES ASSUME TypeOK, ModestInv, [Next]_vars PROVE ModestInv'
  OBVIOUS
<1>a. now \in Nat
  BY SessionsAssumption DEF TypeOK
<1>b. \A label, user, s, revoke, asked, at :
        LET l == Locals(label, user, s, revoke, asked, at) IN
        l.pc = label /\ l.revoke = revoke /\ l.asked = asked /\ l.at = at
  BY DEF Locals
<1>c. \A label, user, s, revoke, asked, at :
        /\ revoke \subseteq asked
        /\ label = "purge" => at <= now
        => Modest(Locals(label, user, s, revoke, asked, at))
  BY <1>b DEF Modest
<1>d. \A label : label # "purge" => Modest(Returned(label))
  BY <1>c DEF Returned
<1>1. CASE UNCHANGED <<now, req>>
  BY <1>1 DEF ModestInv, Modest
<1>2. CASE Tick
  <2>1. now <= now' /\ now' \in Nat /\ UNCHANGED req
    BY <1>2, <1>a DEF Tick
  <2>2. \A r \in Requests : req[r].at \in Nat
    BY SessionsAssumption DEF TypeOK, Request
  <2> QED
    BY <1>a, <2>1, <2>2 DEF ModestInv, Modest
<1>3. ASSUME NEW r \in Requests, NEW s \in Sessions, Refresh(r, s) PROVE ModestInv'
  <2>1. Modest(Locals("audit", session[s].user, s, {}, {}, 0)) /\ Modest(Returned("refused"))
    BY <1>c, <1>d
  <2>2. \E locals : Modest(locals) /\ Continue(r, locals) /\ UNCHANGED now
    BY <1>3, <2>1 DEF Refresh, Return
  <2> QED
    BY <2>2, ModestMove
<1>4. ASSUME NEW r \in Requests, NEW s \in Sessions, NEW handler \in {"logout", "revokeAll"},
             Authenticate(r, s, handler)
      PROVE  ModestInv'
  BY <1>4, <1>c, <1>d, ModestMove DEF Authenticate, Return
<1>5. ASSUME NEW r \in Requests, NEW f \in Sessions \union {NoOne}, Logout(r, f)
      PROVE  ModestInv'
  <2> DEFINE found == {req[r].session, f} \intersect DOMAIN session
             rows == {x \in found : x = req[r].session \/ ~session[x].revoked}
             locals == Locals("revoke", req[r].user, req[r].session, rows, found, 0)
  <2>1. Modest(locals)
    BY <1>c
  <2>2. Continue(r, locals) /\ UNCHANGED now
    BY <1>5 DEF Logout
  <2> HIDE DEF locals
  <2> QED
    BY <2>1, <2>2, ModestMove
<1>6. ASSUME NEW r \in Requests, LogoutCommit(r) \/ LogoutAll(r) PROVE ModestInv'
  <2>1. Modest(Audited(r)) /\ Modest(Returned("failed"))
    BY <1>c, <1>d DEF Audited
  <2> QED
    BY <1>6, <2>1, ModestMove DEF LogoutCommit, LogoutAll, Return
<1>7. ASSUME NEW r \in Requests, Answer(r) \/ CleanupCommit(r) \/ Fail(r) PROVE ModestInv'
  BY <1>7, <1>d, ModestMove DEF Answer, CleanupCommit, Fail, Return
<1>8. ASSUME NEW r \in Requests, Cleanup(r) PROVE ModestInv'
  BY <1>8, <1>a, <1>c, ModestMove DEF Cleanup
<1> QED
  BY <1>1, <1>2, <1>3, <1>4, <1>5, <1>6, <1>7, <1>8 DEF Next, SignIn, vars

-----------------------------------------------------------------------------
(* The empty table with idle requests satisfies the invariant.             *)
LEMMA InitInvariant == Init => IInv
<1> SUFFICES ASSUME Init PROVE IInv
  OBVIOUS
<1>1. Returned("idle") \in Request /\ Returned("idle").asked = {}
      /\ Returned("idle").pc = "idle"
  BY ReturnedType
<1>2. TypeOK
  BY <1>1, SessionsAssumption DEF Init, TypeOK
<1>3. \A r \in Requests : req[r].asked = {} /\ req[r].pc = "idle"
  BY <1>1 DEF Init
<1>4. AskedInv
  BY <1>3 DEF AskedInv, At
<1>5. ModestInv
  <2>1. Returned("idle").revoke = {}
    BY DEF Returned, Locals
  <2> QED
    BY <1>1, <2>1 DEF Init, ModestInv, Modest
<1> QED
  BY <1>2, <1>4, <1>5 DEF IInv, OutInv, Init

(* Every step preserves the invariant.                                     *)
LEMMA NextInvariant == IInv /\ [Next]_vars => IInv'
  BY RowsStep, TypeStep, AskedStep, OutStep, ModestStep DEF IInv

(* The inductive invariant holds of every behaviour.                       *)
THEOREM Invariance == Spec => []IInv
  BY InitInvariant, NextInvariant, PTL DEF Spec

(* Every handler keeps the table and its own variables within their types. *)
THEOREM TypeCorrect == Spec => []TypeOK
<1>1. IInv => TypeOK
  BY DEF IInv
<1> QED
  BY <1>1, Invariance, PTL

(* After the answer to a logout or a logout-all, no token of a session it  *)
(* was about is accepted again.                                            *)
THEOREM SignOutIsFinal == Spec => []SignedOutIsOut
<1>1. IInv => SignedOutIsOut
  BY DEF IInv, OutInv, Ended, SignedOutIsOut, Live
<1> QED
  BY <1>1, Invariance, PTL

(* A revoked session is never revived.                                     *)
THEOREM RevocationIsFinal == Spec => RevokedStaysRevoked
<1>1. IInv /\ [Next]_vars =>
        [\A s \in DOMAIN session :
           session[s].revoked /\ s \in DOMAIN session' => session'[s].revoked]_vars
  <2> SUFFICES ASSUME IInv, [Next]_vars, NEW s \in DOMAIN session,
                      session[s].revoked, s \in DOMAIN session'
               PROVE  session'[s].revoked
    OBVIOUS
  <2>1. RowsEvolve /\ s \in issued
    BY RowsStep DEF IInv, TypeOK
  <2> QED
    BY <2>1 DEF RowsEvolve
<1> QED
  BY <1>1, Invariance, PTL DEF Spec, RevokedStaysRevoked

-----------------------------------------------------------------------------
(* Why a session is gone, or revoked, after a step.                        *)
EndedForCause(s) ==
    \/ s \notin DOMAIN session' /\ session[s].expires < now
    \/ /\ s \in DOMAIN session'
       /\ \/ session'[s].revoked = session[s].revoked
          \/ \E r \in Requests :
               \/ At(r, "revoke") /\ s \in req[r].asked
               \/ At(r, "revokeAll") /\ req[r].user = session[s].user

(* Rows that are not marked keep is_revoked.                               *)
LEMMA UnmarkedRows ==
    ASSUME TypeOK, NEW rows, NEW s \in DOMAIN session, s \notin rows
    PROVE  Revoked(rows)[s].revoked = session[s].revoked
<1>1. session[s] \in Session
  BY DEF TypeOK
<1>2. Revoked(rows)[s] = [session[s] EXCEPT !.revoked = @ \/ s \in rows]
  BY DEF Revoked
<1> QED
  BY <1>1, <1>2 DEF Session

(* Only the two logouts revoke, and only the cleanup deletes.              *)
LEMMA CauseStep ==
    ASSUME IInv, [Next]_vars, NEW s \in DOMAIN session
    PROVE  EndedForCause(s)
<1>a. TypeOK /\ s \in issued
  BY DEF IInv, TypeOK
<1>1. CASE UNCHANGED session
  BY <1>1 DEF EndedForCause
<1>2. ASSUME NEW x \in Sessions, NEW u \in Users, SignIn(x, u) PROVE EndedForCause(s)
  BY <1>2, <1>a DEF SignIn, EndedForCause
<1>3. ASSUME NEW r \in Requests, At(r, "revoke"), session' = Revoked(req[r].revoke)
      PROVE  EndedForCause(s)
  <2>1. s \in DOMAIN session'
    BY <1>3, <1>a, RevokedRows
  <2>2. CASE s \in req[r].revoke
    BY <1>3, <2>1, <2>2 DEF EndedForCause, IInv, ModestInv, Modest
  <2>3. CASE s \notin req[r].revoke
    BY <1>3, <1>a, <2>1, <2>3, UnmarkedRows DEF EndedForCause
  <2> QED
    BY <2>2, <2>3
<1>4. ASSUME NEW r \in Requests, LogoutAll(r) PROVE EndedForCause(s)
  <2>1. At(r, "revokeAll") /\ session' = Revoked(SessionsOf(req[r].user))
    BY <1>4 DEF LogoutAll
  <2>2. s \in DOMAIN session'
    BY <1>a, <2>1, RevokedRows
  <2>3. CASE s \in SessionsOf(req[r].user)
    BY <2>1, <2>2, <2>3 DEF EndedForCause, SessionsOf
  <2>4. CASE s \notin SessionsOf(req[r].user)
    BY <1>a, <2>1, <2>2, <2>4, UnmarkedRows DEF EndedForCause
  <2> QED
    BY <2>3, <2>4
<1>5. ASSUME NEW r \in Requests, CleanupCommit(r) PROVE EndedForCause(s)
  <2>1. /\ DOMAIN session' = {x \in DOMAIN session : session[x].expires >= req[r].at}
        /\ s \in DOMAIN session' => session'[s] = session[s]
    BY <1>5 DEF CleanupCommit
  <2>2. session[s].expires \in Nat /\ req[r].at \in Nat /\ now \in Nat
    BY <1>a, SessionsAssumption DEF TypeOK, Session, Request
  <2>3. req[r].at <= now
    BY <1>5 DEF CleanupCommit, IInv, ModestInv, Modest, At
  <2> QED
    BY <2>1, <2>2, <2>3 DEF EndedForCause
<1> QED
  BY <1>1, <1>2, <1>3, <1>4, <1>5
  DEF Next, Refresh, Authenticate, Logout, LogoutCommit, Answer, Cleanup, Fail, Tick, vars

(* Nobody else's session is ended, and none before its time: for any       *)
(* number of requests, sessions and users.                                 *)
THEOREM EndedWithCause == Spec => SessionEndsForCause
<1>1. IInv /\ [Next]_vars =>
        [\A s \in DOMAIN session :
           \/ s \notin DOMAIN session' /\ session[s].expires < now
           \/ /\ s \in DOMAIN session'
              /\ \/ session'[s].revoked = session[s].revoked
                 \/ \E r \in Requests :
                      \/ At(r, "revoke") /\ s \in req[r].asked
                      \/ At(r, "revokeAll") /\ req[r].user = session[s].user]_vars
  BY CauseStep DEF EndedForCause
<1> QED
  BY <1>1, Invariance, PTL DEF Spec, SessionEndsForCause
=============================================================================
