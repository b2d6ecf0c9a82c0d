------------------------- MODULE AppSession_proofs -------------------------
(***************************************************************************)
(* Proofs about AppSession, for any number of handlers and sessions: type  *)
(* correctness, that what is at rest is stored, and what a stored sign-in  *)
(* survives.                                                               *)
(*                                                                         *)
(* The argument: until handlers overlap, the one in flight is the only one *)
(* that changes anything, and at each of its awaits storage and memory     *)
(* agree but for the writes it has still to do.                            *)
(***************************************************************************)
EXTENDS AppSession, SequenceTheorems, TLAPS

Kinds == {"retried", "once", "engine"}
SignIn == {"verifyAuth", "verifyAuthLink"}
AskCode == {"startAuth", "resendAuthCode"}
Ops == {"none", "initialize", "restartAuth", "request", "logout"} \union SignIn \union AskCode
Saving == {"access", "refreshKey", "challenge", "login"}
Asking == {"send", "sent", "refresh", "refreshed"}

Call ==
    [pc: Labels \union {"idle"}, op: Ops, todo: Seq(Kinds),
     copy: PersistedSession, token: Token, again: BOOLEAN]

TypeInv ==
    /\ stage \in Stages
    /\ mem \in PersistedSession
    /\ disk \in PersistedSession
    /\ overlapped \in BOOLEAN
    /\ signedOut \in BOOLEAN
    /\ call \in [Handlers -> Call]
    /\ \A h \in Handlers :
         /\ Len(call[h].todo) <= 5
         /\ \/ call[h].pc \in Asking
            \/ call[h].pc \in Saving /\ call[h].token # None
            => call[h].todo # <<>>

(* What holds at the await of the only handler in flight, or at rest.      *)
Calm(c) ==
    /\ c.pc = "load" => stage = "bootstrapping"
    /\ c.pc \notin {"idle", "load"} => stage # "bootstrapping"
    /\ c.pc \notin Saving \union {"load", "cleared"} /\ stage # "bootstrapping" =>
         disk = mem /\ (stage = "codeVerification" => mem.challenge)
    /\ c.pc = "cleared" => disk = NoSession
    /\ c.pc \in {"ask", "asked"} => c.op \in AskCode
    /\ c.pc \in {"verify", "verified"} => c.op \in SignIn
    /\ c.pc \in Asking => c.op = "request"
    /\ c.pc \in {"refresh", "refreshed"} => mem.access = None
    /\ c.pc # "idle" /\ c.op = "request" => stage = "authenticated"
    /\ c.pc \notin {"expire", "expired"}
    /\ c.pc \in Saving =>
         /\ mem = c.copy
         /\ c.op \in {"restartAuth", "request"} \union SignIn \union AskCode
         /\ c.pc # "access" => disk.access = c.copy.access
         /\ c.pc \in {"challenge", "login"} => disk.refresh = c.copy.refresh
         /\ c.pc = "login" => disk.challenge = c.copy.challenge
         /\ c.op \notin SignIn => disk.refresh = c.copy.refresh
         /\ c.op \in SignIn => c.copy.refresh # None
         /\ c.op \in AskCode => c.copy.challenge
         /\ c.pc = "access" /\ ~c.again /\ disk.access # None => c.copy.access # None

SignedIn == stage = "authenticated" => mem.refresh # None

CalmInv ==
    /\ SignedIn
    /\ InFlight = {} => Calm(Idle)
    /\ \A h \in InFlight : Calm(call[h]) /\ InFlight = {h}

IInv == TypeInv /\ (~overlapped => CalmInv)

-----------------------------------------------------------------------------
(* Sessions are what their fields are.                                     *)
LEMMA SessionFacts ==
    /\ \A a, r \in Token, c \in BOOLEAN :
         /\ Session(a, r, c) \in PersistedSession
         /\ Session(a, r, c).access = a /\ Session(a, r, c).refresh = r
         /\ Session(a, r, c).challenge = c
    /\ \A s \in PersistedSession :
         /\ s.access \in Token /\ s.refresh \in Token /\ s.challenge \in BOOLEAN
         /\ s = Session(s.access, s.refresh, s.challenge)
    /\ None \in Token /\ NoSession \in PersistedSession
    /\ NoSession = Session(None, None, FALSE)
<1>1. \A a, r \in Token, c \in BOOLEAN :
        /\ Session(a, r, c) \in PersistedSession
        /\ Session(a, r, c).access = a /\ Session(a, r, c).refresh = r
        /\ Session(a, r, c).challenge = c
  BY DEF Session, PersistedSession
<1>2. \A s \in PersistedSession :
        /\ s.access \in Token /\ s.refresh \in Token /\ s.challenge \in BOOLEAN
        /\ s = Session(s.access, s.refresh, s.challenge)
  BY DEF Session, PersistedSession
<1>3. None \in Token
  BY DEF Token
<1> QED
  BY <1>1, <1>2, <1>3 DEF NoSession

(* There is a session of given fields.                                      *)
LEMMA NewSession ==
    ASSUME NEW a \in Token, NEW r \in Token, NEW c \in BOOLEAN
    PROVE  \E s \in PersistedSession :
             s = Session(a, r, c) /\ s.access = a /\ s.refresh = r /\ s.challenge = c
<1>1. Session(a, r, c) \in PersistedSession
  BY SessionFacts
<1>2. /\ Session(a, r, c).access = a /\ Session(a, r, c).refresh = r
      /\ Session(a, r, c).challenge = c
  BY DEF Session
<1> QED
  BY <1>1, <1>2

(* The local variables of a handler.                                       *)
LEMMA CallTypes ==
    ASSUME TypeInv, NEW h \in Handlers
    PROVE  /\ call[h].pc \in Labels \union {"idle"} /\ call[h].op \in Ops
           /\ call[h].todo \in Seq(Kinds) /\ Len(call[h].todo) <= 5
           /\ call[h].copy \in PersistedSession /\ call[h].token \in Token
           /\ call[h].again \in BOOLEAN
  BY DEF TypeInv, Call

(* A handler has the given local variables next, and the others keep       *)
(* theirs.                                                                 *)
Next_(h, pc, op, todo, copy, token, again) ==
    /\ call' \in [Handlers -> Call]
    /\ \A g \in Handlers \ {h} : call'[g] = call[g]
    /\ call'[h].pc = pc /\ call'[h].op = op /\ call'[h].todo = todo
    /\ call'[h].copy = copy /\ call'[h].token = token /\ call'[h].again = again

(* Assigning them.                                                         *)
LEMMA Assigns ==
    ASSUME TypeInv, NEW h \in Handlers,
           NEW pc \in Labels \union {"idle"}, NEW op \in Ops, NEW todo \in Seq(Kinds),
           NEW copy \in PersistedSession, NEW token \in Token, NEW again \in BOOLEAN,
           Becomes(h, Handler(pc, op, todo, copy, token, again))
    PROVE  Next_(h, pc, op, todo, copy, token, again)
<1>1. Handler(pc, op, todo, copy, token, again) \in Call
  BY DEF Handler, Call
<1>2. call'[h] = Handler(pc, op, todo, copy, token, again)
  BY DEF Becomes, TypeInv
<1>3. call' \in [Handlers -> Call] /\ \A g \in Handlers \ {h} : call'[g] = call[g]
  BY <1>1 DEF Becomes, TypeInv
<1> QED
  BY <1>2, <1>3 DEF Next_, Handler

(* A handler ends.                                                         *)
LEMMA EndAssigns ==
    ASSUME TypeInv, NEW h \in Handlers, Ends(h)
    PROVE  Next_(h, "idle", "none", <<>>, NoSession, None, FALSE)
<1>1. <<>> \in Seq(Kinds) /\ "none" \in Ops
  BY DEF Ops
<1> QED
  BY <1>1, Assigns, SessionFacts DEF Ends, Idle

(* A handler goes on with its local variables.                             *)
LEMMA Continuing ==
    ASSUME TypeInv, NEW h \in Handlers, NEW label \in Labels \union {"idle"},
           Continues(h, label)
    PROVE  Next_(h, label, call[h].op, call[h].todo, call[h].copy, call[h].token, call[h].again)
<1>1. PICK op \in Ops, todo \in Seq(Kinds), copy \in PersistedSession, token \in Token,
           again \in BOOLEAN :
        /\ op = call[h].op /\ todo = call[h].todo /\ copy = call[h].copy
        /\ token = call[h].token /\ again = call[h].again
  BY CallTypes
<1>2. Becomes(h, Handler(label, op, todo, copy, token, again))
  BY <1>1 DEF Continues
<1>3. Next_(h, label, op, todo, copy, token, again)
  BY <1>2, Assigns
<1> QED
  BY <1>1, <1>3

(* What a handler that looks for its next request may become.              *)
LEMMA Requests ==
    ASSUME TypeInv, NEW h \in Handlers, NEW session \in PersistedSession,
           NEW todo \in Seq(Kinds), NEW again \in BOOLEAN,
           Becomes(h, NextRequest(session, todo, again))
    PROVE  \E pc \in {"idle", "send", "refresh", "expire", "engine"}, op \in {"none", "request"},
              rest \in {todo, <<>>}, token \in Token, more \in BOOLEAN :
             /\ Next_(h, pc, op, rest, NoSession, token, more)
             /\ pc # "idle" <=> op = "request"
             /\ pc \in Asking => rest # <<>>
             /\ pc = "refresh" => session.access = None
             /\ pc = "expire" => session.access = None /\ session.refresh = None
<1>b. /\ "request" \in Ops /\ "send" \in Labels \union {"idle"}
      /\ "refresh" \in Labels \union {"idle"} /\ "expire" \in Labels \union {"idle"}
      /\ "engine" \in Labels \union {"idle"}
  BY DEF Ops, Labels, Waiting
<1>c. <<>> \in Seq(Kinds) /\ "idle" \notin Asking /\ "engine" \notin Asking
  BY DEF Asking
<1>a. /\ NoSession \in PersistedSession /\ None \in Token
      /\ session.access \in Token /\ session.refresh \in Token
  BY SessionFacts
<1>1. CASE todo = <<>>
  <2>1. Ends(h)
    BY <1>1 DEF NextRequest, Ends
  <2> QED
    BY <1>a, <1>b, <1>c, <2>1, EndAssigns
<1>2. CASE todo # <<>> /\ Head(todo) = "engine"
  <2>1. Becomes(h, Handler("engine", "request", todo, NoSession, None, again))
    BY <1>2 DEF NextRequest
  <2>2. Next_(h, "engine", "request", todo, NoSession, None, again)
    BY <1>a, <1>b, <1>c, <2>1, Assigns
  <2> QED
    BY <1>a, <1>b, <1>c, <1>2, <2>2
<1>3. CASE todo # <<>> /\ Head(todo) # "engine" /\ session.access # None
  <2>1. Becomes(h, Handler("send", "request", todo, NoSession, session.access, again))
    BY <1>3 DEF NextRequest
  <2>2. Next_(h, "send", "request", todo, NoSession, session.access, again)
    BY <1>a, <1>b, <1>c, <2>1, Assigns
  <2> QED
    BY <1>a, <1>b, <1>c, <1>3, <2>2
<1>4. CASE /\ todo # <<>> /\ Head(todo) # "engine"
           /\ session.access = None /\ session.refresh # None
  <2>1. Becomes(h, Handler("refresh", "request", todo, NoSession, session.refresh, again))
    BY <1>4 DEF NextRequest
  <2>2. Next_(h, "refresh", "request", todo, NoSession, session.refresh, again)
    BY <1>a, <1>b, <1>c, <2>1, Assigns
  <2> QED
    BY <1>a, <1>b, <1>c, <1>4, <2>2
<1>5. CASE /\ todo # <<>> /\ Head(todo) # "engine"
           /\ session.access = None /\ session.refresh = None
  <2>1. Becomes(h, Handler("expire", "request", todo, NoSession, None, again))
    BY <1>5 DEF NextRequest
  <2>2. Next_(h, "expire", "request", todo, NoSession, None, again)
    BY <1>a, <1>b, <1>c, <2>1, Assigns
  <2>3. "expire" \notin Asking
    BY DEF Asking
  <2> QED
    BY <1>a, <1>b, <1>c, <1>5, <2>2, <2>3
<1> QED
  BY <1>1, <1>2, <1>3, <1>4, <1>5

-----------------------------------------------------------------------------
(* The types after a step of one handler.                                  *)
LEMMA TypesKept ==
    ASSUME TypeInv, NEW h \in Handlers,
           NEW pc, NEW op, NEW todo, NEW copy, NEW token, NEW again,
           Next_(h, pc, op, todo, copy, token, again),
           Len(todo) <= 5,
           pc \in Asking \/ (pc \in Saving /\ token # None) => todo # <<>>,
           stage' \in Stages, mem' \in PersistedSession, disk' \in PersistedSession,
           overlapped' \in BOOLEAN, signedOut' \in BOOLEAN
    PROVE  TypeInv'
  BY DEF TypeInv, Next_

(* What is calm after a step of the only handler in flight.                *)
LEMMA CalmKept ==
    ASSUME TypeInv, CalmInv, NEW h \in Handlers,
           InFlight = {} \/ call[h].pc # "idle",
           \A g \in Handlers \ {h} : call'[g] = call[g],
           Calm(call[h])', SignedIn'
    PROVE  CalmInv'
<1>1. InFlight' = IF call'[h].pc = "idle" THEN {} ELSE {h}
  BY DEF InFlight, CalmInv
<1>2. call'[h].pc = "idle" => Calm(Idle)'
  BY DEF Calm, Idle, Handler, Saving, Asking
<1> QED
  BY <1>1, <1>2 DEF CalmInv

(* The invariant after a step of one handler, alone or not.                *)
LEMMA Kept ==
    ASSUME IInv, NEW h \in Handlers,
           NEW pc, NEW op, NEW todo, NEW copy, NEW token, NEW again,
           Next_(h, pc, op, todo, copy, token, again),
           Len(todo) <= 5,
           pc \in Asking \/ (pc \in Saving /\ token # None) => todo # <<>>,
           stage' \in Stages, mem' \in PersistedSession, disk' \in PersistedSession,
           overlapped' \in BOOLEAN, signedOut' \in BOOLEAN,
           ~overlapped' =>
             /\ ~overlapped
             /\ InFlight = {} \/ call[h].pc # "idle"
             /\ Calm(call[h])' /\ SignedIn'
    PROVE  IInv'
<1>1. TypeInv'
  BY TypesKept DEF IInv
<1>2. ASSUME ~overlapped' PROVE CalmInv'
  <2>1. TypeInv /\ CalmInv /\ \A g \in Handlers \ {h} : call'[g] = call[g]
    BY <1>2 DEF IInv, Next_
  <2> QED
    BY <1>2, <2>1, CalmKept
<1> QED
  BY <1>1, <1>2 DEF IInv

(* Nothing has begun, or only one handler has.                             *)
LEMMA Rest ==
    ASSUME IInv, ~overlapped, InFlight = {}
    PROVE  /\ SignedIn
           /\ stage # "bootstrapping" =>
                disk = mem /\ (stage = "codeVerification" => mem.challenge)
  BY DEF IInv, CalmInv, Calm, Idle, Handler, Saving

LEMMA Alone ==
    ASSUME IInv, ~overlapped, NEW h \in Handlers, call[h].pc # "idle"
    PROVE  SignedIn /\ Calm(call[h])
  BY DEF IInv, CalmInv, InFlight

(* The types of the state.                                                 *)
LEMMA StateTypes ==
    ASSUME IInv
    PROVE  /\ TypeInv
           /\ stage \in Stages /\ mem \in PersistedSession /\ disk \in PersistedSession
           /\ overlapped \in BOOLEAN /\ signedOut \in BOOLEAN
  BY DEF IInv, TypeInv

(* The requests of the dashboard, and the engine.                          *)
LEMMA Dashboards ==
    Dashboard \in Seq(Kinds) /\ Len(Dashboard) = 4 /\ Len(Dashboard) <= 5
<1>1. Dashboard \in Seq(Kinds) /\ Len(Dashboard) = 4
  BY DEF Dashboard, Kinds
<1> QED
  BY <1>1

-----------------------------------------------------------------------------
(* initialize begins, or a button's handler whose first await changes      *)
(* neither memory nor storage.                                             *)
LEMMA Begins ==
    ASSUME IInv, NEW h \in Handlers, NEW pc \in Labels, NEW op \in Ops,
           Becomes(h, Handler(pc, op, <<>>, NoSession, None, FALSE)),
           UNCHANGED <<stage, mem, disk>>, signedOut' \in BOOLEAN,
           overlapped' = (overlapped \/ InFlight # {}),
           \/ pc = "load" /\ op = "initialize" /\ stage = "bootstrapping"
           \/ pc = "ask" /\ op \in AskCode /\ stage # "bootstrapping"
           \/ pc = "verify" /\ op \in SignIn /\ stage # "bootstrapping"
           \/ pc \in {"revoke", "clear"} /\ op = "logout" /\ stage # "bootstrapping"
    PROVE  IInv'
<1>1. <<>> \in Seq(Kinds) /\ Len(<<>>) <= 5
  OBVIOUS
<1>2. pc \in Labels \union {"idle"} /\ pc \notin Asking \union Saving
  BY DEF Saving, Asking
<1>3. Next_(h, pc, op, <<>>, NoSession, None, FALSE)
  BY <1>1, <1>2, Assigns, SessionFacts, StateTypes
<1>4. ASSUME ~overlapped'
      PROVE  ~overlapped /\ InFlight = {} /\ Calm(call[h])' /\ SignedIn'
  <2>1. ~overlapped /\ InFlight = {}
    BY <1>4
  <2>2. /\ SignedIn
        /\ stage # "bootstrapping" =>
             disk = mem /\ (stage = "codeVerification" => mem.challenge)
    BY <2>1, Rest
  <2>3. Calm(call[h])'
    BY <1>3, <2>2 DEF Calm, Next_, Saving, Asking, AskCode, SignIn
  <2> QED
    BY <2>1, <2>2, <2>3 DEF SignedIn
<1>5. overlapped' \in BOOLEAN
  BY StateTypes
<1> QED
  BY <1>1, <1>2, <1>3, <1>4, <1>5, Kept, StateTypes

(* initialize, and the buttons that wait for an answer first.              *)
LEMMA BeginSteps ==
    ASSUME IInv, NEW h \in Handlers,
           Initialize(h) \/ StartAuth(h) \/ ResendAuthCode(h) \/ VerifyAuth(h)
             \/ VerifyAuthLink(h) \/ Logout(h)
    PROVE  IInv'
<1> USE DEF Ops, Labels, Waiting, AskCode, SignIn
<1>1. CASE Initialize(h)
  BY <1>1, Begins, StateTypes DEF Initialize
<1>2. CASE StartAuth(h)
  BY <1>2, Begins, StateTypes DEF StartAuth, Pressed
<1>3. CASE ResendAuthCode(h)
  BY <1>3, Begins, StateTypes DEF ResendAuthCode, Pressed
<1>4. CASE VerifyAuth(h)
  BY <1>4, Begins, StateTypes DEF VerifyAuth, Pressed
<1>5. CASE VerifyAuthLink(h)
  BY <1>5, Begins, StateTypes DEF VerifyAuthLink, Pressed
<1>6. CASE Logout(h)
  <2>1. PICK pc \in {"revoke", "clear"} :
          Becomes(h, Handler(pc, "logout", <<>>, NoSession, None, FALSE))
    BY <1>6 DEF Logout
  <2> QED
    BY <1>6, <2>1, Begins, StateTypes DEF Logout, Pressed
<1> QED
  BY <1>1, <1>2, <1>3, <1>4, <1>5, <1>6

(* A handler looks for its next request, from a screen that is signed in   *)
(* or that becomes so.                                                     *)
LEMMA Seeks ==
    ASSUME IInv, NEW h \in Handlers, NEW session \in PersistedSession,
           NEW todo \in Seq(Kinds), Len(todo) <= 5, NEW again \in BOOLEAN,
           Becomes(h, NextRequest(session, todo, again)),
           mem' = session, stage' \in Stages, disk' \in PersistedSession,
           overlapped' \in BOOLEAN, UNCHANGED signedOut,
           ~overlapped' =>
             /\ ~overlapped
             /\ InFlight = {} \/ call[h].pc # "idle"
             /\ stage' = "authenticated" /\ disk' = session /\ session.refresh # None
    PROVE  IInv'
<1>1. PICK pc \in {"idle", "send", "refresh", "expire", "engine"}, op \in {"none", "request"},
           rest \in {todo, <<>>}, token \in Token, more \in BOOLEAN :
        /\ Next_(h, pc, op, rest, NoSession, token, more)
        /\ pc # "idle" <=> op = "request"
        /\ pc \in Asking => rest # <<>>
        /\ pc = "refresh" => session.access = None
        /\ pc = "expire" => session.access = None /\ session.refresh = None
  BY Requests, StateTypes
<1>2. Len(rest) <= 5 /\ pc \notin Saving
  BY DEF Saving
<1>3. ASSUME ~overlapped' PROVE Calm(call[h])' /\ SignedIn'
  <2>1. SignedIn'
    BY <1>3 DEF SignedIn
  <2>2. pc # "expire"
    BY <1>1, <1>3
  <2>3. Calm(call[h])'
    BY <1>1, <1>2, <1>3, <2>2 DEF Calm, Next_, Saving, Asking, AskCode, SignIn
  <2> QED
    BY <2>1, <2>3
<1>4. signedOut' \in BOOLEAN
  BY StateTypes
<1> QED
  BY <1>1, <1>2, <1>3, <1>4, Kept

(* The buttons of the signed-in screens.                                   *)
LEMMA RequestStep ==
    ASSUME IInv, NEW h \in Handlers, NEW op \in DOMAIN Requested, Request(h, op)
    PROVE  IInv'
<1>1. PICK todo \in Seq(Kinds) : todo = Requested[op] /\ Len(todo) <= 5
  <2>1. PICK one \in Seq(Kinds) : one = <<"once">> /\ Len(one) = 1
    <3>1. <<"once">> \in Seq(Kinds) /\ Len(<<"once">>) = 1
      BY DEF Kinds
    <3> QED
      BY <3>1
  <2>2. PICK retried \in Seq(Kinds) : retried = <<"retried">> /\ Len(retried) = 1
    <3>1. <<"retried">> \in Seq(Kinds) /\ Len(<<"retried">>) = 1
      BY DEF Kinds
    <3> QED
      BY <3>1
  <2>3. PICK dashboard \in Seq(Kinds) : dashboard = Dashboard /\ Len(dashboard) = 4
    BY Dashboards
  <2>4. one \o dashboard \in Seq(Kinds) /\ Len(one \o dashboard) <= 5
    <3>1. /\ one \o dashboard \in Seq(Kinds)
          /\ Len(one \o dashboard) = Len(one) + Len(dashboard)
      BY ConcatProperties, Zenon
    <3> QED
      BY <2>1, <2>3, <3>1
  <2>5. PICK connect \in Seq(Kinds) : connect = <<"once", "engine">> /\ Len(connect) = 2
    <3>1. <<"once", "engine">> \in Seq(Kinds) /\ Len(<<"once", "engine">>) = 2
      BY DEF Kinds
    <3> QED
      BY <3>1
  <2>6. PICK engine \in Seq(Kinds) : engine = <<"engine">> /\ Len(engine) = 1
    <3>1. <<"engine">> \in Seq(Kinds) /\ Len(<<"engine">>) = 1
      BY DEF Kinds
    <3> QED
      BY <3>1
  <2>7. Requested[op] \in {Dashboard, <<"once">> \o Dashboard, <<"once", "engine">>,
                          <<"engine">>, <<"retried">>}
    BY DEF Requested
  <2>8. PICK todo \in {dashboard, one \o dashboard, connect, engine, retried} :
          todo = Requested[op]
    BY <2>1, <2>2, <2>3, <2>5, <2>6, <2>7, Zenon
  <2>9. /\ Len(retried) <= 5 /\ Len(dashboard) <= 5
        /\ Len(connect) <= 5 /\ Len(engine) <= 5
    BY <2>2, <2>3, <2>5, <2>6
  <2>10. todo \in Seq(Kinds) /\ Len(todo) <= 5
    BY <2>4, <2>9, Zenon
  <2> QED
    BY <2>8, <2>10
<1>2. /\ Becomes(h, NextRequest(mem, todo, FALSE)) /\ stage = "authenticated"
      /\ overlapped' = (overlapped \/ InFlight # {})
      /\ UNCHANGED <<stage, mem, disk, signedOut>>
  BY <1>1 DEF Request, Pressed
<1>3. ASSUME ~overlapped'
      PROVE  ~overlapped /\ InFlight = {} /\ disk' = mem /\ mem.refresh # None
  BY <1>2, <1>3, Rest DEF SignedIn
<1> QED
  BY <1>1, <1>2, <1>3, Seeks, StateTypes

(* The fields of the session in memory.                                    *)
LEMMA MemTypes ==
    ASSUME IInv
    PROVE  /\ mem.access \in Token /\ mem.refresh \in Token /\ mem.challenge \in BOOLEAN
           /\ TRUE \in BOOLEAN /\ FALSE \in BOOLEAN
  BY StateTypes, SessionFacts

-----------------------------------------------------------------------------
(* A save begins: what is saved keeps the stored refresh token, or is the  *)
(* session of a sign-in.                                                   *)
LEMMA Saves ==
    ASSUME IInv, NEW h \in Handlers, NEW op \in Ops, NEW session \in PersistedSession,
           NEW todo \in Seq(Kinds), Len(todo) <= 5, NEW token \in Token,
           NEW again \in BOOLEAN, token # None => todo # <<>>,
           Save(h, op, session, todo, token, again),
           UNCHANGED <<stage, disk, signedOut>>, overlapped' \in BOOLEAN,
           ~overlapped' =>
             /\ ~overlapped
             /\ InFlight = {} \/ call[h].pc # "idle"
             /\ stage # "bootstrapping"
             /\ stage = "authenticated" => session.refresh # None
             /\ op \in {"restartAuth", "request"} \union SignIn \union AskCode
             /\ op \notin SignIn => session.refresh = disk.refresh
             /\ op \in SignIn => session.refresh # None
             /\ op \in AskCode => session.challenge
             /\ op = "request" => stage = "authenticated"
             /\ ~again /\ disk.access # None => session.access # None
    PROVE  IInv'
<1>1. Next_(h, "access", op, todo, session, token, again)
  <2>1. "access" \in Labels \union {"idle"}
    BY DEF Labels
  <2> QED
    BY <2>1, Assigns, StateTypes DEF Save
<1>2. mem' = session
  BY DEF Save
<1>3. ASSUME ~overlapped' PROVE Calm(call[h])' /\ SignedIn'
  <2>1. SignedIn'
    BY <1>2, <1>3 DEF SignedIn
  <2>2. Calm(call[h])'
    BY <1>1, <1>2, <1>3 DEF Calm, Next_, Saving, Asking
  <2> QED
    BY <2>1, <2>2
<1>4. "access" \notin Asking
  BY DEF Asking
<1> QED
  BY <1>1, <1>2, <1>3, <1>4, Kept, StateTypes

(* Back on the code screen.                                                *)
LEMMA RestartAuthStep ==
    ASSUME IInv, NEW h \in Handlers, RestartAuth(h)
    PROVE  IInv'
<1>1. PICK session \in PersistedSession :
        /\ session = Session(mem.access, mem.refresh, FALSE)
        /\ session.refresh = mem.refresh /\ session.access = mem.access
  <2>1. Session(mem.access, mem.refresh, FALSE) \in PersistedSession
    BY MemTypes DEF Session, PersistedSession
  <2>2. /\ Session(mem.access, mem.refresh, FALSE).refresh = mem.refresh
        /\ Session(mem.access, mem.refresh, FALSE).access = mem.access
    BY DEF Session
  <2> QED
    BY <2>1, <2>2, Zenon
<1>2. /\ Save(h, "restartAuth", session, <<>>, None, FALSE)
      /\ stage = "codeVerification" /\ UNCHANGED <<stage, disk, signedOut>>
      /\ overlapped' = (overlapped \/ InFlight # {})
  BY <1>1 DEF RestartAuth, Pressed
<1>3. ASSUME ~overlapped' PROVE ~overlapped /\ InFlight = {} /\ disk = mem
  BY <1>2, <1>3, Rest
<1>4. PICK op \in Ops : op = "restartAuth"
  BY DEF Ops
<1>5. <<>> \in Seq(Kinds) /\ Len(<<>>) <= 5 /\ None \in Token /\ op \notin SignIn \union AskCode
  BY <1>4, SessionFacts DEF SignIn, AskCode
<1>6. overlapped' \in BOOLEAN
  BY <1>2, StateTypes
<1> QED
  BY <1>1, <1>2, <1>3, <1>4, <1>5, <1>6, Saves

(* A code was sent.                                                        *)
LEMMA CodeSentStep ==
    ASSUME IInv, NEW h \in Handlers, CodeSent(h)
    PROVE  IInv'
<1>1. PICK session \in PersistedSession :
        /\ session = Session(mem.access, mem.refresh, TRUE)
        /\ session.refresh = mem.refresh /\ session.challenge /\ session.access = mem.access
  <2>1. Session(mem.access, mem.refresh, TRUE) \in PersistedSession
    BY MemTypes DEF Session, PersistedSession
  <2>2. /\ Session(mem.access, mem.refresh, TRUE).refresh = mem.refresh
        /\ Session(mem.access, mem.refresh, TRUE).challenge
        /\ Session(mem.access, mem.refresh, TRUE).access = mem.access
    BY DEF Session
  <2> QED
    BY <2>1, <2>2, Zenon
<1>2. PICK op \in Ops : op = call[h].op
  BY CallTypes, StateTypes
<1>3. /\ Save(h, op, session, <<>>, None, FALSE) /\ call[h].pc = "asked"
      /\ UNCHANGED <<stage, disk, signedOut, overlapped>>
  BY <1>1, <1>2 DEF CodeSent, At
<1>4. ASSUME ~overlapped'
      PROVE  /\ ~overlapped /\ op \in AskCode /\ stage # "bootstrapping"
             /\ disk = mem /\ SignedIn
  BY <1>2, <1>3, <1>4, Alone DEF Calm, Saving
<1>5. /\ <<>> \in Seq(Kinds) /\ Len(<<>>) <= 5 /\ None \in Token
      /\ op \in AskCode => op \notin SignIn /\ op # "request"
  BY SessionFacts DEF SignIn, AskCode
<1>6. overlapped' \in BOOLEAN
  BY <1>3, StateTypes
<1> QED
  BY <1>1, <1>3, <1>4, <1>5, <1>6, Saves DEF SignedIn

(* A session was opened.                                                   *)
LEMMA VerifiedStep ==
    ASSUME IInv, NEW h \in Handlers, NEW s \in Sessions, Verified(h, s)
    PROVE  IInv'
<1>1. s \in Token /\ s # None
  BY SessionAssumption DEF Token
<1>2. PICK session \in PersistedSession :
        session = Session(s, s, FALSE) /\ session.refresh = s /\ session.access = s
  <2>1. Session(s, s, FALSE) \in PersistedSession
    BY <1>1 DEF Session, PersistedSession
  <2>2. Session(s, s, FALSE).refresh = s /\ Session(s, s, FALSE).access = s
    BY DEF Session
  <2> QED
    BY <2>1, <2>2, Zenon
<1>3. PICK op \in Ops : op = call[h].op
  BY CallTypes, StateTypes
<1>4. PICK todo \in Seq(Kinds) : todo = Dashboard /\ Len(todo) <= 5
  BY Dashboards
<1>5. /\ Save(h, op, session, todo, None, FALSE) /\ call[h].pc = "verified"
      /\ UNCHANGED <<stage, disk, signedOut, overlapped>>
  BY <1>2, <1>3, <1>4 DEF Verified, At
<1>6. ASSUME ~overlapped'
      PROVE  ~overlapped /\ op \in SignIn /\ stage # "bootstrapping"
  BY <1>3, <1>5, <1>6, Alone DEF Calm
<1>7. None \in Token /\ (op \in SignIn => op \notin AskCode /\ op # "request")
  BY SessionFacts DEF SignIn, AskCode
<1>8. overlapped' \in BOOLEAN
  BY <1>5, StateTypes
<1> QED
  BY <1>1, <1>2, <1>4, <1>5, <1>6, <1>7, <1>8, Saves

(* An access token was issued.                                             *)
LEMMA RefreshedStep ==
    ASSUME IInv, NEW h \in Handlers, Refreshed(h)
    PROVE  IInv'
<1>1. /\ call[h].token \in Token /\ call[h].op \in Ops /\ call[h].again \in BOOLEAN
      /\ call[h].todo \in Seq(Kinds) /\ Len(call[h].todo) <= 5
  BY CallTypes, StateTypes
<1>2. PICK op \in Ops, todo \in Seq(Kinds), token \in Token, again \in BOOLEAN :
        op = call[h].op /\ todo = call[h].todo /\ token = call[h].token /\ again = call[h].again
  BY <1>1
<1>3. PICK session \in PersistedSession :
        session = Session(token, mem.refresh, FALSE) /\ session.refresh = mem.refresh
  <2>1. Session(token, mem.refresh, FALSE) \in PersistedSession
    BY MemTypes DEF Session, PersistedSession
  <2>2. Session(token, mem.refresh, FALSE).refresh = mem.refresh
    BY DEF Session
  <2> QED
    BY <2>1, <2>2, Zenon
<1>4. /\ Save(h, op, session, todo, token, again) /\ call[h].pc = "refreshed"
      /\ UNCHANGED <<stage, disk, signedOut, overlapped>>
  BY <1>2, <1>3 DEF Refreshed, At
<1>5. todo # <<>> /\ Len(todo) <= 5
  BY <1>1, <1>2, <1>4, StateTypes DEF TypeInv, Asking
<1>6. ASSUME ~overlapped'
      PROVE  /\ ~overlapped /\ op = "request" /\ stage = "authenticated" /\ disk = mem
             /\ mem.refresh # None /\ mem.access = None
  BY <1>2, <1>4, <1>6, Alone DEF Calm, Saving, Asking, SignedIn
<1>7. op = "request" => op \notin SignIn \union AskCode
  BY DEF SignIn, AskCode
<1>8. overlapped' \in BOOLEAN
  BY <1>4, StateTypes
<1>9. ASSUME ~overlapped'
      PROVE  /\ ~overlapped /\ call[h].pc # "idle" /\ stage # "bootstrapping"
             /\ stage = "authenticated" => session.refresh # None
             /\ op \in {"restartAuth", "request"} \union SignIn \union AskCode
             /\ op \notin SignIn => session.refresh = disk.refresh
             /\ op \in SignIn => session.refresh # None
             /\ op \in AskCode => session.challenge
             /\ op = "request" => stage = "authenticated"
             /\ ~again /\ disk.access # None => session.access # None
  BY <1>3, <1>4, <1>6, <1>7, <1>9
<1>10. /\ Save(h, op, session, todo, token, again)
       /\ UNCHANGED <<stage, disk, signedOut>>
  BY <1>4
<1> QED
  BY <1>5, <1>8, <1>9, <1>10, Saves

-----------------------------------------------------------------------------
(* The stage and the session when the app starts again.                    *)
LEMMA LoadStep ==
    ASSUME IInv, NEW h \in Handlers, Load(h)
    PROVE  IInv'
<1>1. /\ call[h].pc = "load" /\ mem' = disk /\ UNCHANGED <<disk, overlapped, signedOut>>
  BY DEF Load, At
<1>2. stage' \in Stages
  BY DEF Load, Stages
<1>3. CASE Ends(h) /\ stage' # "authenticated" /\ (stage' = "codeVerification" => disk.challenge)
  <2>1. Next_(h, "idle", "none", <<>>, NoSession, None, FALSE)
    BY <1>3, EndAssigns, StateTypes
  <2>2. ASSUME ~overlapped' PROVE Calm(call[h])' /\ SignedIn'
    BY <1>1, <1>3, <2>1 DEF Calm, Next_, Saving, Asking, SignedIn
  <2>3. Len(<<>>) <= 5 /\ "idle" \notin Asking \union Saving
    BY DEF Saving, Asking
  <2> QED
    BY <1>1, <1>2, <2>1, <2>2, <2>3, Kept, StateTypes
<1>4. CASE /\ disk.refresh # None /\ stage' = "authenticated"
           /\ Becomes(h, NextRequest(disk, Dashboard, FALSE))
  <2>1. PICK todo \in Seq(Kinds) : todo = Dashboard /\ Len(todo) <= 5
    BY Dashboards
  <2> QED
    BY <1>1, <1>2, <1>4, <2>1, Seeks, StateTypes
<1> QED
  BY <1>3, <1>4 DEF Load

(* The writes of a save.                                                   *)
LEMMA WriteSteps ==
    ASSUME IInv, NEW h \in Handlers, WriteAccess(h) \/ WriteRefresh(h) \/ WriteChallenge(h)
    PROVE  IInv'
<1>1. /\ call[h].pc \in Labels \union {"idle"} /\ call[h].op \in Ops
      /\ call[h].todo \in Seq(Kinds) /\ Len(call[h].todo) <= 5
      /\ call[h].copy \in PersistedSession /\ call[h].token \in Token
      /\ call[h].again \in BOOLEAN
  BY CallTypes, StateTypes
<1>2. /\ call[h].copy.access \in Token /\ call[h].copy.refresh \in Token
      /\ call[h].copy.challenge \in BOOLEAN
      /\ disk.access \in Token /\ disk.refresh \in Token /\ disk.challenge \in BOOLEAN
  BY <1>1, StateTypes, SessionFacts
<1>3. PICK label \in {"refreshKey", "challenge", "login"}, disk2 \in PersistedSession :
        /\ Continues(h, label) /\ disk' = disk2 /\ UNCHANGED <<stage, mem, overlapped, signedOut>>
        /\ \/ /\ label = "refreshKey" /\ call[h].pc = "access"
              /\ disk2.access = call[h].copy.access /\ disk2.refresh = disk.refresh
           \/ /\ label = "challenge" /\ call[h].pc = "refreshKey"
              /\ disk2.access = disk.access /\ disk2.refresh = call[h].copy.refresh
           \/ /\ label = "login" /\ call[h].pc = "challenge"
              /\ disk2.access = disk.access /\ disk2.refresh = disk.refresh
              /\ disk2.challenge = call[h].copy.challenge
  <2>1. CASE WriteAccess(h)
    BY <1>2, <2>1, NewSession DEF WriteAccess, At
  <2>2. CASE WriteRefresh(h)
    BY <1>2, <2>2, NewSession DEF WriteRefresh, At
  <2>3. CASE WriteChallenge(h)
    BY <1>2, <2>3, NewSession DEF WriteChallenge, At
  <2> QED
    BY <2>1, <2>2, <2>3
<1>4. Next_(h, label, call[h].op, call[h].todo, call[h].copy, call[h].token, call[h].again)
  <2>1. label \in Labels \union {"idle"}
    BY DEF Labels
  <2> QED
    BY <1>3, <2>1, Continuing, StateTypes
<1>5. /\ label \in Saving /\ label \notin Asking /\ call[h].pc \in Saving
      /\ (call[h].token # None => call[h].todo # <<>>)
  BY <1>3, StateTypes DEF TypeInv, Saving, Asking
<1>6. ASSUME ~overlapped' PROVE ~overlapped /\ Calm(call[h])' /\ SignedIn'
  <2>1. ~overlapped /\ SignedIn /\ Calm(call[h])
    BY <1>3, <1>5, <1>6, Alone DEF Saving
  <2>2. Calm(call[h])'
    BY <1>3, <1>4, <1>5, <2>1 DEF Calm, Next_, Saving
  <2> QED
    BY <1>3, <2>1, <2>2 DEF SignedIn
<1> QED
  BY <1>1, <1>3, <1>4, <1>5, <1>6, Kept, StateTypes DEF Saving

(* A handler ends, and leaves things calm.                                 *)
LEMMA EndsCalmly ==
    ASSUME IInv, NEW h \in Handlers, Ends(h),
           stage' \in Stages, mem' \in PersistedSession, disk' \in PersistedSession,
           UNCHANGED overlapped, signedOut' \in BOOLEAN,
           call[h].pc # "idle",
           ~overlapped' =>
             /\ SignedIn'
             /\ stage' # "bootstrapping" =>
                  disk' = mem' /\ (stage' = "codeVerification" => mem'.challenge)
    PROVE  IInv'
<1>1. Next_(h, "idle", "none", <<>>, NoSession, None, FALSE)
  BY EndAssigns, StateTypes
<1>2. ASSUME ~overlapped' PROVE Calm(call[h])'
  BY <1>1, <1>2 DEF Calm, Next_, Saving, Asking
<1>3. Len(<<>>) <= 5 /\ "idle" \notin Asking \union Saving
  BY DEF Saving, Asking
<1> QED
  BY <1>1, <1>2, <1>3, Kept, StateTypes

(* What follows a save.                                                    *)
LEMMA SavedStep ==
    ASSUME IInv, NEW h \in Handlers, Saved(h)
    PROVE  IInv'
<1>1. /\ call[h].op \in Ops /\ call[h].todo \in Seq(Kinds) /\ Len(call[h].todo) <= 5
      /\ call[h].copy \in PersistedSession /\ call[h].token \in Token
      /\ call[h].again \in BOOLEAN
  BY CallTypes, StateTypes
<1>2. UNCHANGED <<mem, disk, overlapped, signedOut>> /\ call[h].pc = "login"
  BY DEF Saved, At
<1>3. disk' \in PersistedSession
  BY <1>2, StateTypes
<1>4. ASSUME ~overlapped'
      PROVE  /\ ~overlapped /\ SignedIn /\ Calm(call[h])
             /\ disk' = mem /\ mem = call[h].copy
  <2>1. ~overlapped /\ SignedIn /\ Calm(call[h])
    BY <1>2, <1>4, Alone
  <2>2. /\ mem = call[h].copy /\ disk.access = call[h].copy.access
        /\ disk.refresh = call[h].copy.refresh /\ disk.challenge = call[h].copy.challenge
    BY <1>2, <2>1 DEF Calm, Saving
  <2>3. /\ disk = Session(disk.access, disk.refresh, disk.challenge)
        /\ mem = Session(mem.access, mem.refresh, mem.challenge)
    BY StateTypes, SessionFacts
  <2>4. disk = mem
    BY <2>2, <2>3
  <2> QED
    BY <1>2, <2>1, <2>2, <2>4
<1>5. CASE /\ call[h].op \in AskCode /\ stage' = "codeVerification" /\ Ends(h)
  <2>1. ASSUME ~overlapped' PROVE SignedIn' /\ mem'.challenge /\ disk' = mem'
    BY <1>2, <1>4, <1>5, <2>1 DEF Calm, Saving, SignedIn
  <2> QED
    BY <1>2, <1>3, <1>5, <2>1, EndsCalmly, StateTypes DEF Stages
<1>6. CASE /\ call[h].op = "restartAuth" /\ stage' = "onboarding" /\ Ends(h)
  <2>1. ASSUME ~overlapped' PROVE SignedIn' /\ disk' = mem'
    BY <1>2, <1>4, <1>6, <2>1 DEF SignedIn
  <2> QED
    BY <1>2, <1>3, <1>6, <2>1, EndsCalmly, StateTypes DEF Stages
<1>7. CASE /\ call[h].op \in SignIn /\ stage' = "authenticated"
           /\ Becomes(h, NextRequest(mem, Dashboard, FALSE))
  <2>1. ASSUME ~overlapped' PROVE ~overlapped /\ disk' = mem /\ mem.refresh # None
    BY <1>2, <1>4, <1>7, <2>1 DEF Calm, Saving
  <2>2. PICK todo \in Seq(Kinds) : todo = Dashboard /\ Len(todo) <= 5
    BY Dashboards
  <2>3. PICK no \in BOOLEAN : no = FALSE
    OBVIOUS
  <2>4. Becomes(h, NextRequest(mem, todo, no))
    BY <1>7, <2>2, <2>3
  <2>5. stage' \in Stages /\ overlapped' \in BOOLEAN
    BY <1>2, <1>7, StateTypes DEF Stages
  <2> QED
    BY <1>2, <1>3, <1>7, <2>1, <2>2, <2>4, <2>5, Seeks, StateTypes
<1>8. CASE /\ call[h].op = "request" /\ UNCHANGED stage /\ call[h].token = None
           /\ Becomes(h, NextRequest(mem, call[h].todo, call[h].again))
  <2>1. ASSUME ~overlapped'
        PROVE  ~overlapped /\ disk' = mem /\ stage' = "authenticated" /\ mem.refresh # None
    BY <1>2, <1>4, <1>8, <2>1 DEF Calm, Saving, SignedIn
  <2>2. stage' \in Stages /\ overlapped' \in BOOLEAN
    BY <1>2, <1>8, StateTypes
  <2> QED
    BY <1>1, <1>2, <1>3, <1>8, <2>1, <2>2, Seeks, StateTypes
<1>9. CASE /\ call[h].op = "request" /\ UNCHANGED stage /\ call[h].token # None
           /\ Becomes(h, Handler("send", "request", call[h].todo, NoSession, call[h].token,
                                 call[h].again))
  <2>1. PICK pc \in Labels \union {"idle"}, op \in Ops : pc = "send" /\ op = "request"
    BY DEF Labels, Waiting, Ops
  <2>2. Next_(h, pc, op, call[h].todo, NoSession, call[h].token, call[h].again)
    <3>1. Becomes(h, Handler(pc, op, call[h].todo, NoSession, call[h].token, call[h].again))
      BY <1>9, <2>1
    <3>2. NoSession \in PersistedSession
      BY SessionFacts
    <3> QED
      BY <1>1, <3>1, <3>2, Assigns, StateTypes
  <2>3. ASSUME ~overlapped' PROVE ~overlapped /\ Calm(call[h])' /\ SignedIn'
    <3>1. ~overlapped /\ SignedIn /\ disk' = mem /\ stage = "authenticated"
      BY <1>2, <1>4, <1>9, <2>3 DEF Calm, Saving
    <3>2. Calm(call[h])'
      BY <1>2, <1>9, <2>1, <2>2, <3>1 DEF Calm, Next_, Saving, Asking, SignIn, AskCode
    <3> QED
      BY <1>2, <1>9, <3>1, <3>2 DEF SignedIn
  <2>4. call[h].todo # <<>>
    BY <1>2, <1>9, StateTypes DEF TypeInv, Saving
  <2>5. /\ stage' \in Stages /\ mem' \in PersistedSession /\ overlapped' \in BOOLEAN
        /\ signedOut' \in BOOLEAN
    BY <1>2, <1>9, StateTypes
  <2> QED
    BY <1>1, <1>2, <1>3, <2>1, <2>2, <2>3, <2>4, <2>5, Kept
<1> QED
  BY <1>5, <1>6, <1>7, <1>8, <1>9 DEF Saved, AskCode, SignIn

(* The next request, or the next attempt.                                  *)
LEMMA AnsweredStep ==
    ASSUME IInv, NEW h \in Handlers, Answered(h)
    PROVE  IInv'
<1>1. /\ call[h].pc = "sent" /\ UNCHANGED <<stage, mem, disk, overlapped, signedOut>>
      /\ Becomes(h, NextRequest(mem, Tail(call[h].todo), FALSE))
  BY DEF Answered, At
<1>2. call[h].todo \in Seq(Kinds) /\ Len(call[h].todo) <= 5 /\ call[h].todo # <<>>
  BY <1>1, CallTypes, StateTypes DEF TypeInv, Asking
<1>3. Tail(call[h].todo) \in Seq(Kinds) /\ Len(Tail(call[h].todo)) <= 5
  BY <1>2
<1>4. ASSUME ~overlapped'
      PROVE  ~overlapped /\ stage' = "authenticated" /\ disk' = mem /\ mem.refresh # None
  BY <1>1, <1>4, Alone DEF Calm, Saving, Asking, SignedIn
<1>5. PICK no \in BOOLEAN : no = FALSE
  OBVIOUS
<1>6. Becomes(h, NextRequest(mem, Tail(call[h].todo), no))
  BY <1>1, <1>5
<1>7. stage' \in Stages /\ disk' \in PersistedSession /\ overlapped' \in BOOLEAN
  BY <1>1, StateTypes
<1> QED
  BY <1>1, <1>3, <1>4, <1>6, <1>7, Seeks, StateTypes

(* A refusal: the access token is dropped, or the handler gives up.        *)
LEMMA RefusedStep ==
    ASSUME IInv, NEW h \in Handlers, Refused(h)
    PROVE  IInv'
<1>1. call[h].pc = "sent" /\ UNCHANGED <<stage, disk, overlapped, signedOut>>
  BY DEF Refused, At
<1>2. ASSUME ~overlapped'
      PROVE  /\ ~overlapped /\ call[h].op = "request" /\ stage = "authenticated"
             /\ disk = mem /\ mem.refresh # None
  BY <1>1, <1>2, Alone DEF Calm, Saving, Asking, SignedIn
<1>3. CASE Ends(h) /\ UNCHANGED mem
  <2>1. ASSUME ~overlapped' PROVE SignedIn' /\ disk' = mem' /\ stage' = "authenticated"
    BY <1>1, <1>2, <1>3, <2>1 DEF SignedIn
  <2> QED
    BY <1>1, <1>3, <2>1, EndsCalmly, StateTypes
<1>4. CASE Save(h, call[h].op, Session(None, mem.refresh, mem.challenge), call[h].todo, None, TRUE)
  <2>1. PICK op \in Ops, todo \in Seq(Kinds), again \in BOOLEAN, token \in Token :
          /\ op = call[h].op /\ todo = call[h].todo /\ Len(todo) <= 5
          /\ again = TRUE /\ token = None
    BY CallTypes, StateTypes, SessionFacts
  <2>2. PICK session \in PersistedSession :
          session = Session(None, mem.refresh, mem.challenge) /\ session.refresh = mem.refresh
    <3>1. Session(None, mem.refresh, mem.challenge) \in PersistedSession
      BY MemTypes, SessionFacts DEF Session, PersistedSession
    <3>2. Session(None, mem.refresh, mem.challenge).refresh = mem.refresh
      BY DEF Session
    <3> QED
      BY <3>1, <3>2, Zenon
  <2>3. Save(h, op, session, todo, token, again)
    BY <1>4, <2>1, <2>2
  <2>4. op = "request" => op \notin SignIn \union AskCode
    BY DEF SignIn, AskCode
  <2>5. overlapped' \in BOOLEAN
    BY <1>1, StateTypes
  <2> QED
    BY <1>1, <1>2, <2>1, <2>2, <2>3, <2>4, <2>5, Saves
<1> QED
  BY <1>3, <1>4 DEF Refused

(* The other ends.                                                         *)
LEMMA EndSteps ==
    ASSUME IInv, NEW h \in Handlers,
           Failed(h) \/ EngineAnswers(h) \/ Cleared(h) \/ Expired(h)
    PROVE  IInv'
<1>1. CASE Failed(h) \/ EngineAnswers(h)
  <2>1. /\ call[h].pc \in Waiting \union Reading \union {"engine"} /\ Ends(h)
        /\ UNCHANGED <<stage, mem, disk, overlapped, signedOut>>
    BY <1>1 DEF Failed, EngineAnswers, At
  <2>2. call[h].pc \notin Saving \union {"idle", "load", "cleared"}
    BY <2>1 DEF Waiting, Reading, Saving
  <2>3. ASSUME ~overlapped'
        PROVE  /\ SignedIn'
               /\ stage' # "bootstrapping" =>
                    disk' = mem' /\ (stage' = "codeVerification" => mem'.challenge)
    BY <2>1, <2>2, <2>3, Alone DEF Calm, SignedIn
  <2> QED
    BY <2>1, <2>2, <2>3, EndsCalmly, StateTypes
<1>2. CASE Cleared(h) \/ Expired(h)
  <2>1. /\ call[h].pc \in {"cleared", "expired"} /\ Ends(h) /\ mem' = NoSession
        /\ stage' = "onboarding" /\ UNCHANGED <<disk, overlapped>> /\ signedOut' \in BOOLEAN
    BY <1>2, StateTypes DEF Cleared, Expired, At
  <2>2. ASSUME ~overlapped' PROVE disk' = mem'
    BY <2>1, <2>2, Alone DEF Calm
  <2>3. SignedIn' /\ stage' # "codeVerification"
    BY <2>1 DEF SignedIn
  <2>4. stage' \in Stages /\ NoSession \in PersistedSession
    BY <2>1, SessionFacts DEF Stages
  <2> QED
    BY <2>1, <2>2, <2>3, <2>4, EndsCalmly, StateTypes
<1> QED
  BY <1>1, <1>2

(* An answer begins, logout has sent its request, or the storage is        *)
(* cleared.                                                                *)
LEMMA GoesOn ==
    ASSUME IInv, NEW h \in Handlers, AnswerBegins(h) \/ Revoked(h) \/ DeleteAll(h)
    PROVE  IInv'
<1>1. PICK label \in Reading \union {"clear", "cleared", "expired"} :
        /\ Continues(h, label)
        /\ \/ call[h].pc = "ask" /\ label = "asked"
           \/ call[h].pc = "verify" /\ label = "verified"
           \/ call[h].pc = "send" /\ label = "sent"
           \/ call[h].pc = "refresh" /\ label = "refreshed"
           \/ call[h].pc = "revoke" /\ label = "clear"
           \/ call[h].pc = "clear" /\ label = "cleared" /\ disk' = NoSession
           \/ call[h].pc = "expire" /\ label = "expired" /\ disk' = NoSession
        /\ label \in Reading \union {"clear"} => UNCHANGED disk
  <2>1. CASE AnswerBegins(h)
    <3>1. CASE call[h].pc = "ask"
      BY <2>1, <3>1 DEF AnswerBegins, Begun, Reading
    <3>2. CASE call[h].pc = "verify"
      BY <2>1, <3>2 DEF AnswerBegins, Begun, Reading
    <3>3. CASE call[h].pc = "send"
      BY <2>1, <3>3 DEF AnswerBegins, Begun, Reading
    <3>4. CASE call[h].pc = "refresh"
      BY <2>1, <3>4 DEF AnswerBegins, Begun, Reading
    <3> QED
      BY <2>1, <3>1, <3>2, <3>3, <3>4 DEF AnswerBegins, Waiting
  <2>2. CASE Revoked(h)
    BY <2>2 DEF Revoked, At
  <2>3. CASE DeleteAll(h)
    BY <2>3 DEF DeleteAll, At, Reading
  <2> QED
    BY <2>1, <2>2, <2>3
<1>2. UNCHANGED <<stage, mem, overlapped, signedOut>>
  BY DEF AnswerBegins, Revoked, DeleteAll
<1>3. Next_(h, label, call[h].op, call[h].todo, call[h].copy, call[h].token, call[h].again)
  <2>1. label \in Labels \union {"idle"}
    BY DEF Labels
  <2> QED
    BY <1>1, <2>1, Continuing, StateTypes
<1>4. /\ label \notin Saving /\ (label \in Asking => call[h].todo # <<>>)
  BY <1>1, StateTypes DEF TypeInv, Saving, Asking, Reading
<1>5. ASSUME ~overlapped' PROVE ~overlapped /\ Calm(call[h])' /\ SignedIn'
  <2>1. ~overlapped /\ SignedIn /\ Calm(call[h])
    BY <1>1, <1>2, <1>5, Alone
  <2>2. Calm(call[h])'
    BY <1>1, <1>2, <1>3, <1>4, <2>1 DEF Calm, Next_, Saving, Asking, Reading
  <2> QED
    BY <1>2, <2>1, <2>2 DEF SignedIn
<1>6. /\ stage' \in Stages /\ mem' \in PersistedSession /\ disk' \in PersistedSession
      /\ overlapped' \in BOOLEAN /\ signedOut' \in BOOLEAN
  BY <1>1, <1>2, StateTypes, SessionFacts
<1>7. /\ call[h].op \in Ops /\ call[h].todo \in Seq(Kinds) /\ Len(call[h].todo) <= 5
      /\ call[h].copy \in PersistedSession /\ call[h].token \in Token
      /\ call[h].again \in BOOLEAN
  BY CallTypes, StateTypes
<1> QED
  BY <1>1, <1>3, <1>4, <1>5, <1>6, <1>7, Kept

(* The app is killed, and starts.                                          *)
LEMMA Starts ==
    ASSUME stage' = "bootstrapping", mem' = NoSession, disk' \in PersistedSession,
           call' = [h \in Handlers |-> Idle], overlapped' = FALSE, signedOut' = FALSE
    PROVE  IInv'
<1>1. <<>> \in Seq(Kinds) /\ Len(<<>>) <= 5 /\ "none" \in Ops
  BY DEF Ops
<1>2. Idle \in Call
  BY <1>1, SessionFacts DEF Idle, Handler, Call
<1>3. Idle.pc = "idle" /\ Idle.todo = <<>>
  BY DEF Idle, Handler
<1>4. \A h \in Handlers : call'[h].pc = "idle" /\ call'[h].todo = <<>>
  BY <1>3
<1>5. TypeInv'
  BY <1>1, <1>2, <1>4, SessionFacts DEF TypeInv, Stages, Saving, Asking
<1>6. InFlight' = {}
  BY <1>4 DEF InFlight
<1>7. SignedIn' /\ Calm(Idle)'
  BY <1>3 DEF SignedIn, Calm, Saving, Asking
<1> QED
  BY <1>5, <1>6, <1>7 DEF IInv, CalmInv

-----------------------------------------------------------------------------
(* Every action.                                                           *)
LEMMA Steps ==
    ASSUME IInv, [Next]_vars
    PROVE  IInv'
<1>1. CASE UNCHANGED vars
  BY <1>1 DEF vars, IInv, TypeInv, CalmInv, SignedIn, Calm, InFlight
<1>2. CASE Kill
  BY <1>2, Starts, StateTypes DEF Kill
<1>3. ASSUME NEW h \in Handlers, Initialize(h) \/ Press(h)
      PROVE  IInv'
  BY <1>3, BeginSteps, RestartAuthStep, RequestStep DEF Press
<1>4. ASSUME NEW h \in Handlers, Resume(h)
      PROVE  IInv'
  BY <1>4, LoadStep, CodeSentStep, VerifiedStep, WriteSteps, SavedStep, RefreshedStep,
     AnsweredStep, RefusedStep, EndSteps, GoesOn DEF Resume
<1> QED
  BY <1>1, <1>2, <1>3, <1>4 DEF Next

(* The inductive invariant.                                                *)
THEOREM Invariance == Spec => []IInv
<1>1. Init => IInv
  <2> SUFFICES ASSUME Init PROVE IInv
    OBVIOUS
  <2>1. <<>> \in Seq(Kinds) /\ Len(<<>>) <= 5 /\ "none" \in Ops
    BY DEF Ops
  <2>2. Idle \in Call
    BY <2>1, SessionFacts DEF Idle, Handler, Call
  <2>3. Idle.pc = "idle" /\ Idle.todo = <<>>
    BY DEF Idle, Handler
  <2>4. \A h \in Handlers : call[h].pc = "idle" /\ call[h].todo = <<>>
    BY <2>3 DEF Init
  <2>5. TypeInv
    BY <2>1, <2>2, <2>4, SessionFacts DEF Init, TypeInv, Stages, Saving, Asking
  <2>6. InFlight = {}
    BY <2>4 DEF InFlight
  <2>7. SignedIn /\ Calm(Idle)
    BY <2>3 DEF Init, SignedIn, Calm, Saving, Asking
  <2> QED
    BY <2>5, <2>6, <2>7 DEF IInv, CalmInv
<1> QED
  BY <1>1, Steps, PTL DEF Spec

(* The variables have their types, whatever overlaps: a request that is    *)
(* sent is one there was to send.                                          *)
THEOREM TypeCorrect == Spec => []TypeOK
<1>1. IInv => TypeOK
  <2> SUFFICES ASSUME IInv PROVE TypeOK
    OBVIOUS
  <2>1. \A h \in Handlers :
          /\ call[h].pc \in Labels \union {"idle"} /\ Len(call[h].todo) <= 5
          /\ call[h].copy \in PersistedSession /\ call[h].token \in Token
          /\ call[h].again \in BOOLEAN
    BY CallTypes, StateTypes
  <2> QED
    BY <2>1, StateTypes DEF TypeInv, TypeOK, Asking
<1> QED
  BY <1>1, Invariance, PTL

(* Until handlers overlap, what the controller holds at rest is stored,    *)
(* and every screen has what it needs.                                     *)
THEOREM AtRestStored == Spec => []RestIsStored
<1>1. IInv => RestIsStored
  BY Rest DEF RestIsStored, SignedIn
<1> QED
  BY <1>1, Invariance, PTL

(* Until handlers overlap, a refresh token is replaced only by a logout    *)
(* and a new sign-in, an access token removed only by a logout and by the  *)
(* save that follows a 401.                                                *)
THEOREM SignInSurvives == Spec => SignInIsKept
<1> DEFINE
      Replaced == disk.refresh # None /\ disk'.refresh # disk.refresh =>
                    \E h \in Handlers : At(h, "clear") \/ call[h].op \in {"verifyAuth", "verifyAuthLink"}
      Removed == disk.access # None /\ disk'.access = None =>
                   \E h \in Handlers : At(h, "clear") \/ (At(h, "access") /\ call[h].again)
<1>1. ASSUME IInv, [Next]_vars, ~overlapped
      PROVE  Replaced /\ Removed
  <2> SUFFICES ASSUME disk' # disk
               PROVE  Replaced /\ Removed
    OBVIOUS
  <2>1. PICK h \in Handlers :
          WriteAccess(h) \/ WriteRefresh(h) \/ WriteChallenge(h) \/ DeleteAll(h)
    <3>1. PICK h \in Handlers : Initialize(h) \/ Press(h) \/ Resume(h)
      BY <1>1 DEF Next, vars, Kill
    <3>2. ~(Initialize(h) \/ Press(h))
      BY DEF Initialize, Press, StartAuth, ResendAuthCode, VerifyAuth, VerifyAuthLink, RestartAuth,
             Request, Logout
    <3>3. ~(Load(h) \/ AnswerBegins(h) \/ CodeSent(h) \/ (\E s \in Sessions : Verified(h, s))
            \/ Saved(h) \/ Refreshed(h) \/ Answered(h) \/ Refused(h) \/ Failed(h)
            \/ EngineAnswers(h) \/ Revoked(h) \/ Cleared(h) \/ Expired(h))
      BY DEF Load, AnswerBegins, CodeSent, Verified, Saved, Refreshed, Answered, Refused, Failed,
             EngineAnswers, Revoked, Cleared, Expired
    <3> QED
      BY <3>1, <3>2, <3>3 DEF Resume
  <2>2. /\ call[h].copy.access \in Token /\ call[h].copy.refresh \in Token
        /\ call[h].copy.challenge \in BOOLEAN
        /\ disk.access \in Token /\ disk.refresh \in Token /\ disk.challenge \in BOOLEAN
    BY <1>1, CallTypes, StateTypes, SessionFacts
  <2>3. \A a, r \in Token, c \in BOOLEAN :
          Session(a, r, c).refresh = r /\ Session(a, r, c).access = a
    BY SessionFacts
  <2>4. CASE WriteAccess(h)
    <3>1. /\ At(h, "access") /\ disk'.refresh = disk.refresh
          /\ disk'.access = call[h].copy.access
      BY <2>2, <2>3, <2>4 DEF WriteAccess
    <3>2. Calm(call[h])
      BY <1>1, <3>1, Alone DEF At
    <3>3. disk.access # None /\ disk'.access = None => call[h].again
      BY <3>1, <3>2 DEF At, Calm, Saving
    <3> QED
      BY <3>1, <3>3
  <2>5. CASE WriteRefresh(h)
    <3>1. /\ call[h].pc = "refreshKey" /\ disk'.access = disk.access
          /\ disk'.refresh = call[h].copy.refresh
      BY <2>2, <2>3, <2>5 DEF WriteRefresh, At
    <3>2. Calm(call[h])
      BY <1>1, <3>1, Alone
    <3>3. disk'.refresh # disk.refresh => call[h].op \in SignIn
      BY <3>1, <3>2 DEF Calm, Saving
    <3> QED
      BY <3>1, <3>3 DEF SignIn
  <2>6. CASE WriteChallenge(h)
    <3>1. disk'.access = disk.access /\ disk'.refresh = disk.refresh
      BY <2>2, <2>3, <2>6 DEF WriteChallenge
    <3> QED
      BY <3>1
  <2>7. CASE DeleteAll(h)
    <3>1. call[h].pc \in {"clear", "expire"}
      BY <2>7 DEF DeleteAll
    <3>2. Calm(call[h])
      BY <1>1, <3>1, Alone
    <3>3. At(h, "clear")
      BY <3>1, <3>2 DEF Calm, At
    <3> QED
      BY <3>3
  <2> QED
    BY <2>1, <2>4, <2>5, <2>6, <2>7
<1>2. ASSUME IInv, [Next]_vars
      PROVE  ~overlapped =>
               /\ disk.refresh # None /\ disk'.refresh # disk.refresh =>
                    \E h \in Handlers :
                      \/ At(h, "clear")
                      \/ call[h].op \in {"verifyAuth", "verifyAuthLink"}
               /\ disk.access # None /\ disk'.access = None =>
                    \E h \in Handlers :
                      \/ At(h, "clear")
                      \/ At(h, "access") /\ call[h].again
  BY <1>1, <1>2
<1> QED
  BY <1>2, Invariance, PTL DEF Spec, SignInIsKept
=============================================================================
