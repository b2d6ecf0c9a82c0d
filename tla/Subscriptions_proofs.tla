------------------------ MODULE Subscriptions_proofs ------------------------
(***************************************************************************)
(* Proofs about Subscriptions, for any number of requests, users, accounts *)
(* and keys: type correctness, what a link between a user and an account   *)
(* promises, that the endpoints implement OneAnswer, and what a request    *)
(* that no other overlaps does to a subscription.                          *)
(***************************************************************************)
EXTENDS Subscriptions, TLAPS

(* The user and the name that a request loaded, and the account it has     *)
(* found or made: what a Claim and a Serve rely on.                        *)
LinkLocals(r) ==
    LET q == req[r] IN
    /\ q.pc \in Active \union Ongoing \union {"served"} => q.user \in Users
    /\ q.name # NoName =>
          /\ q.user \in Users
          /\ q.name \in owned[q.user]
          /\ row[q.user].name # NoName
    /\ q.pc \in {"choose", "check"} => q.op = "link"
    /\ q.pc \in {"check", "create", "claim"} => q.target \in Names
    /\ q.pc \in {"create", "claim"} =>
          q.op = "link" \/ q.name = NoName \/ q.target = q.name
    /\ q.pc = "claim" => Exists(q.target)
    /\ q.pc = "linked" /\ q.target # NoName => q.target \in owned[q.user]
    /\ q.pc = "served" => q.target \in owned[q.user]

(* The key of a provisioning, the answer that was given for it, and the    *)
(* row that a Select has found.                                            *)
KeyLocals(r) ==
    LET q == req[r]
        k == loc[r].key
    IN
    /\ q.pc \in {"remote", "put", "post", "record"} => q.op = "provision"
    /\ q.pc \in Ongoing /\ q.op = "provision" => k \in Keys
    /\ q.pc = "update" => q.user \in DOMAIN sub
    /\ q.pc = "answered" /\ q.op = "provision" /\ k \in Keys =>
          k \in DOMAIN stored /\ stored[k].action = loc[r].action

RowsOwned ==
    \A u \in Users :
      row[u].name # NoName => Exists(row[u].name) /\ row[u].name \in owned[u]

IInv ==
    /\ TypeOK
    /\ OneOwner
    /\ RowsOwned
    /\ \A r \in Requests : LinkLocals(r) /\ KeyLocals(r)

-----------------------------------------------------------------------------
(* What a step does to the requests and to the history.                    *)

Labels == {"idle"} \union Active \union Terminal \union Ongoing \union Ended
Answers == (Terminal \ {"served"}) \union Ended

LocalType ==
    [key: Keys \union {NoKey}, action: Requests, expire: Nat, active: BOOLEAN,
     seen: Row, ok: BOOLEAN]

(* Request r goes to a control point with these local variables.           *)
ReqFacts(r, label, op, u, name, target) ==
    /\ req' \in [Requests -> RequestsAt(Labels)]
    /\ \A s \in Requests \ {r} : req'[s] = req[s]
    /\ req'[r].pc = label /\ req'[r].op = op /\ req'[r].user = u
    /\ req'[r].name = name /\ req'[r].target = target

LocFacts(r, k, action) ==
    /\ loc' \in [Requests -> LocalType]
    /\ \A s \in Requests \ {r} : loc'[s] = loc[s]
    /\ loc'[r].key = k /\ loc'[r].action = action

(* Accounts, names once owned, links, keys and rows are never taken away.  *)
Grows ==
    /\ DOMAIN account \subseteq DOMAIN account'
    /\ \A u \in Users : owned[u] \subseteq owned'[u]
    /\ \A u \in Users : row[u].name # NoName => row'[u].name # NoName
    /\ \A k \in DOMAIN stored : k \in DOMAIN stored' /\ stored'[k] = stored[k]
    /\ DOMAIN sub \subseteq DOMAIN sub'

SubGrows ==
    /\ sub' \in [DOMAIN sub' -> Row]
    /\ DOMAIN sub' \subseteq Users
    /\ DOMAIN sub \subseteq DOMAIN sub'

(* The type invariant, in the terms of this module.                        *)
LEMMA Types ==
    ASSUME TypeOK
    PROVE  /\ req \in [Requests -> RequestsAt(Labels)]
           /\ loc \in [Requests -> LocalType]
           /\ alone \in [Requests -> BOOLEAN]
           /\ configured \in BOOLEAN
           /\ DOMAIN account \subseteq Names
           /\ account \in [DOMAIN account -> Nat]
           /\ row \in [Users -> [name: Names \union {NoName}, status: Status]]
           /\ owned \in [Users -> SUBSET Names]
           /\ now \in 0..MaxTime
           /\ sub \in [DOMAIN sub -> Row] /\ DOMAIN sub \subseteq Users
           /\ DOMAIN stored \subseteq Keys
           /\ stored \in [DOMAIN stored -> [scope: {"admin.provision"}, action: Requests]]
  BY DEF TypeOK, LinkTablesOK, Labels, LocalType

(* Assigning the local variables of one request.                           *)
LEMMA ReqMoves ==
    ASSUME TypeOK, NEW r \in Requests, NEW label \in Labels,
           NEW op \in Operations \union {"none", "subscription", "provision", "extend"},
           NEW u \in Users \union {NoName}, NEW name \in Names \union {NoName},
           NEW status \in Status, NEW target \in Names \union {NoName},
           req' = [req EXCEPT ![r] = Locals(label, op, u, name, status, target)]
    PROVE  ReqFacts(r, label, op, u, name, target)
<1>1. req \in [Requests -> RequestsAt(Labels)]
  BY Types
<1>2. Locals(label, op, u, name, status, target) \in RequestsAt(Labels)
  BY DEF Locals, RequestsAt
<1>3. req' \in [Requests -> RequestsAt(Labels)]
  BY <1>1, <1>2
<1>4. req'[r] = Locals(label, op, u, name, status, target)
  BY <1>1
<1> QED
  BY <1>1, <1>3, <1>4 DEF ReqFacts, Locals

(* The local variables of a request are well typed.                        *)
LEMMA OwnType ==
    ASSUME TypeOK, NEW r \in Requests
    PROVE  /\ req[r].pc \in Labels
           /\ req[r].op \in Operations \union {"none", "subscription", "provision", "extend"}
           /\ req[r].user \in Users \union {NoName}
           /\ req[r].name \in Names \union {NoName}
           /\ req[r].status \in Status
           /\ req[r].target \in Names \union {NoName}
           /\ loc[r] \in LocalType
  BY Types DEF RequestsAt

(* The three ways in which a handler moves.                                *)
LEMMA GotoWithMoves ==
    ASSUME TypeOK, NEW r \in Requests, NEW label \in Labels,
           NEW n \in Names \union {NoName}, GotoWith(r, label, n)
    PROVE  ReqFacts(r, label, req[r].op, req[r].user, req[r].name, n)
  BY ReqMoves, OwnType DEF GotoWith

(* A handler goes on with the account it holds.                            *)
LEMMA GotoMoves ==
    ASSUME TypeOK, NEW r \in Requests, NEW label \in Labels, Goto(r, label)
    PROVE  ReqFacts(r, label, req[r].op, req[r].user, req[r].name, req[r].target)
  BY GotoWithMoves, OwnType DEF Goto

(* A handler ends and holds nothing.                                       *)
LEMMA EndMoves ==
    ASSUME TypeOK, NEW r \in Requests, NEW label \in Labels, End(r, label)
    PROVE  ReqFacts(r, label, req[r].op, NoName, NoName, NoName)
<1>1. "pending" \in Status
  BY DEF Status
<1> QED
  BY <1>1, ReqMoves, OwnType DEF End

(* Assigning the variables of Subscriptions.                               *)
LEMMA LocMoves ==
    ASSUME TypeOK, NEW r \in Requests, NEW k \in Keys \union {NoKey},
           NEW action \in Requests, NEW e \in Nat, NEW active \in BOOLEAN,
           NEW seen \in Row, NEW ok \in BOOLEAN,
           loc' = [loc EXCEPT ![r] = Local(k, action, e, active, seen, ok)]
    PROVE  LocFacts(r, k, action)
<1>1. loc \in [Requests -> LocalType]
  BY Types
<1>2. Local(k, action, e, active, seen, ok) \in LocalType
  BY DEF Local, LocalType
<1>3. loc'[r] = Local(k, action, e, active, seen, ok)
  BY <1>1
<1> QED
  BY <1>1, <1>2, <1>3 DEF LocFacts, Local

(* No handler's variables, or no history, changed.                         *)
LEMMA LocStays ==
    ASSUME TypeOK, NEW r \in Requests, UNCHANGED loc
    PROVE  LocFacts(r, loc[r].key, loc[r].action)
  BY Types DEF LocFacts

(* A handler of Subscriptions answers or fails.                            *)
LEMMA FinishMoves ==
    ASSUME TypeOK, NEW r \in Requests, NEW label \in Labels,
           NEW k \in Keys \union {NoKey}, NEW action \in Requests,
           Finish(r, label, k, action)
    PROVE  /\ ReqFacts(r, label, req[r].op, NoName, NoName, NoName)
           /\ LocFacts(r, k, action)
           /\ alone' \in [Requests -> BOOLEAN]
<1>1. NoRow \in Row /\ 0 \in Nat
  BY DEF NoRow, Row
<1>2. ReqFacts(r, label, req[r].op, NoName, NoName, NoName)
  BY EndMoves DEF Finish
<1>3. LocFacts(r, k, action)
  BY <1>1, LocMoves DEF Finish
<1>4. alone' \in [Requests -> BOOLEAN]
  BY Types DEF Finish
<1> QED
  BY <1>2, <1>3, <1>4

-----------------------------------------------------------------------------
(* How the invariant is carried over a step of one request.                *)

(* The requests that do not move keep what they rely on.                   *)
LEMMA OthersKeep ==
    ASSUME TypeOK, Grows, NEW s \in Requests, LinkLocals(s), KeyLocals(s),
           req'[s] = req[s], loc'[s] = loc[s]
    PROVE  LinkLocals(s)' /\ KeyLocals(s)'
<1> DEFINE q == req[s]
<1>1. q.user \in Users => owned[q.user] \subseteq owned'[q.user]
  BY DEF Grows
<1>2. q.user \in Users /\ row[q.user].name # NoName => row'[q.user].name # NoName
  BY DEF Grows
<1>3. Exists(q.target) => Exists(q.target)'
  BY DEF Grows, Exists
<1>4. LinkLocals(s)'
  BY <1>1, <1>2, <1>3 DEF LinkLocals, Active
<1>5. KeyLocals(s)'
  BY DEF KeyLocals, Grows
<1> QED
  BY <1>4, <1>5

(* What a step of request r has to establish.                              *)
Keeps(r) ==
    /\ TypeOK'
    /\ Grows
    /\ OneOwner' /\ RowsOwned'
    /\ \A s \in Requests \ {r} : req'[s] = req[s] /\ loc'[s] = loc[s]
    /\ LinkLocals(r)' /\ KeyLocals(r)'

(* A step that establishes it keeps the invariant.                         *)
LEMMA KeepsInv == ASSUME IInv, NEW r \in Requests, Keeps(r) PROVE IInv'
<1>1. ASSUME NEW s \in Requests PROVE LinkLocals(s)' /\ KeyLocals(s)'
  BY <1>1, OthersKeep DEF IInv, Keeps
<1> QED
  BY <1>1 DEF IInv, Keeps

(* A step that writes no link: the request's own variables are left.       *)
LEMMA QuietStep ==
    ASSUME IInv, NEW r \in Requests,
           UNCHANGED <<configured, account, row, owned, now, stored>>,
           SubGrows,
           NEW label, NEW op, NEW u, NEW name, NEW target, NEW k, NEW action,
           ReqFacts(r, label, op, u, name, target), LocFacts(r, k, action),
           alone' \in [Requests -> BOOLEAN],
           LinkLocals(r)', KeyLocals(r)'
    PROVE  Keeps(r)
<1>1. TypeOK' /\ Grows
  BY DEF IInv, TypeOK, LinkTablesOK, Grows, SubGrows, ReqFacts, LocFacts, Labels, LocalType
<1>2. OneOwner' /\ RowsOwned'
  BY DEF IInv, OneOwner, RowsOwned, Exists
<1> QED
  BY <1>1, <1>2 DEF Keeps, ReqFacts, LocFacts

(* The table of subscriptions is left alone.                               *)
LEMMA SubsType ==
    ASSUME TypeOK, UNCHANGED sub
    PROVE  SubGrows
  BY Types DEF SubGrows

(* A handler that has answered relies on nothing but the key's answer.     *)
LEMMA AnswerKeeps ==
    ASSUME NEW r \in Requests, NEW label \in Answers, NEW op, NEW k, NEW action,
           ReqFacts(r, label, op, NoName, NoName, NoName), LocFacts(r, k, action),
           label = "answered" /\ op = "provision" /\ k \in Keys =>
             k \in DOMAIN stored' /\ stored'[k].action = action
    PROVE  LinkLocals(r)' /\ KeyLocals(r)'
  BY DEF Answers, Terminal, Ended, Active, Ongoing, ReqFacts, LocFacts, LinkLocals, KeyLocals

-----------------------------------------------------------------------------
(* The steps of MarzbanLink that write no link.                            *)

(* A step that leaves every table and the variables of Subscriptions.      *)
LEMMA QuietLinkStep ==
    ASSUME IInv, NEW r \in Requests,
           UNCHANGED <<configured, account, row, owned, ownVars>>,
           NEW label, NEW op, NEW u, NEW name, NEW target,
           ReqFacts(r, label, op, u, name, target),
           LinkLocals(r)', KeyLocals(r)'
    PROVE  Keeps(r)
<1>1. TypeOK /\ UNCHANGED <<now, sub, stored, loc, alone>>
  BY DEF IInv, ownVars
<1>2. LocFacts(r, loc[r].key, loc[r].action)
  BY <1>1, LocStays
<1> QED
  BY <1>1, <1>2, Types, SubsType, QuietStep

(* A handler that ends without an answer for a key.                        *)
LEMMA EndKeeps ==
    ASSUME IInv, NEW r \in Requests, NEW label \in Answers, label # "answered",
           End(r, label), UNCHANGED <<configured, account, row, owned, ownVars>>
    PROVE  Keeps(r)
<1>1. TypeOK /\ label \in Labels /\ UNCHANGED loc
  BY DEF IInv, Answers, Labels, ownVars
<1>2. ReqFacts(r, label, req[r].op, NoName, NoName, NoName)
  BY <1>1, EndMoves
<1>3. LinkLocals(r)' /\ KeyLocals(r)'
  BY <1>1, <1>2, LocStays, AnswerKeeps
<1> QED
  BY <1>2, <1>3, QuietLinkStep

(* What the bearer check loads is the row: its name is owned.              *)
LEMMA BeginKeeps ==
    ASSUME IInv, NEW r \in Requests, NEW op \in Operations, NEW u \in Users,
           Begin(r, op, u), UNCHANGED ownVars
    PROVE  Keeps(r)
<1> DEFINE label == IF op = "link" THEN "choose" ELSE "ensure"
<1>1. TypeOK /\ label \in Labels /\ label \in {"choose", "ensure"}
  BY DEF IInv, Labels, Active
<1>2. row[u].name \in Names \union {NoName} /\ row[u].status \in Status
  BY <1>1, Types
<1>3. ReqFacts(r, label, op, u, row[u].name, NoName)
  BY <1>1, <1>2, ReqMoves DEF Begin
<1>4. UNCHANGED <<account, row, owned, loc, stored>>
  BY DEF Begin, ownVars
<1>5. row[u].name # NoName => row[u].name \in owned[u]
  BY DEF IInv, RowsOwned
<1>6. LinkLocals(r)'
  BY <1>1, <1>3, <1>4, <1>5 DEF LinkLocals, ReqFacts
<1>7. KeyLocals(r)'
  BY <1>1, <1>3 DEF KeyLocals, ReqFacts, Operations, Ongoing
<1> QED
  BY <1>3, <1>6, <1>7, QuietLinkStep DEF Begin

(* A handler goes on with what it holds.                                   *)
LEMMA GotoKeeps ==
    ASSUME IInv, NEW r \in Requests, req[r].pc \in Active,
           UNCHANGED <<configured, account, row, owned, ownVars>>,
           NEW label \in {"create", "claim", "error", "check", "linked", "served"},
           NEW n \in Names \union {NoName}, GotoWith(r, label, n),
           label = "check" => req[r].op = "link" /\ n \in Names,
           label \in {"create", "claim"} =>
             /\ n \in Names
             /\ req[r].op = "link" \/ req[r].name = NoName \/ n = req[r].name,
           label = "claim" => Exists(n),
           label = "linked" => n = NoName,
           label = "served" => n \in owned[req[r].user]
    PROVE  Keeps(r)
<1>1. TypeOK /\ label \in Labels /\ UNCHANGED loc
  BY DEF IInv, Labels, Active, Terminal, ownVars
<1>2. ReqFacts(r, label, req[r].op, req[r].user, req[r].name, n)
  BY <1>1, GotoWithMoves
<1>3. LinkLocals(r)
  BY DEF IInv
<1>4. LinkLocals(r)'
  BY <1>2, <1>3 DEF LinkLocals, ReqFacts, Exists, Active
<1>5. KeyLocals(r)'
  BY <1>2 DEF KeyLocals, ReqFacts, Ongoing
<1> QED
  BY <1>2, <1>4, <1>5, QuietLinkStep

(* ensure_link looks for an account of Marzban, for the linked one if any. *)
LEMMA TargetName ==
    ASSUME IInv, NEW r \in Requests, req[r].pc \in Active
    PROVE  /\ EnsureTarget(r) \in Names
           /\ req[r].name = NoName \/ EnsureTarget(r) = req[r].name
<1>1. req[r].user \in Users /\ req[r].name \in Names \union {NoName}
  BY OwnType DEF IInv, LinkLocals
<1> QED
  BY <1>1 DEF EnsureTarget, Names

(* The look-ups, the refusals, the answers and the failures of linking.    *)
LEMMA QuietLink ==
    ASSUME IInv, NEW r \in Requests, UNCHANGED ownVars,
           \/ Lookup(r) \/ LookupFails(r) \/ CreateFails(r) \/ ClaimConflicts(r)
           \/ Manual(r) \/ Serve(r) \/ Answer(r) \/ Fail(r)
    PROVE  Keeps(r)
<1>a. TypeOK /\ LinkLocals(r) /\ req[r].target \in Names \union {NoName}
  BY OwnType DEF IInv
<1>1. CASE Lookup(r)
  <2>1. req[r].pc \in Active
    BY <1>1 DEF Lookup, At, Active
  <2>2. EnsureTarget(r) \in Names
    BY <2>1, TargetName
  <2> QED
    BY <1>1, <2>1, <2>2, TargetName, GotoKeeps DEF Lookup
<1>2. CASE LookupFails(r) \/ CreateFails(r)
  BY <1>2, <1>a, GotoKeeps DEF LookupFails, CreateFails, Goto, At, Active
<1>3. CASE ClaimConflicts(r)
  BY <1>3, EndKeeps DEF ClaimConflicts, Answers, Terminal
<1>4. ASSUME NEW n \in Names, Choose(r, n) PROVE Keeps(r)
  <2>1. CASE End(r, "refused")
    BY <1>4, <2>1, EndKeeps DEF Choose, Answers, Terminal
  <2>2. CASE GotoWith(r, "check", n)
    BY <1>4, <1>a, <2>2, GotoKeeps DEF Choose, At, Active, LinkLocals
  <2> QED
    BY <1>4, <2>1, <2>2 DEF Choose
<1>5. CASE Check(r)
  <2>1. CASE Exists(req[r].target) /\ Goto(r, "claim")
    BY <1>5, <1>a, <2>1, GotoKeeps DEF Check, Goto, At, Active, LinkLocals
  <2>2. CASE End(r, "refused")
    BY <1>5, <2>2, EndKeeps DEF Check, Answers, Terminal
  <2> QED
    BY <1>5, <2>1, <2>2 DEF Check
<1>6. CASE Serve(r)
  <2>1. CASE Exists(req[r].target) /\ Goto(r, "served")
    <3>1. req[r].target # NoName
      BY <2>1, <1>a, Types, LinkAssumption DEF Exists
    <3>2. req[r].target \in owned[req[r].user]
      BY <3>1, <1>6, <1>a DEF Serve, At, LinkLocals
    <3> QED
      BY <1>6, <1>a, <2>1, <3>2, GotoKeeps DEF Serve, Goto, At, Active
  <2>2. CASE End(r, "placeholder")
    BY <1>6, <2>2, EndKeeps DEF Serve, Answers, Terminal
  <2> QED
    BY <1>6, <2>1, <2>2 DEF Serve
<1>7. CASE Answer(r)
  BY <1>7, EndKeeps DEF Answer, Answers, Terminal
<1>8. CASE Fail(r)
  BY <1>8, EndKeeps DEF Fail, Answers, Terminal
<1> QED
  BY <1>1, <1>2, <1>3, <1>4, <1>5, <1>6, <1>7, <1>8 DEF Manual

-----------------------------------------------------------------------------
(* The steps of MarzbanLink that write a link or an account.               *)

(* Writing the row of one user.                                            *)
LEMMA RowMoves ==
    ASSUME TypeOK, NEW u \in Users, NEW n \in Names \union {NoName},
           NEW s \in Status, row' = [row EXCEPT ![u] = Link(n, s)]
    PROVE  /\ row' \in [Users -> [name: Names \union {NoName}, status: Status]]
           /\ row'[u].name = n
           /\ \A v \in Users \ {u} : row'[v] = row[v]
<1>1. Link(n, s) \in [name: Names \union {NoName}, status: Status]
      /\ Link(n, s).name = n
  BY DEF Link
<1> QED
  BY <1>1, Types

(* The tables of Subscriptions are left alone.                             *)
LEMMA LinkType ==
    ASSUME TypeOK, NEW r \in Requests, UNCHANGED ownVars, LinkTablesOK',
           NEW label, NEW op, NEW u, NEW name, NEW target,
           ReqFacts(r, label, op, u, name, target)
    PROVE  TypeOK'
  BY DEF TypeOK, ownVars, ReqFacts, Labels

(* Only the state of a link is written, never its name.                    *)
LEMMA StateStep ==
    ASSUME IInv, NEW r \in Requests, req[r].pc \in Active, NEW s \in Status,
           row' = [row EXCEPT ![req[r].user] = Link(@.name, s)],
           NEW n \in {row[req[r].user].name, NoName}, GotoWith(r, "linked", n),
           UNCHANGED <<configured, account, owned, ownVars>>
    PROVE  Keeps(r)
<1> DEFINE u == req[r].user
<1>1. TypeOK /\ LinkLocals(r) /\ "linked" \in Labels
      /\ UNCHANGED <<sub, stored, loc, alone>>
  BY DEF IInv, ownVars, Labels, Active
<1>2. u \in Users
  BY <1>1 DEF LinkLocals
<1>3. row[u].name \in Names \union {NoName} /\ n \in Names \union {NoName}
  BY <1>1, <1>2, Types
<1>4. row' \in [Users -> [name: Names \union {NoName}, status: Status]]
      /\ \A v \in Users : row'[v].name = row[v].name
  <2> DEFINE name == row[u].name
  <2>1. row' = [row EXCEPT ![u] = Link(name, s)]
    OBVIOUS
  <2>2. name \in Names \union {NoName}
    BY <1>3
  <2> HIDE DEF name, u
  <2>3. /\ row' \in [Users -> [name: Names \union {NoName}, status: Status]]
        /\ row'[u].name = name
        /\ \A v \in Users \ {u} : row'[v] = row[v]
    BY ONLY <1>1, <1>2, <2>1, <2>2, RowMoves, s \in Status
  <2> QED
    BY <2>3 DEF name
<1>5. ReqFacts(r, "linked", req[r].op, u, req[r].name, n)
  BY <1>1, <1>3, GotoWithMoves
<1>6. LinkTablesOK'
  BY <1>1, <1>4 DEF LinkTablesOK, TypeOK
<1>7. TypeOK'
  BY <1>1, <1>5, <1>6, LinkType
<1>8. OneOwner' /\ RowsOwned' /\ Grows
  <2>1. OneOwner'
    BY <1>4 DEF IInv, OneOwner
  <2>2. RowsOwned'
    BY <1>4 DEF IInv, RowsOwned, Exists
  <2>3. Grows
    BY <1>1, <1>4 DEF Grows
  <2> QED
    BY <2>1, <2>2, <2>3
<1>9. n # NoName => n \in owned[u]
  BY <1>2 DEF IInv, RowsOwned
<1>10. LinkLocals(r)'
  BY <1>1, <1>2, <1>4, <1>5, <1>9 DEF LinkLocals, ReqFacts
<1>11. KeyLocals(r)'
  BY <1>5 DEF KeyLocals, ReqFacts, Ongoing
<1> QED
  BY <1>1, <1>5, <1>7, <1>8, <1>10, <1>11 DEF Keeps, ReqFacts

(* The two steps that write the state of a link.                           *)
LEMMA StateKeeps ==
    ASSUME IInv, NEW r \in Requests, UNCHANGED ownVars,
           EnsureUnconfigured(r) \/ MarkError(r)
    PROVE  Keeps(r)
<1>1. TypeOK /\ LinkLocals(r) /\ req[r].pc \in Active
  BY DEF IInv, EnsureUnconfigured, MarkError, At, Active
<1>2. req[r].user \in Users
  BY <1>1 DEF LinkLocals
<1>3. row[req[r].user].status \in Status
  BY <1>1, <1>2, Types
<1>4. /\ Written("pending", req[r].status, row[req[r].user].status) \in Status
      /\ Written("error", req[r].status, row[req[r].user].status) \in Status
  BY <1>3 DEF Written, Status
<1>5. CASE EnsureUnconfigured(r)
  BY <1>1, <1>4, <1>5, StateStep DEF EnsureUnconfigured
<1>6. CASE MarkError(r)
  BY <1>1, <1>4, <1>6, StateStep DEF MarkError
<1> QED
  BY <1>5, <1>6

(* A write to Marzban adds an account or changes one; no link depends on   *)
(* its expiry.                                                             *)
LEMMA AccountStep ==
    ASSUME IInv, NEW r \in Requests, NEW n \in Names, NEW e \in Nat,
           account' \in {account, WithAccount(n, e)},
           UNCHANGED <<configured, row, owned, now, sub, stored>>,
           NEW label, NEW op, NEW u, NEW name, NEW target, NEW k, NEW action,
           ReqFacts(r, label, op, u, name, target), LocFacts(r, k, action),
           alone' \in [Requests -> BOOLEAN],
           LinkLocals(r)', KeyLocals(r)'
    PROVE  Keeps(r)
<1>1. account \in [DOMAIN account -> Nat] /\ DOMAIN account \subseteq Names
  BY Types DEF IInv
<1>2. /\ account' \in [DOMAIN account' -> Nat]
      /\ DOMAIN account' \subseteq Names
      /\ DOMAIN account \subseteq DOMAIN account'
  BY <1>1 DEF WithAccount
<1>3. TypeOK'
  BY <1>2 DEF IInv, TypeOK, LinkTablesOK, ReqFacts, LocFacts, Labels, LocalType
<1>4. OneOwner' /\ RowsOwned' /\ Grows
  BY <1>2 DEF IInv, OneOwner, RowsOwned, Grows, Exists
<1> QED
  BY <1>3, <1>4 DEF Keeps, ReqFacts, LocFacts

(* POST /api/user: the account is there, whether its answer came or not.   *)
LEMMA CreateKeeps ==
    ASSUME IInv, NEW r \in Requests, UNCHANGED ownVars, Create(r)
    PROVE  Keeps(r)
<1> DEFINE q == req[r]
<1>1. /\ TypeOK /\ LinkLocals(r) /\ At(r, "create")
      /\ UNCHANGED <<configured, row, owned, now, sub, stored, loc, alone>>
      /\ account' = WithAccount(q.target, 0)
  BY DEF IInv, Create, ownVars
<1>2. q.target \in Names /\ q.user \in Users
  BY <1>1 DEF LinkLocals, At, Active
<1>3. PICK label \in {"claim", "error"} : Goto(r, label)
  BY DEF Create
<1>4. ReqFacts(r, label, q.op, q.user, q.name, q.target)
  BY <1>1, <1>3, GotoMoves DEF Labels, Active
<1>5. LocFacts(r, loc[r].key, loc[r].action) /\ alone' \in [Requests -> BOOLEAN]
  BY <1>1, LocStays, Types
<1>6. q.target \in DOMAIN account'
  BY <1>1 DEF WithAccount
<1>7. LinkLocals(r)'
  BY <1>1, <1>2, <1>4, <1>6 DEF LinkLocals, ReqFacts, At, Exists
<1>8. KeyLocals(r)'
  BY <1>4 DEF KeyLocals, ReqFacts, Ongoing
<1> QED
  BY <1>1, <1>2, <1>4, <1>5, <1>7, <1>8, AccountStep

(* What a Claim writes: a name that Marzban has and nobody else is linked  *)
(* to, the one it found unless another request has just changed the link.  *)
LEMMA ClaimKeeps ==
    ASSUME IInv, NEW r \in Requests, UNCHANGED ownVars, Claim(r)
    PROVE  Keeps(r)
<1> DEFINE q == req[r]
           u == q.user
           n == Written(q.target, q.name, row[u].name)
           s == Written("linked", q.status, row[u].status)
<1>1. /\ TypeOK /\ OneOwner /\ RowsOwned /\ LinkLocals(r) /\ At(r, "claim")
      /\ ~LinkedToOther(u, n)
      /\ row' = [row EXCEPT ![u] = Link(n, s)]
      /\ owned' = [owned EXCEPT ![u] = @ \union {n}]
      /\ Goto(r, "linked")
      /\ UNCHANGED <<configured, account, now, sub, stored, loc, alone>>
  BY DEF IInv, Claim, ownVars
<1>2. /\ u \in Users /\ q.target \in Names /\ Exists(q.target)
      /\ q.name # NoName => q.name \in owned[u] /\ row[u].name # NoName
  BY <1>1 DEF LinkLocals, At, Active
<1>3. row[u].name \in Names \union {NoName} /\ row[u].status \in Status
      /\ owned \in [Users -> SUBSET Names]
  BY <1>1, <1>2, Types
<1>4. n \in Names /\ Exists(n) /\ s \in Status
      /\ q.target \in owned[u] \union {n}
  BY <1>1, <1>2, <1>3, LinkAssumption DEF Written, RowsOwned, Status
<1>5. /\ row' \in [Users -> [name: Names \union {NoName}, status: Status]]
      /\ row'[u].name = n
      /\ \A v \in Users \ {u} : row'[v] = row[v]
  BY <1>1, <1>2, <1>4, RowMoves
<1>6. /\ owned' \in [Users -> SUBSET Names]
      /\ owned'[u] = owned[u] \union {n}
      /\ \A v \in Users \ {u} : owned'[v] = owned[v]
  BY <1>1, <1>2, <1>3, <1>4
<1>7. ReqFacts(r, "linked", q.op, u, q.name, q.target)
  BY <1>1, GotoMoves DEF Labels, Active
<1>8. TypeOK'
  <2>1. LinkTablesOK'
    BY <1>1, <1>5, <1>6 DEF TypeOK, LinkTablesOK
  <2> QED
    BY <1>1, <1>7, <2>1, LinkType
<1>9. OneOwner'
  BY <1>1, <1>5 DEF OneOwner, LinkedToOther
<1>10. RowsOwned'
  BY <1>1, <1>4, <1>5, <1>6 DEF RowsOwned, Exists
<1>11. n # NoName
  BY <1>4, LinkAssumption
<1>12. Grows
  BY <1>1, <1>5, <1>6, <1>11 DEF Grows
<1>13. LinkLocals(r)'
  BY <1>2, <1>4, <1>5, <1>6, <1>7, <1>11 DEF LinkLocals, ReqFacts
<1>14. KeyLocals(r)'
  BY <1>7 DEF KeyLocals, ReqFacts, Ongoing
<1> QED
  BY <1>1, <1>7, <1>8, <1>9, <1>10, <1>12, <1>13, <1>14 DEF Keeps, ReqFacts

(* Every step of MarzbanLink.                                              *)
LEMMA LinkKeeps == ASSUME IInv, NEW r \in Requests, LinkStep(r) PROVE Keeps(r)
  BY QuietLink, StateKeeps, CreateKeeps, ClaimKeeps DEF LinkStep, Step, Ensure

-----------------------------------------------------------------------------
(* The steps of Subscriptions.                                             *)

(* The tables that the steps of this module leave alone, or only extend.   *)
Untouched == UNCHANGED <<configured, account, row, owned, now, stored>>

(* A handler that answers for no key, or fails.                            *)
LEMMA FinishKeeps ==
    ASSUME IInv, NEW r \in Requests, Untouched,
           SubGrows,
           NEW label \in Answers, Finish(r, label, NoKey, r)
    PROVE  Keeps(r)
<1>1. TypeOK /\ label \in Labels /\ NoKey \notin Keys
  BY SubscriptionAssumption DEF IInv, Answers, Labels
<1>2. /\ ReqFacts(r, label, req[r].op, NoName, NoName, NoName)
      /\ LocFacts(r, NoKey, r)
      /\ alone' \in [Requests -> BOOLEAN]
  BY <1>1, FinishMoves
<1>3. LinkLocals(r)' /\ KeyLocals(r)'
  BY <1>1, <1>2, AnswerKeeps
<1> QED
  BY <1>2, <1>3, QuietStep DEF Untouched

MayGoOn(r) ==
    \/ req[r].pc \in Ongoing
    \/ req[r].pc = "linked" /\ req[r].op = "subscription"

(* A handler goes on to another step of this module, or to the link.       *)
LEMMA OnwardKeeps ==
    ASSUME IInv, NEW r \in Requests, Untouched,
           SubGrows,
           MayGoOn(r),
           NEW label \in Ongoing \union {"ensure"}, Goto(r, label),
           LocFacts(r, loc'[r].key, loc'[r].action),
           req[r].op = "provision" => loc'[r].key = loc[r].key,
           alone' \in [Requests -> BOOLEAN],
           label \in {"remote", "put", "post", "record"} => req[r].op = "provision",
           label = "update" => req[r].user \in DOMAIN sub
    PROVE  Keeps(r)
<1>1. TypeOK /\ LinkLocals(r) /\ KeyLocals(r) /\ label \in Labels
  BY DEF IInv, Labels, Active
<1>2. ReqFacts(r, label, req[r].op, req[r].user, req[r].name, req[r].target)
  BY <1>1, GotoMoves
<1>3. LinkLocals(r)'
  BY <1>1, <1>2 DEF MayGoOn, Untouched, LinkLocals, ReqFacts, Ongoing, Active
<1>4. KeyLocals(r)'
  BY <1>1, <1>2 DEF MayGoOn, KeyLocals, ReqFacts, LocFacts, Ongoing, SubGrows
<1> QED
  BY <1>2, <1>3, <1>4, QuietStep DEF Untouched

(* The bearer check of a subscription read.                                *)
LEMMA ReadSubscriptionKeeps ==
    ASSUME IInv, NEW r \in Requests, NEW u \in Users, ReadSubscription(r, u)
    PROVE  Keeps(r)
<1>1. TypeOK /\ "read" \in Labels /\ Untouched /\ UNCHANGED <<sub, loc>>
  BY DEF IInv, Labels, Ongoing, Untouched, ReadSubscription
<1>2. row[u].name \in Names \union {NoName} /\ row[u].status \in Status
  BY <1>1, Types
<1>3. ReqFacts(r, "read", "subscription", u, row[u].name, NoName)
  BY <1>1, <1>2, ReqMoves DEF ReadSubscription
<1>4. alone' \in [Requests -> BOOLEAN]
  BY <1>1, Types DEF ReadSubscription, Overlap
<1>5. LocFacts(r, loc[r].key, loc[r].action)
  BY <1>1, LocStays
<1>6. row[u].name # NoName => row[u].name \in owned[u]
  BY DEF IInv, RowsOwned
<1>7. LinkLocals(r)'
  BY <1>1, <1>3, <1>6 DEF Untouched, LinkLocals, ReqFacts
<1>8. KeyLocals(r)'
  BY <1>3 DEF KeyLocals, ReqFacts
<1> QED
  BY <1>1, <1>3, <1>4, <1>5, <1>7, <1>8, SubsType, QuietStep DEF Untouched

(* The expiry of a plan is a time.                                         *)
LEMMA ExpireType ==
    ASSUME TypeOK, NEW plan
    PROVE  Expire(plan) \in Nat
<1>1. now \in Nat
  BY Types, SubscriptionAssumption
<1>2. CASE plan \in DOMAIN PlanDays
  BY <1>1, <1>2, SubscriptionAssumption DEF Expire
<1>3. CASE plan \notin DOMAIN PlanDays
  BY <1>1, <1>3, SubscriptionAssumption DEF Expire
<1> QED
  BY <1>2, <1>3

(* A provisioning begins with a key that has no answer.                    *)
LEMMA ProvisionKeeps ==
    ASSUME IInv, NEW r \in Requests, NEW k \in Keys, Provision(r, k)
    PROVE  Keeps(r)
<1> DEFINE u == OrderOf[k].user
<1>1. TypeOK /\ "remote" \in Labels /\ Untouched /\ UNCHANGED sub /\ u \in Users
  BY SubscriptionAssumption DEF IInv, Labels, Ongoing, Untouched, Provision
<1>2. ReqFacts(r, "remote", "provision", u, NoName, NoName)
  BY <1>1, ReqMoves DEF Provision, Status
<1>3. NoRow \in Row
  BY DEF NoRow, Row
<1>4. LocFacts(r, k, r)
  <2> DEFINE e == Expire(OrderOf[k].plan)
  <2>1. e \in Nat /\ loc' = [loc EXCEPT ![r] = Local(k, r, e, FALSE, NoRow, TRUE)]
    BY <1>1, ExpireType DEF Provision
  <2> QED
    BY <1>1, <1>3, <2>1, LocMoves
<1>5. alone' \in [Requests -> BOOLEAN]
  BY <1>1, Types DEF Provision, Overlap
<1>6. LinkLocals(r)'
  BY <1>1, <1>2 DEF LinkLocals, ReqFacts
<1>7. KeyLocals(r)'
  BY <1>2, <1>4 DEF KeyLocals, ReqFacts, LocFacts
<1> QED
  BY <1>1, <1>2, <1>4, <1>5, <1>6, <1>7, SubsType, QuietStep DEF Untouched

(* A repeated request is given the stored answer.                          *)
LEMMA ProvisionAgainKeeps ==
    ASSUME IInv, NEW r \in Requests, NEW k \in Keys, ProvisionAgain(r, k)
    PROVE  Keeps(r)
<1>1. /\ TypeOK /\ "answered" \in Labels /\ "answered" \in Answers /\ Untouched
      /\ UNCHANGED <<sub, alone>>
      /\ k \in DOMAIN stored
  BY DEF IInv, Labels, Ended, Answers, Untouched, ProvisionAgain, Recorded
<1>2. ReqFacts(r, "answered", "provision", NoName, NoName, NoName)
  BY <1>1, ReqMoves DEF ProvisionAgain, Status
<1>3. NoRow \in Row /\ stored[k].action \in Requests
  BY <1>1, Types DEF NoRow, Row
<1>4. LocFacts(r, k, stored[k].action)
  BY <1>1, <1>3, LocMoves DEF ProvisionAgain
<1>5. alone' \in [Requests -> BOOLEAN]
  BY <1>1, Types
<1>6. LinkLocals(r)' /\ KeyLocals(r)'
  BY <1>1, <1>2, <1>4, AnswerKeeps DEF Untouched
<1> QED
  BY <1>1, <1>2, <1>4, <1>5, <1>6, SubsType, QuietStep DEF Untouched

(* An extend ends in its TypeError.                                        *)
LEMMA ExtendKeeps ==
    ASSUME IInv, NEW r \in Requests, NEW k \in Keys, Extend(r, k)
    PROVE  Keeps(r)
<1>1. /\ TypeOK /\ "failed" \in Labels /\ "failed" \in Answers
      /\ Untouched /\ UNCHANGED <<sub, loc, alone>>
  BY DEF IInv, Labels, Terminal, Answers, Untouched, Extend, ownVars
<1>2. ReqFacts(r, "failed", "extend", NoName, NoName, NoName)
  BY <1>1, ReqMoves DEF Extend, Status
<1>3. LocFacts(r, loc[r].key, loc[r].action) /\ alone' \in [Requests -> BOOLEAN]
  BY <1>1, LocStays, Types
<1>4. LinkLocals(r)' /\ KeyLocals(r)'
  BY <1>1, <1>2, <1>3, AnswerKeeps
<1> QED
  BY <1>1, <1>2, <1>3, <1>4, SubsType, QuietStep DEF Untouched

(* What a handler of this module holds at one of its own control points.   *)
LEMMA OngoingLocals ==
    ASSUME IInv, NEW r \in Requests, req[r].pc \in Ongoing
    PROVE  /\ req[r].user \in Users
           /\ req[r].op = "provision" => loc[r].key \in Keys
           /\ loc[r].key \in Keys \union {NoKey} /\ loc[r].action \in Requests
           /\ loc[r].expire \in Nat /\ loc[r].active \in BOOLEAN
           /\ loc[r].seen \in Row /\ loc[r].ok \in BOOLEAN
  BY Types DEF IInv, LinkLocals, KeyLocals, LocalType

(* A read finds its row, or goes to Marzban.                               *)
LEMMA ReadLocalKeeps ==
    ASSUME IInv, NEW r \in Requests, ReadLocal(r)
    PROVE  Keeps(r)
<1>1. /\ TypeOK /\ Untouched /\ UNCHANGED sub /\ req[r].pc = "read"
      /\ "read" \in Ongoing /\ "answered" \in Answers
  BY DEF IInv, Untouched, ReadLocal, At, Ongoing, Answers, Ended
<1>2. CASE Finish(r, "answered", NoKey, r)
  BY <1>1, <1>2, SubsType, FinishKeeps
<1>3. CASE Goto(r, "ensure") /\ UNCHANGED <<loc, alone>>
  <2>1. /\ LocFacts(r, loc'[r].key, loc'[r].action) /\ loc'[r].key = loc[r].key
        /\ alone' \in [Requests -> BOOLEAN]
    BY <1>1, <1>3, LocStays, Types
  <2> QED
    BY <1>1, <1>3, <2>1, SubsType, OnwardKeeps DEF MayGoOn
<1> QED
  BY <1>2, <1>3 DEF ReadLocal

(* A read takes the expiry from Marzban.                                   *)
LEMMA FetchKeeps ==
    ASSUME IInv, NEW r \in Requests, Fetch(r)
    PROVE  Keeps(r)
<1>1. /\ TypeOK /\ Untouched /\ UNCHANGED sub
      /\ req[r].pc = "linked" /\ req[r].op = "subscription"
      /\ "missing" \in Answers /\ "select" \in Ongoing
  BY DEF IInv, Untouched, Fetch, At, Ongoing, Answers, Ended
<1>2. CASE Finish(r, "missing", NoKey, r)
  BY <1>1, <1>2, SubsType, FinishKeeps
<1>3. CASE /\ Exists(req[r].target)
           /\ loc' = [loc EXCEPT ![r] =
                        Local(NoKey, r, account[req[r].target], FALSE, NoRow, TRUE)]
           /\ Goto(r, "select") /\ UNCHANGED alone
  <2> DEFINE e == account[req[r].target]
  <2>1. e \in Nat /\ NoRow \in Row /\ alone' \in [Requests -> BOOLEAN]
    BY <1>1, <1>3, Types DEF Exists, NoRow, Row
  <2>2. loc' = [loc EXCEPT ![r] = Local(NoKey, r, e, FALSE, NoRow, TRUE)]
    BY <1>3
  <2> HIDE DEF e
  <2>3. LocFacts(r, NoKey, r)
    BY <1>1, <2>1, <2>2, LocMoves
  <2> QED
    BY <1>1, <1>3, <2>1, <2>3, SubsType, OnwardKeeps DEF MayGoOn, LocFacts
<1> QED
  BY <1>2, <1>3 DEF Fetch

(* set_subscription remembers the row it found.                            *)
LEMMA SelectKeeps ==
    ASSUME IInv, NEW r \in Requests, Select(r)
    PROVE  Keeps(r)
<1> DEFINE u == req[r].user
           here == u \in DOMAIN sub
           active == loc[r].expire > now
           seen == IF here THEN sub[u] ELSE NoRow
<1>1. /\ TypeOK /\ Untouched /\ UNCHANGED <<sub, alone>> /\ req[r].pc = "select"
      /\ "select" \in Ongoing /\ {"update", "insert"} \subseteq Ongoing
  BY DEF IInv, Untouched, Select, At, Ongoing
<1>2. seen \in Row
  BY <1>1, Types DEF NoRow, Row
<1>3. loc' = [loc EXCEPT ![r] = Local(loc[r].key, loc[r].action, loc[r].expire,
                                      active, seen, loc[r].ok)]
  BY DEF Select
<1>4. active \in BOOLEAN
  OBVIOUS
<1> HIDE DEF active, seen
<1>5. LocFacts(r, loc'[r].key, loc'[r].action) /\ loc'[r].key = loc[r].key
  <2>1. LocFacts(r, loc[r].key, loc[r].action)
    BY <1>1, <1>2, <1>3, <1>4, OngoingLocals, LocMoves
  <2> QED
    BY <2>1 DEF LocFacts
<1>6. PICK label \in {"update", "insert"} :
             Goto(r, label) /\ (label = "update" => here)
  BY DEF Select
<1>7. alone' \in [Requests -> BOOLEAN]
  BY <1>1, Types
<1> QED
  BY <1>1, <1>5, <1>6, <1>7, SubsType, OnwardKeeps DEF MayGoOn

(* What follows the write of a subscription.                               *)
LEMMA AfterWriteKeeps ==
    ASSUME IInv, NEW r \in Requests, req[r].pc \in Ongoing, Untouched,
           SubGrows,
           AfterWrite(r)
    PROVE  Keeps(r)
<1>1. CASE req[r].op = "provision"
  <2>1. Goto(r, "record") /\ UNCHANGED <<loc, alone>> /\ "record" \in Ongoing
    BY <1>1 DEF AfterWrite, Ongoing
  <2>2. /\ LocFacts(r, loc'[r].key, loc'[r].action) /\ loc'[r].key = loc[r].key
        /\ alone' \in [Requests -> BOOLEAN]
    BY <2>1, LocStays, Types DEF IInv
  <2> QED
    BY <1>1, <2>1, <2>2, OnwardKeeps DEF MayGoOn
<1>2. CASE req[r].op # "provision"
  BY <1>2, FinishKeeps DEF AfterWrite, Answers, Ended
<1> QED
  BY <1>1, <1>2

(* Writing one subscription.                                               *)
LEMMA SetSubType ==
    ASSUME TypeOK, NEW u \in Users, NEW active \in BOOLEAN, NEW e \in Nat,
           SetSub(u, active, e)
    PROVE  SubGrows
<1>1. sub \in [DOMAIN sub -> Row] /\ DOMAIN sub \subseteq Users
  BY Types
<1>2. [active |-> active, expire |-> e] \in Row
  BY DEF Row
<1> QED
  BY <1>1, <1>2 DEF SetSub, SubGrows

(* The INSERT and the UPDATE of set_subscription.                          *)
LEMMA WriteKeeps ==
    ASSUME IInv, NEW r \in Requests, Insert(r) \/ Update(r)
    PROVE  Keeps(r)
<1> DEFINE u == req[r].user
           seen == loc[r].seen
<1>1. TypeOK /\ Untouched /\ req[r].pc \in Ongoing /\ "failed" \in Answers
  BY DEF IInv, Untouched, Insert, Update, At, Ongoing, Answers, Terminal
<1>2. /\ u \in Users /\ loc[r].active \in BOOLEAN /\ loc[r].expire \in Nat
      /\ seen \in Row
  BY <1>1, OngoingLocals
<1>3. CASE SetSub(u, loc[r].active, loc[r].expire) /\ AfterWrite(r)
  BY <1>1, <1>2, <1>3, SetSubType, AfterWriteKeeps
<1>4. CASE UNCHANGED sub /\ Finish(r, "failed", NoKey, r)
  BY <1>1, <1>4, SubsType, FinishKeeps
<1>5. CASE Update(r)
  <2> DEFINE active == Written(loc[r].active, seen.active, sub[u].active)
             e == Written(loc[r].expire, seen.expire, sub[u].expire)
  <2>1. sub[u] \in Row
    BY <1>1, <1>5, Types DEF IInv, KeyLocals, Update, At
  <2>2. active \in BOOLEAN /\ e \in Nat
    BY <1>2, <2>1 DEF Written, Row
  <2>3. SetSub(u, active, e) /\ AfterWrite(r)
    BY <1>5 DEF Update
  <2> HIDE DEF active, e
  <2> QED
    BY <1>1, <1>2, <2>2, <2>3, SetSubType, AfterWriteKeeps
<1> QED
  BY <1>3, <1>4, <1>5 DEF Insert

(* The provisioning looks its account up.                                  *)
LEMMA RemoteLookupKeeps ==
    ASSUME IInv, NEW r \in Requests, RemoteLookup(r)
    PROVE  Keeps(r)
<1>1. /\ TypeOK /\ Untouched /\ UNCHANGED <<sub, loc, alone>>
      /\ req[r].pc = "remote" /\ "remote" \in Ongoing
      /\ {"select", "put", "post"} \subseteq Ongoing
  BY DEF IInv, Untouched, RemoteLookup, At, Ongoing, ownVars
<1>2. PICK label \in {"select", "put", "post"} : Goto(r, label)
  BY <1>1, Types DEF RemoteLookup
<1>3. req[r].op = "provision"
  BY <1>1 DEF IInv, KeyLocals
<1>4. /\ LocFacts(r, loc'[r].key, loc'[r].action) /\ loc'[r].key = loc[r].key
      /\ alone' \in [Requests -> BOOLEAN]
  BY <1>1, LocStays, Types
<1> QED
  BY <1>1, <1>2, <1>3, <1>4, SubsType, OnwardKeeps DEF MayGoOn

(* After a call to Marzban that may have written the account.              *)
LEMMA RemoteStep ==
    ASSUME IInv, NEW r \in Requests, req[r].pc \in Ongoing,
           account' \in {account, WithAccount(req[r].user, loc[r].expire)},
           UNCHANGED <<configured, row, owned, now, sub, stored, alone>>,
           Goto(r, "select"), LocFacts(r, loc[r].key, loc[r].action)
    PROVE  Keeps(r)
<1>1. TypeOK /\ LinkLocals(r) /\ KeyLocals(r) /\ "select" \in Labels
      /\ "select" \notin Active
  BY DEF IInv, Labels, Ongoing, Active
<1>2. /\ req[r].user \in Users /\ req[r].user \in Names /\ loc[r].expire \in Nat
      /\ alone' \in [Requests -> BOOLEAN]
  BY <1>1, OngoingLocals, Types DEF Names
<1>3. ReqFacts(r, "select", req[r].op, req[r].user, req[r].name, req[r].target)
  BY <1>1, GotoMoves
<1>4. LinkLocals(r)'
  BY <1>1, <1>2, <1>3 DEF LinkLocals, ReqFacts
<1>5. KeyLocals(r)'
  BY <1>1, <1>3 DEF KeyLocals, ReqFacts, LocFacts
<1> QED
  BY <1>1, <1>2, <1>3, <1>4, <1>5, AccountStep

(* The provisioning writes its account, or tries to.                       *)
LEMMA RemoteKeeps ==
    ASSUME IInv, NEW r \in Requests, RemoteWrite(r) \/ RemoteFails(r)
    PROVE  Keeps(r)
<1>1. TypeOK /\ req[r].pc \in Ongoing
  BY DEF IInv, RemoteWrite, RemoteFails, At, Ongoing
<1>2. CASE RemoteWrite(r)
  <2>1. LocFacts(r, loc[r].key, loc[r].action)
    BY <1>1, <1>2, LocStays DEF RemoteWrite, ownVars
  <2> QED
    BY <1>1, <1>2, <2>1, RemoteStep DEF RemoteWrite, ownVars
<1>3. CASE RemoteFails(r)
  <2>1. LocFacts(r, loc[r].key, loc[r].action)
    BY <1>1, <1>3, OngoingLocals, LocMoves DEF RemoteFails
  <2> QED
    BY <1>1, <1>3, <2>1, RemoteStep DEF RemoteFails
<1> QED
  BY <1>2, <1>3

(* The key is stored with the answer that is given.                        *)
LEMMA RecordKeeps ==
    ASSUME IInv, NEW r \in Requests, Record(r)
    PROVE  Keeps(r)
<1> DEFINE k == loc[r].key
<1>1. /\ TypeOK /\ req[r].pc = "record" /\ "record" \in Ongoing
      /\ "answered" \in Labels /\ "answered" \in Answers
      /\ k \notin DOMAIN stored
      /\ stored' = [j \in DOMAIN stored \union {k} |->
                      IF j = k THEN [scope |-> "admin.provision", action |-> r]
                      ELSE stored[j]]
      /\ Finish(r, "answered", k, r)
      /\ UNCHANGED <<configured, account, row, owned, now, sub>>
  BY DEF IInv, Record, At, Ongoing, Labels, Answers, Ended
<1>2. k \in Keys
  BY <1>1 DEF IInv, KeyLocals
<1>3. /\ ReqFacts(r, "answered", req[r].op, NoName, NoName, NoName)
      /\ LocFacts(r, k, r)
      /\ alone' \in [Requests -> BOOLEAN]
  BY <1>1, <1>2, FinishMoves
<1>4. /\ DOMAIN stored' = DOMAIN stored \union {k}
      /\ stored' \in [DOMAIN stored' -> [scope: {"admin.provision"}, action: Requests]]
      /\ stored'[k].action = r
      /\ \A j \in DOMAIN stored : stored'[j] = stored[j]
  <2>1. stored \in [DOMAIN stored -> [scope: {"admin.provision"}, action: Requests]]
    BY <1>1, Types
  <2>2. [scope |-> "admin.provision", action |-> r] \in
          [scope: {"admin.provision"}, action: Requests]
    OBVIOUS
  <2> QED
    BY <1>1, <2>1, <2>2
<1>5. TypeOK'
  BY <1>1, <1>2, <1>3, <1>4
  DEF TypeOK, LinkTablesOK, ReqFacts, LocFacts, Labels, LocalType
<1>6. Grows
  BY <1>1, <1>4 DEF Grows
<1>7. OneOwner' /\ RowsOwned'
  BY <1>1 DEF IInv, OneOwner, RowsOwned, Exists
<1>8. LinkLocals(r)' /\ KeyLocals(r)'
  BY <1>1, <1>2, <1>3, <1>4, AnswerKeeps
<1> QED
  BY <1>3, <1>5, <1>6, <1>7, <1>8 DEF Keeps, ReqFacts, LocFacts

(* Every step of a request under way.                                      *)
LEMMA HandleKeeps ==
    ASSUME IInv, NEW r \in Requests, Handle(r)
    PROVE  Keeps(r)
<1>1. CASE RecordConflicts(r) \/ Abort(r)
  <2>1. /\ TypeOK /\ Untouched /\ UNCHANGED sub /\ "failed" \in Answers
        /\ Finish(r, "failed", NoKey, r)
    BY <1>1 DEF IInv, Untouched, RecordConflicts, Abort, Answers, Terminal
  <2> QED
    BY <2>1, SubsType, FinishKeeps
<1> QED
  BY <1>1, ReadLocalKeeps, FetchKeeps, SelectKeeps, WriteKeeps,
     RemoteLookupKeeps, RemoteKeeps, RecordKeeps, LinkKeeps DEF Handle

(* The clock moves nothing else.                                           *)
LEMMA TickKeeps == ASSUME IInv, Tick PROVE IInv'
<1>1. now' \in 0..MaxTime /\ UNCHANGED <<configured, account, row, req, owned, sub, stored, loc, alone>>
  BY SubscriptionAssumption DEF IInv, TypeOK, Tick, linkVars
<1>2. TypeOK'
  BY <1>1 DEF IInv, TypeOK, LinkTablesOK
<1> QED
  BY <1>1, <1>2 DEF IInv, OneOwner, RowsOwned, LinkLocals, KeyLocals, Exists

(* Nothing happens.                                                        *)
LEMMA StutterKeeps == ASSUME IInv, UNCHANGED vars PROVE IInv'
<1>1. UNCHANGED <<configured, account, row, req, owned, now, sub, stored, loc, alone>>
  BY DEF vars, linkVars, ownVars
<1>2. TypeOK'
  BY <1>1 DEF IInv, TypeOK, LinkTablesOK
<1> QED
  BY <1>1, <1>2 DEF IInv, OneOwner, RowsOwned, LinkLocals, KeyLocals, Exists

-----------------------------------------------------------------------------
(* The theorems.                                                           *)

(* A request that takes a step has not answered yet, and keeps the         *)
(* invariant.                                                              *)
LEMMA Moving ==
    ASSUME NEW r \in Requests,
           \/ \E op \in Operations, u \in Users : Begin(r, op, u) /\ UNCHANGED ownVars
           \/ \E u \in Users : ReadSubscription(r, u)
           \/ \E k \in Keys : Provision(r, k) \/ ProvisionAgain(r, k) \/ Extend(r, k)
           \/ Handle(r)
    PROVE  req[r].pc # "answered"
<1>1. CASE LinkStep(r)
  BY <1>1 DEF LinkStep, Step, Ensure, Manual, EnsureUnconfigured, Lookup,
     LookupFails, Create, CreateFails, Claim, ClaimConflicts, MarkError, Choose,
     Check, Serve, Answer, Fail, At, Active
<1>2. CASE Handle(r)
  BY <1>1, <1>2 DEF Handle, ReadLocal, Fetch, Select, Insert, Update,
     RemoteLookup, RemoteWrite, RemoteFails, Record, RecordConflicts, Abort, At,
     Ongoing
<1> QED
  BY <1>2 DEF Begin, ReadSubscription, Provision, ProvisionAgain, Extend, At

(* A step is the clock's, or that of a request that has not answered.      *)
LEMMA StepKeeps ==
    ASSUME IInv, Next
    PROVE  Tick \/ \E r \in Requests : Keeps(r) /\ req[r].pc # "answered"
<1>1. ASSUME NEW r \in Requests,
             \/ \E op \in Operations, u \in Users : Begin(r, op, u) /\ UNCHANGED ownVars
             \/ \E u \in Users : ReadSubscription(r, u)
             \/ \E k \in Keys : Provision(r, k) \/ ProvisionAgain(r, k) \/ Extend(r, k)
             \/ Handle(r)
      PROVE  Keeps(r) /\ req[r].pc # "answered"
  <2>1. req[r].pc # "answered"
    BY <1>1, Moving
  <2>2. Keeps(r)
    BY <1>1, BeginKeeps, ReadSubscriptionKeeps, ProvisionKeeps,
       ProvisionAgainKeeps, ExtendKeeps, HandleKeeps
  <2> QED
    BY <2>1, <2>2
<1> QED
  BY <1>1 DEF Next

(* No request has begun, nobody is linked and no key is stored.            *)
LEMMA InitInv == Init => IInv
<1> SUFFICES ASSUME Init PROVE IInv
  OBVIOUS
<1> DEFINE q0 == Locals("idle", "none", NoName, NoName, "pending", NoName)
<1>1. /\ configured \in BOOLEAN
      /\ account \in [Chosen -> Expiries]
      /\ row = [u \in Users |-> Link(NoName, "pending")]
      /\ req = [r \in Requests |-> q0]
      /\ owned = [u \in Users |-> {}]
      /\ now = 0
      /\ sub = [u \in {} |-> NoRow]
      /\ stored = [k \in {} |-> NoRow]
      /\ loc = [r \in Requests |-> Local(NoKey, r, 0, FALSE, NoRow, TRUE)]
      /\ alone = [r \in Requests |-> TRUE]
  BY DEF Init, LinkInit
<1>2. LinkTablesOK
  <2>1. Link(NoName, "pending") \in [name: Names \union {NoName}, status: Status]
    BY DEF Link, Status
  <2>2. account \in [DOMAIN account -> Nat] /\ DOMAIN account \subseteq Names
    BY <1>1, LinkAssumption DEF Names
  <2> QED
    BY <1>1, <2>1, <2>2 DEF LinkTablesOK
<1>3. req \in [Requests -> RequestsAt({"idle"} \union Active \union Terminal
                                        \union Ongoing \union Ended)]
  <2>1. q0 \in RequestsAt({"idle"} \union Active \union Terminal \union Ongoing \union Ended)
    BY DEF Locals, RequestsAt, Status
  <2> QED
    BY <1>1, <2>1
<1>4. loc \in [Requests -> LocalType]
  <2>1. ASSUME NEW r \in Requests
        PROVE  Local(NoKey, r, 0, FALSE, NoRow, TRUE) \in LocalType
    BY DEF Local, LocalType, NoRow, Row
  <2> QED
    BY <1>1, <2>1
<1>5. TypeOK
  <2>1. /\ now \in 0..MaxTime
        /\ sub \in [DOMAIN sub -> Row] /\ DOMAIN sub \subseteq Users
    BY <1>1, SubscriptionAssumption
  <2>2. /\ DOMAIN stored \subseteq Keys
        /\ stored \in [DOMAIN stored -> [scope: {"admin.provision"}, action: Requests]]
    BY <1>1
  <2>3. alone \in [Requests -> BOOLEAN]
    BY <1>1
  <2> QED
    BY <1>2, <1>3, <1>4, <2>1, <2>2, <2>3 DEF TypeOK, LocalType
<1>6. OneOwner /\ RowsOwned
  BY <1>1 DEF OneOwner, RowsOwned, Link
<1>7. ASSUME NEW r \in Requests PROVE LinkLocals(r) /\ KeyLocals(r)
  BY <1>1 DEF LinkLocals, KeyLocals, Locals, Active, Ongoing
<1> QED
  BY <1>5, <1>6, <1>7 DEF IInv

(* The invariant is inductive.                                             *)
LEMMA StepInv == IInv /\ [Next]_vars => IInv'
  BY StepKeeps, KeepsInv, TickKeeps, StutterKeeps

(* The invariant holds: whatever the requests have in flight, what they    *)
(* hold in memory still fits the tables.                                   *)
THEOREM Invariance == Spec => []IInv
  BY InitInv, StepInv, PTL DEF Spec

(* Type correctness.                                                       *)
THEOREM TypeCorrect == Spec => []TypeOK
<1>1. IInv => TypeOK
  BY DEF IInv
<1> QED
  BY <1>1, Invariance, PTL

(* No two users are ever linked to one account, however the automatic and  *)
(* the chosen links of any number of requests interleave.                  *)
THEOREM OwnersAreDistinct == Spec => []OneOwner
<1>1. IInv => OneOwner
  BY DEF IInv
<1> QED
  BY <1>1, Invariance, PTL

(* A stored link names an account that Marzban has.                        *)
THEOREM LinksExist == Spec => []LinkedAccountExists
<1>1. IInv => LinkedAccountExists
  BY DEF IInv, RowsOwned, LinkedAccountExists
<1> QED
  BY <1>1, Invariance, PTL

(* Nobody is served the configs of an account that was never theirs.       *)
THEOREM ServedOwn == Spec => []ServedWasOwned
<1>1. IInv => ServedWasOwned
  BY DEF IInv, LinkLocals, ServedWasOwned, At
<1> QED
  BY <1>1, Invariance, PTL

(* A link that a user has is only ever replaced by that user's choice, or  *)
(* by a request that loaded the user before there was one.                 *)
LEMMA LinkChangesForCauseStep ==
    ASSUME IInv, [Next]_vars, NEW u \in Users,
           row[u].name # NoName, row'[u].name # row[u].name
    PROVE  \E r \in Requests :
             /\ At(r, "claim") /\ At(r, "linked")'
             /\ req[r].user = u
             /\ req[r].op = "link" \/ req[r].name = NoName
<1>1. row \in [Users -> [name: Names \union {NoName}, status: Status]]
  BY Types DEF IInv
<1>2. ~UNCHANGED row
  OBVIOUS
<1>3. PICK r \in Requests : LinkStep(r)
  BY <1>2 DEF Next, vars, linkVars, Tick, Begin, ReadSubscription, Provision,
     ProvisionAgain, Extend, Handle, ReadLocal, Fetch, Select, Insert, Update,
     RemoteLookup, RemoteWrite, RemoteFails, Record, RecordConflicts, Abort
<1>4. ~EnsureUnconfigured(r) /\ ~MarkError(r)
  BY <1>1 DEF EnsureUnconfigured, MarkError, Link
<1>5. Claim(r)
  BY <1>2, <1>3, <1>4 DEF LinkStep, Step, Ensure, Manual, Lookup, LookupFails,
     Create, CreateFails, ClaimConflicts, Choose, Check, Serve, Answer, Fail
<1>6. req[r].user = u
  BY <1>1, <1>5 DEF Claim
<1>7. req[r].op = "link" \/ req[r].name = NoName
  <2> DEFINE q == req[r]
  <2>1. q.op = "link" \/ q.name = NoName \/ q.target = q.name
    BY <1>5 DEF IInv, LinkLocals, Claim, At
  <2>2. row'[u].name = Written(q.target, q.name, row[u].name)
    BY <1>1, <1>5, <1>6 DEF Claim, Link
  <2> QED
    BY <2>1, <2>2 DEF Written
<1>8. At(r, "linked")'
  BY <1>5, GotoMoves DEF IInv, Claim, Labels, Active, ReqFacts, At
<1> QED
  BY <1>5, <1>6, <1>7, <1>8 DEF Claim

(* A link is replaced by its user's choice, and otherwise only by a request *)
(* that loaded the user before there was one: that one may put the built   *)
(* name in place of a choice made meanwhile.                               *)
THEOREM LinksChangeForCause == Spec => LinkChangesForCause
<1>1. IInv /\ [Next]_vars =>
        [\A u \in Users :
           row[u].name # NoName /\ row'[u].name # row[u].name =>
             \E r \in Requests :
               /\ At(r, "claim") /\ At(r, "linked")'
               /\ req[r].user = u
               /\ req[r].op = "link" \/ req[r].name = NoName]_linkVars
  BY LinkChangesForCauseStep
<1> QED
  BY <1>1, Invariance, PTL DEF Spec, LinkChangesForCause

-----------------------------------------------------------------------------
(* The refinement of OneAnswer.                                            *)

(* What clients were told under a key.                                     *)
Told(k) == {loc[r].action : r \in {s \in Requests : Answered(s, k)}}

(* What was told is the answer that is stored.                             *)
LEMMA ToldIsStored ==
    ASSUME IInv, NEW k \in Keys, NEW a \in Told(k)
    PROVE  k \in DOMAIN stored /\ stored[k].action = a
  BY DEF IInv, KeyLocals, Told, Answered, At

(* A step of one request tells nothing, or it tells the stored answer to   *)
(* a client whose key nobody was answered for, or was answered the same.   *)
LEMMA ToldStep ==
    ASSUME IInv, NEW r \in Requests, Keeps(r), req[r].pc # "answered"
    PROVE  \/ \A k \in Keys : Told(k)' = Told(k)
           \/ \E k \in Keys, a \in Requests :
                /\ Told(k) = {} /\ Told(k)' = {a}
                /\ \A j \in Keys \ {k} : Told(j)' = Told(j)
<1> DEFINE k0 == loc'[r].key
           a0 == loc'[r].action
<1>1. ASSUME NEW s \in Requests \ {r}, NEW k
      PROVE  /\ Answered(s, k)' <=> Answered(s, k)
             /\ loc'[s].action = loc[s].action
  BY <1>1 DEF Keeps, Answered, At
<1>2. ASSUME NEW k PROVE ~Answered(r, k)
  BY DEF Answered, At
<1>3. ASSUME NEW k, ~Answered(r, k)' PROVE Told(k)' = Told(k)
  BY <1>1, <1>2, <1>3 DEF Told
<1>4. ASSUME NEW k, Answered(r, k)' PROVE Told(k)' = Told(k) \union {a0} /\ k = k0
  <2>1. k = k0
    BY <1>4 DEF Answered
  <2>2. Told(k)' = Told(k) \union {a0}
    BY <1>1, <1>2, <1>4 DEF Told
  <2> QED
    BY <2>1, <2>2
<1>5. CASE \A k \in Keys : ~Answered(r, k)'
  BY <1>3, <1>5
<1>6. ASSUME NEW k \in Keys, Answered(r, k)'
      PROVE  \/ \A j \in Keys : Told(j)' = Told(j)
             \/ \E j \in Keys, a \in Requests :
                  /\ Told(j) = {} /\ Told(j)' = {a}
                  /\ \A i \in Keys \ {j} : Told(i)' = Told(i)
  <2>1. \A j \in Keys \ {k} : Told(j)' = Told(j)
    BY <1>3, <1>4, <1>6
  <2>2. k \in DOMAIN stored' /\ stored'[k].action = a0
    BY <1>6 DEF Keeps, KeyLocals, Answered, At
  <2>3. a0 \in Requests
    BY DEF Keeps, TypeOK
  <2>4. CASE Told(k) = {}
    BY <1>4, <1>6, <2>1, <2>3, <2>4
  <2>5. CASE Told(k) # {}
    <3>1. Told(k) = {stored[k].action} /\ k \in DOMAIN stored
      BY <2>5, ToldIsStored
    <3>2. stored'[k] = stored[k]
      BY <3>1 DEF Keeps, Grows
    <3> QED
      BY <1>4, <1>6, <2>1, <2>2, <3>1, <3>2
  <2> QED
    BY <2>4, <2>5
<1> QED
  BY <1>5, <1>6

(* A step of the endpoints is a step of OneAnswer, or none.                *)
LEMMA PromiseStep ==
    ASSUME IInv, [Next]_vars
    PROVE  [Promise!Next]_([k \in Keys |-> Told(k)])
<1>1. CASE \A k \in Keys : Told(k)' = Told(k)
  BY <1>1
<1>2. ASSUME NEW k \in Keys, NEW a \in Requests,
             Told(k) = {}, Told(k)' = {a},
             \A j \in Keys \ {k} : Told(j)' = Told(j)
      PROVE  Promise!Next
  <2>1. [j \in Keys |-> Told(j)]' = [[j \in Keys |-> Told(j)] EXCEPT ![k] = {a}]
    BY <1>2
  <2> QED
    BY <1>2, <2>1 DEF Promise!Next, Promise!Tell, Told
<1>3. CASE Tick \/ UNCHANGED vars
  <2>1. UNCHANGED <<req, loc>>
    BY <1>3 DEF Tick, vars, linkVars, ownVars
  <2>2. \A k \in Keys : Told(k)' = Told(k)
    BY <2>1 DEF Told, Answered, At
  <2> QED
    BY <1>1, <2>2
<1>4. CASE Next
  BY <1>1, <1>2, <1>3, <1>4, StepKeeps, ToldStep
<1> QED
  BY <1>3, <1>4

(* All successful answers to one idempotency key are one answer, for any   *)
(* number of concurrent and repeated requests.                             *)
THEOREM EndpointsKeepThePromise == Spec => ImplementsOneAnswer
<1>1. Init => Promise!Init
  <2> SUFFICES ASSUME Init PROVE Promise!Init
    OBVIOUS
  <2>1. \A r \in Requests : req[r].pc = "idle"
    BY DEF Init, LinkInit, Locals
  <2>2. \A k \in Keys : {loc[r].action : r \in {s \in Requests : Answered(s, k)}} = {}
    BY <2>1 DEF Answered, At
  <2> QED
    BY <2>2 DEF Promise!Init
<1>2. IInv /\ [Next]_vars =>
        [Promise!Next]_([k \in Keys |-> {loc[r].action : r \in {s \in Requests : Answered(s, k)}}])
  BY PromiseStep DEF Told
<1> QED
  BY <1>1, <1>2, Invariance, PTL DEF Spec, ImplementsOneAnswer, Promise!Spec

-----------------------------------------------------------------------------
(* What a request that is alone can rely on.                               *)

(* The requests that may write the subscription of their user.             *)
Contender(r) == Working(r) /\ req[r].op \in {"subscription", "provision"}

(* Nobody else may, while a request is alone.                              *)
Undisturbed(r) ==
    alone[r] => \A s \in Requests \ {r} :
                  Contender(r) /\ Contender(s) => req[s].user # req[r].user

(* A read that has missed the row does not find one later.                 *)
Missed(r) ==
    req[r].op = "subscription" /\ alone[r] =>
      /\ req[r].pc \in Active \union {"select", "insert"} => req[r].user \notin DOMAIN sub
      /\ req[r].pc # "update"

(* What a provisioning has written is still there, in Marzban and in the   *)
(* table, and the row it has found is the one it is about to replace.      *)
Healing(r) ==
    LET u == req[r].user
        l == loc[r]
    IN
    req[r].op = "provision" /\ alone[r] =>
      /\ req[r].pc \in {"select", "insert", "update", "record"} /\ l.ok /\ configured =>
           Exists(u) /\ account[u] = l.expire
      /\ req[r].pc = "update" => sub[u] = l.seen
      /\ req[r].pc = "record" =>
           u \in DOMAIN sub /\ sub[u] = [active |-> l.active, expire |-> l.expire]

(* Only reads and provisionings write subscriptions.                       *)
Writes(r) == req[r].pc \in {"read", "select", "insert", "update"} => Contender(r)

AloneInv == \A r \in Requests : Undisturbed(r) /\ Missed(r) /\ Healing(r) /\ Writes(r)

(* A step of request r leaves the other requests, and writes nothing that  *)
(* belongs to a user whom r does not contend for.                          *)
Aside(r) ==
    /\ configured' = configured
    /\ \A s \in Requests \ {r} : req'[s] = req[s] /\ loc'[s] = loc[s] /\ (alone'[s] => alone[s])
    /\ \A u : ~(Contender(r) /\ req[r].user = u) =>
         /\ u \in DOMAIN sub' <=> u \in DOMAIN sub
         /\ u \in DOMAIN sub => sub'[u] = sub[u]
         /\ u \in DOMAIN account => u \in DOMAIN account' /\ account'[u] = account[u]

(* Nothing of what is written belongs to the user of another request that  *)
(* is alone.                                                               *)
LEMMA OthersRely ==
    ASSUME IInv, AloneInv, NEW r \in Requests, Aside(r), NEW s \in Requests \ {r}
    PROVE  Missed(s)' /\ Healing(s)' /\ Writes(s)'
<1>1. /\ req'[s] = req[s] /\ loc'[s] = loc[s] /\ (alone'[s] => alone[s])
      /\ configured' = configured
      /\ Undisturbed(s) /\ Missed(s) /\ Healing(s) /\ Writes(s) /\ KeyLocals(s)
  BY DEF Aside, AloneInv, IInv
<1>2. Writes(s)'
  BY <1>1 DEF Writes, Contender, Working
<1>3. CASE ~Contender(s) \/ ~alone'[s]
  <2>1. ~alone'[s] \/ ~(req[s].op \in {"subscription", "provision"}) \/ ~Working(s)
    BY <1>3 DEF Contender
  <2>2. Missed(s)'
    BY <1>1, <2>1 DEF Missed, Working, Ongoing
  <2>3. Healing(s)'
    BY <1>1, <2>1 DEF Healing, Working, Ongoing
  <2> QED
    BY <1>2, <2>2, <2>3
<1>4. CASE Contender(s) /\ alone'[s]
  <2>1. ~(Contender(r) /\ req[r].user = req[s].user)
    BY <1>1, <1>4 DEF Undisturbed
  <2>2. PICK u : u = req[s].user
    OBVIOUS
  <2>3. /\ u \in DOMAIN sub' <=> u \in DOMAIN sub
        /\ u \in DOMAIN sub => sub'[u] = sub[u]
        /\ u \in DOMAIN account => u \in DOMAIN account' /\ account'[u] = account[u]
    BY <2>1, <2>2 DEF Aside
  <2>4. Missed(s)'
    BY <1>1, <1>4, <2>2, <2>3 DEF Missed
  <2>5. Healing(s)'
    BY <1>1, <1>4, <2>2, <2>3 DEF Healing, KeyLocals, Exists
  <2> QED
    BY <1>2, <2>4, <2>5
<1> QED
  BY <1>3, <1>4

(* A request that goes on, or ends, disturbs nobody.                       *)
LEMMA UndisturbedStay ==
    ASSUME AloneInv, NEW r \in Requests, Aside(r),
           Contender(r)' => Contender(r) /\ req'[r].user = req[r].user /\ (alone'[r] => alone[r])
    PROVE  \A s \in Requests : Undisturbed(s)'
<1> SUFFICES ASSUME NEW s \in Requests, NEW q \in Requests \ {s},
                    alone'[s], Contender(s)', Contender(q)'
             PROVE  req'[q].user # req'[s].user
  BY DEF Undisturbed
<1>1. ASSUME NEW p \in Requests, Contender(p)'
      PROVE  Contender(p) /\ req'[p].user = req[p].user /\ (alone'[p] => alone[p])
  <2>1. CASE p = r
    BY <1>1, <2>1
  <2>2. CASE p # r
    BY <1>1, <2>2 DEF Aside, Contender, Working
  <2> QED
    BY <2>1, <2>2
<1> QED
  BY <1>1 DEF AloneInv, Undisturbed

(* A request that begins is alone if nobody works for its user; whoever    *)
(* does is not alone any more.                                             *)
LEMMA UndisturbedBegin ==
    ASSUME TypeOK, AloneInv, NEW r \in Requests, NEW u, Overlap(r, u), Aside(r),
           req[r].pc = "idle", req'[r].user = u
    PROVE  \A s \in Requests : Undisturbed(s)'
<1>1. \A s \in Requests \ {r} : (Contender(s)' <=> Contender(s)) /\ req'[s].user = req[s].user
  BY DEF Aside, Contender, Working
<1>2. ~Working(r)
  BY DEF Working, Active, Ongoing
<1>3. alone'[r] => \A s \in Requests \ {r} : Contender(s) => req[s].user # u
  BY <1>2 DEF Overlap, Contender
<1>4. \A s \in Requests \ {r} : alone'[s] => alone[s] /\ (Contender(s) => req[s].user # u)
  BY <1>2 DEF Overlap, Contender
<1>5. Undisturbed(r)'
  BY <1>1, <1>3 DEF Undisturbed
<1>6. ASSUME NEW s \in Requests \ {r} PROVE Undisturbed(s)'
  BY <1>1, <1>4 DEF Undisturbed, AloneInv
<1> QED
  BY <1>5, <1>6

(* What a step of request r has to establish.                              *)
LEMMA AloneStays ==
    ASSUME IInv, AloneInv, NEW r \in Requests, Aside(r),
           \/ \A s \in Requests : Undisturbed(s)'
           \/ Contender(r)' => Contender(r) /\ req'[r].user = req[r].user /\ (alone'[r] => alone[r]),
           Missed(r)', Healing(r)', Writes(r)'
    PROVE  AloneInv'
<1>1. \A s \in Requests : Undisturbed(s)'
  BY UndisturbedStay
<1>2. \A s \in Requests \ {r} : Missed(s)' /\ Healing(s)' /\ Writes(s)'
  BY OthersRely
<1> QED
  BY <1>1, <1>2 DEF AloneInv

(* A request that contends for nothing has nothing to rely on.             *)
LEMMA Idles ==
    ASSUME IInv, AloneInv, NEW r \in Requests, Aside(r), ~Contender(r)'
    PROVE  \/ AloneInv'
           \/ req'[r].pc \in {"read", "select", "insert", "update"}
<1>1. SUFFICES ASSUME req'[r].pc \notin {"read", "select", "insert", "update"} PROVE AloneInv'
  OBVIOUS
<1>2. Missed(r)' /\ Healing(r)' /\ Writes(r)'
  BY <1>1 DEF Missed, Healing, Writes, Contender, Working, Ongoing
<1> QED
  BY <1>2, AloneStays

(* The local variables of a request that goes on, or ends.                 *)
LEMMA Going ==
    ASSUME TypeOK, NEW r \in Requests, NEW label
    PROVE  /\ \A n : GotoWith(r, label, n) =>
                /\ req'[r].pc = label /\ req'[r].op = req[r].op /\ req'[r].user = req[r].user
                /\ \A s \in Requests \ {r} : req'[s] = req[s]
           /\ End(r, label) =>
                /\ req'[r].pc = label /\ req'[r].op = req[r].op
                /\ \A s \in Requests \ {r} : req'[s] = req[s]
<1>1. ASSUME NEW n, GotoWith(r, label, n)
      PROVE  /\ req'[r].pc = label /\ req'[r].op = req[r].op /\ req'[r].user = req[r].user
             /\ \A s \in Requests \ {r} : req'[s] = req[s]
  BY <1>1 DEF GotoWith, Locals, TypeOK
<1>2. ASSUME End(r, label)
      PROVE  /\ req'[r].pc = label /\ req'[r].op = req[r].op
             /\ \A s \in Requests \ {r} : req'[s] = req[s]
  BY <1>2 DEF End, Locals, TypeOK
<1> QED
  BY <1>1, <1>2

-----------------------------------------------------------------------------
(* The steps.                                                              *)

(* A step of MarzbanLink goes on to another, or ends, and at most adds an  *)
(* account.                                                                *)
LEMMA LinkMoves ==
    ASSUME TypeOK, NEW r \in Requests, Step(r)
    PROVE  /\ req[r].pc \in Active /\ req'[r].op = req[r].op
           /\ \/ req'[r].pc \in Active /\ req'[r].user = req[r].user
              \/ req'[r].pc \in Terminal
           /\ \A s \in Requests \ {r} : req'[s] = req[s]
           /\ configured' = configured
           /\ \A n \in DOMAIN account : n \in DOMAIN account' /\ account'[n] = account[n]
<1>1. ASSUME NEW label \in Active \union Terminal, NEW n, GotoWith(r, label, n)
      PROVE  /\ req'[r].op = req[r].op
             /\ \/ req'[r].pc \in Active /\ req'[r].user = req[r].user
                \/ req'[r].pc \in Terminal
             /\ \A s \in Requests \ {r} : req'[s] = req[s]
  BY <1>1, Going
<1>2. ASSUME NEW label \in Terminal, End(r, label)
      PROVE  /\ req'[r].op = req[r].op /\ req'[r].pc \in Terminal
             /\ \A s \in Requests \ {r} : req'[s] = req[s]
  BY <1>2, Going
<1>3. CASE EnsureUnconfigured(r)
  BY <1>1, <1>3 DEF EnsureUnconfigured, At, Active
<1>4. CASE Lookup(r)
  BY <1>1, <1>4 DEF Lookup, At, Active
<1>5. CASE LookupFails(r) \/ CreateFails(r)
  BY <1>1, <1>5 DEF LookupFails, CreateFails, Goto, At, Active
<1>6. CASE Create(r)
  <2>1. \A n \in DOMAIN account : n \in DOMAIN account' /\ account'[n] = account[n]
    BY <1>6 DEF Create, WithAccount, Exists
  <2> QED
    BY <1>1, <1>6, <2>1 DEF Create, Goto, At, Active
<1>7. CASE Claim(r)
  BY <1>1, <1>7 DEF Claim, Goto, At, Active
<1>8. CASE ClaimConflicts(r)
  BY <1>2, <1>8 DEF ClaimConflicts, At, Active, Terminal
<1>9. CASE MarkError(r)
  BY <1>1, <1>9 DEF MarkError, At, Active
<1>10. ASSUME NEW n \in Names, Choose(r, n)
       PROVE  End(r, "refused") \/ GotoWith(r, "check", n)
  BY <1>10 DEF Choose
<1>11. CASE \E n \in Names : Choose(r, n)
  BY <1>1, <1>2, <1>10, <1>11 DEF Choose, At, Active, Terminal
<1>12. CASE Check(r)
  <2>1. Goto(r, "claim") \/ End(r, "refused")
    BY <1>12 DEF Check
  <2> QED
    BY <1>1, <1>2, <1>12, <2>1 DEF Check, Goto, At, Active, Terminal
<1>13. CASE Serve(r)
  BY <1>1, <1>2, <1>13 DEF Serve, Goto, At, Active, Terminal
<1>14. CASE Answer(r) \/ Fail(r)
  BY <1>2, <1>14 DEF Answer, Fail, At, Active, Terminal
<1> QED
  BY <1>3, <1>4, <1>5, <1>6, <1>7, <1>8, <1>9, <1>11, <1>12, <1>13, <1>14
  DEF Step, Ensure, Manual

(* The link of a read changes no subscription and no account's expiry.     *)
LEMMA AloneLink ==
    ASSUME IInv, AloneInv, NEW r \in Requests, LinkStep(r)
    PROVE  AloneInv'
<1>1. /\ req[r].pc \in Active /\ req'[r].op = req[r].op
      /\ \/ req'[r].pc \in Active /\ req'[r].user = req[r].user
         \/ req'[r].pc \in Terminal
      /\ \A s \in Requests \ {r} : req'[s] = req[s]
      /\ configured' = configured
      /\ \A n \in DOMAIN account : n \in DOMAIN account' /\ account'[n] = account[n]
  BY LinkMoves DEF IInv, LinkStep
<1>2. UNCHANGED <<sub, loc, alone>>
  BY DEF LinkStep, ownVars
<1>3. Aside(r)
  BY <1>1, <1>2 DEF Aside
<1>4. req'[r].pc \notin {"read", "select", "insert", "update", "record"}
  BY <1>1 DEF Active, Terminal
<1>5. Missed(r)'
  BY <1>1, <1>2, <1>4 DEF AloneInv, Missed, Active, Terminal
<1>6. Healing(r)' /\ Writes(r)'
  BY <1>4 DEF Healing, Writes
<1>7. Contender(r)' => Contender(r) /\ req'[r].user = req[r].user /\ (alone'[r] => alone[r])
  BY <1>1, <1>2 DEF Contender, Working, Active, Terminal, Ongoing
<1> QED
  BY <1>3, <1>5, <1>6, <1>7, AloneStays

(* A request begins.                                                       *)
LEMMA AloneBegin ==
    ASSUME IInv, AloneInv, NEW r \in Requests,
           \/ \E op \in Operations, u \in Users : Begin(r, op, u) /\ UNCHANGED ownVars
           \/ \E u \in Users : ReadSubscription(r, u)
           \/ \E k \in Keys : Provision(r, k) \/ ProvisionAgain(r, k) \/ Extend(r, k)
    PROVE  AloneInv'
<1>a. req \in [Requests -> RequestsAt(Labels)] /\ loc \in [Requests -> LocalType] /\ TypeOK
  BY Types DEF IInv
<1>1. ASSUME NEW op \in Operations, NEW u \in Users, Begin(r, op, u), UNCHANGED ownVars
      PROVE  AloneInv'
  <2>1. /\ req'[r].op = op /\ req'[r].pc \in {"choose", "ensure"}
        /\ \A s \in Requests \ {r} : req'[s] = req[s]
    BY <1>1, <1>a DEF Begin, Locals
  <2>2. UNCHANGED <<configured, account, sub, loc, alone>>
    BY <1>1 DEF Begin, ownVars
  <2>3. Aside(r)
    BY <2>1, <2>2 DEF Aside
  <2>4. ~Contender(r)'
    BY <2>1 DEF Contender, Operations
  <2> QED
    BY <2>1, <2>3, <2>4, Idles
<1>2. ASSUME NEW u \in Users, ReadSubscription(r, u) PROVE AloneInv'
  <2>1. /\ req'[r].op = "subscription" /\ req'[r].pc = "read" /\ req'[r].user = u
        /\ \A s \in Requests \ {r} : req'[s] = req[s]
    BY <1>2, <1>a DEF ReadSubscription, Locals
  <2>2. /\ UNCHANGED <<configured, account, sub, loc>> /\ Overlap(r, u) /\ req[r].pc = "idle"
    BY <1>2 DEF ReadSubscription, At
  <2>3. \A s \in Requests \ {r} : alone'[s] => alone[s]
    BY <2>2 DEF Overlap
  <2>4. Aside(r)
    BY <2>1, <2>2, <2>3 DEF Aside
  <2>5. Missed(r)' /\ Healing(r)' /\ Writes(r)'
    BY <2>1 DEF Missed, Healing, Writes, Contender, Working, Active, Ongoing
  <2> QED
    BY <1>a, <2>1, <2>2, <2>4, <2>5, UndisturbedBegin, AloneStays
<1>3. ASSUME NEW k \in Keys, Provision(r, k) PROVE AloneInv'
  <2> DEFINE u == OrderOf[k].user
  <2>1. /\ req'[r].op = "provision" /\ req'[r].pc = "remote" /\ req'[r].user = u
        /\ \A s \in Requests \ {r} : req'[s] = req[s] /\ loc'[s] = loc[s]
    BY <1>3, <1>a DEF Provision, Locals
  <2>2. /\ UNCHANGED <<configured, account, sub>> /\ Overlap(r, u) /\ req[r].pc = "idle"
    BY <1>3 DEF Provision, At
  <2>3. \A s \in Requests \ {r} : alone'[s] => alone[s]
    BY <2>2 DEF Overlap
  <2>4. Aside(r)
    BY <2>1, <2>2, <2>3 DEF Aside
  <2>5. Missed(r)' /\ Healing(r)' /\ Writes(r)'
    BY <2>1 DEF Missed, Healing, Writes
  <2> QED
    BY <1>a, <2>1, <2>2, <2>4, <2>5, UndisturbedBegin, AloneStays
<1>4. ASSUME NEW k \in Keys, ProvisionAgain(r, k) \/ Extend(r, k) PROVE AloneInv'
  <2>1. /\ req'[r].pc \in {"answered", "failed"}
        /\ \A s \in Requests \ {r} : req'[s] = req[s] /\ loc'[s] = loc[s]
    <3>1. CASE ProvisionAgain(r, k)
      BY <1>a, <3>1 DEF ProvisionAgain, Locals
    <3>2. CASE Extend(r, k)
      BY <1>a, <3>2 DEF Extend, Locals, ownVars
    <3> QED
      BY <1>4, <3>1, <3>2
  <2>2. UNCHANGED <<configured, account, sub, alone>>
    BY <1>4 DEF ProvisionAgain, Extend, ownVars
  <2>3. Aside(r)
    BY <2>1, <2>2 DEF Aside
  <2>4. ~Contender(r)'
    BY <2>1 DEF Contender, Working, Active, Ongoing
  <2> QED
    BY <2>1, <2>3, <2>4, Idles
<1> QED
  BY <1>1, <1>2, <1>3, <1>4

(* What a handler holds in loc after an assignment, and the others.        *)
LEMMA LocIs ==
    ASSUME TypeOK, NEW r \in Requests, NEW local, loc' = [loc EXCEPT ![r] = local]
    PROVE  loc'[r] = local /\ \A s \in Requests \ {r} : loc'[s] = loc[s]
  BY DEF TypeOK

(* A handler that ends contends for nothing any more.                      *)
LEMMA Finishes ==
    ASSUME TypeOK, NEW r \in Requests, NEW label \in Answers, NEW k, NEW action,
           Finish(r, label, k, action)
    PROVE  /\ req'[r].pc = label /\ ~Contender(r)'
           /\ \A s \in Requests \ {r} : req'[s] = req[s] /\ loc'[s] = loc[s] /\ alone'[s] = alone[s]
<1>1. req'[r].pc = label /\ \A s \in Requests \ {r} : req'[s] = req[s]
  BY Going DEF Finish
<1>2. \A s \in Requests \ {r} : loc'[s] = loc[s]
  BY LocIs DEF Finish
<1>3. \A s \in Requests \ {r} : alone'[s] = alone[s]
  BY DEF Finish, TypeOK
<1> QED
  BY <1>1, <1>2, <1>3 DEF Contender, Working, Answers, Terminal, Ended, Active, Ongoing

(* It ends, and has written nothing but its user's subscription.           *)
LEMMA AloneFinish ==
    ASSUME IInv, AloneInv, NEW r \in Requests, NEW label \in Answers, NEW k, NEW action,
           Finish(r, label, k, action), UNCHANGED <<configured, account>>,
           \A u : ~(Contender(r) /\ req[r].user = u) =>
             /\ u \in DOMAIN sub' <=> u \in DOMAIN sub
             /\ u \in DOMAIN sub => sub'[u] = sub[u]
    PROVE  AloneInv'
<1>1. /\ req'[r].pc = label /\ ~Contender(r)'
      /\ \A s \in Requests \ {r} : req'[s] = req[s] /\ loc'[s] = loc[s] /\ alone'[s] = alone[s]
  BY Finishes DEF IInv
<1>2. Aside(r)
  BY <1>1 DEF Aside
<1>3. req'[r].pc \notin {"read", "select", "insert", "update"}
  BY <1>1 DEF Answers, Terminal, Ended
<1> QED
  BY <1>1, <1>2, <1>3, Idles

(* The reads and the look-ups: nothing is written yet.                     *)
LEMMA AloneQuiet ==
    ASSUME IInv, AloneInv, NEW r \in Requests,
           ReadLocal(r) \/ Fetch(r) \/ Select(r) \/ RemoteLookup(r)
    PROVE  AloneInv'
<1>a. TypeOK /\ Missed(r) /\ Healing(r) /\ Writes(r) /\ KeyLocals(r) /\ LinkLocals(r)
  BY DEF IInv, AloneInv
<1>b. UNCHANGED <<configured, account, sub>>
  BY DEF ReadLocal, Fetch, Select, RemoteLookup, ownVars
<1>1. ASSUME NEW label \in Answers, NEW k, NEW action, Finish(r, label, k, action)
      PROVE  AloneInv'
  BY <1>b, <1>1, AloneFinish
<1>2. ASSUME NEW label \in {"ensure", "select", "insert", "update", "put", "post"},
             Goto(r, label), UNCHANGED alone,
             \A s \in Requests \ {r} : loc'[s] = loc[s],
             req[r].pc \in Active \union Ongoing,
             Contender(r) \/ label \in {"ensure", "put", "post"},
             Missed(r)', Healing(r)'
      PROVE  AloneInv'
  <2>1. /\ req'[r].pc = label /\ req'[r].op = req[r].op /\ req'[r].user = req[r].user
        /\ \A s \in Requests \ {r} : req'[s] = req[s]
    BY <1>a, <1>2, Going DEF Goto
  <2>2. Aside(r)
    BY <1>b, <1>2, <2>1 DEF Aside
  <2>3. Contender(r)' => Contender(r) /\ req'[r].user = req[r].user /\ (alone'[r] => alone[r])
    BY <1>2, <2>1 DEF Contender, Working
  <2>4. Writes(r)'
    BY <1>2, <2>1 DEF Writes, Contender, Working, Ongoing
  <2> QED
    BY <1>2, <2>2, <2>3, <2>4, AloneStays
<1>3. CASE ReadLocal(r)
  <2>1. CASE Finish(r, "answered", NoKey, r)
    BY <1>1, <2>1 DEF Answers, Ended
  <2>2. CASE req[r].user \notin DOMAIN sub /\ Goto(r, "ensure") /\ UNCHANGED <<loc, alone>>
    <3>1. req'[r].pc = "ensure" /\ req'[r].op = req[r].op /\ req'[r].user = req[r].user
      BY <1>a, <2>2, Going DEF Goto
    <3>2. Missed(r)' /\ Healing(r)'
      BY <1>b, <2>2, <3>1 DEF Missed, Healing
    <3>3. req[r].pc \in Ongoing
      BY <1>3 DEF ReadLocal, At, Ongoing
    <3> QED
      BY <1>2, <2>2, <3>2, <3>3
  <2> QED
    BY <1>3, <2>1, <2>2 DEF ReadLocal
<1>4. CASE Fetch(r)
  <2>a. req[r].pc = "linked" /\ req[r].op = "subscription" /\ "linked" \in Active
    BY <1>4 DEF Fetch, At, Active
  <2>1. CASE Finish(r, "missing", NoKey, r)
    BY <1>1, <2>1 DEF Answers, Ended
  <2>2. CASE /\ loc' = [loc EXCEPT ![r] =
                          Local(NoKey, r, account[req[r].target], FALSE, NoRow, TRUE)]
             /\ Goto(r, "select") /\ UNCHANGED alone
    <3>1. req'[r].pc = "select" /\ req'[r].op = req[r].op /\ req'[r].user = req[r].user
      BY <1>a, <2>2, Going DEF Goto
    <3>2. \A s \in Requests \ {r} : loc'[s] = loc[s]
      BY <1>a, <2>2, LocIs
    <3>3. Missed(r)' /\ Healing(r)'
      BY <1>a, <1>b, <2>2, <2>a, <3>1 DEF Missed, Healing
    <3>4. Contender(r)
      BY <2>a DEF Contender, Working
    <3> QED
      BY <1>2, <2>2, <2>a, <3>2, <3>3, <3>4
  <2> QED
    BY <1>4, <2>1, <2>2 DEF Fetch
<1>5. CASE Select(r)
  <2> DEFINE here == req[r].user \in DOMAIN sub
             label == IF here THEN "update" ELSE "insert"
             seen == IF here THEN sub[req[r].user] ELSE NoRow
  <2>1. /\ req[r].pc = "select" /\ "select" \in Ongoing /\ Contender(r) /\ Goto(r, label)
        /\ UNCHANGED alone
        /\ loc' = [loc EXCEPT ![r] = Local(loc[r].key, loc[r].action, loc[r].expire,
                                           loc[r].expire > now, seen, loc[r].ok)]
    BY <1>5, <1>a DEF Select, At, Ongoing, Writes
  <2>2. req'[r].pc = label /\ req'[r].op = req[r].op /\ req'[r].user = req[r].user
    BY <1>a, <2>1, Going DEF Goto
  <2>3. /\ loc'[r].expire = loc[r].expire /\ loc'[r].seen = seen /\ loc'[r].ok = loc[r].ok
        /\ \A s \in Requests \ {r} : loc'[s] = loc[s]
    <3>1. PICK local :
            /\ local.expire = loc[r].expire /\ local.seen = seen /\ local.ok = loc[r].ok
            /\ loc' = [loc EXCEPT ![r] = local]
      BY <2>1 DEF Local
    <3> QED
      BY <1>a, <3>1, LocIs
  <2>4. Missed(r)'
    BY <1>a, <1>b, <2>1, <2>2 DEF Missed
  <2>5. Healing(r)'
    BY <1>a, <1>b, <2>1, <2>2, <2>3 DEF Healing, Exists
  <2> QED
    BY <1>2, <2>1, <2>3, <2>4, <2>5
<1>6. CASE RemoteLookup(r)
  <2>1. /\ req[r].pc = "remote" /\ "remote" \in Ongoing /\ req[r].op = "provision"
        /\ UNCHANGED <<loc, alone>>
    BY <1>6, <1>a DEF RemoteLookup, At, Ongoing, ownVars, KeyLocals
  <2>2. Contender(r)
    BY <2>1 DEF Contender, Working
  <2>3. PICK label \in {"select", "put", "post"} :
          Goto(r, label) /\ (label = "select" => ~configured)
    BY <1>6 DEF RemoteLookup
  <2>4. req'[r].pc = label /\ req'[r].op = req[r].op /\ req'[r].user = req[r].user
    BY <1>a, <2>3, Going DEF Goto
  <2>5. Missed(r)' /\ Healing(r)'
    BY <1>b, <2>1, <2>3, <2>4 DEF Missed, Healing
  <2> QED
    BY <1>2, <2>1, <2>2, <2>3, <2>5
<1> QED
  BY <1>3, <1>4, <1>5, <1>6

(* Writing one row of subscriptions.                                       *)
LEMMA SetSubIs ==
    ASSUME NEW u, NEW active, NEW e, SetSub(u, active, e)
    PROVE  /\ u \in DOMAIN sub' /\ sub'[u] = [active |-> active, expire |-> e]
           /\ \A v : v # u => (v \in DOMAIN sub' <=> v \in DOMAIN sub)
           /\ \A v \in DOMAIN sub : v # u => sub'[v] = sub[v]
  BY DEF SetSub

(* A write of the subscription: a read is done, a provisioning goes on.    *)
LEMMA AloneWritten ==
    ASSUME IInv, AloneInv, NEW r \in Requests, req[r].pc \in {"insert", "update"},
           UNCHANGED <<configured, account>>,
           NEW active, NEW e, SetSub(req[r].user, active, e),
           req[r].op = "provision" /\ alone[r] => active = loc[r].active /\ e = loc[r].expire,
           AfterWrite(r)
    PROVE  AloneInv'
<1>a. TypeOK /\ Healing(r) /\ Writes(r) /\ Contender(r)
  BY DEF IInv, AloneInv, Writes
<1>b. PICK u : u = req[r].user
  OBVIOUS
<1>1. /\ u \in DOMAIN sub' /\ sub'[u] = [active |-> active, expire |-> e]
      /\ \A v : v # u => (v \in DOMAIN sub' <=> v \in DOMAIN sub)
      /\ \A v \in DOMAIN sub : v # u => sub'[v] = sub[v]
  BY <1>b, SetSubIs
<1>2. \A v : ~(Contender(r) /\ req[r].user = v) =>
        /\ v \in DOMAIN sub' <=> v \in DOMAIN sub
        /\ v \in DOMAIN sub => sub'[v] = sub[v]
  BY <1>a, <1>b, <1>1
<1>3. CASE Finish(r, "answered", NoKey, r)
  BY <1>2, <1>3, AloneFinish DEF Answers, Ended
<1>4. CASE req[r].op = "provision" /\ Goto(r, "record") /\ UNCHANGED <<loc, alone>>
  <2>1. /\ req'[r].pc = "record" /\ req'[r].op = req[r].op /\ req'[r].user = req[r].user
        /\ \A s \in Requests \ {r} : req'[s] = req[s]
    BY <1>a, <1>4, Going DEF Goto
  <2>2. Aside(r)
    BY <1>2, <1>4, <2>1 DEF Aside
  <2>3. Contender(r)' => Contender(r) /\ req'[r].user = req[r].user /\ (alone'[r] => alone[r])
    BY <1>a, <1>4, <2>1
  <2>4. Missed(r)' /\ Writes(r)'
    BY <1>4, <2>1 DEF Missed, Writes
  <2>5. Healing(r)'
    BY <1>a, <1>b, <1>1, <1>4, <2>1 DEF Healing, Exists
  <2> QED
    BY <2>2, <2>3, <2>4, <2>5, AloneStays
<1> QED
  BY <1>3, <1>4 DEF AfterWrite

(* The two ways to write: the row that an update of a request that is      *)
(* alone replaces is the one it has read.                                  *)
LEMMA AloneWrite ==
    ASSUME IInv, AloneInv, NEW r \in Requests, Insert(r) \/ Update(r)
    PROVE  AloneInv'
<1>1. CASE Insert(r)
  <2>1. req[r].pc = "insert" /\ UNCHANGED <<configured, account>>
    BY <1>1 DEF Insert, At
  <2>2. CASE SetSub(req[r].user, loc[r].active, loc[r].expire) /\ AfterWrite(r)
    BY <2>1, <2>2, AloneWritten
  <2>3. CASE Finish(r, "failed", NoKey, r) /\ UNCHANGED sub
    BY <2>1, <2>3, AloneFinish DEF Answers, Terminal
  <2> QED
    BY <1>1, <2>2, <2>3 DEF Insert
<1>2. CASE Update(r)
  <2>1. req[r].pc = "update" /\ UNCHANGED <<configured, account>> /\ AfterWrite(r)
    BY <1>2 DEF Update, At
  <2> DEFINE active == Written(loc[r].active, loc[r].seen.active, sub[req[r].user].active)
             e == Written(loc[r].expire, loc[r].seen.expire, sub[req[r].user].expire)
  <2>2. SetSub(req[r].user, active, e)
    BY <1>2 DEF Update
  <2>3. req[r].op = "provision" /\ alone[r] => active = loc[r].active /\ e = loc[r].expire
    <3>1. req[r].op = "provision" /\ alone[r] => sub[req[r].user] = loc[r].seen
      BY <2>1 DEF AloneInv, Healing
    <3> QED
      BY <3>1 DEF Written
  <2> HIDE DEF active, e
  <2> QED
    BY <2>1, <2>2, <2>3, AloneWritten
<1> QED
  BY <1>1, <1>2

(* Writing one account.                                                    *)
LEMMA WithAccountIs ==
    ASSUME NEW n, NEW e, account' = WithAccount(n, e)
    PROVE  /\ n \in DOMAIN account' /\ account'[n] = e
           /\ \A m \in DOMAIN account : m \in DOMAIN account' /\ (m # n => account'[m] = account[m])
  BY DEF WithAccount

(* The calls to Marzban: one that succeeds leaves the expiry that was      *)
(* asked for, and one that fails is remembered.                            *)
LEMMA AloneRemote ==
    ASSUME IInv, AloneInv, NEW r \in Requests, RemoteWrite(r) \/ RemoteFails(r)
    PROVE  AloneInv'
<1>a. TypeOK /\ KeyLocals(r)
  BY DEF IInv
<1>1. /\ req[r].pc \in {"remote", "put", "post"} /\ Goto(r, "select")
      /\ UNCHANGED <<configured, sub, alone>>
  BY DEF RemoteWrite, RemoteFails, At, ownVars
<1>2. req[r].op = "provision" /\ Contender(r)
  BY <1>a, <1>1 DEF KeyLocals, Contender, Working, Ongoing
<1>3. /\ req'[r].pc = "select" /\ req'[r].op = req[r].op /\ req'[r].user = req[r].user
      /\ \A s \in Requests \ {r} : req'[s] = req[s]
  BY <1>a, <1>1, Going DEF Goto
<1>4. PICK u : u = req[r].user
  OBVIOUS
<1>5. account' = account \/ account' = WithAccount(u, loc[r].expire)
  BY <1>4 DEF RemoteWrite, RemoteFails
<1>6. \A n \in DOMAIN account : n \in DOMAIN account' /\ (n # u => account'[n] = account[n])
  <2>1. PICK e : e = loc[r].expire
    OBVIOUS
  <2> QED
    BY <1>5, <2>1, WithAccountIs
<1>7. \A s \in Requests \ {r} : loc'[s] = loc[s]
  <2>1. CASE RemoteWrite(r)
    BY <2>1 DEF RemoteWrite, ownVars
  <2>2. CASE RemoteFails(r)
    BY <1>a, <2>2, LocIs DEF RemoteFails
  <2> QED
    BY <2>1, <2>2
<1>8. Aside(r)
  BY <1>1, <1>2, <1>3, <1>4, <1>6, <1>7 DEF Aside
<1>9. Missed(r)' /\ Writes(r)'
  BY <1>2, <1>3 DEF Missed, Writes, Contender, Working, Ongoing
<1>10. Healing(r)'
  <2>1. CASE RemoteWrite(r)
    <3>1. PICK e : e = loc[r].expire
      OBVIOUS
    <3>2. account' = WithAccount(u, e) /\ UNCHANGED loc
      BY <1>4, <2>1, <3>1 DEF RemoteWrite, ownVars
    <3>3. u \in DOMAIN account' /\ account'[u] = e
      BY <3>2, WithAccountIs
    <3> QED
      BY <1>3, <1>4, <3>1, <3>2, <3>3 DEF Healing, Exists
  <2>2. CASE RemoteFails(r)
    <3>1. PICK local : ~local.ok /\ loc' = [loc EXCEPT ![r] = local]
      BY <2>2 DEF RemoteFails, Local
    <3>2. ~loc'[r].ok
      BY <1>a, <3>1, LocIs
    <3> QED
      BY <1>3, <3>2 DEF Healing
  <2> QED
    BY <2>1, <2>2
<1>11. Contender(r)' => Contender(r) /\ req'[r].user = req[r].user /\ (alone'[r] => alone[r])
  BY <1>1, <1>2, <1>3
<1> QED
  BY <1>8, <1>9, <1>10, <1>11, AloneStays

(* Every step of a request under way.                                      *)
LEMMA AloneHandle == ASSUME IInv, AloneInv, NEW r \in Requests, Handle(r) PROVE AloneInv'
<1>1. ASSUME NEW label \in {"answered", "failed"}, NEW k, NEW action,
             Finish(r, label, k, action), UNCHANGED <<configured, account, sub>>
      PROVE  AloneInv'
  BY <1>1, AloneFinish DEF Answers, Terminal, Ended
<1>2. CASE Record(r) \/ RecordConflicts(r) \/ Abort(r)
  BY <1>1, <1>2 DEF Record, RecordConflicts, Abort
<1> QED
  BY <1>2, AloneQuiet, AloneWrite, AloneRemote, AloneLink DEF Handle

(* The clock moves nothing else.                                           *)
LEMMA AloneStutter ==
    ASSUME AloneInv, Tick \/ UNCHANGED vars
    PROVE  AloneInv'
<1>1. UNCHANGED <<configured, account, req, sub, loc, alone>>
  BY DEF Tick, vars, linkVars, ownVars
<1> QED
  BY <1>1 DEF AloneInv, Undisturbed, Missed, Healing, Writes, Contender, Working, Exists

(* The invariant is inductive, given the one above.                        *)
LEMMA AloneStep == IInv /\ AloneInv /\ [Next]_vars => AloneInv'
  BY AloneBegin, AloneHandle, AloneStutter DEF Next

(* No request has begun.                                                   *)
LEMMA AloneStart == Init => AloneInv
<1>1. Init => \A r \in Requests : req[r].pc = "idle" /\ req[r].op = "none"
  BY DEF Init, LinkInit, Locals
<1> QED
  BY <1>1 DEF AloneInv, Undisturbed, Missed, Healing, Writes, Contender, Working, Active, Ongoing

(* What a request that is alone relies on stays true while it works.       *)
THEOREM AloneInvariance == Spec => []AloneInv
  BY Invariance, AloneStart, AloneStep, PTL DEF Spec

(* A provisioning that is alone and reached Marzban leaves the table and   *)
(* Marzban in agreement, whatever earlier requests left half done.         *)
THEOREM ProvisioningHeals == Spec => RetryHeals
<1>1. IInv /\ AloneInv /\ [Next]_vars =>
        [\A r \in Requests :
           At(r, "record") /\ At(r, "answered")' /\ alone[r] /\ loc[r].ok =>
             LET u == req[r].user IN
             /\ sub[u] = [active |-> loc[r].active, expire |-> loc[r].expire]
             /\ configured => account[u] = loc[r].expire]_vars
  BY DEF IInv, KeyLocals, AloneInv, Healing, At
<1> QED
  BY <1>1, Invariance, AloneInvariance, PTL DEF Spec, RetryHeals

(* Only an update writes a row that exists.                                *)
LEMMA RowIsKeptStep ==
    ASSUME IInv, AloneInv, [Next]_vars, NEW u \in DOMAIN sub, sub'[u] # sub[u]
    PROVE  \E r \in Requests :
             /\ At(r, "update") /\ ~At(r, "update")'
             /\ req[r].user = u
             /\ req[r].op = "provision" \/ ~alone[r]
<1>1. PICK r \in Requests : Insert(r) \/ Update(r)
  BY DEF Next, vars, linkVars, ownVars, Tick, Begin, ReadSubscription, Provision,
     ProvisionAgain, Extend, Handle, LinkStep, ReadLocal, Fetch, Select,
     RemoteLookup, RemoteWrite, RemoteFails, Record, RecordConflicts, Abort
<1>2. ASSUME Insert(r) PROVE FALSE
  <2>1. PICK v, active, e : v # u /\ SetSub(v, active, e)
    BY <1>2 DEF Insert
  <2> QED
    BY <2>1, SetSubIs
<1>3. Update(r)
  BY <1>1, <1>2
<1>4. req[r].user = u
  <2>1. PICK v, active, e : v = req[r].user /\ SetSub(v, active, e)
    BY <1>3 DEF Update
  <2> QED
    BY <2>1, SetSubIs
<1>5. At(r, "update") /\ AfterWrite(r)
  BY <1>3 DEF Update
<1>6. ~At(r, "update")'
  <2>1. req'[r].pc = "record" \/ req'[r].pc = "answered"
    BY <1>5, Going DEF AfterWrite, Goto, Finish, IInv
  <2> QED
    BY <2>1 DEF At
<1>7. req[r].op = "provision" \/ ~alone[r]
  BY <1>5 DEF AloneInv, Writes, Contender, Missed, At
<1> QED
  BY <1>4, <1>5, <1>6, <1>7

(* A stored subscription is changed by a provisioning, and by a read only  *)
(* if another request for the same user has overlapped it.                 *)
THEOREM ReadsNeverReplace == Spec => LoneReadsKeepSubscriptions
<1>1. IInv /\ AloneInv /\ [Next]_vars =>
        [\A u \in DOMAIN sub : sub'[u] # sub[u] =>
           \E r \in Requests :
             /\ At(r, "update") /\ ~At(r, "update")'
             /\ req[r].user = u
             /\ req[r].op = "provision" \/ ~alone[r]]_vars
  BY RowIsKeptStep
<1> QED
  BY <1>1, Invariance, AloneInvariance, PTL DEF Spec, LoneReadsKeepSubscriptions
=============================================================================
