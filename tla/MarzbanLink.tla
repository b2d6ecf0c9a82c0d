----------------------------- MODULE MarzbanLink -----------------------------
(***************************************************************************)
(* The link between users of the application and accounts of Marzban:      *)
(* MarzbanLinkService, called by a sign-in, by GET /configs and by POST    *)
(* /me/marzban/link, and what ConfigService does with the link.            *)
(*                                                                         *)
(* Every request has one database session.  Its user object is loaded by   *)
(* the bearer check and not read again until the request commits; a commit *)
(* writes the columns that differ from what was loaded.  Each transaction  *)
(* is one statement, so it is one step.  The calls of MarzbanClient may    *)
(* fail, and a call that fails may have taken effect.  Subscriptions adds  *)
(* the other requests that use these tables, and the specification.        *)
(***************************************************************************)
EXTENDS Integers, FiniteSets

CONSTANTS
    Requests,   \* HTTP requests, each served once
    Users,      \* rows of users, by external id
    Chosen,     \* accounts that exist in Marzban before any link
    Expiries,   \* bound: the expire values of these accounts
    NoName      \* NULL, and the user of a request that has not begun

VARIABLES
    configured,  \* MarzbanClient.is_configured(): a setting of the process
    account,     \* Marzban's accounts: expire by name, 0 for none
    row,         \* committed marzban_username and marzban_link_status
    req,         \* control point and local variables of every request
    owned        \* history: every name that was ever linked to the user

linkVars == <<configured, account, row, req, owned>>

BuildUsername(u) == <<"app", u>>
Names == Chosen \union Users \union {BuildUsername(u) : u \in Users}

ASSUME LinkAssumption ==
    /\ NoName \notin Names
    /\ Expiries \subseteq Nat

Status == {"pending", "linked", "error"}

Terminal == {"served", "placeholder", "done", "refused", "failed"}
Active == {"ensure", "create", "claim", "error", "choose", "check", "linked"}
Operations == {"signin", "configs", "link"}

(* What a request is, at any of the control points given.                  *)
RequestsAt(labels) ==
    [pc: labels,
     op: Operations \union {"none", "subscription", "provision", "extend"},
     user: Users \union {NoName},
     name: Names \union {NoName}, status: Status,
     target: Names \union {NoName}]

LinkTablesOK ==
    /\ configured \in BOOLEAN
    /\ DOMAIN account \subseteq Names
    /\ account \in [DOMAIN account -> Nat]
    /\ row \in [Users -> [name: Names \union {NoName}, status: Status]]
    /\ owned \in [Users -> SUBSET Names]

(* marzban_username and marzban_link_status of a user.                     *)
Link(name, status) == [name |-> name, status |-> status]

(* The local variables of a handler at a control point.                    *)
Locals(label, op, u, name, status, target) ==
    [pc |-> label, op |-> op, user |-> u, name |-> name, status |-> status,
     target |-> target]

LinkInit ==
    /\ configured \in BOOLEAN
    /\ account \in [Chosen -> Expiries]
    /\ row = [u \in Users |-> Link(NoName, "pending")]
    /\ req = [r \in Requests |->
                Locals("idle", "none", NoName, NoName, "pending", NoName)]
    /\ owned = [u \in Users |-> {}]

At(r, label) == req[r].pc = label
GotoWith(r, label, n) ==
    req' = [req EXCEPT ![r] = Locals(label, @.op, @.user, @.name, @.status, n)]
Goto(r, label) == GotoWith(r, label, req[r].target)
(* The handler ends: what it held in memory is gone.                       *)
End(r, label) ==
    req' = [req EXCEPT ![r] = Locals(label, @.op, NoName, NoName, "pending", NoName)]

Exists(n) == n \in DOMAIN account
WithAccount(n, expire) ==
    [m \in DOMAIN account \union {n} |-> IF m = n THEN expire ELSE account[m]]

(* Faulty variant: the value that was loaded is written back.              *)
StaleWritten(new, loaded, current) == IF new # loaded THEN loaded ELSE current

(* What a commit leaves in a column: the new value if it differs from the  *)
(* one that was loaded, and otherwise whatever the row holds by then.      *)
Written(new, loaded, current) == IF new # loaded THEN new ELSE current

(* Faulty variants: the SELECT of link_existing_user is trusted, and the   *)
(* column is not unique; the link a user has is not looked at.             *)
NeverLinked(u, n) == FALSE
AlwaysBuiltTarget(r) == BuildUsername(req[r].user)

(* What the unique index of the column excludes.                           *)
LinkedToOther(u, n) == \E v \in Users \ {u} : row[v].name = n

EnsureTarget(r) ==
    IF req[r].name # NoName THEN req[r].name ELSE BuildUsername(req[r].user)

-----------------------------------------------------------------------------
(* Faulty variants, see the properties below.                              *)

(* The name is resolved although its link has failed.                      *)
HopefulMarkError(r) ==
    LET u == req[r].user IN
    /\ At(r, "error")
    /\ row' = [row EXCEPT ![u] = Link(@.name, "error")]
    /\ GotoWith(r, "linked", EnsureTarget(r))
    /\ UNCHANGED <<configured, account, owned>>

(* A create that could not be made is taken for one that was.              *)
TrustingCreateFails(r) ==
    /\ At(r, "create")
    /\ Goto(r, "claim")
    /\ UNCHANGED <<configured, account, row, owned>>

-----------------------------------------------------------------------------

(* The bearer check, or the sign-in, loads the user.                       *)
Begin(r, op, u) ==
    /\ At(r, "idle")
    /\ req' = [req EXCEPT ![r] =
                 Locals(IF op = "link" THEN "choose" ELSE "ensure",
                        op, u, row[u].name, row[u].status, NoName)]
    /\ UNCHANGED <<configured, account, row, owned>>

(* ensure_link without Marzban: the state is pending, the name as it is.   *)
EnsureUnconfigured(r) ==
    LET u == req[r].user IN
    /\ At(r, "ensure")
    /\ ~configured
    /\ row' = [row EXCEPT ![u] = Link(@.name, Written("pending", req[r].status, @.status))]
    /\ GotoWith(r, "linked", row[u].name)
    /\ UNCHANGED <<configured, account, owned>>

(* GET /api/user/<target>.                                                 *)
Lookup(r) ==
    LET n == EnsureTarget(r) IN
    /\ At(r, "ensure")
    /\ configured
    /\ GotoWith(r, IF Exists(n) THEN "claim" ELSE "create", n)
    /\ UNCHANGED <<configured, account, row, owned>>

LookupFails(r) ==
    /\ At(r, "ensure")
    /\ configured
    /\ Goto(r, "error")
    /\ UNCHANGED <<configured, account, row, owned>>

(* POST /api/user; its answer may be lost.                                 *)
Create(r) ==
    /\ At(r, "create")
    /\ ~Exists(req[r].target)
    /\ account' = WithAccount(req[r].target, 0)
    /\ \/ Goto(r, "claim")
       \/ Goto(r, "error")
    /\ UNCHANGED <<configured, row, owned>>

(* Marzban does not create it, perhaps because another request just has.   *)
CreateFails(r) ==
    /\ At(r, "create")
    /\ Goto(r, "error")
    /\ UNCHANGED <<configured, account, row, owned>>

(* marzban_username is assigned and the state set: one commit, which the   *)
(* unique index may refuse.                                                *)
Claim(r) ==
    LET u == req[r].user
        n == Written(req[r].target, req[r].name, row[u].name)
        s == Written("linked", req[r].status, row[u].status)
    IN
    /\ At(r, "claim")
    /\ ~LinkedToOther(u, n)
    /\ row' = [row EXCEPT ![u] = Link(n, s)]
    /\ owned' = [owned EXCEPT ![u] = @ \union {n}]
    /\ Goto(r, "linked")
    /\ UNCHANGED <<configured, account>>

ClaimConflicts(r) ==
    /\ At(r, "claim")
    /\ req[r].target # req[r].name
    /\ LinkedToOther(req[r].user, req[r].target)
    /\ End(r, "failed")
    /\ UNCHANGED <<configured, account, row, owned>>

(* resolve_username catches a MarzbanError and returns no name.            *)
MarkError(r) ==
    LET u == req[r].user IN
    /\ At(r, "error")
    /\ row' = [row EXCEPT ![u] = Link(@.name, Written("error", req[r].status, @.status))]
    /\ GotoWith(r, "linked", NoName)
    /\ UNCHANGED <<configured, account, owned>>

(* link_existing_user: the SELECT for another owner, then Marzban.         *)
Choose(r, n) ==
    /\ At(r, "choose")
    /\ IF \E v \in Users \ {req[r].user} : row[v].name = n
       THEN End(r, "refused")
       ELSE GotoWith(r, "check", n)
    /\ UNCHANGED <<configured, account, row, owned>>

Check(r) ==
    /\ At(r, "check")
    /\ IF configured /\ Exists(req[r].target)
       THEN Goto(r, "claim")
       ELSE End(r, "refused")
    /\ UNCHANGED <<configured, account, row, owned>>

(* GET /configs: the account is read again.  What is missing, or cannot be *)
(* read, becomes a placeholder.                                            *)
Serve(r) ==
    /\ At(r, "linked")
    /\ req[r].op = "configs"
    /\ \/ /\ configured
          /\ Exists(req[r].target)
          /\ Goto(r, "served")
       \/ End(r, "placeholder")
    /\ UNCHANGED <<configured, account, row, owned>>

Answer(r) ==
    /\ At(r, "linked")
    /\ req[r].op \in {"signin", "link"}
    /\ End(r, "done")
    /\ UNCHANGED <<configured, account, row, owned>>

(* A commit fails (the audit record's included), the server restarts, or   *)
(* link_existing_user cannot reach Marzban: nothing more is written.       *)
Fail(r) ==
    /\ req[r].pc \in Active
    /\ End(r, "failed")
    /\ UNCHANGED <<configured, account, row, owned>>

Ensure(r) ==
    \/ EnsureUnconfigured(r) \/ Lookup(r) \/ LookupFails(r)
    \/ Create(r) \/ CreateFails(r)
    \/ Claim(r) \/ ClaimConflicts(r) \/ MarkError(r)

Manual(r) == Check(r) \/ \E n \in Names : Choose(r, n)

Step(r) == Ensure(r) \/ Manual(r) \/ Serve(r) \/ Answer(r) \/ Fail(r)

-----------------------------------------------------------------------------
(* What linking promises.                                                  *)

(* An account of Marzban belongs to one user of the application, however   *)
(* automatic and chosen links interleave.                                  *)
OneOwner ==
    \A u, v \in Users :
      row[u].name = row[v].name /\ row[u].name # NoName => u = v

(* A link is only stored when Marzban has the account, even when its       *)
(* answers are lost or come from a request of another thread.              *)
LinkedAccountExists ==
    \A u \in Users : row[u].name # NoName => Exists(row[u].name)

(* The configs a user is given are those of an account that was linked to  *)
(* that user when the request stored, or found, the link.                  *)
ServedWasOwned ==
    \A r \in Requests :
      At(r, "served") => req[r].target \in owned[req[r].user]

(* A link is replaced by the user's choice, and otherwise only by the      *)
(* automatic link of a request that loaded the user when there was none    *)
(* (which may put the built name in the place of a choice made meanwhile); *)
(* no request that knows a link replaces it unasked.                       *)
LinkChangesForCause ==
    [][\A u \in Users :
         row[u].name # NoName /\ row'[u].name # row[u].name =>
           \E r \in Requests :
             /\ At(r, "claim") /\ At(r, "linked")'
             /\ req[r].user = u
             /\ req[r].op = "link" \/ req[r].name = NoName]_linkVars
=============================================================================
