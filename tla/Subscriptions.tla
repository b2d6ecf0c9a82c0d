---------------------------- MODULE Subscriptions ----------------------------
(***************************************************************************)
(* Subscriptions: GET /subscription, which asks Marzban on a miss, and the *)
(* internal provision and extend endpoints with their idempotency keys.    *)
(* The module adds these requests, and the tables of subscriptions and     *)
(* keys, to those of MarzbanLink, whose steps a subscription read shares:  *)
(* its runs check the two together.                                        *)
(*                                                                         *)
(* Marzban, the subscription, the audit record and the key are written one *)
(* after another, and a request may end between any two of them.           *)
(***************************************************************************)
EXTENDS MarzbanLink

CONSTANTS
    Keys,         \* idempotency keys
    NoKey,        \* key of a request without one
    PlanDays,     \* plan_days_map, in ticks
    DefaultDays,  \* default_provision_days, in ticks
    OrderOf,      \* what a client asks for under a key: user and plan
    MaxTime       \* bound: the clock stops here

ASSUME SubscriptionAssumption ==
    /\ NoKey \notin Keys
    /\ \A plan \in DOMAIN PlanDays : PlanDays[plan] \in Nat \ {0}
    /\ DefaultDays \in Nat \ {0}
    /\ \A k \in Keys : OrderOf[k].user \in Users
    /\ MaxTime \in Nat

VARIABLES
    now,     \* unix_timestamp_now()
    sub,     \* committed rows of subscriptions, by user_external_id
    stored,  \* committed rows of idempotency_keys, by key
    loc,     \* local variables of the handlers of this module
    alone    \* history: no other request for its user has overlapped this one

ownVars == <<now, sub, stored, loc, alone>>
vars == <<linkVars, ownVars>>

Ongoing == {"read", "select", "insert", "update", "remote", "put", "post", "record"}
Ended == {"answered", "missing"}
NoRow == [active |-> FALSE, expire |-> 0]

(* ok: every call to Marzban that the provisioning made succeeded.         *)
Local(k, action, e, active, seen, ok) ==
    [key |-> k, action |-> action, expire |-> e, active |-> active,
     seen |-> seen, ok |-> ok]

Row == [active: BOOLEAN, expire: Nat]

TypeOK ==
    /\ LinkTablesOK
    /\ req \in [Requests -> RequestsAt({"idle"} \union Active \union Terminal
                                         \union Ongoing \union Ended)]
    /\ now \in 0..MaxTime
    /\ sub \in [DOMAIN sub -> Row]
    /\ DOMAIN sub \subseteq Users
    /\ DOMAIN stored \subseteq Keys
    /\ stored \in [DOMAIN stored -> [scope: {"admin.provision"}, action: Requests]]
    /\ loc \in [Requests -> [key: Keys \union {NoKey}, action: Requests,
                             expire: Nat, active: BOOLEAN, seen: Row, ok: BOOLEAN]]
    /\ alone \in [Requests -> BOOLEAN]

Init ==
    /\ LinkInit
    /\ now = 0
    /\ sub = [u \in {} |-> NoRow]
    /\ stored = [k \in {} |-> NoRow]
    /\ loc = [r \in Requests |-> Local(NoKey, r, 0, FALSE, NoRow, TRUE)]
    /\ alone = [r \in Requests |-> TRUE]

Working(r) == req[r].pc \in Active \union Ongoing

(* Another request for the same user begins: neither is alone.             *)
Overlap(r, u) ==
    LET others == {s \in Requests : Working(s) /\ req[s].user = u} IN
    alone' = [s \in Requests |->
                CASE s \in others -> FALSE
                  [] s = r -> others = {}
                  [] OTHER -> alone[s]]

(* The handler answers, or fails, and its local variables are gone.        *)
Finish(r, label, k, action) ==
    /\ End(r, label)
    /\ loc' = [loc EXCEPT ![r] = Local(k, action, 0, FALSE, NoRow, TRUE)]
    /\ alone' = [alone EXCEPT ![r] = TRUE]

SetSub(u, active, e) ==
    sub' = [v \in DOMAIN sub \union {u} |->
              IF v = u THEN [active |-> active, expire |-> e] ELSE sub[v]]

Expire(plan) ==
    now + IF plan \in DOMAIN PlanDays THEN PlanDays[plan] ELSE DefaultDays

Recorded(k, scope) == k \in DOMAIN stored /\ stored[k].scope = scope

(* After the subscription is written a read answers, a provisioning goes   *)
(* on to its audit record and its key.                                     *)
AfterWrite(r) ==
    IF req[r].op = "provision"
    THEN Goto(r, "record") /\ UNCHANGED <<loc, alone>>
    ELSE Finish(r, "answered", NoKey, r)

-----------------------------------------------------------------------------
(* Faulty variants, see the properties below.                              *)

(* The key is not unique: the later response replaces the earlier one.     *)
OverwritingRecord(r) ==
    /\ At(r, "record")
    /\ stored' = [k \in DOMAIN stored \union {loc[r].key} |->
                    IF k = loc[r].key
                    THEN [scope |-> "admin.provision", action |-> r]
                    ELSE stored[k]]
    /\ Finish(r, "answered", loc[r].key, r)
    /\ UNCHANGED <<configured, account, row, owned, now, sub>>

(* The key is stored with the scope of the other endpoint.                 *)
MisfiledRecord(r) ==
    LET k == loc[r].key IN
    /\ At(r, "record")
    /\ k \notin DOMAIN stored
    /\ stored' = [j \in DOMAIN stored \union {k} |->
                    IF j = k THEN [scope |-> "admin.extend", action |-> r]
                    ELSE stored[j]]
    /\ Finish(r, "answered", k, r)
    /\ UNCHANGED <<configured, account, row, owned, now, sub>>

(* Only a new subscription is written; one that exists is returned.        *)
KeepingUpdate(r) ==
    /\ At(r, "update")
    /\ AfterWrite(r)
    /\ UNCHANGED <<configured, account, row, owned, now, sub, stored>>

(* Marzban is asked on every read, not only on a miss.                     *)
EagerReadLocal(r) ==
    /\ At(r, "read")
    /\ Goto(r, "ensure")
    /\ UNCHANGED <<configured, account, row, owned, ownVars>>

-----------------------------------------------------------------------------
(* GET /subscription.                                                      *)

ReadSubscription(r, u) ==
    /\ At(r, "idle")
    /\ req' = [req EXCEPT ![r] = Locals("read", "subscription", u, row[u].name,
                                       row[u].status, NoName)]
    /\ Overlap(r, u)
    /\ UNCHANGED <<configured, account, row, owned, now, sub, stored, loc>>

(* A row is returned as it is stored; a miss resolves the user's name with *)
(* the steps of MarzbanLink.                                               *)
ReadLocal(r) ==
    /\ At(r, "read")
    /\ \/ /\ req[r].user \in DOMAIN sub
          /\ Finish(r, "answered", NoKey, r)
       \/ /\ req[r].user \notin DOMAIN sub
          /\ Goto(r, "ensure")
          /\ UNCHANGED <<loc, alone>>
    /\ UNCHANGED <<configured, account, row, owned, now, sub, stored>>

Fetch(r) ==
    /\ At(r, "linked")
    /\ req[r].op = "subscription"
    /\ \/ /\ configured
          /\ Exists(req[r].target)
          /\ loc' = [loc EXCEPT ![r] =
                       Local(NoKey, r, account[req[r].target], FALSE, NoRow, TRUE)]
          /\ Goto(r, "select")
          /\ UNCHANGED alone
       \/ Finish(r, "missing", NoKey, r)
    /\ UNCHANGED <<configured, account, row, owned, now, sub, stored>>

(* set_subscription: the SELECT, and the two ways to write.                *)
Select(r) ==
    LET u == req[r].user
        here == u \in DOMAIN sub
    IN
    /\ At(r, "select")
    /\ loc' = [loc EXCEPT ![r] =
                 Local(loc[r].key, loc[r].action, loc[r].expire, loc[r].expire > now,
                       IF here THEN sub[u] ELSE NoRow, loc[r].ok)]
    /\ Goto(r, IF here THEN "update" ELSE "insert")
    /\ UNCHANGED <<configured, account, row, owned, now, sub, stored, alone>>

Insert(r) ==
    LET u == req[r].user IN
    /\ At(r, "insert")
    /\ \/ /\ u \notin DOMAIN sub
          /\ SetSub(u, loc[r].active, loc[r].expire)
          /\ AfterWrite(r)
       \/ /\ u \in DOMAIN sub
          /\ Finish(r, "failed", NoKey, r)
          /\ UNCHANGED sub
    /\ UNCHANGED <<configured, account, row, owned, now, stored>>

Update(r) ==
    LET u == req[r].user
        seen == loc[r].seen
    IN
    /\ At(r, "update")
    /\ SetSub(u, Written(loc[r].active, seen.active, sub[u].active),
                 Written(loc[r].expire, seen.expire, sub[u].expire))
    /\ AfterWrite(r)
    /\ UNCHANGED <<configured, account, row, owned, now, stored>>

-----------------------------------------------------------------------------
(* The internal endpoints.                                                 *)

Provision(r, k) ==
    LET u == OrderOf[k].user
        e == Expire(OrderOf[k].plan)
    IN
    /\ At(r, "idle")
    /\ ~Recorded(k, "admin.provision")
    /\ req' = [req EXCEPT ![r] = Locals("remote", "provision", u, NoName, "pending", NoName)]
    /\ loc' = [loc EXCEPT ![r] = Local(k, r, e, FALSE, NoRow, TRUE)]
    /\ Overlap(r, u)
    /\ UNCHANGED <<configured, account, row, owned, now, sub, stored>>

ProvisionAgain(r, k) ==
    /\ At(r, "idle")
    /\ Recorded(k, "admin.provision")
    /\ req' = [req EXCEPT ![r] = Locals("answered", "provision", NoName, NoName, "pending", NoName)]
    /\ loc' = [loc EXCEPT ![r] = Local(k, stored[k].action, 0, FALSE, NoRow, TRUE)]
    /\ UNCHANGED <<configured, account, row, owned, now, sub, stored, alone>>

(* The handler passes get_subscription a parameter it does not have: the   *)
(* TypeError ends it before anything is read or written, so that no key is *)
(* ever stored for it.                                                     *)
Extend(r, k) ==
    /\ At(r, "idle")
    /\ ~Recorded(k, "admin.extend")
    /\ req' = [req EXCEPT ![r] = Locals("failed", "extend", NoName, NoName, "pending", NoName)]
    /\ UNCHANGED <<configured, account, row, owned, ownVars>>

(* _provision_remote_user names the account after the external id, which   *)
(* need not be the account the user is linked to.                          *)
RemoteLookup(r) ==
    /\ At(r, "remote")
    /\ Goto(r, CASE ~configured -> "select"
                 [] configured /\ Exists(req[r].user) -> "put"
                 [] configured /\ ~Exists(req[r].user) -> "post")
    /\ UNCHANGED <<configured, account, row, owned, ownVars>>

(* PUT of an existing account, POST of a new one.                          *)
RemoteWrite(r) ==
    LET u == req[r].user IN
    /\ \/ At(r, "put") /\ Exists(u)
       \/ At(r, "post") /\ ~Exists(u)
    /\ account' = WithAccount(u, loc[r].expire)
    /\ Goto(r, "select")
    /\ UNCHANGED <<configured, row, owned, ownVars>>

(* A MarzbanError becomes a word in the audit record; the call may have    *)
(* taken effect, and a POST of an account that exists by then has not.     *)
RemoteFails(r) ==
    LET u == req[r].user
        given == loc[r]
    IN
    /\ \/ /\ At(r, "remote")
          /\ configured
          /\ UNCHANGED account
       \/ /\ req[r].pc \in {"put", "post"}
          /\ \/ UNCHANGED account
             \/ /\ At(r, "put") \/ ~Exists(u)
                /\ account' = WithAccount(u, given.expire)
    /\ loc' = [loc EXCEPT ![r] = Local(given.key, given.action, given.expire,
                                       given.active, given.seen, FALSE)]
    /\ Goto(r, "select")
    /\ UNCHANGED <<configured, row, owned, now, sub, stored, alone>>

(* store_response: the key alone is the primary key.                       *)
Record(r) ==
    LET k == loc[r].key IN
    /\ At(r, "record")
    /\ k \notin DOMAIN stored
    /\ stored' = [j \in DOMAIN stored \union {k} |->
                    IF j = k THEN [scope |-> "admin.provision", action |-> r]
                    ELSE stored[j]]
    /\ Finish(r, "answered", k, r)
    /\ UNCHANGED <<configured, account, row, owned, now, sub>>

RecordConflicts(r) ==
    /\ At(r, "record")
    /\ loc[r].key \in DOMAIN stored
    /\ Finish(r, "failed", NoKey, r)
    /\ UNCHANGED <<configured, account, row, owned, now, sub, stored>>

(* A commit fails or the server restarts.                                  *)
Abort(r) ==
    /\ req[r].pc \in Ongoing
    /\ Finish(r, "failed", NoKey, r)
    /\ UNCHANGED <<configured, account, row, owned, now, sub, stored>>

Tick ==
    /\ now < MaxTime
    /\ now' = now + 1
    /\ UNCHANGED <<linkVars, sub, stored, loc, alone>>

-----------------------------------------------------------------------------

LinkStep(r) == Step(r) /\ UNCHANGED ownVars

Handle(r) ==
    \/ ReadLocal(r) \/ Fetch(r) \/ Select(r) \/ Insert(r) \/ Update(r)
    \/ RemoteLookup(r) \/ RemoteWrite(r) \/ RemoteFails(r)
    \/ Record(r) \/ RecordConflicts(r) \/ Abort(r) \/ LinkStep(r)

Next ==
    \/ \E r \in Requests :
         \/ \E op \in Operations, u \in Users : Begin(r, op, u) /\ UNCHANGED ownVars
         \/ \E u \in Users : ReadSubscription(r, u)
         \/ \E k \in Keys : Provision(r, k) \/ ProvisionAgain(r, k) \/ Extend(r, k)
         \/ Handle(r)
    \/ Tick

Spec == Init /\ [][Next]_vars

-----------------------------------------------------------------------------
(* What subscriptions and keys promise.                                    *)

Answered(r, k) == At(r, "answered") /\ req[r].op = "provision" /\ loc[r].key = k

Promise == INSTANCE OneAnswer WITH
    Actions <- Requests,
    told <- [k \in Keys |-> {loc[r].action : r \in {s \in Requests : Answered(s, k)}}]

(* The endpoints implement the promise of a key: all successful answers to *)
(* it are the same, although retries may provision at the same time and    *)
(* only the last commit notices.                                           *)
ImplementsOneAnswer == Promise!Spec

(* A provisioning that no other request for the user overlaps and that     *)
(* reached Marzban leaves Marzban and the BFF in agreement when it is      *)
(* answered, whatever earlier requests that failed half-way left behind.   *)
RetryHeals ==
    [][\A r \in Requests :
         At(r, "record") /\ At(r, "answered")' /\ alone[r] /\ loc[r].ok =>
           LET u == req[r].user IN
           /\ sub[u] = [active |-> loc[r].active, expire |-> loc[r].expire]
           /\ configured => account[u] = loc[r].expire]_vars

(* A stored subscription is changed by a provisioning, and by a read only  *)
(* when another request for the same user has overlapped it (such a read   *)
(* may store an answer of Marzban that is older than the row).             *)
LoneReadsKeepSubscriptions ==
    [][\A u \in DOMAIN sub : sub'[u] # sub[u] =>
         \E r \in Requests :
           /\ At(r, "update") /\ ~At(r, "update")'
           /\ req[r].user = u
           /\ req[r].op = "provision" \/ ~alone[r]]_vars
=============================================================================
