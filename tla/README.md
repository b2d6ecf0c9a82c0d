# Verification of the Arbuz VPN application

This directory holds TLA+ models of the BFF (FastAPI, `backend/bff`) and of the
mobile application (Flutter and Kotlin, `mobile/app`), the TLC configurations
that check them, and TLAPS proofs about them. Paths below are relative to the
repository.

Run `tlc -config X.cfg M` for a run of the table in "Runs", and `tlapm M.tla`
for the proofs.

## The system

| Part | State | Operations | Interacts with |
|---|---|---|---|
| One-time-code sign-in (`auth_service.py`) | rows of `auth_challenges`, `users`, `auth_sessions` | start, verify, cleanup | delivery providers (inside its transaction), Marzban linking, audit log, rate limiter in front |
| Session lifecycle (`auth_service.py`, `api/deps.py`) | `auth_sessions.is_revoked`, signed access tokens | refresh, logout, logout-all, bearer check, cleanup | every authenticated endpoint |
| Rate limiter (`rate_limit_service.py`) | a deque of times per client address, under one lock; or a Redis counter | check | the auth endpoints |
| Marzban client (`marzban_client.py`) | a cached admin token, under one lock | get, create, update user; fetch and invalidate the token | Marzban over HTTP |
| Marzban linking (`marzban_link_service.py`) | `users.marzban_username`, link status | ensure link, link an existing user | Marzban client, sign-in, subscriptions |
| Code delivery (`auth_delivery_service.py`) | rows of `telegram_chat_links`; the gateway's mailbox, the bot's updates | deliver by HTTP, by Telegram, to the console | an OTP gateway, the Telegram Bot API |
| Subscriptions, configs (`subscription_service.py`, `config_service.py`) | rows of `subscriptions` | read (with a sync on a miss), set | Marzban client |
| Provisioning (`admin_service.py`, `idempotency_service.py`) | rows of `idempotency_keys` | provision, extend | Marzban client, subscriptions |
| App controller (`app_controller.dart`, `session_store.dart`) | persisted session, stage, dashboard, VPN state | initialise, start, verify, refresh, toggle, logout | BFF over HTTP, VPN engine, secure storage |
| VPN engine bridge (`core/vpn`) | none, or a mock's state | connect, disconnect, status | the Android service by a method channel |
| Android VPN service (`ArbuzVpnService.kt`) | interface, core process, monitor flag; a state holder shared with the activity | connect, disconnect, destroy, watchdog, health monitor | the sing-box process |

### What is hard

- The endpoints are synchronous functions that FastAPI runs in a thread pool.
  Every handler reads, decides and writes with other handlers in between; only
  SQLite's write lock and the commit give it atomicity.
- `start_auth` calls the delivery provider while it holds that lock.
- Every handler commits more than once (main commit, linking, audit), and a
  failure or a restart may fall between two commits.
- A delivery is attempted again when its answer is late, and the gateway may
  still serve the attempt that was given up.
- The Marzban client keeps its lock across an HTTP request.
- Linking and provisioning write to Marzban and to the database in turn; each of
  these writes may fail, or succeed without the caller knowing.
- The app controller's handlers interleave at every `await`; its session is
  stored by four separate writes. Some awaits, of an answer's body and of the
  VPN engine, have no time limit.
- The fields of the Android service are read and written by the main thread,
  by one thread per connect intent and by two observers per process, without a
  lock, and an interface stays open until its descriptor is closed, whether a
  field still holds it or not.

### What makes each part correct

- Sign-in: one acceptable challenge per login; a challenge ends for a reason; a
  spent one stays spent; guesses are limited; every session belongs to a user
  and to a spent challenge; every request ends.
- Session lifecycle: a revoked session stays revoked, and no request that
  begins after the answer to a logout is served with it.
- Rate limiter: no window of a client lets more than the limit pass; nobody is
  refused without cause; everybody is answered.
- Marzban client: a valid cached token is used, a rejected one is dropped, and
  no caller waits for ever.
- Delivery: no older code replaces a newer one; a code goes only to a chat in
  which somebody wrote to the bot under the user name that signs in.
- Linking: one user per account, and no link without an account.
- Provisioning: one key, one answer; a retry repairs what a failed request left
  half-done.
- App: what is at rest in memory is stored; the storage loses a token only by a
  logout, a new sign-in or a 401; signing out leaves nothing behind; the app
  waits for ever only where it has set no limit.
- VPN service: no open interface without a running core, as long as connecting
  threads do not cross; never one in the service's field.

`PROJECT.json` lists the hazards behind these, line by line.

## Modules

| Module | Models | Theorems |
|---|---|---|
| `AuthFlow` | the sign-in and its cleanup, against SQLite | `AuthFlow_proofs` |
| `AuthSessions` | bearer check, refresh, logout, logout-all, session cleanup | `AuthSessions_proofs` |
| `CodeDelivery` | the HTTP and the Telegram provider, the mock gateway | `CodeDelivery_proofs` |
| `RateWindow` | the promise of the limiter: a sliding window | |
| `RateLimit` | `MemoryRateLimitBackend`, which implements `RateWindow` | (with `LimitService`) |
| `RedisLimit` | `RedisRateLimitBackend`, which implements it with twice the limit | (with `LimitService`) |
| `LimitService` | `RateLimitService`: one of the two backends | `LimitService_proofs` |
| `MarzbanClient` | the admin token, its cache and its lock | `MarzbanClient_proofs` |
| `MarzbanLink` | the link between users and accounts, `GET /configs` | (with `Subscriptions`) |
| `OneAnswer` | the promise of an idempotency key | |
| `Subscriptions` | subscription reads, provision and extend, on top of `MarzbanLink` | `Subscriptions_proofs` |
| `AppSession` | the session of `AppController`, and `SessionStore` | `AppSession_proofs` |
| `VpnTunnel` | `ArbuzVpnService` and its threads | `VpnTunnel_proofs` |

`AuthFlowMC`, `AuthSessionsMC`, `CodeDeliveryMC`, `LimitServiceMC`,
`MarzbanClientMC`, `SubscriptionsMC`, `AppSessionMC` and `VpnTunnelMC` hold the
small instances, with symmetry sets where they are used.

Each module ends with its properties. The section "Faulty variants" of a module
holds mutated definitions that no action uses; each is a plausible bug, and
replacing the definition it is named after by it makes one property fail
(`mutants` in `PROJECT.json`). They show that the properties depend on the
code.

### AuthFlow

A request is a process: `req[r]` holds its control point and the local
variables the handler keeps between two database steps. `challenge`, `user` and
`session` are the committed rows; `writer` is the request in a write
transaction. What a handler does between two points where others may intervene
is one action:

| Actions | Code in `auth_service.py` |
|---|---|
| `StartAuth`, `StartRetire`, `StartDeliveryFails`, `StartCommit` | the cooldown SELECT (29), the UPDATE (49), the delivery (61), the commit (72) |
| `VerifyAuth`, `VerifyMiss` | the SELECT and its checks (94-105), the commit of a wrong guess (107-110) |
| `VerifyFindUser`, `VerifyAddUser`, `VerifyConsume`, `VerifyLink` | the user's SELECT (113), its flush (121), the commit (134), the linking (136) |
| `CleanupAuth`, `CleanupCommit` | the two DELETEs and the commit (229-236) |
| `AuditCommit` | `audit_service.log` |
| `LockTimeout`, `Restart`, `Tick` | "database is locked", a restart of the server, the clock |

Assumed of SQLite, with `pysqlite`'s default transaction handling and
SQLAlchemy's sessions: a SELECT before the first write sees the last commit and
takes no lock; the first write takes the only write lock until commit or
rollback; a waiter fails after its busy timeout; an ORM object is not read
again until a commit expires it, and an UPDATE writes the columns that changed;
an UPDATE of a deleted row is a `StaleDataError`. The default database of
`core/config.py` is SQLite. The handlers compare stored times with each other
as that database returns them, without their time zone.

The delivery is one step here, which fails or succeeds; `CodeDelivery` looks into
it. So is the linking after a sign-in: it may commit and thereby have the
sign-in's objects read again, or fail, and `MarzbanLink` has its steps.

Data is abstracted: a code is right or wrong; a challenge id is the request
that creates it; a time is a tick. The `at` of a request is the value of
`utcnow()` kept by its handler. Sessions do not end here: that, and the
cleanup's second DELETE, is `AuthSessions`.

### AuthSessions

Requests are processes as in `AuthFlow`, over the rows of `auth_sessions`. No
handler of this part calls anything outside the database between its first
write and its commit, so a write transaction is one step and the lock is not a
variable; waiting for a lock that a delivery holds is `Fail`.

| Actions | Code |
|---|---|
| `SignIn` | the commit of `verify_auth`: this module's only view of `AuthFlow` |
| `Authenticate` | `get_auth_context` in front of logout and logout-all |
| `Refresh` | `refresh_access` up to its audit record |
| `Logout`, `LogoutCommit` | the two SELECTs of `logout`; its commit |
| `LogoutAll` | the UPDATE and commit of `logout_all` |
| `Cleanup`, `CleanupCommit` | `cleanup_expired_auth_data` |
| `Answer` | the audit commit and the response |

`signedOut` is a history variable: the sessions a client was told are signed
out. `asked` is what a request will tell its client: for logout the rows it
found, for logout-all the rows its user had at the bearer check. A session that
a sign-in adds while logout-all runs may survive, as it should.

### CodeDelivery

The transaction of `start_auth` is open during the whole delivery, so `writer`
is the one request that may be delivering. The HTTP provider posts until a post
is accepted (`PostCode`, `Accepted`, `AttemptFails`), at most
`auth_http_otp_max_attempts` times. `wire` is the queue of connections in front
of the gateway: `scripts/otp_mock_gateway.py` is a single-threaded server, which
serves them in order, also those whose client has given up (`GatewayServes`).
Its mailbox is a file that its start empties. The Telegram provider reads the
stored chat, or else one page of `getUpdates`, oldest first and without an
offset (`FindChat`), and sends the code (`Send`); Telegram drops updates after a
day (`Forget`). The link it found waits in the session and is committed with the
challenge, or rolled back with it. Login and user name are one name, as in
`_normalize_username`; the console provider always succeeds.

An update has two parts, the user name of its author (`message.from`, line 235)
and the chat it was written in (`message.chat`, line 237), and every pair of them
is possible: several people write in a group, and a name may be given up and
taken by somebody else. The code compares the one and sends to the other, so a
message in a group sends the code to the whole group, and a stored link outlives
its author's name. `SentWhereWritten` says what is left: somebody once wrote in
that chat under that name.

`posting` is a history variable: the logins for which a code was posted that is
not committed. The property of the mailbox excludes them, because nothing can
be said of the gateway while a newer code is on its way, and after a start that
failed behind its posts.

### RateWindow, RateLimit, RedisLimit and LimitService

`RateWindow` has one variable, the times at which requests passed, and one
action: a request passes when the limit-th request before it is at least a
window old. `RateLimit` adds threads, the lock and the deques, and keeps the
same sequence as a history variable; `ImplementsWindow` is the specification of
`RateWindow`. The deques hold less than the history, so the refinement says
that what they forget never counts. The clock may move on between reading it
and deciding. It does not go backwards: a wall clock that is adjusted is outside
the model.

In `RedisLimit` the commands INCR, EXPIRE and TTL are separate steps, each of
which may fail with or without having been executed; the code then lets the
request pass. Its window is fixed, so the promise it implements is `RateWindow`
with twice the limit, over the requests it counted. `BlocksEnd` names the two
ways in which an address stays refused for ever: `lost`, the history of EXPIREs
that were never executed, and `Expiring`, an EXPIRE that still waits for Redis,
which it may do for ever, as the client is built without a time limit
(`rate_limit_service.py:56`). `LimitService` is the choice between the backends that
the settings make once.

### MarzbanClient

A thread's call is `Begin`, then `Acquire` of the lock, then either `UseCached`
or `Login`, `Issue` and `Store`, then the request itself without the lock
(`Answer`, `Refuse`), and after a refusal `Invalidate`, which takes the lock
again. What Marzban answers is free. `Issue` is Marzban's step: a login that
times out may have produced a token. A call that is refused is not repeated;
the error goes to the caller. `stored`, `dropped` and `refused` are history
variables: when the cached token was stored, whether a refusal has emptied the
cache since, and which tokens' refusals have been handled. Times are ticks, so
`LoginsAreDue` does not tell apart two stores within one tick.

### MarzbanLink and Subscriptions

Requests are processes over Marzban's accounts (`account`) and the tables of
users, subscriptions and idempotency keys. `MarzbanLink` has `ensure_link` step
by step (`Lookup`, `Create`, `Claim`, `MarkError`), which sign-ins,
`GET /configs` and subscription reads share, and `link_existing_user`
(`Choose`, `Check`, then the same `Claim`). A call to Marzban may fail, with or
without effect; the effect then comes no later than the failure. A PUT or POST
that Marzban executes after the client has given up on it is not covered. `Subscriptions` adds `GET /subscription` (`ReadLocal`, the
linking, `Fetch`), `set_subscription` (`Select`, `Insert`, `Update`), and
`provision` from its key's lookup to its key's commit (`Provision`,
`RemoteLookup`, `RemoteWrite`, the writes above, `Record`). A request may end
between any two steps (`Fail`, `Abort`).

Assumed: what a request loaded is not read again until it commits, a commit
writes only the columns whose value it changed (`Written`), and the refresh
after a commit is one step with it; a unique index refuses the later of two
rows; Marzban creates a user at most once, never deletes one, and answers 404
only for a user that is missing. `owned` is a history variable: the accounts
that were ever linked to a user, also if another user has linked them since.
`alone` is another: no other request for the same user has overlapped this one.

Three outcomes that the code does not rule out are allowed by the properties. A
read that a provisioning overlaps may store the older answer of Marzban over the
newer one, so `LoneReadsKeepSubscriptions` is about reads that nothing overlaps.
A request that loaded the user before it had a link may put the built name in
place of the user's choice, which `LinkChangesForCause` names as its second
cause. And a request that failed may mark a good link as an error: the link
status is stored, but no property is about it.

`OneAnswer` says what an idempotency key is for: it is told one answer, once.
The refinement mapping takes as told the answers of the requests that succeeded,
so of two retries that provision at the same time one must fail, although both
have acted.

`extend` calls `subscription_service.get_subscription` with a parameter it does
not have, so the handler ends before it has read or written anything; `Extend`
models that, and what follows in the code is not modelled.

### AppSession

`AppController` runs on one thread, and a handler until its next `await`. The
model's step is what happens between two awaits, so handlers interleave at their
awaits only. `mem` is `_persistedSession`, `disk` the secure storage, whose keys
are written one after another. `Pressed` says when a button works: its screen is
shown, and no handler inside `_guard` is in flight; `logout` and `restartAuth` are not
inside `_guard`. What the BFF answers is arbitrary, and it may not answer. `Kill` ends
the process at any point; what was written stays.

What a handler of the signed-in screens has still to await is `todo`: protected
requests, and at the end the VPN engine (`"engine"`: `connect` or `disconnect`
and the runtime status, lines 251-257, 329, 343-349 and 491-496 of
`app_controller.dart`). `NextRequest` is `_ensureAccessToken` in front of each
request. `_isLoading` stays true during all of them, the engine included.

A request waits for its answer to begin for a limited time (10 s to connect, 20 s
for the headers, `api_client.dart:10`, 140, 223), then reads its body without a
limit (141, 224); `AnswerBegins` lies between, and `Reading` are the labels of
the second part. The engine is awaited without a limit too.

A save writes its keys one after another (`WriteAccess` to `Saved`; the login,
which only fills a text field, is written by `Saved` and has no value here). To
clear the storage is a step (`DeleteAll`), the assignments after that await
another (`Cleared`, `Expired`). Operations of the secure storage succeed. What
the engine returns, the VPN state, its polling and its sync timer never touch
the session and are left out.

`SignInIsKept` is about the tokens in the storage, not about what a later launch
does with them: `initialize` restores a session only if both tokens are there
(`session_repository.dart:14`). If the app is killed after the save that follows
a 401, before a refresh is saved, the refresh token is in the storage and is not
used again. The model has these steps (`Refused`, `Kill`, `Load`) and no property
excludes them.

### VpnTunnel

Each service object has the three fields of the class; a thread is a pair of a
kind and the connect attempt it belongs to, and runs on the fields of the
object its attempt was made on, also after that object was destroyed. A step
reads or writes one field; the three reads of the health monitor's condition are
three steps. `teardownTunnel` is `Stop`, `Forget`, `Close` and `Drop`: it clears
`monitorActive` and asks the process to exit, empties `coreProcess`, closes the
descriptor it finds (104), and empties `vpnInterface` (108). `Stop` writes one
field and reads another; they are one step because the process may exit at any
time anyway (`CoreExits`), so what happens between the two can as well happen
before or after them.

`open` are the interfaces themselves: one is open from `establish()` to `close()`,
whatever the fields say. `Store` overwrites the descriptor another attempt has
stored (84), and `Drop` empties a field that another attempt has filled since
`Close`; either leaves an interface open that no field names, and nothing in
the code closes it. (That a finalizer closes it when the garbage collector finds
it is not relied on.) `close()` is taken to release the interface also when it
throws.

Both need a connect thread between its check of the field and its store, while
another thread of the object is there too or tears down. `crossed` is the history of
the objects on which this has happened. `NoTunnelWithoutCore` says of every
settled object that its field holds no interface without a running core, and, of
those that are not in `crossed`, that nothing else is open. `DeadTunnelEnds`
speaks of every open interface, until its object is in `crossed`. What happens
to an interface that nobody names is not promised by any property, because the
code does not close it; the hazards at these lines say so.

Two of the fields are not volatile. The model interleaves the threads' steps
with a single order of reads and writes; the blocking calls between them
(establishing the interface, starting a process and a thread, and the volatile
writes of the state holder) order them in practice, but delayed visibility is
not modelled. `ArbuzVpnStateHolder` is written by these threads and read by the
activity only; it is left for a later module that includes the application's
polling.

## Runs

| Run | Instance | Shows |
|---|---|---|
| `auth` | 3 requests, 2 logins, 2 attempts, cooldown 1, TTL 1, clock to 2 | the invariants and action properties of `AuthFlow`; every request ends |
| `auth_guesses` | 4 requests, 1 login, 2 attempts | violation: three wrong codes are evaluated |
| `auth_cooldown` | 2 requests, 1 login | violation: two codes within the cooldown |
| `session_safety` | 3 requests, 3 sessions, 2 users, TTL 1, clock to 2 | signing out and revoking are final; sessions end for a reason |
| `delivery` | 3 requests, 2 logins, 2 chats, 2 attempts, pages of 2 of 4 messages | no stale code, codes only where the name wrote, no link without a delivery |
| `limiter` | 3 threads, 1 address, limit 2, window 2, clock to 4, either backend | the windows, refusals are due, blocks end unless an EXPIRE is lost or hangs |
| `marzban` | 2 threads, tokens used for 2 ticks, 3 logins, clock to 4 | refused tokens stay unused, logins are due, calls end |
| `subscriptions` | 2 requests, 2 users, 2 keys, 1 account besides theirs, clock to 2 | links and who changes them, served configs, keys and retries, subscriptions that lone reads leave alone |
| `app_session` | 2 handlers at a time, 2 sessions | what is stored, kept and shown; the app loads for ever only in an unlimited await |
| `app_logout` | 2 handlers at a time, 1 session | violation: a token is stored after a logout |
| `vpn_safety` | 2 connect attempts, 2 service objects | once settled, no interface without a core in a field, nor open anywhere until threads cross |
| `vpn_live` | 2 connect attempts, 2 service objects | an open tunnel without a core is closed, until threads cross |

Why the bounds are enough. The properties of `AuthFlow` relate two requests
that compete and the challenge a third has made: a start and two verifies, two
starts and a verify, or a cleanup among them. Two attempts tell the last guess
from the others. The clock reaches past TTL and cooldown, so that challenges
expire and may be started anew; the two logins share the lock. In `AuthSessions`
three sessions are one of another user besides the two a logout can name, and
three requests let a cleanup and a second sign-out meet the first.

In `CodeDelivery` three requests with two attempts each put older attempts of
the same and of another login in front of the newest one, and one more message
than two pages of one lets a page miss the newest. In the limiter the clock
passes a whole window after the first deque is full, and three threads are one
that decides, one that waits and one that reads the clock late; Redis counts to
twice the limit. In `MarzbanClient` a second thread refuses, drops or replaces
the token the first one uses; three logins are one to cache, one after its time
and one after a refusal. In `Subscriptions` two requests are the ones that
compete for an account, for a key or for a row; that a request of a third kind
adds nothing is not shown by the run but, for the properties listed below, by the
proofs. Both keys are for one user, so two plans compete for one row; accounts
exist or not, with or without an end. In `AppSession` any two handlers overlap,
again and again, as each ends and others begin; a second session tells a new
sign-in from the old one. In `VpnTunnel` two attempts are enough for a thread to
meet another attempt's process or interface, and two objects for a thread to
outlive its object. Where an object is destroyed, both runs have one attempt only
(`OneAttemptWhenDestroyed`): objects share no field, and to two attempts on one
object `Destroy` does what `Disconnect` does. `vpn_live` stops where threads have
crossed (`UntilCrossed`), as its property says nothing after that; `vpn_safety`
goes on.

`Requests` and `Attempts` are served once, so behaviours end: the runs with
`CHECK_DEADLOCK FALSE` stop when all requests are served and the clock has
reached its bound. The proofs hold for any of these bounds.

Symmetry is used by runs that check safety only, over sets whose members no
action tells apart.

### Fairness

`AuthFlow`: weak fairness of each request's steps. A thread that can run does;
the delivery providers and the Marzban client have timeouts; the busy timeout
ends a wait. No fairness on requests arriving, on time or on restarts.
`LimitService`: weak fairness of time only, which Redis needs to expire a
counter. A thread may stay in a Redis command for ever: `Redis.from_url` is called
without a `socket_timeout` (`rate_limit_service.py:56`). `MarzbanClient`: weak fairness of what a call does once it has the lock or has sent its request
(the HTTP client has a timeout), strong fairness of acquiring the lock, since a
`threading.Lock` serves its waiters in the end; none of refusals, of Marzban
issuing a token or of time. `AppSession`: weak fairness of what follows an await
of the storage, and of a request until its answer begins, which has a timeout;
none of the bodies of answers, of the engine or of logout's request, and nobody
has to press a button. `LoadingEnds` therefore has a second case: one handler stays
in such an await for ever. `VpnTunnel`: weak fairness of each thread's steps,
except of a connect thread that fetches its config for the core (`"launch"`): its
timeouts are for one read each. No fairness on the user or on the life of the
process.

### Disagreements with the documentation

- `README.md:109` and `docs/API.md:37` limit the guesses per challenge. The
  counter is incremented from a value read earlier, so guesses made at the same
  time are counted once (`auth_guesses`). What does hold, and is proved, is
  `LockedAtMaximum`: the counter never passes the limit, and a challenge that
  reaches it is used.
- `README.md:110` and `docs/API.md:38` limit new codes by a cooldown. The check
  is not in the transaction of the insert, so starts made at the same time all
  pass (`auth_cooldown`). What does hold, and is proved, is
  `OneLiveChallenge`: only the last code is acceptable.
- `mobile/app/README.md:33`: "Logout revokes the BFF session and clears local
  secure storage." Others may begin while `logout` waits for its request, and
  a save of one of them, key by key, may write tokens after the storage was cleared
  (`app_logout`). What does hold: such an app does not stay on a signed-in screen
  without a token (`NobodyIsStranded`). Nor does logout revoke the session when
  the access token is absent or has expired: the request is left out, or refused
  and its refusal ignored (`Logout`, `Revoked`).
- `README.md:126` and `backend/bff/tests/test_auth_flow.py:210` expect `extend`
  to succeed. `admin_service.py:34` passes `user_id` to a method that has no such
  parameter; see `Extend`. No run is about it: the model has the failure
  as its only outcome.
- `README.md:116` and `docs/API.md:48`: the chat is found by scanning
  `getUpdates`. Only the first, oldest page is read and no offset is confirmed,
  so a user whose message is behind that page is not found (`FindChat`).

## Proofs

`AuthFlow_proofs` proves, for any finite or infinite set of requests and
logins, and any values of the limits that satisfy `ConstantsAssumption`:

| Theorem | Property |
|---|---|
| `TypeCorrect` | `TypeOK` |
| `OneLive` | `OneLiveChallenge` |
| `Locked` | `LockedAtMaximum` |
| `Backed` | `SessionsAreBacked` |
| `Working` | `WriterIsWorking` |
| `Spent` | `SpentStaysSpent` |
| `EndedWithCause` | `EndsForCause` |

All of them follow from `Invariance`, the invariant `IInv`. None of the
properties is inductive alone:

- `OneLiveChallenge` needs `RetireInv`: from the UPDATE to the commit, the rows
  the UPDATE marks include every acceptable row of the login. This holds
  because only a delivery inserts rows, a delivery holds the lock (`LockInv`),
  and the lock has one holder.
- `LockedAtMaximum` needs the value a request has read to be below the maximum
  (`LocalsInv`), since `Open` has checked it.
- `SessionsAreBacked` needs the row a verify refers to to keep its login
  (`TargetInv`) and a deleted row not to return (`FreshInv`: a challenge's id
  is not used before its request commits).
- `EndsForCause` has one case for each step that may mark a row used. A start
  marks rows of its own login only (`RetiredInv`), and in the commit that
  inserts the new row; the session that a consumed row buys is new, because a
  request inserts at most one (`OpenedInv`); a wrong guess that is the last one
  has counted to the maximum from a value below it (`LocalsInv`).

`AuthSessions_proofs` proves, for any requests, sessions and users:
`TypeCorrect` (`TypeOK`), `SignOutIsFinal` (`SignedOutIsOut`),
`RevocationIsFinal` (`RevokedStaysRevoked`) and `EndedWithCause`
(`SessionEndsForCause`). `SignedOutIsOut` is not inductive:
`AskedInv` says what each request in flight relies on (those sessions it was
asked to end and will not revoke itself have ended; those logout-all was asked
for belong to its user), and `RowsEvolve` what every step preserves of a row
(its user, its revocation, and that a deleted row does not return).
`SessionEndsForCause` needs that a logout revokes only what it was asked for, and
that the time a cleanup read is not ahead of the clock when its DELETE is
committed (`ModestInv`).

The other modules with theorems, each for all values of the constants that
satisfy the named assumptions:

| Module | Theorem | Property |
|---|---|---|
| `CodeDelivery_proofs` | `NewestCodeStays` | `MailboxMatches` |
| | `SentWhereNameWrote` | `SentWhereWritten` |
| | `LinksWereUsed` | `LinkAfterDelivery` |
| `LimitService_proofs` | `WindowHolds`, `ServiceWindowHolds` | `ImplementsWindow` |
| | `RefusedWhenDue`, `ServiceRefusedWhenDue` | `RefusalsAreDue` |
| | `ServiceTypeCorrect` | `ServiceTypeOK` |
| | `TwiceTheLimitHolds` | `TwiceTheLimit` |
| | `CountersExpire` | (safety part of `BlocksEnd`) |
| `MarzbanClient_proofs` | `RefusedStaysUnused` | `RefusedNotReused` |
| | `LoginsOnlyWhenDue` | `LoginsAreDue` |
| `Subscriptions_proofs` | `OwnersAreDistinct` | `OneOwner` |
| | `LinksExist` | `LinkedAccountExists` |
| | `ServedOwn` | `ServedWasOwned` |
| | `LinksChangeForCause` | `LinkChangesForCause` |
| | `EndpointsKeepThePromise` | `ImplementsOneAnswer` |
| | `ProvisioningHeals` | `RetryHeals` |
| | `ReadsNeverReplace` | `LoneReadsKeepSubscriptions` |
| `AppSession_proofs` | `AtRestStored` | `RestIsStored` |
| | `SignInSurvives` | `SignInIsKept` |
| `VpnTunnel_proofs` | `NoDeadTunnel` | `NoTunnelWithoutCore` |

Each of them also has `TypeCorrect`, and `Invariance` for its inductive
invariant `IInv`:

- `CodeDelivery`. That the mailbox holds no older code rests on the order of the
  queue: `Settling` says that the connection of the current attempt is the last
  one for its login, so that once it has been answered nothing is left that could
  overwrite its code (`Clean`), and `SettledInv` that this stays so after the
  commit until the next post. `WireInv` ties connections to attempts, `Handler` a
  found chat to a message.
- `LimitService`, in-process backend. `DequeInv`: the deque is the history of
  grants without its first entries, and what it forgot has left the window, for
  every thread that is still to decide too. This needs the history to be sorted
  (`LogInv`), which needs the clock to be read under the lock (`LockInv`). The
  refinement then maps a grant to a step of `RateWindow` by comparing one entry
  of the history with the deque's length. `WindowHolds` and `RefusedWhenDue`
  are about the specification of `RateLimit` alone, the `Service` theorems
  about `ServiceSpec`, whose invariant `SInv` joins those of the backends.
- `LimitService`, Redis backend. Its window is fixed, so the counter does not say
  what passed within the last window. `LogParts` does: the log of a client splits
  into what has left the sliding window, what will have left it when the counter
  expires, and what the counter still counts, and neither of the last two parts
  is longer than the limit. When a counter expires the last part becomes the
  second one (`RTick`), and INCR extends the last part and never beyond the limit
  (`RIncr`). Hence a window holds requests of two counters at most. Nothing is
  assumed of EXPIRE, which may come late, behind the INCRs of other threads, or
  not at all: without it the counter only stays longer. What that costs is the
  subject of `CountersExpire`: a counter above zero has a time to live, or a
  thread is about to send its EXPIRE, or the key is in `lost`, because the EXPIRE
  failed or the answer to the INCR that opened the counter was lost. That the
  thread does send it, and that time passes, is the liveness part.
- `MarzbanClient`. `DueInv`: unless a refusal has emptied it, the cache holds what
  was stored last, and a login under way means that its time is over. `TokenInv`:
  tokens are numbered as they are issued, so one that is about to be stored
  cannot be one whose refusal was handled.
- `Subscriptions`. `LinkLocals` says what a request holds between two steps: a
  name it loaded was once linked to its user, whose row is not empty any more;
  a claim's target exists in Marzban. `RowsOwned` has the same of the rows,
  `KeyLocals` what a provisioning needs of its key. The refinement of `OneAnswer`
  has one case for a first answer (`Record`), one for a repeated one
  (`ProvisionAgain`), and stutters else. `RetryHeals` and
  `LoneReadsKeepSubscriptions` are about a request that no other one for its user
  has overlapped, and have an invariant of their own, `AloneInv`: such a request
  is the only one that may write the subscription of its user (`Undisturbed`;
  sign-ins and config reads link accounts and write no subscription), so that a
  row it has missed stays missing (`Missed`), and the account it wrote, the row it
  found and the row it wrote are as it left them (`Healing`).
- `AppSession`. Until two handlers overlap (`overlapped`, a history variable), the
  one in flight differs from what is stored by the writes it has still to do:
  `Calm` says this for each of its control points, among them that a save that
  does not follow a 401 removes no access token. `TypeInv` holds whatever
  overlaps, and carries that a request is sent only when one is left.
- `VpnTunnel`. `HelpInv`: a field that holds an interface has a helper, a thread
  that will tear down or a core with a watchdog. `OrderInv`: the observers of an
  attempt start after its core. `FieldInv`: a field holds an interface only its own
  object's attempt has stored. `OpenInv` and `CrossInv` are about every open
  interface: until threads cross on its object it is in the field or about to be
  stored, an attempt that is about to store finds the field empty, and a teardown
  that is about to empty the field has closed what it holds.

For each conjunct, or for each action, there is a lemma that the step preserves
it.

Every invariant and every action property that a passing run checks is stated by
one of these theorems. What is only model-checked are the liveness properties
(`RequestsEnd`, `BlocksEnd`, `CallsEnd`, `LoadingEnds`, `NobodyIsStranded`,
`DeadTunnelEnds`): they rest on fairness, and ENABLED is out of the prover's
reach. They are checked on the instances of the runs.

## Not modelled

- What the VPN engine returns to the controller, the controller's polling, the
  Dart bridge and `ArbuzVpnStateHolder`. They copy what the Android service
  publishes to the screen; the service's own decisions do not depend on them.
  `AppSession` has the controller's waiting for the engine, `VpnTunnel` the service.
- A request that Marzban executes after its client has given up on it, and the
  link status that a failed request writes over a good one (see "MarzbanLink and
  Subscriptions").
- The memory visibility of the service's fields that are not volatile, see
  `VpnTunnel`.
- Support requests and the audit log: one INSERT each. Their commits do matter to
  the handlers that make them, and are steps of these (`AuditCommit`, `Answer`,
  `Fail`, `Abort`). Error responses only format what was decided.
- Screens and widgets (layout), the iOS runner (a stub), the installation of the
  core binary (one file copy), migrations and deployment files (declarative; the
  unique indexes the models rely on are read from the models of the tables).

What could be added: a composition of `AppSession` with `AuthSessions`, in which
the BFF refuses only tokens whose session has ended.
