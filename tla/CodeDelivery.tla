---------------------------- MODULE CodeDelivery ----------------------------
(***************************************************************************)
(* What a delivery provider does inside start_auth, whose transaction is   *)
(* open meanwhile (AuthFlow has the transaction, and one step for the      *)
(* delivery).  The HTTP provider posts the code until it is accepted; the  *)
(* Telegram provider finds the chat of the user and sends the code there.  *)
(* The gateway is the repository's mock: one thread, which serves its      *)
(* connections in order, also those whose client has given up.             *)
(*                                                                         *)
(* A code is named by the request that generates it, once for all its      *)
(* attempts; a login is also the Telegram user name it delivers to.        *)
(***************************************************************************)
EXTENDS Integers, Sequences, FiniteSets

CONSTANTS
    Requests,     \* start requests, each served once
    Logins,
    Chats,        \* Telegram chats with the bot, private ones and groups
    Nil,          \* no request, no login, no chat
    MaxAttempts,  \* max(1, auth_http_otp_max_attempts)
    Limit,        \* max(1, auth_telegram_lookup_limit)
    MaxMessages   \* bound: messages the bot is ever sent

ASSUME DeliveryAssumption ==
    /\ Nil \notin Requests \union Logins \union Chats
    /\ MaxAttempts \in Nat \ {0}
    /\ Limit \in Nat \ {0}
    /\ MaxMessages \in Nat

VARIABLES
    provider,  \* auth_provider: a setting of the process
    writer,    \* the request in a write transaction, or Nil
    req,       \* control point and local variables of every request
    live,      \* the committed, acceptable challenge of a login, or Nil
    link,      \* committed rows of telegram_chat_links: chat of a user, or Nil
    wire,      \* connections the gateway has not served yet
    reply,     \* what the gateway has answered to the current attempt
    mailbox,   \* the gateway's file: the code it holds for a login
    updates,   \* pending updates of the bot, oldest first
    wrote,     \* history: user names that have been written under, with the chat
    sent,      \* history: codes sent by Telegram, with login and chat
    posting    \* history: a code was posted for the login since its last commit

vars == <<provider, writer, req, live, link, wire, reply, mailbox, updates,
          wrote, sent, posting>>
gateway == <<wire, reply, mailbox, posting>>
telegram == <<updates, wrote, sent>>

Active == {"start", "post", "wait", "find", "send", "commit"}
Terminal == {"done", "unknown", "failed"}
Post == [login: Logins, code: Requests, attempt: 1..MaxAttempts]
Update == [username: Logins, chat: Chats]

TypeOK ==
    /\ provider \in {"http", "telegram", "console"}
    /\ writer \in Requests \union {Nil}
    /\ req \in [Requests -> [pc: {"idle"} \union Active \union Terminal,
                             login: Logins \union {Nil},
                             attempt: 0..MaxAttempts,
                             chat: Chats \union {Nil},
                             found: BOOLEAN]]
    /\ live \in [Logins -> Requests \union {Nil}]
    /\ link \in [Logins -> Chats \union {Nil}]
    /\ wire \in Seq(Post)
    /\ reply \in [Requests -> {"none", "accepted", "error"}]
    /\ mailbox \in [Logins -> Requests \union {Nil}]
    /\ updates \in Seq(Update)
    /\ wrote \subseteq Update
    /\ sent \subseteq [login: Logins, code: Requests, chat: Chats]
    /\ posting \subseteq Logins

(* found: the chat is new, and waits in the session to be inserted.        *)
Locals(label, login, attempt, chat, found) ==
    [pc |-> label, login |-> login, attempt |-> attempt, chat |-> chat,
     found |-> found]

Init ==
    /\ provider \in {"http", "telegram", "console"}
    /\ writer = Nil
    /\ req = [r \in Requests |-> Locals("idle", Nil, 0, Nil, FALSE)]
    /\ live = [l \in Logins |-> Nil]
    /\ link = [l \in Logins |-> Nil]
    /\ wire = << >>
    /\ reply = [r \in Requests |-> "none"]
    /\ mailbox = [l \in Logins |-> Nil]
    /\ updates = << >>
    /\ wrote = {}
    /\ sent = {}
    /\ posting = {}

At(r, label) == req[r].pc = label
Goto(r, label) ==
    req' = [req EXCEPT ![r] = Locals(label, @.login, @.attempt, @.chat, @.found)]
Login(r) == req[r].login

(* The handler ends, and with it the transaction.                          *)
End(r, label) ==
    /\ req' = [req EXCEPT ![r] = Locals(label, Nil, 0, Nil, FALSE)]
    /\ writer' = IF writer = r THEN Nil ELSE writer

-----------------------------------------------------------------------------
(* Faulty variants, see the properties below.                              *)

(* The loop over the attempts ends without its else branch.                *)
HopefulAfterAttempt(r) ==
    \/ /\ req[r].attempt < MaxAttempts
       /\ Goto(r, "post")
       /\ UNCHANGED writer
    \/ /\ req[r].attempt = MaxAttempts
       /\ Goto(r, "commit")
       /\ UNCHANGED writer

(* One attempt too many.                                                   *)
PatientAfterAttempt(r) ==
    \/ /\ req[r].attempt <= MaxAttempts
       /\ Goto(r, "post")
       /\ UNCHANGED writer
    \/ /\ req[r].attempt > MaxAttempts
       /\ End(r, "failed")

(* The newest message is taken, whoever wrote it.                          *)
AnyoneMatches(page, username) == DOMAIN page

(* _save_chat_id commits what it has found.                                *)
CommittingSend(r) ==
    /\ At(r, "send")
    /\ link' = [link EXCEPT ![Login(r)] = req[r].chat]
    /\ End(r, "failed")
    /\ UNCHANGED <<provider, live, gateway, telegram>>

-----------------------------------------------------------------------------

StartAuth(r, l) ==
    /\ At(r, "idle")
    /\ req' = [req EXCEPT ![r] = Locals("start", l, 0, Nil, FALSE)]
    /\ UNCHANGED <<provider, writer, live, link, gateway, telegram>>

(* The UPDATE that retires older challenges takes the write lock; then the *)
(* provider is chosen.  Those that print or fix the code need no delivery. *)
IssueCode(r) ==
    /\ At(r, "start")
    /\ writer = Nil
    /\ writer' = r
    /\ Goto(r, CASE provider = "http" -> "post"
                 [] provider = "telegram" -> "find"
                 [] provider = "console" -> "commit")
    /\ UNCHANGED <<provider, live, link, gateway, telegram>>

LockTimeout(r) ==
    /\ At(r, "start")
    /\ End(r, "failed")
    /\ UNCHANGED <<provider, live, link, gateway, telegram>>

(* The challenge and the chat link of the session are committed together;  *)
(* the UPDATE retires what was live.                                       *)
Commit(r) ==
    LET l == Login(r) IN
    /\ At(r, "commit")
    /\ live' = [live EXCEPT ![l] = r]
    /\ link' = IF req[r].found THEN [link EXCEPT ![l] = req[r].chat] ELSE link
    /\ posting' = posting \ {l}
    /\ End(r, "done")
    /\ UNCHANGED <<provider, wire, reply, mailbox, telegram>>

(* The commit fails, or the server restarts during any of the calls.       *)
Crash(r) ==
    /\ req[r].pc \in Active
    /\ End(r, "failed")
    /\ UNCHANGED <<provider, live, link, gateway, telegram>>

-----------------------------------------------------------------------------
(* HttpOtpProvider.                                                        *)

PostCode(r) ==
    LET l == Login(r)
        n == req[r].attempt + 1
    IN
    /\ At(r, "post")
    /\ req' = [req EXCEPT ![r] = Locals("wait", l, n, Nil, FALSE)]
    /\ reply' = [reply EXCEPT ![r] = "none"]
    /\ \/ /\ wire' = Append(wire, [login |-> l, code |-> r, attempt |-> n])
          /\ posting' = posting \union {l}
       \/ UNCHANGED <<wire, posting>>     \* no connection
    /\ UNCHANGED <<provider, writer, live, link, mailbox, telegram>>

Accepted(r) ==
    /\ At(r, "wait")
    /\ reply[r] = "accepted"
    /\ Goto(r, "commit")
    /\ UNCHANGED <<provider, writer, live, link, gateway, telegram>>

(* After a failed attempt: the next one, or 503.                           *)
AfterAttempt(r) ==
    \/ /\ req[r].attempt < MaxAttempts
       /\ Goto(r, "post")
       /\ UNCHANGED writer
    \/ /\ req[r].attempt = MaxAttempts
       /\ End(r, "failed")

(* An error status, a time-out or a lost answer.                           *)
AttemptFails(r) ==
    /\ At(r, "wait")
    /\ AfterAttempt(r)
    /\ UNCHANGED <<provider, live, link, gateway, telegram>>

(* The gateway stores the code, or answers with an error; nobody may be    *)
(* waiting for it any more.                                                *)
GatewayServes ==
    LET m == Head(wire)
        heard == At(m.code, "wait") /\ req[m.code].attempt = m.attempt
        Reply(word) ==
            reply' = IF heard THEN [reply EXCEPT ![m.code] = word] ELSE reply
    IN
    /\ wire # << >>
    /\ wire' = Tail(wire)
    /\ \/ /\ mailbox' = [mailbox EXCEPT ![m.login] = m.code]
          /\ Reply("accepted")
       \/ /\ UNCHANGED mailbox
          /\ Reply("error")
    /\ UNCHANGED <<provider, writer, req, live, link, posting, telegram>>

(* The file is emptied when the gateway starts, and the connections it had *)
(* not served are gone.                                                    *)
GatewayRestarts ==
    /\ wire' = << >>
    /\ mailbox' = [l \in Logins |-> Nil]
    /\ UNCHANGED <<provider, writer, req, live, link, reply, posting, telegram>>

-----------------------------------------------------------------------------
(* TelegramOtpProvider.                                                    *)

(* A message to the bot: from.username is the name its author has at that  *)
(* time, chat.id where it was written.  One author may write in several    *)
(* chats, several authors in one (a group), and names change hands: every  *)
(* pair may occur.                                                         *)
BotMessage(username, chat) ==
    /\ Len(updates) < MaxMessages
    /\ provider = "telegram"
    /\ updates' = Append(updates, [username |-> username, chat |-> chat])
    /\ wrote' = wrote \union {[username |-> username, chat |-> chat]}
    /\ UNCHANGED <<provider, writer, req, live, link, gateway, sent>>

(* Telegram keeps an update for a day.                                     *)
Forget ==
    /\ updates # << >>
    /\ updates' = Tail(updates)
    /\ UNCHANGED <<provider, writer, req, live, link, gateway, wrote, sent>>

(* getUpdates returns the oldest updates; no offset is ever confirmed.     *)
Page == SubSeq(updates, 1, IF Len(updates) < Limit THEN Len(updates) ELSE Limit)

Matches(page, username) == {i \in DOMAIN page : page[i].username = username}

FindChat(r) ==
    LET l == Login(r)
        found == Matches(Page, l)
    IN
    /\ At(r, "find")
    /\ \/ /\ link[l] # Nil
          /\ req' = [req EXCEPT ![r] = Locals("send", l, 0, link[l], FALSE)]
          /\ UNCHANGED writer
       \/ /\ link[l] = Nil
          /\ \E newest \in found :
               /\ \A i \in found : i <= newest
               /\ req' = [req EXCEPT ![r] = Locals("send", l, 0, Page[newest].chat, TRUE)]
          /\ UNCHANGED writer
       \/ /\ link[l] = Nil
          /\ found = {}
          /\ End(r, "unknown")
    /\ UNCHANGED <<provider, live, link, gateway, telegram>>

(* sendMessage; its answer may be lost, and then the session is rolled     *)
(* back with the link it would have inserted.                              *)
Send(r) ==
    /\ At(r, "send")
    /\ sent' = sent \union {[login |-> Login(r), code |-> r, chat |-> req[r].chat]}
    /\ \/ Goto(r, "commit") /\ UNCHANGED writer
       \/ End(r, "failed")
    /\ UNCHANGED <<provider, live, link, gateway, updates, wrote>>

SendFails(r) ==
    /\ At(r, "send")
    /\ End(r, "failed")
    /\ UNCHANGED <<provider, live, link, gateway, telegram>>

-----------------------------------------------------------------------------

Step(r) ==
    \/ IssueCode(r) \/ LockTimeout(r) \/ Commit(r) \/ Crash(r)
    \/ PostCode(r) \/ Accepted(r) \/ AttemptFails(r)
    \/ FindChat(r) \/ Send(r) \/ SendFails(r)

Next ==
    \/ \E r \in Requests : Step(r) \/ \E l \in Logins : StartAuth(r, l)
    \/ GatewayServes
    \/ GatewayRestarts
    \/ \E l \in Logins, c \in Chats : BotMessage(l, c)
    \/ Forget

Spec == Init /\ [][Next]_vars

-----------------------------------------------------------------------------
(* What delivery promises.                                                 *)

(* The code in the mailbox of a login is that of its acceptable challenge, *)
(* until another start posts or a restart empties it: a late copy of an    *)
(* older code cannot replace it, although attempts that timed out are      *)
(* still served.                                                           *)
MailboxMatches ==
    provider = "http" =>
      \A l \in Logins : live[l] # Nil /\ l \notin posting =>
        mailbox[l] \in {live[l], Nil}

(* A code is only sent to a chat in which somebody has written to the bot  *)
(* under the user name that signs in, also when the chat comes from a      *)
(* stored link.  It may be a group, which then reads the code, and its     *)
(* author may have given the name up since.                                *)
SentWhereWritten == \A s \in sent : [username |-> s.login, chat |-> s.chat] \in wrote

(* A chat link is stored only after a code reached that chat: what a start *)
(* that fails has found is rolled back with it.                            *)
LinkAfterDelivery ==
    \A l \in Logins : link[l] # Nil =>
      \E s \in sent : s.login = l /\ s.chat = link[l]
=============================================================================
