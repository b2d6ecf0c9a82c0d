------------------------ MODULE CodeDelivery_proofs ------------------------
(***************************************************************************)
(* Proofs about CodeDelivery, for any number of requests, logins and       *)
(* chats, and any limits: type correctness, that no older code replaces a  *)
(* newer one in the mailbox, that codes go where their name has written,   *)
(* and that a chat is linked after a delivery to it.                       *)
(***************************************************************************)
EXTENDS CodeDelivery, TLAPS

Labels == {"idle"} \union Active \union Terminal
Writing == {"post", "wait", "find", "send", "commit"}

Request ==
    [pc: Labels, login: Logins \union {Nil}, attempt: 0..MaxAttempts,
     chat: Chats \union {Nil}, found: BOOLEAN]

(* What a handler relies on between two of its steps.                      *)
Handler(r) ==
    LET q == req[r] IN
    /\ q.pc \in Writing => writer = r
    /\ q.pc \in Active => q.login \in Logins
    /\ q.pc \in {"start", "post", "wait", "find"} => ~q.found
    /\ q.pc \in {"start", "post"} => q.attempt < MaxAttempts
    /\ q.pc \in {"find", "send"} => provider = "telegram"
    /\ q.pc = "send" =>
          /\ q.chat \in Chats
          /\ [username |-> q.login, chat |-> q.chat] \in wrote
    /\ q.pc = "commit" /\ q.found =>
          /\ q.chat \in Chats
          /\ \E s \in sent : s.login = q.login /\ s.chat = q.chat

(* The mailbox of the login holds no code but this one, and none is on its *)
(* way there.                                                              *)
Clean(l, code) ==
    /\ mailbox[l] \in {code, Nil}
    /\ \A i \in DOMAIN wire : wire[i].login # l

(* Connections belong to attempts that were made.                          *)
WireInv ==
    \A i \in DOMAIN wire :
      LET q == req[wire[i].code] IN
      /\ q.pc \notin {"idle", "start", "find", "send"}
      /\ q.pc \in Active => wire[i].login = q.login /\ wire[i].attempt <= q.attempt

(* The connection of the current attempt is the last one for its login, so *)
(* that once it is answered the mailbox is settled, and stays so until the *)
(* next post.                                                              *)
Settling(r) ==
    LET q == req[r] IN
    /\ q.pc = "wait" =>
          \A i, j \in DOMAIN wire :
            wire[i].code = r /\ wire[i].attempt = q.attempt /\ i < j =>
              wire[j].login # q.login
    /\ q.pc = "wait" /\ reply[r] = "accepted" => Clean(q.login, r)
    /\ q.pc = "commit" /\ provider = "http" => Clean(q.login, r)

SettledInv ==
    provider = "http" =>
      \A l \in Logins : live[l] # Nil /\ l \notin posting => Clean(l, live[l])

UpdatesInv == \A i \in DOMAIN updates : updates[i] \in wrote

IInv ==
    /\ TypeOK
    /\ \A r \in Requests : Handler(r) /\ Settling(r)
    /\ WireInv /\ SettledInv
    /\ UpdatesInv /\ SentWhereWritten /\ LinkAfterDelivery

-----------------------------------------------------------------------------
(* Moving one request.                                                     *)
ReqFacts(r, label, l, n, c, f) ==
    /\ req' \in [Requests -> Request]
    /\ \A s \in Requests \ {r} : req'[s] = req[s]
    /\ req'[r].pc = label /\ req'[r].login = l /\ req'[r].attempt = n
    /\ req'[r].chat = c /\ req'[r].found = f

(* Assigning the local variables of a handler.                             *)
LEMMA ReqMoves ==
    ASSUME TypeOK, NEW r \in Requests, NEW label \in Labels,
           NEW l \in Logins \union {Nil}, NEW n \in 0..MaxAttempts,
           NEW c \in Chats \union {Nil}, NEW f \in BOOLEAN,
           req' = [req EXCEPT ![r] = Locals(label, l, n, c, f)]
    PROVE  ReqFacts(r, label, l, n, c, f)
<1>1. req \in [Requests -> Request]
  BY DEF TypeOK, Request, Labels
<1>2. Locals(label, l, n, c, f) \in Request
  BY DEF Locals, Request
<1>3. req'[r] = Locals(label, l, n, c, f)
  BY <1>1
<1> QED
  BY <1>1, <1>2, <1>3 DEF ReqFacts, Locals

(* The local variables of a handler are well typed.                        *)
LEMMA OwnType ==
    ASSUME TypeOK, NEW r \in Requests
    PROVE  /\ req[r].pc \in Labels /\ req[r].login \in Logins \union {Nil}
           /\ req[r].attempt \in 0..MaxAttempts
           /\ req[r].chat \in Chats \union {Nil} /\ req[r].found \in BOOLEAN
  BY DEF TypeOK, Labels

(* The elements of the two queues.                                         *)
LEMMA QueueTypes ==
    ASSUME TypeOK
    PROVE  /\ wire \in Seq(Post) /\ Len(wire) \in Nat /\ DOMAIN wire = 1..Len(wire)
           /\ \A i \in DOMAIN wire :
                /\ wire[i] \in Post /\ wire[i].code \in Requests
                /\ wire[i].login \in Logins /\ wire[i].attempt \in Nat
           /\ updates \in Seq(Update) /\ Len(updates) \in Nat
           /\ DOMAIN updates = 1..Len(updates)
           /\ \A i \in DOMAIN updates :
                updates[i] \in Update /\ updates[i].username \in Logins /\ updates[i].chat \in Chats
<1>1. wire \in Seq(Post) /\ updates \in Seq(Update)
  BY DEF TypeOK
<1>2. \A i \in DOMAIN wire : wire[i] \in Post
  BY <1>1
<1>3. \A m \in Post : m.code \in Requests /\ m.login \in Logins /\ m.attempt \in Nat
  BY DeliveryAssumption DEF Post
<1>4. \A i \in DOMAIN updates : updates[i] \in Update
  BY <1>1
<1>5. \A m \in Update : m.username \in Logins /\ m.chat \in Chats
  BY DEF Update
<1> QED
  BY <1>1, <1>2, <1>3, <1>4, <1>5

(* A handler goes on.                                                      *)
LEMMA GotoMoves ==
    ASSUME TypeOK, NEW r \in Requests, NEW label \in Labels, Goto(r, label)
    PROVE  ReqFacts(r, label, req[r].login, req[r].attempt, req[r].chat, req[r].found)
  BY OwnType, ReqMoves DEF Goto

(* A handler ends.                                                         *)
LEMMA EndMoves ==
    ASSUME TypeOK, NEW r \in Requests, NEW label \in Labels, End(r, label)
    PROVE  /\ ReqFacts(r, label, Nil, 0, Nil, FALSE)
           /\ writer' = IF writer = r THEN Nil ELSE writer
<1>1. 0 \in 0..MaxAttempts
  BY DeliveryAssumption
<1> QED
  BY <1>1, ReqMoves DEF End

-----------------------------------------------------------------------------
(* What a step of one handler has to establish of the others: the lock is  *)
(* taken when it is free, and given up by its holder.                      *)
OthersStay(r) ==
    /\ \A s \in Requests \ {r} : req'[s] = req[s]
    /\ writer' # writer => writer \in {r, Nil}
    /\ UNCHANGED provider
    /\ wrote \subseteq wrote' /\ sent \subseteq sent'

(* The other handlers keep what they rely on.                              *)
LEMMA HandlersStay ==
    ASSUME IInv, NEW r \in Requests, OthersStay(r), NEW s \in Requests \ {r}
    PROVE  Handler(s)'
<1>1. Handler(s) /\ req'[s] = req[s]
  BY DEF IInv, OthersStay
<1>2. req[s].pc \in Writing => writer' = s
  BY <1>1, DeliveryAssumption DEF Handler, OthersStay
<1> QED
  BY <1>1, <1>2 DEF Handler, OthersStay

(* A step that neither posts nor commits, nor is the gateway's: what is    *)
(* settled stays settled.                                                  *)
LEMMA SettledStays ==
    ASSUME IInv, NEW r \in Requests,
           \A s \in Requests \ {r} : req'[s] = req[s],
           UNCHANGED <<provider, live, wire, reply, mailbox, posting>>,
           req'[r].pc \notin {"idle", "wait"},
           req'[r].pc = "commit" /\ provider = "http" => Clean(req'[r].login, r),
           req'[r].pc \in {"start", "find", "send"} => req[r].pc \in {"idle", "start", "find"},
           req'[r].pc \in {"post", "commit"} =>
             /\ req[r].pc \in Active
             /\ req'[r].login = req[r].login /\ req'[r].attempt = req[r].attempt
    PROVE  /\ \A s \in Requests : Settling(s)'
           /\ WireInv' /\ SettledInv'
<1>1. ASSUME NEW s \in Requests \ {r} PROVE Settling(s)'
  BY <1>1 DEF IInv, Settling, Clean
<1>2. Settling(r)'
  BY DEF Settling, Clean
<1>3. SettledInv'
  BY DEF IInv, SettledInv, Clean
<1>4. WireInv'
  <2>1. ASSUME NEW i \in DOMAIN wire, wire[i].code = r
        PROVE  /\ req'[r].pc \notin {"idle", "start", "find", "send"}
               /\ req'[r].pc \in Active =>
                    wire[i].login = req'[r].login /\ wire[i].attempt <= req'[r].attempt
    BY <2>1 DEF IInv, WireInv, Active
  <2>2. ASSUME NEW i \in DOMAIN wire PROVE wire[i].code \in Requests
    BY <2>2, QueueTypes DEF IInv
  <2> QED
    BY <2>1, <2>2 DEF IInv, WireInv
<1> QED
  BY <1>1, <1>2, <1>3, <1>4

(* The conjuncts about handlers, from the step of one of them.             *)
LEMMA OneStep ==
    ASSUME IInv, NEW r \in Requests, OthersStay(r), Handler(r)',
           UNCHANGED <<live, wire, reply, mailbox, posting, link, updates, wrote, sent>>,
           NEW label, NEW l, NEW n, NEW c, NEW f, ReqFacts(r, label, l, n, c, f),
           writer' \in Requests \union {Nil},
           label \notin {"idle", "wait"},
           label = "commit" /\ provider = "http" => Clean(l, r),
           label \in {"start", "find", "send"} => req[r].pc \in {"idle", "start", "find"},
           label \in {"post", "commit"} =>
             /\ req[r].pc \in Active
             /\ l = req[r].login /\ n = req[r].attempt
    PROVE  IInv'
<1>1. \A s \in Requests : Handler(s)'
  BY HandlersStay
<1>2. /\ \A s \in Requests : Settling(s)'
      /\ WireInv' /\ SettledInv'
  BY SettledStays DEF OthersStay, ReqFacts
<1>3. TypeOK'
  BY DEF IInv, TypeOK, OthersStay, ReqFacts, Request, Labels
<1>4. UpdatesInv' /\ SentWhereWritten' /\ LinkAfterDelivery'
  BY DEF IInv, UpdatesInv, SentWhereWritten, LinkAfterDelivery
<1> QED
  BY <1>1, <1>2, <1>3, <1>4 DEF IInv

(* A handler fails or finds nothing.                                       *)
LEMMA EndKeeps ==
    ASSUME IInv, NEW r \in Requests, NEW label \in Terminal, End(r, label),
           UNCHANGED <<provider, live, link, gateway, telegram>>
    PROVE  IInv'
<1>1. TypeOK /\ writer \in Requests \union {Nil} /\ label \in Labels
  BY DEF IInv, TypeOK, Labels
<1>2. /\ ReqFacts(r, label, Nil, 0, Nil, FALSE)
      /\ writer' = IF writer = r THEN Nil ELSE writer
  BY <1>1, EndMoves
<1>3. OthersStay(r)
  BY <1>2 DEF OthersStay, ReqFacts, telegram
<1>4. Handler(r)'
  BY <1>2 DEF Handler, ReqFacts, Terminal, Writing, Active
<1> QED
  BY <1>1, <1>2, <1>3, <1>4, OneStep DEF Terminal, gateway, telegram

(* The steps of a handler that leave the gateway and Telegram alone.       *)
LEMMA QuietSteps ==
    ASSUME IInv, NEW r \in Requests,
           \/ \E l \in Logins : StartAuth(r, l)
           \/ IssueCode(r) \/ LockTimeout(r) \/ Crash(r)
           \/ Accepted(r) \/ AttemptFails(r) \/ SendFails(r)
    PROVE  IInv'
<1>a. /\ TypeOK /\ Handler(r) /\ Settling(r)
      /\ writer \in Requests \union {Nil}
      /\ MaxAttempts \in Nat /\ MaxAttempts > 0 /\ 0 \in 0..MaxAttempts
  BY DeliveryAssumption DEF IInv, TypeOK
<1>b. "failed" \in Terminal
  BY DEF Terminal
<1>1. ASSUME NEW l \in Logins, StartAuth(r, l) PROVE IInv'
  <2>1. ReqFacts(r, "start", l, 0, Nil, FALSE)
    BY <1>1, <1>a, ReqMoves DEF StartAuth, Labels, Active
  <2>2. OthersStay(r)
    BY <1>1, <2>1 DEF OthersStay, ReqFacts, StartAuth, telegram
  <2>3. Handler(r)'
    BY <1>a, <2>1 DEF Handler, ReqFacts, Writing
  <2>4. /\ req[r].pc = "idle" /\ writer' = writer
        /\ UNCHANGED <<live, wire, reply, mailbox, posting, link, updates, wrote, sent>>
    BY <1>1 DEF StartAuth, At, gateway, telegram
  <2>5. PICK label : label = "start"
    OBVIOUS
  <2>6. /\ ReqFacts(r, label, l, 0, Nil, FALSE)
        /\ label \notin {"idle", "wait", "post", "commit"}
        /\ writer' \in Requests \union {Nil}
    BY <1>a, <2>1, <2>4, <2>5
  <2> QED
    BY <2>2, <2>3, <2>4, <2>6, OneStep
<1>2. CASE IssueCode(r)
  <2>1. PICK label \in {"post", "find", "commit"} :
           /\ Goto(r, label)
           /\ label = "commit" => provider = "console"
           /\ label = "find" => provider = "telegram"
    BY <1>2, <1>a DEF IssueCode, TypeOK
  <2>2. ReqFacts(r, label, req[r].login, req[r].attempt, req[r].chat, req[r].found)
    BY <1>a, <2>1, GotoMoves DEF Labels, Active
  <2>3. OthersStay(r)
    BY <1>2, <2>2 DEF OthersStay, ReqFacts, IssueCode, telegram
  <2>4. Handler(r)'
    BY <1>2, <1>a, <2>1, <2>2 DEF IssueCode, At, Handler, ReqFacts, Active
  <2> QED
    BY <1>2, <1>a, <2>1, <2>2, <2>3, <2>4, OneStep
    DEF IssueCode, At, Active, gateway, telegram
<1>3. CASE LockTimeout(r) \/ Crash(r) \/ SendFails(r)
  BY <1>3, <1>b, EndKeeps DEF LockTimeout, Crash, SendFails
<1>4. CASE Accepted(r)
  <2>1. ReqFacts(r, "commit", req[r].login, req[r].attempt, req[r].chat, req[r].found)
    BY <1>4, <1>a, GotoMoves DEF Accepted, Labels, Active
  <2>2. OthersStay(r)
    BY <1>4, <2>1 DEF OthersStay, ReqFacts, Accepted, telegram
  <2>3. Handler(r)'
    BY <1>4, <1>a, <2>1 DEF Accepted, At, Handler, ReqFacts, Active, Writing
  <2>4. Clean(req[r].login, r)
    BY <1>4, <1>a DEF Accepted, At, Settling
  <2> QED
    BY <1>4, <1>a, <2>1, <2>2, <2>3, <2>4, OneStep
    DEF Accepted, At, Active, gateway, telegram
<1>5. CASE AttemptFails(r)
  <2>1. CASE End(r, "failed")
    BY <1>5, <1>b, <2>1, EndKeeps DEF AttemptFails
  <2>2. CASE req[r].attempt < MaxAttempts /\ Goto(r, "post") /\ UNCHANGED writer
    <3>1. ReqFacts(r, "post", req[r].login, req[r].attempt, req[r].chat, req[r].found)
      BY <1>a, <2>2, GotoMoves DEF Labels, Active
    <3>2. OthersStay(r)
      BY <1>5, <2>2, <3>1 DEF OthersStay, ReqFacts, AttemptFails, telegram
    <3>3. Handler(r)'
      BY <1>5, <1>a, <2>2, <3>1 DEF AttemptFails, At, Handler, ReqFacts, Active, Writing
    <3> QED
      BY <1>5, <1>a, <2>2, <3>1, <3>2, <3>3, OneStep
      DEF AttemptFails, At, Active, gateway, telegram
  <2> QED
    BY <1>5, <2>1, <2>2 DEF AttemptFails, AfterAttempt
<1> QED
  BY <1>1, <1>2, <1>3, <1>4, <1>5

-----------------------------------------------------------------------------
(* The commit: what is settled for the handler is settled for its login.   *)
LEMMA CommitKeeps ==
    ASSUME IInv, NEW r \in Requests, Commit(r)
    PROVE  IInv'
<1> DEFINE l == req[r].login
<1>a. /\ TypeOK /\ Handler(r) /\ Settling(r)
      /\ l \in Logins /\ "done" \in Labels
  BY DEF IInv, Handler, Commit, At, Active, Labels, Terminal
<1>1. /\ ReqFacts(r, "done", Nil, 0, Nil, FALSE)
      /\ writer' = IF writer = r THEN Nil ELSE writer
  BY <1>a, EndMoves DEF Commit
<1>2. OthersStay(r)
  BY <1>1 DEF Commit, OthersStay, ReqFacts, telegram
<1>3. /\ UNCHANGED <<provider, wire, reply, mailbox, updates, wrote, sent>>
      /\ req[r].pc = "commit"
      /\ live' = [live EXCEPT ![l] = r]
      /\ posting' = posting \ {l}
      /\ link' = IF req[r].found THEN [link EXCEPT ![l] = req[r].chat] ELSE link
  BY DEF Commit, At, telegram, Login
<1>4. /\ req[r].found => req[r].chat \in Chats
      /\ req[r].found => \E s \in sent : s.login = l /\ s.chat = req[r].chat
      /\ provider = "http" => Clean(l, r)
  BY <1>a, <1>3 DEF Handler, Settling
<1>5. TypeOK'
  <2>1. live' \in [Logins -> Requests \union {Nil}] /\ link' \in [Logins -> Chats \union {Nil}]
    BY <1>a, <1>3, <1>4 DEF TypeOK
  <2>2. writer' \in Requests \union {Nil} /\ posting' \subseteq Logins
    BY <1>a, <1>1, <1>3 DEF TypeOK
  <2>3. req' \in [Requests -> Request]
    BY <1>1 DEF ReqFacts
  <2> QED
    BY <1>a, <1>3, <2>1, <2>2, <2>3 DEF TypeOK, Request, Labels
<1>6. \A s \in Requests : Handler(s)'
  <2>1. Handler(r)'
    BY <1>1 DEF Handler, ReqFacts, Writing, Active
  <2> QED
    BY <1>2, <2>1, HandlersStay
<1>7. \A s \in Requests : Settling(s)'
  <2>1. ASSUME NEW s \in Requests \ {r} PROVE Settling(s)'
    BY <1>1, <1>3, <2>1 DEF IInv, Settling, Clean, ReqFacts
  <2>2. Settling(r)'
    BY <1>1 DEF Settling, ReqFacts
  <2> QED
    BY <2>1, <2>2
<1>8. WireInv'
  BY <1>1, <1>3, QueueTypes DEF IInv, WireInv, ReqFacts, Active
<1>9. SettledInv'
  <2>1. ASSUME provider = "http", NEW k \in Logins, live'[k] # Nil, k \notin posting'
        PROVE  Clean(k, live'[k])
    <3>1. CASE k = l
      BY <1>3, <1>4, <1>a, <2>1, <3>1 DEF TypeOK
    <3>2. CASE k # l
      BY <1>3, <1>a, <2>1, <3>2 DEF TypeOK, IInv, SettledInv
    <3> QED
      BY <3>1, <3>2
  <2> QED
    BY <1>3, <2>1 DEF SettledInv, Clean
<1>10. LinkAfterDelivery'
  <2>1. ASSUME NEW k \in Logins, link'[k] # Nil
        PROVE  \E s \in sent : s.login = k /\ s.chat = link'[k]
    <3>1. CASE k = l /\ req[r].found
      BY <1>3, <1>4, <1>a, <3>1 DEF TypeOK
    <3>2. CASE k # l \/ ~req[r].found
      <4>1. link'[k] = link[k]
        BY <1>3, <1>a, <3>2 DEF TypeOK
      <4> QED
        BY <2>1, <4>1 DEF IInv, LinkAfterDelivery
    <3> QED
      BY <3>1, <3>2
  <2> QED
    BY <1>3, <2>1 DEF LinkAfterDelivery
<1> QED
  BY <1>3, <1>5, <1>6, <1>7, <1>8, <1>9, <1>10 DEF IInv, UpdatesInv, SentWhereWritten

(* A post: it is the last connection of its login, no other handler is     *)
(* between its post and its commit, and the login is no longer settled.    *)
LEMMA PostKeeps ==
    ASSUME IInv, NEW r \in Requests, PostCode(r)
    PROVE  IInv'
<1> DEFINE l == req[r].login
           n == req[r].attempt + 1
           post == [login |-> l, code |-> r, attempt |-> n]
<1>a. /\ TypeOK /\ Handler(r) /\ Settling(r)
      /\ l \in Logins /\ n \in 1..MaxAttempts /\ n \in 0..MaxAttempts
      /\ req[r].attempt \in Nat
      /\ writer = r /\ req[r].pc = "post" /\ ~req[r].found
      /\ "wait" \in Labels
  <2>1. TypeOK /\ Handler(r) /\ Settling(r) /\ req[r].pc = "post" /\ "wait" \in Labels
    BY DEF IInv, PostCode, At, Labels, Active
  <2>2. writer = r /\ l \in Logins /\ ~req[r].found /\ req[r].attempt < MaxAttempts
    BY <2>1 DEF Handler, Writing, Active
  <2>3. MaxAttempts \in Nat /\ req[r].attempt \in 0..MaxAttempts
    BY <2>1, OwnType, DeliveryAssumption
  <2> QED
    BY <2>1, <2>2, <2>3
<1>b. post \in Post /\ post.login = l /\ post.code = r /\ post.attempt = n
  BY <1>a DEF Post
<1>1. ReqFacts(r, "wait", l, n, Nil, FALSE)
  BY <1>a, ReqMoves DEF PostCode, Login
<1>2. /\ UNCHANGED <<provider, writer, live, link, mailbox, updates, wrote, sent>>
      /\ reply' = [reply EXCEPT ![r] = "none"]
      /\ \/ wire' = Append(wire, post) /\ posting' = posting \union {l}
         \/ UNCHANGED <<wire, posting>>
  BY DEF PostCode, telegram, Login
<1> HIDE DEF l, n, post
<1>3. OthersStay(r)
  BY <1>1, <1>2 DEF OthersStay, ReqFacts
<1>4. /\ wire' \in Seq(Post) /\ Len(wire') \in Nat /\ DOMAIN wire' = 1..Len(wire')
      /\ Len(wire) \in Nat /\ DOMAIN wire = 1..Len(wire)
      /\ \A i \in DOMAIN wire : i \in DOMAIN wire' /\ wire'[i] = wire[i]
      /\ \A i \in DOMAIN wire' \ DOMAIN wire :
           i = Len(wire') /\ wire'[i] = post /\ l \in posting'
      /\ posting \subseteq posting' /\ posting' \subseteq Logins
  <2>1. wire \in Seq(Post) /\ Len(wire) \in Nat /\ DOMAIN wire = 1..Len(wire)
    BY <1>a, QueueTypes
  <2>2. CASE wire' = Append(wire, post) /\ posting' = posting \union {l}
    <3>1. wire' \in Seq(Post) /\ Len(wire') = Len(wire) + 1
      BY <1>b, <2>1, <2>2
    <3>2. /\ \A i \in 1..Len(wire) : wire'[i] = wire[i]
          /\ wire'[Len(wire) + 1] = post
      BY <1>b, <2>1, <2>2
    <3>3. DOMAIN wire' = 1..Len(wire')
      BY <3>1
    <3> QED
      BY <1>a, <2>1, <2>2, <3>1, <3>2, <3>3 DEF TypeOK
  <2>3. CASE UNCHANGED <<wire, posting>>
    BY <1>a, <2>1, <2>3 DEF TypeOK
  <2> QED
    BY <1>2, <2>2, <2>3
<1>5. TypeOK'
  <2>1. reply' \in [Requests -> {"none", "accepted", "error"}]
    BY <1>2, <1>a DEF TypeOK
  <2>2. req' \in [Requests -> Request]
    BY <1>1 DEF ReqFacts
  <2> QED
    BY <1>a, <1>2, <1>4, <2>1, <2>2 DEF TypeOK, Request, Labels
<1>6. \A s \in Requests : Handler(s)'
  <2>1. Handler(r)'
    BY <1>a, <1>1, <1>2 DEF Handler, ReqFacts
  <2> QED
    BY <1>3, <2>1, HandlersStay
<1>7. \A i \in DOMAIN wire : wire[i].code = r => wire[i].login = l /\ wire[i].attempt < n
  <2>1. \A i \in DOMAIN wire : wire[i].attempt \in Nat
    BY <1>a, QueueTypes
  <2> QED
    BY <1>a, <2>1 DEF IInv, WireInv, Active, l, n
<1>8. WireInv'
  <2>1. ASSUME NEW i \in DOMAIN wire'
        PROVE  LET q == req'[wire'[i].code] IN
               /\ q.pc \notin {"idle", "start", "find", "send"}
               /\ q.pc \in Active =>
                    wire'[i].login = q.login /\ wire'[i].attempt <= q.attempt
    <3>1. CASE i \in DOMAIN wire /\ wire[i].code = r
      <4>1. wire'[i] = wire[i] /\ wire[i].attempt \in Nat /\ wire[i].attempt < n
        BY <1>4, <1>7, <1>a, <3>1, QueueTypes
      <4> QED
        BY <1>1, <1>7, <1>a, <3>1, <4>1 DEF ReqFacts
    <3>2. CASE i \in DOMAIN wire /\ wire[i].code # r
      <4>1. wire'[i] = wire[i] /\ wire[i].code \in Requests
        BY <1>4, <1>a, <3>2, QueueTypes
      <4>2. req'[wire[i].code] = req[wire[i].code]
        BY <1>1, <3>2, <4>1 DEF ReqFacts
      <4> QED
        BY <3>2, <4>1, <4>2 DEF IInv, WireInv
    <3>3. CASE i \notin DOMAIN wire
      <4>1. wire'[i].code = r /\ wire'[i].login = l /\ wire'[i].attempt = n
        BY <1>4, <1>b, <2>1, <3>3
      <4> QED
        BY <1>1, <1>a, <4>1 DEF ReqFacts
    <3> QED
      BY <3>1, <3>2, <3>3
  <2> QED
    BY <2>1 DEF WireInv
<1>9. \A s \in Requests : Settling(s)'
  <2>1. ASSUME NEW s \in Requests \ {r} PROVE Settling(s)'
    <3>1. req[s].pc \notin Writing /\ req'[s] = req[s]
      BY <1>1, <1>a, <2>1 DEF IInv, Handler, ReqFacts
    <3> QED
      BY <3>1 DEF Settling, Writing
  <2>2. Settling(r)'
    <3>1. ASSUME NEW i \in DOMAIN wire', NEW j \in DOMAIN wire',
                 wire'[i].code = r, wire'[i].attempt = n, i < j
          PROVE  FALSE
      <4>1. i \notin DOMAIN wire
        <5>1. SUFFICES ASSUME i \in DOMAIN wire PROVE FALSE
          OBVIOUS
        <5>2. wire[i].code = r /\ wire[i].attempt = n
          BY <1>4, <3>1, <5>1
        <5>3. wire[i].attempt < n /\ n \in Nat
          BY <1>7, <1>a, <5>1, <5>2
        <5> QED
          BY <5>2, <5>3
      <4>2. i = Len(wire') /\ j \in 1..Len(wire') /\ Len(wire') \in Nat
        BY <1>4, <3>1, <4>1
      <4> QED
        BY <3>1, <4>2
    <3>2. reply'[r] = "none"
      BY <1>2, <1>a DEF TypeOK
    <3> QED
      BY <1>1, <3>1, <3>2 DEF Settling, ReqFacts
  <2> QED
    BY <2>1, <2>2
<1>10. SettledInv'
  <2>1. ASSUME provider = "http", NEW k \in Logins, live[k] # Nil, k \notin posting'
        PROVE  \A i \in DOMAIN wire' : wire'[i].login # k
    <3>1. Clean(k, live[k])
      BY <1>4, <2>1 DEF IInv, SettledInv
    <3>2. ASSUME NEW i \in DOMAIN wire' \ DOMAIN wire PROVE wire'[i].login # k
      BY <1>4, <1>b, <2>1, <3>2
    <3> QED
      BY <1>4, <3>1, <3>2 DEF Clean
  <2>2. ASSUME provider = "http", NEW k \in Logins, live[k] # Nil, k \notin posting'
        PROVE  mailbox[k] \in {live[k], Nil}
    BY <1>4, <2>2 DEF IInv, SettledInv, Clean
  <2> QED
    BY <1>2, <2>1, <2>2 DEF SettledInv, Clean
<1> QED
  BY <1>2, <1>5, <1>6, <1>8, <1>9, <1>10
  DEF IInv, UpdatesInv, SentWhereWritten, LinkAfterDelivery

-----------------------------------------------------------------------------
(* The gateway serves the oldest connection: the others move up, and only  *)
(* the login of the served one may get another code.                       *)
Served(m) ==
    /\ DOMAIN wire' = 1..Len(wire') /\ Len(wire') \in Nat
    /\ 1 \in DOMAIN wire /\ m = wire[1]
    /\ \A i \in DOMAIN wire' : i + 1 \in DOMAIN wire /\ wire'[i] = wire[i + 1]
    /\ \A i \in DOMAIN wire' : i \in Nat
    /\ \A l \in Logins \ {m.login} : mailbox'[l] = mailbox[l]

(* What the steps of the gateway leave alone.                              *)
LEMMA ServedFacts ==
    ASSUME TypeOK, GatewayServes
    PROVE  Served(Head(wire)) /\ TypeOK'
<1>1. /\ wire \in Seq(Post) /\ wire # << >> /\ Len(wire) \in Nat
      /\ DOMAIN wire = 1..Len(wire)
  BY QueueTypes DEF GatewayServes
<1>2. wire' = Tail(wire)
  BY DEF GatewayServes
<1>3. Len(wire) # 0
  BY <1>1
<1>4. wire' \in Seq(Post) /\ Len(wire') = Len(wire) - 1 /\ Head(wire) = wire[1]
  BY <1>1, <1>2
<1>5. \A i \in 1..Len(wire') : wire'[i] = wire[i + 1]
  BY <1>1, <1>2, <1>4
<1>6. DOMAIN wire' = 1..Len(wire')
  BY <1>4
<1>7. Head(wire).code \in Requests /\ Head(wire).login \in Logins
  BY <1>1, <1>3, <1>4, QueueTypes
<1>8. /\ mailbox' \in [Logins -> Requests \union {Nil}]
      /\ \A l \in Logins \ {Head(wire).login} : mailbox'[l] = mailbox[l]
  BY <1>7 DEF GatewayServes, TypeOK
<1>9. reply' \in [Requests -> {"none", "accepted", "error"}]
  BY <1>7 DEF GatewayServes, TypeOK
<1> QED
  BY <1>1, <1>3, <1>4, <1>5, <1>6, <1>8, <1>9
  DEF Served, GatewayServes, TypeOK, telegram

(* A clean mailbox is not touched.                                         *)
LEMMA CleanStays ==
    ASSUME NEW m, Served(m), NEW l \in Logins, NEW code, Clean(l, code)
    PROVE  Clean(l, code)'
<1>1. m.login # l
  BY DEF Clean, Served
<1>2. \A i \in DOMAIN wire' : wire'[i].login # l
  BY DEF Clean, Served
<1> QED
  BY <1>1, <1>2 DEF Clean, Served

(* Serving a connection: the one that is heard was the last of its login.  *)
LEMMA ServeKeeps ==
    ASSUME IInv, GatewayServes
    PROVE  IInv'
<1> DEFINE m == Head(wire)
<1>1. Served(m) /\ TypeOK' /\ TypeOK
  BY ServedFacts DEF IInv
<1>2. /\ UNCHANGED <<provider, writer, req, live, link, posting, updates, wrote, sent>>
      /\ \/ reply' = reply
         \/ /\ req[m.code].pc = "wait" /\ req[m.code].attempt = m.attempt
            /\ \/ reply' = [reply EXCEPT ![m.code] = "error"]
               \/ /\ reply' = [reply EXCEPT ![m.code] = "accepted"]
                  /\ mailbox' = [mailbox EXCEPT ![m.login] = m.code]
  BY DEF GatewayServes, At, telegram
<1>3. m = wire[1] /\ 1 \in DOMAIN wire /\ m.code \in Requests /\ m.login \in Logins
  BY <1>1, QueueTypes DEF Served
<1> HIDE DEF m
<1>4. \A s \in Requests : Handler(s)'
  BY <1>2 DEF IInv, Handler
<1>5. WireInv'
  BY <1>1, <1>2 DEF IInv, WireInv, Served
<1>6. \A s \in Requests : Settling(s)'
  <2>a. \A s \in Requests : req[s].pc \in {"wait", "commit"} => req[s].login \in Logins
    BY DEF IInv, Handler, Active
  <2>b. \A s \in Requests : req[s].pc \notin {"wait", "commit"} => Settling(s)'
    BY <1>2 DEF Settling
  <2> SUFFICES ASSUME NEW s \in Requests, NEW l \in Logins, l = req[s].login
               PROVE  Settling(s)'
    BY <2>a, <2>b
  <2>1. Settling(s)
    BY DEF IInv
  <2>3. ASSUME req[s].pc = "wait", NEW i \in DOMAIN wire', NEW j \in DOMAIN wire',
               wire'[i].code = s, wire'[i].attempt = req[s].attempt, i < j
        PROVE  wire'[j].login # l
    <3>1. /\ i + 1 \in DOMAIN wire /\ j + 1 \in DOMAIN wire /\ i + 1 < j + 1
          /\ wire'[i] = wire[i + 1] /\ wire'[j] = wire[j + 1]
      BY <1>1, <2>3 DEF Served
    <3> QED
      BY <2>1, <2>3, <3>1 DEF Settling
  <2>4. ASSUME req[s].pc = "wait", reply'[s] = "accepted"
        PROVE  Clean(l, s)'
    <3>1. CASE reply[s] = "accepted"
      BY <1>1, <2>1, <2>4, <3>1, CleanStays DEF Settling
    <3>2. CASE reply[s] # "accepted"
      <4>1. /\ m.code = s /\ req[s].attempt = m.attempt
            /\ mailbox' = [mailbox EXCEPT ![m.login] = m.code]
        BY <1>1, <1>2, <1>3, <2>4, <3>2 DEF TypeOK
      <4>2. m.login = l
        BY <1>3, <2>4, <4>1 DEF IInv, WireInv, Active
      <4>3. mailbox'[l] = s
        BY <1>1, <1>3, <4>1, <4>2 DEF TypeOK
      <4>4. ASSUME NEW i \in DOMAIN wire' PROVE wire'[i].login # l
        <5>1. i + 1 \in DOMAIN wire /\ 1 < i + 1 /\ wire'[i] = wire[i + 1]
          BY <1>1, <4>4 DEF Served
        <5> QED
          BY <1>3, <2>1, <2>4, <4>1, <5>1 DEF Settling
      <4> QED
        BY <4>3, <4>4, <1>2 DEF Clean
    <3> QED
      BY <3>1, <3>2
  <2>5. ASSUME req[s].pc = "commit", provider = "http"
        PROVE  Clean(l, s)'
    BY <1>1, <2>1, <2>5, CleanStays DEF Settling
  <2> QED
    BY <1>2, <2>3, <2>4, <2>5 DEF Settling, Clean
<1>7. SettledInv'
  <2>1. ASSUME provider = "http", NEW l \in Logins, live[l] # Nil, l \notin posting
        PROVE  Clean(l, live[l])'
    <3>1. Clean(l, live[l])
      BY <2>1 DEF IInv, SettledInv
    <3> QED
      BY <1>1, <1>2, <3>1, CleanStays DEF Clean
  <2> QED
    BY <1>2, <2>1 DEF SettledInv
<1> QED
  BY <1>1, <1>2, <1>4, <1>5, <1>6, <1>7
  DEF IInv, UpdatesInv, SentWhereWritten, LinkAfterDelivery

(* A restart of the gateway leaves nothing that could be the wrong code.   *)
LEMMA RestartKeeps ==
    ASSUME IInv, GatewayRestarts
    PROVE  IInv'
<1>1. /\ UNCHANGED <<provider, writer, req, live, link, reply, posting, updates, wrote, sent>>
      /\ wire' = << >> /\ mailbox' = [l \in Logins |-> Nil]
  BY DEF GatewayRestarts, telegram
<1>2. wire' \in Seq(Post) /\ \A i \in DOMAIN wire' : FALSE
  BY <1>1
<1>3. TypeOK'
  BY <1>1, <1>2 DEF IInv, TypeOK
<1>4. \A s \in Requests : Handler(s)'
  BY <1>1 DEF IInv, Handler
<1>5. \A s \in Requests : Settling(s)'
  BY <1>1, <1>2 DEF IInv, Settling, Handler, Clean, Active
<1>6. SettledInv' /\ WireInv'
  BY <1>1, <1>2 DEF SettledInv, WireInv, Clean
<1> QED
  BY <1>1, <1>3, <1>4, <1>5, <1>6 DEF IInv, UpdatesInv, SentWhereWritten, LinkAfterDelivery

-----------------------------------------------------------------------------
(* The bot's updates: what has been written stays written, also after      *)
(* Telegram has dropped the update.                                        *)
LEMMA UpdatesKeep ==
    ASSUME IInv, Forget \/ \E l \in Logins, c \in Chats : BotMessage(l, c)
    PROVE  IInv'
<1>a. /\ TypeOK /\ updates \in Seq(Update) /\ Len(updates) \in Nat
      /\ DOMAIN updates = 1..Len(updates)
  BY QueueTypes DEF IInv
<1>1. /\ UNCHANGED <<provider, writer, req, live, link, wire, reply, mailbox, posting, sent>>
      /\ wrote \subseteq wrote'
  BY DEF Forget, BotMessage, gateway
<1>2. /\ updates' \in Seq(Update) /\ wrote' \subseteq Update
      /\ \A i \in DOMAIN updates' : updates'[i] \in wrote'
  <2>1. CASE Forget
    <3>1. updates # << >> /\ updates' = Tail(updates) /\ wrote' = wrote
      BY <2>1 DEF Forget
    <3>2. Len(updates) # 0
      BY <1>a, <3>1
    <3>3. updates' \in Seq(Update) /\ Len(updates') = Len(updates) - 1
      BY <1>a, <3>1
    <3>4. \A i \in 1..Len(updates') : updates'[i] = updates[i + 1]
      BY <1>a, <3>1, <3>3
    <3>5. \A i \in DOMAIN updates' : i + 1 \in DOMAIN updates /\ updates'[i] = updates[i + 1]
      BY <1>a, <3>2, <3>3, <3>4
    <3> QED
      BY <1>a, <3>1, <3>3, <3>5 DEF IInv, UpdatesInv, TypeOK
  <2>2. ASSUME NEW m \in Update, updates' = Append(updates, m), wrote' = wrote \union {m}
        PROVE  <1>2!:
    <3>1. updates' \in Seq(Update) /\ Len(updates') = Len(updates) + 1
      BY <1>a, <2>2
    <3>2. /\ \A i \in 1..Len(updates) : updates'[i] = updates[i]
          /\ updates'[Len(updates) + 1] = m
      BY <1>a, <2>2
    <3>3. DOMAIN updates' = 1..(Len(updates) + 1)
      BY <3>1
    <3> QED
      BY <1>a, <2>2, <3>1, <3>2, <3>3 DEF IInv, UpdatesInv, TypeOK
  <2>3. ASSUME NEW l \in Logins, NEW c \in Chats, BotMessage(l, c)
        PROVE  \E m \in Update : updates' = Append(updates, m) /\ wrote' = wrote \union {m}
    BY <2>3 DEF BotMessage, Update
  <2> QED
    BY <2>1, <2>2, <2>3
<1>3. TypeOK'
  BY <1>a, <1>1, <1>2 DEF TypeOK
<1>4. \A s \in Requests : Handler(s)' /\ Settling(s)'
  BY <1>1 DEF IInv, Handler, Settling, Clean
<1>5. WireInv' /\ SettledInv'
  BY <1>1 DEF IInv, WireInv, SettledInv, Clean
<1>6. SentWhereWritten' /\ LinkAfterDelivery'
  BY <1>1 DEF IInv, SentWhereWritten, LinkAfterDelivery
<1> QED
  BY <1>2, <1>3, <1>4, <1>5, <1>6 DEF IInv, UpdatesInv

(* The page of updates is the beginning of what is pending.                *)
LEMMA PageOfUpdates ==
    ASSUME IInv, NEW i \in DOMAIN Page
    PROVE  i \in DOMAIN updates /\ Page[i] = updates[i]
<1> DEFINE n == IF Len(updates) < Limit THEN Len(updates) ELSE Limit
<1>1. /\ updates \in Seq(Update) /\ Len(updates) \in Nat
      /\ DOMAIN updates = 1..Len(updates)
  BY QueueTypes DEF IInv
<1>2. n \in Nat /\ n <= Len(updates)
  BY <1>1, DeliveryAssumption
<1>3. Page = SubSeq(updates, 1, n)
  BY DEF Page
<1> HIDE DEF n
<1>4. Page \in Seq(Update) /\ Len(Page) = n /\ \A k \in 1..n : Page[k] = updates[k]
  BY <1>1, <1>2, <1>3
<1> QED
  BY <1>1, <1>2, <1>4

(* A chat is found for a user name that has written from it.               *)
LEMMA ChatsFound ==
    ASSUME IInv, NEW l \in Logins
    PROVE  /\ \A i \in Matches(Page, l) :
                Page[i].chat \in Chats /\ [username |-> l, chat |-> Page[i].chat] \in wrote
           /\ link[l] # Nil => link[l] \in Chats /\ [username |-> l, chat |-> link[l]] \in wrote
<1>1. ASSUME NEW i \in Matches(Page, l)
      PROVE  Page[i].chat \in Chats /\ [username |-> l, chat |-> Page[i].chat] \in wrote
  <2>1. i \in DOMAIN Page /\ Page[i].username = l
    BY DEF Matches
  <2>2. i \in DOMAIN updates /\ Page[i] = updates[i]
    BY <2>1, PageOfUpdates
  <2>3. Page[i] \in wrote /\ Page[i] \in Update
    BY <2>2, QueueTypes DEF IInv, UpdatesInv
  <2>4. Page[i].chat \in Chats /\ Page[i] = [username |-> Page[i].username, chat |-> Page[i].chat]
    BY <2>3 DEF Update
  <2> QED
    BY <2>1, <2>3, <2>4
<1>2. ASSUME link[l] # Nil
      PROVE  link[l] \in Chats /\ [username |-> l, chat |-> link[l]] \in wrote
  BY <1>2 DEF IInv, TypeOK, LinkAfterDelivery, SentWhereWritten
<1> QED
  BY <1>1, <1>2

(* A handler looks for the chat of its login.                              *)
LEMMA FindKeeps ==
    ASSUME IInv, NEW r \in Requests, FindChat(r)
    PROVE  IInv'
<1> DEFINE l == req[r].login
<1>a. /\ TypeOK /\ Handler(r)
      /\ writer \in Requests \union {Nil}
      /\ 0 \in 0..MaxAttempts /\ "send" \in Labels /\ "unknown" \in Terminal
  BY DeliveryAssumption DEF IInv, TypeOK, Labels, Active, Terminal
<1>b. /\ req[r].pc = "find" /\ l \in Logins /\ writer = r /\ provider = "telegram"
      /\ UNCHANGED <<provider, live, link, gateway, telegram>>
  BY <1>a DEF FindChat, At, Handler, Active, Writing
<1>1. ASSUME NEW c \in Chats, NEW f \in BOOLEAN, [username |-> l, chat |-> c] \in wrote,
             req' = [req EXCEPT ![r] = Locals("send", l, 0, c, f)], UNCHANGED writer
      PROVE  IInv'
  <2>1. PICK label : label = "send"
    OBVIOUS
  <2>2. ReqFacts(r, label, l, 0, c, f)
    BY <1>1, <1>a, <1>b, <2>1, ReqMoves
  <2>3. OthersStay(r)
    BY <1>1, <1>b, <2>2 DEF OthersStay, ReqFacts, telegram
  <2>4. Handler(r)'
    BY <1>1, <1>b, <2>1, <2>2 DEF Handler, ReqFacts, Active, telegram
  <2>5. label \notin {"idle", "wait", "post", "commit"} /\ writer' \in Requests \union {Nil}
    BY <1>1, <1>a, <2>1
  <2>6. UNCHANGED <<live, wire, reply, mailbox, posting, link, updates, wrote, sent>>
    BY <1>b DEF gateway, telegram
  <2> QED
    BY <1>b, <2>2, <2>3, <2>4, <2>5, <2>6, OneStep
<1>2. CASE End(r, "unknown")
  BY <1>2, <1>a, <1>b, EndKeeps
<1>3. CASE /\ link[l] # Nil
           /\ req' = [req EXCEPT ![r] = Locals("send", l, 0, link[l], FALSE)]
           /\ UNCHANGED writer
  BY <1>1, <1>3, <1>b, ChatsFound
<1>4. CASE /\ \E i \in Matches(Page, l) :
                req' = [req EXCEPT ![r] = Locals("send", l, 0, Page[i].chat, TRUE)]
           /\ UNCHANGED writer
  BY <1>1, <1>4, <1>b, ChatsFound
<1> QED
  BY <1>2, <1>3, <1>4 DEF FindChat, Login

(* A code is sent: where its name has written, and the link may be kept.   *)
LEMMA SendKeeps ==
    ASSUME IInv, NEW r \in Requests, Send(r)
    PROVE  IInv'
<1> DEFINE l == req[r].login
           c == req[r].chat
           s1 == [login |-> l, code |-> r, chat |-> c]
<1>a. /\ TypeOK /\ Handler(r) /\ "failed" \in Labels /\ "commit" \in Labels
      /\ writer \in Requests \union {Nil}
  BY DEF IInv, TypeOK, Labels, Active, Terminal
<1>b. /\ req[r].pc = "send" /\ writer = r /\ provider = "telegram"
      /\ l \in Logins /\ c \in Chats /\ [username |-> l, chat |-> c] \in wrote
  BY <1>a DEF Send, At, Handler, Active, Writing
<1>c. /\ UNCHANGED <<provider, live, link, wire, reply, mailbox, posting, updates, wrote>>
      /\ sent' = sent \union {s1}
      /\ s1.login = l /\ s1.chat = c
      /\ s1 \in [login: Logins, code: Requests, chat: Chats]
  BY <1>b DEF Send, gateway, Login
<1> HIDE DEF s1
<1>1. \/ /\ ReqFacts(r, "commit", l, req[r].attempt, c, req[r].found)
         /\ writer' = writer
      \/ /\ ReqFacts(r, "failed", Nil, 0, Nil, FALSE)
         /\ writer' = Nil
  BY <1>a, <1>b, GotoMoves, EndMoves DEF Send
<1>2. OthersStay(r)
  BY <1>1, <1>b, <1>c DEF OthersStay, ReqFacts
<1>3. Handler(r)'
  BY <1>1, <1>b, <1>c DEF Handler, ReqFacts, Active, Writing
<1>4. /\ \A s \in Requests : Settling(s)'
      /\ WireInv' /\ SettledInv'
  <2>1. /\ \A s \in Requests \ {r} : req'[s] = req[s]
        /\ req'[r].pc \in {"commit", "failed"}
        /\ req'[r].pc = "commit" => 
             req'[r].login = req[r].login /\ req'[r].attempt = req[r].attempt
    BY <1>1 DEF ReqFacts
  <2>2. req[r].pc \in Active
    BY <1>b DEF Active
  <2> QED
    BY <1>b, <1>c, <2>1, <2>2, SettledStays
<1>5. TypeOK'
  <2>1. req' \in [Requests -> Request] /\ writer' \in Requests \union {Nil}
    BY <1>1, <1>a DEF ReqFacts
  <2>2. sent' \subseteq [login: Logins, code: Requests, chat: Chats]
    BY <1>a, <1>c DEF TypeOK
  <2> QED
    BY <1>a, <1>c, <2>1, <2>2 DEF TypeOK, Request, Labels
<1>6. SentWhereWritten' /\ LinkAfterDelivery' /\ UpdatesInv'
  BY <1>b, <1>c DEF IInv, SentWhereWritten, LinkAfterDelivery, UpdatesInv
<1> QED
  BY <1>2, <1>3, <1>4, <1>5, <1>6, HandlersStay DEF IInv

-----------------------------------------------------------------------------
(* Nothing has happened yet.                                               *)
LEMMA Start == Init => IInv
<1> SUFFICES ASSUME Init PROVE IInv
  OBVIOUS
<1>1. Locals("idle", Nil, 0, Nil, FALSE) \in Request
  BY DeliveryAssumption DEF Locals, Request, Labels
<1>2. \A r \in Requests : req[r].pc = "idle" /\ ~req[r].found
  BY DEF Init, Locals
<1>3. wire \in Seq(Post) /\ updates \in Seq(Update)
      /\ (\A i \in DOMAIN wire : FALSE) /\ (\A i \in DOMAIN updates : FALSE)
  BY DEF Init
<1>4. TypeOK
  BY <1>1, <1>3 DEF Init, TypeOK, Request, Labels
<1>5. \A r \in Requests : Handler(r) /\ Settling(r)
  BY <1>2 DEF Handler, Settling, Writing, Active
<1>6. WireInv /\ SettledInv /\ UpdatesInv /\ SentWhereWritten /\ LinkAfterDelivery
  BY <1>3 DEF Init, WireInv, SettledInv, UpdatesInv, SentWhereWritten, LinkAfterDelivery
<1> QED
  BY <1>4, <1>5, <1>6 DEF IInv

(* Every step keeps the invariant.                                         *)
LEMMA StepsKeep == IInv /\ [Next]_vars => IInv'
<1> SUFFICES ASSUME IInv, [Next]_vars PROVE IInv'
  OBVIOUS
<1>1. ASSUME NEW r \in Requests, Step(r) \/ \E l \in Logins : StartAuth(r, l)
      PROVE  IInv'
  BY <1>1, QuietSteps, CommitKeeps, PostKeeps, FindKeeps, SendKeeps DEF Step
<1>2. CASE GatewayServes
  BY <1>2, ServeKeeps
<1>3. CASE GatewayRestarts
  BY <1>3, RestartKeeps
<1>4. CASE Forget \/ \E l \in Logins, c \in Chats : BotMessage(l, c)
  BY <1>4, UpdatesKeep
<1>5. CASE UNCHANGED vars
  <2>1. UNCHANGED <<provider, writer, req, live, link, wire, reply, mailbox,
                    updates, wrote, sent, posting>>
    BY <1>5 DEF vars
  <2>2. TypeOK'
    BY <2>1 DEF IInv, TypeOK
  <2>3. \A r \in Requests : Handler(r)' /\ Settling(r)'
    BY <2>1 DEF IInv, Handler, Settling, Clean
  <2>4. WireInv' /\ SettledInv'
    BY <2>1 DEF IInv, WireInv, SettledInv, Clean
  <2> QED
    BY <2>1, <2>2, <2>3, <2>4 DEF IInv, UpdatesInv, SentWhereWritten, LinkAfterDelivery
<1> QED
  BY <1>1, <1>2, <1>3, <1>4, <1>5 DEF Next

(* The inductive invariant.                                                *)
THEOREM Invariance == Spec => []IInv
  BY Start, StepsKeep, PTL DEF Spec

(* Every variable keeps its type.                                          *)
THEOREM TypeCorrect == Spec => []TypeOK
<1>1. IInv => TypeOK
  BY DEF IInv
<1> QED
  BY <1>1, Invariance, PTL

(* A late copy of an older code never replaces the acceptable one.         *)
THEOREM NewestCodeStays == Spec => []MailboxMatches
<1>1. IInv => MailboxMatches
  BY DEF IInv, SettledInv, Clean, MailboxMatches
<1> QED
  BY <1>1, Invariance, PTL

(* Codes are sent to chats in which the bot was written to under the user  *)
(* name.                                                                   *)
THEOREM SentWhereNameWrote == Spec => []SentWhereWritten
<1>1. IInv => SentWhereWritten
  BY DEF IInv
<1> QED
  BY <1>1, Invariance, PTL

(* A stored chat link was used once, with success, before it was stored.   *)
THEOREM LinksWereUsed == Spec => []LinkAfterDelivery
<1>1. IInv => LinkAfterDelivery
  BY DEF IInv
<1> QED
  BY <1>1, Invariance, PTL
=============================================================================
