SPECIFICATION Spec
CONSTANTS
    Requests = {r1, r2, r3}
    Logins = {alice, bob}
    Chats = {c1, c2}
    Nil = Nil
    MaxAttempts = 2
    Limit = 2
    MaxMessages = 4
SYMMETRY Interchangeable
INVARIANTS
    TypeOK
    MailboxMatches
    SentWhereWritten
    LinkAfterDelivery
CHECK_DEADLOCK FALSE
