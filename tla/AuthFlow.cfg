SPECIFICATION FairSpec
CONSTANTS
    Requests = {r1, r2, r3}
    Logins = {alice, bob}
    NoOne = NoOne
    MaxAttempts = 2
    Cooldown = 1
    TTL = 1
    MaxTime = 2
INVARIANTS
    TypeOK
    OneLiveChallenge
    LockedAtMaximum
    SessionsAreBacked
PROPERTIES
    SpentStaysSpent
    EndsForCause
    RequestsEnd
CHECK_DEADLOCK FALSE
