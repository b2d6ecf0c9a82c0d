SPECIFICATION Spec
CONSTANTS
    Requests = {r1, r2, r3, r4}
    Logins = {alice}
    NoOne = NoOne
    MaxAttempts = 2
    Cooldown = 1
    TTL = 2
    MaxTime = 1
SYMMETRY Interchangeable
INVARIANT GuessesBounded
CHECK_DEADLOCK FALSE
