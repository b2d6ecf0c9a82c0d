SPECIFICATION Spec
CONSTANTS
    Requests = {r1, r2}
    Logins = {alice}
    NoOne = NoOne
    MaxAttempts = 1
    Cooldown = 1
    TTL = 2
    MaxTime = 1
SYMMETRY Interchangeable
INVARIANT ResendThrottled
CHECK_DEADLOCK FALSE
