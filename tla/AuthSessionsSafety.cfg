SPECIFICATION Spec
CONSTANTS
    Requests = {r1, r2, r3}
    Sessions = {s1, s2, s3}
    Users = {alice, bob}
    NoOne = NoOne
    TTL = 1
    MaxTime = 2
SYMMETRY Interchangeable
INVARIANTS
    TypeOK
    SignedOutIsOut
PROPERTIES
    RevokedStaysRevoked
    SessionEndsForCause
CHECK_DEADLOCK FALSE
