SPECIFICATION Spec
CONSTANTS
    Attempts = {c1, c2}
    NoOne = NoOne
    MaxServices = 2
SYMMETRY Interchangeable
CONSTRAINTS
    OneAttemptWhenDestroyed
INVARIANTS
    TypeOK
    NoTunnelWithoutCore
