SPECIFICATION FairSpec
CONSTANTS
    Attempts = {c1, c2}
    NoOne = NoOne
    MaxServices = 2
CONSTRAINTS
    OneAttemptWhenDestroyed
    UntilCrossed
PROPERTIES
    DeadTunnelEnds
