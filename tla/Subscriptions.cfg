SPECIFICATION Spec
CONSTANTS
    Requests = {r1, r2}
    Users = {alice, bob}
    Chosen = {n1}
    Expiries = {0, 1}
    NoName = NoName
    Keys = {k1, k2}
    NoKey = NoKey
    PlanDays <- Plans
    DefaultDays = 2
    OrderOf <- Orders
    MaxTime = 2
SYMMETRY Interchangeable
INVARIANTS
    TypeOK
    OneOwner
    LinkedAccountExists
    ServedWasOwned
PROPERTIES
    ImplementsOneAnswer
    RetryHeals
    LoneReadsKeepSubscriptions
    LinkChangesForCause
CHECK_DEADLOCK FALSE
