SPECIFICATION ServiceFairSpec
CONSTANTS
    Threads = {t1, t2, t3}
    Keys = {k1}
    Nobody = Nobody
    MaxAttempts = 2
    Window = 2
    MaxTime = 4
    MaxCount = 4
INVARIANT ServiceTypeOK
PROPERTIES
    ImplementsWindow
    RefusalsAreDue
    TwiceTheLimit
    BlocksEnd
CHECK_DEADLOCK FALSE
