SPECIFICATION FairSpec
CONSTANTS
    Threads = {t1, t2}
    Nobody = Nobody
    CacheSeconds = 2
    MaxLogins = 3
    MaxTime = 4
INVARIANT TypeOK
PROPERTIES
    RefusedNotReused
    LoginsAreDue
    CallsEnd
