SPECIFICATION FairSpec
CONSTANTS
    Handlers = {h1, h2}
    Sessions = {s1, s2}
    None = None
INVARIANTS
    TypeOK
    RestIsStored
PROPERTIES
    SignInIsKept
    LoadingEnds
    NobodyIsStranded
