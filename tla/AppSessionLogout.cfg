SPECIFICATION Spec
CONSTANTS
    Handlers = {h1, h2}
    Sessions = {s1}
    None = None
INVARIANT LogoutClears
