SPECIFICATION Spec
CONSTANTS
    Callers = {c1, c2}
    Publishers = {c1, c2}
    None = None
    MaxStreams = 1
    GenMod = 16
    MaxStreamId = 2
    MaxInFlight = 1
    SendsFail = TRUE
    EarlyClose = TRUE
    CallbackPublishes = TRUE
SYMMETRY CallerSymmetry
INVARIANTS
    ContextsAlive
    HandleNamesOwnStream
CHECK_DEADLOCK FALSE
