SPECIFICATION Spec
CONSTANTS
    Callers = {c1, c2}
    Publishers = {}
    None = None
    MaxStreams = 2
    GenMod = 16
    MaxStreamId = 2
    MaxInFlight = 1
    SendsFail = TRUE
    EarlyClose = FALSE
    CallbackPublishes = FALSE
SYMMETRY CallerSymmetry
INVARIANTS
    ContextsAlive
    FailedSubscribeNotArmed
    HandlesExact
    TableMatchesServer
PROPERTIES
    NoCallbackAfterClose
    LifecycleSpec
CHECK_DEADLOCK FALSE
