SPECIFICATION FairSpec
CONSTANTS
    Callers = {c1, c2}
    Publishers = {c1, c2}
    None = None
    MaxStreams = 1
    GenMod = 16
    MaxStreamId = 2
    MaxInFlight = 1
    SendsFail = FALSE
    EarlyClose = FALSE
    CallbackPublishes = TRUE
PROPERTIES
    CallbackOperationsReturn
CHECK_DEADLOCK FALSE
