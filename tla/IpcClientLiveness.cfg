SPECIFICATION FairSpec
CONSTANTS
    Callers = {c1, c2}
    Publishers = {}
    None = None
    MaxStreams = 1
    GenMod = 16
    MaxStreamId = 2
    MaxInFlight = 1
    SendsFail = FALSE
    EarlyClose = FALSE
    CallbackPublishes = FALSE
PROPERTIES
    CallsReturn
CHECK_DEADLOCK FALSE
