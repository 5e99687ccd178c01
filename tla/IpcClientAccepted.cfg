SPECIFICATION Spec
CONSTANTS
    Callers = {c1, c2}
    Publishers = {}
    None = None
    MaxStreams = 1
    GenMod = 16
    MaxStreamId = 1
    MaxInFlight = 1
    SendsFail = TRUE
    EarlyClose = FALSE
    CallbackPublishes = FALSE
PROPERTIES
    AcceptedCallsReturnOk
CHECK_DEADLOCK FALSE
