SPECIFICATION MCSpec
CONSTANTS
    MaxName = 2
    MaxStr = 2
    MaxLen = 14
    Threads = {t1, t2}
    None = None
    Messages <- MCMessages
    SendMem = 9
    RecvMem = 5
    Pipe = 5
    MaxPackets = 3
    MaxBuf = 16
    MaxRaw = 5
    Bytes = {0, 1, 63, 64, 171, 255}
    MaxData = 3
    Chars = {65, 81, 103, 47, 61, 33}
    LastChars = {65, 61}
    MaxText = 5
INVARIANTS
    PacketRoundTrip
    DamageDetected
    IteratorStaysInHeaders
    Base64Exact
PROPERTIES
    ImplementsChannel
CHECK_DEADLOCK FALSE
