SPECIFICATION MCSpec
CONSTANTS
    Connectors = {c1}
    MaxFd = 3
    MaxPackets = 2
    W = 8
    Arguments <- MCArguments
    Threads = {t1, t2}
    None = None
    MaxName = 2
    MaxStr = 2
    MaxLen = 14
    SendMem = 9
    RecvMem = 5
    Pipe = 5
    GG_MAX_OBJECT_DEPTH = 3
    GG_IPC_MAX_MSG_LEN = 8
    NextTokenLen = 2
    PageLen = 1
    MaxCalls = 2
    SizeOfObject = 2
    SizeOfKV = 3
    UINT16_MAX = 100
    NAME_MAX = 2
    BufLen = 2
    MaxFds = 4
    MaxFaults = 1
    Errnos = {0, 5}
    MaxLines = 2
INVARIANTS
    RecvMemExclusive
    DescriptorsSound
    ExitsOnlyOnLoss
    RetriesExact
PROPERTIES
    NoForeignClose
    LossEndsProcess
    WrittenPacketsArrive
    EveryCallReturns
CHECK_DEADLOCK FALSE
