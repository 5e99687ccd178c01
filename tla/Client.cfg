SPECIFICATION MCSpec
CONSTANTS
    Vars = {a, b, c}
    MaxSubscriptions = 3
    Threads = {t1, t2, t3}
    Subs = {s1, s2}
    Callers = {c1, c2}
    GG_MAX_OBJECT_DEPTH = 3
    GG_IPC_MAX_MSG_LEN = 8
    NextTokenLen = 2
    PageLen = 1
    MaxCalls = 2
    MaxEvents = 3
    SizeOfObject = 2
    SizeOfKV = 3
    UINT16_MAX = 100
SYMMETRY ClientSymmetry
INVARIANTS
    SubscriptionsOwned
    BindingSound
    RequestsExact
    
    
CHECK_DEADLOCK FALSE
