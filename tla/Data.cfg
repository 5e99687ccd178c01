SPECIFICATION MCSpec
CONSTANTS
    W = 8
    Capacity = 7
    Aligns = {1, 4}
    MaxSize = 8
    MaxBlocks = 3
    Kinds = {"obj", "kv", "byte", "buf"}
    Items = {b, n}
    Bufs = {b}
    VecCapacity <- MCCapacity
    SIZE = 4
    MaxList = 3
    MaxVecOps = 3
    SizeOfObject = 2
    SizeOfKV = 3
    UINT16_MAX = 20
    INT64_MAX = 127
    IntBuf = 3
    MaxExponent = 30
    GG_MAX_OBJECT_DEPTH = 3
    GG_MAX_OBJECT_SUBOBJECTS = 9
    MaxArray = 5
    MaxObject = 6
    MaxNumber = 5
    MaxString = 4
    Codes = {10, 127, 128, 2047, 2048, 55295, 55296, 56319, 56320, 57343, 57344, 65535}
INVARIANTS
    BlocksSound
    ChainsExact
    VisitWithinLimits
    ClaimIsDeepCopy
    CanonicalForm
    JsonRoundTrip
    
    DecodesExactlyJson
PROPERTIES
    AllocIsFirstFit
CHECK_DEADLOCK FALSE
