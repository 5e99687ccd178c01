SPECIFICATION Spec
CONSTANTS
    Connectors = {c1, c2}
    MaxFd = 2
    MaxPackets = 1
SYMMETRY ConnectorSymmetry
INVARIANTS RecvMemExclusive
CHECK_DEADLOCK FALSE
