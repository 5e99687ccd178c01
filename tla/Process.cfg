SPECIFICATION MCSpec
CONSTANTS
    Threads = {t1, t2}
    W = 4
    Random = {0, 3}
    Foreign <- MCForeign
    MaxScopes = 3
    MaxFrames = 1
    MaxSpans = 3
    Calls <- FileAndDirCalls
    Dirs <- MCDirs
    Files <- MCFiles
    Others <- MCOthers
    Sizes <- MCSizes
    NAME_MAX = 2
    BufLen = 2
    MaxFds = 5
    MaxCalls = 2
    MaxFaults = 1
    MaxCrashes = 1
    Errnos = {0, 5}
    MaxLines = 3
SYMMETRY ThreadSymmetry
INVARIANTS
    TrailsFollowCalls
    FilesExact
    
    LogIsTransparent
CHECK_DEADLOCK FALSE
