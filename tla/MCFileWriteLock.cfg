SPECIFICATION FairSpec
CONSTANTS
    Ops = {o1, o2, o3}
    NoOp = NoOp
    Paths <- MCPaths
    Keys <- MCKeys
    Files <- MCFiles
    LockKey <- MCLockKey
    FileOf <- MCFileOf
INVARIANTS
    TypeOK
    MutualExclusion
    CallOrder
    MapHoldsWritesInFlight
    AckedUpdatesSurvive
PROPERTIES
    EveryCallEnds
    ImplementsAtomicFileUpdates
CHECK_DEADLOCK FALSE
