CONSTANTS
    None = None
    Other = Other
    Root = root
    Tasks = {root, a, b}
    Rows = 3
    Eras = 3
    RowDrops = 1
SPECIFICATION Spec
SYMMETRY Symmetry
INVARIANTS
    TypeOK
    QueuedIdNeverAliases
    ResumedExactlyOnce
    ContinuationIsLive
    StopReachesAwaited
    DeadlockIsAWish
