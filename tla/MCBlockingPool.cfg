CONSTANTS
    None = None
    Calls = {c1, c2}
    Workers = {w1, w2}
    Capacity = 1
SPECIFICATION FairSpec
INVARIANTS
    CreditIsAccounted
    JobOutlivesWorker
    ClosedIsQuiet
PROPERTIES
    NothingStartsAfterStop
    StopBeatsResult
    CallEnds
    CloseEnds
