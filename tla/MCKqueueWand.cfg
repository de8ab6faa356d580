CONSTANTS
    Tasks = {t1, t2}
    Execs = {e1, e2}
    Wishes = {"io", "poll_none", "poll_until", "wait_child"}
    Children = {c1, c2}
    BatchSize = 2
    AddMayFail = TRUE
SPECIFICATION FairSpec
INVARIANTS
    EventsMatchRecords
    DriverNotStranded
PROPERTIES
    ContractSafety
    StoppedTaskIsSettled
