CONSTANTS
    Tasks = {t1, t2}
    Execs = {e1, e2}
    BatchSize = 2
    AddMayThrow = TRUE
SPECIFICATION FairSpec
INVARIANTS
    NoDanglingRecord
    WatchedWhileSubmitted
    TaskInOnePlace
    DriverNotStranded
PROPERTIES
    ContractSafety
    StoppedTaskIsSettled
    TimerWakesTask
