CONSTANTS
    Tasks = {t1, t2}
    Execs = {e1, e2}
    SQDepth = 1
    SubmitMayFail = TRUE
SPECIFICATION FairSpec
INVARIANTS
    NoDanglingRecord
    TaskInOnePlace
    EffectIsDelivered
    DriverNotStranded
PROPERTIES
    ContractSafety
    StopIsNotForgotten
