CONSTANTS
    Tasks = {t1, t2}
    Execs = {e1, e2}
    SQDepth = 1
    SubmitMayFail = FALSE
SPECIFICATION FairSpec
PROPERTY StoppedTaskIsSettled
