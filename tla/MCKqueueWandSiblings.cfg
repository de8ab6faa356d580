CONSTANTS
    Tasks = {t1, t2}
    Execs = {e1, e2}
    Wishes = {"io", "poll_both", "poll_until"}
    Children = {c1}
    BatchSize = 2
    AddMayFail = FALSE
SPECIFICATION Spec
INVARIANT
    ThrowsOnlyOnDeadlock
