CONSTANTS
    Tasks = {t1, t2}
    Execs = {e1, e2, e3}
    BatchSize = 2
    AddMayThrow = TRUE
SPECIFICATION Spec
SYMMETRY Symmetry
INVARIANT ConnectReportsSocketError
