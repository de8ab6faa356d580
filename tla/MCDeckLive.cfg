CONSTANTS
    None = None
    Other = Other
    Root = root
    Tasks = {root, a, b}
    Rows = 2
    Eras = 3
    RowDrops = 1
SPECIFICATION FairSpec
PROPERTY
    DueTaskRuns
