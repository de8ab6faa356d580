CONSTANTS
    N = 3
    HotSize = 2
    MaxIdeas = 4
    None = None
SPECIFICATION Spec
INVARIANTS
    SlotAccounting
    WaitsForSomething
    DestroyIsSafe
