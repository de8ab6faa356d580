CONSTANTS
    N = 2
    HotSize = 2
    MaxIdeas = 2
    None = None
SPECIFICATION Spec
INVARIANT
    RethrowsFirstFailure
