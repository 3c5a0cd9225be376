SPECIFICATION RetentionSpec
CONSTANTS
    Lifetimes = {1, 4}
    MaxTime = 6
    MaxChain = 3
INVARIANT
    CleanupSucceeds
