\* One key, exact clocks, nothing cached can expire: does a handler run twice?
SPECIFICATION Spec
CONSTANTS
    a1 = a1  a2 = a2  a3 = a3  h1 = h1  h2 = h2
    Attempt <- TwoAttempts
    Hash <- TwoHashes
    Lease = 1
    Retention = 9
    CompleteRetryAttempts = 2
    MaxSkew = 0
    MaxTime = 3
    None = None
SYMMETRY Symmetric
INVARIANT HandlerRunsOnce
CHECK_DEADLOCK FALSE
