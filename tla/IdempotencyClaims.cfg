\* Three requests with one key, two bodies, skewed clocks, expiring leases.
SPECIFICATION Spec
CONSTANTS
    a1 = a1  a2 = a2  a3 = a3  h1 = h1  h2 = h2
    Attempt <- ThreeAttempts
    Hash <- TwoHashes
    Lease = 1
    Retention = 2
    CompleteRetryAttempts = 2
    MaxSkew = 1
    MaxTime = 2
    None = None
SYMMETRY Symmetric
INVARIANTS TypeOK ClaimsAreSpaced ExecutionsAreSpaced StoredResponseIsOwn ReplayIsGenuine
PROPERTY CompletedUntilExpired
\* All requests end.
CHECK_DEADLOCK FALSE
