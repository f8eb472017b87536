\* Racing refreshes and logouts, a login and registrations, under fair scheduling.
SPECIFICATION FairSpec
CONSTANTS
    ann = ann  bob = bob
    User <- TwoUsers
    Request <- ThreeRequests
    SeedToken <- Seeds
    SeedUser <- SeedOwner
    Menu <- AuthMenu
    MaxFaults = 1
    None = None
INVARIANTS TypeOK OneActiveTokenPerSession RotationChain LogoutSticks AuditMatchesTables
PROPERTIES SpentForGood RevokedForCause EveryCallReturns
