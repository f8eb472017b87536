\* A token is used again while its successor is being refreshed.
SPECIFICATION Spec
CONSTANTS
    ann = ann  bob = bob
    User <- OneUser
    Request <- ThreeRequests
    SeedToken <- Seeds
    SeedUser <- SeedOwner
    Menu <- SessionMenu
    MaxFaults = 0
    None = None
INVARIANT ReuseKillsEverySession
