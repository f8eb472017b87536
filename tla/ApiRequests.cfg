\* Requests of two tenants through the whole chain, with one key between them.
SPECIFICATION Spec
CONSTANTS
    ann = ann  bob = bob  open = open
    acme = acme  other = other  k1 = k1
    Tenant <- TwoTenants
    Key = {k1}
    Request <- TwoRequests
    SeedUser <- MCUsers
    SeedTxn = {open}
    SeedTenant <- MCTenant
    SeedRole <- MCRole
    SeedExp <- MCExp
    Menu <- ApiMenu
    AccessTTL = 2
    Lease = 0
    Retention = 0
    MaxTime = 1
    MaxEvents = 1
    None = None
INVARIANTS TypeOK AnswersHoldTrue TenantsAreSeparate NeedsPermission
PROPERTIES LockedOutStaysOut EachPairIsIdempotent
\* All requests end.
CHECK_DEADLOCK FALSE
