CONSTANTS
    r1 = r1
    r2 = r2
    r3 = r3
    genesis = genesis
    open = open
    acme = acme
    other = other
    None = None
    Tenant = {acme, other}
    Account = {1, 2, 3, 4, 5, 6}
    Request = {r1, r2, r3}
    SeedTxn = {genesis, open}
    SeedPending = {open}
    SeedTenant <- MCSeedTenant
    SeedEntries <- MCEntries
    SeedOwner <- MCOwner
    Menu <- LifecycleMenu
    MoneyModulus = 64
    MaxFaults = 0
SPECIFICATION Spec
SYMMETRY Symmetric
INVARIANTS
    NoCrossTenantEntries
