\* One worker, one row at a time; a tenant may never get its endpoint.
SPECIFICATION FairSpec
CONSTANTS
    e1 = e1  e2 = e2  t1 = t1  t2 = t2  w1 = w1  w2 = w2
    Event <- TwoEvents
    Tenant <- TwoTenants
    TenantOf <- Owner
    Worker <- OneWorker
    BatchSize = 1
    MaxAttempts = 2
    BaseBackoff = 5
    MaxBackoff = 8
    MaxFaults = 0
PROPERTY EveryEventSettles
