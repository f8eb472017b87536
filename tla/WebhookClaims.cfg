\* Two workers race for two events while statements fail and processes stop.
SPECIFICATION Spec
CONSTANTS
    e1 = e1  e2 = e2  t1 = t1  t2 = t2  w1 = w1  w2 = w2
    Event <- TwoEvents
    Tenant <- OneTenant
    TenantOf <- Owner
    Worker <- TwoWorkers
    BatchSize = 1
    MaxAttempts = 3
    BaseBackoff = 5
    MaxBackoff = 8
    MaxFaults = 1
SYMMETRY Symmetric
INVARIANTS TypeOK HeldByOneWorker DeadLetteredOnce PostsAreBounded DeliveredWasAccepted
PROPERTY SettledForGood
