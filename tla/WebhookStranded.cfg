\* One worker whose process stops once and is started again.
SPECIFICATION FairSpec
CONSTANTS
    e1 = e1  e2 = e2  t1 = t1  t2 = t2  w1 = w1  w2 = w2
    Event <- TwoEvents
    Tenant <- OneTenant
    TenantOf <- Owner
    Worker <- OneWorker
    BatchSize = 1
    MaxAttempts = 2
    BaseBackoff = 5
    MaxBackoff = 8
    MaxFaults = 1
PROPERTY CrashedDeliveryIsRetried
