CONSTANTS
    Id = {i1, i2}
    Entry = {e1, e2}
    MaxBatches = 1
    MaxBytes = 1
    MaxAge = 1
    MaxTime = 2
    Faults = {}
    Caps = {TRUE}
    BatchesPerTick = 1
    Retention = 1
    NetFaults = {"break"}
    MaxConns = 2
    MaxFaults = 1
    NoId = NoId
SPECIFICATION FairSpec
CHECK_DEADLOCK FALSE
INVARIANT BilledOnce
PROPERTY EventuallySent
