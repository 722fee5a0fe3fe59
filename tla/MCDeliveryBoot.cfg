CONSTANTS
    Id = {i1}
    Entry = {e1}
    MaxBatches = 2
    MaxBytes = 2
    MaxAge = 1
    MaxTime = 0
    Faults = {}
    Caps = {TRUE}
    BatchesPerTick = 2
    Retention = 1
    NetFaults = {}
    MaxConns = 2
    MaxFaults = 0
    NoId = NoId
SPECIFICATION DeliverySpec
CHECK_DEADLOCK FALSE
INVARIANTS DeletedOnlyAfterAck
