CONSTANTS
    Id = {i1, i2}
    Entry = {e1, e2}
    MaxBatches = 2
    MaxBytes = 2
    MaxAge = 1
    MaxTime = 0
    Faults = {"write"}
    Caps = {TRUE, FALSE}
    BatchesPerTick = 2
    Retention = 1
    NetFaults = {"refuse", "break", "stop"}
    MaxConns = 2
    MaxFaults = 2
    NoId = NoId
SPECIFICATION DeliverySpec
CHECK_DEADLOCK FALSE
SYMMETRY Symmetry
INVARIANTS DeletedOnlyWhenBooked EntryInOnePlace
PROPERTIES ImplementsLedger
