CONSTANTS
    Name = {u, v}
    None = None
    MaxCycle = 2
    MaxBytes = 3
    MaxEvents = 3
    Faults = {"query", "restart", "remove", "crash"}
SPECIFICATION Spec
SYMMETRY Symmetry
CHECK_DEADLOCK FALSE
INVARIANTS CountedOnce NothingMissed RightCycle
