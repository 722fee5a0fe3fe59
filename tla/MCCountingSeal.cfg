CONSTANTS
    Name = {u}
    None = None
    MaxCycle = 2
    MaxBytes = 2
    MaxEvents = 3
    Faults = {"query"}
SPECIFICATION Spec
SYMMETRY Symmetry
CHECK_DEADLOCK FALSE
INVARIANTS UnsealedIsSafe
