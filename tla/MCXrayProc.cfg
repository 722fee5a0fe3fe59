CONSTANTS
    Config = {b, c, x}
    Valid = {b, c}
    Surviving = {b}
    Bootstrap = b
    None = None
    MaxStartFailures = 2
    CrashWindowCount = 2
    Commands = {"push", "hot", "restart"}
    Faults = {"exec", "crash", "log", "exit", "write"}
    MaxEvents = 3
SPECIFICATION FairSpec
CHECK_DEADLOCK FALSE
INVARIANTS TypeOK 
PROPERTIES CountStaysFrozen Settles
