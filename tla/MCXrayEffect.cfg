CONSTANTS
    Config = {b, c}
    Valid = {b, c}
    Surviving = {b, c}
    Bootstrap = b
    None = None
    MaxStartFailures = 2
    CrashWindowCount = 2
    Commands = {"push"}
    Faults = {"exec"}
    MaxEvents = 5
SPECIFICATION Spec
CHECK_DEADLOCK FALSE
PROPERTY PushTakesEffect
