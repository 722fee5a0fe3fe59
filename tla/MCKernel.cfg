CONSTANTS
    Config = {b}
    Valid = {b}
    Surviving = {b}
    Bootstrap = b
    None = None
    MaxStartFailures = 2
    CrashWindowCount = 2
    Commands = {"restart"}
    Faults = {"exec", "write", "crash", "net"}
    MaxEvents = 2
    Release = {1, 2}
    Working = {1}
    Broken = Broken
SPECIFICATION FairKernelSpec
CHECK_DEADLOCK FALSE
INVARIANTS KernelTypeOK KernelAgrees NoRestartMidUpgrade
PROPERTIES SuccessRuns UpgradeEnds
