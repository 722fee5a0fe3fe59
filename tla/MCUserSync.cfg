CONSTANTS
    Tag = {t1, t2}
    Email = {a}
    Cred = {p, q}
    None = None
    Commands = {"sync", "push", "restart"}
    Faults = {"death", "grpc", "write", "read", "rollback", "crash"}
    MaxEvents = 4
SPECIFICATION Spec
SYMMETRY Symmetry
CHECK_DEADLOCK FALSE
INVARIANTS CacheIsTrue SyncIsDone
