CONSTANTS
    \* Outbox
    Id = {i1, i2, i3}
    Entry = {e1, e2, e3, e4}
    MaxBatches = 2
    MaxBytes = 3
    MaxAge = 1
    MaxTime = 2
    Faults = {"read", "write", "rename", "corrupt"}
    \* NodeFiles
    Domain = {d1, d2}
    Manual = {d2}
    CaId = {k1}
    Version = {v1, v2}
    Tag = {t1, t2}
    Uuid = {u1, u2, u3}
    Unset = Unset
    MaxFaults = 1
    \* LogWindow
    LimitBytes = 10
    LineBytes = 2
    OldLines = 7
    MaxLines = 8
    MaxMeddling = 2
    MaxLogFaults = 1
    NoInode = NoInode
    \* LogBuffers
    RingBytes = 4
    MemTailLines = 2
    MemTailBytes = 5
    MemTailLine = 3
    MaxOutput = 9
    MaxPiece = 5
    NL = NL
    Mark = Mark
    \* SelfUpgrade
    Releases = 3
    Mirrors = 2
    Systemd = TRUE
    MaxInstalls = 2
    MaxEnds = 1
    Nothing = Nothing
    Broken = Broken
    \* GeoUpdate
    GeoFile = {"geoip", "geosite"}
    Wanted = {"geoip", "geosite"}
    Content = {"c1", "c2"}
    Bundle = {"c2"}
    Works <- MCWorks
    Missing = "missing"
    MaxGeoFaults = 1
    MaxSyncs = 1
SPECIFICATION StoresSpec
SYMMETRY Symmetry
CHECK_DEADLOCK FALSE
INVARIANTS StoresTypeOK SeqOrders AckIsFinal Retained MemoryIsDisk
INVARIANTS CertsKept  NewestOutput  FailureRestores InstalledWorks
PROPERTIES LimitsTakeOldest AccountsKept ProgramKept
