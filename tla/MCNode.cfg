CONSTANTS
    \* AgentLoops
    Loop = {"collect", "heartbeat"}
    Payload <- MCPayload
    Yaml <- MCYaml
    CollectYaml = 5
    MaxInterval = 8
    MaxPushes = 2
    MaxAlerts = 1
    MaxBreaks = 2
    \* GeoUpdate
    GeoFile = {"geoip", "geosite"}
    Wanted = {"geoip", "geosite"}
    Content = {"c1", "c2"}
    Bundle = {"c2"}
    Works <- MCWorks
    Missing = "missing"
    MaxGeoFaults = 1
    MaxSyncs = 1
    \* DaemonControl
    Terminal = {a, b}
    MaxAgents = 3
    MaxXrays = 3
    MaxCommands = 3
    MaxKills = 1
    NoPid = NoPid
SPECIFICATION NodeSpec
CHECK_DEADLOCK FALSE
INVARIANTS NodeTypeOK RunsAtEffective  
PROPERTIES AlertArrives KeepsUpdating StaysServed
