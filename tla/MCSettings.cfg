CONSTANTS
    Loop = {"heartbeat", "metrics"}
    Payload <- MCPayload
    Yaml <- MCYaml
    CollectYaml = 5
    MaxInterval = 8
    MaxPushes = 3
    MaxAlerts = 0
    MaxBreaks = 1
SPECIFICATION LoopsSpec
CHECK_DEADLOCK FALSE
PROPERTIES NextPushRepairs
