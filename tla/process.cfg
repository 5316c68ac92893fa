SPECIFICATION Spec
CONSTANTS
    MaxRequests = 2
    Concurrency = 2
    MaxStarts = 2
    Runs = {c1}
    Jobs = {"cron-error-count", "cron-time-check", "worker-maintenance"}
    Settings <- SettingsMC
    None = None
INVARIANTS TypeOK Drained FailuresLeaveTrace
PROPERTIES ShutdownEnds
CHECK_DEADLOCK FALSE
