SPECIFICATION Spec
CONSTANTS
    HourLen = 3
    Lag = 1
    MaxTime = 7
    Sizes = {1, 2}
    MaxRequests = 4
    MaxFaults = 1
    Failures = {"incus", "resize", "settle", "api", "worker", "credit", "reboot"}
    Overlap = TRUE
INVARIANTS
    OrderlyRunsAreBilled
    PromptHoursChargedOnce
CHECK_DEADLOCK FALSE
