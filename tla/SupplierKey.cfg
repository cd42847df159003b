SPECIFICATION FairSpec
CONSTANTS
    Keys = {1, 2, 3}
    Grants <- GrantsUpDown
    MinCap = 1
    MaxCap = 3
    FullEvery = 2
    MaxRequests = 3
    MaxSpend = 4
    MaxFaults = 2
    Failures = {"mint", "get", "update", "delete", "destroy", "worker", "api"}
INVARIANTS
    NeverOvercharged
    NoKeyLeftBehind
PROPERTIES
    KeyFollowsBalance
    SpendIsCharged
