SPECIFICATION FairSpec
CONSTANTS
    Users = {a, b}
    MaxSlot = 2
    Sessions = {h}
    MaxRequests = 3
    MaxFaults = 1
    Failures = {"api", "worker", "timeout", "verb", "stop", "sync"}
PROPERTIES
    OperationsEnd
    DeletionsEnd
CHECK_DEADLOCK FALSE
