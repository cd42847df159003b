SPECIFICATION FairSpec
CONSTANTS
    Machines = {a, b}
    Host = 3
    Sizes = {1, 2}
    MaxRequests = 3
    MaxFaults = 1
    Failures = {"incus", "api", "credit", "reboot"}

    
PROPERTIES
    RebootForgetsNobody
    CapacityReturns
