SPECIFICATION FairSpec
CONSTANTS
    Requests = {q1}
    MaxArrivals = 2
    MaxFaults = 1
    MaxCredit = 1
    Mortal = {"api"}
PROPERTIES
    Heals
    StopIsHonoured
    UnfundedStops
CHECK_DEADLOCK FALSE
