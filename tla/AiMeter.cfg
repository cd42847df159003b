SPECIFICATION FairSpec
CONSTANTS
    Sessions = {s}
    Models = {m, n}
    NoModel = NoModel
    Seed = {m}
    Switchers = {"claude"}
    CarryOver = FALSE
    MaxUse = 3
    MaxRequests = 4
    MaxFaults = 1
INVARIANTS
    NeverOvercharged

    
