SPECIFICATION Spec
CONSTANTS
    Users = {a, b}
    MaxSlot = 2
    Sessions = {h, i}
    MaxRequests = 4
    MaxFaults = 3
    Failures = {"api", "verb", "stop", "sync"}
SYMMETRY Symmetry
INVARIANTS
    UsableMachineIsTheirs
    
PROPERTIES
    ErasedAfterMachine
CHECK_DEADLOCK FALSE
