SPECIFICATION Spec
CONSTANTS
    Requests = {q1, q2}
    MaxArrivals = 2
    MaxFaults = 1
    MaxCredit = 1
    Mortal = {"api", "worker", "host"}
SYMMETRY Symmetry
INVARIANTS
    TransitionsHaveOwners
CHECK_DEADLOCK FALSE
