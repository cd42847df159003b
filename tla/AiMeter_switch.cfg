SPECIFICATION Spec
CONSTANTS
    Sessions = {s}
    Models = {m, n}
    NoModel = NoModel
    Seed = {m, n}
    Switchers = {"claude", "codex"}
    CarryOver = FALSE
    MaxUse = 3
    MaxRequests = 4
    MaxFaults = 1
INVARIANT SessionsNeverOvercharged
