\* Ports, services, remote access, tickets, names, sessions, watchdog, backup.
SPECIFICATION Spec
CONSTANTS
    PortMachines = {w1, w2}
    PortSlots = {s1}
    UserPorts = {p1}
    ServicePorts = {ssh}
    Externals = {e1, e2}
    PortRequests = {r1}
    MAX_PORTS = 1
    MaxPortFaults = 1
    Kinds = {"hermes", "openclaw", "opencode", "openwebui"}
    Desks = {d1}
    MaxAsks = 3
    MaxPowerChanges = 1
    MaxCallFaults = 1
    PublicKeys = {k1, k2}
    Clients = {"codex", "claude"}
    Doors = {o1, o2}
    MaxDoorCalls = 3
    MaxUpheavals = 1
    MaxDoorFaults = 1
    Tickets = {t1}
    Callers = {c1, c2}
    MAX_OPEN_TICKETS = 1
    MaxMessages = 3
    MaxTicketCalls = 3
    MaxTicketFaults = 1
    Owners = {u1, u2}
    Addresses = {a1}
    Wildcards = FALSE
    ISSUE_BUDGET = 1
    Week = 2
    MaxTime = 3
    MaxChanges = 3
    MaxVhostFaults = 1
    Users = {v1, v2}
    Handlers = {h1, h2}
    MaxAccountCalls = 5
    MaxAccountFaults = 1
    STALL = 1
    INTERVAL = 1
    MaxWatchFaults = 2
    Apart = TRUE
INVARIANT OneOwnerPerPort
INVARIANT SwitchesTellTheTruth
INVARIANT BudgetKept
INVARIANT RevokedStayOut

PROPERTY RulesFollowRows
PROPERTY SettlesAsAsked
PROPERTY RepliesAreTold
PROPERTY ServedInTheEnd
PROPERTY DeadWorkerIsHeard
PROPERTY BackupGoesOn
CHECK_DEADLOCK FALSE
