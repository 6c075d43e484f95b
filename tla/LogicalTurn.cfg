SPECIFICATION Spec
CONSTANTS
    w1 = w1
    w2 = w2
    m1 = m1
    Workers = {w1, w2}
    Creator = w1
    Migrators = {}
    Process <- TwoProcesses
    Nobody = Nobody
    NoLimit = NoLimit
    Uncounted = 0
    MaxUpsets = 2
    LeaseTicks = 1
    Limit = 2
    NewLimit = 3
    Reasons = {"completed", "checkin", "max_turns", "transient"}
    Prints = {p}
    UseBoundary = TRUE
    Events = {"crash", "fault"}
PROPERTIES TerminalSticky CallsNeverRewind SafeStart
CHECK_DEADLOCK FALSE
