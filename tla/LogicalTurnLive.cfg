SPECIFICATION FairSpec
CONSTANTS
    w1 = w1
    w2 = w2
    m1 = m1
    Workers = {w1, w2}
    Creator = w1
    Migrators = {m1}
    Process <- OneProcess
    Nobody = Nobody
    NoLimit = NoLimit
    LeaseTicks = 1
    Limit = NoLimit
    NewLimit = 2
    Uncounted = 0
    MaxUpsets = 2
    Reasons = {"completed", "transient", "max_turns"}
    Prints = {p}
    UseBoundary = FALSE
    Events = {"stop", "deadline", "fault", "child"}
PROPERTIES MigrationSurvives EveryCallReturns
CHECK_DEADLOCK FALSE
