SPECIFICATION Spec
CONSTANTS
    Turns = {t1, t2}
    NoTurn = NoTurn
    Streams = {s1}
    Answers = {a1}
    MaxRing = 2
    MaxBuses = 2
    MaxWork = 1
    MaxConnects = 2
    MaxMishaps = 1
PROPERTY EvictsOnlyIdle
CHECK_DEADLOCK FALSE
