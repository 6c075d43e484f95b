SPECIFICATION FairSpec
CONSTANTS
    Turns = {t1, t2}
    NoTurn = NoTurn
    Streams = {s1}
    Answers = {a1}
    MaxRing = 2
    MaxBuses = 2
    MaxWork = 1
    MaxConnects = 2
    MaxMishaps = 1
INVARIANTS GatewayConsistent NoGapNoRepeat AllowedByUser
PROPERTIES Quiesces
CHECK_DEADLOCK FALSE
