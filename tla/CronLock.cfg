SPECIFICATION Spec
CONSTANTS
    Procs = {p1, p2, p3}
    NoProc = NoProc
    MaxLive = 3
    Jobs = {j1}
    NoJob = NoJob
    MaxDue = 0
    MaxEvents = 0
INVARIANTS MutualExclusion
CHECK_DEADLOCK FALSE
