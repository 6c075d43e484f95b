SPECIFICATION FairSpec
CONSTANTS
    Procs = {p1, p2, p3}
    NoProc = NoProc
    MaxLive = 2
    Jobs = {j1}
    NoJob = NoJob
    MaxDue = 1
    MaxEvents = 1
INVARIANTS TicksSafe OncePerDue
PROPERTIES LocksStay EveryDueJobRuns
CHECK_DEADLOCK FALSE
