SPECIFICATION FairSpec
CONSTANTS
    p1 = p1
    p2 = p2
    Procs = {p1, p2}
    Callers = {1, 2, 3, 4}
    ProcOf <- FourCalls
INVARIANTS LockSafe
PROPERTIES ImplementsMutex EveryCallerServed
CHECK_DEADLOCK FALSE
