SPECIFICATION Spec
CONSTANTS
    s1 = s1
    s2 = s2
    s3 = s3
    j1 = j1
    j2 = j2
    j3 = j3
    j4 = j4
    j5 = j5
    Sessions = {s1, s2, s3}
    Jobs = {j1, j2, j3, j4, j5}
    SessionOf <- FiveJobs
    NoJob = NoJob
    MaxActiveSessions = 2
    MaxQueued = 3
    MaxQueuedPerSession = 2
SYMMETRY JobSymmetry
INVARIANTS SingleWriter WorkConserving ShutdownJoins
PROPERTIES FifoPerSession
CHECK_DEADLOCK FALSE
