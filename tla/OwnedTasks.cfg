SPECIFICATION TaskSpec
CONSTANTS
  MaxTasks = 2
  MaxSessionTurns = 2
  MaxFaults = 2
INVARIANTS OwnerHonest ControllersExact StopIsCancel
PROPERTIES TerminalStays OwnerReturns
