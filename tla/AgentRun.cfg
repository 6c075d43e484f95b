SPECIFICATION Spec
CONSTANTS
  read = read
  write = write
  bash = bash
  none = none
  Tools = {read, write, bash}
  Concurrent = {read, write}
  ReadOnly = {read}
  PathOf <- MCPathOf
  NoPath = none
  Batches <- MCBatches
  CONCURRENT_CAP = 2
  MaxTurns = 2
  MaxStrikes = 2
  KeepRecent = 0
  MaxRuns = 2
  MaxUpsets = 2
INVARIANTS RequestWellFormed RequestTruthful ReceiptsTellTheTruth NoPathRace JournalSafe
