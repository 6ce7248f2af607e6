SPECIFICATION SafeSpec
CONSTANTS
  MaxRetries <- RetryCreate
  MaxStops = 0
  Cycles = {c1, c2}
  WorkerOf <- OwnWorkers
  NoWorker = NoWorker
  Releasers = {r1, r2}
  Forces = FALSE
INVARIANTS LeaseTypeOK OneExecution NothingLeftBehind CompensationMarked
PROPERTIES OutcomeKept
SYMMETRY Overlaps
CHECK_DEADLOCK FALSE
