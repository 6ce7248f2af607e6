SPECIFICATION Spec
CONSTANTS
  MaxRetries <- NoRetry
  MaxStops = 1
  Cycles = {c1}
  WorkerOf <- OwnWorkers
  NoWorker = NoWorker
  Releasers = {r1}
  Forces = TRUE
PROPERTIES KeepsReleasePromise ReleaseSettles CallbackDelivered
CHECK_DEADLOCK FALSE
