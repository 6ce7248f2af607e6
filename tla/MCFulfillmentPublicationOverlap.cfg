SPECIFICATION Spec
CONSTANTS
  timer = timer
  request = request
  storefront = storefront
  NoOwner = NoOwner
  Callers <- MCCallers
  Timers = {timer}
  Workers = {storefront}
  WorkerOf <- SharedWorker
  RejectionBound = 2
  MaxLanded = 3
  MaxFaults = 0
INVARIANT
  OneSubmissionPerIntent
CHECK_DEADLOCK FALSE
