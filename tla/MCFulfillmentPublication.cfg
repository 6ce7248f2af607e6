SPECIFICATION FairSpec
CONSTANTS
  timer = timer
  request = request
  storefront = storefront
  NoOwner = NoOwner
  Callers <- MCCallers
  Timers = {timer}
  Workers = {storefront}
  WorkerOf <- SharedWorker
  RejectionBound = 2
  MaxLanded = 3
  MaxFaults = 2
INVARIANTS
  TypeOK
  CompletedMeansBound
PROPERTIES
  OutcomeFinal
  SubmissionResolved
CHECK_DEADLOCK FALSE
