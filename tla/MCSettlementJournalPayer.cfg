SPECIFICATION Spec
CONSTANTS
  s = s
  p = p
  ws = ws
  wp = wp
  NoOwner = NoOwner
  Callers <- PayerCallers
  Workers = {ws, wp}
  WorkerOf <- PayerWorkers
  Duties <- PayerDuties
  Adopts = TRUE
  Reports <- AlkahestReports
  Decisions <- AlkahestDecisions
  Halts = FALSE
  Carries = TRUE
  Monitors = FALSE
  Idempotent = FALSE
CHECK_DEADLOCK FALSE
INVARIANTS
  TypeOK
  ReclaimAlone
  OneInvoker
  DeliveryNotUndercut
PROPERTY
  KeepsSettlementPromise
