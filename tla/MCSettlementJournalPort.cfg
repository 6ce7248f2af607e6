SPECIFICATION Spec
CONSTANTS
  s = s
  p = p
  ws = ws
  wp = wp
  NoOwner = NoOwner
  Callers <- PayerCallers
  Workers = {ws, wp}
  WorkerOf <- PayerWorkers
  Duties <- PortDuties
  Adopts = FALSE
  Reports <- PortReports
  Decisions <- PortDecisions
  Halts = TRUE
  Carries = FALSE
  Monitors = TRUE
  Idempotent = TRUE
CHECK_DEADLOCK FALSE
INVARIANTS
  ReclaimAlone
  JournalTruthful
