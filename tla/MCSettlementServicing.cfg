SPECIFICATION FairServicing
CONSTANTS
  t = t
  q = q
  m = m
  w = w
  wm = wm
  NoOwner = NoOwner
  Callers <- TimerCallers
  Workers = {w, wm}
  WorkerOf <- TimerWorkers
  Duties <- TimerDuties
  Timers = {t}
  Pokes = {}
  Starts = TRUE
  Abandons = FALSE
  MaxStops = 2
  Adopts = TRUE
  Reports <- AlkahestReports
  Decisions <- AlkahestDecisions
  Halts = FALSE
  Carries = TRUE
  Monitors = FALSE
  Idempotent = FALSE
CHECK_DEADLOCK FALSE
INVARIANT
  ServicingTypeOK
PROPERTIES
  StaysServiced
  FailedDeliveryCleaned
