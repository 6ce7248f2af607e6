SPECIFICATION ServicingSpec
CONSTANTS
  t = t
  q = q
  m = m
  w = w
  wm = wm
  NoOwner = NoOwner
  Callers <- PokedCallers
  Workers = {w, wm}
  WorkerOf <- PokedWorkers
  Duties <- PokedDuties
  Timers = {t}
  Pokes = {q}
  Starts = TRUE
  Abandons = FALSE
  MaxStops = 0
  Adopts = TRUE
  Reports <- AlkahestReports
  Decisions <- AlkahestDecisions
  Halts = FALSE
  Carries = TRUE
  Monitors = FALSE
  Idempotent = FALSE
CHECK_DEADLOCK FALSE
INVARIANT
  CollectedAfterCheck
PROPERTIES
  EndedAtAnEnd
  CollectionFinal
