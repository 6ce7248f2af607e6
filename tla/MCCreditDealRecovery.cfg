SPECIFICATION Spec
CONSTANTS
  Settlers = {reconciler}
  Reconciler = reconciler
  Refunders = {operator}
  Nobody = nobody
  Quota = 1
  Refunds = 1
  Faults = 2
PROPERTIES DealSettles RefundEnds
CHECK_DEADLOCK FALSE
