SPECIFICATION SafeSpec
CONSTANTS
  Settlers = {buyer, reconciler}
  Reconciler = reconciler
  Refunders = {operator}
  Nobody = nobody
  Quota = 2
  Refunds = 0
  Faults = 0
INVARIANT CredentialsWork
CHECK_DEADLOCK FALSE
