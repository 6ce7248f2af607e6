SPECIFICATION SafeSpec
CONSTANTS
  Settlers = {buyer, reconciler}
  Reconciler = reconciler
  Refunders = {operator}
  Nobody = nobody
  Quota = 2
  Refunds = 1
  Faults = 1
INVARIANTS CreditTypeOK QuotaOnce GrantBacked
PROPERTIES RefundCloses
CHECK_DEADLOCK FALSE
