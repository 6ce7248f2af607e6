SPECIFICATION FairSpec
CONSTANTS
  r1 = r1
  r2 = r2
  res1 = res1
  res2 = res2
  host = host
  gpu = gpu
  ram = ram
  NoHost = NoHost
  NoDeal = NoDeal
  Ids = {r1, r2}
  Resources = {res1, res2}
  Dims = {gpu, ram}
  Claims <- DealClaims
  Shapes <- Shrinking
  Deals = {}
  HostOf <- Hosts
  ModeOf <- Modes
  Forces = TRUE
  Ends = {2}
  MaxUnits = 2
  MaxNow = 2
  Forever = 4
INVARIANTS TypeOK GivenBackIdle
PROPERTIES OnlyLateCommitOversells HostSharedOnlyAhead LeaseKept HoldsLapse
CHECK_DEADLOCK FALSE
