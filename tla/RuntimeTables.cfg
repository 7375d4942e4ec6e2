SPECIFICATION TablesSpec
CONSTANTS
  j1 = j1  j2 = j2  j3 = j3  t1 = t1  t2 = t2  k1 = k1  k2 = k2  w1 = w1  w2 = w2
  JobIds = {j1, j2}
  Tenants = {t1}
  Keys = {k1, k2}
  Payloads = {"p1"}
  Handled <- WorkflowHandled
  Pools = {"workflow", "browser"}
  Priorities = {0}
  AttemptLimits = {2}
  Workers = {w1, w2}
  Names = {w1, w2}
  NameOf <- OwnName
  PoolOf <- TwoPools
  Hosts = {"h"}
  HostOf <- OneProcess
  Capacity <- OneSlot
  GlobalLimit = 2
  TenantLimit = 2
  RateLimit = 2
  RateWindow = 1
  LeaseTicks = 1
  ClockLag = 0
  NoName = NoName
  NoJob = NoJob
  Relays = {"a", "b"}
  MaxEvents = 2
  RelayLease = 2
  RelayLag = 1
  MaxDeaths = 1
  MaxLate = 1
PROPERTIES
  EveryJobSettles
  ImplementsLedger
  ImplementsDelivery
  EveryEventIsDelivered
CHECK_DEADLOCK FALSE
