SPECIFICATION Spec
CONSTANTS
  j1 = j1  j2 = j2  j3 = j3  t1 = t1  t2 = t2  k1 = k1  k2 = k2  w1 = w1  w2 = w2
  JobIds = {j1, j2}
  Tenants = {t1, t2}
  Keys = {k1, k2}
  Payloads = {"p1"}
  Handled <- AllHandled
  Pools = {"workflow"}
  Priorities = {0}
  AttemptLimits = {2}
  Workers = {w1, w2}
  Names = {"n"}
  NameOf <- SharedName
  PoolOf <- SharedPool
  Hosts = {"h"}
  HostOf <- OneProcess
  Capacity <- OneSlot
  GlobalLimit = 2
  TenantLimit = 1
  RateLimit = 1
  RateWindow = 1
  LeaseTicks = 2
  ClockLag = 1
  NoName = NoName
  NoJob = NoJob
SYMMETRY Symmetry
INVARIANTS
  AtMostOneValidGrant
  ResultFromLatestLease
  ActiveBounded
  UniqueLiveKey
PROPERTIES
  DecidedIsFinal
CHECK_DEADLOCK FALSE
