SPECIFICATION CallSpec
CONSTANTS
  k1 = k1  k2 = k2  q1 = q1  q2 = q2  q3 = q3  p1 = p1  p2 = p2  r1 = r1
  Keys = {k1, k2}
  Resources = {r1}
  ResourceOf <- OneProduct
  Owners = {q1, q2}
  PlanOf <- OnePlanEach
  Processes = {p1, p2}
  Site = Site
  Mock = FALSE
  LeaseTicks = 1
  ClockLag = 0
  MaxPermits = 3
  MaxResets = 0
  NoOwner = NoOwner
  NoEffect = NoEffect
  NoPlan = NoPlan
  NoRequest = NoRequest
  NoPermit = NoPermit
SYMMETRY Symmetry
INVARIANTS
  CallTypeOK
  ConfirmedWasWritten
  NoWriteIsForgotten
  AcknowledgedIsConfirmed
  OneFencedWriter
CHECK_DEADLOCK FALSE
