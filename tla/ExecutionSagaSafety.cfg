SPECIFICATION CallersSpec
CONSTANTS
  k1 = k1  k2 = k2  q1 = q1  q2 = q2  q3 = q3  p1 = p1  p2 = p2  r1 = r1
  Keys = {k1, k2}
  Resources = {r1}
  ResourceOf <- OneProduct
  Owners = {q1, q3}
  PlanOf <- BothOfOne
  Processes = {p1, p2}
  Site = Site
  Mock = TRUE
  LeaseTicks = 2
  ClockLag = 1
  MaxPermits = 3
  MaxResets = 1
  NoOwner = NoOwner
  NoEffect = NoEffect
  NoPlan = NoPlan
  NoRequest = NoRequest
  NoPermit = NoPermit
ACTION_CONSTRAINT CallersApart
SYMMETRY CallersSymmetry
INVARIANTS
  VersionsAreOneHistory
  TokensRiseWithVersions
  WrittenTogether
  FenceImpliesVersion
PROPERTIES
  ConfirmedIsFinal
  ImplementsLedger
  UsesRuntimeAsSpecified
CHECK_DEADLOCK FALSE
