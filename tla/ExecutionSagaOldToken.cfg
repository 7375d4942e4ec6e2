SPECIFICATION Spec
CONSTANTS
  k1 = k1  k2 = k2  o1 = o1  o2 = o2  r1 = r1
  Keys = {k1, k2}
  Resources = {r1}
  ResourceOf <- OneResource
  Owners = {o1, o2}
  LeaseTicks = 2
  ClockLag = 1
  MaxPermits = 2
  MaxResets = 0
  NoOwner = NoOwner
  NoEffect = NoEffect
PROPERTY
  OldTokenNeverOverrides
CHECK_DEADLOCK FALSE
