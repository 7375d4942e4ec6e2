SPECIFICATION SteadySpec
CONSTANTS
  i1 = i1  i2 = i2  c1 = c1  c2 = c2
  Items = {i1, i2}
  Calls = {c1, c2}
  MaxAttempts = 3
  NoItem = NoItem
SYMMETRY Symmetry
INVARIANT
  NotLeftRunning
