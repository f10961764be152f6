SPECIFICATION Spec
CONSTANTS
  Purgers = {p1}
  Doors = {d1}
  Sweepers = {}
  Pushers = {}
  Items = {i1}
  MaxCrashes = 1
  MaxFailures = 1
  MaxOutages = 1
  p1 = p1
  p2 = p2
  d1 = d1
  s1 = s1
  c1 = c1
  i1 = i1
  i2 = i2
CHECK_DEADLOCK FALSE
INVARIANT LeftBillingIsQueued
