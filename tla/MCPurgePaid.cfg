SPECIFICATION PaidSpec
CONSTANTS
  Purgers = {p1, p2}
  Doors = {d1}
  Sweepers = {}
  Pushers = {}
  Items = {i1, i2}
  MaxCrashes = 1
  MaxFailures = 1
  MaxOutages = 1
  p1 = p1
  p2 = p2
  d1 = d1
  s1 = s1
  c1 = c1
  i1 = i1
  i2 = i2
SYMMETRY Symmetry
CHECK_DEADLOCK FALSE
INVARIANTS CleanHandBack LeftBillingIsMarked
PROPERTY PaidMidPurgeKept
