SPECIFICATION FairSpec
CONSTANTS
  Purgers = {p1}
  Doors = {d1}
  Sweepers = {s1}
  Pushers = {c1}
  Items = {i1}
  MaxCrashes = 1
  MaxFailures = 0
  MaxOutages = 0
  p1 = p1
  p2 = p2
  d1 = d1
  s1 = s1
  c1 = c1
  i1 = i1
  i2 = i2
CHECK_DEADLOCK FALSE
INVARIANTS TypeOK NoneWritesThroughWipe
PROPERTIES DueIsSettled
