SPECIFICATION FairSpec
CONSTANTS
  i1 = i1
  i2 = i2
  f1 = f1
  d1 = d1
  p1 = p1
  p2 = p2
  nobody = nobody
  Items = {i1, i2}
  Fulls = {f1}
  Doors = {d1}
  Pulls = {p1, p2}
  Nobody = nobody
  Capacity = 1
  MaxTries = 2
  MaxFaults = 1
INVARIANTS TypeOK TurnsAccounted NudgeStands
PROPERTIES FirstPullHappens
