SPECIFICATION TurnSpec
CONSTANTS
  Jobs = {j1}
  Workers = {w1, w2}
  Host <- OwnHost
  Files = {1, 2}
  Pdfs <- FirstPdf
  MaxRows = 1
  MaxFaults = 1
  MaxRestores = 0
  j1 = j1
  j2 = j2
  w1 = w1
  w2 = w2
SYMMETRY Symmetry
CHECK_DEADLOCK FALSE
INVARIANTS TypeOK LandsOnce EndedIsComplete
PROPERTIES OutcomeStands NoStaleTurn
