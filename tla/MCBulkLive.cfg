SPECIFICATION FairSpec
CONSTANTS
  Jobs = {j1}
  Workers = {w1}
  Host <- OwnHost
  Files = {1, 2}
  Pdfs <- FirstPdf
  MaxRows = 1
  MaxFaults = 1
  MaxRestores = 1
  j1 = j1
  j2 = j2
  w1 = w1
  w2 = w2
CHECK_DEADLOCK FALSE
PROPERTIES EveryJobSettles BytesCleared
