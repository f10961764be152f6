SPECIFICATION Spec
CONSTANTS
  s1 = s1
  s2 = s2
  none = none
  Sweeps = {s1, s2}
  NoSweep = none
  DayLen = 3
  SendHour = 1
  MonthDays = 5
  CatchUp = 1
  Slack = 1
  Zones <- MCZones
  Start = 12
  End = 19
  MaxRun = 1
  MaxTroubles = 1
  Households <- MCHouseholds
SYMMETRY Symmetry
CHECK_DEADLOCK FALSE
INVARIANTS TypeOK LeftStaysDue
PROPERTIES OneVerdictADay OneOfEachADay OneCardTextAMonth
