SPECIFICATION FairSpec
CONSTANTS
  Sessions = {s1}
  Tokens = {a}
  Of <- OneSession
  Polls = {w1}
  Jobs = {j1}
  Wipers = {e1}
  Nobody = nobody
  MaxCrashes = 1
  MaxFaults = 1
  s1 = s1
  a = a
  b = b
CHECK_DEADLOCK FALSE
INVARIANTS TypeOK EveryItemHasHandle NoSecondExchange WipedGetsNoBank
PROPERTIES TokenSettles BillingSettles
