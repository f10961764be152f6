SPECIFICATION FairSpec
CONSTANTS
  Hooks = {h1}
  NoHook = nohook
  Rows = {1}
  Drainers = {d1, d2}
  Pingers = {g1}
  MaxAttempts = 3
  DisableAfter = 2
  Backoff <- MCBackoff
  Batch = 2
  Lease = 4
  Budget = 2
  Deadline = 1
  StepTime = 0
  MaxOverdue = 0
  MaxCrashes = 2
  h1 = h1
  d1 = d1
  d2 = d2
  g1 = g1
  nohook = nohook
INVARIANTS TypeOK OneSenderPerRow
PROPERTY NoRowStuck
