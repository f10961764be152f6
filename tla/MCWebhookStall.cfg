SPECIFICATION LateSpec
CONSTANTS
  Hooks = {h1}
  NoHook = nohook
  Rows = {1, 2}
  Drainers = {d1, d2}
  Pingers = {}
  MaxAttempts = 2
  DisableAfter = 2
  Backoff <- MCBackoff2
  Batch = 2
  Lease = 1
  Budget = 1
  Deadline = 1
  StepTime = 0
  MaxOverdue = 0
  MaxCrashes = 0
  h1 = h1
  d1 = d1
  d2 = d2
  g1 = g1
  nohook = nohook
SYMMETRY Symmetry
INVARIANT OneLatePost
PROPERTY KeepsLadder
