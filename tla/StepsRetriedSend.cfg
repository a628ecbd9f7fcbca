SPECIFICATION StepsSpec
CONSTANTS
  Procs = {p1}
  DedupIds = {d1}
  NoDedup = NoDedup
  Timeouts = {1, 2}
  DedupWindow = 2
  MayFail = TRUE
  MaxClock = 2
  MaxRows = 2
  MaxReceipts = 0
  p1 = p1 p2 = p2 d1 = d1
INVARIANTS NoDuplicateInWindow
