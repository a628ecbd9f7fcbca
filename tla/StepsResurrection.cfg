SPECIFICATION StepsSpec
CONSTANTS
  Procs = {p1, p2}
  DedupIds = {}
  NoDedup = NoDedup
  Timeouts = {1, 2}
  DedupWindow = 2
  MayFail = FALSE
  MaxClock = 3
  MaxRows = 1
  MaxReceipts = 2
  p1 = p1 p2 = p2 d1 = d1
INVARIANTS AckedStaysDeleted
