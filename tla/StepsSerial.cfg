SPECIFICATION StepsSpec
CONSTANTS
  Procs = {p1}
  DedupIds = {d1}
  NoDedup = NoDedup
  Timeouts = {1, 2}
  DedupWindow = 2
  MayFail = TRUE
  MaxClock = 4
  MaxRows = 2
  MaxReceipts = 3
  p1 = p1 p2 = p2 d1 = d1
INVARIANTS StepsTypeOK OneActiveReceipt CountCoversReceipts AckedStaysDeleted
