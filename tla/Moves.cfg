SPECIFICATION MFairSpec
CONSTANTS
  src = src dlq = dlq aux = aux NoQueue = NoQueue p1 = p1
  Queues = {src, dlq, aux}
  Starts <- TaskInputs
  Arrivals <- DlqArrivals
  Procs = {p1}
  MaxRows = 2
  MaxTasks = 2
  MaxReceives = 1
  MaxFailures = 1
INVARIANTS MoveTypeOK ReceiptInPlace MovedNotAhead AckedNotMoved OneTaskPerSource
PROPERTIES CancelIsFinal MovesWhereAsked TaskEnds
