SPECIFICATION Spec
CONSTANTS
  std = std dlq = dlq fifo = fifo
  g1 = g1 d1 = d1 d2 = d2 a1 = a1 r1 = r1 r2 = r2
  NoQueue = NoQueue NoGroup = NoGroup NoDedup = NoDedup
  NoDelay = NoDelay NoAttempt = NoAttempt Gone = Gone
  Queues = {fifo}
  FifoQueues = {fifo}
  HomeQueues = {fifo}
  GroupScoped = {fifo}
  ContentBased = {fifo}
  RedriveTarget <- NoRedrive
  MaxReceiveCount <- ReceiveOnce
  Retention <- LongRetention
  DelaySeconds <- NoQueueDelay
  Groups = {g1}
  DedupIds = {d1, d2}
  AttemptIds = {a1}
  Requests = {r1, r2}
  SendBatches <- ContentSend
  ReceiveInputs <- FifoReceives
  ChangeTimeouts = {2}
  ClientQueues = {fifo}
  PurgeableQueues = {}
  DeletableQueues = {}
  DedupWindow = 1
  MaxVisibility = 2
  PurgeCooldown = 1
  WakeFrequency = 1
  Second = 1
  MaxClock = 3
  MaxRows = 2
  MaxReceipts = 2
  MaxBatch = 1
  MaxSplits = 0
INVARIANTS FifoNoOvertake VisibilityBounded LeaseExclusive DedupWindowHolds
PROPERTIES GroupHeld
SYMMETRY RequestSymmetry
