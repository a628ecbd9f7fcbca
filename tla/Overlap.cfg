SPECIFICATION Spec
CONSTANTS
  std = std dlq = dlq fifo = fifo
  g1 = g1 d1 = d1 d2 = d2 a1 = a1 r1 = r1 r2 = r2
  NoQueue = NoQueue NoGroup = NoGroup NoDedup = NoDedup
  NoDelay = NoDelay NoAttempt = NoAttempt Gone = Gone
  Queues = {fifo, dlq}
  FifoQueues = {fifo, dlq}
  HomeQueues = {fifo, dlq}
  GroupScoped = {}
  ContentBased = {}
  RedriveTarget <- ToDlq
  MaxReceiveCount <- ReceiveOnce
  Retention <- LongRetention
  DelaySeconds <- NoQueueDelay
  Groups = {g1}
  DedupIds = {d1, d2}
  AttemptIds = {a1}
  Requests = {r1, r2}
  SendBatches <- PairSend
  ReceiveInputs <- BothReceives
  ChangeTimeouts = {1}
  ClientQueues = {fifo}
  PurgeableQueues = {}
  DeletableQueues = {}
  DedupWindow = 1
  MaxVisibility = 2
  PurgeCooldown = 1
  WakeFrequency = 1
  Second = 1
  MaxClock = 2
  MaxRows = 2
  MaxReceipts = 2
  MaxBatch = 1
  MaxSplits = 1
INVARIANTS StatementsTypeOK FifoNoOvertake
PROPERTIES LossAccounted
SYMMETRY RequestSymmetry
