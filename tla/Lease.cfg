SPECIFICATION Spec
CONSTANTS
  std = std dlq = dlq fifo = fifo
  g1 = g1 d1 = d1 d2 = d2 a1 = a1 r1 = r1 r2 = r2
  NoQueue = NoQueue NoGroup = NoGroup NoDedup = NoDedup
  NoDelay = NoDelay NoAttempt = NoAttempt Gone = Gone
  Queues = {std}
  FifoQueues = {}
  HomeQueues = {std}
  GroupScoped = {}
  ContentBased = {}
  RedriveTarget <- NoRedrive
  MaxReceiveCount <- ReceiveOnce
  Retention <- ShortRetention
  DelaySeconds <- NoQueueDelay
  Groups = {}
  DedupIds = {d1}
  AttemptIds = {}
  Requests = {r1, r2}
  SendBatches <- DelayedSends
  ReceiveInputs <- OneReceive
  ChangeTimeouts = {2}
  ClientQueues = {std}
  PurgeableQueues = {std}
  DeletableQueues = {}
  DedupWindow = 1
  MaxVisibility = 2
  PurgeCooldown = 2
  WakeFrequency = 1
  Second = 2
  MaxClock = 4
  MaxRows = 1
  MaxReceipts = 2
  MaxBatch = 1
  MaxSplits = 0
INVARIANTS LeaseExclusive
PROPERTIES NoSilentLoss RefinesLeaseQueue PurgedNotDelivered
SYMMETRY RequestSymmetry
