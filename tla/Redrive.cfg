SPECIFICATION FairSpec
CONSTANTS
  std = std dlq = dlq fifo = fifo
  g1 = g1 d1 = d1 d2 = d2 a1 = a1 r1 = r1 r2 = r2
  NoQueue = NoQueue NoGroup = NoGroup NoDedup = NoDedup
  NoDelay = NoDelay NoAttempt = NoAttempt Gone = Gone
  Queues = {std, dlq}
  FifoQueues = {}
  HomeQueues = {std, dlq}
  GroupScoped = {}
  ContentBased = {}
  RedriveTarget <- ToDlq
  MaxReceiveCount <- ReceiveOnce
  Retention <- LongRetention
  DelaySeconds <- NoQueueDelay
  Groups = {}
  DedupIds = {d1}
  AttemptIds = {}
  Requests = {r1, r2}
  SendBatches <- OneSend
  ReceiveInputs <- PollReceives
  ChangeTimeouts = {}
  ClientQueues = {std, dlq}
  PurgeableQueues = {}
  DeletableQueues = {dlq}
  DedupWindow = 1
  MaxVisibility = 2
  PurgeCooldown = 1
  WakeFrequency = 1
  Second = 1
  MaxClock = 3
  MaxRows = 1
  MaxReceipts = 2
  MaxBatch = 1
  MaxSplits = 0
INVARIANTS LeaseGrantsCapped
PROPERTIES RefinesLeaseQueue ReceiveReturnsOrTargetGone
