----------------------------- MODULE LeaseProofs -----------------------------
(***************************************************************************)
(* How long a lease lasts, what holds a FIFO group, in which order a group  *)
(* is delivered, what a purge reaches and how often a message is leased, as *)
(* long as sections do not overlap: for every number of requests and every  *)
(* interleaving of the whole sections of MessagePlane.                      *)
(***************************************************************************)
EXTENDS MessagePlaneProofs, FiniteSetTheorems, FunctionTheorems

-----------------------------------------------------------------------------
(* What one step can do.                                                     *)

\* The steps that can write the messages or the receipts table.
TableStep ==
  \/ UNCHANGED <<messages, receipts>>
  \/ maintain(clock)
  \/ \E p \in Requests :
       \/ sendMessageEntry(p) \/ replayReceiveAttempt(p) \/ RedriveRound(p)
       \/ LeaseCandidates(p) \/ deleteByReceiptHandle(p)
       \/ changeVisibilityByReceiptHandle(p)

LEMMA NextTables ==
  ASSUME TypeInv, [SectionNext]_planeVars
  PROVE  /\ TableStep
         /\ clock \in Nat /\ clock' \in Nat /\ clock <= clock'
         /\ \/ clock' = clock
            \/ clock' = clock + 1 /\ UNCHANGED <<messages, receipts>>
<1>1. clock \in Nat
  BY DEF TypeInv, TypeOK
<1>2. CASE UNCHANGED planeVars
  BY <1>1, <1>2 DEF planeVars, TableStep
<1>3. CASE Tick
  BY <1>1, <1>3 DEF Tick, TableStep
<1>4. CASE RefusedRequest
  BY <1>1, <1>4 DEF RefusedRequest, TableStep
<1>5. ASSUME NEW p \in Requests, StartRequest(p)
      PROVE  maintain(clock) /\ clock' = clock
  BY <1>5, QueueAssumption DEF StartRequest, SendMessageBatch, ReceiveMessage, DeleteMessageBatch,
              ChangeMessageVisibilityBatch, Begin
<1>6. ASSUME NEW p \in Requests, Proceed(p) \/ Disconnect(p)
      PROVE  TableStep /\ clock' = clock
  <2>1. CASE ReceiveLoop(p)
    BY <2>1 DEF ReceiveLoop, TableStep
  <2>2. CASE ReceiveNothing(p) \/ PollWake(p) \/ Disconnect(p)
    BY <2>2 DEF ReceiveNothing, PollWake, Disconnect, TableStep
  <2>3. CASE \/ sendMessageEntry(p) \/ replayReceiveAttempt(p) \/ RedriveRound(p)
             \/ LeaseCandidates(p) \/ deleteByReceiptHandle(p)
             \/ changeVisibilityByReceiptHandle(p)
    <3>1. clock' = clock
      BY <2>3 DEF sendMessageEntry, replayReceiveAttempt, RedriveRound, LeaseCandidates,
                  deleteByReceiptHandle, changeVisibilityByReceiptHandle
    <3> QED
      BY <2>3, <3>1 DEF TableStep
  <2> QED
    BY <1>6, <2>1, <2>2, <2>3 DEF Proceed
<1>7. CASE \/ \E q \in PurgeableQueues : PurgeQueue(q)
           \/ \E q \in DeletableQueues : DeleteQueue(q)
  BY <1>1, <1>7 DEF PurgeQueue, DeleteQueue, TableStep
<1> QED
  BY <1>1, <1>2, <1>3, <1>4, <1>5, <1>6, <1>7 DEF SectionNext, TableStep

ReceiveOps == {"replay", "loop", "select", "sleep"}

\* A receive starts with the clock, and then keeps its parameters; it takes a
\* new now when it wakes up, and selects only after a maintenance pass that
\* found its queue.
LEMMA ReceiveStep ==
  ASSUME TypeInv, [SectionNext]_planeVars, NEW s \in Requests, reqs'[s].op \in ReceiveOps
  PROVE  \/ /\ reqs[s].op \in ReceiveOps
            /\ reqs'[s].queue = reqs[s].queue
            /\ reqs'[s].vis = reqs[s].vis
            /\ \/ reqs'[s].now = reqs[s].now
               \/ reqs'[s].op = "loop"
            /\ reqs'[s].op = "select" =>
                 \/ reqs[s].op = "select"
                 \/ maintain(clock) /\ clock' = clock
                      /\ UNCHANGED <<deleted, doomed>> /\ QueueExists(reqs[s].queue)
         \/ /\ reqs'[s].op # "select"
            /\ \E in \in ReceiveInputs : reqs'[s].vis = in.vis
<1> DEFINE Goal ==
         \/ /\ reqs[s].op \in ReceiveOps
            /\ reqs'[s].queue = reqs[s].queue
            /\ reqs'[s].vis = reqs[s].vis
            /\ \/ reqs'[s].now = reqs[s].now
               \/ reqs'[s].op = "loop"
            /\ reqs'[s].op = "select" =>
                 \/ reqs[s].op = "select"
                 \/ maintain(clock) /\ clock' = clock
                      /\ UNCHANGED <<deleted, doomed>> /\ QueueExists(reqs[s].queue)
         \/ /\ reqs'[s].op # "select"
            /\ \E in \in ReceiveInputs : reqs'[s].vis = in.vis
<1>1. TypeOK /\ reqs \in [Requests -> Request]
  BY DEF TypeInv, TypeOK
<1>2. Idle.op \notin ReceiveOps
  BY DEF Idle, ReceiveOps
<1>3. CASE reqs'[s] = reqs[s]
  BY <1>3
<1>4. CASE reqs'[s] = Idle
  BY <1>2, <1>4
<1>5. ASSUME NEW p \in Requests, NEW x, reqs' = [reqs EXCEPT ![p] = x]
      PROVE  reqs'[s] = IF s = p THEN x ELSE reqs[s]
  BY <1>1, <1>5
<1>6. ASSUME NEW p \in Requests, Return(p)
      PROVE  Goal
  BY <1>3, <1>4, <1>5, <1>6 DEF Return
<1>7. ASSUME NEW p \in Requests, NEW q, NEW x, Begin(p, q, x),
             \/ x.op \notin ReceiveOps
             \/ x.op # "select" /\ \E in \in ReceiveInputs : x.vis = in.vis
      PROVE  Goal
  <2>1. reqs'[s] = x \/ reqs'[s] = Idle \/ reqs'[s] = reqs[s]
    BY <1>1, <1>7 DEF Begin
  <2> QED
    BY <1>3, <1>4, <1>7, <2>1
<1>8. ASSUME NEW p \in Requests, StartRequest(p)
      PROVE  Goal
  <2>1. PICK q \in Queues :
        \/ \E entries \in SendBatches : SendMessageBatch(p, q, entries)
        \/ \E in \in ReceiveInputs : ReceiveMessage(p, q, in)
        \/ \E handles \in HandleBatches : DeleteMessageBatch(p, q, handles)
        \/ \E changes \in ChangeBatches : ChangeMessageVisibilityBatch(p, q, changes)
    BY <1>8, QueueAssumption DEF StartRequest
  <2>2. ASSUME NEW in \in ReceiveInputs, ReceiveMessage(p, q, in)
        PROVE  Goal
    <3> DEFINE x == [op |-> IF in.attempt = NoAttempt THEN "loop" ELSE "replay",
                     queue |-> q, now |-> clock, max |-> in.max, vis |-> in.vis,
                     deadline |-> clock + in.wait, wakeAt |-> clock,
                     attempt |-> in.attempt]
    <3>1. x.op # "select" /\ x.vis = in.vis
      OBVIOUS
    <3>2. Begin(p, q, x)
      BY <2>2 DEF ReceiveMessage
    <3> HIDE DEF x, Goal
    <3> QED
      BY <1>7, <3>1, <3>2
  <2>3. ASSUME NEW y, SendMessageBatch(p, q, y) \/ DeleteMessageBatch(p, q, y)
                        \/ ChangeMessageVisibilityBatch(p, q, y)
        PROVE  Goal
    <3>1. PICK x : Begin(p, q, x) /\ x.op \in {"send", "delete", "change"}
      BY <2>3 DEF SendMessageBatch, DeleteMessageBatch, ChangeMessageVisibilityBatch
    <3>2. x.op \notin ReceiveOps
      BY <3>1 DEF ReceiveOps
    <3> HIDE DEF Goal
    <3> QED
      BY <1>7, <3>1, <3>2
  <2> QED
    BY <2>1, <2>2, <2>3
<1>9. ASSUME NEW p \in Requests,
             sendMessageEntry(p) \/ deleteByReceiptHandle(p)
               \/ changeVisibilityByReceiptHandle(p)
      PROVE  Goal
  <2>1. PICK x : /\ \/ x = Idle
                    \/ x = [reqs[p] EXCEPT !.entries = Tail(reqs[p].entries)]
                    \/ x = [reqs[p] EXCEPT !.handles = Tail(reqs[p].handles)]
                    \/ x = [reqs[p] EXCEPT !.changes = Tail(reqs[p].changes)]
                 /\ reqs' = [reqs EXCEPT ![p] = x]
    BY <1>9 DEF sendMessageEntry, deleteByReceiptHandle, changeVisibilityByReceiptHandle,
                NextEntry
  <2>2. reqs[p].op \in {"send", "delete", "change"}
    BY <1>9 DEF sendMessageEntry, deleteByReceiptHandle, changeVisibilityByReceiptHandle
  <2>3. x.op \notin ReceiveOps
    <3>1. reqs[p] \in SendRequest \cup DeleteRequest \cup ChangeRequest
      BY <1>1, <2>2, RequestKinds
    <3> QED
      BY <1>2, <2>1, <2>2, <3>1 DEF SendRequest, DeleteRequest, ChangeRequest, ReceiveOps
  <2> QED
    BY <1>3, <1>5, <2>1, <2>3
<1>10. ASSUME NEW p \in Requests, reqs[p].op \in ReceiveOps, NEW pc \in {"loop", "sleep"},
              NEW now, NEW wakeAt, now = reqs[p].now \/ pc = "loop",
              reqs' = [reqs EXCEPT ![p] = [reqs[p] EXCEPT !.op = pc, !.now = now,
                                                          !.wakeAt = wakeAt]]
       PROVE  Goal
  <2>1. reqs[p] \in ReceiveRequest
    BY <1>1, <1>10, RequestKinds DEF ReceiveOps
  <2> DEFINE x == [reqs[p] EXCEPT !.op = pc, !.now = now, !.wakeAt = wakeAt]
  <2>2. /\ x.op = pc /\ x.queue = reqs[p].queue /\ x.vis = reqs[p].vis /\ x.now = now
    BY <2>1 DEF ReceiveRequest
  <2>3. reqs' = [reqs EXCEPT ![p] = x]
    BY <1>10
  <2> HIDE DEF x
  <2> QED
    BY <1>3, <1>5, <1>10, <2>2, <2>3
<1>11. ASSUME NEW p \in Requests, replayReceiveAttempt(p)
       PROVE  Goal
  <2>1. reqs[p] \in ReceiveRequest /\ reqs[p].op = "replay"
    BY <1>1, <1>11, RequestKinds DEF replayReceiveAttempt
  <2>2. CASE Goto(p, "loop")
    <3>1. reqs' = [reqs EXCEPT ![p] = [reqs[p] EXCEPT !.op = "loop",
                     !.now = reqs[p].now, !.wakeAt = reqs[p].wakeAt]]
      BY <2>1, <2>2 DEF Goto, ReceiveRequest
    <3> HIDE DEF Goal
    <3> QED
      BY <1>10, <2>1, <3>1 DEF ReceiveOps
  <2> QED
    BY <1>6, <1>11, <2>2 DEF replayReceiveAttempt
<1>12. ASSUME NEW p \in Requests, ReceiveLoop(p)
       PROVE  Goal
  <2>1. reqs[p] \in ReceiveRequest /\ reqs[p].op = "loop"
    BY <1>1, <1>12, RequestKinds DEF ReceiveLoop
  <2>2. CASE QueueExists(reqs[p].queue) /\ Goto(p, "select")
    <3> DEFINE x == [reqs[p] EXCEPT !.op = "select"]
    <3>1. x.queue = reqs[p].queue /\ x.vis = reqs[p].vis /\ x.now = reqs[p].now
      BY <2>1 DEF ReceiveRequest
    <3>2. reqs' = [reqs EXCEPT ![p] = x]
      BY <2>2 DEF Goto
    <3>3. maintain(clock) /\ UNCHANGED <<clock, deleted, doomed>>
      BY <1>12 DEF ReceiveLoop
    <3> HIDE DEF x
    <3> QED
      BY <1>3, <1>5, <2>1, <2>2, <3>1, <3>2, <3>3 DEF ReceiveOps
  <2> QED
    BY <1>6, <1>12, <2>2 DEF ReceiveLoop
<1>13. ASSUME NEW p \in Requests, ReceiveNothing(p)
       PROVE  Goal
  <2> DEFINE w == MinOf(clock + WakeFrequency, reqs[p].deadline)
  <2>1. reqs[p] \in ReceiveRequest /\ reqs[p].op = "select"
    BY <1>1, <1>13, RequestKinds DEF ReceiveNothing
  <2>2. CASE ~Return(p)
    <3>1. reqs' = [reqs EXCEPT ![p] = [reqs[p] EXCEPT !.op = "sleep",
                     !.now = reqs[p].now, !.wakeAt = w]]
      BY <1>13, <2>1, <2>2 DEF ReceiveNothing, ReceiveRequest
    <3> HIDE DEF Goal, w
    <3> QED
      BY <1>10, <2>1, <3>1 DEF ReceiveOps
  <2> QED
    BY <1>6, <2>2
<1>14. ASSUME NEW p \in Requests, PollWake(p)
       PROVE  Goal
  <2>1. reqs[p] \in ReceiveRequest /\ reqs[p].op = "sleep"
    BY <1>1, <1>14, RequestKinds DEF PollWake
  <2>2. reqs' = [reqs EXCEPT ![p] = [reqs[p] EXCEPT !.op = "loop",
                   !.now = clock, !.wakeAt = reqs[p].wakeAt]]
    BY <1>14, <2>1 DEF PollWake, ReceiveRequest
  <2> HIDE DEF Goal
  <2> QED
    BY <1>10, <2>1, <2>2 DEF ReceiveOps
<1>15. CASE UNCHANGED reqs
  BY <1>3, <1>15
<1>16. ASSUME NEW p \in Requests, Proceed(p) \/ Disconnect(p)
       PROVE  Goal
  <2>1. CASE RedriveRound(p)
    BY <1>15, <2>1 DEF RedriveRound
  <2>2. CASE LeaseCandidates(p) \/ Disconnect(p)
    BY <1>6, <2>2 DEF LeaseCandidates, Disconnect
  <2> HIDE DEF Goal
  <2> QED
    BY <1>9, <1>11, <1>12, <1>13, <1>14, <1>16, <2>1, <2>2 DEF Proceed
<1>17. CASE \/ Tick \/ RefusedRequest \/ UNCHANGED planeVars
            \/ \E q \in PurgeableQueues : PurgeQueue(q)
            \/ \E q \in DeletableQueues : DeleteQueue(q)
  BY <1>15, <1>17 DEF Tick, RefusedRequest, planeVars, PurgeQueue, DeleteQueue
<1>18. CASE \E p \in Requests : StartRequest(p) \/ Proceed(p) \/ Disconnect(p)
  BY <1>8, <1>16, <1>18
<1> QED
  BY <1>17, <1>18 DEF SectionNext

-----------------------------------------------------------------------------
(* The history of a row and of a receipt.                                    *)

\* A row keeps its origin, stays deleted, and leaves its queue only with a
\* mark of the queue it came from.
RowKept(r) ==
  /\ SameOrigin(messages'[r], messages[r])
  /\ messages[r].deleted => messages'[r].deleted
  /\ messages'[r].dlSource = NoQueue =>
       messages[r].dlSource = NoQueue /\ messages'[r].queue = messages[r].queue

\* A receipt stays with its message and is never activated again.
ReceiptKept(h) ==
  /\ receipts'[h].queue = receipts[h].queue
  /\ receipts'[h].message = receipts[h].message
  /\ receipts'[h].issuedAt = receipts[h].issuedAt
  /\ receipts'[h].active => receipts[h].active

\* The rows and receipts that existed before the step.
HistoryKept ==
  /\ DOMAIN messages \subseteq DOMAIN messages'
  /\ DOMAIN receipts \subseteq DOMAIN receipts'
  /\ \A r \in DOMAIN messages : RowKept(r)
  /\ \A h \in DOMAIN receipts : ReceiptKept(h)

\* No delivery is counted and no receipt is issued.
NothingLeased ==
  /\ DOMAIN receipts' = DOMAIN receipts
  /\ \A r \in DOMAIN messages : messages'[r].receiveCount = messages[r].receiveCount

\* An accepted entry appends one fresh row.
LEMMA SendTables ==
  ASSUME TypeInv, NowNotAhead, NEW p \in Requests, sendMessageEntry(p)
  PROVE  /\ UNCHANGED receipts
         /\ \/ UNCHANGED messages
            \/ \E m \in Message : /\ messages' = Append(messages, m)
                                  /\ m.receiveCount = 0
                                  /\ m.visibilityDeadline = 0
                                  /\ m.dlSource = NoQueue
                                  /\ m.sentAt <= clock
                                  /\ ~m.deleted
<1> DEFINE q == reqs[p].queue
           e == Head(reqs[p].entries)
           now == reqs[p].now
           m == NewMessage(q, e, now)
<1>1. UNCHANGED receipts
  BY DEF sendMessageEntry
<1>2. CASE InsertMessage(q, e, now)
  <2>1. reqs[p] \in SendRequest /\ reqs[p] # Idle /\ reqs[p].entries # << >>
    <3>1. reqs[p].op = "send"
      BY DEF sendMessageEntry
    <3> QED
      BY <3>1, RequestKinds DEF TypeInv, BatchesNonEmpty, Idle
  <2>2. q \in Queues /\ now \in Nat /\ now <= clock /\ e \in Entry
    BY <2>1 DEF SendRequest, NowNotAhead
  <2>3. Retention[q] \in Nat /\ DelaySeconds[q] \in Nat
    BY <2>2, QueueAssumption
  <2>4. e.delay \in Nat \cup {NoDelay} /\ e.group \in Groups \cup {NoGroup}
    BY <2>2 DEF Entry
  <2>5. (IF e.delay = NoDelay THEN DelaySeconds[q] ELSE e.delay) \in Nat
    BY <2>3, <2>4
  <2>6. m \in Message
    BY <2>2, <2>3, <2>4, <2>5 DEF NewMessage, Message
  <2>7. /\ m.receiveCount = 0 /\ m.visibilityDeadline = 0 /\ m.dlSource = NoQueue
        /\ m.sentAt = now /\ ~m.deleted
    BY DEF NewMessage
  <2>8. messages' = Append(messages, m)
    BY <1>2 DEF InsertMessage, NewSend
  <2> HIDE DEF m
  <2> QED
    BY <1>1, <2>2, <2>6, <2>7, <2>8
<1> QED
  BY <1>1, <1>2 DEF sendMessageEntry

\* The rows of a send: the old ones as they were, and at most a fresh one.
LEMMA SendHistory ==
  ASSUME TypeInv, NowNotAhead, NEW p \in Requests, sendMessageEntry(p)
  PROVE  /\ \A r \in DOMAIN messages : r \in DOMAIN messages' /\ messages'[r] = messages[r]
         /\ \A r \in DOMAIN messages' \ DOMAIN messages :
              /\ r = Len(messages) + 1
              /\ messages'[r] \in Message
              /\ messages'[r].receiveCount = 0
              /\ messages'[r].visibilityDeadline = 0
              /\ messages'[r].dlSource = NoQueue
              /\ messages'[r].sentAt <= clock
<1>1. messages \in Seq(Message)
  BY DEF TypeInv, TypeOK
<1>2. CASE UNCHANGED messages
  BY <1>2
<1>3. ASSUME NEW m \in Message, messages' = Append(messages, m),
             m.receiveCount = 0, m.visibilityDeadline = 0, m.dlSource = NoQueue,
             m.sentAt <= clock
      PROVE  /\ \A r \in DOMAIN messages :
                  r \in DOMAIN messages' /\ messages'[r] = messages[r]
             /\ \A r \in DOMAIN messages' \ DOMAIN messages :
                  r = Len(messages) + 1 /\ messages'[r] = m
  BY <1>1, <1>3
<1> QED
  BY <1>2, <1>3, SendTables

\* What a lease is made of: the candidates of the round and the tables after it.
LEMMA LeaseFacts ==
  ASSUME TypeInv, NEW p \in Requests, LeaseCandidates(p)
  PROVE  /\ reqs[p] \in ReceiveRequest /\ reqs[p] # Idle /\ reqs[p].op = "select"
         /\ \E k \in Nat : \E c :
              /\ Selected(reqs[p].queue, k, c)
              /\ Listed(reqs[p].queue, k, c, reqs[p].now)
              /\ \A i \in 1 .. k : ~shouldRedrive(reqs[p].queue, c[i])
              /\ LeaseEffect(reqs[p].queue, k, c, reqs[p].vis)
              /\ RememberAttempt(reqs[p].queue, reqs[p].attempt, k)
<1>1. TypeOK
  BY DEF TypeInv
<1>2. reqs[p] \in ReceiveRequest /\ reqs[p].op = "select"
  BY <1>1, RequestKinds DEF LeaseCandidates
<1>3. reqs[p].queue \in Queues /\ reqs[p].vis \in Nat /\ reqs[p].max \in Nat
  BY <1>2 DEF ReceiveRequest
<1>4. PICK c \in candidateMessages(reqs[p].queue, reqs[p].max, reqs[p].now) :
        /\ \A i \in DOMAIN c : ~shouldRedrive(reqs[p].queue, c[i])
        /\ Lease(reqs[p].queue, c, reqs[p].vis)
        /\ RememberAttempt(reqs[p].queue, reqs[p].attempt, Len(c))
  BY DEF LeaseCandidates
<1>5. PICK k \in Nat : Selected(reqs[p].queue, k, c) /\ Listed(reqs[p].queue, k, c, reqs[p].now)
  BY <1>1, <1>3, CandidateFacts
<1>6. c \in [1 .. k -> DOMAIN messages]
  BY <1>5 DEF Selected
<1>7. LeaseEffect(reqs[p].queue, k, c, reqs[p].vis)
  BY <1>1, <1>3, <1>4, <1>6, LeaseTables
<1>8. Len(c) = k /\ DOMAIN c = 1 .. k
  BY <1>6, <1>7 DEF LeaseEffect
<1> QED
  BY <1>2, <1>4, <1>5, <1>7, <1>8 DEF Idle

\* The receipts of a lease: the old ones, and the new ones in the order of c.
LEMMA LeaseReceipts ==
  ASSUME TypeInv, NEW q \in Queues, NEW k \in Nat, NEW c, NEW vis \in Nat,
         Selected(q, k, c), LeaseEffect(q, k, c, vis)
  PROVE  /\ DOMAIN receipts' = 1 .. (Len(receipts) + k)
         /\ \A h \in DOMAIN receipts :
              /\ ReceiptKept(h) /\ h \in 1 .. Len(receipts)
              /\ receipts'[h].visibilityDeadline = receipts[h].visibilityDeadline
              /\ receipts'[h].active <=>
                   receipts[h].active /\ receipts[h].message \notin Rows(c, k)
         /\ \A h \in DOMAIN receipts' \ DOMAIN receipts :
              /\ h - Len(receipts) \in 1 .. k
              /\ receipts'[h].queue = q
              /\ receipts'[h].message = c[h - Len(receipts)]
              /\ receipts'[h].message \in DOMAIN messages
              /\ receipts'[h].issuedAt = clock
              /\ receipts'[h].visibilityDeadline = clock + vis
              /\ receipts'[h].active
<1>1. TypeOK
  BY DEF TypeInv
<1>2. /\ Len(receipts) \in Nat /\ DOMAIN receipts = 1 .. Len(receipts)
      /\ DOMAIN receipts' = 1 .. (Len(receipts) + k)
  BY <1>1, RowTypes DEF LeaseEffect
<1>3. ASSUME NEW h \in DOMAIN receipts
      PROVE  /\ ReceiptKept(h) /\ h \in 1 .. Len(receipts)
             /\ receipts'[h].visibilityDeadline = receipts[h].visibilityDeadline
             /\ receipts'[h].active <=>
                  receipts[h].active /\ receipts[h].message \notin Rows(c, k)
  <2>1. receipts'[h] = ReceiptsDeactivated(Rows(c, k))[h]
    BY <1>2 DEF LeaseEffect
  <2> QED
    BY <1>1, <1>2, <2>1, DeactivatedTable DEF ReceiptKept
<1>4. ASSUME NEW h \in DOMAIN receipts' \ DOMAIN receipts
      PROVE  /\ h - Len(receipts) \in 1 .. k
             /\ receipts'[h].queue = q
             /\ receipts'[h].message = c[h - Len(receipts)]
             /\ receipts'[h].message \in DOMAIN messages
             /\ receipts'[h].issuedAt = clock
             /\ receipts'[h].visibilityDeadline = clock + vis
             /\ receipts'[h].active
  <2>1. h \in (Len(receipts) + 1) .. (Len(receipts) + k)
    BY <1>2
  <2>2. /\ h - Len(receipts) \in 1 .. k
        /\ receipts'[h] = [queue |-> q, message |-> c[h - Len(receipts)], issuedAt |-> clock,
                           visibilityDeadline |-> clock + vis, active |-> TRUE]
    BY <2>1 DEF LeaseEffect
  <2>3. c[h - Len(receipts)] \in DOMAIN messages
    BY <2>2 DEF Selected
  <2> QED
    BY <2>2, <2>3
<1> QED
  BY <1>2, <1>3, <1>4

\* A replay moves the deadlines of handles that its attempt cached.
LEMMA ReplayTables ==
  ASSUME TypeInv, NEW p \in Requests, replayReceiveAttempt(p)
  PROVE  /\ reqs[p] \in ReceiveRequest /\ reqs[p] # Idle /\ reqs[p].op = "replay"
         /\ \/ UNCHANGED <<messages, receipts>>
            \/ \E a \in attempts : \E H :
                 /\ a.expiresAt > reqs[p].now
                 /\ \A h \in H : /\ \E i \in DOMAIN a.response : h = a.response[i]
                                 /\ Replayable(reqs[p].queue, h, reqs[p].now)
                 /\ reqs[p].now + reqs[p].vis \in Nat
                 /\ SetDeadlines(H, reqs[p].now + reqs[p].vis)
<1>1. reqs[p] \in ReceiveRequest /\ reqs[p] # Idle /\ reqs[p].op = "replay"
  BY RequestKinds DEF TypeInv, replayReceiveAttempt, Idle
<1>2. reqs[p].now + reqs[p].vis \in Nat
  BY <1>1 DEF ReceiveRequest
<1>3. CASE UNCHANGED <<messages, receipts>>
  BY <1>1, <1>3
<1>4. ASSUME NEW a \in attempts, a.expiresAt > reqs[p].now, NEW k \in 0 .. Len(a.response),
             \A i \in 1 .. k : Replayable(reqs[p].queue, a.response[i], reqs[p].now),
             SetDeadlines({a.response[i] : i \in 1 .. k}, reqs[p].now + reqs[p].vis)
      PROVE  \E H : /\ \A h \in H : /\ \E i \in DOMAIN a.response : h = a.response[i]
                                    /\ Replayable(reqs[p].queue, h, reqs[p].now)
                    /\ SetDeadlines(H, reqs[p].now + reqs[p].vis)
  <2>1. a.response \in Seq(Nat)
    BY DEF TypeInv, TypeOK, Attempt
  <2>2. \A i \in 1 .. k : i \in DOMAIN a.response
    BY <2>1
  <2> WITNESS {a.response[i] : i \in 1 .. k}
  <2> QED
    BY <1>4, <2>2
<1> QED
  BY <1>1, <1>2, <1>3, <1>4 DEF replayReceiveAttempt

\* A visibility change moves the deadlines of one usable handle.
LEMMA ChangeTables ==
  ASSUME TypeInv, NEW p \in Requests, changeVisibilityByReceiptHandle(p)
  PROVE  /\ reqs[p] \in ChangeRequest /\ reqs[p] # Idle
         /\ \/ UNCHANGED <<messages, receipts, attempts>>
            \/ \E h \in DOMAIN receipts : \E timeout \in Nat :
                 /\ HandleUsable(reqs[p].queue, h, reqs[p].now)
                 /\ WithinMaxVisibility(h, timeout, reqs[p].now)
                 /\ ~messages[receipts[h].message].deleted
                 /\ reqs[p].now + timeout \in Nat
                 /\ SetDeadlines({h}, reqs[p].now + timeout)
                 /\ attempts' = AttemptsInvalidated(reqs[p].queue)
<1> DEFINE h == Head(reqs[p].changes).handle
           timeout == Head(reqs[p].changes).timeout
<1>1. reqs[p] \in ChangeRequest /\ reqs[p] # Idle /\ reqs[p].changes # << >>
  <2>1. reqs[p].op = "change"
    BY DEF changeVisibilityByReceiptHandle
  <2> QED
    BY <2>1, RequestKinds DEF TypeInv, BatchesNonEmpty, Idle
<1>2. reqs[p].changes \in Seq(Change) /\ reqs[p].now \in Nat
  BY <1>1 DEF ChangeRequest
<1>3. Head(reqs[p].changes) \in Change
  BY <1>1, <1>2, HeadTailProperties
<1>4. timeout \in Nat /\ reqs[p].now + timeout \in Nat
  BY <1>2, <1>3 DEF Change
<1>5. CASE UNCHANGED <<messages, receipts, attempts>>
  BY <1>1, <1>5
<1>6. CASE /\ HandleUsable(reqs[p].queue, h, reqs[p].now)
           /\ WithinMaxVisibility(h, timeout, reqs[p].now)
           /\ ~messages[receipts[h].message].deleted
           /\ SetDeadlines({h}, reqs[p].now + timeout)
           /\ attempts' = AttemptsInvalidated(reqs[p].queue)
  <2>1. h \in DOMAIN receipts
    BY <1>6 DEF HandleUsable
  <2> HIDE DEF h, timeout
  <2> QED
    BY <1>1, <1>4, <1>6, <2>1
<1> QED
  BY <1>5, <1>6 DEF changeVisibilityByReceiptHandle

\* A delete retires one usable receipt and removes its row.
LEMMA DeleteTables ==
  ASSUME TypeInv, NEW p \in Requests, deleteByReceiptHandle(p)
  PROVE  \/ UNCHANGED <<messages, receipts, attempts>>
         \/ \E h \in DOMAIN receipts :
              LET r == receipts[h].message IN
              /\ HandleUsable(reqs[p].queue, h, reqs[p].now)
              /\ receipts' = [receipts EXCEPT ![h].active = FALSE]
              /\ r \in DOMAIN messages
              /\ attempts' \subseteq attempts
              /\ \/ messages[r].deleted /\ UNCHANGED messages
                 \/ /\ ~messages[r].deleted
                    /\ messages' = [messages EXCEPT ![r].deleted = TRUE,
                                                    ![r].visibilityDeadline = 0]
<1> DEFINE h == Head(reqs[p].handles)
<1>1. CASE UNCHANGED <<messages, receipts, attempts>>
  BY <1>1
<1>2. CASE HandleUsable(reqs[p].queue, h, reqs[p].now)
  <2>1. h \in DOMAIN receipts /\ receipts[h].message \in DOMAIN messages
    BY <1>2 DEF HandleUsable, TypeInv, ReceiptsRefer
  <2>2. receipts' = [receipts EXCEPT ![h].active = FALSE]
    BY <1>2 DEF deleteByReceiptHandle
  <2>3. /\ attempts' \subseteq attempts
        /\ \/ messages[receipts[h].message].deleted /\ UNCHANGED messages
           \/ /\ ~messages[receipts[h].message].deleted
              /\ messages' = [messages EXCEPT ![receipts[h].message].deleted = TRUE,
                                        ![receipts[h].message].visibilityDeadline = 0]
    BY <1>2 DEF deleteByReceiptHandle, AttemptsInvalidated
  <2> HIDE DEF h
  <2> QED
    BY <1>2, <2>1, <2>2, <2>3
<1> QED
  BY <1>1, <1>2 DEF deleteByReceiptHandle

\* A redrive round moves exhausted candidates of the queue it selects from.
LEMMA RedriveFacts ==
  ASSUME TypeInv, NEW p \in Requests, RedriveRound(p)
  PROVE  /\ reqs[p] \in ReceiveRequest /\ reqs[p] # Idle /\ reqs[p].queue \in Queues
         /\ RedriveTarget[reqs[p].queue] # NoQueue
         /\ \E R : /\ redriveMessage(reqs[p].queue, R, reqs[p].now)
                   /\ \A r \in R : /\ r \in DOMAIN messages
                                   /\ r \in Eligible(reqs[p].queue, reqs[p].now)
                                   /\ messages[r].queue = reqs[p].queue
                                   /\ ~messages[r].deleted
<1>1. TypeOK
  BY DEF TypeInv
<1>2. reqs[p] \in ReceiveRequest /\ reqs[p] # Idle
  BY <1>1, RequestKinds DEF RedriveRound, Idle
<1>3. reqs[p].queue \in Queues /\ reqs[p].max \in Nat
  BY <1>2 DEF ReceiveRequest
<1>4. PICK c, R :
        /\ c \in candidateMessages(reqs[p].queue, reqs[p].max, reqs[p].now)
        /\ R = {c[i] : i \in {j \in DOMAIN c : shouldRedrive(reqs[p].queue, c[j])}}
        /\ R # {}
        /\ redriveMessage(reqs[p].queue, R, reqs[p].now)
  BY DEF RedriveRound
<1>5. PICK k \in Nat : Selected(reqs[p].queue, k, c) /\ Listed(reqs[p].queue, k, c, reqs[p].now)
  BY <1>1, <1>3, <1>4, CandidateFacts
<1>6. DOMAIN c = 1 .. k
  BY <1>5 DEF Selected
<1>7. \A r \in R : /\ r \in DOMAIN messages
                   /\ r \in Eligible(reqs[p].queue, reqs[p].now)
                   /\ messages[r].queue = reqs[p].queue
                   /\ ~messages[r].deleted
  BY <1>4, <1>5, <1>6 DEF Selected, Listed
<1>8. RedriveTarget[reqs[p].queue] # NoQueue
  BY <1>4 DEF shouldRedrive
<1> QED
  BY <1>2, <1>3, <1>4, <1>7, <1>8

\* No step rewrites the history of a row or of a receipt, and only a lease
\* counts a delivery or issues a receipt.
LEMMA HistoryStep ==
  ASSUME TypeInv, NowNotAhead, [SectionNext]_planeVars
  PROVE  /\ HistoryKept
         /\ NothingLeased \/ \E p \in Requests : LeaseCandidates(p)
<1>1. TypeOK /\ clock \in Nat /\ NoQueue \notin Queues
  BY QueueAssumption DEF TypeInv, TypeOK
<1>2. ASSUME UNCHANGED <<messages, receipts>>
      PROVE  HistoryKept /\ NothingLeased
  BY <1>2 DEF HistoryKept, RowKept, ReceiptKept, SameOrigin, NothingLeased
<1>3. ASSUME NEW R
      PROVE  /\ DOMAIN ReceiptsDeactivated(R) = DOMAIN receipts
             /\ receipts' = ReceiptsDeactivated(R) =>
                  \A h \in DOMAIN receipts : ReceiptKept(h)
  BY <1>1, DeactivatedTable DEF ReceiptKept
<1>4. CASE maintain(clock)
  <2>1. /\ DOMAIN messages' = DOMAIN messages
        /\ \A r \in DOMAIN messages :
             RowKept(r) /\ messages'[r].receiveCount = messages[r].receiveCount
        /\ receipts' = ReceiptsDeactivated(ExpiredAt(clock))
    BY <1>1, <1>4, MaintainTables DEF RowKept
  <2> QED
    BY <1>3, <2>1 DEF HistoryKept, NothingLeased
<1>5. ASSUME NEW p \in Requests, sendMessageEntry(p)
      PROVE  HistoryKept /\ NothingLeased
  <2>1. UNCHANGED receipts
    BY <1>5 DEF sendMessageEntry
  <2>2. \A r \in DOMAIN messages : r \in DOMAIN messages' /\ messages'[r] = messages[r]
    BY <1>5, SendHistory
  <2> QED
    BY <2>1, <2>2 DEF HistoryKept, RowKept, ReceiptKept, SameOrigin, NothingLeased
<1>6. ASSUME NEW H, NEW d \in Nat, SetDeadlines(H, d)
      PROVE  HistoryKept /\ NothingLeased
  BY <1>1, <1>6, DeadlineTables DEF HistoryKept, RowKept, ReceiptKept, NothingLeased
<1>7. ASSUME NEW p \in Requests,
             replayReceiveAttempt(p) \/ changeVisibilityByReceiptHandle(p)
      PROVE  HistoryKept /\ NothingLeased
  BY <1>2, <1>6, <1>7, ReplayTables, ChangeTables
<1>8. ASSUME NEW p \in Requests, RedriveRound(p)
      PROVE  HistoryKept /\ NothingLeased
  <2>1. reqs[p].now \in Nat
    BY <1>8, RedriveFacts DEF ReceiveRequest
  <2>2. PICK R : redriveMessage(reqs[p].queue, R, reqs[p].now)
    BY <1>8, RedriveFacts
  <2>3. reqs[p].queue \in Queues /\ RedriveTarget[reqs[p].queue] # NoQueue
    BY <1>8, RedriveFacts
  <2>4. CASE ~UNCHANGED <<messages, receipts>>
    <3>1. /\ DOMAIN messages' = DOMAIN messages
          /\ receipts' = ReceiptsDeactivated(R)
          /\ \A r \in DOMAIN messages :
               /\ messages'[r].deleted = messages[r].deleted
               /\ messages'[r].receiveCount = messages[r].receiveCount
               /\ SameOrigin(messages'[r], messages[r])
               /\ r \notin R => messages'[r] = messages[r]
               /\ r \in R => messages'[r].dlSource = reqs[p].queue
      BY <1>1, <2>1, <2>2, <2>3, <2>4, RedriveTables
    <3>2. \A r \in DOMAIN messages : RowKept(r)
      BY <1>1, <2>3, <3>1 DEF RowKept
    <3> QED
      BY <1>3, <3>1, <3>2 DEF HistoryKept, NothingLeased
  <2> QED
    BY <1>2, <2>4
<1>9. ASSUME NEW p \in Requests, deleteByReceiptHandle(p)
      PROVE  HistoryKept /\ NothingLeased
  <2>1. ASSUME NEW h \in DOMAIN receipts,
               receipts' = [receipts EXCEPT ![h].active = FALSE],
               receipts[h].message \in DOMAIN messages,
               \/ UNCHANGED messages
               \/ messages' = [messages EXCEPT ![receipts[h].message].deleted = TRUE,
                                               ![receipts[h].message].visibilityDeadline = 0]
        PROVE  HistoryKept /\ NothingLeased
    <3>1. DOMAIN receipts' = DOMAIN receipts /\ \A g \in DOMAIN receipts : ReceiptKept(g)
      BY <1>1, <2>1, ReceiptRetired DEF ReceiptKept
    <3>2. CASE UNCHANGED messages
      BY <3>1, <3>2 DEF HistoryKept, RowKept, SameOrigin, NothingLeased
    <3>3. CASE messages' = [messages EXCEPT ![receipts[h].message].deleted = TRUE,
                                            ![receipts[h].message].visibilityDeadline = 0]
      <4> DEFINE s == receipts[h].message
      <4>1. s \in DOMAIN messages
        BY <2>1
      <4>2. messages' = [messages EXCEPT ![s].deleted = TRUE, ![s].visibilityDeadline = 0]
        BY <3>3
      <4> HIDE DEF s
      <4>3. /\ DOMAIN messages' = DOMAIN messages
            /\ messages'[s].deleted
            /\ messages'[s].queue = messages[s].queue
            /\ messages'[s].receiveCount = messages[s].receiveCount
            /\ messages'[s].dlSource = messages[s].dlSource
            /\ SameOrigin(messages'[s], messages[s])
            /\ \A r \in DOMAIN messages : r # s => messages'[r] = messages[r]
        BY <1>1, <4>1, <4>2, RowRemoved
      <4>4. \A r \in DOMAIN messages :
              RowKept(r) /\ messages'[r].receiveCount = messages[r].receiveCount
        BY <4>3 DEF RowKept, SameOrigin
      <4> QED
        BY <3>1, <4>3, <4>4 DEF HistoryKept, NothingLeased
    <3> QED
      BY <2>1, <3>2, <3>3
  <2> QED
    BY <1>2, <1>9, <2>1, DeleteTables
<1>10. ASSUME NEW p \in Requests, LeaseCandidates(p)
       PROVE  HistoryKept
  <2>1. reqs[p].queue \in Queues /\ reqs[p].vis \in Nat
    BY <1>10, LeaseFacts DEF ReceiveRequest
  <2>2. PICK k, c : /\ k \in Nat
                    /\ Selected(reqs[p].queue, k, c)
                    /\ LeaseEffect(reqs[p].queue, k, c, reqs[p].vis)
    BY <1>10, LeaseFacts
  <2>3. DOMAIN receipts \subseteq DOMAIN receipts' /\ \A h \in DOMAIN receipts : ReceiptKept(h)
    <3>1. Len(receipts) \in Nat
      BY <1>1, RowTypes
    <3> QED
      BY <2>1, <2>2, <3>1, LeaseReceipts
  <2>4. DOMAIN messages' = DOMAIN messages /\ \A r \in DOMAIN messages : RowKept(r)
    BY <2>2 DEF LeaseEffect, RowKept
  <2> QED
    BY <2>3, <2>4 DEF HistoryKept
<1>11. TableStep
  BY NextTables
<1> QED
  BY <1>2, <1>4, <1>3, <1>5, <1>7, <1>8, <1>9, <1>10, <1>11 DEF TableStep

-----------------------------------------------------------------------------
(* A lease ends.                                                             *)

\* A cached attempt names receipts that exist, and stays usable no longer than
\* the deduplication window after they were issued.
AttemptsCover ==
  \A a \in attempts : \A i \in DOMAIN a.response :
    LET h == a.response[i] IN
    /\ h \in DOMAIN receipts
    /\ a.expiresAt <= receipts[h].issuedAt + DedupWindow

\* A receive asks for at most twelve hours.
ReceivesWithin ==
  \A p \in Requests : reqs[p].op \in ReceiveOps => reqs[p].vis <= MaxVisibility

SpanInv == /\ TypeInv
           /\ NowNotAhead
           /\ AttemptsCover
           /\ ReceivesWithin
           /\ VisibilityBounded

LEMMA ReceivesWithinStep ==
  ASSUME TypeInv, ReceivesWithin, [SectionNext]_planeVars
  PROVE  ReceivesWithin'
<1> SUFFICES ASSUME NEW s \in Requests, reqs'[s].op \in ReceiveOps
             PROVE  reqs'[s].vis <= MaxVisibility
  BY DEF ReceivesWithin, ReceiveOps
<1>1. CASE reqs[s].op \in ReceiveOps /\ reqs'[s].vis = reqs[s].vis
  BY <1>1 DEF ReceivesWithin
<1>2. ASSUME NEW in \in ReceiveInputs, reqs'[s].vis = in.vis
      PROVE  reqs'[s].vis <= MaxVisibility
  BY <1>2, InputAssumption, TimeAssumption DEF ReceiveInput
<1> QED
  BY <1>1, <1>2, ReceiveStep

\* A step that leaves the cached attempts, or drops some, and issues nothing.
LEMMA CoverKept ==
  ASSUME AttemptsCover, HistoryKept, attempts' \subseteq attempts
  PROVE  AttemptsCover'
<1> SUFFICES ASSUME NEW a \in attempts', NEW i \in DOMAIN a.response
             PROVE  /\ a.response[i] \in DOMAIN receipts'
                    /\ a.expiresAt <= receipts'[a.response[i]].issuedAt + DedupWindow
  BY DEF AttemptsCover
<1>1. /\ a.response[i] \in DOMAIN receipts
      /\ a.expiresAt <= receipts[a.response[i]].issuedAt + DedupWindow
  BY DEF AttemptsCover
<1>2. /\ a.response[i] \in DOMAIN receipts'
      /\ receipts'[a.response[i]].issuedAt = receipts[a.response[i]].issuedAt
  BY <1>1 DEF HistoryKept, ReceiptKept
<1> QED
  BY <1>1, <1>2

\* A step that moves no deadline and issues no receipt.
LEMMA SpanKept ==
  ASSUME SpanInv, HistoryKept, attempts' \subseteq attempts,
         DOMAIN receipts' = DOMAIN receipts,
         \A h \in DOMAIN receipts :
           receipts'[h].visibilityDeadline = receipts[h].visibilityDeadline
  PROVE  AttemptsCover' /\ VisibilityBounded'
<1>1. AttemptsCover'
  BY CoverKept DEF SpanInv
<1>2. VisibilityBounded'
  BY DEF SpanInv, VisibilityBounded, HistoryKept, ReceiptKept
<1> QED
  BY <1>1, <1>2

\* The same for a step that moves the deadlines of the handles in H to d.
LEMMA SpanMoved ==
  ASSUME SpanInv, HistoryKept, attempts' \subseteq attempts,
         NEW H, NEW d \in Nat, SetDeadlines(H, d),
         \A h \in H : h \in DOMAIN receipts =>
           d <= receipts[h].issuedAt + MaxVisibility + DedupWindow
  PROVE  AttemptsCover' /\ VisibilityBounded'
<1>1. TypeOK
  BY DEF SpanInv, TypeInv
<1>2. AttemptsCover'
  BY CoverKept DEF SpanInv
<1>3. /\ DOMAIN receipts' = DOMAIN receipts
      /\ \A h \in DOMAIN receipts :
           /\ receipts'[h].issuedAt = receipts[h].issuedAt
           /\ receipts'[h].visibilityDeadline =
                IF h \in H THEN d ELSE receipts[h].visibilityDeadline
  BY <1>1, DeadlineTables
<1>4. VisibilityBounded'
  BY <1>3 DEF SpanInv, VisibilityBounded
<1> QED
  BY <1>2, <1>4

LEMMA SpanLease ==
  ASSUME SpanInv, HistoryKept, NEW p \in Requests, LeaseCandidates(p)
  PROVE  AttemptsCover' /\ VisibilityBounded'
<1> DEFINE q == reqs[p].queue
           vis == reqs[p].vis
           n == Len(receipts)
<1>1. TypeInv /\ TypeOK /\ clock \in Nat /\ n \in Nat
      /\ DedupWindow \in Nat /\ MaxVisibility \in Nat
  BY RowTypes, TimeAssumption DEF SpanInv, TypeInv, TypeOK
<1>2. /\ reqs[p] \in ReceiveRequest /\ reqs[p].op = "select"
      /\ q \in Queues /\ vis \in Nat
  BY <1>1, LeaseFacts DEF ReceiveRequest
<1>3. vis <= MaxVisibility
  BY <1>2 DEF SpanInv, ReceivesWithin, ReceiveOps
<1>4. PICK k, c : /\ k \in Nat
                  /\ Selected(q, k, c)
                  /\ LeaseEffect(q, k, c, vis)
                  /\ RememberAttempt(q, reqs[p].attempt, k)
  BY <1>1, LeaseFacts
<1>5. /\ DOMAIN receipts = 1 .. n
      /\ DOMAIN receipts' = 1 .. (n + k)
      /\ \A h \in DOMAIN receipts :
           /\ receipts'[h].issuedAt = receipts[h].issuedAt
           /\ receipts'[h].visibilityDeadline = receipts[h].visibilityDeadline
      /\ \A h \in DOMAIN receipts' \ DOMAIN receipts :
           receipts'[h].issuedAt = clock /\ receipts'[h].visibilityDeadline = clock + vis
  BY <1>1, <1>2, <1>4, LeaseReceipts, RowTypes DEF ReceiptKept
<1>6. VisibilityBounded'
  <2> SUFFICES ASSUME NEW h \in DOMAIN receipts'
               PROVE  receipts'[h].visibilityDeadline
                        <= receipts'[h].issuedAt + MaxVisibility + DedupWindow
    BY DEF VisibilityBounded
  <2>1. CASE h \in DOMAIN receipts
    BY <1>5, <2>1 DEF SpanInv, VisibilityBounded
  <2>2. CASE h \notin DOMAIN receipts
    BY <1>1, <1>2, <1>3, <1>5, <2>2
  <2> QED
    BY <2>1, <2>2
<1>7. AttemptsCover'
  <2> DEFINE x == [queue |-> q, attempt |-> reqs[p].attempt,
                   response |-> [i \in 1 .. k |-> n + i],
                   expiresAt |-> clock + DedupWindow]
  <2> SUFFICES ASSUME NEW a \in attempts', NEW i \in DOMAIN a.response
               PROVE  /\ a.response[i] \in DOMAIN receipts'
                      /\ a.expiresAt <= receipts'[a.response[i]].issuedAt + DedupWindow
    BY DEF AttemptsCover
  <2>1. a \in attempts \/ a = x
    BY <1>4 DEF RememberAttempt, NewAttempt
  <2>2. CASE a \in attempts
    <3>1. /\ a.response[i] \in DOMAIN receipts
          /\ a.expiresAt <= receipts[a.response[i]].issuedAt + DedupWindow
      BY <2>2 DEF SpanInv, AttemptsCover
    <3> QED
      BY <1>1, <1>4, <1>5, <3>1
  <2>3. CASE a = x
    <3>1. i \in 1 .. k /\ a.response[i] = n + i /\ a.expiresAt = clock + DedupWindow
      BY <2>3
    <3>2. n + i \in DOMAIN receipts' \ DOMAIN receipts
      BY <1>1, <1>4, <1>5, <3>1
    <3> QED
      BY <1>1, <1>4, <1>5, <3>1, <3>2
  <2> QED
    BY <2>1, <2>2, <2>3
<1> QED
  BY <1>6, <1>7

LEMMA SpanReplay ==
  ASSUME SpanInv, HistoryKept, NEW p \in Requests, replayReceiveAttempt(p)
  PROVE  AttemptsCover' /\ VisibilityBounded'
<1> DEFINE now == reqs[p].now
           vis == reqs[p].vis
<1>1. TypeInv /\ TypeOK /\ DedupWindow \in Nat /\ MaxVisibility \in Nat
  BY TimeAssumption DEF SpanInv, TypeInv
<1>2. /\ reqs[p] \in ReceiveRequest /\ reqs[p].op = "replay"
      /\ now \in Nat /\ vis \in Nat
  BY <1>1, ReplayTables DEF ReceiveRequest
<1>3. vis <= MaxVisibility
  BY <1>2 DEF SpanInv, ReceivesWithin, ReceiveOps
<1>4. attempts' = attempts
  BY DEF replayReceiveAttempt
<1>5. CASE UNCHANGED <<messages, receipts>>
  BY <1>4, <1>5, SpanKept
<1>6. ASSUME NEW a \in attempts, NEW H, a.expiresAt > now,
             \A h \in H : \E i \in DOMAIN a.response : h = a.response[i],
             SetDeadlines(H, now + vis)
      PROVE  AttemptsCover' /\ VisibilityBounded'
  <2>1. ASSUME NEW h \in H
        PROVE  now + vis <= receipts[h].issuedAt + MaxVisibility + DedupWindow
    <3>1. h \in DOMAIN receipts /\ a.expiresAt <= receipts[h].issuedAt + DedupWindow
      BY <1>6, <2>1 DEF SpanInv, AttemptsCover
    <3>2. receipts[h].issuedAt \in Nat /\ a.expiresAt \in Nat
      <4>1. receipts[h] \in Receipt
        BY <1>1, <3>1, RowTypes
      <4>2. a \in Attempt
        BY <1>1 DEF TypeOK
      <4> QED
        BY <4>1, <4>2 DEF Receipt, Attempt
    <3> QED
      BY <1>1, <1>2, <1>3, <1>6, <3>1, <3>2
  <2>2. now + vis \in Nat
    BY <1>2
  <2> HIDE DEF now, vis
  <2> QED
    BY <1>4, <1>6, <2>1, <2>2, SpanMoved
<1> QED
  BY <1>1, <1>5, <1>6, ReplayTables

LEMMA SpanChange ==
  ASSUME SpanInv, HistoryKept, NEW p \in Requests, changeVisibilityByReceiptHandle(p)
  PROVE  AttemptsCover' /\ VisibilityBounded'
<1> DEFINE now == reqs[p].now
<1>1. TypeInv /\ TypeOK /\ DedupWindow \in Nat /\ MaxVisibility \in Nat
  BY TimeAssumption DEF SpanInv, TypeInv
<1>2. CASE UNCHANGED <<messages, receipts, attempts>>
  BY <1>2, SpanKept
<1>3. ASSUME NEW h \in DOMAIN receipts, NEW timeout \in Nat,
             WithinMaxVisibility(h, timeout, now), now + timeout \in Nat,
             SetDeadlines({h}, now + timeout), attempts' = AttemptsInvalidated(reqs[p].queue)
      PROVE  AttemptsCover' /\ VisibilityBounded'
  <2>1. receipts[h].issuedAt \in Nat
    BY <1>1, RowTypes DEF Receipt
  <2>2. now + timeout <= receipts[h].issuedAt + MaxVisibility + DedupWindow
    BY <1>1, <1>3, <2>1 DEF WithinMaxVisibility
  <2>3. attempts' \subseteq attempts
    BY <1>3 DEF AttemptsInvalidated
  <2> HIDE DEF now
  <2> QED
    BY <1>3, <2>2, <2>3, SpanMoved
<1> QED
  BY <1>1, <1>2, <1>3, ChangeTables

LEMMA SpanStep == SpanInv /\ [SectionNext]_planeVars => SpanInv'
<1> SUFFICES ASSUME SpanInv, [SectionNext]_planeVars PROVE SpanInv'
  OBVIOUS
<1>1. TypeInv /\ NowNotAhead /\ TypeOK
  BY DEF SpanInv, TypeInv
<1>2. TypeInv' /\ NowNotAhead' /\ ReceivesWithin' /\ HistoryKept
  BY <1>1, TypeStep, NowStep, ReceivesWithinStep, HistoryStep DEF SpanInv
<1>3. SUFFICES AttemptsCover' /\ VisibilityBounded'
  BY <1>2 DEF SpanInv
<1>4. ASSUME attempts' \subseteq attempts, UNCHANGED receipts
      PROVE  AttemptsCover' /\ VisibilityBounded'
  BY <1>2, <1>4, SpanKept
<1>5. ASSUME attempts' = attempts, NEW R, receipts' = ReceiptsDeactivated(R)
      PROVE  AttemptsCover' /\ VisibilityBounded'
  <2>1. /\ DOMAIN receipts' = DOMAIN receipts
        /\ \A h \in DOMAIN receipts :
             receipts'[h].visibilityDeadline = receipts[h].visibilityDeadline
    BY <1>1, <1>5, DeactivatedTable
  <2> QED
    BY <1>2, <1>5, <2>1, SpanKept
<1>6. ASSUME NEW p \in Requests, StartRequest(p)
      PROVE  AttemptsCover' /\ VisibilityBounded'
  <2>1. maintain(clock) /\ attempts' = attempts
    BY <1>6, QueueAssumption DEF StartRequest, SendMessageBatch, ReceiveMessage, DeleteMessageBatch,
                ChangeMessageVisibilityBatch, Begin
  <2> QED
    BY <1>5, <2>1 DEF maintain, reapQueue
<1>7. ASSUME NEW p \in Requests, RedriveRound(p)
      PROVE  AttemptsCover' /\ VisibilityBounded'
  <2>1. attempts' = attempts
    BY <1>7 DEF RedriveRound
  <2>2. PICK R : redriveMessage(reqs[p].queue, R, reqs[p].now)
    BY <1>7, <1>1, RedriveFacts
  <2> QED
    BY <1>4, <1>5, <2>1, <2>2 DEF redriveMessage, Redriven
<1>8. ASSUME NEW p \in Requests, deleteByReceiptHandle(p)
      PROVE  AttemptsCover' /\ VisibilityBounded'
  <2>1. ASSUME NEW h \in DOMAIN receipts, receipts' = [receipts EXCEPT ![h].active = FALSE],
               attempts' \subseteq attempts
        PROVE  AttemptsCover' /\ VisibilityBounded'
    <3>1. /\ DOMAIN receipts' = DOMAIN receipts
          /\ \A g \in DOMAIN receipts :
               receipts'[g].visibilityDeadline = receipts[g].visibilityDeadline
      BY <1>1, <2>1, ReceiptRetired
    <3> QED
      BY <1>2, <2>1, <3>1, SpanKept
  <2> QED
    BY <1>1, <1>4, <1>8, <2>1, DeleteTables
<1>9. ASSUME NEW p \in Requests, Proceed(p) \/ Disconnect(p)
      PROVE  AttemptsCover' /\ VisibilityBounded'
  <2>1. CASE sendMessageEntry(p)
    BY <1>4, <2>1 DEF sendMessageEntry
  <2>2. CASE ReceiveLoop(p)
    BY <1>5, <2>2 DEF ReceiveLoop, maintain, reapQueue
  <2>3. CASE ReceiveNothing(p) \/ PollWake(p) \/ Disconnect(p)
    BY <1>4, <2>3 DEF ReceiveNothing, PollWake, Disconnect
  <2> QED
    BY <1>2, <1>7, <1>8, <1>9, <2>1, <2>2, <2>3, SpanLease, SpanReplay, SpanChange
    DEF Proceed
<1>10. CASE RefusedRequest
  BY <1>5, <1>10 DEF RefusedRequest, maintain, reapQueue
<1>11. CASE \/ Tick \/ UNCHANGED planeVars
            \/ \E q \in PurgeableQueues : PurgeQueue(q)
            \/ \E q \in DeletableQueues : DeleteQueue(q)
  BY <1>4, <1>11 DEF Tick, planeVars, PurgeQueue, DeleteQueue
<1> QED
  BY <1>6, <1>9, <1>10, <1>11 DEF SectionNext

LEMMA SpanInit == SectionInit => SpanInv
<1> SUFFICES ASSUME SectionInit PROVE SpanInv
  OBVIOUS
<1>1. receipts = << >> /\ attempts = {} /\ \A p \in Requests : reqs[p] = Idle
  BY DEF SectionInit
<1>2. Idle.op \notin ReceiveOps
  BY DEF Idle, ReceiveOps
<1> QED
  BY <1>1, <1>2, TypeInit DEF SpanInv, NowNotAhead, AttemptsCover, ReceivesWithin,
                              VisibilityBounded

\* As long as the statements of two sections do not interleave:
\* No consumer holds a message for longer than twelve hours and the five minutes
\* of a replay, however often visibility is changed and attempts are replayed
\* with an old now (changeVisibilityByReceiptHandle, replayReceiveAttempt).
LEMMA SpanApart == SectionSpec => []VisibilityBounded
<1>1. SpanInv => VisibilityBounded
  BY DEF SpanInv
<1> QED
  BY <1>1, SpanInit, SpanStep, PTL DEF SectionSpec

-----------------------------------------------------------------------------
(* A FIFO group is served to one consumer at a time and in order.            *)

\* A step appends at most one row, and it is a fresh one.
LEMMA FreshRow ==
  ASSUME TypeInv, NowNotAhead, [SectionNext]_planeVars, NEW r \in DOMAIN messages' \ DOMAIN messages
  PROVE  /\ r = Len(messages) + 1
         /\ messages'[r].receiveCount = 0
         /\ messages'[r].visibilityDeadline = 0
         /\ messages'[r].dlSource = NoQueue
         /\ messages'[r].sentAt <= clock
         /\ UNCHANGED receipts
<1>1. TypeOK /\ TypeOK' /\ clock \in Nat
  BY TypeStep DEF TypeInv, TypeOK
<1>2. DOMAIN messages = 1 .. Len(messages) /\ DOMAIN messages' = 1 .. Len(messages')
  BY <1>1 DEF TypeOK
<1>3. Len(messages') # Len(messages)
  BY <1>2
<1>4. ~UNCHANGED <<messages, receipts>>
  BY <1>3
<1>5. ~maintain(clock)
  BY <1>1, <1>3, MaintainTables
<1>6. PICK p \in Requests : sendMessageEntry(p)
  BY <1>3, <1>4, <1>5, NextTables, RowsKept DEF TableStep
<1> QED
  BY <1>6, SendHistory, SendTables

\* A row that a step delivers: chosen by one selection round, eligible for it.
LEMMA DeliveredRow ==
  ASSUME TypeInv, NowNotAhead, [SectionNext]_planeVars, NEW r \in DOMAIN messages,
         messages'[r].receiveCount # messages[r].receiveCount
  PROVE  \E p \in Requests : \E k \in Nat : \E c :
           /\ reqs[p] \in ReceiveRequest /\ reqs[p].op = "select"
           /\ reqs[p].now \in Nat /\ reqs[p].now <= clock
           /\ Selected(reqs[p].queue, k, c)
           /\ Listed(reqs[p].queue, k, c, reqs[p].now)
           /\ LeaseEffect(reqs[p].queue, k, c, reqs[p].vis)
           /\ r \in Rows(c, k)
           /\ r \in Eligible(reqs[p].queue, reqs[p].now)
           /\ messages[r].queue = reqs[p].queue
           /\ ~messages[r].deleted
<1>1. PICK p \in Requests : LeaseCandidates(p)
  BY HistoryStep DEF NothingLeased
<1>2. PICK k, c : /\ k \in Nat
                  /\ Selected(reqs[p].queue, k, c)
                  /\ Listed(reqs[p].queue, k, c, reqs[p].now)
                  /\ LeaseEffect(reqs[p].queue, k, c, reqs[p].vis)
  BY <1>1, LeaseFacts
<1>3. /\ reqs[p] \in ReceiveRequest /\ reqs[p].op = "select" /\ reqs[p] # Idle
      /\ reqs[p].now \in Nat /\ reqs[p].now <= clock
  BY <1>1, LeaseFacts DEF ReceiveRequest, NowNotAhead
<1>4. r \in Rows(c, k)
  BY <1>2 DEF LeaseEffect
<1>5. /\ r \in Eligible(reqs[p].queue, reqs[p].now)
      /\ messages[r].queue = reqs[p].queue /\ ~messages[r].deleted
  BY <1>2, <1>4 DEF Rows, Listed, Selected
<1> QED
  BY <1>2, <1>3, <1>4, <1>5

LEMMA HeldStep ==
  ASSUME TypeInv, NowNotAhead, LeaseExclusive, [SectionNext]_planeVars,
         NEW h \in DOMAIN receipts, NEW r \in DOMAIN messages,
         receipts[h].active,
         receipts[h].visibilityDeadline > clock,
         ~messages[receipts[h].message].deleted,
         messages[receipts[h].message].retentionDeadline > clock,
         messages[receipts[h].message].queue = messages[r].queue,
         messages[r].queue \in FifoQueues,
         SameGroup(receipts[h].message, r)
  PROVE  messages'[r].receiveCount = messages[r].receiveCount
<1> DEFINE held == receipts[h].message
<1>1. SUFFICES ASSUME messages'[r].receiveCount # messages[r].receiveCount PROVE FALSE
  OBVIOUS
<1>2. TypeOK /\ clock \in Nat /\ held \in DOMAIN messages
  BY DEF TypeInv, TypeOK, ReceiptsRefer
<1>3. PICK p \in Requests :
        /\ reqs[p].now \in Nat /\ reqs[p].now <= clock
        /\ r \in Eligible(messages[r].queue, reqs[p].now)
  BY <1>1, DeliveredRow
<1>4. messages[held] \in Message /\ receipts[h] \in Receipt
  BY <1>2, RowTypes
<1>5. held \in liveMessages(messages[r].queue, reqs[p].now)
  BY <1>2, <1>3, <1>4 DEF liveMessages, Message
<1>6. messages[held].visibilityDeadline <= reqs[p].now
  BY <1>3, <1>5 DEF Eligible, FifoEligible, SameGroup
<1>7. messages[held].visibilityDeadline = receipts[h].visibilityDeadline
  BY DEF LeaseExclusive, ReceiptAgrees
<1> QED
  BY <1>2, <1>3, <1>4, <1>6, <1>7 DEF Message, Receipt

\* As long as the statements of two sections do not interleave:
\* While a consumer can still use its receipt for a message of a FIFO group, no
\* receive delivers a message of that group, whatever now it works with and
\* however replays and visibility changes moved the deadline
\* (fifoCandidateMessages).
LEMMA HeldApart == SectionSpec => GroupHeld
<1> DEFINE Exclusive == TypeInv /\ NowNotAhead /\ LeaseExclusive
           Held == \A h \in DOMAIN receipts : \A r \in DOMAIN messages :
       LET held == receipts[h].message IN
       /\ receipts[h].active
       /\ receipts[h].visibilityDeadline > clock
       /\ ~messages[held].deleted
       /\ messages[held].retentionDeadline > clock
       /\ messages[held].queue = messages[r].queue
       /\ messages[r].queue \in FifoQueues
       /\ SameGroup(held, r)
       => messages'[r].receiveCount = messages[r].receiveCount
<1>1. Exclusive /\ [SectionNext]_planeVars => [Held]_planeVars
  BY HeldStep
<1>2. SectionInit => Exclusive
  BY TypeInit DEF SectionInit, NowNotAhead, LeaseExclusive, OneActiveReceipt, ReceiptAgrees
<1>3. Exclusive /\ [SectionNext]_planeVars => Exclusive'
  BY TypeStep, NowStep, ExclusiveStep
<1> QED
  BY <1>1, <1>2, <1>3, PTL DEF SectionSpec, GroupHeld

\* A selection round takes a live predecessor in the group before its successor.
LEMMA PredecessorChosen ==
  ASSUME TypeInv, NEW q \in FifoQueues, NEW now \in Nat, NEW k \in Nat, NEW c,
         Selected(q, k, c), Listed(q, k, c, now),
         NEW r \in liveMessages(q, now), NEW s \in Rows(c, k),
         SameGroup(r, s), messages[r].group # NoGroup, Precedes(r, s)
  PROVE  r \in Rows(c, k)
<1>1. TypeOK /\ r \in DOMAIN messages
  BY DEF TypeInv, liveMessages
<1>2. PICK i \in 1 .. k : s = c[i]
  BY DEF Rows
<1>3. s \in FifoEligible(q, now) /\ s \in DOMAIN messages
  BY <1>2 DEF Listed, Selected, Eligible
<1>4. messages[r] \in Message /\ messages[s] \in Message /\ DOMAIN messages \subseteq Nat
  BY <1>1, <1>3, RowTypes
<1>5. \A t \in liveMessages(q, now) :
        SameGroup(s, t) => /\ messages[t].visibilityDeadline <= now
                           /\ t = s \/ Precedes(t, s) => messageVisible(t, now)
  BY <1>3 DEF FifoEligible
<1>6. ASSUME NEW t \in liveMessages(q, now), SameGroup(r, t)
      PROVE  /\ messages[t].visibilityDeadline <= now
             /\ t = r \/ Precedes(t, r) => messageVisible(t, now)
  <2>1. SameGroup(s, t) /\ t \in DOMAIN messages
    BY <1>6 DEF SameGroup, liveMessages
  <2>2. messages[t] \in Message
    BY <1>1, <2>1, RowTypes
  <2>3. Precedes(t, r) => Precedes(t, s)
    BY <1>1, <1>3, <1>4, <2>1, <2>2 DEF Precedes, Message
  <2> QED
    BY <1>5, <2>1, <2>3
<1>7. r \in Eligible(q, now)
  BY <1>6 DEF Eligible, FifoEligible
<1>8. ~ListedBefore(q, s, r, now)
  <2>1. ~Precedes(s, r)
    BY <1>1, <1>3, <1>4 DEF Precedes, Message
  <2>2. SameGroup(s, r)
    BY DEF SameGroup
  <2> QED
    BY <2>1, <2>2 DEF ListedBefore
<1> QED
  BY <1>2, <1>7, <1>8 DEF Listed

LEMMA OvertakeStep ==
  ASSUME TypeInv, NowNotAhead, FifoNoOvertake, [SectionNext]_planeVars
  PROVE  FifoNoOvertake'
<1>1. TypeOK /\ clock \in Nat /\ clock' \in Nat /\ clock <= clock' /\ TypeOK'
  BY NextTables, TypeStep DEF TypeInv
<1>2. SUFFICES ASSUME NEW r \in DOMAIN messages', NEW s \in DOMAIN messages',
                      r < s,
                      messages'[r].sentAt <= messages'[s].sentAt,
                      messages'[r].queue = messages'[s].queue,
                      messages'[r].queue \in FifoQueues,
                      messages'[r].group = messages'[s].group,
                      messages'[r].group # NoGroup,
                      messages'[r].dlSource = NoQueue, messages'[s].dlSource = NoQueue,
                      ~messages'[r].deleted,
                      messages'[r].retentionDeadline > clock',
                      messages'[s].receiveCount > 0
               PROVE  messages'[r].receiveCount > 0
  BY DEF FifoNoOvertake, SameGroup, liveMessages
<1>3. DOMAIN messages' \subseteq Nat /\ DOMAIN messages = 1 .. Len(messages)
      /\ Len(messages) \in Nat
  BY <1>1, RowTypes DEF TypeOK
<1>4. s \in DOMAIN messages
  <2> SUFFICES ASSUME s \notin DOMAIN messages PROVE FALSE
    OBVIOUS
  <2>1. messages'[s].receiveCount = 0
    BY FreshRow
  <2> QED
    BY <1>2, <2>1
<1>5. r \in DOMAIN messages
  <2> SUFFICES ASSUME r \notin DOMAIN messages PROVE FALSE
    OBVIOUS
  <2>1. r = Len(messages) + 1
    BY FreshRow
  <2> QED
    BY <1>2, <1>3, <1>4, <2>1
<1>6. RowKept(r) /\ RowKept(s)
  BY <1>4, <1>5, HistoryStep DEF HistoryKept
<1>7. /\ messages[r] \in Message /\ messages[s] \in Message
      /\ messages'[s] \in Message
  BY <1>1, <1>2, <1>4, <1>5, RowTypes DEF TypeOK
<1>7a. /\ messages[r].receiveCount \in Nat /\ messages[s].receiveCount \in Nat
       /\ messages[r].retentionDeadline \in Nat
       /\ messages[r].sentAt \in Nat /\ messages[s].sentAt \in Nat
  BY <1>7 DEF Message
<1>8. /\ messages[r].sentAt <= messages[s].sentAt
      /\ messages[r].queue = messages[s].queue
      /\ messages[r].queue \in FifoQueues
      /\ SameGroup(r, s)
      /\ messages[r].group # NoGroup
      /\ messages[r].dlSource = NoQueue /\ messages[s].dlSource = NoQueue
      /\ ~messages[r].deleted
      /\ messages[r].retentionDeadline > clock
  <2>1. /\ messages'[r].sentAt = messages[r].sentAt
        /\ messages'[s].sentAt = messages[s].sentAt
        /\ messages'[r].group = messages[r].group
        /\ messages'[s].group = messages[s].group
        /\ messages'[r].retentionDeadline = messages[r].retentionDeadline
        /\ messages'[r].queue = messages[r].queue
        /\ messages'[s].queue = messages[s].queue
        /\ messages[r].dlSource = NoQueue /\ messages[s].dlSource = NoQueue
        /\ ~messages[r].deleted
    BY <1>2, <1>6 DEF RowKept, SameOrigin
  <2>2. messages[r].retentionDeadline > clock
    BY <1>1, <1>2, <1>7a, <2>1
  <2> QED
    BY <1>2, <2>1, <2>2 DEF SameGroup
<1>9. r \in liveMessages(messages[r].queue, clock)
  BY <1>5, <1>8 DEF liveMessages
<1>10. messages[s].receiveCount > 0 => messages[r].receiveCount > 0
  BY <1>2, <1>4, <1>5, <1>8, <1>9 DEF FifoNoOvertake
<1>11. messages'[r].receiveCount >= messages[r].receiveCount
  <2>1. CASE messages'[r].receiveCount = messages[r].receiveCount
    BY <1>7a, <2>1
  <2>2. CASE messages'[r].receiveCount # messages[r].receiveCount
    <3>1. PICK p, k, c :
            /\ p \in Requests /\ k \in Nat
            /\ LeaseEffect(reqs[p].queue, k, c, reqs[p].vis)
            /\ r \in Rows(c, k)
      BY <1>5, <2>2, DeliveredRow
    <3>2. messages'[r].receiveCount = messages[r].receiveCount + 1
      BY <1>5, <3>1 DEF LeaseEffect
    <3> QED
      BY <1>7a, <3>2
  <2> QED
    BY <2>1, <2>2
<1>12. CASE messages'[s].receiveCount = messages[s].receiveCount
  <2>1. messages[r].receiveCount > 0
    BY <1>2, <1>10, <1>12
  <2> DEFINE a == messages'[r].receiveCount
  <2>2. a >= messages[r].receiveCount /\ a \in Nat
    <3>1. messages'[r] \in Message
      BY <1>1, <1>2, <1>5, RowTypes DEF TypeOK
    <3> QED
      BY <1>11, <3>1 DEF Message
  <2> QED
    BY <1>7a, <2>1, <2>2
<1>13. CASE messages'[s].receiveCount # messages[s].receiveCount
  <2>1. PICK p, k, c :
          /\ p \in Requests /\ k \in Nat
          /\ reqs[p].now \in Nat /\ reqs[p].now <= clock
          /\ Selected(reqs[p].queue, k, c)
          /\ Listed(reqs[p].queue, k, c, reqs[p].now)
          /\ LeaseEffect(reqs[p].queue, k, c, reqs[p].vis)
          /\ s \in Rows(c, k)
          /\ messages[s].queue = reqs[p].queue
    BY <1>4, <1>13, DeliveredRow
  <2>2. r \in liveMessages(reqs[p].queue, reqs[p].now)
    BY <1>1, <1>5, <1>7, <1>8, <2>1 DEF liveMessages, Message
  <2>3. Precedes(r, s)
    BY <1>2, <1>7, <1>8 DEF Precedes, Message
  <2>4. r \in Rows(c, k)
    BY <1>8, <2>1, <2>2, <2>3, PredecessorChosen
  <2>5. messages'[r].receiveCount = messages[r].receiveCount + 1
    BY <1>5, <2>1, <2>4 DEF LeaseEffect
  <2> QED
    BY <1>7a, <2>5
<1> QED
  BY <1>12, <1>13

\* As long as the statements of two sections do not interleave:
\* Nothing overtakes within a FIFO group, whatever the number of receives, the
\* size of their batches and their stale now (sort of liveMessages,
\* fifoCandidateMessages).
LEMMA OrderApart == SectionSpec => []FifoNoOvertake
<1>1. SectionInit => TypeInv /\ NowNotAhead /\ FifoNoOvertake
  BY TypeInit DEF SectionInit, NowNotAhead, FifoNoOvertake
<1>2. TypeInv /\ NowNotAhead /\ FifoNoOvertake /\ [SectionNext]_planeVars
        => (TypeInv /\ NowNotAhead /\ FifoNoOvertake)'
  BY TypeStep, NowStep, OvertakeStep
<1> QED
  BY <1>1, <1>2, PTL DEF SectionSpec

-----------------------------------------------------------------------------
(* A purge is effective.                                                     *)

\* No row was sent in the future.
SentPast == \A r \in DOMAIN messages : messages[r].sentAt <= clock

\* Until it is deleted, a row that a purge found and that has not moved is
\* covered by the window that the queue row still carries.
PurgePending ==
  \A q \in Queues : \A r \in doomed[q].rows :
    /\ r \in DOMAIN messages
    /\ q \in PurgeableQueues
    /\ messages[r].queue = q /\ messages[r].dlSource = NoQueue =>
         \/ messages[r].deleted
         \/ purgeExpires[q] # 0 /\ messages[r].sentAt <= purgeExpires[q]

\* A round that selects with a later now finds the purged rows deleted.
PurgeSettled ==
  \A p \in Requests :
    reqs[p].op = "select" =>
      LET q == reqs[p].queue IN
      reqs[p].now > doomed[q].at =>
        \A r \in doomed[q].rows :
          messages[r].queue = q /\ messages[r].dlSource = NoQueue => messages[r].deleted

PurgeInv == /\ TypeInv
            /\ NowNotAhead
            /\ SentPast
            /\ PurgePending
            /\ PurgeSettled

\* The window of a purge ends after the purge, in whole seconds too.
LEMMA WindowAhead ==
  ASSUME NEW t \in Nat, Second <= PurgeCooldown
  PROVE  TruncateToSecond(t + PurgeCooldown) > t
<1>1. Second \in Nat \ {0} /\ PurgeCooldown \in Nat /\ t + PurgeCooldown \in Nat
  BY TimeAssumption
<1> DEFINE u == t + PurgeCooldown
<1>2. ASSUME NEW x \in Nat, NEW s \in Nat \ {0}
      PROVE  x % s \in Nat /\ x % s < s
  BY Z3
<1>3. u % Second \in Nat /\ u % Second < Second
  BY <1>1, <1>2
<1>4. TruncateToSecond(u) = u - (u % Second)
  BY DEF TruncateToSecond
<1>5. u - (u % Second) > t
  <2> DEFINE m == u % Second
  <2>1. m \in Nat /\ m < Second
    BY <1>3
  <2> HIDE DEF m
  <2> QED
    BY <1>1, <2>1
<1> QED
  BY <1>4, <1>5

\* The steps that touch the window of a purge.
LEMMA PurgeTables ==
  ASSUME [SectionNext]_planeVars
  PROVE  \/ UNCHANGED <<purgeExpires, doomed>>
         \/ maintain(clock) /\ UNCHANGED doomed
         \/ \E q \in PurgeableQueues : PurgeQueue(q)
<1>1. ASSUME NEW p \in Requests, StartRequest(p)
      PROVE  maintain(clock) /\ UNCHANGED doomed
  BY <1>1, QueueAssumption DEF StartRequest, SendMessageBatch, ReceiveMessage, DeleteMessageBatch,
              ChangeMessageVisibilityBatch, Begin
<1>2. ASSUME NEW p \in Requests, Proceed(p) \/ Disconnect(p), ~ReceiveLoop(p)
      PROVE  UNCHANGED <<purgeExpires, doomed>>
  BY <1>2 DEF Proceed, sendMessageEntry, replayReceiveAttempt, ReceiveNothing, RedriveRound,
              LeaseCandidates, PollWake, deleteByReceiptHandle,
              changeVisibilityByReceiptHandle, Disconnect
<1>3. ASSUME NEW p \in Requests, ReceiveLoop(p)
      PROVE  maintain(clock) /\ UNCHANGED doomed
  BY <1>3 DEF ReceiveLoop
<1> QED
  BY <1>1, <1>2, <1>3 DEF SectionNext, planeVars, Tick, RefusedRequest, DeleteQueue

LEMMA SentPastStep ==
  ASSUME TypeInv, NowNotAhead, SentPast, [SectionNext]_planeVars
  PROVE  SentPast'
<1>1. /\ clock \in Nat /\ clock' \in Nat /\ clock <= clock'
      /\ TypeOK /\ TypeOK'
  BY NextTables, TypeStep DEF TypeInv
<1>2. SUFFICES ASSUME NEW r \in DOMAIN messages' PROVE messages'[r].sentAt <= clock'
  BY DEF SentPast
<1>3. messages'[r].sentAt <= clock
  <2>1. CASE r \in DOMAIN messages
    BY <2>1, HistoryStep DEF HistoryKept, RowKept, SameOrigin, SentPast
  <2> QED
    BY <2>1, FreshRow
<1>4. messages'[r].sentAt \in Nat
  <2>1. messages'[r] \in Message
    BY <1>1 DEF TypeOK
  <2> QED
    BY <2>1 DEF Message
<1> DEFINE t == messages'[r].sentAt
<1>5. clock \in Nat /\ clock' \in Nat /\ clock <= clock' /\ t <= clock /\ t \in Nat
  BY <1>1, <1>3, <1>4
<1> HIDE DEF t
<1>6. t <= clock'
  BY <1>5
<1> QED
  BY <1>6 DEF t

LEMMA PendingStep ==
  ASSUME PurgeableQueues \subseteq HomeQueues, Second <= PurgeCooldown,
         PurgeInv, [SectionNext]_planeVars
  PROVE  PurgePending'
<1>1. TypeOK /\ TypeOK' /\ clock \in Nat /\ HistoryKept
  BY TypeStep, NextTables, HistoryStep DEF PurgeInv, TypeInv
<1>2. SUFFICES ASSUME NEW q \in Queues, NEW r \in doomed'[q].rows
               PROVE  /\ r \in DOMAIN messages'
                      /\ q \in PurgeableQueues
                      /\ messages'[r].queue = q /\ messages'[r].dlSource = NoQueue =>
                           \/ messages'[r].deleted
                           \/ /\ purgeExpires'[q] # 0
                              /\ messages'[r].sentAt <= purgeExpires'[q]
  BY DEF PurgePending
<1>3. ASSUME r \in doomed[q].rows
      PROVE  /\ r \in DOMAIN messages /\ r \in DOMAIN messages' /\ q \in PurgeableQueues
             /\ messages'[r].queue = q /\ messages'[r].dlSource = NoQueue =>
                  /\ messages[r].queue = q
                  /\ messages'[r].deleted \/ ~messages[r].deleted
                  /\ messages'[r].sentAt = messages[r].sentAt
                  /\ \/ messages[r].deleted
                     \/ purgeExpires[q] # 0 /\ messages[r].sentAt <= purgeExpires[q]
  BY <1>1, <1>3 DEF PurgeInv, PurgePending, HistoryKept, RowKept, SameOrigin
<1>4. CASE UNCHANGED <<purgeExpires, doomed>>
  BY <1>3, <1>4
<1>5. CASE maintain(clock) /\ UNCHANGED doomed
  <2>1. r \in doomed[q].rows
    BY <1>5
  <2>2. /\ messages'[r].deleted <=>
             messages[r].deleted \/ r \in ExpiredAt(clock) \/ r \in PurgedRows
        /\ purgeExpires'[q] =
             IF Maintained(q) /\ purgeExpires[q] <= clock THEN 0 ELSE purgeExpires[q]
    BY <1>1, <1>3, <1>5, <2>1, MaintainTables DEF maintain, reapQueue
  <2>3. CASE Maintained(q)
    BY <1>3, <2>1, <2>2, <2>3 DEF PurgedRows
  <2>4. CASE ~Maintained(q)
    BY <1>3, <2>1, <2>2, <2>4
  <2> QED
    BY <2>3, <2>4
<1>6. ASSUME NEW z \in PurgeableQueues, PurgeQueue(z)
      PROVE  /\ r \in DOMAIN messages'
             /\ q \in PurgeableQueues
             /\ messages'[r].queue = q /\ messages'[r].dlSource = NoQueue =>
                  \/ messages'[r].deleted
                  \/ /\ purgeExpires'[q] # 0
                     /\ messages'[r].sentAt <= purgeExpires'[q]
  <2>1. /\ UNCHANGED messages
        /\ purgeExpires \in [Queues -> Nat] /\ doomed \in [Queues -> [rows : SUBSET Nat, at : Nat]]
        /\ purgeExpires' = [purgeExpires EXCEPT ![z] = TruncateToSecond(clock + PurgeCooldown)]
        /\ doomed' = [doomed EXCEPT ![z] =
             [rows |-> {s \in DOMAIN messages : messages[s].queue = z}, at |-> clock]]
    BY <1>1, <1>6 DEF PurgeQueue, TypeOK
  <2>2. CASE q # z
    <3>1. r \in doomed[q].rows /\ purgeExpires'[q] = purgeExpires[q]
      BY <2>1, <2>2
    <3> QED
      BY <1>3, <2>1, <3>1
  <2>3. CASE q = z
    <3>1. /\ r \in DOMAIN messages
          /\ purgeExpires'[q] = TruncateToSecond(clock + PurgeCooldown)
      BY <2>1, <2>3
    <3>2. messages[r].sentAt <= clock /\ messages[r].sentAt \in Nat
      BY <1>1, <3>1, RowTypes DEF PurgeInv, SentPast, Message
    <3>3. purgeExpires'[q] > clock /\ purgeExpires'[q] \in Nat
      BY <1>1, <3>1, WindowAhead DEF TypeOK
    <3>4. purgeExpires'[q] # 0 /\ messages[r].sentAt <= purgeExpires'[q]
      <4> DEFINE w == purgeExpires'[q]
                 t == messages[r].sentAt
      <4>1. w \in Nat /\ t \in Nat /\ w > clock /\ t <= clock
        BY <3>2, <3>3
      <4> HIDE DEF w, t
      <4>2. w # 0 /\ t <= w
        BY <1>1, <4>1
      <4> QED
        BY <4>2 DEF w, t
    <3> QED
      BY <1>6, <2>1, <2>3, <3>1, <3>4
  <2> QED
    BY <2>2, <2>3
<1> QED
  BY <1>4, <1>5, <1>6, PurgeTables

LEMMA SettledStep ==
  ASSUME PurgeableQueues \subseteq HomeQueues, PurgeInv, [SectionNext]_planeVars
  PROVE  PurgeSettled'
<1>1. TypeOK /\ TypeOK' /\ clock \in Nat /\ HistoryKept /\ TypeInv
  BY TypeStep, NextTables, HistoryStep DEF PurgeInv, TypeInv
<1>2. SUFFICES ASSUME NEW p \in Requests, reqs'[p].op = "select",
                      NEW q, q = reqs'[p].queue,
                      reqs'[p].now > doomed'[q].at,
                      NEW r \in doomed'[q].rows,
                      messages'[r].queue = q, messages'[r].dlSource = NoQueue
               PROVE  messages'[r].deleted
  BY DEF PurgeSettled
<1>3. /\ reqs[p].op \in ReceiveOps
      /\ q = reqs[p].queue
      /\ reqs'[p].now = reqs[p].now
      /\ \/ reqs[p].op = "select"
         \/ maintain(clock) /\ clock' = clock
              /\ UNCHANGED <<deleted, doomed>> /\ QueueExists(q)
  BY <1>1, <1>2, ReceiveStep DEF ReceiveOps
<1>4. /\ reqs[p] \in ReceiveRequest /\ reqs[p] # Idle
      /\ q \in Queues /\ reqs[p].now \in Nat /\ reqs[p].now <= clock
  <2>1. reqs[p] \in ReceiveRequest /\ reqs[p] # Idle
    BY <1>1, <1>3, RequestKinds DEF ReceiveOps, Idle
  <2> QED
    BY <1>3, <2>1 DEF ReceiveRequest, PurgeInv, NowNotAhead
<1>5. doomed[q].rows = doomed'[q].rows /\ doomed[q].at = doomed'[q].at
  <2> SUFFICES ASSUME NEW z \in PurgeableQueues, PurgeQueue(z), q = z PROVE FALSE
    <3>1. ASSUME NEW z \in PurgeableQueues, PurgeQueue(z), q # z
          PROVE  doomed[q] = doomed'[q]
      BY <1>1, <3>1 DEF PurgeQueue, TypeOK
    <3> QED
      BY <3>1, PurgeTables
  <2>1. doomed'[q].at = clock
    BY <1>1, <1>4 DEF PurgeQueue, TypeOK
  <2> QED
    BY <1>1, <1>2, <1>3, <1>4, <2>1
<1>6. /\ r \in DOMAIN messages /\ q \in PurgeableQueues
      /\ messages[r].queue = q /\ messages[r].dlSource = NoQueue
      /\ messages[r].deleted => messages'[r].deleted
      /\ \/ messages[r].deleted
         \/ purgeExpires[q] # 0 /\ messages[r].sentAt <= purgeExpires[q]
  <2>1. r \in DOMAIN messages /\ q \in PurgeableQueues
    BY <1>2, <1>4, <1>5 DEF PurgeInv, PurgePending
  <2>2. RowKept(r)
    BY <1>1, <2>1 DEF HistoryKept
  <2> QED
    BY <1>2, <1>4, <1>5, <2>1, <2>2 DEF RowKept, PurgeInv, PurgePending
<1>7. CASE reqs[p].op = "select"
  BY <1>2, <1>3, <1>5, <1>6, <1>7 DEF PurgeInv, PurgeSettled
<1>8. CASE maintain(clock) /\ QueueExists(q)
  <2>1. Maintained(q)
    BY <1>6, <1>8 DEF Maintained, QueueExists
  <2>2. messages'[r].deleted <=>
          messages[r].deleted \/ r \in ExpiredAt(clock) \/ r \in PurgedRows
    BY <1>1, <1>6, <1>8, MaintainTables
  <2> QED
    BY <1>6, <2>1, <2>2 DEF PurgedRows
<1> QED
  BY <1>3, <1>7, <1>8

\* As long as the statements of two sections do not interleave:
\* A purge is effective although it only records a window that the next
\* maintenance pass turns into deletions, at the granularity of whole seconds:
\* on the queues of the configured account, and with a cooldown of at least a
\* second, a receive delivers a purged message only with a now from before the
\* purge (PurgeQueue, reapQueue, DeleteMessagesByQueueBefore).
LEMMA PurgeApart ==
  ASSUME PurgeableQueues \subseteq HomeQueues, Second <= PurgeCooldown
  PROVE  SectionSpec => PurgedNotDelivered
<1> DEFINE Unreached == \A q \in Queues : \A r \in doomed[q].rows :
       /\ messages[r].queue = q
       /\ messages[r].dlSource = NoQueue
       /\ messages'[r].receiveCount > messages[r].receiveCount
       => \E p \in Requests : /\ reqs[p].op = "select"
                              /\ reqs[p].queue = q
                              /\ reqs[p].now <= doomed[q].at
<1>1. SectionInit => PurgeInv
  <2> SUFFICES ASSUME SectionInit PROVE PurgeInv
    OBVIOUS
  <2>1. /\ messages = << >> /\ \A p \in Requests : reqs[p] = Idle
        /\ \A q \in Queues : doomed[q].rows = {}
    BY DEF SectionInit
  <2> QED
    BY <2>1, TypeInit DEF PurgeInv, NowNotAhead, SentPast, PurgePending, PurgeSettled, Idle
<1>2. PurgeInv /\ [SectionNext]_planeVars => PurgeInv'
  BY TypeStep, NowStep, SentPastStep, PendingStep, SettledStep DEF PurgeInv
<1>3. PurgeInv /\ [SectionNext]_planeVars => Unreached
  <2> SUFFICES ASSUME PurgeInv, [SectionNext]_planeVars, NEW q \in Queues, NEW r \in doomed[q].rows,
                      messages[r].queue = q, messages[r].dlSource = NoQueue,
                      messages'[r].receiveCount > messages[r].receiveCount
               PROVE  \E p \in Requests : /\ reqs[p].op = "select"
                                          /\ reqs[p].queue = q
                                          /\ reqs[p].now <= doomed[q].at
    OBVIOUS
  <2>1. TypeInv /\ NowNotAhead /\ TypeOK /\ r \in DOMAIN messages
    BY DEF PurgeInv, PurgePending, TypeInv
  <2>2. messages'[r].receiveCount # messages[r].receiveCount
    <3>1. messages[r].receiveCount \in Nat
      BY <2>1, RowTypes DEF Message
    <3> QED
      BY <3>1
  <2>3. PICK p \in Requests : /\ reqs[p].op = "select" /\ reqs[p].now \in Nat
                              /\ messages[r].queue = reqs[p].queue
                              /\ ~messages[r].deleted
    BY <2>1, <2>2, DeliveredRow
  <2>4. ~(reqs[p].now > doomed[q].at) /\ doomed[q].at \in Nat
    BY <2>1, <2>3 DEF PurgeInv, PurgeSettled, TypeOK
  <2> QED
    BY <2>3, <2>4
<1> HIDE DEF Unreached
<1>4. PurgeInv /\ [SectionNext]_planeVars => [Unreached]_planeVars
  BY <1>3
<1>5. SectionSpec => [][Unreached]_planeVars
  BY <1>1, <1>2, <1>4, PTL DEF SectionSpec
<1> QED
  BY <1>5 DEF PurgedNotDelivered, Unreached

-----------------------------------------------------------------------------
(* The receipts of a message.                                                *)

\* The receipts ever issued on row r.
IssuedFor(r) == {h \in DOMAIN receipts : receipts[h].message = r}

LEMMA IssuedFinite ==
  ASSUME TypeOK, NEW q, NEW r
  PROVE  /\ IsFiniteSet(DOMAIN receipts)
         /\ IsFiniteSet(IssuedFor(r))
         /\ IsFiniteSet(IssuedBy(q, r))
         /\ Cardinality(IssuedBy(q, r)) \in Nat /\ Cardinality(IssuedFor(r)) \in Nat
         /\ Cardinality(IssuedBy(q, r)) <= Cardinality(IssuedFor(r))
<1>1. Len(receipts) \in Nat /\ DOMAIN receipts = 1 .. Len(receipts)
  BY RowTypes
<1>2. IsFiniteSet(DOMAIN receipts)
  BY <1>1, FS_Interval
<1>3. IssuedFor(r) \in SUBSET (DOMAIN receipts) /\ IssuedBy(q, r) \in SUBSET IssuedFor(r)
  BY DEF IssuedFor, IssuedBy
<1>4. IsFiniteSet(IssuedFor(r))
  BY <1>2, <1>3, FS_Subset
<1>5. IsFiniteSet(IssuedBy(q, r)) /\ Cardinality(IssuedBy(q, r)) <= Cardinality(IssuedFor(r))
  BY <1>3, <1>4, FS_Subset
<1> QED
  BY <1>2, <1>4, <1>5, FS_CardinalityType

\* A step that leases nothing issues nothing; a row it appends has no receipt.
LEMMA IssuedKept ==
  ASSUME TypeInv, NowNotAhead, [SectionNext]_planeVars, NothingLeased, NEW r \in DOMAIN messages'
  PROVE  /\ IssuedFor(r)' = IssuedFor(r)
         /\ \A q : IssuedBy(q, r)' = IssuedBy(q, r)
         /\ \/ /\ r \in DOMAIN messages
               /\ messages'[r].receiveCount = messages[r].receiveCount
            \/ messages'[r].receiveCount = 0 /\ IssuedFor(r) = {}
<1>1. DOMAIN receipts' = DOMAIN receipts /\ \A h \in DOMAIN receipts : ReceiptKept(h)
  BY HistoryStep DEF NothingLeased, HistoryKept
<1>2. IssuedFor(r)' = IssuedFor(r)
  BY <1>1 DEF IssuedFor, ReceiptKept
<1>3. \A q : IssuedBy(q, r)' = IssuedBy(q, r)
  BY <1>1 DEF IssuedBy, ReceiptKept
<1>4. CASE r \in DOMAIN messages
  BY <1>2, <1>3, <1>4 DEF NothingLeased
<1>5. CASE r \notin DOMAIN messages
  <2>1. messages'[r].receiveCount = 0
    BY <1>5, FreshRow
  <2>2. IssuedFor(r) = {}
    BY <1>5 DEF IssuedFor, TypeInv, ReceiptsRefer
  <2> QED
    BY <1>2, <1>3, <2>1, <2>2
<1> QED
  BY <1>4, <1>5

\* A lease issues one receipt for each of its rows and none for the others.
LEMMA IssuedLease ==
  ASSUME TypeInv, NEW q \in Queues, NEW k \in Nat, NEW c, NEW vis \in Nat,
         Selected(q, k, c), LeaseEffect(q, k, c, vis), NEW r
  PROVE  /\ r \notin Rows(c, k) =>
              IssuedFor(r)' = IssuedFor(r) /\ \A z : IssuedBy(z, r)' = IssuedBy(z, r)
         /\ r \in Rows(c, k) =>
              \E g : /\ g \notin DOMAIN receipts
                     /\ IssuedFor(r)' = IssuedFor(r) \cup {g}
                     /\ IssuedBy(q, r)' = IssuedBy(q, r) \cup {g}
                     /\ \A z : z # q => IssuedBy(z, r)' = IssuedBy(z, r)
<1>1. /\ Len(receipts) \in Nat /\ DOMAIN receipts = 1 .. Len(receipts)
      /\ DOMAIN receipts' = 1 .. (Len(receipts) + k)
  BY RowTypes DEF TypeInv, LeaseEffect
<1>2. \A h \in DOMAIN receipts : /\ h \in DOMAIN receipts'
                                 /\ receipts'[h].message = receipts[h].message
                                 /\ receipts'[h].queue = receipts[h].queue
  <2>1. \A h \in DOMAIN receipts : ReceiptKept(h)
    BY LeaseReceipts
  <2> QED
    BY <1>1, <2>1 DEF ReceiptKept
<1>3. \A h \in DOMAIN receipts' \ DOMAIN receipts :
        /\ h - Len(receipts) \in 1 .. k
        /\ receipts'[h].message = c[h - Len(receipts)]
        /\ receipts'[h].queue = q
  BY LeaseReceipts
<1>4. CASE r \notin Rows(c, k)
  <2>1. \A h \in DOMAIN receipts' \ DOMAIN receipts : receipts'[h].message # r
    BY <1>3, <1>4 DEF Rows
  <2>2. IssuedFor(r)' = IssuedFor(r)
    BY <1>2, <2>1 DEF IssuedFor
  <2>3. \A z : IssuedBy(z, r)' = IssuedBy(z, r)
    BY <1>2, <2>1 DEF IssuedBy
  <2> QED
    BY <1>4, <2>2, <2>3
<1>5. CASE r \in Rows(c, k)
  <2>1. PICK i \in 1 .. k : c[i] = r
    BY <1>5 DEF Rows
  <2> DEFINE g == Len(receipts) + i
  <2>2. g \in DOMAIN receipts' /\ g \notin DOMAIN receipts /\ g - Len(receipts) = i
    BY <1>1
  <2>3. receipts'[g].message = r /\ receipts'[g].queue = q
    BY <1>3, <2>1, <2>2
  <2>4. \A h \in DOMAIN receipts' \ DOMAIN receipts : receipts'[h].message = r => h = g
    <3> SUFFICES ASSUME NEW h \in DOMAIN receipts' \ DOMAIN receipts,
                        receipts'[h].message = r
                 PROVE  h = g
      OBVIOUS
    <3>1. h - Len(receipts) \in 1 .. k /\ c[h - Len(receipts)] = c[i]
      BY <1>3, <2>1
    <3>2. h - Len(receipts) = i
      BY <3>1 DEF Selected
    <3> QED
      BY <1>1, <3>2
  <2> HIDE DEF g
  <2>5. IssuedFor(r)' = IssuedFor(r) \cup {g}
    BY <1>2, <2>2, <2>3, <2>4 DEF IssuedFor
  <2>6. IssuedBy(q, r)' = IssuedBy(q, r) \cup {g}
    BY <1>2, <2>2, <2>3, <2>4 DEF IssuedBy
  <2>7. \A z : z # q => IssuedBy(z, r)' = IssuedBy(z, r)
    BY <1>2, <2>2, <2>3, <2>4 DEF IssuedBy
  <2> QED
    BY <1>5, <2>2, <2>5, <2>6, <2>7
<1> QED
  BY <1>4, <1>5

-----------------------------------------------------------------------------
(* Deliveries.                                                               *)

\* The count of a row is the number of receipts issued for it.
ReceiptsCounted ==
  \A r \in DOMAIN messages : messages[r].receiveCount = Cardinality(IssuedFor(r))

LEMMA CountStep ==
  ASSUME TypeInv, NowNotAhead, ReceiptsCounted, [SectionNext]_planeVars
  PROVE  ReceiptsCounted'
<1>1. TypeOK
  BY DEF TypeInv
<1>2. \A r \in DOMAIN messages : messages[r].receiveCount = Cardinality(IssuedFor(r))
  BY DEF ReceiptsCounted, IssuedFor
<1>3. SUFFICES ASSUME NEW r \in DOMAIN messages'
               PROVE  messages'[r].receiveCount = Cardinality(IssuedFor(r)')
  BY DEF ReceiptsCounted, IssuedFor
<1>4. CASE NothingLeased
  <2>1. IssuedFor(r)' = IssuedFor(r)
    BY <1>4, IssuedKept
  <2>2. IssuedFor(r) = {} => Cardinality(IssuedFor(r)) = 0
    BY FS_EmptySet
  <2> QED
    BY <1>2, <1>4, <2>1, <2>2, IssuedKept
<1>5. ASSUME NEW p \in Requests, LeaseCandidates(p)
      PROVE  messages'[r].receiveCount = Cardinality(IssuedFor(r)')
  <2>1. reqs[p].queue \in Queues /\ reqs[p].vis \in Nat
    BY <1>5, LeaseFacts DEF ReceiveRequest
  <2>2. PICK k, c : /\ k \in Nat
                   /\ Selected(reqs[p].queue, k, c)
                   /\ LeaseEffect(reqs[p].queue, k, c, reqs[p].vis)
    BY <1>5, LeaseFacts
  <2>3. r \in DOMAIN messages
    BY <2>2 DEF LeaseEffect
  <2>4. CASE r \notin Rows(c, k)
    <3>1. messages'[r] = messages[r]
      BY <2>2, <2>3, <2>4 DEF LeaseEffect
    <3>2. IssuedFor(r)' = IssuedFor(r)
      BY <2>1, <2>2, <2>4, IssuedLease
    <3> QED
      BY <1>2, <2>3, <3>1, <3>2
  <2>5. CASE r \in Rows(c, k)
    <3>1. messages'[r].receiveCount = messages[r].receiveCount + 1
      BY <2>2, <2>3, <2>5 DEF LeaseEffect
    <3>2. PICK g : g \notin DOMAIN receipts /\ IssuedFor(r)' = IssuedFor(r) \cup {g}
      BY <2>1, <2>2, <2>5, IssuedLease
    <3>3. IsFiniteSet(IssuedFor(r)) /\ g \notin IssuedFor(r)
      BY <1>1, <3>2, IssuedFinite DEF IssuedFor
    <3>4. Cardinality(IssuedFor(r) \cup {g}) = Cardinality(IssuedFor(r)) + 1
      BY <3>3, FS_AddElement
    <3> QED
      BY <1>2, <2>3, <3>1, <3>2, <3>4
  <2> QED
    BY <2>4, <2>5
<1> QED
  BY <1>4, <1>5, HistoryStep

LEMMA CapStep ==
  ASSUME TypeInv, NowNotAhead, ReceiptsCounted, LeaseGrantsCapped, [SectionNext]_planeVars
  PROVE  LeaseGrantsCapped'
<1>1. TypeOK
  BY DEF TypeInv
<1>2. SUFFICES ASSUME NEW r \in DOMAIN messages', NEW q \in Queues, RedriveTarget[q] # NoQueue
               PROVE  Cardinality(IssuedBy(q, r)') <= MaxReceiveCount[q]
  BY DEF LeaseGrantsCapped, IssuedBy
<1>3. MaxReceiveCount[q] \in Nat
  BY QueueAssumption
<1>4. r \in DOMAIN messages => Cardinality(IssuedBy(q, r)) <= MaxReceiveCount[q]
  BY <1>2 DEF LeaseGrantsCapped
<1>5. CASE NothingLeased
  <2>1. IssuedBy(q, r)' = IssuedBy(q, r)
    BY <1>5, IssuedKept
  <2>2. CASE r \in DOMAIN messages
    BY <1>4, <2>1, <2>2
  <2>3. CASE IssuedFor(r) = {}
    <3>1. Cardinality(IssuedBy(q, r)) = 0
      <4>1. IssuedBy(q, r) = {}
        BY <2>3 DEF IssuedFor, IssuedBy
      <4> QED
        BY <4>1, FS_EmptySet
    <3> QED
      BY <1>3, <2>1, <3>1
  <2> QED
    BY <1>5, <2>2, <2>3, IssuedKept
<1>6. ASSUME NEW p \in Requests, LeaseCandidates(p)
      PROVE  Cardinality(IssuedBy(q, r)') <= MaxReceiveCount[q]
  <2>1. reqs[p].queue \in Queues /\ reqs[p].vis \in Nat
    BY <1>6, LeaseFacts DEF ReceiveRequest
  <2>2. PICK k, c : /\ k \in Nat
                    /\ Selected(reqs[p].queue, k, c)
                    /\ \A i \in 1 .. k : ~shouldRedrive(reqs[p].queue, c[i])
                    /\ LeaseEffect(reqs[p].queue, k, c, reqs[p].vis)
    BY <1>6, LeaseFacts
  <2>3. r \in DOMAIN messages
    BY <2>2 DEF LeaseEffect
  <2>4. CASE r \notin Rows(c, k) \/ q # reqs[p].queue
    <3>1. IssuedBy(q, r)' = IssuedBy(q, r)
      BY <2>1, <2>2, <2>4, IssuedLease
    <3> QED
      BY <1>4, <2>3, <3>1
  <2>5. CASE r \in Rows(c, k) /\ q = reqs[p].queue
    <3>1. ~shouldRedrive(q, r)
      BY <2>2, <2>5 DEF Rows
    <3>2. PICK g : g \notin DOMAIN receipts /\ IssuedBy(q, r)' = IssuedBy(q, r) \cup {g}
      BY <2>1, <2>2, <2>5, IssuedLease
    <3>3. /\ IsFiniteSet(IssuedBy(q, r)) /\ g \notin IssuedBy(q, r)
          /\ Cardinality(IssuedBy(q, r)) \in Nat /\ Cardinality(IssuedFor(r)) \in Nat
          /\ Cardinality(IssuedBy(q, r)) <= Cardinality(IssuedFor(r))
      BY <1>1, <3>2, IssuedFinite DEF IssuedBy
    <3>4. Cardinality(IssuedBy(q, r) \cup {g}) = Cardinality(IssuedBy(q, r)) + 1
      BY <3>3, FS_AddElement
    <3>5. messages[r].receiveCount = Cardinality(IssuedFor(r))
      BY <2>3 DEF ReceiptsCounted, IssuedFor
    <3>6. Cardinality(IssuedFor(r)) < MaxReceiveCount[q]
      BY <1>2, <1>3, <3>1, <3>3, <3>5 DEF shouldRedrive
    <3> QED
      BY <1>3, <3>2, <3>3, <3>4, <3>6
  <2> QED
    BY <2>4, <2>5
<1> QED
  BY <1>5, <1>6, HistoryStep

\* As long as the statements of two sections do not interleave:
\* A queue with a redrive policy leases a message at most maxReceiveCount times,
\* also when its dead-letter queue is gone, a batch of candidates is redriven
\* while another receive selects, or the message comes back to it
\* (shouldRedrive in selectMessagesForReceive).
LEMMA CapApart == SectionSpec => []LeaseGrantsCapped
<1> DEFINE Inv == TypeInv /\ NowNotAhead /\ ReceiptsCounted /\ LeaseGrantsCapped
<1>1. SectionInit => Inv
  BY TypeInit DEF SectionInit, NowNotAhead, ReceiptsCounted, LeaseGrantsCapped
<1>2. Inv /\ [SectionNext]_planeVars => Inv'
  BY TypeStep, NowStep, CountStep, CapStep
<1> QED
  BY <1>1, <1>2, PTL DEF SectionSpec

=============================================================================
