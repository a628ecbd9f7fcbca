---------------------------- MODULE MessagePlane ----------------------------
(***************************************************************************)
(* The message plane of the emulator: SendMessage(Batch), ReceiveMessage    *)
(* with long polling and receive-attempt replay, DeleteMessage(Batch),      *)
(* ChangeMessageVisibility(Batch), PurgeQueue, DeleteQueue and the          *)
(* maintenance pass every data-plane request runs first                     *)
(* (src/internal/service/messages.go, with the rows of                      *)
(* src/internal/storage/sqlite as its state).                               *)
(*                                                                          *)
(* Each request is a process that holds what its Go handler holds in local  *)
(* variables, in particular the time `now' captured when the handler was    *)
(* entered.  A step is one section of a handler: a maintenance pass with    *)
(* the queue lookup, one batch entry, one replay, one selection round, or   *)
(* one wake-up of the long poll.  Requests interleave between sections, so  *)
(* a request may use a queue row or a `now' that is already stale.  A       *)
(* section is several autocommitted statements in the code; PlaneStatements *)
(* takes it apart, and its Spec, which has both grains, is the              *)
(* specification of the message plane.  SectionSpec below is the message    *)
(* plane as long as no request comes between two statements of another's    *)
(* section and none is cut off inside one.                                  *)
(*                                                                          *)
(* Queues exist from the start with constant attributes, no attribute       *)
(* change is pending and no message move task runs, so                      *)
(* ApplyDueQueueMutations and processMoveTasks change nothing here.         *)
(***************************************************************************)
EXTENDS Naturals, Sequences, FiniteSets

CONSTANTS
  Queues,           \* the queue rows
  NoQueue,          \* "" / NULL where a queue is named
  FifoQueues,       \* queues with FifoQueue = true
  HomeQueues,       \* queues of the configured account, the ones maintain lists
  GroupScoped,      \* FIFO queues with DeduplicationScope = messageGroup
  ContentBased,     \* FIFO queues with ContentBasedDeduplication = true
  RedriveTarget,    \* RedrivePolicy.deadLetterTargetArn, or NoQueue
  MaxReceiveCount,  \* RedrivePolicy.maxReceiveCount
  Retention,        \* MessageRetentionPeriod
  DelaySeconds,     \* DelaySeconds of the queue
  Groups, NoGroup,  \* MessageGroupId values; "" when absent
  DedupIds, NoDedup,\* deduplication ids and body digests; "" when absent
  NoDelay,          \* DelaySeconds absent from a send entry
  AttemptIds, NoAttempt, \* ReceiveRequestAttemptId values; "" when absent
  Requests,         \* requests that can be in flight at the same time
  SendBatches,      \* the entry lists clients send
  ReceiveInputs,    \* the parameter records of ReceiveMessage
  ChangeTimeouts,   \* VisibilityTimeout values of ChangeMessageVisibility
  ClientQueues,     \* queues clients send to, receive from and so on
  PurgeableQueues, DeletableQueues, \* queues clients may purge or delete
  DedupWindow,      \* fifoDedupWindow, 5 minutes
  MaxVisibility,    \* 12 hours, 43200 seconds
  PurgeCooldown,    \* cfg.PurgeCooldown
  WakeFrequency,    \* cfg.LongPollWakeFrequency
  Second,           \* clock ticks per second: queue rows store whole seconds
  MaxClock, MaxRows, MaxReceipts, MaxBatch \* bounds of the instance

(***************************************************************************)
(* A send entry: ok says that body, attributes, size and delay range pass   *)
(* validation, body stands for the SHA-256 of the body.                     *)
(***************************************************************************)
Entry == [ok : BOOLEAN, body : DedupIds, delay : Nat \cup {NoDelay},
          group : Groups \cup {NoGroup}, dedup : DedupIds \cup {NoDedup}]

ReceiveInput == [max : Nat \ {0}, vis : 0 .. MaxVisibility, wait : Nat,
                 attempt : AttemptIds \cup {NoAttempt}]

ASSUME QueueAssumption ==
  /\ NoQueue \notin Queues
  /\ FifoQueues \subseteq Queues
  /\ HomeQueues \subseteq Queues
  /\ GroupScoped \subseteq FifoQueues
  /\ ContentBased \subseteq FifoQueues
  /\ ClientQueues \subseteq Queues
  /\ PurgeableQueues \subseteq Queues
  /\ DeletableQueues \subseteq Queues
  /\ RedriveTarget \in [Queues -> Queues \cup {NoQueue}]
  /\ MaxReceiveCount \in [Queues -> Nat \ {0}]
  /\ Retention \in [Queues -> Nat \ {0}]
  /\ DelaySeconds \in [Queues -> Nat]

ASSUME SentinelAssumption ==
  /\ NoGroup \notin Groups
  /\ NoDedup \notin DedupIds
  /\ NoDelay \notin Nat
  /\ NoAttempt \notin AttemptIds

ASSUME InputAssumption ==
  /\ \A b \in SendBatches : b \in Seq(Entry) /\ b # << >>
  /\ ReceiveInputs \subseteq ReceiveInput
  /\ ChangeTimeouts \subseteq Nat

ASSUME TimeAssumption ==
  /\ DedupWindow \in Nat \ {0}
  /\ MaxVisibility \in Nat
  /\ PurgeCooldown \in Nat
  /\ WakeFrequency \in Nat \ {0}
  /\ Second \in Nat \ {0}
  /\ MaxClock \in Nat /\ MaxRows \in Nat /\ MaxReceipts \in Nat /\ MaxBatch \in Nat

VARIABLES
  clock,        \* s.clock.Now()
  deleted,      \* queues whose row has deleted_at set
  purgeExpires, \* queue -> purge_expires_at, 0 when NULL
  messages,     \* the messages table: row id -> row
  receipts,     \* the receipts table: handle -> row
  ledger,       \* the dedup_ledger table
  attempts,     \* the receive_attempts rows that are not invalidated
  reqs,         \* request -> local state of its handler
  accepted,     \* history: the FIFO sends that inserted a message
  doomed        \* history: queue -> rows and time of the last accepted purge

planeVars == <<clock, deleted, purgeExpires, messages, receipts, ledger, attempts,
          reqs, accepted, doomed>>

-----------------------------------------------------------------------------
(* The rows and the local states of the handlers.                           *)

Message == [queue : Queues, sentAt : Nat, receiveCount : Nat,
            availableAt : Nat, visibilityDeadline : Nat,
            retentionDeadline : Nat, deleted : BOOLEAN,
            group : Groups \cup {NoGroup}, dlSource : Queues \cup {NoQueue}]

Receipt == [queue : Queues, message : Nat, issuedAt : Nat,
            visibilityDeadline : Nat, active : BOOLEAN]

LedgerEntry == [queue : Queues, scope : Groups \cup {NoGroup}, dedup : DedupIds,
                row : Nat, expiresAt : Nat]

Attempt == [queue : Queues, attempt : AttemptIds, response : Seq(Nat),
            expiresAt : Nat]

Send == [queue : Queues, scope : Groups \cup {NoGroup}, dedup : DedupIds,
         row : Nat, at : Nat, clk : Nat]

Idle == [op |-> "idle"]

SendRequest == [op : {"send"}, queue : Queues, now : Nat, entries : Seq(Entry)]

DeleteRequest == [op : {"delete"}, queue : Queues, now : Nat, handles : Seq(Nat)]

Change == [handle : Nat, timeout : Nat]

ChangeRequest == [op : {"change"}, queue : Queues, now : Nat, changes : Seq(Change)]

ReceiveRequest == [op : {"replay", "loop", "select", "sleep"}, queue : Queues,
                   now : Nat, max : Nat \ {0}, vis : Nat, deadline : Nat,
                   wakeAt : Nat, attempt : AttemptIds \cup {NoAttempt}]

Request == {Idle} \cup SendRequest \cup DeleteRequest \cup ChangeRequest
                  \cup ReceiveRequest

TypeOK ==
  /\ clock \in Nat
  /\ deleted \in SUBSET Queues
  /\ purgeExpires \in [Queues -> Nat]
  /\ messages \in Seq(Message)
  /\ receipts \in Seq(Receipt)
  /\ ledger \in SUBSET LedgerEntry
  /\ attempts \in SUBSET Attempt
  /\ reqs \in [Requests -> Request]
  /\ accepted \in SUBSET Send
  /\ doomed \in [Queues -> [rows : SUBSET Nat, at : Nat]]

-----------------------------------------------------------------------------
(* Helpers.                                                                  *)

MinOf(a, b) == IF a <= b THEN a ELSE b

\* time.Unix(): the queue row keeps whole seconds.
TruncateToSecond(t) == t - (t % Second)

Return(p) == reqs' = [reqs EXCEPT ![p] = Idle]

Goto(p, pc) == reqs' = [reqs EXCEPT ![p].op = pc]

\* The end of a batch entry: `rest' is the request without that entry.
NextEntry(p, batch, rest) ==
  reqs' = [reqs EXCEPT ![p] = IF Len(batch) = 1 THEN Idle ELSE rest]

\* lookupQueueByURL: a tombstoned queue does not exist.
QueueExists(q) == q \notin deleted

\* Faulty variant: prior receipts stay active.
ReceiptsDeactivated_None(R) == receipts

\* DeactivateReceiptsByMessage, for the rows in R.
ReceiptsDeactivated(R) ==
  [h \in DOMAIN receipts |->
     [receipts[h] EXCEPT !.active = @ /\ receipts[h].message \notin R]]

-----------------------------------------------------------------------------
(* maintain and reapQueue.                                                   *)

\* The rows reapQueue visits: live queues of the configured account.
Maintained(q) == q \in HomeQueues \ deleted

ExpiredAt(now) ==
  {r \in DOMAIN messages : /\ Maintained(messages[r].queue)
                           /\ ~messages[r].deleted
                           /\ messages[r].retentionDeadline <= now}

\* Faulty variant: the cutoff is computed back from the stored whole second.
PurgedRows_RequestCutoff ==
  {r \in DOMAIN messages :
     LET q == messages[r].queue
     IN  /\ Maintained(q)
         /\ purgeExpires[q] # 0
         /\ messages[r].sentAt + PurgeCooldown <= purgeExpires[q]}

\* The rows DeleteMessagesByQueueBefore deletes: sent up to the END of the
\* purge window.
PurgedRows ==
  {r \in DOMAIN messages :
     LET q == messages[r].queue
     IN  /\ Maintained(q)
         /\ purgeExpires[q] # 0
         /\ messages[r].sentAt <= purgeExpires[q]}

reapQueue(now) ==
  /\ messages' = [r \in DOMAIN messages |->
       [messages[r] EXCEPT
          !.deleted = @ \/ r \in ExpiredAt(now) \/ r \in PurgedRows,
          !.visibilityDeadline = IF r \in ExpiredAt(now) THEN 0 ELSE @]]
  /\ receipts' = ReceiptsDeactivated(ExpiredAt(now))
  /\ purgeExpires' = [q \in Queues |->
       IF Maintained(q) /\ purgeExpires[q] <= now THEN 0 ELSE purgeExpires[q]]

maintain(now) ==
  /\ ledger' = {e \in ledger : e.expiresAt > now}
  /\ reapQueue(now)

\* The start of a data-plane handler: capture now, maintain, look up the
\* queue; `req' is the handler's state when the lookup succeeds.
Begin(p, q, req) ==
  /\ reqs[p] = Idle
  /\ maintain(clock)
  /\ reqs' = [reqs EXCEPT ![p] = IF QueueExists(q) THEN req ELSE Idle]
  /\ UNCHANGED <<clock, deleted, attempts, accepted, doomed>>

\* A request refused after its maintenance pass: malformed batch, parameter
\* out of range.
RefusedRequest ==
  /\ maintain(clock)
  /\ UNCHANGED <<clock, deleted, attempts, reqs, accepted, doomed>>

-----------------------------------------------------------------------------
(* SendMessage, SendMessageBatch and sendMessageEntry.                       *)

SendMessageBatch(p, q, entries) ==
  /\ Len(messages) + Len(entries) <= MaxRows
  /\ Begin(p, q, [op |-> "send", queue |-> q, now |-> clock, entries |-> entries])

\* The checks of sendMessageEntry, in the queue type's terms.
EntryValid(q, e) ==
  /\ e.ok
  /\ q \in FifoQueues => /\ e.delay = NoDelay
                         /\ e.group # NoGroup
                         /\ e.dedup # NoDedup \/ q \in ContentBased
  /\ q \notin FifoQueues => e.dedup = NoDedup

EffectiveDedup(e) == IF e.dedup = NoDedup THEN e.body ELSE e.dedup

dedupScopeKey(q, e) == IF q \in GroupScoped THEN e.group ELSE NoGroup

LedgerKey(q, e) == [queue |-> q, scope |-> dedupScopeKey(q, e),
                    dedup |-> EffectiveDedup(e)]

Matches(x, key) == /\ x.queue = key.queue
                   /\ x.scope = key.scope
                   /\ x.dedup = key.dedup

\* Faulty variant: the last tick of the window no longer counts.
Duplicate_ShortWindow(q, e, now) ==
  /\ q \in FifoQueues
  /\ \E x \in ledger : Matches(x, LedgerKey(q, e)) /\ x.expiresAt > now + 1

\* DedupEntry: the ledger row that answers for this send.
Duplicate(q, e, now) ==
  /\ q \in FifoQueues
  /\ \E x \in ledger : Matches(x, LedgerKey(q, e)) /\ x.expiresAt > now

\* Faulty variant: group and deduplication id are swapped.
NewMessage_SwapsIds(q, e, now) ==
  [queue |-> q, sentAt |-> now, receiveCount |-> 0, availableAt |-> now,
   visibilityDeadline |-> 0, retentionDeadline |-> now + Retention[q],
   deleted |-> FALSE, group |-> e.dedup, dlSource |-> NoQueue]

NewMessage(q, e, now) ==
  [queue |-> q, sentAt |-> now, receiveCount |-> 0,
   availableAt |-> now + (IF e.delay = NoDelay THEN DelaySeconds[q] ELSE e.delay),
   visibilityDeadline |-> 0, retentionDeadline |-> now + Retention[q],
   deleted |-> FALSE, group |-> e.group, dlSource |-> NoQueue]

\* InsertDedupEntry: INSERT OR REPLACE on (queue, scope, dedup id).
NewLedger(q, e, row, now) ==
  {x \in ledger : ~Matches(x, LedgerKey(q, e))}
    \cup {[queue |-> q, scope |-> dedupScopeKey(q, e), dedup |-> EffectiveDedup(e),
           row |-> row, expiresAt |-> now + DedupWindow]}

\* What is remembered of an accepted FIFO send.
NewSend(q, e, row, now) ==
  [queue |-> q, scope |-> dedupScopeKey(q, e), dedup |-> EffectiveDedup(e),
   row |-> row, at |-> now, clk |-> clock]

InsertMessage(q, e, now) ==
  LET row == Len(messages) + 1 IN
  /\ messages' = Append(messages, NewMessage(q, e, now))
  /\ IF q \in FifoQueues
       THEN /\ ledger' = NewLedger(q, e, row, now)
            /\ accepted' = accepted \cup {NewSend(q, e, row, now)}
       ELSE UNCHANGED <<ledger, accepted>>

sendMessageEntry(p) ==
  /\ reqs[p].op = "send"
  /\ LET q == reqs[p].queue
         e == Head(reqs[p].entries)
         now == reqs[p].now
     IN  \/ /\ EntryValid(q, e)
            /\ ~Duplicate(q, e, now)
            /\ InsertMessage(q, e, now)
         \/ /\ ~EntryValid(q, e) \/ Duplicate(q, e, now)
            /\ UNCHANGED <<messages, ledger, accepted>>
  /\ NextEntry(p, reqs[p].entries, [reqs[p] EXCEPT !.entries = Tail(@)])
  /\ UNCHANGED <<clock, deleted, purgeExpires, receipts, attempts, doomed>>

-----------------------------------------------------------------------------
(* Which messages a receive may take: liveMessages, messageVisible,          *)
(* candidateMessages and fifoCandidateMessages.                              *)

liveMessages(q, now) ==
  {r \in DOMAIN messages : /\ messages[r].queue = q
                           /\ ~messages[r].deleted
                           /\ messages[r].retentionDeadline > now}

\* Faulty variant: a running lease does not hide the message.
messageVisible_IgnoresLease(r, now) ==
  /\ ~messages[r].deleted
  /\ messages[r].retentionDeadline > now
  /\ messages[r].availableAt <= now

messageVisible(r, now) ==
  /\ ~messages[r].deleted
  /\ messages[r].retentionDeadline > now
  /\ messages[r].availableAt <= now
  /\ messages[r].visibilityDeadline <= now

\* Faulty variant: newest first.
Precedes_NewestFirst(r, s) ==
  \/ messages[r].sentAt > messages[s].sentAt
  \/ messages[r].sentAt = messages[s].sentAt /\ r > s

\* The sort of liveMessages: by sent time, then by row id.
Precedes(r, s) ==
  \/ messages[r].sentAt < messages[s].sentAt
  \/ messages[r].sentAt = messages[s].sentAt /\ r < s

SameGroup(r, s) == messages[r].group = messages[s].group

\* Faulty variant: only the predecessors are looked at, the group is not locked.
FifoEligible_NoLock(q, now) ==
  {r \in liveMessages(q, now) :
     /\ messages[r].group # NoGroup
     /\ \A s \in liveMessages(q, now) :
          SameGroup(r, s) /\ (s = r \/ Precedes(s, r)) => messageVisible(s, now)}

\* A FIFO group gives up its messages from the head, as far as they are
\* visible, and nothing while one of them is in flight.
FifoEligible(q, now) ==
  {r \in liveMessages(q, now) :
     /\ messages[r].group # NoGroup
     /\ \A s \in liveMessages(q, now) :
          SameGroup(r, s) => /\ messages[s].visibilityDeadline <= now
                             /\ s = r \/ Precedes(s, r) => messageVisible(s, now)}

Eligible(q, now) ==
  IF q \in FifoQueues
    THEN FifoEligible(q, now)
    ELSE {r \in liveMessages(q, now) : messageVisible(r, now)}

\* The order in which candidates are listed: standard queues by Precedes,
\* FIFO queues group by group, the group with the earlier head first.
ListedBefore(q, r, s, now) ==
  IF q \in FifoQueues /\ ~SameGroup(r, s)
    THEN \E a \in liveMessages(q, now) :
           /\ SameGroup(a, r)
           /\ \A b \in liveMessages(q, now) : SameGroup(b, s) => Precedes(a, b)
    ELSE Precedes(r, s)

\* The first max eligible rows in that order, as the only element of a set.
candidateMessages(q, max, now) ==
  UNION {{c \in [1 .. k -> Eligible(q, now)] :
            /\ \A i, j \in 1 .. k : i < j => ListedBefore(q, c[i], c[j], now)
            /\ \A r \in Eligible(q, now) :
                 \/ \E i \in 1 .. k : c[i] = r
                 \/ k = max /\ \A i \in 1 .. k : ListedBefore(q, c[i], r, now)} :
         k \in 0 .. max}

\* Faulty variant: one delivery too many.
shouldRedrive_OffByOne(q, r) ==
  /\ RedriveTarget[q] # NoQueue
  /\ messages[r].receiveCount > MaxReceiveCount[q]

shouldRedrive(q, r) ==
  /\ RedriveTarget[q] # NoQueue
  /\ messages[r].receiveCount >= MaxReceiveCount[q]

-----------------------------------------------------------------------------
(* ReceiveMessage.                                                           *)

ReceiveMessage(p, q, in) ==
  /\ Len(receipts) + in.max <= MaxReceipts
  /\ clock + in.wait <= MaxClock
  /\ q \notin FifoQueues => in.attempt = NoAttempt
  /\ Begin(p, q, [op |-> IF in.attempt = NoAttempt THEN "loop" ELSE "replay",
                  queue |-> q, now |-> clock, max |-> in.max, vis |-> in.vis,
                  deadline |-> clock + in.wait, wakeAt |-> clock,
                  attempt |-> in.attempt])

\* The checks replayReceiveAttempt makes of one cached receipt handle.
Replayable(q, h, now) ==
  /\ h \in DOMAIN receipts
  /\ receipts[h].active
  /\ receipts[h].visibilityDeadline > now
  /\ messages[receipts[h].message].queue = q
  /\ ~messages[receipts[h].message].deleted
  /\ messages[receipts[h].message].retentionDeadline > now

\* Faulty variant: the message row is not written.
SetDeadlines_ReceiptOnly(H, deadline) ==
  /\ receipts' = [h \in DOMAIN receipts |->
       [receipts[h] EXCEPT !.visibilityDeadline = IF h \in H THEN deadline ELSE @]]
  /\ UNCHANGED messages

\* UpdateReceipt and UpdateMessage for the handles in H: both deadlines move.
SetDeadlines(H, deadline) ==
  /\ receipts' = [h \in DOMAIN receipts |->
       [receipts[h] EXCEPT !.visibilityDeadline = IF h \in H THEN deadline ELSE @]]
  /\ messages' = [r \in DOMAIN messages |->
       [messages[r] EXCEPT !.visibilityDeadline =
          IF \E h \in H : receipts[h].message = r THEN deadline ELSE @]]

\* replayReceiveAttempt: refresh the cached handles in order; the first one
\* that is no longer usable ends the replay and leaves the earlier ones
\* refreshed.
replayReceiveAttempt(p) ==
  /\ reqs[p].op = "replay"
  /\ LET q == reqs[p].queue
         now == reqs[p].now
         Cached == {a \in attempts : /\ a.queue = q
                                     /\ a.attempt = reqs[p].attempt
                                     /\ a.expiresAt > now}
     IN  \/ /\ Cached = {}
            /\ Goto(p, "loop")
            /\ UNCHANGED <<messages, receipts>>
         \/ \E a \in Cached : \E k \in 0 .. Len(a.response) :
              /\ \A i \in 1 .. k : Replayable(q, a.response[i], now)
              /\ SetDeadlines({a.response[i] : i \in 1 .. k}, now + reqs[p].vis)
              /\ \/ k = Len(a.response) /\ Return(p)
                 \/ /\ k < Len(a.response)
                    /\ ~Replayable(q, a.response[k + 1], now)
                    /\ Goto(p, "loop")
  /\ UNCHANGED <<clock, deleted, purgeExpires, ledger, attempts, accepted, doomed>>

\* The top of the polling loop: maintain again, look the queue up again.
ReceiveLoop(p) ==
  /\ reqs[p].op = "loop"
  /\ maintain(clock)
  /\ IF QueueExists(reqs[p].queue) THEN Goto(p, "select") ELSE Return(p)
  /\ UNCHANGED <<clock, deleted, attempts, accepted, doomed>>

\* No candidate: return empty at the deadline, else sleep.
ReceiveNothing(p) ==
  /\ reqs[p].op = "select"
  /\ << >> \in candidateMessages(reqs[p].queue, reqs[p].max, reqs[p].now)
  /\ \/ clock >= reqs[p].deadline /\ Return(p)
     \/ /\ clock < reqs[p].deadline
        /\ reqs' = [reqs EXCEPT
             ![p].op = "sleep",
             ![p].wakeAt = MinOf(clock + WakeFrequency, reqs[p].deadline)]
  /\ UNCHANGED <<clock, deleted, purgeExpires, messages, receipts, ledger,
                 attempts, accepted, doomed>>

\* Faulty variant: the consumers keep their receipts.
redriveMessage_KeepsReceipts(q, R, now) ==
  /\ messages' = [r \in DOMAIN messages |->
       IF r \in R /\ QueueExists(RedriveTarget[q])
         THEN [messages[r] EXCEPT !.queue = RedriveTarget[q], !.dlSource = q]
         ELSE messages[r]]
  /\ UNCHANGED receipts

\* Faulty variant: the row is written back with its old queue.
redriveMessage_SameQueue(q, R, now) ==
  /\ messages' = [r \in DOMAIN messages |->
       IF r \in R THEN [messages[r] EXCEPT !.dlSource = q] ELSE messages[r]]
  /\ receipts' = ReceiptsDeactivated(R)

\* Row m of queue q on its way to the dead-letter queue.
Redriven(m, q, now) ==
  [m EXCEPT !.queue = RedriveTarget[q], !.availableAt = now,
            !.visibilityDeadline = 0, !.dlSource = q]

\* redriveMessage for the rows in R; without a live target nothing moves.
redriveMessage(q, R, now) ==
  IF QueueExists(RedriveTarget[q])
    THEN /\ receipts' = ReceiptsDeactivated(R)
         /\ messages' = [r \in DOMAIN messages |->
              IF r \in R THEN Redriven(messages[r], q, now) ELSE messages[r]]
    ELSE UNCHANGED <<messages, receipts>>

\* A selection round that finds exhausted candidates moves them to the dead
\* letter queue and selects again.
RedriveRound(p) ==
  /\ reqs[p].op = "select"
  /\ \E c \in candidateMessages(reqs[p].queue, reqs[p].max, reqs[p].now) :
       LET q == reqs[p].queue
           R == {c[i] : i \in {j \in DOMAIN c : shouldRedrive(q, c[j])}}
       IN  R # {} /\ redriveMessage(q, R, reqs[p].now)
  /\ UNCHANGED <<clock, deleted, purgeExpires, ledger, attempts, reqs, accepted, doomed>>

\* Lease the candidates c: fresh deadlines, one new receipt each.
Lease(q, c, vis) ==
  LET leased == {c[i] : i \in DOMAIN c} IN
  /\ messages' = [r \in DOMAIN messages |->
       IF r \in leased
         THEN [messages[r] EXCEPT !.receiveCount = @ + 1,
                                  !.visibilityDeadline = clock + vis]
         ELSE messages[r]]
  /\ receipts' = [h \in 1 .. (Len(receipts) + Len(c)) |->
       IF h <= Len(receipts)
         THEN ReceiptsDeactivated(leased)[h]
         ELSE [queue |-> q, message |-> c[h - Len(receipts)], issuedAt |-> clock,
               visibilityDeadline |-> clock + vis, active |-> TRUE]]

\* InsertReceiveAttempt: INSERT OR REPLACE on (queue, attempt id).
NewAttempt(q, attempt, response) ==
  {a \in attempts : ~(a.queue = q /\ a.attempt = attempt)}
    \cup {[queue |-> q, attempt |-> attempt, response |-> response,
           expiresAt |-> clock + DedupWindow]}

\* The attempt of a receive that issues the next n handles.
RememberAttempt(q, attempt, n) ==
  attempts' = IF attempt = NoAttempt
                THEN attempts
                ELSE NewAttempt(q, attempt, [i \in 1 .. n |-> Len(receipts) + i])

LeaseCandidates(p) ==
  /\ reqs[p].op = "select"
  /\ \E c \in candidateMessages(reqs[p].queue, reqs[p].max, reqs[p].now) :
       /\ c # << >>
       /\ \A i \in DOMAIN c : ~shouldRedrive(reqs[p].queue, c[i])
       /\ Lease(reqs[p].queue, c, reqs[p].vis)
       /\ RememberAttempt(reqs[p].queue, reqs[p].attempt, Len(c))
  /\ Return(p)
  /\ UNCHANGED <<clock, deleted, purgeExpires, ledger, accepted, doomed>>

\* The poll timer fires: a new now, and the loop again.
PollWake(p) ==
  /\ reqs[p].op = "sleep"
  /\ clock >= reqs[p].wakeAt
  /\ reqs' = [reqs EXCEPT ![p].op = "loop", ![p].now = clock]
  /\ UNCHANGED <<clock, deleted, purgeExpires, messages, receipts, ledger,
                 attempts, accepted, doomed>>

-----------------------------------------------------------------------------
(* DeleteMessage(Batch) and ChangeMessageVisibility(Batch).                  *)

\* InvalidateReceiveAttempts: every cached attempt of the queue.
AttemptsInvalidated(q) == {a \in attempts : a.queue # q}

DeleteMessageBatch(p, q, handles) ==
  Begin(p, q, [op |-> "delete", queue |-> q, now |-> clock, handles |-> handles])

\* Faulty variant: an inactive receipt is as good as an active one.
HandleUsable_Inactive(q, h, now) ==
  /\ h \in DOMAIN receipts
  /\ receipts[h].queue = q
  /\ receipts[h].visibilityDeadline > now

\* The receipt is found, belongs to the queue, is active and has not lapsed.
HandleUsable(q, h, now) ==
  /\ h \in DOMAIN receipts
  /\ receipts[h].queue = q
  /\ receipts[h].active
  /\ receipts[h].visibilityDeadline > now

deleteByReceiptHandle(p) ==
  /\ reqs[p].op = "delete"
  /\ LET q == reqs[p].queue
         h == Head(reqs[p].handles)
         r == receipts[h].message
     IN  \/ /\ ~HandleUsable(q, h, reqs[p].now)
            /\ UNCHANGED <<messages, receipts, attempts>>
         \/ /\ HandleUsable(q, h, reqs[p].now)
            /\ receipts' = [receipts EXCEPT ![h].active = FALSE]
            /\ \/ messages[r].deleted /\ UNCHANGED <<messages, attempts>>
               \/ /\ ~messages[r].deleted
                  /\ messages' = [messages EXCEPT ![r].deleted = TRUE,
                                                  ![r].visibilityDeadline = 0]
                  /\ attempts' = AttemptsInvalidated(q)
  /\ NextEntry(p, reqs[p].handles, [reqs[p] EXCEPT !.handles = Tail(@)])
  /\ UNCHANGED <<clock, deleted, purgeExpires, ledger, accepted, doomed>>

ChangeMessageVisibilityBatch(p, q, changes) ==
  Begin(p, q, [op |-> "change", queue |-> q, now |-> clock, changes |-> changes])

\* Faulty variant: twelve hours from now instead of from the receive.
WithinMaxVisibility_FromNow(h, timeout, now) == timeout <= MaxVisibility

\* No lease may be set to end later than 12 hours after it was issued.
WithinMaxVisibility(h, timeout, now) ==
  /\ timeout <= MaxVisibility
  /\ now + timeout <= receipts[h].issuedAt + MaxVisibility

changeVisibilityByReceiptHandle(p) ==
  /\ reqs[p].op = "change"
  /\ LET q == reqs[p].queue
         h == Head(reqs[p].changes).handle
         timeout == Head(reqs[p].changes).timeout
         now == reqs[p].now
         allowed == /\ HandleUsable(q, h, now)
                    /\ WithinMaxVisibility(h, timeout, now)
                    /\ ~messages[receipts[h].message].deleted
     IN  \/ /\ allowed
            /\ SetDeadlines({h}, now + timeout)
            /\ attempts' = AttemptsInvalidated(q)
         \/ ~allowed /\ UNCHANGED <<messages, receipts, attempts>>
  /\ NextEntry(p, reqs[p].changes, [reqs[p] EXCEPT !.changes = Tail(@)])
  /\ UNCHANGED <<clock, deleted, purgeExpires, ledger, accepted, doomed>>

-----------------------------------------------------------------------------
(* PurgeQueue, DeleteQueue, time and lost clients.                           *)

\* PurgeQueue only records the window; the next maintenance pass deletes.
PurgeQueue(q) ==
  /\ QueueExists(q)
  /\ purgeExpires[q] = 0 \/ clock >= purgeExpires[q]
  /\ purgeExpires' = [purgeExpires EXCEPT ![q] = TruncateToSecond(clock + PurgeCooldown)]
  /\ doomed' = [doomed EXCEPT ![q] =
       [rows |-> {r \in DOMAIN messages : messages[r].queue = q}, at |-> clock]]
  /\ UNCHANGED <<clock, deleted, messages, receipts, ledger, attempts, reqs, accepted>>

\* DeleteQueue writes the tombstone and leaves the messages in place.
DeleteQueue(q) ==
  /\ QueueExists(q)
  /\ deleted' = deleted \cup {q}
  /\ UNCHANGED <<clock, purgeExpires, messages, receipts, ledger, attempts, reqs,
                 accepted, doomed>>

\* The client goes away: the context is cancelled and the handler gives up.
Disconnect(p) ==
  /\ reqs[p] # Idle
  /\ Return(p)
  /\ UNCHANGED <<clock, deleted, purgeExpires, messages, receipts, ledger,
                 attempts, accepted, doomed>>

Tick ==
  /\ clock < MaxClock
  /\ clock' = clock + 1
  /\ UNCHANGED <<deleted, purgeExpires, messages, receipts, ledger, attempts,
                 reqs, accepted, doomed>>

-----------------------------------------------------------------------------
(* The specification.                                                        *)

SectionInit ==
  /\ clock = Second
  /\ deleted = {}
  /\ purgeExpires = [q \in Queues |-> 0]
  /\ messages = << >>
  /\ receipts = << >>
  /\ ledger = {}
  /\ attempts = {}
  /\ reqs = [p \in Requests |-> Idle]
  /\ accepted = {}
  /\ doomed = [q \in Queues |-> [rows |-> {}, at |-> 0]]

\* Handle 0 stands for a handle that no receipt has.
HandleBatches == UNION {[1 .. n -> 0 .. Len(receipts)] : n \in 1 .. MaxBatch}

ChangeBatches ==
  UNION {[1 .. n -> [handle : 0 .. Len(receipts), timeout : ChangeTimeouts]] :
         n \in 1 .. MaxBatch}

\* A client starts a request.
StartRequest(p) ==
  \E q \in ClientQueues :
    \/ \E entries \in SendBatches : SendMessageBatch(p, q, entries)
    \/ \E in \in ReceiveInputs : ReceiveMessage(p, q, in)
    \/ \E handles \in HandleBatches : DeleteMessageBatch(p, q, handles)
    \/ \E changes \in ChangeBatches : ChangeMessageVisibilityBatch(p, q, changes)

\* A request in flight takes its next step.
Proceed(p) ==
  \/ sendMessageEntry(p)
  \/ replayReceiveAttempt(p)
  \/ ReceiveLoop(p)
  \/ ReceiveNothing(p)
  \/ RedriveRound(p)
  \/ LeaseCandidates(p)
  \/ PollWake(p)
  \/ deleteByReceiptHandle(p)
  \/ changeVisibilityByReceiptHandle(p)

SectionNext ==
  \/ Tick
  \/ RefusedRequest
  \/ \E p \in Requests : StartRequest(p) \/ Proceed(p) \/ Disconnect(p)
  \/ \E q \in PurgeableQueues : PurgeQueue(q)
  \/ \E q \in DeletableQueues : DeleteQueue(q)

SectionSpec == SectionInit /\ [][SectionNext]_planeVars

-----------------------------------------------------------------------------
(* Properties.  FifoNoOvertake holds however the statements of sections      *)
(* interleave.  The others are what the order of the sections alone gives:   *)
(* they suppose that sections do not overlap (PlaneStatements,               *)
(* SectionsApart).  Where overlapping sections break one, its comment says   *)
(* how.                                                                      *)

\* The receipts ever issued on row r by queue q.
IssuedBy(q, r) ==
  {h \in DOMAIN receipts : receipts[h].queue = q /\ receipts[h].message = r}

\* At most one receipt of a message is active, whatever redelivery, replay,
\* visibility change or redrive happened (ReceiveMessage deactivates the prior
\* receipts before it issues one).
OneActiveReceipt ==
  \A h, g \in DOMAIN receipts :
    receipts[h].active /\ receipts[g].active
      /\ receipts[h].message = receipts[g].message => h = g

\* An active receipt of an undeleted message agrees with the message row: same
\* queue, same visibility deadline (the two rows are written separately by
\* every operation that moves a deadline).
ReceiptAgrees ==
  \A h \in DOMAIN receipts :
    LET m == messages[receipts[h].message] IN
    receipts[h].active /\ ~m.deleted =>
      /\ m.queue = receipts[h].queue
      /\ m.visibilityDeadline = receipts[h].visibilityDeadline

\* A receipt that DeleteMessage or ChangeMessageVisibility would honour now
\* excludes every other consumer: it is the only active receipt of its message,
\* and the row of the message hides it from every receive until the same
\* deadline, whatever the requests in flight did with an older now.  (Two
\* receives that list the row before either one leases it both keep an active
\* receipt, and a change that writes its older copy back parts row and receipt.)
LeaseExclusive == OneActiveReceipt /\ ReceiptAgrees

\* A queue with a redrive policy never leases the same message more often than
\* maxReceiveCount, also when the dead-letter queue is gone or the message
\* comes back (selectMessagesForReceive and ReceiveCount).  (Overlapping receives
\* count from the same ReceiveCount and issue more receipts than they count.)
LeaseGrantsCapped ==
  \A r \in DOMAIN messages, q \in Queues :
    RedriveTarget[q] # NoQueue => Cardinality(IssuedBy(q, r)) <= MaxReceiveCount[q]

\* FIFO deduplication: of two accepted sends with the same deduplication id in
\* the same scope the later one was accepted only when the five-minute window
\* of the earlier one was over, however old the now of either request was.  (Two
\* sends that look the id up before either one writes its ledger row are both
\* stored.)
DedupWindowHolds ==
  \A a, b \in accepted :
    Matches(a, b) /\ a.row < b.row => b.clk >= a.at + DedupWindow

\* Nothing overtakes within a FIFO group: a message that was delivered at least
\* once has no undelivered, live predecessor of its group that was sent to the
\* same queue before it.
FifoNoOvertake ==
  \A r, s \in DOMAIN messages :
    /\ r < s
    /\ messages[r].sentAt <= messages[s].sentAt
    /\ messages[r].queue = messages[s].queue
    /\ messages[r].queue \in FifoQueues
    /\ SameGroup(r, s)
    /\ messages[r].group # NoGroup
    /\ messages[r].dlSource = NoQueue /\ messages[s].dlSource = NoQueue
    /\ r \in liveMessages(messages[r].queue, clock)
    /\ messages[s].receiveCount > 0
    => messages[r].receiveCount > 0

\* A lease ends at most 12 hours after it was issued, plus the five minutes for
\* which replayReceiveAttempt may still refresh it.  (The five minutes of the
\* cached attempt begin when it is written, which may be long after its receipts
\* were when the handler is slow in between.)
VisibilityBounded ==
  \A h \in DOMAIN receipts :
    receipts[h].visibilityDeadline
      <= receipts[h].issuedAt + MaxVisibility + DedupWindow

\* A purge is effective: after PurgeQueue was accepted, a message that was in
\* the queue then is leased, if at all, only by a receive that had started (or
\* last woken up) no later than the purge; PurgeQueue itself deletes nothing and
\* relies on the maintenance pass of the next request.  (A handler that read the
\* row before the pass writes it back.)
PurgedNotDelivered ==
  [][\A q \in Queues : \A r \in doomed[q].rows :
       /\ messages[r].queue = q
       /\ messages[r].dlSource = NoQueue
       /\ messages'[r].receiveCount > messages[r].receiveCount
       => \E p \in Requests : /\ reqs[p].op = "select"
                              /\ reqs[p].queue = q
                              /\ reqs[p].now <= doomed[q].at]_planeVars

\* A FIFO group is served to one consumer at a time: while a usable receipt
\* exists for a message of the group, no step leases a message of that group,
\* whatever now the receive works with.  (Two receives that select before either
\* one leases both find the group free.)
GroupHeld ==
  [][\A h \in DOMAIN receipts : \A r \in DOMAIN messages :
       LET held == receipts[h].message IN
       /\ receipts[h].active
       /\ receipts[h].visibilityDeadline > clock
       /\ ~messages[held].deleted
       /\ messages[held].retentionDeadline > clock
       /\ messages[held].queue = messages[r].queue
       /\ messages[r].queue \in FifoQueues
       /\ SameGroup(held, r)
       => messages'[r].receiveCount = messages[r].receiveCount]_planeVars

\* The reasons for which row r may disappear in this step: its retention ended,
\* a purge window covers it, or a delete request holds its active receipt.
LossExplained(r) ==
  \/ messages[r].retentionDeadline <= clock
  \/ purgeExpires[messages[r].queue] >= messages[r].sentAt
  \/ \E p \in Requests :
       /\ reqs[p].op = "delete"
       /\ LET h == Head(reqs[p].handles)
          IN  /\ h \in DOMAIN receipts
              /\ receipts[h].message = r
              /\ receipts[h].active
              /\ receipts[h].queue = messages[r].queue

\* A message disappears only because its retention ended, because a purge
\* window covers it, or because the request deletes it under its one active
\* receipt; in particular a delete with an older handle removes nothing.
\* (LossAccounted is its form for overlapping sections.)
NoSilentLoss ==
  [][\A r \in DOMAIN messages :
       ~messages[r].deleted /\ messages'[r].deleted => LossExplained(r)]_planeVars

Receiving(p) == reqs[p].op \in {"replay", "loop", "select", "sleep"}

\* Every ReceiveMessage call returns (or loses its client): the selection
\* rounds with redrives end and so does the long poll.
ReceiveReturns == \A p \in Requests : Receiving(p) ~> reqs[p] = Idle

\* The same as long as no redrive policy names a deleted queue: redrives drain
\* the exhausted candidates, and a long poll gives up at its deadline although
\* every wake-up restarts the loop with a new now (selectMessagesForReceive,
\* receiveMessages).
ReceiveReturnsOrTargetGone ==
  \A p \in Requests :
    Receiving(p) ~> \/ reqs[p] = Idle
                    \/ \E q \in Queues : /\ RedriveTarget[q] # NoQueue
                                         /\ ~QueueExists(RedriveTarget[q])
=============================================================================
