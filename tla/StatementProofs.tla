--------------------------- MODULE StatementProofs ---------------------------
(***************************************************************************)
(* Proofs about PlaneStatements.  First what holds as long as no section is *)
(* taken apart (SectionsApart): every handler runs each of its sections     *)
(* without another request or a cut-off between the statements, and the     *)
(* results about the sections of MessagePlane carry over.  Then what holds  *)
(* however the statements interleave and wherever a handler is cut off.     *)
(***************************************************************************)
EXTENDS RefinementProofs, PlaneStatements

-----------------------------------------------------------------------------
(* Sections that are not taken apart.                                        *)

\* With no section taken apart, every step is a step of whole sections.
LEMMA WholeSections ==
  ASSUME SectionsApart
  PROVE  Spec => SectionSpec
<1> DEFINE Whole == splits = 0 /\ open = [p \in Requests |-> Closed]
<1>1. Init => SectionInit /\ Whole
  BY DEF Init
<1>2. ASSUME Whole, [Next]_vars
      PROVE  Whole' /\ [SectionNext]_planeVars
  <2>1. \A p \in Requests : open[p] = Closed /\ open[p].at = "closed"
    BY <1>2 DEF Closed
  <2>2. CASE UNCHANGED vars
    BY <1>2, <2>2 DEF vars, planeVars
  <2>3. CASE Surroundings /\ UNCHANGED <<open, splits>>
    BY <1>2, <2>3 DEF Surroundings, SectionNext
  <2>4. ASSUME NEW p \in Requests, WholeSection(p)
        PROVE  Whole' /\ [SectionNext]_planeVars
    BY <1>2, <2>4 DEF WholeSection, SectionNext
  <2>5. ASSUME NEW p \in Requests, Statement(p)
        PROVE  FALSE
    <3>1. \A section : ~Opens(p, section)
      BY <1>2 DEF Opens, SectionsApart
    <3>2. ~FindNoDuplicate(p) /\ ~ListCandidates(p) /\ ~FindReceipt(p) /\ ~FindAttempt(p)
      BY <3>1 DEF FindNoDuplicate, ListCandidates, FindReceipt, FindAttempt
    <3>3. \A at : Inside(p, at) => at = "closed"
      BY <2>1 DEF Inside
    <3>4. ~InsertRow(p) /\ ~RecordSend(p)
      BY <3>3 DEF InsertRow, RecordSend
    <3>5. ~DeactivatePriors(p) /\ ~WriteLease(p) /\ ~IssueReceipt(p) /\ ~RememberReceive(p)
      BY <3>3 DEF DeactivatePriors, WriteLease, IssueReceipt, RememberReceive
    <3>6. ~VoidReceipts(p) /\ ~MoveRow(p)
      BY <3>3 DEF VoidReceipts, MoveRow
    <3>7. ~FindCached(p) /\ ~LoadRow(p) /\ ~MarkRow(p) /\ ~RetireReceipt(p)
      BY <3>3 DEF FindCached, LoadRow, MarkRow, RetireReceipt
    <3>8. ~StretchReceipt(p) /\ ~StretchRow(p) /\ ~ForgetAttempts(p)
      BY <3>3 DEF StretchReceipt, StretchRow, ForgetAttempts
    <3> QED
      BY <2>5, <3>2, <3>4, <3>5, <3>6, <3>7, <3>8 DEF Statement
  <2>6. ASSUME NEW p \in Requests, CutOff(p)
        PROVE  Whole' /\ [SectionNext]_planeVars
    <3>1. Disconnect(p) /\ splits' = 0 /\ open' = [open EXCEPT ![p] = Closed]
      BY <1>2, <2>6 DEF CutOff, Closes
    <3> QED
      BY <1>2, <3>1 DEF SectionNext
  <2> QED
    BY <1>2, <2>2, <2>3, <2>4, <2>5, <2>6 DEF Next
<1> HIDE DEF Whole
<1> QED
  BY <1>1, <1>2, PTL DEF Spec, SectionSpec

\* A lease is exclusive as long as no two sections overlap and none is cut off:
\* whatever the number of requests and the values of their stale clocks, no
\* message ever has two active receipts, and the active one agrees with the row
\* that hides the message from the other consumers (ReceiveMessage,
\* replayReceiveAttempt, changeVisibilityByReceiptHandle,
\* deleteByReceiptHandle, redriveMessage and reapQueue together).
THEOREM LeasesExclusive ==
  ASSUME SectionsApart
  PROVE  Spec => []LeaseExclusive
BY WholeSections, ExclusiveApart, PTL

\* As long as no two sections overlap and none is cut off, every deletion of a
\* message has a cause the code intends: end of retention, a purge window, or a
\* delete under the one active receipt of that message.
THEOREM NothingLostSilently ==
  ASSUME SectionsApart
  PROVE  Spec => NoSilentLoss
BY WholeSections, LossApart, PTL

\* FIFO deduplication as long as no two sections overlap and none is cut off:
\* however old the now of the requests in flight, a second send with the same
\* id in the same scope is accepted only after the window of the first one
\* (sendMessageEntry, DedupEntry, InsertDedupEntry, DeleteExpiredDedupEntries).
THEOREM DeduplicationHolds ==
  ASSUME SectionsApart
  PROVE  Spec => []DedupWindowHolds
BY WholeSections, DedupApart, PTL

\* As long as no two sections overlap and none is cut off, no consumer holds a
\* message for longer than twelve hours and the five minutes of a replay,
\* however often visibility is changed and attempts are replayed with an old
\* now (changeVisibilityByReceiptHandle, replayReceiveAttempt).
THEOREM LeasesEnd ==
  ASSUME SectionsApart
  PROVE  Spec => []VisibilityBounded
BY WholeSections, SpanApart, PTL

\* As long as no two sections overlap and none is cut off: while a consumer can
\* still use its receipt for a message of a FIFO group, no receive delivers a
\* message of that group, whatever now it works with and however replays and
\* visibility changes moved the deadline (fifoCandidateMessages).
THEOREM GroupsHeld ==
  ASSUME SectionsApart
  PROVE  Spec => GroupHeld
BY WholeSections, HeldApart, PTL

\* A purge is effective as long as no two sections overlap and none is cut off,
\* although it only records a window that the next maintenance pass turns into
\* deletions, at the granularity of whole seconds: on the queues of the
\* configured account, and with a cooldown of at least a second, a receive
\* delivers a purged message only with a now from before the purge (PurgeQueue,
\* reapQueue, DeleteMessagesByQueueBefore).
THEOREM PurgesReach ==
  ASSUME SectionsApart, PurgeableQueues \subseteq HomeQueues, Second <= PurgeCooldown
  PROVE  Spec => PurgedNotDelivered
BY WholeSections, PurgeApart, PTL

\* As long as no two sections overlap and none is cut off, a queue with a
\* redrive policy leases a message at most maxReceiveCount times, also when its
\* dead-letter queue is gone, a batch of candidates is redriven while another
\* receive waits, or the message comes back to it (shouldRedrive in
\* selectMessagesForReceive).
THEOREM GrantsCapped ==
  ASSUME SectionsApart
  PROVE  Spec => []LeaseGrantsCapped
BY WholeSections, CapApart, PTL

\* As long as no two sections overlap and none is cut off, the message plane
\* implements the abstract lease queue for every number of requests, rows and
\* receipts: grants are of free messages only and under fresh tokens, renewals
\* of held ones, a redrive voids the token, and what is gone stays gone
\* (ReceiveMessage, replayReceiveAttempt, redriveMessage, reapQueue,
\* DeleteMessage, ChangeMessageVisibility).
THEOREM PlaneRefines ==
  ASSUME SectionsApart
  PROVE  Spec => RefinesLeaseQueue
BY WholeSections, RefineApart, PTL

-----------------------------------------------------------------------------
(* The invariant of the statements.                                          *)

\* Row r has been delivered.
Delivered(r) == r \in DOMAIN messages /\ messages[r].receiveCount > 0

\* Every receipt is one of a delivered row.
ReceiptsDelivered == \A h \in DOMAIN receipts : Delivered(receipts[h].message)

\* A remembered receive has answered with something.
AttemptsAnswered == \A a \in attempts : a.response # << >>

\* Copy m of row r: the columns no UPDATE touches are those of the row.
CopyOf(m, r) == r \in DOMAIN messages /\ SameOrigin(m, messages[r])

LeaseAt == {"deactivate", "update", "issue"}
RedriveAt == {"void", "move"}
LoadedAt == {"mark", "retire", "stretch", "stretchRow"}

\* The section belongs to the operation of the handler.
SectionOfHandler(x, req) ==
  /\ req = Idle => x = Closed
  /\ x.at \in {"insert", "record"} => req.op = "send"
  /\ x.at \in LeaseAt \cup RedriveAt \cup {"remember"} => req.op = "select"
  /\ x.at \in RedriveAt => RedriveTarget[req.queue] # NoQueue
  /\ x.at = "remember" => req.attempt # NoAttempt /\ x.issued # << >>
  /\ x.at = "find" => req.op = "replay" /\ x.rest # << >>
  /\ x.at = "load" => req.op \in {"delete", "change", "replay"}
  /\ x.at \in {"mark", "retire"} => req.op = "delete"
  /\ x.at \in {"stretch", "stretchRow"} => req.op \in {"change", "replay"}
  /\ x.at = "forget" => req.op \in {"delete", "change"}

\* The copies a selection round holds are of undeleted rows; the exhausted
\* ones have been delivered, and so has a row whose receipt comes next.
CandidatesSound(x) ==
  /\ x.at \in LeaseAt \cup RedriveAt =>
       /\ x.todo # << >>
       /\ \A i \in DOMAIN x.todo : /\ CopyOf(x.todo[i].msg, x.todo[i].row)
                                   /\ ~x.todo[i].msg.deleted
  /\ x.at \in RedriveAt => \A i \in DOMAIN x.todo : x.todo[i].msg.receiveCount > 0
  /\ x.at = "issue" => Delivered(x.todo[1].row)

\* The copies behind a receipt handle are of delivered rows; only a delete that
\* comes too late holds one that was deleted, and it does not write it; a
\* delete got here under a receipt that entitles it.
HandleSound(x, req) ==
  /\ x.at \in LoadedAt \cup {"load"} =>
       x.handle \in DOMAIN receipts /\ Delivered(x.rcpt.message)
  /\ x.at \in LoadedAt => /\ CopyOf(x.msg, x.rcpt.message)
                          /\ x.msg.receiveCount > 0
                          /\ x.at # "retire" => ~x.msg.deleted
  /\ x.at \in {"load", "mark"} /\ req.op = "delete" =>
       Entitles(x.rcpt, req, x.rcpt.message)

Fits(p) == /\ SectionOfHandler(open[p], reqs[p])
           /\ CandidatesSound(open[p])
           /\ HandleSound(open[p], reqs[p])

IInv ==
  /\ TypeInv
  /\ NowNotAhead
  /\ open \in [Requests -> Section]
  /\ splits \in 0 .. MaxSplits
  /\ ReceiptsDelivered
  /\ AttemptsAnswered
  /\ \A p \in Requests : Fits(p)

\* The place of a section tells its record type.
LEMMA SectionKinds ==
  ASSUME NEW x \in Section
  PROVE  /\ x.at \in LeaseAt => x \in LeaseSection
         /\ x.at = "remember" => x \in RememberSection
         /\ x.at \in RedriveAt => x \in RedriveSection
         /\ x.at = "record" => x.row \in Nat
         /\ x.at = "find" => x \in ReplaySection
         /\ x.at = "load" => x \in FoundSection
         /\ x.at \in LoadedAt => x \in LoadedSection
         /\ x.at = "closed" => x = Closed
         /\ x.at \in {"closed", "insert", "record", "remember", "find", "load", "forget"}
                       \cup LeaseAt \cup RedriveAt \cup LoadedAt
BY DEF Section, Closed, LeaseSection, RememberSection, RedriveSection, SendSection,
       ReplaySection, FoundSection, LoadedSection, ForgetSection, LeaseAt, RedriveAt, LoadedAt

-----------------------------------------------------------------------------
(* What a step does to the rows.                                             *)

\* No row loses its origin, a delivered row stays delivered, an undelivered one
\* stays where it is and stays deleted; new rows come at the end.
RowsOnward ==
  /\ DOMAIN messages \subseteq DOMAIN messages'
  /\ \A r \in DOMAIN messages :
       /\ SameOrigin(messages'[r], messages[r])
       /\ messages[r].receiveCount > 0 => messages'[r].receiveCount > 0
       /\ ~(messages'[r].receiveCount > 0) /\ messages'[r].dlSource = NoQueue =>
            /\ messages[r].dlSource = NoQueue
            /\ messages'[r].queue = messages[r].queue
            /\ messages[r].deleted => messages'[r].deleted
  /\ \A r \in DOMAIN messages' \ DOMAIN messages :
       r = Len(messages) + 1 /\ ~(messages'[r].receiveCount > 0)

\* UpdateMessage with a copy of a delivered row.
WritesRow(r, m) ==
  /\ r \in DOMAIN messages
  /\ m \in Message
  /\ CopyOf(m, r)
  /\ m.receiveCount > 0
  /\ messages' = [messages EXCEPT ![r] = m]

\* InsertMessage.
AddsRow(m) ==
  /\ m \in Message
  /\ ~(m.receiveCount > 0)
  /\ messages' = Append(messages, m)

LEMMA RowWritten ==
  ASSUME TypeOK, NEW r, NEW m, WritesRow(r, m)
  PROVE  /\ messages' \in Seq(Message) /\ DOMAIN messages' = DOMAIN messages
         /\ messages'[r] = m
         /\ \A s \in DOMAIN messages : s # r => messages'[s] = messages[s]
         /\ RowsOnward
<1>1. /\ messages \in Seq(Message) /\ r \in DOMAIN messages /\ m \in Message
      /\ messages' = [messages EXCEPT ![r] = m]
  BY DEF WritesRow, TypeOK
<1>2. messages' \in Seq(Message) /\ DOMAIN messages' = DOMAIN messages
  BY <1>1
<1>3. messages'[r] = m /\ \A s \in DOMAIN messages : s # r => messages'[s] = messages[s]
  BY <1>1
<1>4. SameOrigin(m, messages[r]) /\ m.receiveCount > 0
  BY DEF WritesRow, CopyOf
<1> QED
  BY <1>2, <1>3, <1>4 DEF RowsOnward, SameOrigin

LEMMA RowAdded ==
  ASSUME TypeOK, NEW m, AddsRow(m)
  PROVE  /\ messages' \in Seq(Message)
         /\ \A s \in DOMAIN messages : s \in DOMAIN messages' /\ messages'[s] = messages[s]
         /\ RowsOnward
<1>1. messages \in Seq(Message) /\ m \in Message /\ messages' = Append(messages, m)
  BY DEF AddsRow, TypeOK
<1>2. /\ messages' \in Seq(Message) /\ Len(messages') = Len(messages) + 1
      /\ \A s \in 1 .. Len(messages) : messages'[s] = messages[s]
      /\ messages'[Len(messages) + 1] = m
  BY <1>1, AppendProperties
<1>3. /\ DOMAIN messages = 1 .. Len(messages) /\ Len(messages) \in Nat
      /\ DOMAIN messages' = 1 .. (Len(messages) + 1)
  BY <1>1, <1>2
<1>4. ~(m.receiveCount > 0)
  BY DEF AddsRow
<1> QED
  BY <1>2, <1>3, <1>4 DEF RowsOnward, SameOrigin

\* A section that is run as a whole.
LEMMA SectionOnward ==
  ASSUME TypeInv, NowNotAhead, [SectionNext]_planeVars
  PROVE  /\ RowsOnward
         /\ DOMAIN receipts \subseteq DOMAIN receipts'
         /\ clock \in Nat /\ clock' \in Nat /\ clock <= clock'
<1>1. TypeOK /\ HistoryKept
  BY HistoryStep DEF TypeInv
<1>2. DOMAIN messages \subseteq DOMAIN messages' /\ DOMAIN receipts \subseteq DOMAIN receipts'
  BY <1>1 DEF HistoryKept
<1>3. ASSUME NEW r \in DOMAIN messages
      PROVE  /\ SameOrigin(messages'[r], messages[r])
             /\ messages[r].receiveCount > 0 => messages'[r].receiveCount > 0
             /\ messages'[r].dlSource = NoQueue =>
                  /\ messages[r].dlSource = NoQueue
                  /\ messages'[r].queue = messages[r].queue
             /\ messages[r].deleted => messages'[r].deleted
  <2>1. RowKept(r) /\ messages[r].receiveCount \in Nat
    BY <1>1, <1>3, RowTypes DEF HistoryKept, Message
  <2>2. messages[r].receiveCount > 0 => messages'[r].receiveCount > 0
    <3>1. CASE messages'[r].receiveCount = messages[r].receiveCount
      BY <3>1
    <3>2. CASE messages'[r].receiveCount # messages[r].receiveCount
      <4>1. PICK p, k, c : LeaseEffect(reqs[p].queue, k, c, reqs[p].vis) /\ r \in Rows(c, k)
        BY <1>3, <3>2, DeliveredRow
      <4>2. messages'[r].receiveCount = messages[r].receiveCount + 1
        BY <1>3, <4>1 DEF LeaseEffect
      <4> QED
        BY <2>1, <4>2
    <3> QED
      BY <3>1, <3>2
  <2> QED
    BY <2>1, <2>2 DEF RowKept
<1>4. ASSUME NEW r \in DOMAIN messages' \ DOMAIN messages
      PROVE  r = Len(messages) + 1 /\ ~(messages'[r].receiveCount > 0)
  BY <1>4, FreshRow
<1> QED
  BY <1>2, <1>3, <1>4, NextTables DEF RowsOnward

\* Its receipts are of delivered rows.
LEMMA SectionReceipts ==
  ASSUME TypeInv, NowNotAhead, ReceiptsDelivered, [SectionNext]_planeVars
  PROVE  ReceiptsDelivered'
<1>1. TypeOK /\ RowsOnward
  BY SectionOnward DEF TypeInv
<1>2. \A r : Delivered(r) => Delivered(r)'
  BY <1>1 DEF RowsOnward, Delivered
<1>3. CASE NothingLeased
  <2>1. DOMAIN receipts' = DOMAIN receipts /\ \A h \in DOMAIN receipts : ReceiptKept(h)
    BY <1>3, HistoryStep DEF NothingLeased, HistoryKept
  <2>2. \A h \in DOMAIN receipts' : h \in DOMAIN receipts /\ receipts'[h].message = receipts[h].message
    BY <2>1 DEF ReceiptKept
  <2>3. \A h \in DOMAIN receipts : Delivered(receipts[h].message)
    BY DEF ReceiptsDelivered
  <2>4. \A h \in DOMAIN receipts' : \E r : r = receipts'[h].message /\ Delivered(r)'
    BY <1>2, <2>2, <2>3
  <2> QED
    BY <2>4 DEF ReceiptsDelivered, Delivered
<1>4. ASSUME NEW p \in Requests, LeaseCandidates(p)
      PROVE  ReceiptsDelivered'
  <2>1. reqs[p].queue \in Queues /\ reqs[p].vis \in Nat
    BY <1>4, LeaseFacts DEF ReceiveRequest
  <2>2. PICK k, c : /\ k \in Nat
                    /\ Selected(reqs[p].queue, k, c)
                    /\ LeaseEffect(reqs[p].queue, k, c, reqs[p].vis)
    BY <1>4, LeaseFacts
  <2>3. \A h \in DOMAIN receipts : /\ receipts'[h].message = receipts[h].message
                                   /\ Delivered(receipts[h].message)
    BY <2>1, <2>2, LeaseReceipts DEF ReceiptKept, ReceiptsDelivered
  <2> DEFINE at(h) == h - Len(receipts)
  <2>7. \A h \in DOMAIN receipts' \ DOMAIN receipts :
          at(h) \in 1 .. k /\ receipts'[h].message = c[at(h)]
    <3> DEFINE q == reqs[p].queue
               vis == reqs[p].vis
    <3>1. q \in Queues /\ vis \in Nat /\ k \in Nat
      BY <2>1, <2>2
    <3>2. Selected(q, k, c) /\ LeaseEffect(q, k, c, vis)
      BY <2>2
    <3> HIDE DEF q, vis
    <3>3. \A h \in DOMAIN receipts' \ DOMAIN receipts :
            /\ h - Len(receipts) \in 1 .. k
            /\ receipts'[h].message = c[h - Len(receipts)]
      BY ONLY TypeInv, <3>1, <3>2, LeaseReceipts
    <3> QED
      BY <3>3
  <2>4. ASSUME NEW h \in DOMAIN receipts' \ DOMAIN receipts
        PROVE  receipts'[h].message \in Rows(c, k)
    <3> HIDE DEF at
    <3>1. at(h) \in 1 .. k /\ receipts'[h].message = c[at(h)]
      BY <2>4, <2>7
    <3> QED
      BY <3>1 DEF Rows
  <2>5. ASSUME NEW r \in Rows(c, k)
        PROVE  Delivered(r)'
    <3>1. r \in DOMAIN messages
      BY <2>2, <2>5 DEF Rows, Selected
    <3>2. /\ r \in DOMAIN messages'
          /\ messages'[r].receiveCount = messages[r].receiveCount + 1
          /\ messages[r].receiveCount \in Nat
      BY <1>1, <2>2, <2>5, <3>1, RowTypes DEF LeaseEffect, Message
    <3> QED
      BY <3>2 DEF Delivered
  <2>6. \A h \in DOMAIN receipts' : \E r : r = receipts'[h].message /\ Delivered(r)'
    BY <1>2, <2>3, <2>4, <2>5
  <2> QED
    BY <2>6 DEF ReceiptsDelivered, Delivered
<1> QED
  BY <1>3, <1>4, HistoryStep

\* It remembers no empty response.
LEMMA SectionAttempts ==
  ASSUME TypeInv, AttemptsAnswered, [SectionNext]_planeVars
  PROVE  AttemptsAnswered'
<1>1. CASE attempts' \subseteq attempts
  BY <1>1 DEF AttemptsAnswered
<1>2. ASSUME NEW p \in Requests, LeaseCandidates(p)
      PROVE  AttemptsAnswered'
  <2>1. PICK c : c # << >> /\ RememberAttempt(reqs[p].queue, reqs[p].attempt, Len(c))
                 /\ c \in candidateMessages(reqs[p].queue, reqs[p].max, reqs[p].now)
    BY <1>2 DEF LeaseCandidates
  <2>2. Len(c) \in Nat \ {0}
    <3>1. reqs[p].max \in Nat /\ TypeOK
      BY <1>2, LeaseFacts DEF ReceiveRequest, TypeInv
    <3>2. PICK k \in Nat : Selected(reqs[p].queue, k, c)
      BY <2>1, <3>1, CandidateFacts
    <3>3. c \in Seq(DOMAIN messages)
      BY <3>2, SeqDef DEF Selected
    <3> QED
      BY <2>1, <3>3, EmptySeq, LenProperties
  <2> DEFINE response == [i \in 1 .. Len(c) |-> Len(receipts) + i]
  <2>3. response # << >>
    <3>1. 1 \in DOMAIN response
      BY <2>2
    <3>2. DOMAIN << >> = {}
      OBVIOUS
    <3> QED
      BY <3>1, <3>2
  <2>4. attempts' = attempts \/ attempts' = NewAttempt(reqs[p].queue, reqs[p].attempt, response)
    BY <2>1 DEF RememberAttempt
  <2> HIDE DEF response
  <2>5. \A a \in NewAttempt(reqs[p].queue, reqs[p].attempt, response) :
          a \in attempts \/ a.response = response
    BY DEF NewAttempt
  <2> QED
    BY <2>3, <2>4, <2>5 DEF AttemptsAnswered
<1>3. ASSUME NEW p \in Requests, Proceed(p)
      PROVE  attempts' \subseteq attempts \/ LeaseCandidates(p)
  <2>1. CASE deleteByReceiptHandle(p) \/ changeVisibilityByReceiptHandle(p)
    BY <2>1 DEF deleteByReceiptHandle, changeVisibilityByReceiptHandle, AttemptsInvalidated
  <2>2. CASE sendMessageEntry(p) \/ replayReceiveAttempt(p) \/ ReceiveLoop(p)
    BY <2>2 DEF sendMessageEntry, replayReceiveAttempt, ReceiveLoop
  <2>3. CASE ReceiveNothing(p) \/ RedriveRound(p) \/ PollWake(p)
    BY <2>3 DEF ReceiveNothing, RedriveRound, PollWake
  <2> QED
    BY <1>3, <2>1, <2>2, <2>3 DEF Proceed
<1>4. ASSUME NEW p \in Requests, StartRequest(p) \/ Disconnect(p)
      PROVE  attempts' \subseteq attempts
  BY <1>4 DEF StartRequest, SendMessageBatch, ReceiveMessage, DeleteMessageBatch,
              ChangeMessageVisibilityBatch, Begin, Disconnect
<1>5. CASE Tick \/ RefusedRequest \/ (\E q \in PurgeableQueues : PurgeQueue(q))
             \/ (\E q \in DeletableQueues : DeleteQueue(q)) \/ UNCHANGED planeVars
  BY <1>1, <1>5 DEF Tick, RefusedRequest, PurgeQueue, DeleteQueue, planeVars
<1> QED
  BY <1>1, <1>2, <1>3, <1>4, <1>5 DEF SectionNext

\* The section of a handler that does not move stays sound.
LEMMA FitsKept ==
  ASSUME RowsOnward, DOMAIN receipts \subseteq DOMAIN receipts',
         NEW s \in Requests, open[s] \in Section,
         open'[s] = open[s], reqs'[s] = reqs[s], Fits(s)
  PROVE  Fits(s)'
<1>1. \A r : Delivered(r) => Delivered(r)'
  BY DEF RowsOnward, Delivered
<1>2. \A m, r : CopyOf(m, r) => CopyOf(m, r)'
  BY DEF RowsOnward, CopyOf, SameOrigin
<1>3. SectionOfHandler(open[s], reqs[s])'
  BY DEF Fits, SectionOfHandler
<1>4. ASSUME NEW x, CandidatesSound(x)
      PROVE  CandidatesSound(x)'
  BY <1>1, <1>2, <1>4 DEF CandidatesSound
<1>5. ASSUME NEW x, NEW req, HandleSound(x, req)
      PROVE  HandleSound(x, req)'
  BY <1>1, <1>2, <1>5 DEF HandleSound, Entitles
<1>6. CandidatesSound(open[s])'
  <2> SUFFICES ASSUME NEW y, y = open[s] PROVE CandidatesSound(open[s])'
    OBVIOUS
  <2>1. CandidatesSound(y)'
    BY <1>4 DEF Fits
  <2> QED
    BY <2>1 DEF CandidatesSound, CopyOf, Delivered
<1>7. HandleSound(open[s], reqs[s])'
  <2> SUFFICES ASSUME NEW y, y = open[s], NEW z, z = reqs[s] PROVE HandleSound(open[s], reqs[s])'
    OBVIOUS
  <2>1. HandleSound(y, z)'
    BY <1>5 DEF Fits
  <2> QED
    BY <2>1 DEF HandleSound, CopyOf, Delivered, Entitles
<1> QED
  BY <1>3, <1>6, <1>7 DEF Fits

\* A request outside of every section is in none that could be unsound.
LEMMA FitsClosed ==
  ASSUME NEW s \in Requests, open'[s] = Closed
  PROVE  Fits(s)'
<1>1. open'[s].at = "closed"
  BY DEF Closed
<1>2. "closed" \notin LeaseAt \cup RedriveAt \cup LoadedAt
  BY DEF LeaseAt, RedriveAt, LoadedAt
<1>3. SectionOfHandler(open[s], reqs[s])'
  BY <1>1, <1>2 DEF SectionOfHandler, LeaseAt, RedriveAt
<1>4. CandidatesSound(open[s])'
  BY <1>1, <1>2 DEF CandidatesSound, LeaseAt, RedriveAt
<1>5. HandleSound(open[s], reqs[s])'
  BY <1>1, <1>2 DEF HandleSound, LoadedAt
<1> QED
  BY <1>3, <1>4, <1>5 DEF Fits

LEMMA RowsSame ==
  ASSUME TypeOK, UNCHANGED messages
  PROVE  messages' \in Seq(Message) /\ RowsOnward
BY DEF TypeOK, RowsOnward, SameOrigin

\* Starting a request concerns no other handler.
LEMMA StartsAlone ==
  ASSUME TypeOK, NEW p \in Requests, StartRequest(p), NEW s \in Requests
  PROVE  \/ s = p /\ reqs[s] = Idle
         \/ reqs'[s] = reqs[s]
<1>1. reqs \in [Requests -> Request]
  BY DEF TypeOK
<1>2. ASSUME NEW q, NEW x, Begin(p, q, x)
      PROVE  reqs[p] = Idle /\ (s # p => reqs'[s] = reqs[s])
  BY <1>1, <1>2 DEF Begin
<1> QED
  BY <1>2 DEF StartRequest, SendMessageBatch, ReceiveMessage, DeleteMessageBatch,
              ChangeMessageVisibilityBatch

\* So does a step of one.
LEMMA HandlerAlone ==
  ASSUME TypeOK, NEW p \in Requests, Proceed(p) \/ Disconnect(p),
         NEW s \in Requests, s # p
  PROVE  reqs'[s] = reqs[s]
<1>1. reqs \in [Requests -> Request]
  BY DEF TypeOK
<1>2. ASSUME NEW x, reqs' = [reqs EXCEPT ![p] = x]
      PROVE  reqs'[s] = reqs[s]
  BY <1>1, <1>2
<1>3. CASE Return(p) \/ UNCHANGED reqs \/ \E pc : Goto(p, pc)
  BY <1>2, <1>3 DEF Return, Goto
<1>4. CASE sendMessageEntry(p) \/ deleteByReceiptHandle(p) \/ changeVisibilityByReceiptHandle(p)
  BY <1>2, <1>4 DEF sendMessageEntry, deleteByReceiptHandle, changeVisibilityByReceiptHandle,
                    NextEntry
<1>5. CASE replayReceiveAttempt(p) \/ ReceiveLoop(p)
  BY <1>3, <1>5 DEF replayReceiveAttempt, ReceiveLoop
<1>6. CASE ReceiveNothing(p) \/ PollWake(p)
  BY <1>1, <1>3, <1>6 DEF ReceiveNothing, PollWake
<1>7. CASE RedriveRound(p) \/ LeaseCandidates(p) \/ Disconnect(p)
  BY <1>3, <1>7 DEF RedriveRound, LeaseCandidates, Disconnect
<1> QED
  BY <1>4, <1>5, <1>6, <1>7 DEF Proceed

\* What a section that is run as a whole leaves behind.
LEMMA WholeKept ==
  ASSUME IInv, [SectionNext]_planeVars
  PROVE  /\ TypeInv' /\ NowNotAhead' /\ ReceiptsDelivered' /\ AttemptsAnswered'
         /\ RowsOnward /\ DOMAIN receipts \subseteq DOMAIN receipts'
BY TypeStep, NowStep, SectionReceipts, SectionAttempts, SectionOnward DEF IInv

LEMMA SurroundingsStep ==
  ASSUME IInv, Surroundings, UNCHANGED <<open, splits>>
  PROVE  IInv'
<1>1. [SectionNext]_planeVars /\ TypeOK
  BY DEF Surroundings, SectionNext, IInv, TypeInv
<1>2. ASSUME NEW s \in Requests
      PROVE  Fits(s)'
  <2>1. open[s] \in Section /\ Fits(s) /\ open'[s] = open[s]
    BY DEF IInv
  <2>2. CASE reqs'[s] = reqs[s]
    BY <1>1, <2>1, <2>2, WholeKept, FitsKept
  <2>3. CASE reqs[s] = Idle
    <3>1. open'[s] = Closed
      BY <2>1, <2>3 DEF Fits, SectionOfHandler
    <3> QED
      BY <3>1, FitsClosed
  <2>4. reqs'[s] = reqs[s] \/ reqs[s] = Idle
    <3>1. ASSUME NEW p \in Requests, StartRequest(p)
          PROVE  reqs'[s] = reqs[s] \/ reqs[s] = Idle
      BY <1>1, <3>1, StartsAlone
    <3>2. CASE Tick \/ RefusedRequest
      BY <3>2 DEF Tick, RefusedRequest
    <3>3. CASE (\E q \in PurgeableQueues : PurgeQueue(q)) \/ (\E q \in DeletableQueues : DeleteQueue(q))
      BY <3>3 DEF PurgeQueue, DeleteQueue
    <3> QED
      BY <3>1, <3>2, <3>3 DEF Surroundings
  <2> QED
    BY <2>2, <2>3, <2>4
<1>3. (open \in [Requests -> Section])' /\ (splits \in 0 .. MaxSplits)'
  BY DEF IInv
<1> QED
  BY <1>1, <1>2, <1>3, WholeKept DEF IInv

\* A handler's section run as a whole, and a handler that is cut off.
LEMMA WholeStep ==
  ASSUME IInv, NEW p \in Requests, WholeSection(p) \/ CutOff(p)
  PROVE  IInv'
<1>1. TypeOK /\ open \in [Requests -> Section] /\ splits \in 0 .. MaxSplits
  BY DEF IInv, TypeInv
<1>2. Proceed(p) \/ Disconnect(p)
  BY DEF WholeSection, CutOff
<1>3. [SectionNext]_planeVars
  BY <1>2 DEF SectionNext
<1>4. open' = [open EXCEPT ![p] = Closed] /\ splits' = splits
  <2>1. CASE WholeSection(p)
    BY <1>1, <2>1 DEF WholeSection
  <2>2. CASE CutOff(p)
    BY <2>2 DEF CutOff, Closes
  <2> QED
    BY <2>1, <2>2
<1>5. Closed \in Section
  BY DEF Section
<1>6. open' \in [Requests -> Section] /\ open'[p] = Closed
      /\ \A s \in Requests : s # p => open'[s] = open[s]
  BY <1>1, <1>4, <1>5
<1>7. ASSUME NEW s \in Requests, s # p
      PROVE  Fits(s)'
  <2>1. reqs'[s] = reqs[s]
    BY <1>1, <1>2, <1>7, HandlerAlone
  <2>2. open[s] \in Section /\ open'[s] = open[s] /\ Fits(s)
    BY <1>6, <1>7 DEF IInv
  <2> QED
    BY <1>3, <2>1, <2>2, WholeKept, FitsKept
<1>8. \A s \in Requests : Fits(s)'
  BY <1>6, <1>7, FitsClosed
<1> QED
  BY <1>1, <1>3, <1>4, <1>6, <1>8, WholeKept DEF IInv

-----------------------------------------------------------------------------
(* One statement of a section.                                               *)

\* How a statement leaves its own handler: waiting for the next statement, done
\* with a batch entry, done with the request, or back in the polling loop.
HandlerMoves(p) ==
  \/ UNCHANGED reqs
  \/ Return(p)
  \/ reqs[p].op \in {"send", "delete", "change"} /\ EntryDone(p)
  \/ reqs[p].op = "replay" /\ Goto(p, "loop")

LEMMA HandlerKept ==
  ASSUME TypeInv, NowNotAhead, NEW p \in Requests, HandlerMoves(p), UNCHANGED clock
  PROVE  /\ reqs' \in [Requests -> Request] /\ BatchesNonEmpty' /\ NowNotAhead'
         /\ \A s \in Requests : s # p => reqs'[s] = reqs[s]
<1>1. TypeOK /\ reqs \in [Requests -> Request] /\ BatchesNonEmpty
  BY DEF TypeInv, TypeOK
<1>2. ASSUME NEW x \in Request, HasEntry(x), x # Idle => x.now = reqs[p].now,
             reqs[p] # Idle, reqs' = [reqs EXCEPT ![p] = x]
      PROVE  /\ reqs' \in [Requests -> Request] /\ BatchesNonEmpty' /\ NowNotAhead'
             /\ \A s \in Requests : s # p => reqs'[s] = reqs[s]
  <2>1. x # Idle => x.now <= clock
    BY <1>2 DEF NowNotAhead
  <2> QED
    BY <1>1, <1>2, <2>1, RequestWritten, NowWritten
<1>3. CASE UNCHANGED reqs
  BY <1>1, <1>3 DEF BatchesNonEmpty, NowNotAhead
<1>4. CASE Return(p)
  <2>1. reqs' = [reqs EXCEPT ![p] = Idle]
    BY <1>4 DEF Return
  <2>2. NowNotAhead'
    BY <2>1, NowWritten
  <2> QED
    BY <1>1, <1>4, <2>1, <2>2, RequestReturned
<1>5. CASE reqs[p].op = "send" /\ EntryDone(p)
  <2> DEFINE x == [reqs[p] EXCEPT !.entries = Tail(reqs[p].entries)]
  <2>1. reqs[p] \in SendRequest /\ reqs[p].entries # << >> /\ reqs[p].entries \in Seq(Entry)
    BY <1>1, <1>5, RequestKinds DEF BatchesNonEmpty, SendRequest
  <2>2. reqs' = [reqs EXCEPT ![p] = IF Len(reqs[p].entries) = 1 THEN Idle ELSE x]
    BY <1>5 DEF EntryDone, NextEntry
  <2>3. CASE Len(reqs[p].entries) = 1
    BY <1>4, <2>2, <2>3 DEF Return
  <2>4. CASE Len(reqs[p].entries) # 1
    <3>1. Tail(reqs[p].entries) \in Seq(Entry) /\ Tail(reqs[p].entries) # << >>
      BY <2>1, <2>4, TailOfBatch
    <3>2. x \in SendRequest /\ x.op = "send" /\ x.now = reqs[p].now
          /\ x.entries = Tail(reqs[p].entries)
      BY <2>1, <3>1 DEF SendRequest
    <3>3. x \in Request /\ HasEntry(x) /\ reqs[p] # Idle
      BY <1>5, <3>1, <3>2 DEF Request, HasEntry, Idle
    <3>4. reqs' = [reqs EXCEPT ![p] = x]
      BY <2>2, <2>4
    <3> HIDE DEF x
    <3> QED
      BY <1>2, <3>2, <3>3, <3>4
  <2> QED
    BY <2>3, <2>4
<1>6. CASE reqs[p].op = "delete" /\ EntryDone(p)
  <2> DEFINE x == [reqs[p] EXCEPT !.handles = Tail(reqs[p].handles)]
  <2>1. reqs[p] \in DeleteRequest /\ reqs[p].handles # << >> /\ reqs[p].handles \in Seq(Nat)
    BY <1>1, <1>6, RequestKinds DEF BatchesNonEmpty, DeleteRequest
  <2>2. reqs' = [reqs EXCEPT ![p] = IF Len(reqs[p].handles) = 1 THEN Idle ELSE x]
    BY <1>6 DEF EntryDone, NextEntry
  <2>3. CASE Len(reqs[p].handles) = 1
    BY <1>4, <2>2, <2>3 DEF Return
  <2>4. CASE Len(reqs[p].handles) # 1
    <3>1. Tail(reqs[p].handles) \in Seq(Nat) /\ Tail(reqs[p].handles) # << >>
      BY <2>1, <2>4, TailOfBatch
    <3>2. x \in DeleteRequest /\ x.op = "delete" /\ x.now = reqs[p].now
          /\ x.handles = Tail(reqs[p].handles)
      BY <2>1, <3>1 DEF DeleteRequest
    <3>3. x \in Request /\ HasEntry(x) /\ reqs[p] # Idle
      BY <1>6, <3>1, <3>2 DEF Request, HasEntry, Idle
    <3>4. reqs' = [reqs EXCEPT ![p] = x]
      BY <2>2, <2>4
    <3> HIDE DEF x
    <3> QED
      BY <1>2, <3>2, <3>3, <3>4
  <2> QED
    BY <2>3, <2>4
<1>7. CASE reqs[p].op = "change" /\ EntryDone(p)
  <2> DEFINE x == [reqs[p] EXCEPT !.changes = Tail(reqs[p].changes)]
  <2>1. reqs[p] \in ChangeRequest /\ reqs[p].changes # << >> /\ reqs[p].changes \in Seq(Change)
    BY <1>1, <1>7, RequestKinds DEF BatchesNonEmpty, ChangeRequest
  <2>2. reqs' = [reqs EXCEPT ![p] = IF Len(reqs[p].changes) = 1 THEN Idle ELSE x]
    BY <1>7 DEF EntryDone, NextEntry
  <2>3. CASE Len(reqs[p].changes) = 1
    BY <1>4, <2>2, <2>3 DEF Return
  <2>4. CASE Len(reqs[p].changes) # 1
    <3>1. Tail(reqs[p].changes) \in Seq(Change) /\ Tail(reqs[p].changes) # << >>
      BY <2>1, <2>4, TailOfBatch
    <3>2. x \in ChangeRequest /\ x.op = "change" /\ x.now = reqs[p].now
          /\ x.changes = Tail(reqs[p].changes)
      BY <2>1, <3>1 DEF ChangeRequest
    <3>3. x \in Request /\ HasEntry(x) /\ reqs[p] # Idle
      BY <1>7, <3>1, <3>2 DEF Request, HasEntry, Idle
    <3>4. reqs' = [reqs EXCEPT ![p] = x]
      BY <2>2, <2>4
    <3> HIDE DEF x
    <3> QED
      BY <1>2, <3>2, <3>3, <3>4
  <2> QED
    BY <2>3, <2>4
<1>8. CASE reqs[p].op = "replay" /\ Goto(p, "loop")
  <2> DEFINE x == [reqs[p] EXCEPT !.op = "loop"]
  <2>1. reqs[p] \in ReceiveRequest
    BY <1>1, <1>8, RequestKinds
  <2>2. x \in ReceiveRequest /\ x.op = "loop" /\ x.now = reqs[p].now
    BY <2>1 DEF ReceiveRequest
  <2>3. x \in Request /\ HasEntry(x) /\ reqs[p] # Idle
    BY <1>8, <2>2 DEF Request, HasEntry, Idle
  <2>4. reqs' = [reqs EXCEPT ![p] = x]
    BY <1>8 DEF Goto
  <2> HIDE DEF x
  <2> QED
    BY <1>2, <2>2, <2>3, <2>4
<1> QED
  BY <1>3, <1>4, <1>5, <1>6, <1>7, <1>8 DEF HandlerMoves

\* Receipts stay with their rows; a new one is of a delivered row.
ReceiptsFollow ==
  /\ receipts' \in Seq(Receipt)
  /\ DOMAIN receipts \subseteq DOMAIN receipts'
  /\ \A h \in DOMAIN receipts' :
       \/ h \in DOMAIN receipts /\ receipts'[h].message = receipts[h].message
       \/ Delivered(receipts'[h].message)

\* What every statement keeps of the tables.
TablesKept ==
  /\ UNCHANGED <<clock, deleted, purgeExpires, doomed>>
  /\ messages' \in Seq(Message)
  /\ ledger' \in SUBSET LedgerEntry
  /\ attempts' \in SUBSET Attempt
  /\ accepted' \in SUBSET Send
  /\ AttemptsAnswered'
  /\ RowsOnward

\* A statement that writes well-formed rows and leaves its section sound
\* preserves the invariant: the sections of the others hold copies, and those
\* stay what they were.
LEMMA StatementKept ==
  ASSUME IInv, NEW p \in Requests, NEW y \in Section,
         open' = [open EXCEPT ![p] = y], splits' \in 0 .. MaxSplits,
         HandlerMoves(p), TablesKept, ReceiptsFollow, Fits(p)'
  PROVE  IInv'
<1>1. TypeInv /\ TypeOK /\ NowNotAhead /\ open \in [Requests -> Section]
  BY DEF IInv, TypeInv
<1>2. /\ reqs' \in [Requests -> Request] /\ BatchesNonEmpty' /\ NowNotAhead'
      /\ \A s \in Requests : s # p => reqs'[s] = reqs[s]
  BY <1>1, HandlerKept DEF TablesKept
<1>3. ReceiptsDelivered'
  <2>1. \A r : Delivered(r) => Delivered(r)'
    BY DEF TablesKept, RowsOnward, Delivered
  <2>2. \A h \in DOMAIN receipts' : \E r : r = receipts'[h].message /\ Delivered(r)
    BY DEF ReceiptsFollow, ReceiptsDelivered, IInv
  <2>3. \A h \in DOMAIN receipts' : \E r : r = receipts'[h].message /\ Delivered(r)'
    BY <2>1, <2>2
  <2> QED
    BY <2>3 DEF ReceiptsDelivered, Delivered
<1>4. ReceiptsRefer'
  BY <1>3 DEF ReceiptsDelivered, ReceiptsRefer, Delivered
<1>5. TypeOK'
  BY <1>1, <1>2 DEF TypeOK, TablesKept, ReceiptsFollow
<1>6. ASSUME NEW s \in Requests, s # p
      PROVE  Fits(s)'
  <2>1. open'[s] = open[s] /\ open[s] \in Section /\ Fits(s) /\ reqs'[s] = reqs[s]
    BY <1>1, <1>2, <1>6 DEF IInv
  <2> QED
    BY <2>1, FitsKept DEF TablesKept, ReceiptsFollow
<1>7. open' \in [Requests -> Section]
  BY <1>1
<1> QED
  BY <1>2, <1>3, <1>4, <1>5, <1>6, <1>7 DEF IInv, TypeInv, TablesKept

\* A section that holds no copy of a row is sound where it belongs.
LEMMA FitsWithoutCopies ==
  ASSUME NEW p \in Requests, SectionOfHandler(open[p], reqs[p])',
         open'[p].at \in {"insert", "record", "remember", "find", "forget"}
  PROVE  Fits(p)'
<1>1. open'[p].at \notin LeaseAt \cup RedriveAt \cup LoadedAt \cup {"load"}
  BY DEF LeaseAt, RedriveAt, LoadedAt
<1>2. CandidatesSound(open[p])'
  BY <1>1 DEF CandidatesSound, LeaseAt, RedriveAt
<1>3. HandleSound(open[p], reqs[p])'
  BY <1>1 DEF HandleSound, LoadedAt
<1> QED
  BY <1>2, <1>3 DEF Fits

\* A statement that only reads, or that only writes tables without rows and
\* receipts.
LEMMA NoRowWritten ==
  ASSUME IInv, UNCHANGED <<clock, deleted, purgeExpires, messages, receipts, doomed>>,
         ledger' \in SUBSET LedgerEntry, attempts' \in SUBSET Attempt, UNCHANGED accepted,
         AttemptsAnswered'
  PROVE  TablesKept /\ ReceiptsFollow
<1>1. TypeOK
  BY DEF IInv, TypeInv
<1> QED
  BY <1>1, RowsSame DEF TablesKept, ReceiptsFollow, TypeOK

LEMMA NothingWritten ==
  ASSUME IInv,
         UNCHANGED <<clock, deleted, purgeExpires, messages, receipts, ledger, attempts,
                     accepted, doomed>>
  PROVE  TablesKept /\ ReceiptsFollow
<1>1. TypeOK /\ AttemptsAnswered
  BY DEF IInv, TypeInv
<1>2. AttemptsAnswered'
  BY <1>1 DEF AttemptsAnswered
<1> QED
  BY <1>1, <1>2, NoRowWritten DEF TypeOK

\* Where a statement leaves the section of its handler.
LEMMA SectionMoved ==
  ASSUME IInv, NEW p \in Requests, NEW y \in Section, Opens(p, y) \/ Moves(p, y)
  PROVE  /\ open' = [open EXCEPT ![p] = y] /\ open'[p] = y
         /\ splits' \in 0 .. MaxSplits
<1>1. open \in [Requests -> Section] /\ splits \in 0 .. MaxSplits /\ MaxSplits \in Nat
  BY SplitsAssumption DEF IInv
<1>2. open' = [open EXCEPT ![p] = y]
  BY DEF Opens, Moves
<1>3. open'[p] = y
  BY <1>1, <1>2
<1>4. splits' \in 0 .. MaxSplits
  BY <1>1 DEF Opens, Moves
<1> QED
  BY <1>2, <1>3, <1>4

\* The last statement of a section.
LEMMA StatementCloses ==
  ASSUME IInv, NEW p \in Requests, Closes(p), HandlerMoves(p), TablesKept, ReceiptsFollow
  PROVE  IInv'
<1>1. Closed \in Section /\ Moves(p, Closed)
  BY DEF Section, Closes, Moves
<1>2. /\ open' = [open EXCEPT ![p] = Closed] /\ open'[p] = Closed
      /\ splits' \in 0 .. MaxSplits
  BY <1>1, SectionMoved
<1> QED
  BY <1>1, <1>2, FitsClosed, StatementKept

-----------------------------------------------------------------------------
(* The statements of a send.                                                 *)

\* What a send works with.
LEMMA SendFacts ==
  ASSUME IInv, NEW p \in Requests, reqs[p].op = "send"
  PROVE  /\ reqs[p] # Idle /\ reqs[p].queue \in Queues /\ reqs[p].now \in Nat
         /\ Head(reqs[p].entries) \in Entry
<1>1. reqs[p] \in SendRequest /\ reqs[p].entries # << >>
  BY RequestKinds DEF IInv, TypeInv, BatchesNonEmpty
<1>2. reqs[p].queue \in Queues /\ reqs[p].now \in Nat /\ reqs[p].entries \in Seq(Entry)
  BY <1>1 DEF SendRequest
<1> QED
  BY <1>1, <1>2 DEF Idle

LEMMA FindNoDuplicateStep ==
  ASSUME IInv, NEW p \in Requests, FindNoDuplicate(p)
  PROVE  IInv'
<1> DEFINE y == [at |-> "insert"]
<1>1. reqs[p].op = "send" /\ reqs[p] # Idle /\ Opens(p, y) /\ UNCHANGED planeVars
  BY SendFacts DEF FindNoDuplicate
<1>2. y \in Section
  BY DEF Section, SendSection
<1>3. open' = [open EXCEPT ![p] = y] /\ open'[p] = y /\ splits' \in 0 .. MaxSplits
  BY <1>1, <1>2, SectionMoved
<1>4. Fits(p)'
  BY <1>1, <1>3, FitsWithoutCopies DEF SectionOfHandler, LeaseAt, RedriveAt, planeVars
<1>5. HandlerMoves(p) /\ TablesKept /\ ReceiptsFollow
  BY <1>1, NothingWritten DEF HandlerMoves, planeVars
<1> QED
  BY <1>2, <1>3, <1>4, <1>5, StatementKept

\* The row a send inserts is well formed and comes at the end.
LEMMA RowInserted ==
  ASSUME IInv, NEW p \in Requests, InsertRow(p)
  PROVE  AddsRow(NewMessage(reqs[p].queue, Head(reqs[p].entries), reqs[p].now))
<1> DEFINE q == reqs[p].queue
           e == Head(reqs[p].entries)
           now == reqs[p].now
<1>1. reqs[p].op = "send"
  BY DEF IInv, InsertRow, Inside, Fits, SectionOfHandler
<1>2. q \in Queues /\ now \in Nat /\ e \in Entry
  BY <1>1, SendFacts
<1>3. NewMessage(q, e, now) \in Message
  <2>1. Retention[q] \in Nat /\ DelaySeconds[q] \in Nat
    BY <1>2, QueueAssumption
  <2>2. e.delay \in Nat \cup {NoDelay} /\ e.group \in Groups \cup {NoGroup}
    BY <1>2 DEF Entry
  <2>3. (IF e.delay = NoDelay THEN DelaySeconds[q] ELSE e.delay) \in Nat
    BY <2>1, <2>2
  <2> QED
    BY <1>2, <2>1, <2>2, <2>3 DEF NewMessage, Message
<1> QED
  BY <1>3 DEF InsertRow, AddsRow, NewMessage

LEMMA InsertRowStep ==
  ASSUME IInv, NEW p \in Requests, InsertRow(p)
  PROVE  IInv'
<1> DEFINE q == reqs[p].queue
           e == Head(reqs[p].entries)
           now == reqs[p].now
           row == Len(messages) + 1
           y == [at |-> "record", row |-> row]
<1>1. /\ TypeOK /\ clock \in Nat /\ row \in Nat /\ open[p].at = "insert"
      /\ AttemptsAnswered /\ reqs[p].op = "send"
  BY RowTypes DEF IInv, TypeInv, TypeOK, InsertRow, Inside, Fits, SectionOfHandler
<1>2. reqs[p] # Idle /\ q \in Queues /\ now \in Nat /\ e \in Entry
  BY <1>1, SendFacts
<1>3. NewSend(q, e, row, now) \in Send
  <2>1. EffectiveDedup(e) \in DedupIds
    BY <1>2 DEF EffectiveDedup, Entry
  <2>2. dedupScopeKey(q, e) \in Groups \cup {NoGroup}
    BY <1>2 DEF dedupScopeKey, Entry
  <2> QED
    BY <1>1, <1>2, <2>1, <2>2 DEF NewSend, Send
<1>4. accepted' = accepted \cup {NewSend(q, e, row, now)} /\ Moves(p, y)
  BY DEF InsertRow
<1>5. y \in Section
  BY <1>1 DEF Section, SendSection
<1>6. open' = [open EXCEPT ![p] = y] /\ open'[p] = y /\ splits' \in 0 .. MaxSplits
  BY <1>4, <1>5, SectionMoved
<1>7. UNCHANGED <<clock, deleted, purgeExpires, receipts, ledger, attempts, reqs, doomed>>
  BY DEF InsertRow
<1>8. Fits(p)'
  BY <1>1, <1>2, <1>6, <1>7, FitsWithoutCopies DEF SectionOfHandler, LeaseAt, RedriveAt
<1>9. HandlerMoves(p) /\ ReceiptsFollow
  BY <1>1, <1>7 DEF HandlerMoves, ReceiptsFollow, TypeOK
<1>10. TablesKept
  <2>1. messages' \in Seq(Message) /\ RowsOnward
    BY <1>1, RowInserted, RowAdded
  <2>2. accepted' \in SUBSET Send
    BY <1>1, <1>3, <1>4 DEF TypeOK
  <2>3. AttemptsAnswered'
    BY <1>1, <1>7 DEF AttemptsAnswered
  <2> QED
    BY <1>1, <1>7, <2>1, <2>2, <2>3 DEF TablesKept, TypeOK
<1> HIDE DEF y
<1> QED
  BY <1>5, <1>6, <1>8, <1>9, <1>10, StatementKept

LEMMA RecordSendStep ==
  ASSUME IInv, NEW p \in Requests, RecordSend(p)
  PROVE  IInv'
<1> DEFINE q == reqs[p].queue
           e == Head(reqs[p].entries)
           now == reqs[p].now
<1>1. /\ TypeOK /\ AttemptsAnswered /\ open[p] \in Section
      /\ open[p].at = "record" /\ reqs[p].op = "send"
  BY DEF IInv, TypeInv, RecordSend, Inside, Fits, SectionOfHandler
<1>2. q \in Queues /\ now \in Nat /\ e \in Entry /\ open[p].row \in Nat
  BY <1>1, SendFacts, SectionKinds
<1>3. NewLedger(q, e, open[p].row, now) \in SUBSET LedgerEntry
  <2>1. EffectiveDedup(e) \in DedupIds
    BY <1>2 DEF EffectiveDedup, Entry
  <2>2. dedupScopeKey(q, e) \in Groups \cup {NoGroup}
    BY <1>2 DEF dedupScopeKey, Entry
  <2>3. now + DedupWindow \in Nat
    BY <1>2, TimeAssumption
  <2> QED
    BY <1>1, <1>2, <2>1, <2>2, <2>3 DEF NewLedger, LedgerEntry, TypeOK
<1>4. /\ ledger' \in SUBSET LedgerEntry
      /\ UNCHANGED <<clock, deleted, purgeExpires, messages, receipts, attempts, accepted,
                     doomed>>
      /\ Closes(p)
      /\ HandlerMoves(p)
  BY <1>1, <1>3 DEF RecordSend, HandlerMoves
<1>5. AttemptsAnswered' /\ attempts' \in SUBSET Attempt
  BY <1>1, <1>4 DEF AttemptsAnswered, TypeOK
<1> QED
  BY <1>4, <1>5, NoRowWritten, StatementCloses

-----------------------------------------------------------------------------
(* The statements of a selection round.                                      *)

\* A queue of candidates with a new head.
LEMMA HeadReplaced ==
  ASSUME NEW S, NEW s \in Seq(S), s # << >>, NEW x \in S
  PROVE  LET t == <<x>> \o Tail(s) IN
         /\ t \in Seq(S) /\ t # << >> /\ Len(t) = Len(s) /\ DOMAIN t = DOMAIN s
         /\ t[1] = x /\ 1 \in DOMAIN s
         /\ \A i \in DOMAIN s : i # 1 => t[i] = s[i]
<1> DEFINE t == <<x>> \o Tail(s)
           u == Tail(s)
<1>1. Len(s) \in Nat \ {0} /\ DOMAIN s = 1 .. Len(s)
  BY EmptySeq, LenProperties
<1>2. u \in Seq(S) /\ Len(u) = Len(s) - 1 /\ \A i \in 1 .. Len(u) : u[i] = s[i + 1]
  BY HeadTailProperties
<1>3. <<x>> \in Seq(S) /\ Len(<<x>>) = 1 /\ <<x>>[1] = x
  OBVIOUS
<1>4. t \in Seq(S) /\ Len(t) = 1 + Len(u)
      /\ \A i \in 1 .. (1 + Len(u)) : t[i] = IF i <= 1 THEN <<x>>[i] ELSE u[i - 1]
  <2> HIDE DEF u
  <2> QED
    BY <1>2, <1>3, ConcatProperties DEF t, u
<1> HIDE DEF u, t
<1>5. Len(t) = Len(s) /\ DOMAIN t = 1 .. Len(s) /\ t[1] = x
  BY <1>1, <1>2, <1>3, <1>4, LenProperties
<1>6. ASSUME NEW i \in DOMAIN s, i # 1
      PROVE  t[i] = s[i]
  <2>1. i \in 1 .. (1 + Len(u)) /\ ~(i <= 1) /\ i - 1 \in 1 .. Len(u)
    BY <1>1, <1>2, <1>6
  <2>2. t[i] = u[i - 1] /\ u[i - 1] = s[(i - 1) + 1] /\ (i - 1) + 1 = i
    BY <1>2, <1>4, <2>1
  <2> QED
    BY <2>2
<1>7. t # << >>
  BY <1>1, <1>5
<1> QED
  BY <1>1, <1>4, <1>5, <1>6, <1>7 DEF t

\* The candidates of the next statement.
LEMMA CandidatesNext ==
  ASSUME RowsOnward, NEW p \in Requests, NEW t, open'[p].todo = t, t # << >>,
         \A i \in DOMAIN t : CopyOf(t[i].msg, t[i].row) /\ ~t[i].msg.deleted,
         open'[p].at \in RedriveAt => \A i \in DOMAIN t : t[i].msg.receiveCount > 0,
         open'[p].at = "issue" => \E r : r = t[1].row /\ Delivered(r)'
  PROVE  CandidatesSound(open[p])'
<1>1. \A i \in DOMAIN t : t[i].row \in DOMAIN messages' /\ SameOrigin(t[i].msg, messages'[t[i].row])
  BY DEF RowsOnward, CopyOf, SameOrigin
<1> QED
  BY <1>1 DEF CandidatesSound, CopyOf, Delivered

LEMMA CandidatesHandle ==
  ASSUME NEW p \in Requests, open'[p].at \in LeaseAt \cup RedriveAt
  PROVE  HandleSound(open[p], reqs[p])'
BY DEF HandleSound, LeaseAt, RedriveAt, LoadedAt

\* Receipts that are deactivated stay with their rows.
LEMMA DeactivatedFollow ==
  ASSUME IInv, NEW R, receipts' = ReceiptsDeactivated(R)
  PROVE  ReceiptsFollow
<1>1. TypeOK
  BY DEF IInv, TypeInv
<1> QED
  BY <1>1, DeactivatedTable DEF ReceiptsFollow

\* What a statement keeps that writes no table but the receipts.
LEMMA OnlyReceipts ==
  ASSUME IInv, UNCHANGED <<clock, deleted, purgeExpires, messages, ledger, attempts,
                           accepted, doomed>>
  PROVE  TablesKept
<1>1. TypeOK /\ AttemptsAnswered
  BY DEF IInv, TypeInv
<1>2. AttemptsAnswered'
  BY <1>1 DEF AttemptsAnswered
<1> QED
  BY <1>1, <1>2, RowsSame DEF TablesKept, TypeOK

\* What a statement keeps that writes one row and no other table.
LEMMA OnlyRow ==
  ASSUME IInv, NEW r, NEW m, WritesRow(r, m),
         UNCHANGED <<clock, deleted, purgeExpires, receipts, ledger, attempts, accepted, doomed>>
  PROVE  TablesKept /\ ReceiptsFollow /\ \E s : s = r /\ Delivered(s)'
<1>1. TypeOK /\ AttemptsAnswered
  BY DEF IInv, TypeInv
<1>2. AttemptsAnswered'
  BY <1>1 DEF AttemptsAnswered
<1>3. /\ messages' \in Seq(Message) /\ DOMAIN messages' = DOMAIN messages
      /\ messages'[r] = m /\ RowsOnward
  BY <1>1, RowWritten
<1>4. r \in DOMAIN messages' /\ messages'[r].receiveCount > 0
  BY <1>3 DEF WritesRow
<1> QED
  BY <1>1, <1>2, <1>3, <1>4 DEF TablesKept, ReceiptsFollow, TypeOK, Delivered

\* What a receive works with.
LEMMA SelectFacts ==
  ASSUME IInv, NEW p \in Requests, reqs[p].op = "select"
  PROVE  /\ reqs[p] \in ReceiveRequest /\ reqs[p] # Idle
         /\ reqs[p].queue \in Queues /\ reqs[p].now \in Nat
         /\ reqs[p].vis \in Nat /\ reqs[p].max \in Nat \ {0} /\ clock \in Nat
         /\ reqs[p].attempt \in AttemptIds \cup {NoAttempt}
<1>1. reqs[p] \in ReceiveRequest
  BY RequestKinds DEF IInv, TypeInv
<1>2. /\ reqs[p].queue \in Queues /\ reqs[p].now \in Nat
      /\ reqs[p].vis \in Nat /\ reqs[p].max \in Nat \ {0}
      /\ reqs[p].attempt \in AttemptIds \cup {NoAttempt}
  BY <1>1 DEF ReceiveRequest
<1>3. reqs[p] # Idle
  BY DEF Idle
<1> QED
  BY <1>1, <1>2, <1>3 DEF IInv, TypeInv, TypeOK

\* The copies of rows that exist.
LEMMA CopiesType ==
  ASSUME TypeOK, NEW k \in Nat, NEW c \in [1 .. k -> DOMAIN messages]
  PROVE  /\ Copies(c) \in Seq(Copy) /\ Len(Copies(c)) = k /\ DOMAIN Copies(c) = 1 .. k
         /\ \A i \in 1 .. k : Copies(c)[i].row = c[i] /\ Copies(c)[i].msg = messages[c[i]]
<1> DEFINE f == Copies(c)
<1>1. f = [i \in 1 .. k |-> [row |-> c[i], msg |-> messages[c[i]]]]
  BY DEF Copies
<1>2. \A i \in 1 .. k : f[i] = [row |-> c[i], msg |-> messages[c[i]]]
  BY <1>1
<1>3. \A i \in 1 .. k : c[i] \in DOMAIN messages /\ c[i] \in Nat /\ messages[c[i]] \in Message
  BY RowTypes
<1> HIDE DEF f
<1>4. ASSUME NEW i \in 1 .. k PROVE f[i] \in Copy
  <2> DEFINE r == c[i]
             m == messages[c[i]]
  <2>1. f[i] = [row |-> r, msg |-> m] /\ r \in Nat /\ m \in Message
    BY <1>2, <1>3
  <2> HIDE DEF r, m
  <2> QED
    BY <2>1 DEF Copy
<1>5. f = [i \in 1 .. k |-> f[i]]
  BY <1>1
<1>6. f \in Seq(Copy) /\ Len(f) = k /\ DOMAIN f = 1 .. k
  BY <1>4, <1>5, TableType
<1> QED
  BY <1>2, <1>6 DEF f

\* A list that is not empty has a first element.
LEMMA FirstElement ==
  ASSUME NEW S, NEW k \in Nat, NEW c \in [1 .. k -> S], c # << >>
  PROVE  1 \in 1 .. k
<1>1. c \in Seq(S)
  BY SeqDef
<1>2. Len(c) = k
  BY <1>1, LenProperties
<1> QED
  BY <1>1, <1>2, EmptySeq

\* e lists n of the k candidates c, all of them exhausted.
ExhaustedList(q, k, c, n, e) ==
  /\ e \in [1 .. n -> DOMAIN messages]
  /\ \A j \in 1 .. n : /\ \E i \in 1 .. k : e[j] = c[i]
                       /\ shouldRedrive(q, e[j])

LEMMA ExhaustedRows ==
  ASSUME NEW q, NEW k \in Nat, NEW c \in [1 .. k -> DOMAIN messages], NEW e \in Exhausted(q, c)
  PROVE  \E n \in Nat : ExhaustedList(q, k, c, n, e)
<1> DEFINE places == {i \in DOMAIN c : shouldRedrive(q, c[i])}
           n == Cardinality(places)
<1>1. places \subseteq 1 .. k /\ \A i \in places : shouldRedrive(q, c[i])
  OBVIOUS
<1>2. n \in Nat
  <2>1. IsFiniteSet(1 .. k)
    BY FS_Interval
  <2> HIDE DEF places
  <2> QED
    BY <1>1, <2>1, FS_Subset, FS_CardinalityType
<1>3. PICK f \in [1 .. n -> places] : e = [j \in DOMAIN f |-> c[f[j]]]
  BY DEF Exhausted
<1> HIDE DEF places, n
<1>4. e = [j \in 1 .. n |-> c[f[j]]]
  BY <1>3
<1>5. \A j \in 1 .. n : f[j] \in 1 .. k /\ e[j] = c[f[j]] /\ shouldRedrive(q, c[f[j]])
  BY <1>1, <1>3, <1>4
<1>6. e \in [1 .. n -> DOMAIN messages]
  BY <1>4, <1>5
<1> QED
  BY <1>2, <1>5, <1>6 DEF ExhaustedList

LEMMA ListCandidatesStep ==
  ASSUME IInv, NEW p \in Requests, ListCandidates(p)
  PROVE  IInv'
<1> DEFINE q == reqs[p].queue
<1>1. TypeOK /\ reqs[p].op = "select" /\ UNCHANGED planeVars
  BY DEF IInv, TypeInv, ListCandidates
<1>2. reqs[p] # Idle /\ q \in Queues /\ reqs[p].max \in Nat
  BY <1>1, SelectFacts
<1>3. PICK c \in candidateMessages(q, reqs[p].max, reqs[p].now) :
        \E e \in Exhausted(q, c) :
         /\ c # << >>
         /\ Opens(p, IF e = << >>
                       THEN [at |-> "deactivate", todo |-> Copies(c), issued |-> << >>]
                       ELSE [at |-> "void", todo |-> Copies(e)])
  BY DEF ListCandidates
<1>4. PICK k \in Nat : Selected(q, k, c)
  BY <1>1, <1>2, CandidateFacts
<1>5. c \in [1 .. k -> DOMAIN messages] /\ \A i \in 1 .. k : ~messages[c[i]].deleted
  BY <1>4 DEF Selected
<1>6. PICK e \in Exhausted(q, c) :
         /\ c # << >>
         /\ Opens(p, IF e = << >>
                       THEN [at |-> "deactivate", todo |-> Copies(c), issued |-> << >>]
                       ELSE [at |-> "void", todo |-> Copies(e)])
  BY <1>3
<1>7. \A m, r : r \in DOMAIN messages /\ m = messages[r] => CopyOf(m, r)
  BY DEF CopyOf, SameOrigin
<1>8. HandlerMoves(p) /\ TablesKept /\ ReceiptsFollow /\ RowsOnward
  BY <1>1, NothingWritten DEF HandlerMoves, planeVars, TablesKept
<1>9. CASE e = << >>
  <2> DEFINE t == Copies(c)
             y == [at |-> "deactivate", todo |-> t, issued |-> << >>]
  <2>1. Opens(p, y)
    BY <1>6, <1>9
  <2>2. /\ t \in Seq(Copy) /\ Len(t) = k /\ DOMAIN t = 1 .. k
        /\ \A i \in 1 .. k : t[i].row = c[i] /\ t[i].msg = messages[c[i]]
    BY <1>1, <1>5, CopiesType
  <2>3. t # << >>
    <3>1. 1 \in 1 .. k
      BY <1>5, <1>6, FirstElement
    <3>2. DOMAIN t # {} /\ DOMAIN << >> = {}
      BY <2>2, <3>1
    <3> QED
      BY <3>2
  <2>4. \A i \in DOMAIN t : CopyOf(t[i].msg, t[i].row) /\ ~t[i].msg.deleted
    BY <1>5, <1>7, <2>2
  <2> HIDE DEF t
  <2>5. y \in Section /\ y.at = "deactivate" /\ y.todo = t
    BY <2>2 DEF Section, LeaseSection
  <2>6. open' = [open EXCEPT ![p] = y] /\ open'[p] = y /\ splits' \in 0 .. MaxSplits
    BY <2>1, <2>5, SectionMoved
  <2> HIDE DEF y
  <2>7. SectionOfHandler(open[p], reqs[p])'
    BY <1>1, <1>2, <2>5, <2>6 DEF SectionOfHandler, LeaseAt, RedriveAt, planeVars
  <2>8. CandidatesSound(open[p])'
    BY <1>8, <2>3, <2>4, <2>5, <2>6, CandidatesNext DEF RedriveAt
  <2>9. HandleSound(open[p], reqs[p])'
    BY <2>5, <2>6, CandidatesHandle DEF LeaseAt
  <2> QED
    BY <1>8, <2>5, <2>6, <2>7, <2>8, <2>9, StatementKept DEF Fits
<1>10. CASE e # << >>
  <2> DEFINE t == Copies(e)
             y == [at |-> "void", todo |-> t]
  <2>1. Opens(p, y)
    BY <1>6, <1>10
  <2>2. PICK n \in Nat : /\ e \in [1 .. n -> DOMAIN messages]
                         /\ \A j \in 1 .. n : /\ \E i \in 1 .. k : e[j] = c[i]
                                              /\ shouldRedrive(q, e[j])
    <3>1. \E n \in Nat : ExhaustedList(q, k, c, n, e)
      BY <1>5, <1>6, ExhaustedRows
    <3> QED
      BY <3>1 DEF ExhaustedList
  <2>3. /\ t \in Seq(Copy) /\ Len(t) = n /\ DOMAIN t = 1 .. n
        /\ \A i \in 1 .. n : t[i].row = e[i] /\ t[i].msg = messages[e[i]]
    BY <1>1, <2>2, CopiesType
  <2>4. t # << >> /\ 1 \in 1 .. n
    <3>1. 1 \in 1 .. n
      BY <1>10, <2>2, FirstElement
    <3>2. DOMAIN t # {} /\ DOMAIN << >> = {}
      BY <2>3, <3>1
    <3> QED
      BY <3>1, <3>2
  <2>5. \A i \in DOMAIN t : CopyOf(t[i].msg, t[i].row) /\ ~t[i].msg.deleted
    BY <1>5, <1>7, <2>2, <2>3
  <2>6. RedriveTarget[q] # NoQueue
    BY <2>2, <2>4 DEF shouldRedrive
  <2>7. \A i \in DOMAIN t : t[i].msg.receiveCount > 0
    <3>1. MaxReceiveCount[q] \in Nat \ {0}
      BY <1>2, QueueAssumption
    <3>2. \A i \in 1 .. n : messages[e[i]] \in Message /\ messages[e[i]].receiveCount >= MaxReceiveCount[q]
      BY <1>1, <2>2, RowTypes DEF shouldRedrive
    <3>3. \A i \in 1 .. n : messages[e[i]].receiveCount \in Nat
      BY <3>2 DEF Message
    <3> QED
      BY <2>3, <3>1, <3>2, <3>3
  <2> HIDE DEF t
  <2>8. y \in Section /\ y.at = "void" /\ y.todo = t
    BY <2>3 DEF Section, RedriveSection
  <2>9. open' = [open EXCEPT ![p] = y] /\ open'[p] = y /\ splits' \in 0 .. MaxSplits
    BY <2>1, <2>8, SectionMoved
  <2> HIDE DEF y
  <2>10. SectionOfHandler(open[p], reqs[p])'
    BY <1>1, <1>2, <2>6, <2>8, <2>9 DEF SectionOfHandler, LeaseAt, RedriveAt, planeVars
  <2>11. CandidatesSound(open[p])'
    BY <1>8, <2>4, <2>5, <2>7, <2>8, <2>9, CandidatesNext
  <2>12. HandleSound(open[p], reqs[p])'
    BY <2>8, <2>9, CandidatesHandle DEF RedriveAt
  <2> QED
    BY <1>8, <2>8, <2>9, <2>10, <2>11, <2>12, StatementKept DEF Fits
<1> QED
  BY <1>9, <1>10

\* A selection round that leases.
LEMMA LeaseSections ==
  ASSUME IInv, NEW p \in Requests, open[p].at \in LeaseAt
  PROVE  /\ open[p] \in LeaseSection
         /\ open[p].todo \in Seq(Copy) /\ open[p].todo # << >>
         /\ open[p].issued \in Seq(Nat)
         /\ Head(open[p].todo) = open[p].todo[1] /\ open[p].todo[1] \in Copy
         /\ 1 \in DOMAIN open[p].todo
         /\ \A i \in DOMAIN open[p].todo : /\ CopyOf(open[p].todo[i].msg, open[p].todo[i].row)
                                           /\ ~open[p].todo[i].msg.deleted
         /\ reqs[p].op = "select" /\ reqs[p] # Idle
<1>1. open[p] \in Section /\ Fits(p)
  BY DEF IInv
<1>2. open[p] \in LeaseSection
  BY <1>1, SectionKinds
<1>3. open[p].todo \in Seq(Copy) /\ open[p].issued \in Seq(Nat)
  BY <1>2 DEF LeaseSection
<1>4. /\ open[p].todo # << >> /\ reqs[p].op = "select"
      /\ \A i \in DOMAIN open[p].todo : /\ CopyOf(open[p].todo[i].msg, open[p].todo[i].row)
                                        /\ ~open[p].todo[i].msg.deleted
  BY <1>1 DEF Fits, SectionOfHandler, CandidatesSound
<1>5. /\ Head(open[p].todo) = open[p].todo[1] /\ open[p].todo[1] \in Copy
      /\ 1 \in DOMAIN open[p].todo
  BY <1>3, <1>4, HeadTailProperties, EmptySeq, LenProperties
<1> QED
  BY <1>2, <1>3, <1>4, <1>5 DEF Idle

\* A selection round that redrives.
LEMMA RedriveSections ==
  ASSUME IInv, NEW p \in Requests, open[p].at \in RedriveAt
  PROVE  /\ open[p] \in RedriveSection
         /\ open[p].todo \in Seq(Copy) /\ open[p].todo # << >>
         /\ Head(open[p].todo) = open[p].todo[1] /\ open[p].todo[1] \in Copy
         /\ 1 \in DOMAIN open[p].todo
         /\ \A i \in DOMAIN open[p].todo : /\ CopyOf(open[p].todo[i].msg, open[p].todo[i].row)
                                           /\ ~open[p].todo[i].msg.deleted
                                           /\ open[p].todo[i].msg.receiveCount > 0
         /\ reqs[p].op = "select" /\ reqs[p] # Idle /\ RedriveTarget[reqs[p].queue] # NoQueue
<1>1. open[p] \in Section /\ Fits(p)
  BY DEF IInv
<1>2. open[p] \in RedriveSection
  BY <1>1, SectionKinds
<1>3. open[p].todo \in Seq(Copy)
  BY <1>2 DEF RedriveSection
<1>4. /\ open[p].todo # << >> /\ reqs[p].op = "select" /\ RedriveTarget[reqs[p].queue] # NoQueue
      /\ \A i \in DOMAIN open[p].todo : /\ CopyOf(open[p].todo[i].msg, open[p].todo[i].row)
                                        /\ ~open[p].todo[i].msg.deleted
                                        /\ open[p].todo[i].msg.receiveCount > 0
  BY <1>1 DEF Fits, SectionOfHandler, CandidatesSound
<1>5. /\ Head(open[p].todo) = open[p].todo[1] /\ open[p].todo[1] \in Copy
      /\ 1 \in DOMAIN open[p].todo
  BY <1>3, <1>4, HeadTailProperties, EmptySeq, LenProperties
<1> QED
  BY <1>2, <1>3, <1>4, <1>5 DEF Idle

\* The rest of a queue of candidates.
LEMMA RestOfQueue ==
  ASSUME NEW S, NEW s \in Seq(S), s # << >>, Len(s) # 1
  PROVE  /\ Tail(s) \in Seq(S) /\ Tail(s) # << >>
         /\ \A i \in DOMAIN Tail(s) : i + 1 \in DOMAIN s /\ Tail(s)[i] = s[i + 1]
<1>1. Tail(s) \in Seq(S) /\ Tail(s) # << >>
  BY TailOfBatch
<1> DEFINE u == Tail(s)
<1>2. /\ Len(s) \in Nat /\ DOMAIN s = 1 .. Len(s)
      /\ Len(u) = Len(s) - 1 /\ DOMAIN u = 1 .. Len(u)
      /\ \A i \in 1 .. Len(u) : u[i] = s[i + 1]
  BY <1>1, HeadTailProperties, LenProperties
<1> HIDE DEF u
<1>3. \A i \in DOMAIN u : i + 1 \in DOMAIN s /\ u[i] = s[i + 1]
  BY <1>2
<1> QED
  BY <1>1, <1>3 DEF u

LEMMA DeactivatePriorsStep ==
  ASSUME IInv, NEW p \in Requests, DeactivatePriors(p)
  PROVE  IInv'
<1> DEFINE t == open[p].todo
           y == [open[p] EXCEPT !.at = "update"]
<1>1. open[p].at \in LeaseAt
  BY DEF DeactivatePriors, Inside, LeaseAt
<1>2. /\ open[p] \in LeaseSection /\ t # << >> /\ reqs[p].op = "select" /\ reqs[p] # Idle
      /\ \A i \in DOMAIN t : CopyOf(t[i].msg, t[i].row) /\ ~t[i].msg.deleted
  BY <1>1, LeaseSections
<1>3. y \in Section /\ y.at = "update" /\ y.todo = t
  BY <1>2 DEF Section, LeaseSection
<1>4. /\ Moves(p, y)
      /\ UNCHANGED <<clock, deleted, purgeExpires, messages, ledger, attempts, reqs,
                     accepted, doomed>>
      /\ \E R : receipts' = ReceiptsDeactivated(R)
  BY DEF DeactivatePriors
<1> HIDE DEF t, y
<1>5. open' = [open EXCEPT ![p] = y] /\ open'[p] = y /\ splits' \in 0 .. MaxSplits
  BY <1>3, <1>4, SectionMoved
<1>6. HandlerMoves(p) /\ TablesKept /\ ReceiptsFollow
  BY <1>4, OnlyReceipts, DeactivatedFollow DEF HandlerMoves
<1>7. SectionOfHandler(open[p], reqs[p])'
  BY <1>2, <1>3, <1>4, <1>5 DEF SectionOfHandler, LeaseAt, RedriveAt
<1>8. CandidatesSound(open[p])'
  BY <1>2, <1>3, <1>5, <1>6, CandidatesNext DEF RedriveAt, TablesKept
<1>9. HandleSound(open[p], reqs[p])'
  BY <1>3, <1>5, CandidatesHandle DEF LeaseAt
<1> QED
  BY <1>3, <1>5, <1>6, <1>7, <1>8, <1>9, StatementKept DEF Fits

\* What a lease writes is the candidate with its count and deadline.
LEMMA LeaseWritten ==
  ASSUME IInv, NEW p \in Requests, WriteLease(p)
  PROVE  LET t == open[p].todo
             h == t[1]
             m == [h.msg EXCEPT !.receiveCount = h.msg.receiveCount + 1,
                                !.visibilityDeadline = clock + reqs[p].vis]
             x == [h EXCEPT !.msg = m]
             u == <<x>> \o Tail(t)
             y == [open[p] EXCEPT !.at = "issue", !.todo = u]
         IN  /\ WritesRow(x.row, x.msg) /\ Moves(p, y)
             /\ UNCHANGED <<clock, deleted, purgeExpires, receipts, ledger, attempts, reqs,
                            accepted, doomed>>
             /\ x \in Copy /\ x.row = h.row /\ x.msg = m
             /\ CopyOf(m, h.row) /\ ~m.deleted
<1> DEFINE t == open[p].todo
           h == t[1]
           m == [h.msg EXCEPT !.receiveCount = h.msg.receiveCount + 1,
                              !.visibilityDeadline = clock + reqs[p].vis]
           x == [h EXCEPT !.msg = m]
           u == <<x>> \o Tail(t)
           y == [open[p] EXCEPT !.at = "issue", !.todo = u]
<1>1. open[p].at \in LeaseAt
  BY DEF WriteLease, Inside, LeaseAt
<1>2. /\ open[p] \in LeaseSection /\ t # << >> /\ reqs[p].op = "select" /\ reqs[p] # Idle
      /\ t \in Seq(Copy) /\ 1 \in DOMAIN t /\ h \in Copy /\ Head(t) = h
      /\ \A i \in DOMAIN t : CopyOf(t[i].msg, t[i].row) /\ ~t[i].msg.deleted
  BY <1>1, LeaseSections
<1>3. h.msg \in Message /\ h.msg.receiveCount \in Nat /\ h.row \in Nat
  BY <1>2 DEF Copy, Message
<1>4. clock + reqs[p].vis \in Nat
  BY <1>2, SelectFacts
<1>5. /\ UpdateMessage(x.row, x.msg)
      /\ Moves(p, y)
      /\ UNCHANGED <<clock, deleted, purgeExpires, receipts, ledger, attempts, reqs,
                     accepted, doomed>>
  <2>1. [Head(t) EXCEPT !.msg.receiveCount = @ + 1,
                        !.msg.visibilityDeadline = clock + reqs[p].vis] = x
    BY <1>2, <1>3 DEF Copy, Message
  <2> QED
    BY <2>1 DEF WriteLease
<1>6. /\ m \in Message /\ m.receiveCount = h.msg.receiveCount + 1
      /\ SameOrigin(m, h.msg) /\ m.deleted = h.msg.deleted
  <2> DEFINE n == h.msg
             count == h.msg.receiveCount + 1
             deadline == clock + reqs[p].vis
  <2>1. /\ n \in Message /\ count \in Nat /\ deadline \in Nat
        /\ m = [n EXCEPT !.receiveCount = count, !.visibilityDeadline = deadline]
    BY <1>3, <1>4
  <2> HIDE DEF n, count, deadline, m, h
  <2>2. m \in Message /\ m.receiveCount = count
    BY <2>1 DEF Message
  <2>3. SameOrigin(m, n) /\ m.deleted = n.deleted
    BY <2>1 DEF Message, SameOrigin
  <2> QED
    BY <2>2, <2>3 DEF n, count
<1>7. m.receiveCount > 0
  BY <1>3, <1>6
<1> HIDE DEF m
<1>8. x \in Copy /\ x.row = h.row /\ x.msg = m
  BY <1>2, <1>6 DEF Copy
<1>9. CopyOf(m, h.row) /\ ~m.deleted
  BY <1>2, <1>6 DEF CopyOf, SameOrigin
<1> HIDE DEF x
<1>10. WritesRow(x.row, x.msg)
  BY <1>5, <1>6, <1>7, <1>8, <1>9 DEF WritesRow, UpdateMessage, CopyOf
<1>11. /\ WritesRow(x.row, x.msg) /\ Moves(p, y)
       /\ UNCHANGED <<clock, deleted, purgeExpires, receipts, ledger, attempts, reqs,
                      accepted, doomed>>
       /\ x \in Copy /\ x.row = h.row /\ x.msg = m
       /\ CopyOf(m, h.row) /\ ~m.deleted
  BY <1>5, <1>8, <1>9, <1>10
<1> QED
  BY ONLY <1>11 DEF m, x

LEMMA WriteLeaseStep ==
  ASSUME IInv, NEW p \in Requests, WriteLease(p)
  PROVE  IInv'
<1> DEFINE t == open[p].todo
           h == t[1]
           m == [h.msg EXCEPT !.receiveCount = h.msg.receiveCount + 1,
                              !.visibilityDeadline = clock + reqs[p].vis]
           x == [h EXCEPT !.msg = m]
           u == <<x>> \o Tail(t)
           y == [open[p] EXCEPT !.at = "issue", !.todo = u]
<1>1. open[p].at \in LeaseAt
  BY DEF WriteLease, Inside, LeaseAt
<1>2. /\ open[p] \in LeaseSection /\ t # << >> /\ reqs[p].op = "select" /\ reqs[p] # Idle
      /\ t \in Seq(Copy) /\ 1 \in DOMAIN t /\ h \in Copy /\ Head(t) = h
      /\ \A i \in DOMAIN t : CopyOf(t[i].msg, t[i].row) /\ ~t[i].msg.deleted
  BY <1>1, LeaseSections
<1>3. /\ WritesRow(x.row, x.msg) /\ Moves(p, y)
      /\ UNCHANGED <<clock, deleted, purgeExpires, receipts, ledger, attempts, reqs,
                     accepted, doomed>>
      /\ x \in Copy /\ x.row = h.row /\ x.msg = m
      /\ CopyOf(m, h.row) /\ ~m.deleted
  BY LeaseWritten
<1> HIDE DEF m, x
<1>4. TablesKept /\ ReceiptsFollow /\ \E s : s = h.row /\ Delivered(s)'
  BY <1>3, OnlyRow
<1>5. /\ u \in Seq(Copy) /\ u # << >> /\ DOMAIN u = DOMAIN t /\ u[1] = x
      /\ \A i \in DOMAIN t : i # 1 => u[i] = t[i]
  BY <1>2, <1>3, HeadReplaced
<1> HIDE DEF u
<1>6. y \in Section /\ y.at = "issue" /\ y.todo = u
  BY <1>2, <1>5 DEF Section, LeaseSection
<1> HIDE DEF y
<1>7. open' = [open EXCEPT ![p] = y] /\ open'[p] = y /\ splits' \in 0 .. MaxSplits
  BY <1>3, <1>6, SectionMoved
<1>8. SectionOfHandler(open[p], reqs[p])'
  BY <1>2, <1>3, <1>6, <1>7 DEF SectionOfHandler, LeaseAt, RedriveAt
<1>9. CandidatesSound(open[p])'
  <2>1. \A i \in DOMAIN u : CopyOf(u[i].msg, u[i].row) /\ ~u[i].msg.deleted
    BY <1>2, <1>3, <1>5
  <2>2. \E s : s = u[1].row /\ Delivered(s)'
    BY <1>3, <1>4, <1>5
  <2> HIDE DEF t, h
  <2> QED
    BY <1>4, <1>5, <1>6, <1>7, <2>1, <2>2, CandidatesNext DEF RedriveAt, TablesKept
<1>10. HandleSound(open[p], reqs[p])'
  BY <1>6, <1>7, CandidatesHandle DEF LeaseAt
<1> QED
  BY <1>3, <1>4, <1>6, <1>7, <1>8, <1>9, <1>10, StatementKept DEF Fits, HandlerMoves

\* InsertReceipt for a delivered row.
LEMMA AppendedFollow ==
  ASSUME IInv, NEW x \in Receipt, Delivered(x.message), receipts' = Append(receipts, x)
  PROVE  ReceiptsFollow
<1>1. receipts \in Seq(Receipt)
  BY DEF IInv, TypeInv, TypeOK
<1>2. /\ receipts' \in Seq(Receipt) /\ Len(receipts') = Len(receipts) + 1
      /\ \A h \in 1 .. Len(receipts) : receipts'[h] = receipts[h]
      /\ receipts'[Len(receipts) + 1] = x
  BY <1>1, AppendProperties
<1>3. /\ DOMAIN receipts = 1 .. Len(receipts) /\ Len(receipts) \in Nat
      /\ DOMAIN receipts' = 1 .. (Len(receipts) + 1)
  BY <1>1, <1>2
<1>4. ASSUME NEW h \in DOMAIN receipts'
      PROVE  \/ h \in DOMAIN receipts /\ receipts'[h].message = receipts[h].message
             \/ Delivered(receipts'[h].message)
  <2>1. CASE h = Len(receipts) + 1
    BY <1>2, <2>1
  <2>2. CASE h # Len(receipts) + 1
    <3>1. h \in 1 .. Len(receipts)
      BY <1>3, <1>4, <2>2
    <3> QED
      BY <1>2, <1>3, <3>1
  <2> QED
    BY <2>1, <2>2
<1> QED
  BY <1>2, <1>3, <1>4 DEF ReceiptsFollow

LEMMA IssueReceiptStep ==
  ASSUME IInv, NEW p \in Requests, IssueReceipt(p)
  PROVE  IInv'
<1> DEFINE t == open[p].todo
           leased == t[1]
           handle == Len(receipts) + 1
           issued == Append(open[p].issued, handle)
           x == [queue |-> reqs[p].queue, message |-> leased.row, issuedAt |-> clock,
                 visibilityDeadline |-> leased.msg.visibilityDeadline, active |-> TRUE]
<1>1. TypeOK /\ open[p].at \in LeaseAt /\ open[p].at = "issue"
  BY DEF IssueReceipt, Inside, LeaseAt, IInv, TypeInv
<1>2. /\ open[p] \in LeaseSection /\ t # << >> /\ reqs[p].op = "select" /\ reqs[p] # Idle
      /\ t \in Seq(Copy) /\ leased \in Copy /\ Head(t) = leased
      /\ open[p].issued \in Seq(Nat)
      /\ \A i \in DOMAIN t : CopyOf(t[i].msg, t[i].row) /\ ~t[i].msg.deleted
  BY <1>1, LeaseSections
<1>3. reqs[p].queue \in Queues /\ clock \in Nat
      /\ reqs[p].attempt \in AttemptIds \cup {NoAttempt}
  BY <1>2, SelectFacts
<1>4. Delivered(leased.row)
  BY <1>1 DEF IInv, Fits, CandidatesSound
<1>5. x \in Receipt /\ x.message = leased.row
  <2>1. leased.row \in Nat /\ leased.msg.visibilityDeadline \in Nat
    BY <1>2 DEF Copy, Message
  <2> QED
    BY <1>3, <2>1 DEF Receipt
<1>6. /\ receipts' = Append(receipts, x)
      /\ UNCHANGED <<clock, deleted, purgeExpires, messages, ledger, attempts, accepted, doomed>>
  BY <1>2 DEF IssueReceipt
<1> HIDE DEF x
<1>7. TablesKept /\ ReceiptsFollow
  BY <1>4, <1>5, <1>6, AppendedFollow, OnlyReceipts
<1>8. handle \in Nat /\ issued \in Seq(Nat) /\ issued # << >>
  <2>1. handle \in Nat
    BY <1>1, RowTypes
  <2> HIDE DEF handle
  <2>2. issued \in Seq(Nat) /\ Len(issued) = Len(open[p].issued) + 1 /\ Len(open[p].issued) \in Nat
    BY <1>2, <2>1, AppendProperties, LenProperties
  <2>3. Len(issued) # 0
    BY <2>2
  <2> QED
    BY <2>1, <2>2, <2>3, EmptySeq
<1>9. CASE /\ Len(t) > 1
           /\ Moves(p, [at |-> "deactivate", todo |-> Tail(t), issued |-> issued])
           /\ UNCHANGED reqs
  <2> DEFINE u == Tail(t)
             y == [at |-> "deactivate", todo |-> u, issued |-> issued]
  <2>1. /\ u \in Seq(Copy) /\ u # << >>
        /\ \A i \in DOMAIN u : i + 1 \in DOMAIN t /\ u[i] = t[i + 1]
    <3>1. Len(t) # 1
      <4> DEFINE n == Len(t)
      <4>1. n \in Nat /\ n > 1
        BY <1>2, <1>9, LenProperties
      <4> HIDE DEF n
      <4>2. n # 1
        BY <4>1
      <4> QED
        BY <4>2 DEF n
    <3> HIDE DEF t
    <3> QED
      BY <1>2, <3>1, RestOfQueue
  <2>2. \A i \in DOMAIN u : CopyOf(u[i].msg, u[i].row) /\ ~u[i].msg.deleted
    BY <1>2, <2>1
  <2>3. Moves(p, y)
    BY <1>9
  <2> HIDE DEF u, issued
  <2>4. y \in Section /\ y.at = "deactivate" /\ y.todo = u
    BY <1>8, <2>1 DEF Section, LeaseSection
  <2> HIDE DEF y
  <2>5. open' = [open EXCEPT ![p] = y] /\ open'[p] = y /\ splits' \in 0 .. MaxSplits
    BY <2>3, <2>4, SectionMoved
  <2>6. SectionOfHandler(open[p], reqs[p])'
    BY <1>2, <1>9, <2>4, <2>5 DEF SectionOfHandler, LeaseAt, RedriveAt
  <2>7. CandidatesSound(open[p])'
    BY <1>7, <2>1, <2>2, <2>4, <2>5, CandidatesNext DEF RedriveAt, TablesKept
  <2>8. HandleSound(open[p], reqs[p])'
    BY <2>4, <2>5, CandidatesHandle DEF LeaseAt
  <2> QED
    BY <1>7, <1>9, <2>4, <2>5, <2>6, <2>7, <2>8, StatementKept DEF Fits, HandlerMoves
<1>10. CASE /\ reqs[p].attempt # NoAttempt
            /\ Moves(p, [at |-> "remember", issued |-> issued])
            /\ UNCHANGED reqs
  <2> DEFINE y == [at |-> "remember", issued |-> issued]
  <2>1. Moves(p, y)
    BY <1>10
  <2> HIDE DEF issued
  <2>2. y \in Section /\ y.at = "remember" /\ y.issued = issued
    BY <1>8 DEF Section, RememberSection
  <2> HIDE DEF y
  <2>3. open' = [open EXCEPT ![p] = y] /\ open'[p] = y /\ splits' \in 0 .. MaxSplits
    BY <2>1, <2>2, SectionMoved
  <2>4. Fits(p)'
    BY <1>2, <1>8, <1>10, <2>2, <2>3, FitsWithoutCopies DEF SectionOfHandler, LeaseAt, RedriveAt
  <2> QED
    BY <1>7, <1>10, <2>2, <2>3, <2>4, StatementKept DEF HandlerMoves
<1>11. CASE Closes(p) /\ Return(p)
  BY <1>7, <1>11, StatementCloses DEF HandlerMoves
<1> QED
  BY <1>9, <1>10, <1>11 DEF IssueReceipt

LEMMA RememberReceiveStep ==
  ASSUME IInv, NEW p \in Requests, RememberReceive(p)
  PROVE  IInv'
<1> DEFINE q == reqs[p].queue
           response == open[p].issued
<1>1. TypeOK /\ AttemptsAnswered /\ open[p].at = "remember" /\ open[p] \in Section
  BY DEF RememberReceive, Inside, IInv, TypeInv
<1>2. reqs[p].op = "select" /\ reqs[p].attempt # NoAttempt /\ response # << >>
  BY <1>1 DEF IInv, Fits, SectionOfHandler
<1>3. response \in Seq(Nat)
  <2>1. open[p] \in RememberSection
    BY <1>1, SectionKinds
  <2> QED
    BY <2>1 DEF RememberSection
<1>4. q \in Queues /\ clock \in Nat /\ reqs[p].attempt \in AttemptIds
  BY <1>2, SelectFacts
<1>5. attempts' = NewAttempt(q, reqs[p].attempt, response)
  BY DEF RememberReceive
<1> HIDE DEF response
<1>6. attempts' \in SUBSET Attempt /\ AttemptsAnswered'
  <2>1. clock + DedupWindow \in Nat
    BY <1>4, TimeAssumption
  <2>2. [queue |-> q, attempt |-> reqs[p].attempt, response |-> response,
         expiresAt |-> clock + DedupWindow] \in Attempt
    BY <1>3, <1>4, <2>1 DEF Attempt
  <2>3. \A a \in attempts' : a \in attempts \/ a.response = response
    BY <1>5 DEF NewAttempt
  <2> QED
    BY <1>1, <1>2, <1>5, <2>2, <2>3 DEF NewAttempt, TypeOK, AttemptsAnswered
<1>7. TablesKept /\ ReceiptsFollow
  BY <1>1, <1>6, NoRowWritten DEF RememberReceive, TypeOK
<1> QED
  BY <1>7, StatementCloses DEF RememberReceive, HandlerMoves

\* The next exhausted candidate, or the end of the section.
LEMMA NextExhaustedStep ==
  ASSUME IInv, NEW p \in Requests, open[p].at \in RedriveAt, NextExhausted(p),
         UNCHANGED reqs, TablesKept, ReceiptsFollow
  PROVE  IInv'
<1> DEFINE t == open[p].todo
           u == Tail(t)
           y == [at |-> "void", todo |-> u]
<1>1. /\ t \in Seq(Copy) /\ t # << >> /\ reqs[p].op = "select" /\ reqs[p] # Idle
      /\ RedriveTarget[reqs[p].queue] # NoQueue
      /\ \A i \in DOMAIN t : /\ CopyOf(t[i].msg, t[i].row) /\ ~t[i].msg.deleted
                             /\ t[i].msg.receiveCount > 0
  BY RedriveSections
<1>2. CASE Len(t) = 1
  BY <1>2, StatementCloses DEF NextExhausted, HandlerMoves
<1>3. CASE Len(t) # 1
  <2>1. Moves(p, y)
    BY <1>3 DEF NextExhausted
  <2>2. /\ u \in Seq(Copy) /\ u # << >>
        /\ \A i \in DOMAIN u : i + 1 \in DOMAIN t /\ u[i] = t[i + 1]
    <3> HIDE DEF t
    <3> QED
      BY <1>1, <1>3, RestOfQueue
  <2>3. \A i \in DOMAIN u : /\ CopyOf(u[i].msg, u[i].row) /\ ~u[i].msg.deleted
                            /\ u[i].msg.receiveCount > 0
    BY <1>1, <2>2
  <2> HIDE DEF u
  <2>4. y \in Section /\ y.at = "void" /\ y.todo = u
    BY <2>2 DEF Section, RedriveSection
  <2> HIDE DEF y
  <2>5. open' = [open EXCEPT ![p] = y] /\ open'[p] = y /\ splits' \in 0 .. MaxSplits
    BY <2>1, <2>4, SectionMoved
  <2>6. SectionOfHandler(open[p], reqs[p])'
    BY <1>1, <2>4, <2>5 DEF SectionOfHandler, LeaseAt, RedriveAt
  <2>7. CandidatesSound(open[p])'
    BY <2>2, <2>3, <2>4, <2>5, CandidatesNext DEF TablesKept
  <2>8. HandleSound(open[p], reqs[p])'
    BY <2>4, <2>5, CandidatesHandle DEF RedriveAt
  <2> QED
    BY <2>4, <2>5, <2>6, <2>7, <2>8, StatementKept DEF Fits, HandlerMoves
<1> QED
  BY <1>2, <1>3

LEMMA VoidReceiptsStep ==
  ASSUME IInv, NEW p \in Requests, VoidReceipts(p)
  PROVE  IInv'
<1> DEFINE t == open[p].todo
           y == [open[p] EXCEPT !.at = "move"]
<1>1. open[p].at \in RedriveAt
  BY DEF VoidReceipts, Inside, RedriveAt
<1>2. /\ open[p] \in RedriveSection /\ t # << >> /\ reqs[p].op = "select" /\ reqs[p] # Idle
      /\ RedriveTarget[reqs[p].queue] # NoQueue
      /\ \A i \in DOMAIN t : /\ CopyOf(t[i].msg, t[i].row) /\ ~t[i].msg.deleted
                             /\ t[i].msg.receiveCount > 0
  BY <1>1, RedriveSections
<1>3. UNCHANGED <<clock, deleted, purgeExpires, messages, ledger, attempts, reqs,
                  accepted, doomed>>
  BY DEF VoidReceipts
<1>4. CASE NextExhausted(p) /\ UNCHANGED receipts
  <2>1. TablesKept /\ ReceiptsFollow
    BY <1>3, <1>4, NothingWritten
  <2> QED
    BY <1>1, <1>3, <1>4, <2>1, NextExhaustedStep
<1>5. ASSUME NEW R, receipts' = ReceiptsDeactivated(R), Moves(p, y)
      PROVE  IInv'
  <2>1. y \in Section /\ y.at = "move" /\ y.todo = t
    BY <1>2 DEF Section, RedriveSection
  <2> HIDE DEF t, y
  <2>2. open' = [open EXCEPT ![p] = y] /\ open'[p] = y /\ splits' \in 0 .. MaxSplits
    BY <1>5, <2>1, SectionMoved
  <2>3. HandlerMoves(p) /\ TablesKept /\ ReceiptsFollow
    BY <1>3, <1>5, OnlyReceipts, DeactivatedFollow DEF HandlerMoves
  <2>4. SectionOfHandler(open[p], reqs[p])'
    BY <1>2, <1>3, <2>1, <2>2 DEF SectionOfHandler, LeaseAt, RedriveAt
  <2>5. CandidatesSound(open[p])'
    BY <1>2, <2>1, <2>2, <2>3, CandidatesNext DEF TablesKept
  <2>6. HandleSound(open[p], reqs[p])'
    BY <2>1, <2>2, CandidatesHandle DEF RedriveAt
  <2> QED
    BY <2>1, <2>2, <2>3, <2>4, <2>5, <2>6, StatementKept DEF Fits
<1> QED
  BY <1>4, <1>5 DEF VoidReceipts

\* A redriven row is a row, and it keeps its origin.
LEMMA RedrivenType ==
  ASSUME NEW q \in Queues, NEW now \in Nat, NEW n \in Message, RedriveTarget[q] \in Queues
  PROVE  LET m == Redriven(n, q, now) IN
         /\ m \in Message /\ m.receiveCount = n.receiveCount /\ m.deleted = n.deleted
         /\ m.dlSource = q /\ SameOrigin(m, n)
<1> DEFINE a == [n EXCEPT !.queue = RedriveTarget[q], !.availableAt = now]
           m == [a EXCEPT !.visibilityDeadline = 0, !.dlSource = q]
<1>1. a \in Message /\ a.receiveCount = n.receiveCount /\ a.deleted = n.deleted
      /\ SameOrigin(a, n)
  BY DEF Message, SameOrigin
<1>2. Redriven(n, q, now) = m
  BY DEF Redriven, Message
<1> HIDE DEF a
<1>3. m \in Message /\ m.receiveCount = a.receiveCount /\ m.deleted = a.deleted
      /\ m.dlSource = q /\ SameOrigin(m, a)
  BY <1>1 DEF Message, SameOrigin
<1> QED
  BY <1>1, <1>2, <1>3 DEF SameOrigin

LEMMA MoveRowStep ==
  ASSUME IInv, NEW p \in Requests, MoveRow(p)
  PROVE  IInv'
<1> DEFINE q == reqs[p].queue
           c == open[p].todo[1]
           m == Redriven(c.msg, q, reqs[p].now)
<1>1. open[p].at \in RedriveAt
  BY DEF MoveRow, Inside, RedriveAt
<1>2. /\ reqs[p].op = "select" /\ RedriveTarget[q] # NoQueue
      /\ c \in Copy /\ Head(open[p].todo) = c
      /\ CopyOf(c.msg, c.row) /\ c.msg.receiveCount > 0
  BY <1>1, RedriveSections
<1>3. q \in Queues /\ reqs[p].now \in Nat /\ RedriveTarget[q] \in Queues
  BY <1>2, SelectFacts, QueueAssumption
<1>4. /\ UpdateMessage(c.row, m) /\ NextExhausted(p)
      /\ UNCHANGED <<clock, deleted, purgeExpires, receipts, ledger, attempts, reqs,
                     accepted, doomed>>
  BY <1>2 DEF MoveRow
<1>5. /\ m \in Message /\ m.receiveCount = c.msg.receiveCount
      /\ SameOrigin(m, c.msg)
  BY <1>2, <1>3, RedrivenType DEF Copy
<1> HIDE DEF m, c
<1>6. WritesRow(c.row, m)
  BY <1>2, <1>4, <1>5 DEF WritesRow, UpdateMessage, CopyOf, SameOrigin
<1>7. TablesKept /\ ReceiptsFollow
  BY <1>4, <1>6, OnlyRow
<1> QED
  BY <1>1, <1>4, <1>7, NextExhaustedStep

-----------------------------------------------------------------------------
(* The statements behind a receipt handle.                                   *)

\* The receipt and the copy of the next statement.
LEMMA HandleNext ==
  ASSUME RowsOnward, DOMAIN receipts \subseteq DOMAIN receipts',
         NEW p \in Requests, NEW y, open'[p] = y, reqs'[p] = reqs[p],
         y.at \in LoadedAt \cup {"load"},
         y.handle \in DOMAIN receipts, Delivered(y.rcpt.message),
         y.at \in LoadedAt => /\ CopyOf(y.msg, y.rcpt.message)
                              /\ y.msg.receiveCount > 0
                              /\ y.at # "retire" => ~y.msg.deleted,
         y.at \in {"load", "mark"} /\ reqs[p].op = "delete" =>
           Entitles(y.rcpt, reqs[p], y.rcpt.message)
  PROVE  HandleSound(open[p], reqs[p])' /\ CandidatesSound(open[p])'
<1>1. \A r : Delivered(r) => r \in DOMAIN messages' /\ messages'[r].receiveCount > 0
  BY DEF RowsOnward, Delivered
<1>2. \A m, r : CopyOf(m, r) => r \in DOMAIN messages' /\ SameOrigin(m, messages'[r])
  BY DEF RowsOnward, CopyOf, SameOrigin
<1>3. HandleSound(open[p], reqs[p])'
  BY <1>1, <1>2 DEF HandleSound, Delivered, CopyOf, Entitles
<1>4. CandidatesSound(open[p])'
  BY DEF CandidatesSound, LoadedAt, LeaseAt, RedriveAt
<1> QED
  BY <1>3, <1>4

\* A section that works with a receipt.
LEMMA HandleSections ==
  ASSUME IInv, NEW p \in Requests, open[p].at \in LoadedAt \cup {"load"}
  PROVE  /\ open[p] \in FoundSection \cup LoadedSection
         /\ open[p].handle \in DOMAIN receipts /\ open[p].rcpt \in Receipt
         /\ open[p].rest \in Seq(Nat)
         /\ Delivered(open[p].rcpt.message)
         /\ reqs[p].op \in {"delete", "change", "replay"} /\ reqs[p] # Idle
         /\ open[p].at \in LoadedAt =>
              /\ open[p] \in LoadedSection
              /\ open[p].msg \in Message
              /\ CopyOf(open[p].msg, open[p].rcpt.message)
              /\ open[p].msg.receiveCount > 0
              /\ open[p].at # "retire" => ~open[p].msg.deleted
         /\ open[p].at \in {"load", "mark"} /\ reqs[p].op = "delete" =>
              Entitles(open[p].rcpt, reqs[p], open[p].rcpt.message)
<1>1. open[p] \in Section /\ Fits(p)
  BY DEF IInv
<1>2. /\ open[p].at \in LoadedAt => open[p] \in LoadedSection
      /\ open[p].at = "load" => open[p] \in FoundSection
  BY <1>1, SectionKinds
<1>3. /\ open[p] \in LoadedSection => open[p].msg \in Message
      /\ open[p] \in FoundSection \cup LoadedSection =>
           open[p].rcpt \in Receipt /\ open[p].rest \in Seq(Nat)
  BY DEF FoundSection, LoadedSection
<1>4. reqs[p].op \in {"delete", "change", "replay"}
  BY <1>1 DEF Fits, SectionOfHandler, LoadedAt
<1>5. reqs[p] # Idle
  BY <1>4 DEF Idle
<1> QED
  BY <1>1, <1>2, <1>3, <1>4, <1>5 DEF Fits, HandleSound

\* UpdateReceipt with a copy of a receipt whose row has been delivered.
LEMMA ReceiptWritten ==
  ASSUME IInv, NEW h \in DOMAIN receipts, NEW x \in Receipt, Delivered(x.message),
         UpdateReceipt(h, x)
  PROVE  ReceiptsFollow
<1>1. receipts \in Seq(Receipt) /\ receipts' = [receipts EXCEPT ![h] = x]
  BY DEF IInv, TypeInv, TypeOK, UpdateReceipt
<1>2. receipts' \in Seq(Receipt) /\ DOMAIN receipts' = DOMAIN receipts
  BY <1>1
<1>3. \A g \in DOMAIN receipts : receipts'[g] = IF g = h THEN x ELSE receipts[g]
  BY <1>1
<1> QED
  BY <1>2, <1>3 DEF ReceiptsFollow

\* A statement that leaves its section with a receipt at hand.
LEMMA HandleMoved ==
  ASSUME IInv, NEW p \in Requests, NEW y \in Section, Opens(p, y) \/ Moves(p, y),
         UNCHANGED reqs, TablesKept, ReceiptsFollow,
         y.at \in LoadedAt \cup {"load"},
         y.handle \in DOMAIN receipts, Delivered(y.rcpt.message),
         y.at \in LoadedAt => /\ CopyOf(y.msg, y.rcpt.message)
                              /\ y.msg.receiveCount > 0
                              /\ y.at # "retire" => ~y.msg.deleted,
         y.at \in {"load", "mark"} /\ reqs[p].op = "delete" =>
           Entitles(y.rcpt, reqs[p], y.rcpt.message),
         reqs[p] # Idle,
         y.at = "load" => reqs[p].op \in {"delete", "change", "replay"},
         y.at \in {"mark", "retire"} => reqs[p].op = "delete",
         y.at \in {"stretch", "stretchRow"} => reqs[p].op \in {"change", "replay"}
  PROVE  IInv'
<1>1. open' = [open EXCEPT ![p] = y] /\ open'[p] = y /\ splits' \in 0 .. MaxSplits
  BY SectionMoved
<1>2. SectionOfHandler(open[p], reqs[p])'
  BY <1>1 DEF SectionOfHandler, LoadedAt, LeaseAt, RedriveAt
<1>3. HandleSound(open[p], reqs[p])' /\ CandidatesSound(open[p])'
  BY <1>1, HandleNext DEF TablesKept, ReceiptsFollow
<1> QED
  BY <1>1, <1>2, <1>3, StatementKept DEF Fits, HandlerMoves

\* A statement that leaves its section without a copy.
LEMMA PlainMoved ==
  ASSUME IInv, NEW p \in Requests, NEW y \in Section, Opens(p, y) \/ Moves(p, y),
         UNCHANGED reqs, TablesKept, ReceiptsFollow, reqs[p] # Idle,
         \/ y.at = "forget" /\ reqs[p].op \in {"delete", "change"}
         \/ y.at = "find" /\ reqs[p].op = "replay" /\ y.rest # << >>
  PROVE  IInv'
<1>1. open' = [open EXCEPT ![p] = y] /\ open'[p] = y /\ splits' \in 0 .. MaxSplits
  BY SectionMoved
<1>2. SectionOfHandler(open[p], reqs[p])'
  BY <1>1 DEF SectionOfHandler, LeaseAt, RedriveAt
<1>3. Fits(p)'
  BY <1>1, <1>2, FitsWithoutCopies
<1> QED
  BY <1>1, <1>3, StatementKept DEF HandlerMoves

LEMMA FindReceiptStep ==
  ASSUME IInv, NEW p \in Requests, FindReceipt(p)
  PROVE  IInv'
<1>1. UNCHANGED planeVars /\ TypeOK /\ reqs[p].op \in {"delete", "change"} /\ reqs[p] # Idle
  BY DEF FindReceipt, IInv, TypeInv, Idle
<1>2. PICK h \in DOMAIN receipts :
        /\ HandleUsable(reqs[p].queue, h, reqs[p].now)
        /\ Opens(p, [at |-> "load", handle |-> h, rcpt |-> receipts[h], rest |-> << >>])
  BY DEF FindReceipt
<1> DEFINE y == [at |-> "load", handle |-> h, rcpt |-> receipts[h], rest |-> << >>]
<1>3. /\ y \in Section /\ y.at = "load" /\ y.handle = h /\ y.rcpt = receipts[h]
  <2>1. receipts[h] \in Receipt /\ h \in Nat
    BY <1>1, RowTypes
  <2> QED
    BY <2>1 DEF Section, FoundSection
<1>4. Opens(p, y)
  BY <1>2
<1> HIDE DEF y
<1>5. Delivered(receipts[h].message)
  BY DEF IInv, ReceiptsDelivered
<1>6. Entitles(receipts[h], reqs[p], receipts[h].message)
  BY <1>2 DEF HandleUsable, Entitles
<1>7. UNCHANGED reqs /\ TablesKept /\ ReceiptsFollow
  BY <1>1, NothingWritten DEF planeVars
<1> QED
  BY <1>1, <1>3, <1>4, <1>5, <1>6, <1>7, HandleMoved DEF LoadedAt

LEMMA FindAttemptStep ==
  ASSUME IInv, NEW p \in Requests, FindAttempt(p)
  PROVE  IInv'
<1>1. /\ UNCHANGED planeVars /\ TypeOK /\ AttemptsAnswered
      /\ reqs[p].op = "replay" /\ reqs[p] # Idle
  BY DEF FindAttempt, IInv, TypeInv, Idle
<1>2. PICK a \in attempts : Opens(p, [at |-> "find", rest |-> a.response])
  BY DEF FindAttempt
<1> DEFINE y == [at |-> "find", rest |-> a.response]
<1>3. a.response \in Seq(Nat) /\ a.response # << >>
  BY <1>1 DEF TypeOK, Attempt, AttemptsAnswered
<1>4. y \in Section /\ y.at = "find" /\ y.rest = a.response
  BY <1>3 DEF Section, ReplaySection
<1>5. UNCHANGED reqs /\ TablesKept /\ ReceiptsFollow
  BY <1>1, NothingWritten DEF planeVars
<1>6. Opens(p, y)
  BY <1>2
<1> HIDE DEF y
<1> QED
  BY <1>1, <1>3, <1>4, <1>5, <1>6, PlainMoved

LEMMA FindCachedStep ==
  ASSUME IInv, NEW p \in Requests, FindCached(p)
  PROVE  IInv'
<1> DEFINE h == Head(open[p].rest)
           rest == Tail(open[p].rest)
           y == [at |-> "load", handle |-> h, rcpt |-> receipts[h], rest |-> rest]
<1>1. TypeOK /\ open[p] \in Section /\ Fits(p) /\ open[p].at = "find"
  BY DEF IInv, TypeInv, FindCached, Inside
<1>2. reqs[p].op = "replay" /\ open[p].rest # << >> /\ reqs[p] # Idle
  BY <1>1 DEF Fits, SectionOfHandler, Idle
<1>3. open[p].rest \in Seq(Nat)
  <2>1. open[p] \in ReplaySection
    BY <1>1, SectionKinds
  <2> QED
    BY <2>1 DEF ReplaySection
<1>4. rest \in Seq(Nat)
  BY <1>2, <1>3, HeadTailProperties
<1>5. TablesKept /\ ReceiptsFollow
  BY NothingWritten DEF FindCached
<1>6. CASE GiveUpReplay(p)
  BY <1>2, <1>5, <1>6, StatementCloses DEF GiveUpReplay, HandlerMoves
<1>7. CASE h \in DOMAIN receipts /\ Moves(p, y) /\ UNCHANGED reqs
  <2> HIDE DEF h, rest
  <2>1. receipts[h] \in Receipt /\ h \in Nat
    BY <1>1, <1>7, RowTypes
  <2>2. y \in Section /\ y.at = "load" /\ y.handle = h /\ y.rcpt = receipts[h]
    BY <1>4, <2>1 DEF Section, FoundSection
  <2>3. Delivered(receipts[h].message)
    BY <1>7 DEF IInv, ReceiptsDelivered
  <2> HIDE DEF y
  <2> QED
    BY <1>2, <1>5, <1>7, <2>2, <2>3, HandleMoved DEF LoadedAt
<1> QED
  BY <1>6, <1>7 DEF FindCached

LEMMA LoadRowStep ==
  ASSUME IInv, NEW p \in Requests, LoadRow(p)
  PROVE  IInv'
<1> DEFINE r == open[p].rcpt.message
           m == messages[r]
           Y(at) == [at |-> at, handle |-> open[p].handle, rcpt |-> open[p].rcpt,
                     msg |-> m, rest |-> open[p].rest]
<1>1. TypeOK /\ open[p].at = "load"
  BY DEF IInv, TypeInv, LoadRow, Inside
<1>2. /\ open[p].handle \in DOMAIN receipts /\ open[p].rcpt \in Receipt
      /\ open[p].rest \in Seq(Nat) /\ Delivered(r)
      /\ reqs[p].op \in {"delete", "change", "replay"} /\ reqs[p] # Idle
      /\ reqs[p].op = "delete" => Entitles(open[p].rcpt, reqs[p], r)
  BY <1>1, HandleSections DEF LoadedAt
<1>3. m \in Message /\ CopyOf(m, r) /\ m.receiveCount > 0 /\ open[p].handle \in Nat
  BY <1>1, <1>2, RowTypes DEF Delivered, CopyOf, SameOrigin
<1>4. TablesKept /\ ReceiptsFollow
  BY NothingWritten DEF LoadRow
<1>5. ASSUME NEW at \in LoadedAt, Moves(p, Y(at)), UNCHANGED reqs,
             at # "retire" => ~m.deleted,
             at \in {"mark", "retire"} => reqs[p].op = "delete",
             at \in {"stretch", "stretchRow"} => reqs[p].op \in {"change", "replay"}
      PROVE  IInv'
  <2> DEFINE y == Y(at)
  <2> HIDE DEF m
  <2>1. /\ y \in Section /\ y.at = at /\ y.handle = open[p].handle /\ y.rcpt = open[p].rcpt
        /\ y.msg = m
    <3>1. y \in LoadedSection
      BY <1>2, <1>3, <1>5 DEF LoadedSection, LoadedAt
    <3> QED
      BY <3>1 DEF Section
  <2>2. Moves(p, y)
    BY <1>5
  <2> HIDE DEF y
  <2> QED
    BY <1>2, <1>3, <1>4, <1>5, <2>1, <2>2, HandleMoved DEF LoadedAt
<1>6. CASE reqs[p].op = "change" /\ EntryDone(p) /\ Closes(p)
  BY <1>4, <1>6, StatementCloses DEF HandlerMoves
<1>7. CASE reqs[p].op = "replay" /\ GiveUpReplay(p)
  BY <1>4, <1>7, StatementCloses DEF HandlerMoves, GiveUpReplay
<1> QED
  BY <1>5, <1>6, <1>7 DEF LoadRow, LoadedAt

LEMMA MarkRowStep ==
  ASSUME IInv, NEW p \in Requests, MarkRow(p)
  PROVE  IInv'
<1> DEFINE r == open[p].rcpt.message
           n == open[p].msg
           m == [n EXCEPT !.deleted = TRUE, !.visibilityDeadline = 0]
           y == [open[p] EXCEPT !.at = "retire"]
<1>1. open[p].at = "mark" /\ open[p].at \in LoadedAt
  BY DEF MarkRow, Inside, LoadedAt
<1>2. /\ open[p] \in LoadedSection /\ n \in Message /\ CopyOf(n, r) /\ n.receiveCount > 0
      /\ open[p].handle \in DOMAIN receipts /\ Delivered(r) /\ reqs[p] # Idle
  BY <1>1, HandleSections
<1>3. reqs[p].op = "delete"
  BY <1>1 DEF IInv, Fits, SectionOfHandler
<1>4. m \in Message /\ m.receiveCount = n.receiveCount /\ SameOrigin(m, n)
  BY <1>2 DEF Message, SameOrigin
<1>5. /\ UpdateMessage(r, m) /\ Moves(p, y)
      /\ UNCHANGED <<clock, deleted, purgeExpires, receipts, ledger, attempts, reqs,
                     accepted, doomed>>
  BY DEF MarkRow
<1>6. /\ y \in Section /\ y.at = "retire" /\ y.handle = open[p].handle
      /\ y.rcpt = open[p].rcpt /\ y.msg = n
  <2>1. y \in LoadedSection
    BY <1>2 DEF LoadedSection
  <2>2. /\ y.at = "retire" /\ y.handle = open[p].handle /\ y.rcpt = open[p].rcpt /\ y.msg = n
    BY <1>2 DEF LoadedSection
  <2> QED
    BY <2>1, <2>2 DEF Section
<1> HIDE DEF m, y
<1>7. WritesRow(r, m)
  BY <1>2, <1>4, <1>5 DEF WritesRow, UpdateMessage, CopyOf, SameOrigin
<1>8. TablesKept /\ ReceiptsFollow
  BY <1>5, <1>7, OnlyRow
<1> QED
  BY <1>2, <1>3, <1>5, <1>6, <1>8, HandleMoved DEF LoadedAt

LEMMA RetireReceiptStep ==
  ASSUME IInv, NEW p \in Requests, RetireReceipt(p)
  PROVE  IInv'
<1> DEFINE x == [open[p].rcpt EXCEPT !.active = FALSE]
           y == [at |-> "forget"]
<1>1. open[p].at = "retire" /\ open[p].at \in LoadedAt
  BY DEF RetireReceipt, Inside, LoadedAt
<1>2. /\ open[p].rcpt \in Receipt /\ open[p].handle \in DOMAIN receipts
      /\ Delivered(open[p].rcpt.message) /\ reqs[p] # Idle
  BY <1>1, HandleSections
<1>3. reqs[p].op = "delete"
  BY <1>1 DEF IInv, Fits, SectionOfHandler
<1>4. x \in Receipt /\ x.message = open[p].rcpt.message
  BY <1>2 DEF Receipt
<1>5. /\ UpdateReceipt(open[p].handle, x)
      /\ UNCHANGED <<clock, deleted, purgeExpires, messages, ledger, attempts, accepted, doomed>>
      /\ \/ EntryDone(p) /\ Closes(p)
         \/ Moves(p, y) /\ UNCHANGED reqs
  BY DEF RetireReceipt
<1> HIDE DEF x
<1>6. TablesKept /\ ReceiptsFollow
  BY <1>2, <1>4, <1>5, OnlyReceipts, ReceiptWritten
<1>7. CASE EntryDone(p) /\ Closes(p)
  BY <1>3, <1>6, <1>7, StatementCloses DEF HandlerMoves
<1>8. CASE Moves(p, y) /\ UNCHANGED reqs
  <2>1. y \in Section /\ y.at = "forget"
    BY DEF Section, ForgetSection
  <2> HIDE DEF y
  <2> QED
    BY <1>2, <1>3, <1>6, <1>8, <2>1, PlainMoved
<1> QED
  BY <1>5, <1>7, <1>8

\* The deadline a change or a replay sets is a time.
LEMMA NewDeadlineType ==
  ASSUME IInv, NEW p \in Requests, reqs[p].op \in {"change", "replay"}
  PROVE  NewDeadline(p) \in Nat
<1>1. TypeOK /\ BatchesNonEmpty
  BY DEF IInv, TypeInv
<1>2. CASE reqs[p].op = "change"
  <2>1. reqs[p] \in ChangeRequest /\ reqs[p].changes # << >>
    BY <1>1, <1>2, RequestKinds DEF BatchesNonEmpty
  <2>2. reqs[p].changes \in Seq(Change) /\ reqs[p].now \in Nat
    BY <2>1 DEF ChangeRequest
  <2>3. Head(reqs[p].changes) \in Change
    BY <2>1, <2>2, HeadTailProperties
  <2>4. Head(reqs[p].changes).timeout \in Nat
    BY <2>3 DEF Change
  <2> QED
    BY <1>2, <2>2, <2>4 DEF NewDeadline
<1>3. CASE reqs[p].op = "replay"
  <2>1. reqs[p] \in ReceiveRequest
    BY <1>1, <1>3, RequestKinds
  <2> QED
    BY <1>3, <2>1 DEF NewDeadline, ReceiveRequest
<1> QED
  BY <1>2, <1>3

LEMMA StretchReceiptStep ==
  ASSUME IInv, NEW p \in Requests, StretchReceipt(p)
  PROVE  IInv'
<1> DEFINE d == NewDeadline(p)
           x == [open[p].rcpt EXCEPT !.visibilityDeadline = d]
           y == [open[p] EXCEPT !.at = "stretchRow"]
<1>1. open[p].at = "stretch" /\ open[p].at \in LoadedAt
  BY DEF StretchReceipt, Inside, LoadedAt
<1>2. /\ open[p].rcpt \in Receipt /\ open[p].handle \in DOMAIN receipts
      /\ Delivered(open[p].rcpt.message) /\ reqs[p] # Idle
      /\ open[p] \in LoadedSection
      /\ CopyOf(open[p].msg, open[p].rcpt.message)
      /\ open[p].msg.receiveCount > 0 /\ ~open[p].msg.deleted
  BY <1>1, HandleSections
<1>3. reqs[p].op \in {"change", "replay"}
  BY <1>1 DEF IInv, Fits, SectionOfHandler
<1>4. d \in Nat
  BY <1>3, NewDeadlineType
<1> HIDE DEF d
<1>5. x \in Receipt /\ x.message = open[p].rcpt.message
  BY <1>2, <1>4 DEF Receipt
<1>6. /\ UpdateReceipt(open[p].handle, x) /\ Moves(p, y)
      /\ UNCHANGED <<clock, deleted, purgeExpires, messages, ledger, attempts, reqs,
                     accepted, doomed>>
  BY DEF StretchReceipt, d
<1>7. /\ y \in Section /\ y.at = "stretchRow" /\ y.handle = open[p].handle
      /\ y.rcpt = open[p].rcpt /\ y.msg = open[p].msg
  <2>1. y \in LoadedSection
    BY <1>2 DEF LoadedSection
  <2>2. /\ y.at = "stretchRow" /\ y.handle = open[p].handle /\ y.rcpt = open[p].rcpt
        /\ y.msg = open[p].msg
    BY <1>2 DEF LoadedSection
  <2> QED
    BY <2>1, <2>2 DEF Section
<1> HIDE DEF x, y
<1>8. TablesKept /\ ReceiptsFollow
  BY <1>2, <1>5, <1>6, OnlyReceipts, ReceiptWritten
<1> QED
  BY <1>2, <1>3, <1>6, <1>7, <1>8, HandleMoved DEF LoadedAt

LEMMA StretchRowStep ==
  ASSUME IInv, NEW p \in Requests, StretchRow(p)
  PROVE  IInv'
<1> DEFINE r == open[p].rcpt.message
           n == open[p].msg
           d == NewDeadline(p)
           m == [n EXCEPT !.visibilityDeadline = d]
           y == [at |-> "forget"]
           z == [at |-> "find", rest |-> open[p].rest]
<1>1. open[p].at = "stretchRow" /\ open[p].at \in LoadedAt
  BY DEF StretchRow, Inside, LoadedAt
<1>2. /\ n \in Message /\ CopyOf(n, r) /\ n.receiveCount > 0 /\ reqs[p] # Idle
      /\ open[p].rest \in Seq(Nat)
  BY <1>1, HandleSections
<1>3. reqs[p].op \in {"change", "replay"}
  BY <1>1 DEF IInv, Fits, SectionOfHandler
<1>4. d \in Nat
  BY <1>3, NewDeadlineType
<1> HIDE DEF d
<1>5. m \in Message /\ m.receiveCount = n.receiveCount /\ SameOrigin(m, n)
  BY <1>2, <1>4 DEF Message, SameOrigin
<1>6. /\ UpdateMessage(r, m)
      /\ UNCHANGED <<clock, deleted, purgeExpires, receipts, ledger, attempts,
                     accepted, doomed>>
      /\ \/ reqs[p].op = "change" /\ Moves(p, y) /\ UNCHANGED reqs
         \/ /\ reqs[p].op = "replay" /\ open[p].rest # << >>
            /\ Moves(p, z)
            /\ UNCHANGED reqs
         \/ Return(p) /\ Closes(p)
  BY DEF StretchRow, d
<1> HIDE DEF m
<1>7. WritesRow(r, m)
  BY <1>2, <1>5, <1>6 DEF WritesRow, UpdateMessage, CopyOf, SameOrigin
<1>8. TablesKept /\ ReceiptsFollow
  BY <1>6, <1>7, OnlyRow
<1>9. y \in Section /\ y.at = "forget" /\ z \in Section /\ z.at = "find" /\ z.rest = open[p].rest
  BY <1>2 DEF Section, ForgetSection, ReplaySection
<1> HIDE DEF y, z
<1>10. CASE reqs[p].op = "change" /\ Moves(p, y) /\ UNCHANGED reqs
  BY <1>2, <1>8, <1>9, <1>10, PlainMoved
<1>11. CASE reqs[p].op = "replay" /\ open[p].rest # << >> /\ Moves(p, z) /\ UNCHANGED reqs
  BY <1>2, <1>8, <1>9, <1>11, PlainMoved
<1>12. CASE Return(p) /\ Closes(p)
  BY <1>8, <1>12, StatementCloses DEF HandlerMoves
<1> QED
  BY <1>6, <1>10, <1>11, <1>12

LEMMA ForgetAttemptsStep ==
  ASSUME IInv, NEW p \in Requests, ForgetAttempts(p)
  PROVE  IInv'
<1>1. TypeOK /\ AttemptsAnswered /\ open[p].at = "forget"
  BY DEF IInv, TypeInv, ForgetAttempts, Inside
<1>2. reqs[p].op \in {"delete", "change"}
  BY <1>1 DEF IInv, Fits, SectionOfHandler
<1>3. attempts' \subseteq attempts /\ EntryDone(p) /\ Closes(p)
  BY DEF ForgetAttempts, AttemptsInvalidated
<1>4. attempts' \in SUBSET Attempt /\ AttemptsAnswered'
  BY <1>1, <1>3 DEF TypeOK, AttemptsAnswered
<1>5. TablesKept /\ ReceiptsFollow
  BY <1>1, <1>4, NoRowWritten DEF ForgetAttempts, TypeOK
<1> QED
  BY <1>2, <1>3, <1>5, StatementCloses DEF HandlerMoves

-----------------------------------------------------------------------------
(* Every step.                                                               *)

LEMMA StatementStep ==
  ASSUME IInv, NEW p \in Requests, Statement(p)
  PROVE  IInv'
BY FindNoDuplicateStep, InsertRowStep, RecordSendStep, ListCandidatesStep,
   DeactivatePriorsStep, WriteLeaseStep, IssueReceiptStep, RememberReceiveStep,
   VoidReceiptsStep, MoveRowStep, FindReceiptStep, FindAttemptStep, FindCachedStep,
   LoadRowStep, MarkRowStep, RetireReceiptStep, StretchReceiptStep, StretchRowStep,
   ForgetAttemptsStep DEF Statement

LEMMA IInvInit == Init => IInv
<1> SUFFICES ASSUME Init PROVE IInv
  OBVIOUS
<1>1. /\ SectionInit /\ open = [p \in Requests |-> Closed] /\ splits = 0
      /\ receipts = << >> /\ attempts = {} /\ \A p \in Requests : reqs[p] = Idle
  BY DEF Init, SectionInit
<1>2. TypeInv /\ NowNotAhead
  BY <1>1, TypeInit DEF NowNotAhead
<1>3. open \in [Requests -> Section] /\ splits \in 0 .. MaxSplits
  BY <1>1, SplitsAssumption DEF Section
<1>4. ReceiptsDelivered /\ AttemptsAnswered
  BY <1>1 DEF ReceiptsDelivered, AttemptsAnswered
<1>5. ASSUME NEW p \in Requests
      PROVE  Fits(p)
  <2>1. open[p] = Closed /\ open[p].at = "closed"
    BY <1>1 DEF Closed
  <2>2. SectionOfHandler(open[p], reqs[p])
    BY <2>1 DEF SectionOfHandler, LeaseAt, RedriveAt
  <2>3. CandidatesSound(open[p]) /\ HandleSound(open[p], reqs[p])
    BY <2>1 DEF CandidatesSound, HandleSound, LeaseAt, RedriveAt, LoadedAt
  <2> QED
    BY <2>2, <2>3 DEF Fits
<1> QED
  BY <1>2, <1>3, <1>4, <1>5 DEF IInv

LEMMA IInvStep == IInv /\ [Next]_vars => IInv'
<1> SUFFICES ASSUME IInv, [Next]_vars PROVE IInv'
  OBVIOUS
<1>1. CASE UNCHANGED vars
  <2>1. UNCHANGED planeVars /\ UNCHANGED <<open, splits>>
    BY <1>1 DEF vars, planeVars
  <2>2. /\ TypeInv' /\ NowNotAhead' /\ ReceiptsDelivered' /\ AttemptsAnswered'
        /\ RowsOnward /\ DOMAIN receipts \subseteq DOMAIN receipts'
    BY <2>1, WholeKept
  <2>3. \A s \in Requests : /\ open[s] \in Section /\ Fits(s)
                            /\ open'[s] = open[s] /\ reqs'[s] = reqs[s]
    BY <2>1 DEF planeVars, IInv
  <2>4. \A s \in Requests : Fits(s)'
    BY <2>2, <2>3, FitsKept
  <2> QED
    BY <2>1, <2>2, <2>4 DEF IInv
<1>2. CASE Surroundings /\ UNCHANGED <<open, splits>>
  BY <1>2, SurroundingsStep
<1>3. ASSUME NEW p \in Requests, WholeSection(p) \/ Statement(p) \/ CutOff(p)
      PROVE  IInv'
  BY <1>3, WholeStep, StatementStep
<1> QED
  BY <1>1, <1>2, <1>3 DEF Next

\* However the statements of any number of requests interleave, and wherever a
\* client goes away, every table keeps its rows well formed and every handler
\* is inside a section of its own operation (all handlers of messages.go).
THEOREM TypeCorrect == Spec => []StatementsTypeOK
<1>1. IInv => StatementsTypeOK
  BY DEF IInv, TypeInv, StatementsTypeOK
<1> QED
  BY <1>1, IInvInit, IInvStep, PTL DEF Spec

-----------------------------------------------------------------------------
(* What removes a message.                                                   *)

\* The copies that handlers write back are of undeleted rows, all but the one
\* of a delete.
LEMMA StatementLoss ==
  ASSUME IInv, NEW p \in Requests, Statement(p),
         NEW r \in DOMAIN messages, ~messages[r].deleted, messages'[r].deleted
  PROVE  DeletesUnderReceipt(p, r)
<1>1. messages \in Seq(Message) /\ TypeOK
  BY DEF IInv, TypeInv, TypeOK
<1>2. CASE UNCHANGED messages
  BY <1>2
<1>3. ASSUME NEW s, NEW m, ~m.deleted, UpdateMessage(s, m)
      PROVE  FALSE
  <2>1. messages'[r] = IF r = s THEN m ELSE messages[r]
    BY <1>1, <1>3 DEF UpdateMessage
  <2> QED
    BY <1>3, <2>1
<1>4. CASE InsertRow(p)
  BY <1>1, <1>4 DEF InsertRow
<1>5. CASE WriteLease(p)
  <2> DEFINE h == Head(open[p].todo)
             x == [h EXCEPT !.msg.receiveCount = h.msg.receiveCount + 1,
                            !.msg.visibilityDeadline = clock + reqs[p].vis]
  <2>1. h \in Copy /\ ~h.msg.deleted
    BY <1>5, LeaseSections DEF WriteLease, Inside, LeaseAt
  <2>2. UpdateMessage(x.row, x.msg)
    BY <1>5 DEF WriteLease
  <2>3. x.msg.deleted = h.msg.deleted
    BY <2>1 DEF Copy, Message
  <2> HIDE DEF x
  <2> QED
    BY <1>3, <2>1, <2>2, <2>3
<1>6. CASE MoveRow(p)
  <2> DEFINE c == Head(open[p].todo)
             m == Redriven(c.msg, reqs[p].queue, reqs[p].now)
  <2>1. c \in Copy /\ ~c.msg.deleted /\ UpdateMessage(c.row, m)
    BY <1>6, RedriveSections DEF MoveRow, Inside, RedriveAt
  <2>2. m.deleted = c.msg.deleted
    BY <2>1 DEF Redriven, Copy, Message
  <2> HIDE DEF m
  <2> QED
    BY <1>3, <2>1, <2>2
<1>7. CASE StretchRow(p)
  <2> DEFINE n == open[p].msg
             m == [n EXCEPT !.visibilityDeadline = NewDeadline(p)]
  <2>1. open[p].at = "stretchRow" /\ open[p].at \in LoadedAt
    BY <1>7 DEF StretchRow, Inside, LoadedAt
  <2>2. n \in Message /\ ~n.deleted
    BY <2>1, HandleSections
  <2>3. UpdateMessage(open[p].rcpt.message, m) /\ m.deleted = n.deleted
    BY <1>7, <2>2 DEF StretchRow, Message
  <2> HIDE DEF m
  <2> QED
    BY <1>3, <2>2, <2>3
<1>8. CASE MarkRow(p)
  <2> DEFINE s == open[p].rcpt.message
  <2>1. open[p].at = "mark" /\ open[p].at \in LoadedAt
    BY <1>8 DEF MarkRow, Inside, LoadedAt
  <2>2. reqs[p].op = "delete"
    BY <2>1 DEF IInv, Fits, SectionOfHandler
  <2>3. Entitles(open[p].rcpt, reqs[p], s)
    BY <2>1, <2>2, HandleSections
  <2>4. r = s
    <3>1. r # s => messages'[r] = messages[r]
      BY <1>1, <1>8 DEF MarkRow, UpdateMessage
    <3> QED
      BY <3>1
  <2> QED
    BY <2>1, <2>3, <2>4 DEF DeletesUnderReceipt
<1>9. CASE FindNoDuplicate(p) \/ ListCandidates(p) \/ FindReceipt(p) \/ FindAttempt(p)
  BY <1>2, <1>9 DEF FindNoDuplicate, ListCandidates, FindReceipt, FindAttempt, planeVars
<1>10. CASE RecordSend(p) \/ DeactivatePriors(p) \/ IssueReceipt(p) \/ RememberReceive(p)
              \/ VoidReceipts(p)
  BY <1>2, <1>10 DEF RecordSend, DeactivatePriors, IssueReceipt, RememberReceive, VoidReceipts
<1>11. CASE FindCached(p) \/ LoadRow(p) \/ RetireReceipt(p) \/ StretchReceipt(p)
              \/ ForgetAttempts(p)
  BY <1>2, <1>11 DEF FindCached, LoadRow, RetireReceipt, StretchReceipt, ForgetAttempts
<1> QED
  BY <1>4, <1>5, <1>6, <1>7, <1>8, <1>9, <1>10, <1>11 DEF Statement

LEMMA AccountedStep ==
  ASSUME IInv, [Next]_vars,
         NEW r \in DOMAIN messages, ~messages[r].deleted, messages'[r].deleted
  PROVE  \/ messages[r].retentionDeadline <= clock
         \/ purgeExpires[messages[r].queue] >= messages[r].sentAt
         \/ \E p \in Requests : DeletesUnderReceipt(p, r)
<1>1. CASE [SectionNext]_planeVars
  <2>1. LossCaused(r)
    BY <1>1, LossCauses DEF IInv
  <2>2. ASSUME NEW p \in Requests, reqs[p].op = "delete",
               HandleUsable(reqs[p].queue, Head(reqs[p].handles), reqs[p].now),
               receipts[Head(reqs[p].handles)].message = r
        PROVE  DeletesUnderReceipt(p, r)
    BY <2>2 DEF HandleUsable, DeletesUnderReceipt, Entitles
  <2> QED
    BY <2>1, <2>2 DEF LossCaused
<1>2. ASSUME NEW p \in Requests, Statement(p)
      PROVE  DeletesUnderReceipt(p, r)
  BY <1>2, StatementLoss
<1>3. CASE Surroundings
  BY <1>1, <1>3 DEF Surroundings, SectionNext
<1>4. ASSUME NEW p \in Requests, WholeSection(p) \/ CutOff(p)
      PROVE  [SectionNext]_planeVars
  BY <1>4 DEF WholeSection, CutOff, SectionNext
<1>5. CASE UNCHANGED vars
  BY <1>1, <1>5 DEF vars, planeVars
<1> QED
  BY <1>1, <1>2, <1>3, <1>4, <1>5 DEF Next

\* However the statements of any number of requests interleave, and wherever a
\* client goes away, a message disappears only at the end of its retention,
\* under a purge window, or through a delete under a receipt that was active
\* and had not lapsed when the delete looked it up (reapQueue,
\* deleteByReceiptHandle, and the whole-row UpdateMessage of every handler).
THEOREM LossesAccounted == Spec => LossAccounted
<1>1. IInv /\ [Next]_vars =>
        [\A r \in DOMAIN messages :
           ~messages[r].deleted /\ messages'[r].deleted
             => \/ messages[r].retentionDeadline <= clock
                \/ purgeExpires[messages[r].queue] >= messages[r].sentAt
                \/ \E p \in Requests : DeletesUnderReceipt(p, r)]_vars
  BY AccountedStep
<1> QED
  BY <1>1, IInvInit, IInvStep, PTL DEF Spec, LossAccounted

-----------------------------------------------------------------------------
(* The order of a FIFO group.                                                *)

\* Content v in row s, once delivered, overtakes row r.
Overtakes(v, s, r) ==
  /\ r \in DOMAIN messages /\ r < s
  /\ messages[r].sentAt <= v.sentAt
  /\ messages[r].queue = v.queue /\ v.queue \in FifoQueues
  /\ messages[r].group = v.group /\ v.group # NoGroup
  /\ messages[r].dlSource = NoQueue /\ v.dlSource = NoQueue
  /\ ~messages[r].deleted
  /\ messages[r].retentionDeadline > clock
  /\ ~(messages[r].receiveCount > 0)

\* A loaded copy overtakes nothing; a candidate overtakes at most those that
\* are leased before it.
CopiesInOrder(x) ==
  /\ x.at \in LoadedAt => \A r : ~Overtakes(x.msg, x.rcpt.message, r)
  /\ x.at \in LeaseAt =>
       \A i \in DOMAIN x.todo : \A r :
         Overtakes(x.todo[i].msg, x.todo[i].row, r)
           => \E j \in DOMAIN x.todo : j < i /\ x.todo[j].row = r

OrderInv == /\ IInv
            /\ FifoNoOvertake
            /\ \A p \in Requests : CopiesInOrder(open[p])

LEMMA NothingOvertaken ==
  FifoNoOvertake <=> \A r, s \in DOMAIN messages :
                       messages[s].receiveCount > 0 => ~Overtakes(messages[s], s, r)
BY DEF FifoNoOvertake, Overtakes, SameGroup, liveMessages

\* What a copy of an existing row does not overtake now, it does not later.
LEMMA OvertakesFewer ==
  ASSUME TypeOK, RowsOnward, clock \in Nat, clock' \in Nat, clock <= clock',
         NEW v, NEW s, s \in DOMAIN messages \/ DOMAIN messages' = DOMAIN messages,
         NEW r, Overtakes(v, s, r)'
  PROVE  Overtakes(v, s, r)
<1>1. /\ r \in DOMAIN messages' /\ r < s
      /\ ~(messages'[r].receiveCount > 0) /\ messages'[r].dlSource = NoQueue
      /\ ~messages'[r].deleted
  BY DEF Overtakes
<1>2. r \in DOMAIN messages
  <2>1. DOMAIN messages = 1 .. Len(messages) /\ Len(messages) \in Nat
    BY DEF TypeOK
  <2>2. CASE r \notin DOMAIN messages
    BY <1>1, <2>1, <2>2 DEF RowsOnward
  <2> QED
    BY <2>2
<1>3. messages[r].retentionDeadline \in Nat
  BY <1>2, RowTypes DEF Message
<1>4. /\ SameOrigin(messages'[r], messages[r])
      /\ messages[r].dlSource = NoQueue /\ messages'[r].queue = messages[r].queue
      /\ ~messages[r].deleted /\ ~(messages[r].receiveCount > 0)
  BY <1>1, <1>2 DEF RowsOnward
<1> QED
  BY <1>2, <1>3, <1>4 DEF Overtakes, SameOrigin

\* The copies of a section stay in order.
LEMMA OrderKept ==
  ASSUME TypeOK, RowsOnward, clock \in Nat, clock' \in Nat, clock <= clock',
         NEW s \in Requests, Fits(s), CopiesInOrder(open[s]), open'[s] = open[s]
  PROVE  CopiesInOrder(open[s])'
<1>1. ASSUME NEW x, CandidatesSound(x), HandleSound(x, reqs[s]), CopiesInOrder(x)
      PROVE  CopiesInOrder(x)'
  <2>1. x.at \in LoadedAt => x.rcpt.message \in DOMAIN messages
    BY <1>1 DEF HandleSound, Delivered
  <2>2. x.at \in LeaseAt => \A i \in DOMAIN x.todo : x.todo[i].row \in DOMAIN messages
    BY <1>1 DEF CandidatesSound, CopyOf
  <2> QED
    BY <1>1, <2>1, <2>2, OvertakesFewer DEF CopiesInOrder
<1> SUFFICES ASSUME NEW y, y = open[s] PROVE CopiesInOrder(open[s])'
  OBVIOUS
<1>2. CopiesInOrder(y)'
  BY <1>1 DEF Fits
<1> QED
  BY <1>2 DEF CopiesInOrder, Overtakes

\* So do those of a request outside of every section.
LEMMA OrderClosed ==
  ASSUME NEW s \in Requests, open'[s].at \notin LoadedAt \cup LeaseAt
  PROVE  CopiesInOrder(open[s])'
BY DEF CopiesInOrder

\* A section that is run as a whole, and what happens around the sections.
LEMMA OrderWhole ==
  ASSUME OrderInv, [SectionNext]_planeVars,
         \A s \in Requests : open'[s] = open[s] \/ open'[s] = Closed
  PROVE  FifoNoOvertake' /\ \A s \in Requests : CopiesInOrder(open[s])'
<1>1. TypeInv /\ TypeOK /\ NowNotAhead /\ FifoNoOvertake
  BY DEF OrderInv, IInv, TypeInv
<1>2. RowsOnward /\ clock \in Nat /\ clock' \in Nat /\ clock <= clock'
  BY <1>1, SectionOnward
<1>3. ASSUME NEW s \in Requests
      PROVE  CopiesInOrder(open[s])'
  <2>1. Fits(s) /\ CopiesInOrder(open[s])
    BY DEF OrderInv, IInv
  <2>2. CASE open'[s] = Closed
    BY <2>2, OrderClosed DEF Closed, LoadedAt, LeaseAt
  <2> QED
    BY <1>1, <1>2, <2>1, <2>2, OrderKept
<1> QED
  BY <1>1, <1>3, OvertakeStep

\* One statement: the rows it writes overtake nothing, and its section is in
\* order.
LEMMA OrderStatement ==
  ASSUME OrderInv, NEW p \in Requests, NEW y, open' = [open EXCEPT ![p] = y],
         RowsOnward, UNCHANGED clock, CopiesInOrder(open[p])',
         \A s \in DOMAIN messages' :
           \/ s \in DOMAIN messages /\ messages'[s] = messages[s]
           \/ ~(messages'[s].receiveCount > 0)
           \/ s \in DOMAIN messages /\ \E v : /\ v = messages'[s]
                                              /\ \A r : ~Overtakes(v, s, r)
  PROVE  FifoNoOvertake' /\ \A s \in Requests : CopiesInOrder(open[s])'
<1>1. TypeOK /\ clock \in Nat /\ clock' \in Nat /\ clock <= clock'
  BY DEF OrderInv, IInv, TypeInv, TypeOK
<1>2. ASSUME NEW s \in Requests, s # p
      PROVE  CopiesInOrder(open[s])'
  <2>1. Fits(s) /\ CopiesInOrder(open[s]) /\ open'[s] = open[s]
    BY <1>2 DEF OrderInv, IInv
  <2> QED
    BY <1>1, <2>1, OrderKept
<1>3. ASSUME NEW s \in DOMAIN messages', messages'[s].receiveCount > 0,
             NEW v, v = messages'[s], NEW r
      PROVE  ~Overtakes(v, s, r)'
  <2>1. CASE s \in DOMAIN messages /\ messages'[s] = messages[s]
    <3>1. r \in DOMAIN messages => ~Overtakes(messages[s], s, r)
      BY <1>3, <2>1, NothingOvertaken DEF OrderInv
    <3>2. ~Overtakes(v, s, r)
      BY <1>3, <2>1, <3>1 DEF Overtakes
    <3> QED
      BY <1>1, <2>1, <3>2, OvertakesFewer
  <2>2. CASE s \in DOMAIN messages /\ \E w : w = messages'[s] /\ \A t : ~Overtakes(w, s, t)
    <3>1. ~Overtakes(v, s, r)
      BY <1>3, <2>2
    <3> QED
      BY <1>1, <2>2, <3>1, OvertakesFewer
  <2> QED
    BY <1>3, <2>1, <2>2
<1>4. FifoNoOvertake'
  <2>1. \A r, s \in DOMAIN messages' :
          messages'[s].receiveCount > 0 => ~Overtakes(messages[s], s, r)'
    <3> SUFFICES ASSUME NEW r \in DOMAIN messages', NEW s \in DOMAIN messages',
                        messages'[s].receiveCount > 0, NEW v, v = messages'[s]
                 PROVE  ~Overtakes(messages[s], s, r)'
      OBVIOUS
    <3>1. ~Overtakes(v, s, r)'
      BY <1>3
    <3> QED
      BY <3>1 DEF Overtakes
  <2> QED
    BY <2>1 DEF FifoNoOvertake, Overtakes, SameGroup, liveMessages
<1> QED
  BY <1>2, <1>4

\* Content that differs in none of what the order looks at.
LEMMA OvertakesAlike ==
  ASSUME NEW v, NEW w, v.sentAt = w.sentAt, v.queue = w.queue, v.group = w.group,
         v.dlSource = w.dlSource, NEW s, NEW r, Overtakes(v, s, r)
  PROVE  Overtakes(w, s, r)
BY DEF Overtakes

\* A statement that writes no row.
LEMMA OrderRead ==
  ASSUME OrderInv, NEW p \in Requests, NEW y, open' = [open EXCEPT ![p] = y],
         UNCHANGED messages, UNCHANGED clock, CopiesInOrder(y)
  PROVE  FifoNoOvertake' /\ \A s \in Requests : CopiesInOrder(open[s])'
<1>1. TypeOK /\ open'[p] = y
  BY DEF OrderInv, IInv, TypeInv
<1>2. RowsOnward
  BY <1>1, RowsSame
<1>3. CopiesInOrder(open[p])'
  <2>1. CopiesInOrder(y)'
    BY DEF CopiesInOrder, Overtakes
  <2> QED
    BY <1>1, <2>1 DEF CopiesInOrder, Overtakes
<1> QED
  BY <1>2, <1>3, OrderStatement

\* A statement that writes a row which, as it is written, overtakes nothing.
LEMMA OrderWrite ==
  ASSUME OrderInv, NEW p \in Requests, NEW y, open' = [open EXCEPT ![p] = y],
         UNCHANGED clock, CopiesInOrder(y),
         NEW n, NEW m, WritesRow(n, m), \A r : ~Overtakes(m, n, r)
  PROVE  FifoNoOvertake' /\ \A s \in Requests : CopiesInOrder(open[s])'
<1>1. TypeOK /\ open'[p] = y /\ clock \in Nat /\ clock' \in Nat /\ clock <= clock'
  BY DEF OrderInv, IInv, TypeInv, TypeOK
<1>2. /\ RowsOnward /\ DOMAIN messages' = DOMAIN messages
      /\ messages'[n] = m /\ n \in DOMAIN messages
      /\ \A s \in DOMAIN messages : s # n => messages'[s] = messages[s]
  BY <1>1, RowWritten DEF WritesRow
<1>3. CopiesInOrder(open[p])'
  <2>1. \A v, s, r : Overtakes(v, s, r)' => Overtakes(v, s, r)
    BY <1>1, <1>2, OvertakesFewer
  <2>2. CopiesInOrder(y)'
    BY <2>1 DEF CopiesInOrder
  <2> QED
    BY <1>1, <2>2 DEF CopiesInOrder, Overtakes
<1> QED
  BY <1>2, <1>3, OrderStatement

-----------------------------------------------------------------------------
(* The statements, one by one.                                               *)

\* The list of candidates is in the order of its groups.
LEMMA CandidatesInOrder ==
  ASSUME TypeInv, NEW q \in FifoQueues, NEW max \in Nat, NEW now \in Nat, now <= clock,
         clock \in Nat, NEW c \in candidateMessages(q, max, now), NEW i \in DOMAIN c, NEW r,
         Overtakes(messages[c[i]], c[i], r)
  PROVE  \E j \in DOMAIN c : j < i /\ c[j] = r
<1>1. TypeOK
  BY DEF TypeInv
<1>2. PICK k \in Nat : Selected(q, k, c) /\ Listed(q, k, c, now)
  BY <1>1, CandidateFacts
<1>3. /\ c \in [1 .. k -> DOMAIN messages] /\ DOMAIN c = 1 .. k
      /\ messages[c[i]].queue = q
  BY <1>2 DEF Selected
<1>4. \A j, l \in DOMAIN c : j < l => ListedBefore(q, c[j], c[l], now)
  BY DEF candidateMessages
<1> DEFINE s == c[i]
<1>5. s \in Rows(c, k) /\ s \in DOMAIN messages
  BY <1>3 DEF Rows
<1> HIDE DEF s
<1>6. /\ r \in DOMAIN messages /\ r < s
      /\ messages[r].sentAt <= messages[s].sentAt
      /\ messages[r].queue = q /\ SameGroup(r, s) /\ messages[r].group # NoGroup
      /\ ~messages[r].deleted /\ messages[r].retentionDeadline > clock
  BY <1>3 DEF Overtakes, SameGroup, s
<1>7. /\ messages[r].retentionDeadline \in Nat /\ messages[r].sentAt \in Nat
      /\ messages[s].sentAt \in Nat /\ r \in Nat /\ s \in Nat
  BY <1>1, <1>5, <1>6, RowTypes DEF Message
<1>8. r \in liveMessages(q, now) /\ Precedes(r, s) /\ ~Precedes(s, r) /\ r # s
  BY <1>6, <1>7 DEF liveMessages, Precedes
<1>9. r \in Rows(c, k)
  BY <1>2, <1>5, <1>6, <1>8, PredecessorChosen
<1>10. PICK j \in 1 .. k : c[j] = r
  BY <1>9 DEF Rows
<1>11. ~(i < j)
  <2>1. ~ListedBefore(q, s, r, now)
    BY <1>6, <1>8 DEF ListedBefore, SameGroup
  <2> QED
    BY <1>3, <1>4, <1>10, <2>1 DEF s
<1>12. j # i
  BY <1>8, <1>10 DEF s
<1> QED
  BY <1>3, <1>10, <1>11, <1>12

LEMMA ListCandidatesOrder ==
  ASSUME OrderInv, NEW p \in Requests, ListCandidates(p)
  PROVE  FifoNoOvertake' /\ \A s \in Requests : CopiesInOrder(open[s])'
<1> DEFINE q == reqs[p].queue
<1>1. /\ TypeInv /\ TypeOK /\ NowNotAhead /\ IInv /\ open \in [Requests -> Section]
      /\ reqs[p].op = "select" /\ UNCHANGED planeVars
  BY DEF OrderInv, IInv, TypeInv, ListCandidates
<1>2. /\ reqs[p] # Idle /\ q \in Queues /\ reqs[p].max \in Nat /\ reqs[p].now \in Nat
      /\ clock \in Nat /\ reqs[p].now <= clock
  BY <1>1, SelectFacts DEF NowNotAhead
<1>3. PICK c \in candidateMessages(q, reqs[p].max, reqs[p].now) :
        \E e \in Exhausted(q, c) :
         Opens(p, IF e = << >>
                    THEN [at |-> "deactivate", todo |-> Copies(c), issued |-> << >>]
                    ELSE [at |-> "void", todo |-> Copies(e)])
  BY DEF ListCandidates
<1>4. PICK e :
         Opens(p, IF e = << >>
                    THEN [at |-> "deactivate", todo |-> Copies(c), issued |-> << >>]
                    ELSE [at |-> "void", todo |-> Copies(e)])
  BY <1>3
<1>5. PICK k \in Nat : Selected(q, k, c)
  BY <1>1, <1>2, CandidateFacts
<1>6. c \in [1 .. k -> DOMAIN messages] /\ \A i \in 1 .. k : messages[c[i]].queue = q
  BY <1>5 DEF Selected
<1>7. CASE e = << >>
  <2> DEFINE t == Copies(c)
             y == [at |-> "deactivate", todo |-> t, issued |-> << >>]
  <2>1. /\ DOMAIN t = 1 .. k
        /\ \A i \in 1 .. k : t[i].row = c[i] /\ t[i].msg = messages[c[i]]
    BY <1>1, <1>6, CopiesType
  <2>2. open' = [open EXCEPT ![p] = y] /\ open'[p] = y
    BY <1>1, <1>4, <1>7 DEF Opens
  <2> HIDE DEF t
  <2>3. y.at = "deactivate" /\ y.todo = t
    OBVIOUS
  <2> HIDE DEF y
  <2>4. ASSUME NEW i \in 1 .. k, NEW r, Overtakes(t[i].msg, t[i].row, r)
        PROVE  \E j \in 1 .. k : j < i /\ t[j].row = r
    <3>1. Overtakes(messages[c[i]], c[i], r)
      BY <2>1, <2>4
    <3>2. q \in FifoQueues
      BY <1>6, <3>1 DEF Overtakes
    <3>3. PICK j \in DOMAIN c : j < i /\ c[j] = r
      <4>1. i \in DOMAIN c
        BY <1>6
      <4> DEFINE max == reqs[p].max
                 now == reqs[p].now
      <4>2. TypeInv /\ max \in Nat /\ now \in Nat /\ now <= clock /\ clock \in Nat
        BY <1>1, <1>2
      <4>3. c \in candidateMessages(q, max, now)
        OBVIOUS
      <4> HIDE DEF q, max, now
      <4> QED
        BY <3>1, <3>2, <4>1, <4>2, <4>3, CandidatesInOrder
    <3> QED
      BY <1>6, <2>1, <3>3
  <2>5. CopiesInOrder(y)
    BY <2>1, <2>3, <2>4 DEF CopiesInOrder, LoadedAt
  <2>6. UNCHANGED clock /\ UNCHANGED messages
    BY <1>1 DEF planeVars
  <2> QED
    BY <2>2, <2>5, <2>6, OrderRead
<1>8. CASE e # << >>
  <2> DEFINE y == [at |-> "void", todo |-> Copies(e)]
  <2>1. open' = [open EXCEPT ![p] = y] /\ CopiesInOrder(y)
    BY <1>4, <1>8 DEF Opens, CopiesInOrder, LoadedAt, LeaseAt
  <2>2. UNCHANGED messages /\ UNCHANGED clock
    BY <1>1 DEF planeVars
  <2> HIDE DEF y
  <2> QED
    BY <2>1, <2>2, OrderRead
<1> QED
  BY <1>7, <1>8

\* A statement after which its handler holds no copy.
LEMMA OrderWithoutCopies ==
  ASSUME OrderInv, NEW p \in Requests, UNCHANGED messages, UNCHANGED clock,
         NEW y, y.at \notin LoadedAt \cup LeaseAt,
         Opens(p, y) \/ Moves(p, y) \/ Closes(p)
  PROVE  FifoNoOvertake' /\ \A s \in Requests : CopiesInOrder(open[s])'
<1>1. CopiesInOrder(y) /\ CopiesInOrder(Closed)
  BY DEF CopiesInOrder, Closed, LoadedAt, LeaseAt
<1>2. CASE Opens(p, y) \/ Moves(p, y)
  BY <1>1, <1>2, OrderRead DEF Opens, Moves
<1>3. CASE Closes(p)
  BY <1>1, <1>3, OrderRead DEF Closes
<1> QED
  BY <1>2, <1>3

\* The statements that only work with other tables.
LEMMA QuietOrder ==
  ASSUME OrderInv, NEW p \in Requests,
         \/ FindNoDuplicate(p) \/ RecordSend(p) \/ RememberReceive(p)
         \/ FindReceipt(p) \/ FindAttempt(p) \/ FindCached(p) \/ ForgetAttempts(p)
         \/ VoidReceipts(p) \/ RetireReceipt(p)
  PROVE  FifoNoOvertake' /\ \A s \in Requests : CopiesInOrder(open[s])'
<1>1. CASE FindNoDuplicate(p)
  <2>1. UNCHANGED messages /\ UNCHANGED clock /\ Opens(p, [at |-> "insert"])
    BY <1>1 DEF FindNoDuplicate, planeVars
  <2> QED
    BY <2>1, OrderWithoutCopies DEF LoadedAt, LeaseAt
<1>2. CASE RecordSend(p) \/ RememberReceive(p) \/ ForgetAttempts(p)
  <2>1. UNCHANGED messages /\ UNCHANGED clock /\ Closes(p) /\ Closed.at = "closed"
    BY <1>2 DEF RecordSend, RememberReceive, ForgetAttempts, Closed
  <2> QED
    BY <2>1, OrderWithoutCopies DEF LoadedAt, LeaseAt
<1>3. CASE FindReceipt(p)
  <2>1. PICK h : /\ UNCHANGED planeVars
                 /\ Opens(p, [at |-> "load", handle |-> h, rcpt |-> receipts[h], rest |-> << >>])
    BY <1>3 DEF FindReceipt
  <2>2. UNCHANGED messages /\ UNCHANGED clock
    BY <2>1 DEF planeVars
  <2> QED
    BY <2>1, <2>2, OrderWithoutCopies DEF LoadedAt, LeaseAt
<1>4. CASE FindAttempt(p)
  <2>1. PICK a : UNCHANGED planeVars /\ Opens(p, [at |-> "find", rest |-> a.response])
    BY <1>4 DEF FindAttempt
  <2>2. UNCHANGED messages /\ UNCHANGED clock
    BY <2>1 DEF planeVars
  <2> QED
    BY <2>1, <2>2, OrderWithoutCopies DEF LoadedAt, LeaseAt
<1>5. CASE FindCached(p)
  <2> DEFINE h == Head(open[p].rest)
             y == [at |-> "load", handle |-> h, rcpt |-> receipts[h], rest |-> Tail(open[p].rest)]
  <2>1. UNCHANGED messages /\ UNCHANGED clock /\ (Moves(p, y) \/ Closes(p)) /\ y.at = "load"
    BY <1>5 DEF FindCached, GiveUpReplay
  <2> HIDE DEF y
  <2> QED
    BY <2>1, OrderWithoutCopies DEF LoadedAt, LeaseAt
<1>6. CASE VoidReceipts(p)
  <2> DEFINE y == [open[p] EXCEPT !.at = "move"]
             z == [at |-> "void", todo |-> Tail(open[p].todo)]
  <2>1. open[p] \in RedriveSection
    BY <1>6, RedriveSections DEF VoidReceipts, Inside, RedriveAt, OrderInv
  <2>2. /\ UNCHANGED messages /\ UNCHANGED clock /\ (Moves(p, y) \/ Moves(p, z) \/ Closes(p))
        /\ y.at = "move" /\ z.at = "void"
    BY <1>6, <2>1 DEF VoidReceipts, NextExhausted, RedriveSection
  <2> HIDE DEF y, z
  <2> QED
    BY <2>2, OrderWithoutCopies DEF LoadedAt, LeaseAt
<1>7. CASE RetireReceipt(p)
  <2>1. /\ UNCHANGED messages /\ UNCHANGED clock
        /\ Moves(p, [at |-> "forget"]) \/ Closes(p)
    BY <1>7 DEF RetireReceipt
  <2> QED
    BY <2>1, OrderWithoutCopies DEF LoadedAt, LeaseAt
<1> QED
  BY <1>1, <1>2, <1>3, <1>4, <1>5, <1>6, <1>7

LEMMA InsertRowOrder ==
  ASSUME OrderInv, NEW p \in Requests, InsertRow(p)
  PROVE  FifoNoOvertake' /\ \A s \in Requests : CopiesInOrder(open[s])'
<1> DEFINE q == reqs[p].queue
           e == Head(reqs[p].entries)
           m == NewMessage(q, e, reqs[p].now)
           y == [at |-> "record", row |-> Len(messages) + 1]
<1>1. IInv /\ TypeOK /\ open[p].at = "insert"
  BY DEF OrderInv, IInv, TypeInv, InsertRow, Inside
<1>2. /\ messages' = Append(messages, m) /\ UNCHANGED clock
      /\ open' = [open EXCEPT ![p] = y] /\ y.at = "record" /\ ~(m.receiveCount > 0)
  BY DEF InsertRow, Moves, NewMessage
<1> HIDE DEF m, y
<1>3. messages \in Seq(Message) /\ Len(messages) \in Nat /\ DOMAIN messages = 1 .. Len(messages)
  BY <1>1 DEF TypeOK
<1>4. RowsOnward
  BY <1>1, RowInserted, RowAdded
<1>5. \A s \in DOMAIN messages' : \/ s \in DOMAIN messages /\ messages'[s] = messages[s]
                                 \/ ~(messages'[s].receiveCount > 0)
  BY <1>2, <1>3, <1>4 DEF RowsOnward
<1>6. CopiesInOrder(open[p])'
  <2>1. open'[p].at = "record"
    BY <1>1, <1>2 DEF IInv
  <2> QED
    BY <2>1, OrderClosed DEF LoadedAt, LeaseAt
<1> QED
  BY <1>2, <1>4, <1>5, <1>6, OrderStatement

LEMMA DeactivatePriorsOrder ==
  ASSUME OrderInv, NEW p \in Requests, DeactivatePriors(p)
  PROVE  FifoNoOvertake' /\ \A s \in Requests : CopiesInOrder(open[s])'
<1> DEFINE y == [open[p] EXCEPT !.at = "update"]
<1>1. IInv /\ open[p].at \in LeaseAt /\ CopiesInOrder(open[p])
  BY DEF OrderInv, DeactivatePriors, Inside, LeaseAt
<1>2. open[p] \in LeaseSection
  BY <1>1, LeaseSections
<1>3. y.at = "update" /\ y.todo = open[p].todo
  BY <1>2 DEF LeaseSection
<1>4. UNCHANGED messages /\ UNCHANGED clock /\ Moves(p, y)
  BY DEF DeactivatePriors
<1> HIDE DEF y
<1>5. CopiesInOrder(y)
  BY <1>1, <1>3 DEF CopiesInOrder, LoadedAt
<1> QED
  BY <1>4, <1>5, OrderRead DEF Moves

\* The first candidate overtakes nothing: it may be written.
LEMMA FirstInOrder ==
  ASSUME OrderInv, NEW p \in Requests, open[p].at \in LeaseAt
  PROVE  \A r : ~Overtakes(open[p].todo[1].msg, open[p].todo[1].row, r)
<1>1. IInv /\ CopiesInOrder(open[p])
  BY DEF OrderInv
<1>2. open[p].todo \in Seq(Copy) /\ 1 \in DOMAIN open[p].todo
  BY <1>1, LeaseSections
<1>3. \A j \in DOMAIN open[p].todo : ~(j < 1)
  BY <1>2
<1> QED
  BY <1>1, <1>2, <1>3 DEF CopiesInOrder

LEMMA WriteLeaseOrder ==
  ASSUME OrderInv, NEW p \in Requests, WriteLease(p)
  PROVE  FifoNoOvertake' /\ \A s \in Requests : CopiesInOrder(open[s])'
<1> DEFINE t == open[p].todo
           h == t[1]
           m == [h.msg EXCEPT !.receiveCount = h.msg.receiveCount + 1,
                              !.visibilityDeadline = clock + reqs[p].vis]
           x == [h EXCEPT !.msg = m]
           u == <<x>> \o Tail(t)
           y == [open[p] EXCEPT !.at = "issue", !.todo = u]
<1>1. IInv /\ open[p].at \in LeaseAt /\ CopiesInOrder(open[p])
  BY DEF OrderInv, WriteLease, Inside, LeaseAt
<1>2. /\ open[p] \in LeaseSection /\ t # << >> /\ t \in Seq(Copy) /\ h \in Copy
  BY <1>1, LeaseSections
<1>3. WritesRow(x.row, x.msg) /\ UNCHANGED clock /\ Moves(p, y)
      /\ x \in Copy /\ x.row = h.row /\ x.msg = m
  BY <1>1, LeaseWritten
<1>4. m.sentAt = h.msg.sentAt /\ m.queue = h.msg.queue /\ m.group = h.msg.group
      /\ m.dlSource = h.msg.dlSource
  BY <1>2 DEF Copy, Message
<1> HIDE DEF m, x
<1>5. \A r : ~Overtakes(x.msg, x.row, r)
  <2>1. \A r : ~Overtakes(h.msg, h.row, r)
    BY <1>1, FirstInOrder
  <2>2. /\ x.row = h.row /\ x.msg.sentAt = h.msg.sentAt /\ x.msg.queue = h.msg.queue
        /\ x.msg.group = h.msg.group /\ x.msg.dlSource = h.msg.dlSource
    BY <1>3, <1>4
  <2> HIDE DEF h
  <2> QED
    BY <2>1, <2>2, OvertakesAlike
<1>6. /\ DOMAIN u = DOMAIN t /\ u[1] = x /\ \A i \in DOMAIN t : i # 1 => u[i] = t[i]
  <2>1. t \in Seq(Copy) /\ t # << >> /\ x \in Copy
    BY <1>2, <1>3
  <2> HIDE DEF t
  <2> QED
    BY <2>1, HeadReplaced
<1>7. y.at = "issue" /\ y.todo = u
  BY <1>2 DEF LeaseSection
<1> HIDE DEF y, u
<1>8. \A i \in DOMAIN t : \A r :
        Overtakes(t[i].msg, t[i].row, r) => \E j \in DOMAIN t : j < i /\ t[j].row = r
  BY <1>1 DEF CopiesInOrder
<1> HIDE DEF t
<1>9. CopiesInOrder(y)
  <2>1. \A j \in DOMAIN t : u[j].row = t[j].row
    BY <1>3, <1>6
  <2>2. ASSUME NEW i \in DOMAIN t, NEW r, Overtakes(u[i].msg, u[i].row, r)
        PROVE  \E j \in DOMAIN t : j < i /\ u[j].row = r
    <3>1. i # 1 /\ u[i] = t[i]
      BY <1>5, <1>6, <2>2
    <3> QED
      BY <1>8, <2>1, <2>2, <3>1
  <2> QED
    BY <1>6, <1>7, <2>2 DEF CopiesInOrder, LoadedAt
<1> QED
  BY <1>3, <1>5, <1>9, OrderWrite DEF Moves

LEMMA IssueReceiptOrder ==
  ASSUME OrderInv, NEW p \in Requests, IssueReceipt(p)
  PROVE  FifoNoOvertake' /\ \A s \in Requests : CopiesInOrder(open[s])'
<1> DEFINE t == open[p].todo
           u == Tail(t)
           issued == Append(open[p].issued, Len(receipts) + 1)
           y == [at |-> "deactivate", todo |-> u, issued |-> issued]
           z == [at |-> "remember", issued |-> issued]
<1>1. /\ IInv /\ open[p].at = "issue" /\ open[p].at \in LeaseAt /\ CopiesInOrder(open[p])
      /\ UNCHANGED messages /\ UNCHANGED clock
  BY DEF OrderInv, IssueReceipt, Inside, LeaseAt
<1>2. t # << >> /\ t \in Seq(Copy)
  BY <1>1, LeaseSections
<1>3. (Len(t) > 1 /\ Moves(p, y)) \/ Moves(p, z) \/ Closes(p)
  BY DEF IssueReceipt
<1>4. y.at = "deactivate" /\ y.todo = u /\ z.at = "remember"
  OBVIOUS
<1> HIDE DEF y, z
<1>5. CASE Moves(p, z) \/ Closes(p)
  BY <1>1, <1>4, <1>5, OrderWithoutCopies DEF LoadedAt, LeaseAt
<1>6. CASE Len(t) > 1 /\ Moves(p, y)
  <2>1. messages[t[1].row].receiveCount > 0
    BY <1>1 DEF IInv, Fits, CandidatesSound, Delivered
  <2>2. \A i \in DOMAIN t : \A r :
          Overtakes(t[i].msg, t[i].row, r) => \E j \in DOMAIN t : j < i /\ t[j].row = r
    BY <1>1 DEF CopiesInOrder
  <2> HIDE DEF t
  <2>3. /\ Len(t) \in Nat /\ Len(t) > 1 /\ DOMAIN t = 1 .. Len(t)
        /\ Len(u) = Len(t) - 1 /\ DOMAIN u = 1 .. Len(u)
        /\ \A i \in 1 .. Len(u) : u[i] = t[i + 1]
    BY <1>2, <1>6, HeadTailProperties, LenProperties
  <2> HIDE DEF u
  <2>4. ASSUME NEW i \in DOMAIN u, NEW r, Overtakes(u[i].msg, u[i].row, r)
        PROVE  \E j \in DOMAIN u : j < i /\ u[j].row = r
    <3>1. i \in Nat /\ i + 1 \in DOMAIN t /\ u[i] = t[i + 1]
      BY <2>3, <2>4
    <3>2. PICK j \in DOMAIN t : j < i + 1 /\ t[j].row = r
      BY <2>2, <2>4, <3>1
    <3>3. j # 1
      BY <2>1, <2>4, <3>2 DEF Overtakes
    <3>4. j - 1 \in DOMAIN u /\ j - 1 < i /\ (j - 1) + 1 = j
      BY <2>3, <2>4, <3>2, <3>3
    <3>5. u[j - 1] = t[j]
      BY <2>3, <3>4
    <3> QED
      BY <3>2, <3>4, <3>5
  <2>5. CopiesInOrder(y)
    BY <1>4, <2>4 DEF CopiesInOrder, LoadedAt
  <2> QED
    BY <1>1, <1>6, <2>5, OrderRead DEF Moves
<1> QED
  BY <1>3, <1>5, <1>6

LEMMA MoveRowOrder ==
  ASSUME OrderInv, NEW p \in Requests, MoveRow(p)
  PROVE  FifoNoOvertake' /\ \A s \in Requests : CopiesInOrder(open[s])'
<1> DEFINE q == reqs[p].queue
           c == open[p].todo[1]
           m == Redriven(c.msg, q, reqs[p].now)
           z == [at |-> "void", todo |-> Tail(open[p].todo)]
<1>1. IInv /\ open[p].at \in RedriveAt
  BY DEF OrderInv, MoveRow, Inside, RedriveAt
<1>2. /\ reqs[p].op = "select" /\ RedriveTarget[q] # NoQueue
      /\ c \in Copy /\ Head(open[p].todo) = c
      /\ CopyOf(c.msg, c.row) /\ c.msg.receiveCount > 0
  BY <1>1, RedriveSections
<1>3. q \in Queues /\ reqs[p].now \in Nat /\ RedriveTarget[q] \in Queues /\ q # NoQueue
  BY <1>1, <1>2, SelectFacts, QueueAssumption
<1>4. UpdateMessage(c.row, m) /\ (Moves(p, z) \/ Closes(p)) /\ UNCHANGED clock
  BY <1>2 DEF MoveRow, NextExhausted
<1>5. /\ m \in Message /\ m.receiveCount = c.msg.receiveCount
      /\ SameOrigin(m, c.msg) /\ m.dlSource = q
  BY <1>2, <1>3, RedrivenType DEF Copy
<1> HIDE DEF m, c
<1>6. WritesRow(c.row, m)
  BY <1>2, <1>4, <1>5 DEF WritesRow, UpdateMessage, CopyOf, SameOrigin
<1>7. \A r : ~Overtakes(m, c.row, r)
  BY <1>3, <1>5 DEF Overtakes
<1>8. CopiesInOrder(z) /\ CopiesInOrder(Closed)
  BY DEF CopiesInOrder, Closed, LoadedAt, LeaseAt
<1> HIDE DEF z
<1> QED
  BY <1>4, <1>6, <1>7, <1>8, OrderWrite DEF Moves, Closes

\* The row is loaded as it is: delivered, so that it overtakes nothing.
LEMMA LoadRowOrder ==
  ASSUME OrderInv, NEW p \in Requests, LoadRow(p)
  PROVE  FifoNoOvertake' /\ \A s \in Requests : CopiesInOrder(open[s])'
<1> DEFINE n == open[p].rcpt.message
           m == messages[n]
           Y(at) == [at |-> at, handle |-> open[p].handle, rcpt |-> open[p].rcpt,
                     msg |-> m, rest |-> open[p].rest]
<1>1. IInv /\ open[p].at = "load" /\ UNCHANGED messages /\ UNCHANGED clock
  BY DEF OrderInv, LoadRow, Inside
<1>2. n \in DOMAIN messages /\ m.receiveCount > 0
  BY <1>1, HandleSections DEF Delivered
<1>3. \A r : ~Overtakes(m, n, r)
  BY <1>2, NothingOvertaken DEF OrderInv, Overtakes
<1>4. ASSUME NEW at \in LoadedAt, Moves(p, Y(at))
      PROVE  FifoNoOvertake' /\ \A s \in Requests : CopiesInOrder(open[s])'
  <2> DEFINE y == Y(at)
  <2>1. y.at = at /\ y.rcpt.message = n /\ y.msg = m
    OBVIOUS
  <2>2. Moves(p, y)
    BY <1>4
  <2> HIDE DEF y
  <2>3. CopiesInOrder(y)
    BY <1>3, <1>4, <2>1 DEF CopiesInOrder, LoadedAt, LeaseAt
  <2> QED
    BY <1>1, <2>2, <2>3, OrderRead DEF Moves
<1>5. CASE Closes(p)
  BY <1>1, <1>5, OrderWithoutCopies DEF Closed, LoadedAt, LeaseAt
<1>6. Closes(p) \/ \E at \in LoadedAt : Moves(p, Y(at))
  BY DEF LoadRow, GiveUpReplay, LoadedAt
<1> QED
  BY <1>4, <1>5, <1>6

\* The copy that is at hand overtakes nothing, whatever its deadline.
LEMMA LoadedInOrder ==
  ASSUME OrderInv, NEW p \in Requests, open[p].at \in LoadedAt
  PROVE  /\ IInv /\ open[p] \in LoadedSection /\ open[p].msg \in Message
         /\ CopyOf(open[p].msg, open[p].rcpt.message) /\ open[p].msg.receiveCount > 0
         /\ \A r : ~Overtakes(open[p].msg, open[p].rcpt.message, r)
<1>1. IInv /\ CopiesInOrder(open[p])
  BY DEF OrderInv
<1> QED
  BY <1>1, HandleSections DEF CopiesInOrder

LEMMA MarkRowOrder ==
  ASSUME OrderInv, NEW p \in Requests, MarkRow(p)
  PROVE  FifoNoOvertake' /\ \A s \in Requests : CopiesInOrder(open[s])'
<1> DEFINE r == open[p].rcpt.message
           n == open[p].msg
           m == [n EXCEPT !.deleted = TRUE, !.visibilityDeadline = 0]
           y == [open[p] EXCEPT !.at = "retire"]
<1>1. open[p].at \in LoadedAt
  BY DEF MarkRow, Inside, LoadedAt
<1>2. /\ open[p] \in LoadedSection /\ n \in Message /\ CopyOf(n, r) /\ n.receiveCount > 0
      /\ \A s : ~Overtakes(n, r, s)
  BY <1>1, LoadedInOrder
<1>3. m \in Message /\ m.receiveCount = n.receiveCount /\ SameOrigin(m, n)
  BY <1>2 DEF Message, SameOrigin
<1>4. m.queue = n.queue /\ m.dlSource = n.dlSource
  BY <1>2 DEF Message
<1>5. UpdateMessage(r, m) /\ Moves(p, y) /\ UNCHANGED clock
  BY DEF MarkRow
<1>6. y.at = "retire" /\ y.rcpt = open[p].rcpt /\ y.msg = n
  BY <1>2 DEF LoadedSection
<1> HIDE DEF m, y
<1>7. WritesRow(r, m)
  BY <1>2, <1>3, <1>5 DEF WritesRow, UpdateMessage, CopyOf, SameOrigin
<1>8. \A s : ~Overtakes(m, r, s)
  BY <1>2, <1>3, <1>4, OvertakesAlike DEF SameOrigin
<1>9. CopiesInOrder(y)
  BY <1>2, <1>6 DEF CopiesInOrder, LeaseAt
<1> QED
  BY <1>5, <1>7, <1>8, <1>9, OrderWrite DEF Moves

LEMMA StretchReceiptOrder ==
  ASSUME OrderInv, NEW p \in Requests, StretchReceipt(p)
  PROVE  FifoNoOvertake' /\ \A s \in Requests : CopiesInOrder(open[s])'
<1> DEFINE y == [open[p] EXCEPT !.at = "stretchRow"]
<1>1. open[p].at \in LoadedAt
  BY DEF StretchReceipt, Inside, LoadedAt
<1>2. /\ open[p] \in LoadedSection
      /\ \A s : ~Overtakes(open[p].msg, open[p].rcpt.message, s)
  BY <1>1, LoadedInOrder
<1>3. Moves(p, y) /\ UNCHANGED messages /\ UNCHANGED clock
  BY DEF StretchReceipt
<1>4. y.at = "stretchRow" /\ y.rcpt = open[p].rcpt /\ y.msg = open[p].msg
  BY <1>2 DEF LoadedSection
<1> HIDE DEF y
<1>5. CopiesInOrder(y)
  BY <1>2, <1>4 DEF CopiesInOrder, LeaseAt
<1> QED
  BY <1>3, <1>5, OrderRead DEF Moves

LEMMA StretchRowOrder ==
  ASSUME OrderInv, NEW p \in Requests, StretchRow(p)
  PROVE  FifoNoOvertake' /\ \A s \in Requests : CopiesInOrder(open[s])'
<1> DEFINE r == open[p].rcpt.message
           n == open[p].msg
           d == NewDeadline(p)
           m == [n EXCEPT !.visibilityDeadline = d]
           y == [at |-> "forget"]
           z == [at |-> "find", rest |-> open[p].rest]
<1>1. open[p].at \in LoadedAt
  BY DEF StretchRow, Inside, LoadedAt
<1>2. /\ IInv /\ n \in Message /\ CopyOf(n, r) /\ n.receiveCount > 0
      /\ \A s : ~Overtakes(n, r, s)
  BY <1>1, LoadedInOrder
<1>3. d \in Nat
  <2>1. reqs[p].op \in {"change", "replay"}
    BY <1>2 DEF IInv, Fits, SectionOfHandler, StretchRow, Inside
  <2> QED
    BY <1>2, <2>1, NewDeadlineType
<1> HIDE DEF d
<1>4. /\ m \in Message /\ m.receiveCount = n.receiveCount /\ SameOrigin(m, n)
      /\ m.queue = n.queue /\ m.dlSource = n.dlSource
  BY <1>2, <1>3 DEF Message, SameOrigin
<1>5. UpdateMessage(r, m) /\ (Moves(p, y) \/ Moves(p, z) \/ Closes(p)) /\ UNCHANGED clock
  BY DEF StretchRow, d
<1> HIDE DEF m
<1>6. WritesRow(r, m)
  BY <1>2, <1>4, <1>5 DEF WritesRow, UpdateMessage, CopyOf, SameOrigin
<1>7. \A s : ~Overtakes(m, r, s)
  BY <1>2, <1>4, OvertakesAlike DEF SameOrigin
<1>8. CopiesInOrder(y) /\ CopiesInOrder(z) /\ CopiesInOrder(Closed)
  BY DEF CopiesInOrder, Closed, LoadedAt, LeaseAt
<1> HIDE DEF y, z
<1> QED
  BY <1>5, <1>6, <1>7, <1>8, OrderWrite DEF Moves, Closes

-----------------------------------------------------------------------------
(* Every step.                                                               *)

LEMMA OrderInit == Init => OrderInv
<1> SUFFICES ASSUME Init PROVE OrderInv
  OBVIOUS
<1>1. IInv /\ messages = << >> /\ \A p \in Requests : open[p] = Closed
  BY IInvInit DEF Init, SectionInit
<1>2. FifoNoOvertake
  BY <1>1 DEF FifoNoOvertake
<1>3. CopiesInOrder(Closed)
  BY DEF CopiesInOrder, Closed, LoadedAt, LeaseAt
<1> QED
  BY <1>1, <1>2, <1>3 DEF OrderInv

LEMMA OrderStep == OrderInv /\ [Next]_vars => OrderInv'
<1> SUFFICES ASSUME OrderInv, [Next]_vars PROVE OrderInv'
  OBVIOUS
<1> DEFINE Ordered == FifoNoOvertake' /\ \A s \in Requests : CopiesInOrder(open[s])'
<1>1. IInv' /\ open \in [Requests -> Section]
  BY IInvStep DEF OrderInv, IInv
<1>2. ASSUME UNCHANGED vars
      PROVE  Ordered
  <2>1. [SectionNext]_planeVars /\ open' = open
    BY <1>2 DEF vars, planeVars
  <2> QED
    BY <2>1, OrderWhole
<1>3. ASSUME Surroundings, UNCHANGED <<open, splits>>
      PROVE  Ordered
  <2>1. SectionNext
    BY <1>3 DEF Surroundings, SectionNext
  <2> QED
    BY <1>3, <2>1, OrderWhole
<1>4. ASSUME NEW p \in Requests, WholeSection(p) \/ CutOff(p)
      PROVE  Ordered
  <2>1. SectionNext
    BY <1>4 DEF WholeSection, CutOff, SectionNext
  <2>2. \A s \in Requests : open'[s] = open[s] \/ open'[s] = Closed
    BY <1>1, <1>4 DEF WholeSection, CutOff, Closes
  <2> QED
    BY <2>1, <2>2, OrderWhole
<1>5. ASSUME NEW p \in Requests, Statement(p)
      PROVE  Ordered
  BY <1>5, QuietOrder, InsertRowOrder, ListCandidatesOrder, DeactivatePriorsOrder,
     WriteLeaseOrder, IssueReceiptOrder, MoveRowOrder, LoadRowOrder, MarkRowOrder,
     StretchReceiptOrder, StretchRowOrder DEF Statement
<1> HIDE DEF Ordered
<1>6. Ordered
  BY <1>2, <1>3, <1>4, <1>5 DEF Next, Ordered
<1> QED
  BY <1>1, <1>6 DEF OrderInv, Ordered

\* However the statements of any number of requests interleave, and wherever a
\* client goes away, nothing overtakes within a FIFO group: candidates are
\* leased from the head of their group, and a handler writes back only what was
\* delivered (fifoCandidateMessages, the sort of liveMessages, the leases of
\* ReceiveMessage and the whole-row UpdateMessage of every handler).
THEOREM GroupsInOrder == Spec => []FifoNoOvertake
<1>1. OrderInv => FifoNoOvertake
  BY DEF OrderInv
<1> QED
  BY <1>1, OrderInit, OrderStep, PTL DEF Spec

=============================================================================
