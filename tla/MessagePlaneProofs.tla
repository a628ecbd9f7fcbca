------------------------- MODULE MessagePlaneProofs -------------------------
(***************************************************************************)
(* Proofs about MessagePlane, for every set of queues, requests and inputs  *)
(* and every value of the time constants and bounds.                        *)
(***************************************************************************)
EXTENDS MessagePlane, TLAPS, SequenceTheorems

-----------------------------------------------------------------------------
(* The invariant that is inductive.                                          *)

\* A handler that is inside a batch has an entry left.
BatchesNonEmpty ==
  \A p \in Requests : /\ reqs[p].op = "send" => reqs[p].entries # << >>
                      /\ reqs[p].op = "delete" => reqs[p].handles # << >>
                      /\ reqs[p].op = "change" => reqs[p].changes # << >>

\* Receipts refer to rows of the messages table (the foreign key).
ReceiptsRefer ==
  \A h \in DOMAIN receipts : receipts[h].message \in DOMAIN messages

TypeInv == TypeOK /\ BatchesNonEmpty /\ ReceiptsRefer

-----------------------------------------------------------------------------
(* Tables.                                                                   *)

\* The columns of a message row that no UPDATE touches.
SameOrigin(m, n) == /\ m.sentAt = n.sentAt
                    /\ m.group = n.group
                    /\ m.retentionDeadline = n.retentionDeadline

\* A function over 1 .. n with values in S is a sequence over S.
LEMMA TableType ==
  ASSUME NEW S, NEW n \in Nat, NEW f,
         f = [i \in 1 .. n |-> f[i]],
         \A i \in 1 .. n : f[i] \in S
  PROVE  f \in Seq(S) /\ Len(f) = n /\ DOMAIN f = 1 .. n
<1>1. f \in [1 .. n -> S]
  OBVIOUS
<1>2. f \in Seq(S)
  BY <1>1, SeqDef
<1> QED
  BY <1>1, <1>2, LenProperties

\* What TypeOK says of the rows of the two tables.
LEMMA RowTypes ==
  ASSUME TypeOK
  PROVE  /\ Len(messages) \in Nat /\ DOMAIN messages = 1 .. Len(messages)
         /\ \A r \in DOMAIN messages : messages[r] \in Message
         /\ Len(receipts) \in Nat /\ DOMAIN receipts = 1 .. Len(receipts)
         /\ \A h \in DOMAIN receipts : receipts[h] \in Receipt
BY DEF TypeOK

\* DeactivateReceiptsByMessage keeps every receipt and changes only active.
LEMMA DeactivatedTable ==
  ASSUME TypeOK, NEW R
  PROVE  /\ ReceiptsDeactivated(R) \in Seq(Receipt)
         /\ DOMAIN ReceiptsDeactivated(R) = DOMAIN receipts
         /\ Len(ReceiptsDeactivated(R)) = Len(receipts)
         /\ \A h \in DOMAIN receipts :
              LET x == ReceiptsDeactivated(R)[h] IN
              /\ x.queue = receipts[h].queue
              /\ x.message = receipts[h].message
              /\ x.issuedAt = receipts[h].issuedAt
              /\ x.visibilityDeadline = receipts[h].visibilityDeadline
              /\ x.active <=> receipts[h].active /\ receipts[h].message \notin R
<1> DEFINE f == ReceiptsDeactivated(R)
<1>1. \A h \in 1 .. Len(receipts) :
        /\ f[h] = [receipts[h] EXCEPT
                     !.active = receipts[h].active /\ receipts[h].message \notin R]
        /\ f[h] \in Receipt
  BY RowTypes DEF ReceiptsDeactivated, Receipt
<1>2. f = [h \in 1 .. Len(receipts) |-> f[h]]
  BY RowTypes DEF ReceiptsDeactivated
<1>3. \A h \in 1 .. Len(receipts) :
              /\ f[h].queue = receipts[h].queue
              /\ f[h].message = receipts[h].message
              /\ f[h].issuedAt = receipts[h].issuedAt
              /\ f[h].visibilityDeadline = receipts[h].visibilityDeadline
              /\ f[h].active <=> receipts[h].active /\ receipts[h].message \notin R
  BY <1>1, RowTypes DEF Receipt
<1> HIDE DEF f
<1>4. f \in Seq(Receipt) /\ Len(f) = Len(receipts) /\ DOMAIN f = DOMAIN receipts
  BY <1>1, <1>2, TableType, RowTypes
<1> QED
  BY <1>3, <1>4, RowTypes DEF f

\* What the maintenance pass does to the tables.
LEMMA MaintainTables ==
  ASSUME TypeOK, NEW now \in Nat, maintain(now)
  PROVE  /\ messages' \in Seq(Message)
         /\ Len(messages') = Len(messages)
         /\ DOMAIN messages' = DOMAIN messages
         /\ \A r \in DOMAIN messages :
              /\ messages'[r].queue = messages[r].queue
              /\ messages'[r].receiveCount = messages[r].receiveCount
              /\ messages'[r].availableAt = messages[r].availableAt
              /\ messages'[r].dlSource = messages[r].dlSource
              /\ SameOrigin(messages'[r], messages[r])
              /\ messages'[r].deleted <=>
                   messages[r].deleted \/ r \in ExpiredAt(now) \/ r \in PurgedRows
              /\ r \notin ExpiredAt(now) =>
                   messages'[r].visibilityDeadline = messages[r].visibilityDeadline
         /\ receipts' = ReceiptsDeactivated(ExpiredAt(now))
         /\ ledger' = {e \in ledger : e.expiresAt > now}
         /\ purgeExpires' \in [Queues -> Nat]
<1> DEFINE f == messages'
<1>1. \A r \in 1 .. Len(messages) :
        f[r] = [messages[r] EXCEPT
          !.deleted = messages[r].deleted \/ r \in ExpiredAt(now) \/ r \in PurgedRows,
          !.visibilityDeadline =
            IF r \in ExpiredAt(now) THEN 0 ELSE messages[r].visibilityDeadline]
  BY RowTypes DEF maintain, reapQueue
<1>2. \A r \in 1 .. Len(messages) : f[r] \in Message
  <2> TAKE r \in 1 .. Len(messages)
  <2>1. messages[r] \in Message /\ messages[r].visibilityDeadline \in Nat
    BY RowTypes DEF Message
  <2>2. PICK d \in BOOLEAN, v \in Nat :
          f[r] = [messages[r] EXCEPT !.deleted = d, !.visibilityDeadline = v]
    BY <1>1, <2>1
  <2> QED
    BY <2>1, <2>2 DEF Message
<1>3. f = [r \in 1 .. Len(messages) |-> f[r]]
  BY RowTypes DEF maintain, reapQueue
<1>4. \A r \in 1 .. Len(messages) :
              /\ f[r].queue = messages[r].queue
              /\ f[r].receiveCount = messages[r].receiveCount
              /\ f[r].availableAt = messages[r].availableAt
              /\ f[r].dlSource = messages[r].dlSource
              /\ SameOrigin(f[r], messages[r])
              /\ f[r].deleted <=>
                   messages[r].deleted \/ r \in ExpiredAt(now) \/ r \in PurgedRows
              /\ r \notin ExpiredAt(now) =>
                   f[r].visibilityDeadline = messages[r].visibilityDeadline
  BY <1>1, RowTypes DEF Message, SameOrigin
<1> HIDE DEF f
<1>5. f \in Seq(Message) /\ Len(f) = Len(messages) /\ DOMAIN f = DOMAIN messages
  BY <1>2, <1>3, TableType, RowTypes
<1>6. purgeExpires' \in [Queues -> Nat]
  BY DEF TypeOK, maintain, reapQueue
<1> QED
  BY <1>4, <1>5, <1>6, RowTypes DEF f, maintain, reapQueue

\* SetDeadlines moves deadlines and nothing else.
LEMMA DeadlineTables ==
  ASSUME TypeOK, NEW H, NEW d \in Nat, SetDeadlines(H, d)
  PROVE  /\ messages' \in Seq(Message)
         /\ Len(messages') = Len(messages)
         /\ DOMAIN messages' = DOMAIN messages
         /\ receipts' \in Seq(Receipt)
         /\ Len(receipts') = Len(receipts)
         /\ DOMAIN receipts' = DOMAIN receipts
         /\ \A r \in DOMAIN messages :
              /\ messages'[r].queue = messages[r].queue
              /\ messages'[r].deleted = messages[r].deleted
              /\ messages'[r].receiveCount = messages[r].receiveCount
              /\ messages'[r].availableAt = messages[r].availableAt
              /\ messages'[r].dlSource = messages[r].dlSource
              /\ SameOrigin(messages'[r], messages[r])
              /\ messages'[r].visibilityDeadline =
                   IF \E h \in H : receipts[h].message = r
                     THEN d ELSE messages[r].visibilityDeadline
         /\ \A h \in DOMAIN receipts :
              /\ receipts'[h].queue = receipts[h].queue
              /\ receipts'[h].message = receipts[h].message
              /\ receipts'[h].issuedAt = receipts[h].issuedAt
              /\ receipts'[h].active = receipts[h].active
              /\ receipts'[h].visibilityDeadline =
                   IF h \in H THEN d ELSE receipts[h].visibilityDeadline
<1> DEFINE f == messages'
           g == receipts'
<1>1. \A r \in 1 .. Len(messages) :
        f[r] = [messages[r] EXCEPT !.visibilityDeadline =
                  IF \E h \in H : receipts[h].message = r
                    THEN d ELSE messages[r].visibilityDeadline]
  BY RowTypes DEF SetDeadlines
<1>2. \A r \in 1 .. Len(messages) :
        /\ f[r] \in Message
        /\ f[r].queue = messages[r].queue
        /\ f[r].deleted = messages[r].deleted
        /\ f[r].receiveCount = messages[r].receiveCount
        /\ f[r].availableAt = messages[r].availableAt
        /\ f[r].dlSource = messages[r].dlSource
        /\ SameOrigin(f[r], messages[r])
        /\ f[r].visibilityDeadline = IF \E h \in H : receipts[h].message = r
                                       THEN d ELSE messages[r].visibilityDeadline
  <2> TAKE r \in 1 .. Len(messages)
  <2> DEFINE v == IF \E h \in H : receipts[h].message = r
                    THEN d ELSE messages[r].visibilityDeadline
  <2>1. messages[r] \in Message /\ messages[r].visibilityDeadline \in Nat
    BY RowTypes DEF Message
  <2>2. v \in Nat /\ f[r] = [messages[r] EXCEPT !.visibilityDeadline = v]
    BY <1>1, <2>1
  <2> HIDE DEF v
  <2>3. f[r] \in Message
    BY <2>1, <2>2 DEF Message
  <2>4. /\ f[r].queue = messages[r].queue
        /\ f[r].deleted = messages[r].deleted
        /\ f[r].receiveCount = messages[r].receiveCount
        /\ f[r].availableAt = messages[r].availableAt
        /\ f[r].dlSource = messages[r].dlSource
        /\ SameOrigin(f[r], messages[r])
        /\ f[r].visibilityDeadline = v
    BY <2>1, <2>2 DEF Message, SameOrigin
  <2> QED
    BY <2>3, <2>4 DEF v
<1>3. \A h \in 1 .. Len(receipts) :
        g[h] = [receipts[h] EXCEPT !.visibilityDeadline =
                  IF h \in H THEN d ELSE receipts[h].visibilityDeadline]
  BY RowTypes DEF SetDeadlines
<1>4. \A h \in 1 .. Len(receipts) :
        /\ g[h] \in Receipt
        /\ g[h].queue = receipts[h].queue
        /\ g[h].message = receipts[h].message
        /\ g[h].issuedAt = receipts[h].issuedAt
        /\ g[h].active = receipts[h].active
        /\ g[h].visibilityDeadline =
             IF h \in H THEN d ELSE receipts[h].visibilityDeadline
  BY <1>3, RowTypes DEF Receipt
<1>5. /\ f = [r \in 1 .. Len(messages) |-> f[r]]
      /\ g = [h \in 1 .. Len(receipts) |-> g[h]]
  BY RowTypes DEF SetDeadlines
<1> HIDE DEF f, g
<1>6. f \in Seq(Message) /\ Len(f) = Len(messages) /\ DOMAIN f = DOMAIN messages
  BY <1>2, <1>5, TableType, RowTypes
<1>7. g \in Seq(Receipt) /\ Len(g) = Len(receipts) /\ DOMAIN g = DOMAIN receipts
  BY <1>4, <1>5, TableType, RowTypes
<1> QED
  BY <1>2, <1>4, <1>6, <1>7, RowTypes DEF f, g

\* A redrive moves the rows of R that it may move and voids their receipts.
LEMMA RedriveTables ==
  ASSUME TypeOK, NEW q \in Queues, NEW R, NEW now \in Nat,
         RedriveTarget[q] # NoQueue, redriveMessage(q, R, now)
  PROVE  \/ UNCHANGED <<messages, receipts>>
         \/ /\ messages' \in Seq(Message)
            /\ Len(messages') = Len(messages)
            /\ DOMAIN messages' = DOMAIN messages
            /\ receipts' = ReceiptsDeactivated(R)
            /\ \A r \in DOMAIN messages :
                 /\ messages'[r].deleted = messages[r].deleted
                 /\ messages'[r].receiveCount = messages[r].receiveCount
                 /\ SameOrigin(messages'[r], messages[r])
                 /\ r \notin R => messages'[r] = messages[r]
                 /\ r \in R => /\ messages'[r].queue = RedriveTarget[q]
                               /\ messages'[r].availableAt = now
                               /\ messages'[r].visibilityDeadline = 0
                               /\ messages'[r].dlSource = q
<1> SUFFICES ASSUME QueueExists(RedriveTarget[q])
             PROVE  /\ messages' \in Seq(Message)
                    /\ Len(messages') = Len(messages)
                    /\ DOMAIN messages' = DOMAIN messages
                    /\ receipts' = ReceiptsDeactivated(R)
                    /\ \A r \in DOMAIN messages :
                         /\ messages'[r].deleted = messages[r].deleted
                         /\ messages'[r].receiveCount = messages[r].receiveCount
                         /\ SameOrigin(messages'[r], messages[r])
                         /\ r \notin R => messages'[r] = messages[r]
                         /\ r \in R => /\ messages'[r].queue = RedriveTarget[q]
                                       /\ messages'[r].availableAt = now
                                       /\ messages'[r].visibilityDeadline = 0
                                       /\ messages'[r].dlSource = q
  BY DEF redriveMessage, Redriven
<1> DEFINE f == messages'
<1>1. RedriveTarget[q] \in Queues
  BY QueueAssumption
<1>2. \A r \in 1 .. Len(messages) :
        f[r] = IF r \in R
                 THEN [messages[r] EXCEPT !.queue = RedriveTarget[q],
                                          !.availableAt = now,
                                          !.visibilityDeadline = 0,
                                          !.dlSource = q]
                 ELSE messages[r]
  BY RowTypes DEF redriveMessage, Redriven
<1>3. \A r \in 1 .. Len(messages) :
        /\ f[r] \in Message
        /\ f[r].deleted = messages[r].deleted
        /\ f[r].receiveCount = messages[r].receiveCount
        /\ SameOrigin(f[r], messages[r])
        /\ r \notin R => f[r] = messages[r]
        /\ r \in R => /\ f[r].queue = RedriveTarget[q]
                      /\ f[r].availableAt = now
                      /\ f[r].visibilityDeadline = 0
                      /\ f[r].dlSource = q
  <2> TAKE r \in 1 .. Len(messages)
  <2>1. messages[r] \in Message
    BY RowTypes
  <2>2. CASE r \notin R
    BY <1>2, <2>1, <2>2 DEF SameOrigin
  <2>3. CASE r \in R
    <3>1. f[r] = [messages[r] EXCEPT !.queue = RedriveTarget[q], !.availableAt = now,
                                     !.visibilityDeadline = 0, !.dlSource = q]
      BY <1>2, <2>3
    <3>2. f[r] \in Message
      <4>1. [messages[r] EXCEPT !.queue = RedriveTarget[q], !.availableAt = now] \in Message
        BY <1>1, <2>1 DEF Message
      <4>2. \A m \in Message :
              [m EXCEPT !.visibilityDeadline = 0, !.dlSource = q] \in Message
        BY DEF Message
      <4> QED
        BY <3>1, <4>1, <4>2
    <3>3. /\ f[r].deleted = messages[r].deleted
          /\ f[r].receiveCount = messages[r].receiveCount
          /\ SameOrigin(f[r], messages[r])
          /\ f[r].queue = RedriveTarget[q]
          /\ f[r].availableAt = now
          /\ f[r].visibilityDeadline = 0
          /\ f[r].dlSource = q
      BY <2>1, <3>1 DEF Message, SameOrigin
    <3> QED
      BY <2>3, <3>2, <3>3
  <2> QED
    BY <2>2, <2>3
<1>4. f = [r \in 1 .. Len(messages) |-> f[r]]
  BY RowTypes DEF redriveMessage, Redriven
<1> HIDE DEF f
<1>5. f \in Seq(Message) /\ Len(f) = Len(messages) /\ DOMAIN f = DOMAIN messages
  BY <1>3, <1>4, TableType, RowTypes
<1> QED
  BY <1>3, <1>5, RowTypes DEF f, redriveMessage, Redriven

\* The rows c lists.
Rows(c, k) == {c[i] : i \in 1 .. k}

\* What a lease of the k rows c does to the tables.
LeaseEffect(q, k, c, vis) ==
  /\ Len(c) = k
  /\ messages' \in Seq(Message)
  /\ Len(messages') = Len(messages)
  /\ DOMAIN messages' = DOMAIN messages
  /\ \A r \in DOMAIN messages :
       /\ messages'[r].queue = messages[r].queue
       /\ messages'[r].deleted = messages[r].deleted
       /\ messages'[r].availableAt = messages[r].availableAt
       /\ messages'[r].dlSource = messages[r].dlSource
       /\ SameOrigin(messages'[r], messages[r])
       /\ r \in Rows(c, k) =>
            /\ messages'[r].visibilityDeadline = clock + vis
            /\ messages'[r].receiveCount = messages[r].receiveCount + 1
       /\ r \notin Rows(c, k) => messages'[r] = messages[r]
  /\ receipts' \in Seq(Receipt)
  /\ DOMAIN receipts' = 1 .. (Len(receipts) + k)
  /\ \A h \in 1 .. Len(receipts) :
       receipts'[h] = ReceiptsDeactivated(Rows(c, k))[h]
  /\ \A h \in (Len(receipts) + 1) .. (Len(receipts) + k) :
       /\ h - Len(receipts) \in 1 .. k
       /\ receipts'[h] = [queue |-> q, message |-> c[h - Len(receipts)],
                          issuedAt |-> clock,
                          visibilityDeadline |-> clock + vis, active |-> TRUE]

\* A lease counts and hides the chosen rows and issues one receipt for each.
LEMMA LeaseTables ==
  ASSUME TypeOK, NEW q \in Queues, NEW k \in Nat, NEW c \in [1 .. k -> DOMAIN messages],
         NEW vis \in Nat, Lease(q, c, vis)
  PROVE  LeaseEffect(q, k, c, vis)
<1> DEFINE leased == Rows(c, k)
           f == messages'
           g == receipts'
<1>1. Len(c) = k /\ DOMAIN c = 1 .. k
  BY LenProperties, SeqDef
<1>2. clock + vis \in Nat /\ clock \in Nat
  BY DEF TypeOK
<1>3. f = [r \in 1 .. Len(messages) |->
             IF r \in leased
               THEN [messages[r] EXCEPT !.receiveCount = messages[r].receiveCount + 1,
                                        !.visibilityDeadline = clock + vis]
               ELSE messages[r]]
  BY <1>1, RowTypes DEF Lease, Rows
<1>4. \A r \in 1 .. Len(messages) :
        /\ f[r] \in Message
        /\ f[r].queue = messages[r].queue
        /\ f[r].deleted = messages[r].deleted
        /\ f[r].availableAt = messages[r].availableAt
        /\ f[r].dlSource = messages[r].dlSource
        /\ SameOrigin(f[r], messages[r])
        /\ r \in leased => /\ f[r].visibilityDeadline = clock + vis
                           /\ f[r].receiveCount = messages[r].receiveCount + 1
        /\ r \notin leased => f[r] = messages[r]
  <2> TAKE r \in 1 .. Len(messages)
  <2>1. messages[r] \in Message
    BY RowTypes
  <2>2. CASE r \notin leased
    BY <1>3, <2>1, <2>2 DEF SameOrigin
  <2>3. CASE r \in leased
    <3>1. messages[r].receiveCount + 1 \in Nat
      BY <2>1 DEF Message
    <3>2. PICK n \in Nat :
            /\ n = messages[r].receiveCount + 1
            /\ f[r] = [messages[r] EXCEPT !.receiveCount = n,
                                          !.visibilityDeadline = clock + vis]
      BY <1>3, <2>3, <3>1
    <3> QED
      BY <1>2, <2>1, <2>3, <3>2 DEF Message, SameOrigin
  <2> QED
    BY <2>2, <2>3
<1>5. g = [h \in 1 .. (Len(receipts) + k) |->
             IF h <= Len(receipts)
               THEN ReceiptsDeactivated(leased)[h]
               ELSE [queue |-> q, message |-> c[h - Len(receipts)], issuedAt |-> clock,
                     visibilityDeadline |-> clock + vis, active |-> TRUE]]
  BY <1>1, RowTypes DEF Lease, Rows
<1>6. \A h \in 1 .. Len(receipts) :
        g[h] = ReceiptsDeactivated(leased)[h] /\ g[h] \in Receipt
  BY <1>5, RowTypes, DeactivatedTable
<1>7. \A h \in (Len(receipts) + 1) .. (Len(receipts) + k) :
        /\ h - Len(receipts) \in 1 .. k
        /\ g[h] = [queue |-> q, message |-> c[h - Len(receipts)], issuedAt |-> clock,
                   visibilityDeadline |-> clock + vis, active |-> TRUE]
        /\ g[h] \in Receipt
  <2> TAKE h \in (Len(receipts) + 1) .. (Len(receipts) + k)
  <2>1. h - Len(receipts) \in 1 .. k
    BY RowTypes
  <2>2. c[h - Len(receipts)] \in Nat
    BY <2>1, RowTypes
  <2>3. g[h] = [queue |-> q, message |-> c[h - Len(receipts)], issuedAt |-> clock,
                visibilityDeadline |-> clock + vis, active |-> TRUE]
    BY <1>5, RowTypes
  <2> QED
    BY <1>2, <2>1, <2>2, <2>3 DEF Receipt
<1>8. /\ f = [r \in 1 .. Len(messages) |-> f[r]]
      /\ g = [h \in 1 .. (Len(receipts) + k) |-> g[h]]
  BY <1>3, <1>5
<1>9. \A h \in 1 .. (Len(receipts) + k) : g[h] \in Receipt
  <2> TAKE h \in 1 .. (Len(receipts) + k)
  <2>1. h \in 1 .. Len(receipts) \/ h \in (Len(receipts) + 1) .. (Len(receipts) + k)
    BY RowTypes
  <2> QED
    BY <1>6, <1>7, <2>1
<1> HIDE DEF f, g
<1>10. f \in Seq(Message) /\ Len(f) = Len(messages) /\ DOMAIN f = DOMAIN messages
  BY <1>4, <1>8, TableType, RowTypes
<1>11. g \in Seq(Receipt) /\ DOMAIN g = 1 .. (Len(receipts) + k)
  <2>1. Len(receipts) + k \in Nat
    BY RowTypes
  <2> QED
    BY <1>8, <1>9, <2>1, TableType
<1> QED
  BY <1>1, <1>4, <1>6, <1>7, <1>10, <1>11, RowTypes DEF f, g, LeaseEffect

\* Truncation to a whole second.
LEMMA TruncateBound ==
  ASSUME NEW t \in Nat, NEW s \in Nat \ {0}
  PROVE  t - (t % s) \in Nat /\ t - (t % s) <= t
<1>1. t % s \in Nat /\ t % s <= t
  BY Z3
<1> QED
  BY <1>1

\* UpdateReceipt with Active = false.
LEMMA ReceiptRetired ==
  ASSUME TypeOK, NEW h \in DOMAIN receipts,
         receipts' = [receipts EXCEPT ![h].active = FALSE]
  PROVE  /\ receipts' \in Seq(Receipt) /\ DOMAIN receipts' = DOMAIN receipts
         /\ \A g \in DOMAIN receipts :
              /\ receipts'[g].queue = receipts[g].queue
              /\ receipts'[g].message = receipts[g].message
              /\ receipts'[g].issuedAt = receipts[g].issuedAt
              /\ receipts'[g].visibilityDeadline = receipts[g].visibilityDeadline
              /\ receipts'[g].active <=> receipts[g].active /\ g # h
<1>1. receipts[h] \in Receipt
  BY RowTypes
<1>2. [receipts[h] EXCEPT !.active = FALSE] \in Receipt
  BY <1>1 DEF Receipt
<1>3. /\ receipts' = [receipts EXCEPT ![h] = [receipts[h] EXCEPT !.active = FALSE]]
      /\ receipts \in Seq(Receipt)
  BY DEF TypeOK
<1>4. receipts' \in Seq(Receipt) /\ DOMAIN receipts' = DOMAIN receipts
  BY <1>2, <1>3
<1> QED
  BY <1>1, <1>3, <1>4, RowTypes DEF Receipt

\* UpdateMessage with DeletedAt set and no visibility deadline.
LEMMA RowRemoved ==
  ASSUME TypeOK, NEW r \in DOMAIN messages,
         messages' = [messages EXCEPT ![r].deleted = TRUE, ![r].visibilityDeadline = 0]
  PROVE  /\ messages' \in Seq(Message) /\ DOMAIN messages' = DOMAIN messages
         /\ messages'[r].deleted
         /\ messages'[r].queue = messages[r].queue
         /\ messages'[r].receiveCount = messages[r].receiveCount
         /\ messages'[r].dlSource = messages[r].dlSource
         /\ SameOrigin(messages'[r], messages[r])
         /\ \A s \in DOMAIN messages : s # r => messages'[s] = messages[s]
<1>1. messages[r] \in Message
  BY RowTypes
<1> DEFINE m == [messages[r] EXCEPT !.deleted = TRUE, !.visibilityDeadline = 0]
<1>2. /\ m \in Message /\ m.deleted
      /\ m.queue = messages[r].queue
      /\ m.receiveCount = messages[r].receiveCount
      /\ m.dlSource = messages[r].dlSource
      /\ SameOrigin(m, messages[r])
  BY <1>1 DEF Message, SameOrigin
<1>3. messages' = [messages EXCEPT ![r] = m] /\ messages \in Seq(Message)
  BY DEF TypeOK
<1> HIDE DEF m
<1>4. r \in 1 .. Len(messages)
  BY RowTypes
<1>5. messages' \in Seq(Message) /\ DOMAIN messages' = DOMAIN messages
  <2>1. [messages EXCEPT ![r] = m] \in Seq(Message)
    BY <1>2, <1>3, <1>4, ExceptSeq
  <2> QED
    BY <1>3, <2>1
<1>6. messages'[r] = m /\ \A s \in DOMAIN messages : s # r => messages'[s] = messages[s]
  BY <1>3
<1> QED
  BY <1>2, <1>5, <1>6

\* c lists k distinct undeleted rows of queue q.
Selected(q, k, c) ==
  /\ c \in [1 .. k -> DOMAIN messages]
  /\ \A i \in 1 .. k : messages[c[i]].queue = q /\ ~messages[c[i]].deleted
  /\ \A i, j \in 1 .. k : c[i] = c[j] => i = j

\* The rows of c are eligible, and one that is eligible but not in c comes
\* after all of them.
Listed(q, k, c, now) ==
  /\ \A i \in 1 .. k : c[i] \in Eligible(q, now)
  /\ \A r \in Eligible(q, now) :
       r \in Rows(c, k) \/ \A i \in 1 .. k : ListedBefore(q, c[i], r, now)

\* What a selection round returns: distinct live rows of the queue, the first
\* eligible ones.
LEMMA CandidateFacts ==
  ASSUME TypeOK, NEW q, NEW max \in Nat, NEW now, NEW c \in candidateMessages(q, max, now)
  PROVE  \E k \in Nat : Selected(q, k, c) /\ Listed(q, k, c, now)
<1>1. PICK k \in 0 .. max :
        /\ c \in [1 .. k -> Eligible(q, now)]
        /\ \A i, j \in 1 .. k : i < j => ListedBefore(q, c[i], c[j], now)
        /\ \A r \in Eligible(q, now) :
             \/ \E i \in 1 .. k : c[i] = r
             \/ k = max /\ \A i \in 1 .. k : ListedBefore(q, c[i], r, now)
  BY DEF candidateMessages
<1>2. \A r \in Eligible(q, now) :
        r \in DOMAIN messages /\ messages[r].queue = q /\ ~messages[r].deleted
  BY DEF Eligible, FifoEligible, liveMessages
<1>3. \A i \in 1 .. k : c[i] \in Eligible(q, now) /\ c[i] \in DOMAIN messages
  BY <1>1, <1>2
<1>4. \A r \in DOMAIN messages : ~Precedes(r, r)
  BY RowTypes DEF Precedes, Message
<1>5. \A r \in DOMAIN messages : ~ListedBefore(q, r, r, now)
  BY <1>4 DEF ListedBefore, SameGroup
<1>6. ASSUME NEW i \in 1 .. k, NEW j \in 1 .. k, c[i] = c[j]
      PROVE  i = j
  <2>1. ~(i < j) /\ ~(j < i)
    BY <1>1, <1>3, <1>5, <1>6
  <2> QED
    BY <2>1
<1>7. c \in [1 .. k -> DOMAIN messages]
  BY <1>1, <1>2
<1>8. Selected(q, k, c)
  BY <1>2, <1>3, <1>6, <1>7 DEF Selected
<1>9. Listed(q, k, c, now)
  BY <1>1, <1>3 DEF Listed, Rows
<1> QED
  BY <1>8, <1>9

-----------------------------------------------------------------------------
(* Requests.                                                                 *)

\* The op of a request tells its record type.
LEMMA RequestKinds ==
  ASSUME TypeOK, NEW p \in Requests
  PROVE  /\ reqs[p] \in Request
         /\ reqs[p].op = "send" => reqs[p] \in SendRequest
         /\ reqs[p].op = "delete" => reqs[p] \in DeleteRequest
         /\ reqs[p].op = "change" => reqs[p] \in ChangeRequest
         /\ reqs[p].op \in {"replay", "loop", "select", "sleep"}
              => reqs[p] \in ReceiveRequest
<1>1. reqs[p] \in Request
  BY DEF TypeOK
<1> QED
  BY <1>1 DEF Request, Idle, SendRequest, DeleteRequest, ChangeRequest, ReceiveRequest

\* What remains of a batch that had more than one entry.
LEMMA TailOfBatch ==
  ASSUME NEW S, NEW b \in Seq(S), b # << >>, Len(b) # 1
  PROVE  Tail(b) \in Seq(S) /\ Tail(b) # << >>
<1>1. Len(b) \in Nat /\ Len(b) # 0
  BY EmptySeq, LenProperties
<1>2. Tail(b) \in Seq(S) /\ Len(Tail(b)) = Len(b) - 1
  BY HeadTailProperties
<1>3. Len(Tail(b)) # 0
  BY <1>1, <1>2
<1>4. Len(<< >>) = 0
  OBVIOUS
<1> QED
  BY <1>2, <1>3, <1>4

\* A batch that is not empty, in the terms of BatchesNonEmpty.
HasEntry(x) == /\ x.op = "send" => x.entries # << >>
               /\ x.op = "delete" => x.handles # << >>
               /\ x.op = "change" => x.changes # << >>

\* Writing one well-formed request state keeps all of them well formed.
LEMMA RequestWritten ==
  ASSUME TypeInv, NEW p \in Requests, NEW x \in Request, HasEntry(x),
         reqs' = [reqs EXCEPT ![p] = x]
  PROVE  reqs' \in [Requests -> Request] /\ BatchesNonEmpty'
<1>1. reqs \in [Requests -> Request]
  BY DEF TypeInv, TypeOK
<1>2. \A s \in Requests : reqs'[s] = IF s = p THEN x ELSE reqs[s]
  BY <1>1
<1>3. reqs' \in [Requests -> Request]
  BY <1>1
<1>4. \A s \in Requests : HasEntry(reqs'[s])
  BY <1>2 DEF TypeInv, BatchesNonEmpty, HasEntry
<1> QED
  BY <1>3, <1>4 DEF BatchesNonEmpty, HasEntry

LEMMA RequestReturned ==
  ASSUME TypeInv, NEW p \in Requests, Return(p)
  PROVE  reqs' \in [Requests -> Request] /\ BatchesNonEmpty'
<1>1. Idle \in Request /\ HasEntry(Idle)
  BY DEF Request, Idle, HasEntry
<1> QED
  BY <1>1, RequestWritten DEF Return

\* A receive moves between its program points.
LEMMA ReceiveMoved ==
  ASSUME TypeInv, NEW p \in Requests,
         reqs[p].op \in {"replay", "loop", "select", "sleep"},
         NEW pc \in {"replay", "loop", "select", "sleep"},
         NEW now \in Nat, NEW wakeAt \in Nat,
         reqs' = [reqs EXCEPT ![p] = [reqs[p] EXCEPT !.op = pc, !.now = now,
                                                      !.wakeAt = wakeAt]]
  PROVE  reqs' \in [Requests -> Request] /\ BatchesNonEmpty'
<1> DEFINE x == [reqs[p] EXCEPT !.op = pc, !.now = now, !.wakeAt = wakeAt]
<1>1. reqs[p] \in ReceiveRequest
  BY RequestKinds DEF TypeInv
<1>2. x \in ReceiveRequest
  BY <1>1 DEF ReceiveRequest
<1>3. x \in Request /\ x.op = pc
  BY <1>1, <1>2 DEF Request, ReceiveRequest
<1>4. HasEntry(x)
  BY <1>3 DEF HasEntry
<1> HIDE DEF x
<1>5. reqs' = [reqs EXCEPT ![p] = x]
  BY DEF x
<1> QED
  BY <1>3, <1>4, <1>5, RequestWritten

-----------------------------------------------------------------------------
(* Each action keeps TypeInv.                                                *)

\* The maintenance pass keeps the tables well typed and the references intact.
LEMMA MaintainType ==
  ASSUME TypeInv, maintain(clock),
         UNCHANGED <<clock, deleted, attempts, accepted, doomed>>,
         reqs' \in [Requests -> Request], BatchesNonEmpty'
  PROVE  TypeInv'
<1>1. TypeOK /\ clock \in Nat /\ ReceiptsRefer
  BY DEF TypeInv, TypeOK
<1>2. /\ messages' \in Seq(Message) /\ DOMAIN messages' = DOMAIN messages
      /\ receipts' = ReceiptsDeactivated(ExpiredAt(clock))
      /\ ledger' = {e \in ledger : e.expiresAt > clock}
      /\ purgeExpires' \in [Queues -> Nat]
  BY <1>1, MaintainTables
<1>3. /\ receipts' \in Seq(Receipt) /\ DOMAIN receipts' = DOMAIN receipts
      /\ \A h \in DOMAIN receipts : receipts'[h].message = receipts[h].message
  BY <1>1, <1>2, DeactivatedTable
<1>4. ReceiptsRefer'
  BY <1>1, <1>2, <1>3 DEF ReceiptsRefer
<1>5. TypeOK'
  BY <1>1, <1>2, <1>3 DEF TypeOK
<1> QED
  BY <1>4, <1>5 DEF TypeInv

LEMMA BeginType ==
  ASSUME TypeInv, NEW p \in Requests, NEW q \in Queues,
         NEW req \in Request, HasEntry(req), Begin(p, q, req)
  PROVE  TypeInv'
<1>1. CASE QueueExists(q)
  <2>1. reqs' = [reqs EXCEPT ![p] = req]
    BY <1>1 DEF Begin
  <2> QED
    BY <2>1, RequestWritten, MaintainType DEF Begin
<1>2. CASE ~QueueExists(q)
  <2>1. Return(p)
    BY <1>2 DEF Begin, Return
  <2> QED
    BY <2>1, RequestReturned, MaintainType DEF Begin
<1> QED
  BY <1>1, <1>2

\* Every request a client can start is well formed.
LEMMA StartType ==
  ASSUME TypeInv, NEW p \in Requests, StartRequest(p)
  PROVE  TypeInv'
<1>1. PICK q \in Queues :
        \/ \E entries \in SendBatches : SendMessageBatch(p, q, entries)
        \/ \E in \in ReceiveInputs : ReceiveMessage(p, q, in)
        \/ \E handles \in HandleBatches : DeleteMessageBatch(p, q, handles)
        \/ \E changes \in ChangeBatches : ChangeMessageVisibilityBatch(p, q, changes)
  BY QueueAssumption DEF StartRequest
<1>2. clock \in Nat /\ Len(receipts) \in Nat /\ MaxBatch \in Nat
  BY TimeAssumption DEF TypeInv, TypeOK
<1>3. ASSUME NEW entries \in SendBatches, SendMessageBatch(p, q, entries)
      PROVE  TypeInv'
  <2> DEFINE req == [op |-> "send", queue |-> q, now |-> clock, entries |-> entries]
  <2>1. req \in Request /\ HasEntry(req)
    BY <1>2, InputAssumption DEF Request, SendRequest, HasEntry
  <2>2. Begin(p, q, req)
    BY <1>3 DEF SendMessageBatch
  <2> QED
    BY <2>1, <2>2, BeginType
<1>4. ASSUME NEW in \in ReceiveInputs, ReceiveMessage(p, q, in)
      PROVE  TypeInv'
  <2> DEFINE req == [op |-> IF in.attempt = NoAttempt THEN "loop" ELSE "replay",
                     queue |-> q, now |-> clock, max |-> in.max, vis |-> in.vis,
                     deadline |-> clock + in.wait, wakeAt |-> clock,
                     attempt |-> in.attempt]
  <2>1. in \in ReceiveInput /\ MaxVisibility \in Nat
    BY InputAssumption, TimeAssumption
  <2>2. /\ in.max \in Nat \ {0} /\ in.vis \in Nat /\ in.attempt \in AttemptIds \cup {NoAttempt}
        /\ clock + in.wait \in Nat
    BY <1>2, <2>1 DEF ReceiveInput
  <2>3. req \in ReceiveRequest
    BY <1>2, <2>2 DEF ReceiveRequest
  <2>4. req \in Request /\ HasEntry(req)
    BY <2>3 DEF Request, HasEntry
  <2>5. Begin(p, q, req)
    BY <1>4 DEF ReceiveMessage
  <2> QED
    BY <2>4, <2>5, BeginType
<1>5. ASSUME NEW handles \in HandleBatches, DeleteMessageBatch(p, q, handles)
      PROVE  TypeInv'
  <2> DEFINE req == [op |-> "delete", queue |-> q, now |-> clock, handles |-> handles]
  <2>1. PICK n \in 1 .. MaxBatch : handles \in [1 .. n -> 0 .. Len(receipts)]
    BY DEF HandleBatches
  <2>2. handles \in Seq(Nat) /\ handles # << >>
    BY <1>2, <2>1, TableType
  <2>3. req \in Request /\ HasEntry(req)
    BY <1>2, <2>2 DEF Request, DeleteRequest, HasEntry
  <2>4. Begin(p, q, req)
    BY <1>5 DEF DeleteMessageBatch
  <2> QED
    BY <2>3, <2>4, BeginType
<1>6. ASSUME NEW changes \in ChangeBatches, ChangeMessageVisibilityBatch(p, q, changes)
      PROVE  TypeInv'
  <2> DEFINE req == [op |-> "change", queue |-> q, now |-> clock, changes |-> changes]
  <2>1. PICK n \in 1 .. MaxBatch :
          changes \in [1 .. n -> [handle : 0 .. Len(receipts), timeout : ChangeTimeouts]]
    BY DEF ChangeBatches
  <2>2. \A i \in 1 .. n : changes[i] \in Change
    <3>1. ChangeTimeouts \subseteq Nat /\ 0 .. Len(receipts) \subseteq Nat
      BY <1>2, InputAssumption
    <3>2. \A x \in [handle : 0 .. Len(receipts), timeout : ChangeTimeouts] : x \in Change
      BY <3>1 DEF Change
    <3> QED
      BY <2>1, <3>2
  <2>3. changes \in Seq(Change) /\ changes # << >>
    BY <1>2, <2>1, <2>2, TableType
  <2>4. req \in Request /\ HasEntry(req)
    BY <1>2, <2>3 DEF Request, ChangeRequest, HasEntry
  <2>5. Begin(p, q, req)
    BY <1>6 DEF ChangeMessageVisibilityBatch
  <2> QED
    BY <2>4, <2>5, BeginType
<1> QED
  BY <1>1, <1>3, <1>4, <1>5, <1>6

LEMMA SendType ==
  ASSUME TypeInv, NEW p \in Requests, sendMessageEntry(p)
  PROVE  TypeInv'
<1> DEFINE q == reqs[p].queue
           e == Head(reqs[p].entries)
           now == reqs[p].now
           row == Len(messages) + 1
           rest == [reqs[p] EXCEPT !.entries = Tail(reqs[p].entries)]
<1>1. TypeOK /\ ReceiptsRefer /\ clock \in Nat
  BY DEF TypeInv, TypeOK
<1>2. reqs[p] \in SendRequest /\ reqs[p].entries # << >>
  <2>1. reqs[p].op = "send"
    BY DEF sendMessageEntry
  <2> QED
    BY <2>1, RequestKinds DEF TypeInv, BatchesNonEmpty
<1>3. q \in Queues /\ now \in Nat /\ e \in Entry /\ reqs[p].entries \in Seq(Entry)
  BY <1>2 DEF SendRequest
<1>4. reqs' \in [Requests -> Request] /\ BatchesNonEmpty'
  <2>1. CASE Len(reqs[p].entries) = 1
    BY <2>1, RequestReturned DEF sendMessageEntry, NextEntry, Return
  <2>2. CASE Len(reqs[p].entries) # 1
    <3>1. Tail(reqs[p].entries) \in Seq(Entry) /\ Tail(reqs[p].entries) # << >>
      BY <1>2, <1>3, <2>2, TailOfBatch
    <3>2. rest \in SendRequest /\ rest.op = "send" /\ rest.entries = Tail(reqs[p].entries)
      BY <1>2, <3>1 DEF SendRequest
    <3>3. rest \in Request /\ HasEntry(rest)
      BY <3>1, <3>2 DEF Request, HasEntry
    <3>4. reqs' = [reqs EXCEPT ![p] = rest]
      BY <2>2 DEF sendMessageEntry, NextEntry
    <3> QED
      BY <3>3, <3>4, RequestWritten
  <2> QED
    BY <2>1, <2>2
<1>5. /\ messages' \in Seq(Message)
      /\ DOMAIN messages \subseteq DOMAIN messages'
      /\ ledger' \in SUBSET LedgerEntry
      /\ accepted' \in SUBSET Send
  <2>1. CASE UNCHANGED <<messages, ledger, accepted>>
    BY <1>1, <2>1 DEF TypeOK
  <2>2. CASE EntryValid(q, e) /\ InsertMessage(q, e, now)
    <3>1. NewMessage(q, e, now) \in Message
      <4>1. Retention[q] \in Nat /\ DelaySeconds[q] \in Nat
        BY <1>3, QueueAssumption
      <4>2. e.delay \in Nat \cup {NoDelay} /\ e.group \in Groups \cup {NoGroup}
        BY <1>3 DEF Entry
      <4>3. (IF e.delay = NoDelay THEN DelaySeconds[q] ELSE e.delay) \in Nat
        BY <4>1, <4>2
      <4> QED
        BY <1>3, <4>1, <4>2, <4>3 DEF NewMessage, Message
    <3>2. /\ messages' = Append(messages, NewMessage(q, e, now))
          /\ messages \in Seq(Message) /\ row \in Nat
      BY <1>1, <2>2 DEF InsertMessage, NewSend, TypeOK
    <3>3. messages' \in Seq(Message) /\ DOMAIN messages \subseteq DOMAIN messages'
      BY <3>1, <3>2
    <3>4. CASE q \notin FifoQueues
      BY <1>1, <2>2, <3>3, <3>4 DEF InsertMessage, NewSend, TypeOK
    <3>5. CASE q \in FifoQueues
      <4>1. EffectiveDedup(e) \in DedupIds
        BY <1>3 DEF EffectiveDedup, Entry
      <4>2. dedupScopeKey(q, e) \in Groups \cup {NoGroup}
        BY <1>3 DEF dedupScopeKey, Entry
      <4>3. now + DedupWindow \in Nat
        BY <1>3, TimeAssumption
      <4>4. NewLedger(q, e, row, now) \in SUBSET LedgerEntry
        BY <1>1, <1>3, <3>2, <4>1, <4>2, <4>3 DEF NewLedger, LedgerEntry, TypeOK
      <4>5. [queue |-> q, scope |-> dedupScopeKey(q, e), dedup |-> EffectiveDedup(e),
             row |-> row, at |-> now, clk |-> clock] \in Send
        BY <1>1, <1>3, <3>2, <4>1, <4>2 DEF Send
      <4> QED
        BY <1>1, <2>2, <3>3, <3>5, <4>4, <4>5 DEF InsertMessage, NewSend, TypeOK
    <3> QED
      BY <3>4, <3>5
  <2> QED
    BY <2>1, <2>2 DEF sendMessageEntry
<1>6. UNCHANGED <<clock, deleted, purgeExpires, receipts, attempts, doomed>>
  BY DEF sendMessageEntry
<1>7. ReceiptsRefer'
  BY <1>1, <1>5, <1>6 DEF ReceiptsRefer
<1>8. TypeOK'
  BY <1>1, <1>4, <1>5, <1>6 DEF TypeOK
<1> QED
  BY <1>4, <1>7, <1>8 DEF TypeInv

LEMMA ReplayType ==
  ASSUME TypeInv, NEW p \in Requests, replayReceiveAttempt(p)
  PROVE  TypeInv'
<1>1. TypeOK /\ ReceiptsRefer
  BY DEF TypeInv
<1>2. reqs[p] \in ReceiveRequest /\ reqs[p].op = "replay"
  BY <1>1, RequestKinds DEF replayReceiveAttempt
<1>3. reqs[p].now + reqs[p].vis \in Nat
  BY <1>2 DEF ReceiveRequest
<1>4. \/ UNCHANGED <<messages, receipts>>
      \/ \E H : SetDeadlines(H, reqs[p].now + reqs[p].vis)
  BY DEF replayReceiveAttempt
<1> DEFINE TablesKept ==
             /\ messages' \in Seq(Message) /\ DOMAIN messages' = DOMAIN messages
             /\ receipts' \in Seq(Receipt) /\ DOMAIN receipts' = DOMAIN receipts
             /\ \A h \in DOMAIN receipts : receipts'[h].message = receipts[h].message
<1>5. TablesKept
  <2>1. CASE UNCHANGED <<messages, receipts>>
    BY <1>1, <2>1 DEF TypeOK
  <2>2. ASSUME NEW H, SetDeadlines(H, reqs[p].now + reqs[p].vis)
        PROVE  TablesKept
    BY <1>1, <1>3, <2>2, DeadlineTables
  <2> QED
    BY <1>4, <2>1, <2>2
<1>6. reqs' \in [Requests -> Request] /\ BatchesNonEmpty'
  <2>1. CASE Return(p)
    BY <2>1, RequestReturned
  <2>2. CASE Goto(p, "loop")
    <3>1. reqs' = [reqs EXCEPT ![p] = [reqs[p] EXCEPT !.op = "loop",
                     !.now = reqs[p].now, !.wakeAt = reqs[p].wakeAt]]
      BY <1>2, <2>2 DEF Goto, ReceiveRequest
    <3> QED
      BY <1>2, <3>1, ReceiveMoved DEF ReceiveRequest
  <2> QED
    BY <2>1, <2>2 DEF replayReceiveAttempt
<1>7. UNCHANGED <<clock, deleted, purgeExpires, ledger, attempts, accepted, doomed>>
  BY DEF replayReceiveAttempt
<1>8. ReceiptsRefer'
  BY <1>1, <1>5 DEF ReceiptsRefer
<1>9. TypeOK'
  BY <1>1, <1>5, <1>6, <1>7 DEF TypeOK
<1> QED
  BY <1>6, <1>8, <1>9 DEF TypeInv

LEMMA LoopType ==
  ASSUME TypeInv, NEW p \in Requests, ReceiveLoop(p)
  PROVE  TypeInv'
<1>1. reqs[p] \in ReceiveRequest /\ reqs[p].op = "loop"
  BY RequestKinds DEF TypeInv, ReceiveLoop
<1>2. reqs' \in [Requests -> Request] /\ BatchesNonEmpty'
  <2>1. CASE Return(p)
    BY <2>1, RequestReturned
  <2>2. CASE Goto(p, "select")
    <3>1. reqs' = [reqs EXCEPT ![p] = [reqs[p] EXCEPT !.op = "select",
                     !.now = reqs[p].now, !.wakeAt = reqs[p].wakeAt]]
      BY <1>1, <2>2 DEF Goto, ReceiveRequest
    <3> QED
      BY <1>1, <3>1, ReceiveMoved DEF ReceiveRequest
  <2> QED
    BY <2>1, <2>2 DEF ReceiveLoop
<1> QED
  BY <1>2, MaintainType DEF ReceiveLoop

LEMMA NothingType ==
  ASSUME TypeInv, NEW p \in Requests, ReceiveNothing(p) \/ PollWake(p) \/ Disconnect(p)
  PROVE  TypeInv'
<1>1. UNCHANGED <<clock, deleted, purgeExpires, messages, receipts, ledger,
                  attempts, accepted, doomed>>
  BY DEF ReceiveNothing, PollWake, Disconnect
<1>2. reqs' \in [Requests -> Request] /\ BatchesNonEmpty'
  <2>1. CASE Return(p)
    BY <2>1, RequestReturned
  <2>2. CASE PollWake(p)
    <3>1. reqs[p] \in ReceiveRequest /\ reqs[p].op = "sleep" /\ clock \in Nat
      BY <2>2, RequestKinds DEF TypeInv, TypeOK, PollWake
    <3>2. reqs' = [reqs EXCEPT ![p] = [reqs[p] EXCEPT !.op = "loop",
                     !.now = clock, !.wakeAt = reqs[p].wakeAt]]
      BY <2>2, <3>1 DEF PollWake, ReceiveRequest
    <3> QED
      BY <3>1, <3>2, ReceiveMoved DEF ReceiveRequest
  <2>3. CASE ReceiveNothing(p) /\ ~Return(p)
    <3> DEFINE w == MinOf(clock + WakeFrequency, reqs[p].deadline)
    <3>1. reqs[p] \in ReceiveRequest /\ reqs[p].op = "select" /\ clock \in Nat
      BY <2>3, RequestKinds DEF TypeInv, TypeOK, ReceiveNothing
    <3>2. w \in Nat
      BY <3>1, TimeAssumption DEF MinOf, ReceiveRequest
    <3>3. reqs' = [reqs EXCEPT ![p] = [reqs[p] EXCEPT !.op = "sleep",
                     !.now = reqs[p].now, !.wakeAt = w]]
      BY <2>3, <3>1 DEF ReceiveNothing, ReceiveRequest
    <3> HIDE DEF w
    <3> QED
      BY <3>1, <3>2, <3>3, ReceiveMoved DEF ReceiveRequest
  <2> QED
    BY <2>1, <2>2, <2>3 DEF Disconnect
<1>3. ReceiptsRefer'
  BY <1>1 DEF TypeInv, ReceiptsRefer
<1>4. TypeOK'
  BY <1>1, <1>2 DEF TypeInv, TypeOK
<1> QED
  BY <1>2, <1>3, <1>4 DEF TypeInv

LEMMA RedriveType ==
  ASSUME TypeInv, NEW p \in Requests, RedriveRound(p)
  PROVE  TypeInv'
<1> DEFINE q == reqs[p].queue
           now == reqs[p].now
<1>1. TypeOK /\ ReceiptsRefer /\ BatchesNonEmpty
  BY DEF TypeInv
<1>2. q \in Queues /\ now \in Nat
  BY <1>1, RequestKinds DEF RedriveRound, ReceiveRequest
<1>3. PICK R : RedriveTarget[q] # NoQueue /\ redriveMessage(q, R, now)
  BY DEF RedriveRound, shouldRedrive
<1>4. UNCHANGED <<clock, deleted, purgeExpires, ledger, attempts, reqs, accepted, doomed>>
  BY DEF RedriveRound
<1> DEFINE TablesKept ==
             /\ messages' \in Seq(Message) /\ DOMAIN messages' = DOMAIN messages
             /\ receipts' \in Seq(Receipt) /\ DOMAIN receipts' = DOMAIN receipts
             /\ \A h \in DOMAIN receipts : receipts'[h].message = receipts[h].message
<1>5. TablesKept
  <2>1. CASE UNCHANGED <<messages, receipts>>
    BY <1>1, <2>1 DEF TypeOK
  <2>2. CASE ~UNCHANGED <<messages, receipts>>
    <3>1. /\ messages' \in Seq(Message) /\ DOMAIN messages' = DOMAIN messages
          /\ receipts' = ReceiptsDeactivated(R)
      BY <1>1, <1>2, <1>3, <2>2, RedriveTables
    <3> QED
      BY <1>1, <3>1, DeactivatedTable
  <2> QED
    BY <2>1, <2>2
<1>6. ReceiptsRefer'
  BY <1>1, <1>5 DEF ReceiptsRefer
<1>7. TypeOK'
  BY <1>1, <1>4, <1>5 DEF TypeOK
<1>8. BatchesNonEmpty'
  BY <1>1, <1>4 DEF BatchesNonEmpty
<1> QED
  BY <1>6, <1>7, <1>8 DEF TypeInv

LEMMA LeaseType ==
  ASSUME TypeInv, NEW p \in Requests, LeaseCandidates(p)
  PROVE  TypeInv'
<1> DEFINE q == reqs[p].queue
           vis == reqs[p].vis
<1>1. TypeOK /\ ReceiptsRefer /\ clock \in Nat
  BY DEF TypeInv, TypeOK
<1>2. /\ reqs[p] \in ReceiveRequest /\ q \in Queues /\ vis \in Nat /\ reqs[p].max \in Nat
      /\ reqs[p].attempt \in AttemptIds \cup {NoAttempt}
  BY <1>1, RequestKinds DEF LeaseCandidates, ReceiveRequest
<1>3. PICK c \in candidateMessages(q, reqs[p].max, reqs[p].now) :
        Lease(q, c, vis) /\ RememberAttempt(q, reqs[p].attempt, Len(c))
  BY DEF LeaseCandidates
<1>4. PICK k \in Nat : Selected(q, k, c)
  BY <1>1, <1>2, CandidateFacts
<1> DEFINE leased == Rows(c, k)
<1>5. /\ Len(c) = k
      /\ messages' \in Seq(Message) /\ DOMAIN messages' = DOMAIN messages
      /\ receipts' \in Seq(Receipt)
      /\ DOMAIN receipts' = 1 .. (Len(receipts) + k)
      /\ \A h \in 1 .. Len(receipts) :
           receipts'[h] = ReceiptsDeactivated(leased)[h]
      /\ \A h \in (Len(receipts) + 1) .. (Len(receipts) + k) :
           /\ h - Len(receipts) \in 1 .. k
           /\ receipts'[h].message = c[h - Len(receipts)]
  <2>1. c \in [1 .. k -> DOMAIN messages]
    BY <1>4 DEF Selected
  <2>2. LeaseEffect(q, k, c, vis)
    BY <1>1, <1>2, <1>3, <2>1, LeaseTables
  <2>3. \A h \in (Len(receipts) + 1) .. (Len(receipts) + k) :
          /\ h - Len(receipts) \in 1 .. k
          /\ receipts'[h].message = c[h - Len(receipts)]
    <3> TAKE h \in (Len(receipts) + 1) .. (Len(receipts) + k)
    <3>1. /\ h - Len(receipts) \in 1 .. k
          /\ receipts'[h] = [queue |-> q, message |-> c[h - Len(receipts)],
                             issuedAt |-> clock,
                             visibilityDeadline |-> clock + vis, active |-> TRUE]
      BY <2>2 DEF LeaseEffect
    <3> QED
      BY <3>1
  <2> QED
    BY <2>2, <2>3 DEF LeaseEffect
<1>6. ReceiptsRefer'
  <2> SUFFICES ASSUME NEW h \in 1 .. (Len(receipts) + k)
               PROVE  receipts'[h].message \in DOMAIN messages
    BY <1>5 DEF ReceiptsRefer
  <2>1. CASE h \in 1 .. Len(receipts)
    <3>1. h \in DOMAIN receipts /\ receipts'[h] = ReceiptsDeactivated(leased)[h]
      BY <1>1, <1>5, <2>1, RowTypes
    <3>2. ReceiptsDeactivated(leased)[h].message = receipts[h].message
      BY <1>1, <3>1, DeactivatedTable
    <3> QED
      BY <1>1, <3>1, <3>2 DEF ReceiptsRefer
  <2>2. CASE h \in (Len(receipts) + 1) .. (Len(receipts) + k)
    BY <1>4, <1>5, <2>2 DEF Selected
  <2> QED
    BY <1>1, <2>1, <2>2, RowTypes
<1>7. attempts' \in SUBSET Attempt
  <2>1. CASE reqs[p].attempt = NoAttempt
    BY <1>1, <1>3, <2>1 DEF RememberAttempt, NewAttempt, TypeOK
  <2>2. CASE reqs[p].attempt # NoAttempt
    <3> DEFINE resp == [i \in 1 .. k |-> Len(receipts) + i]
    <3>1. \A i \in 1 .. k : resp[i] \in Nat
      BY <1>1, RowTypes
    <3>2. resp = [i \in 1 .. k |-> resp[i]]
      OBVIOUS
    <3> HIDE DEF resp
    <3>3. resp \in Seq(Nat)
      BY <3>1, <3>2, TableType
    <3>4. clock + DedupWindow \in Nat
      BY <1>1, TimeAssumption
    <3>5. [queue |-> q, attempt |-> reqs[p].attempt, response |-> resp,
           expiresAt |-> clock + DedupWindow] \in Attempt
      BY <1>2, <2>2, <3>3, <3>4 DEF Attempt
    <3> QED
      BY <1>1, <1>3, <1>5, <2>2, <3>5 DEF RememberAttempt, NewAttempt, TypeOK, resp
  <2> QED
    BY <2>1, <2>2
<1>8. reqs' \in [Requests -> Request] /\ BatchesNonEmpty'
  BY RequestReturned DEF LeaseCandidates
<1>9. TypeOK'
  BY <1>1, <1>5, <1>7, <1>8 DEF TypeOK, LeaseCandidates
<1> QED
  BY <1>6, <1>8, <1>9 DEF TypeInv

LEMMA DeleteType ==
  ASSUME TypeInv, NEW p \in Requests, deleteByReceiptHandle(p)
  PROVE  TypeInv'
<1> DEFINE h == Head(reqs[p].handles)
           r == receipts[h].message
           rest == [reqs[p] EXCEPT !.handles = Tail(reqs[p].handles)]
<1>1. TypeOK /\ ReceiptsRefer
  BY DEF TypeInv
<1>2. reqs[p] \in DeleteRequest /\ reqs[p].handles # << >>
  <2>1. reqs[p].op = "delete"
    BY DEF deleteByReceiptHandle
  <2> QED
    BY <2>1, RequestKinds DEF TypeInv, BatchesNonEmpty
<1>3. reqs[p].handles \in Seq(Nat)
  BY <1>2 DEF DeleteRequest
<1>4. reqs' \in [Requests -> Request] /\ BatchesNonEmpty'
  <2>1. CASE Len(reqs[p].handles) = 1
    BY <2>1, RequestReturned DEF deleteByReceiptHandle, NextEntry, Return
  <2>2. CASE Len(reqs[p].handles) # 1
    <3>1. Tail(reqs[p].handles) \in Seq(Nat) /\ Tail(reqs[p].handles) # << >>
      BY <1>2, <1>3, <2>2, TailOfBatch
    <3>2. rest \in DeleteRequest /\ rest.op = "delete" /\ rest.handles = Tail(reqs[p].handles)
      BY <1>2, <3>1 DEF DeleteRequest
    <3>3. rest \in Request /\ HasEntry(rest)
      BY <3>1, <3>2 DEF Request, HasEntry
    <3>4. reqs' = [reqs EXCEPT ![p] = rest]
      BY <2>2 DEF deleteByReceiptHandle, NextEntry
    <3> QED
      BY <3>3, <3>4, RequestWritten
  <2> QED
    BY <2>1, <2>2
<1>5. /\ messages' \in Seq(Message) /\ DOMAIN messages' = DOMAIN messages
      /\ receipts' \in Seq(Receipt) /\ DOMAIN receipts' = DOMAIN receipts
      /\ \A g \in DOMAIN receipts : receipts'[g].message = receipts[g].message
      /\ attempts' \in SUBSET Attempt
  <2>1. CASE UNCHANGED <<messages, receipts, attempts>>
    BY <1>1, <2>1 DEF TypeOK
  <2>2. CASE HandleUsable(reqs[p].queue, h, reqs[p].now)
    <3>1. h \in DOMAIN receipts /\ r \in DOMAIN messages /\ r \in Nat
      BY <1>1, <2>2, RowTypes DEF HandleUsable, ReceiptsRefer
    <3>2. receipts' = [receipts EXCEPT ![h].active = FALSE]
      BY <2>2 DEF deleteByReceiptHandle
    <3>3. /\ receipts' \in Seq(Receipt) /\ DOMAIN receipts' = DOMAIN receipts
          /\ \A g \in DOMAIN receipts : receipts'[g].message = receipts[g].message
      BY <1>1, <3>1, <3>2, ReceiptRetired
    <3>4. messages' \in Seq(Message) /\ DOMAIN messages' = DOMAIN messages
      <4>1. CASE messages' = messages
        BY <1>1, <4>1 DEF TypeOK
      <4>2. CASE messages' = [messages EXCEPT ![r].deleted = TRUE,
                                              ![r].visibilityDeadline = 0]
        BY <1>1, <3>1, <4>2, RowRemoved
      <4> QED
        BY <2>2, <4>1, <4>2 DEF deleteByReceiptHandle
    <3>5. attempts' \in SUBSET Attempt
      BY <1>1, <2>2 DEF deleteByReceiptHandle, AttemptsInvalidated, TypeOK
    <3> QED
      BY <3>3, <3>4, <3>5
  <2> QED
    BY <2>1, <2>2 DEF deleteByReceiptHandle
<1>6. ReceiptsRefer'
  BY <1>1, <1>5 DEF ReceiptsRefer
<1>7. TypeOK'
  BY <1>1, <1>4, <1>5 DEF TypeOK, deleteByReceiptHandle
<1> QED
  BY <1>4, <1>6, <1>7 DEF TypeInv

LEMMA ChangeType ==
  ASSUME TypeInv, NEW p \in Requests, changeVisibilityByReceiptHandle(p)
  PROVE  TypeInv'
<1> DEFINE h == Head(reqs[p].changes).handle
           timeout == Head(reqs[p].changes).timeout
           rest == [reqs[p] EXCEPT !.changes = Tail(reqs[p].changes)]
<1>1. TypeOK /\ ReceiptsRefer
  BY DEF TypeInv
<1>2. reqs[p] \in ChangeRequest /\ reqs[p].changes # << >>
  <2>1. reqs[p].op = "change"
    BY DEF changeVisibilityByReceiptHandle
  <2> QED
    BY <2>1, RequestKinds DEF TypeInv, BatchesNonEmpty
<1>3. reqs[p].changes \in Seq(Change) /\ reqs[p].now \in Nat
  BY <1>2 DEF ChangeRequest
<1>4. reqs[p].now + timeout \in Nat
  <2>1. Head(reqs[p].changes) \in Change
    BY <1>2, <1>3, HeadTailProperties
  <2> QED
    BY <1>3, <2>1 DEF Change
<1>5. reqs' \in [Requests -> Request] /\ BatchesNonEmpty'
  <2>1. CASE Len(reqs[p].changes) = 1
    BY <2>1, RequestReturned DEF changeVisibilityByReceiptHandle, NextEntry, Return
  <2>2. CASE Len(reqs[p].changes) # 1
    <3>1. Tail(reqs[p].changes) \in Seq(Change) /\ Tail(reqs[p].changes) # << >>
      BY <1>2, <1>3, <2>2, TailOfBatch
    <3>2. rest \in ChangeRequest /\ rest.op = "change" /\ rest.changes = Tail(reqs[p].changes)
      BY <1>2, <3>1 DEF ChangeRequest
    <3>3. rest \in Request /\ HasEntry(rest)
      BY <3>1, <3>2 DEF Request, HasEntry
    <3>4. reqs' = [reqs EXCEPT ![p] = rest]
      BY <2>2 DEF changeVisibilityByReceiptHandle, NextEntry
    <3> QED
      BY <3>3, <3>4, RequestWritten
  <2> QED
    BY <2>1, <2>2
<1>6. /\ messages' \in Seq(Message) /\ DOMAIN messages' = DOMAIN messages
      /\ receipts' \in Seq(Receipt) /\ DOMAIN receipts' = DOMAIN receipts
      /\ \A g \in DOMAIN receipts : receipts'[g].message = receipts[g].message
      /\ attempts' \in SUBSET Attempt
  <2>1. CASE UNCHANGED <<messages, receipts, attempts>>
    BY <1>1, <2>1 DEF TypeOK
  <2>2. CASE /\ SetDeadlines({h}, reqs[p].now + timeout)
             /\ attempts' = AttemptsInvalidated(reqs[p].queue)
    <3>1. attempts' \in SUBSET Attempt
      BY <1>1, <2>2 DEF AttemptsInvalidated, TypeOK
    <3> QED
      BY <1>1, <1>4, <2>2, <3>1, DeadlineTables
  <2> QED
    BY <2>1, <2>2 DEF changeVisibilityByReceiptHandle
<1>7. ReceiptsRefer'
  BY <1>1, <1>6 DEF ReceiptsRefer
<1>8. TypeOK'
  BY <1>1, <1>5, <1>6 DEF TypeOK, changeVisibilityByReceiptHandle
<1> QED
  BY <1>5, <1>7, <1>8 DEF TypeInv

\* PurgeQueue, DeleteQueue, Tick and a refused request.
LEMMA OtherType ==
  ASSUME TypeInv,
         \/ Tick
         \/ RefusedRequest
         \/ \E q \in PurgeableQueues : PurgeQueue(q)
         \/ \E q \in DeletableQueues : DeleteQueue(q)
  PROVE  TypeInv'
<1>1. TypeOK /\ ReceiptsRefer /\ BatchesNonEmpty /\ clock \in Nat
  BY DEF TypeInv, TypeOK
<1>2. CASE Tick
  <2>1. UNCHANGED <<deleted, purgeExpires, messages, receipts, ledger, attempts,
                    reqs, accepted, doomed>> /\ clock' \in Nat
    BY <1>1, <1>2 DEF Tick
  <2> QED
    BY <1>1, <2>1 DEF TypeInv, TypeOK, ReceiptsRefer, BatchesNonEmpty
<1>3. CASE RefusedRequest
  <2>1. reqs' \in [Requests -> Request] /\ BatchesNonEmpty'
    BY <1>1, <1>3 DEF RefusedRequest, TypeOK, BatchesNonEmpty
  <2> QED
    BY <1>3, <2>1, MaintainType DEF RefusedRequest
<1>4. ASSUME NEW q \in PurgeableQueues, PurgeQueue(q)
      PROVE  TypeInv'
  <2>1. UNCHANGED <<clock, deleted, messages, receipts, ledger, attempts, reqs, accepted>>
    BY <1>4 DEF PurgeQueue
  <2>2. TruncateToSecond(clock + PurgeCooldown) \in Nat
    <3>1. clock + PurgeCooldown \in Nat /\ Second \in Nat \ {0}
      BY <1>1, TimeAssumption
    <3> QED
      BY <3>1, TruncateBound DEF TruncateToSecond
  <2>3. purgeExpires' \in [Queues -> Nat]
    BY <1>1, <1>4, <2>2 DEF PurgeQueue, TypeOK
  <2>4. doomed' \in [Queues -> [rows : SUBSET Nat, at : Nat]]
    <3>1. {r \in DOMAIN messages : messages[r].queue = q} \in SUBSET Nat
      BY <1>1, RowTypes
    <3>2. [rows |-> {r \in DOMAIN messages : messages[r].queue = q}, at |-> clock]
            \in [rows : SUBSET Nat, at : Nat]
      BY <1>1, <3>1
    <3> QED
      BY <1>1, <1>4, <3>2 DEF PurgeQueue, TypeOK
  <2> QED
    BY <1>1, <2>1, <2>3, <2>4 DEF TypeInv, TypeOK, ReceiptsRefer, BatchesNonEmpty
<1>5. ASSUME NEW q \in DeletableQueues, DeleteQueue(q)
      PROVE  TypeInv'
  <2>1. deleted' \in SUBSET Queues
    BY <1>1, <1>5, QueueAssumption DEF DeleteQueue, TypeOK
  <2>2. UNCHANGED <<clock, purgeExpires, messages, receipts, ledger, attempts, reqs,
                    accepted, doomed>>
    BY <1>5 DEF DeleteQueue
  <2> QED
    BY <1>1, <2>1, <2>2 DEF TypeInv, TypeOK, ReceiptsRefer, BatchesNonEmpty
<1> QED
  BY <1>2, <1>3, <1>4, <1>5

LEMMA TypeInit == SectionInit => TypeInv
<1> SUFFICES ASSUME SectionInit PROVE TypeInv
  OBVIOUS
<1>1. messages \in Seq(Message) /\ receipts \in Seq(Receipt) /\ receipts = << >>
  BY DEF SectionInit
<1>2. reqs \in [Requests -> Request] /\ \A p \in Requests : reqs[p].op = "idle"
  BY DEF SectionInit, Request, Idle
<1>3. clock \in Nat
  BY TimeAssumption DEF SectionInit
<1>4. TypeOK
  BY <1>1, <1>2, <1>3 DEF SectionInit, TypeOK
<1>5. BatchesNonEmpty /\ ReceiptsRefer
  BY <1>1, <1>2 DEF BatchesNonEmpty, ReceiptsRefer
<1> QED
  BY <1>4, <1>5 DEF TypeInv

LEMMA TypeStep == TypeInv /\ [SectionNext]_planeVars => TypeInv'
<1> SUFFICES ASSUME TypeInv, [SectionNext]_planeVars PROVE TypeInv'
  OBVIOUS
<1>1. CASE UNCHANGED planeVars
  BY <1>1 DEF planeVars, TypeInv, TypeOK, BatchesNonEmpty, ReceiptsRefer
<1>2. ASSUME NEW p \in Requests, StartRequest(p) \/ Proceed(p) \/ Disconnect(p)
      PROVE  TypeInv'
  BY <1>2, StartType, SendType, ReplayType, LoopType, NothingType, RedriveType,
     LeaseType, DeleteType, ChangeType DEF Proceed
<1> QED
  BY <1>1, <1>2, OtherType DEF SectionNext

\* As long as the statements of two sections do not interleave:
\* Every variable keeps its type: the tables stay tables of well-formed rows,
\* every handler stays in a state of its own operation, whatever requests
\* arrive, interleave or are abandoned.
LEMMA TypeApart == SectionSpec => []TypeOK
<1>1. TypeInv => TypeOK
  BY DEF TypeInv
<1> QED
  BY <1>1, TypeInit, TypeStep, PTL DEF SectionSpec

-----------------------------------------------------------------------------
(* Leases are exclusive.                                                     *)

\* A step that issues no receipt, activates none and keeps every active one in
\* line with its message row preserves LeaseExclusive.
LEMMA ExclusiveKept ==
  ASSUME TypeInv, LeaseExclusive,
         DOMAIN receipts' = DOMAIN receipts,
         \A h \in DOMAIN receipts :
           /\ receipts'[h].message = receipts[h].message
           /\ receipts'[h].queue = receipts[h].queue
           /\ receipts'[h].active => receipts[h].active,
         \A h \in DOMAIN receipts :
           LET r == receipts[h].message IN
           receipts'[h].active /\ ~messages'[r].deleted =>
             /\ ~messages[r].deleted
             /\ messages'[r].queue = messages[r].queue
             /\ \/ messages'[r].visibilityDeadline = receipts'[h].visibilityDeadline
                \/ /\ messages'[r].visibilityDeadline = messages[r].visibilityDeadline
                   /\ receipts'[h].visibilityDeadline = receipts[h].visibilityDeadline
  PROVE  LeaseExclusive'
<1>1. OneActiveReceipt'
  BY DEF LeaseExclusive, OneActiveReceipt
<1>2. ReceiptAgrees'
  BY DEF LeaseExclusive, ReceiptAgrees
<1> QED
  BY <1>1, <1>2 DEF LeaseExclusive

LEMMA ExclusiveUnchanged ==
  ASSUME TypeInv, LeaseExclusive, UNCHANGED <<messages, receipts>>
  PROVE  LeaseExclusive'
BY DEF LeaseExclusive, OneActiveReceipt, ReceiptAgrees

\* An expired row loses its receipts; a purged one is deleted.
LEMMA ExclusiveMaintain ==
  ASSUME TypeInv, LeaseExclusive, maintain(clock)
  PROVE  LeaseExclusive'
<1>1. TypeOK /\ ReceiptsRefer /\ clock \in Nat
  BY DEF TypeInv, TypeOK
<1>2. /\ DOMAIN messages' = DOMAIN messages
      /\ \A r \in DOMAIN messages :
              /\ messages'[r].queue = messages[r].queue
              /\ messages[r].deleted => messages'[r].deleted
              /\ r \in ExpiredAt(clock) => messages'[r].deleted
              /\ r \notin ExpiredAt(clock) =>
                   messages'[r].visibilityDeadline = messages[r].visibilityDeadline
      /\ receipts' = ReceiptsDeactivated(ExpiredAt(clock))
  BY <1>1, MaintainTables
<1>3. /\ DOMAIN receipts' = DOMAIN receipts
      /\ \A h \in DOMAIN receipts :
           /\ receipts'[h].message = receipts[h].message
           /\ receipts'[h].queue = receipts[h].queue
           /\ receipts'[h].visibilityDeadline = receipts[h].visibilityDeadline
           /\ receipts'[h].active => receipts[h].active
  BY <1>1, <1>2, DeactivatedTable
<1>4. \A h \in DOMAIN receipts : receipts[h].message \in DOMAIN messages
  BY <1>1 DEF ReceiptsRefer
<1> QED
  BY <1>2, <1>3, <1>4, ExclusiveKept

\* A new row has no receipts.
LEMMA ExclusiveSend ==
  ASSUME TypeInv, LeaseExclusive, NEW p \in Requests, sendMessageEntry(p)
  PROVE  LeaseExclusive'
<1>1. UNCHANGED receipts
  BY DEF sendMessageEntry
<1>2. \A r \in DOMAIN messages : messages'[r] = messages[r]
  <2>1. messages \in Seq(Message)
    BY DEF TypeInv, TypeOK
  <2>2. CASE UNCHANGED messages
    BY <2>2
  <2>3. ASSUME NEW m, messages' = Append(messages, m)
        PROVE  \A r \in DOMAIN messages : messages'[r] = messages[r]
    BY <2>1, <2>3
  <2> QED
    BY <2>2, <2>3 DEF sendMessageEntry, InsertMessage, NewSend
<1>3. \A h \in DOMAIN receipts : receipts[h].message \in DOMAIN messages
  BY DEF TypeInv, ReceiptsRefer
<1>4. OneActiveReceipt'
  BY <1>1 DEF LeaseExclusive, OneActiveReceipt
<1>5. ReceiptAgrees'
  BY <1>1, <1>2, <1>3 DEF LeaseExclusive, ReceiptAgrees
<1> QED
  BY <1>4, <1>5 DEF LeaseExclusive

\* Deadlines move together, because the row has one active receipt.
LEMMA ExclusiveDeadlines ==
  ASSUME TypeInv, LeaseExclusive, NEW H, NEW d \in Nat, SetDeadlines(H, d),
         \A h \in H : h \in DOMAIN receipts /\ receipts[h].active
  PROVE  LeaseExclusive'
<1>1. TypeOK /\ ReceiptsRefer
  BY DEF TypeInv
<1>2. /\ DOMAIN receipts' = DOMAIN receipts
      /\ \A r \in DOMAIN messages :
              /\ messages'[r].queue = messages[r].queue
              /\ messages'[r].deleted = messages[r].deleted
              /\ messages'[r].visibilityDeadline =
                   IF \E h \in H : receipts[h].message = r
                     THEN d ELSE messages[r].visibilityDeadline
      /\ \A h \in DOMAIN receipts :
              /\ receipts'[h].queue = receipts[h].queue
              /\ receipts'[h].message = receipts[h].message
              /\ receipts'[h].active = receipts[h].active
              /\ receipts'[h].visibilityDeadline =
                   IF h \in H THEN d ELSE receipts[h].visibilityDeadline
  BY <1>1, DeadlineTables
<1>3. \A h \in DOMAIN receipts : receipts[h].message \in DOMAIN messages
  BY <1>1 DEF ReceiptsRefer
<1>4. ASSUME NEW h \in DOMAIN receipts, receipts[h].active
      PROVE  (\E g \in H : receipts[g].message = receipts[h].message) <=> h \in H
  BY <1>4 DEF LeaseExclusive, OneActiveReceipt
<1>5. ASSUME NEW h \in DOMAIN receipts, receipts[h].active
      PROVE  LET r == receipts[h].message IN
             \/ messages'[r].visibilityDeadline = receipts'[h].visibilityDeadline
             \/ /\ messages'[r].visibilityDeadline = messages[r].visibilityDeadline
                /\ receipts'[h].visibilityDeadline = receipts[h].visibilityDeadline
  BY <1>2, <1>3, <1>4, <1>5
<1> QED
  BY <1>2, <1>3, <1>5, ExclusiveKept

\* A redriven row loses its receipts.
LEMMA ExclusiveRedrive ==
  ASSUME TypeInv, LeaseExclusive, NEW p \in Requests, RedriveRound(p)
  PROVE  LeaseExclusive'
<1> DEFINE q == reqs[p].queue
           now == reqs[p].now
<1>1. TypeOK /\ ReceiptsRefer
  BY DEF TypeInv
<1>2. q \in Queues /\ now \in Nat
  BY <1>1, RequestKinds DEF RedriveRound, ReceiveRequest
<1>3. PICK R : RedriveTarget[q] # NoQueue /\ redriveMessage(q, R, now)
  BY DEF RedriveRound, shouldRedrive
<1>4. CASE UNCHANGED <<messages, receipts>>
  BY <1>4, ExclusiveUnchanged
<1>5. CASE ~UNCHANGED <<messages, receipts>>
  <2>1. /\ receipts' = ReceiptsDeactivated(R)
        /\ \A r \in DOMAIN messages : r \notin R => messages'[r] = messages[r]
    BY <1>1, <1>2, <1>3, <1>5, RedriveTables
  <2>2. /\ DOMAIN receipts' = DOMAIN receipts
        /\ \A h \in DOMAIN receipts :
             /\ receipts'[h].message = receipts[h].message
             /\ receipts'[h].queue = receipts[h].queue
             /\ receipts'[h].visibilityDeadline = receipts[h].visibilityDeadline
             /\ receipts'[h].active =>
                  receipts[h].active /\ receipts[h].message \notin R
    BY <1>1, <2>1, DeactivatedTable
  <2>3. \A h \in DOMAIN receipts : receipts[h].message \in DOMAIN messages
    BY <1>1 DEF ReceiptsRefer
  <2> QED
    BY <2>1, <2>2, <2>3, ExclusiveKept
<1> QED
  BY <1>4, <1>5

\* The old receipts of the leased rows are void and the new ones are for
\* distinct rows.
LEMMA ExclusiveLease ==
  ASSUME TypeInv, LeaseExclusive, NEW p \in Requests, LeaseCandidates(p)
  PROVE  LeaseExclusive'
<1> DEFINE q == reqs[p].queue
           vis == reqs[p].vis
           n == Len(receipts)
<1>1. TypeOK /\ ReceiptsRefer /\ clock \in Nat
  BY DEF TypeInv, TypeOK
<1>2. q \in Queues /\ vis \in Nat /\ reqs[p].max \in Nat /\ n \in Nat
  BY <1>1, RequestKinds, RowTypes DEF LeaseCandidates, ReceiveRequest
<1>3. PICK c \in candidateMessages(q, reqs[p].max, reqs[p].now) : Lease(q, c, vis)
  BY DEF LeaseCandidates
<1>4. PICK k \in Nat : Selected(q, k, c)
  BY <1>1, <1>2, CandidateFacts
<1>5. c \in [1 .. k -> DOMAIN messages]
  BY <1>4 DEF Selected
<1>6. LeaseEffect(q, k, c, vis)
  BY <1>1, <1>2, <1>3, <1>5, LeaseTables
<1>7. \A i \in 1 .. k : c[i] \in Rows(c, k) /\ c[i] \in DOMAIN messages
  BY <1>5 DEF Rows
<1>8. ASSUME NEW h \in 1 .. n
      PROVE  /\ receipts'[h].message = receipts[h].message
             /\ receipts'[h].queue = receipts[h].queue
             /\ receipts'[h].visibilityDeadline = receipts[h].visibilityDeadline
             /\ receipts'[h].active =>
                  receipts[h].active /\ receipts[h].message \notin Rows(c, k)
             /\ receipts[h].message \in DOMAIN messages
  <2>1. h \in DOMAIN receipts
    BY <1>1, RowTypes
  <2>2. receipts'[h] = ReceiptsDeactivated(Rows(c, k))[h]
    BY <1>6 DEF LeaseEffect
  <2>3. receipts[h].message \in DOMAIN messages
    BY <1>1, <2>1 DEF ReceiptsRefer
  <2> QED
    BY <1>1, <2>1, <2>2, <2>3, DeactivatedTable
<1>9. ASSUME NEW h \in (n + 1) .. (n + k)
      PROVE  /\ h - n \in 1 .. k
             /\ receipts'[h].message = c[h - n]
             /\ receipts'[h].queue = q
             /\ receipts'[h].visibilityDeadline = clock + vis
             /\ receipts'[h].message \in Rows(c, k)
  <2>1. /\ h - n \in 1 .. k
        /\ receipts'[h] = [queue |-> q, message |-> c[h - n], issuedAt |-> clock,
                           visibilityDeadline |-> clock + vis, active |-> TRUE]
    BY <1>6 DEF LeaseEffect
  <2> QED
    BY <1>7, <2>1
<1>10. DOMAIN receipts' = 1 .. (n + k) /\ DOMAIN receipts = 1 .. n
  BY <1>1, <1>6, RowTypes DEF LeaseEffect
<1>11. \A h \in DOMAIN receipts' : h \in 1 .. n \/ h \in (n + 1) .. (n + k)
  BY <1>2, <1>10
<1>12. OneActiveReceipt'
  <2> SUFFICES ASSUME NEW h \in DOMAIN receipts', NEW g \in DOMAIN receipts',
                      receipts'[h].active, receipts'[g].active,
                      receipts'[h].message = receipts'[g].message
               PROVE  h = g
    BY DEF OneActiveReceipt
  <2>1. CASE h \in 1 .. n /\ g \in 1 .. n
    BY <1>8, <1>10, <2>1 DEF LeaseExclusive, OneActiveReceipt
  <2>2. CASE h \in 1 .. n /\ g \in (n + 1) .. (n + k)
    BY <1>8, <1>9, <2>2
  <2>3. CASE h \in (n + 1) .. (n + k) /\ g \in 1 .. n
    BY <1>8, <1>9, <2>3
  <2>4. CASE h \in (n + 1) .. (n + k) /\ g \in (n + 1) .. (n + k)
    <3>1. h - n \in 1 .. k /\ g - n \in 1 .. k /\ c[h - n] = c[g - n]
      BY <1>9, <2>4
    <3>2. h - n = g - n
      BY <1>4, <3>1 DEF Selected
    <3> QED
      BY <1>2, <2>4, <3>2
  <2> QED
    BY <1>11, <2>1, <2>2, <2>3, <2>4
<1>13. ReceiptAgrees'
  <2> SUFFICES ASSUME NEW h \in DOMAIN receipts',
                      receipts'[h].active, ~messages'[receipts'[h].message].deleted
               PROVE  /\ messages'[receipts'[h].message].queue = receipts'[h].queue
                      /\ messages'[receipts'[h].message].visibilityDeadline
                           = receipts'[h].visibilityDeadline
    BY DEF ReceiptAgrees
  <2>1. CASE h \in 1 .. n
    <3>1. messages'[receipts[h].message] = messages[receipts[h].message]
      BY <1>6, <1>8, <2>1 DEF LeaseEffect
    <3> QED
      BY <1>8, <1>10, <2>1, <3>1 DEF LeaseExclusive, ReceiptAgrees
  <2>2. CASE h \in (n + 1) .. (n + k)
    <3>1. /\ receipts'[h].message = c[h - n] /\ h - n \in 1 .. k
          /\ receipts'[h].queue = q
          /\ receipts'[h].visibilityDeadline = clock + vis
      BY <1>9, <2>2
    <3>2. c[h - n] \in DOMAIN messages /\ c[h - n] \in Rows(c, k)
      BY <1>7, <3>1
    <3>3. /\ messages'[c[h - n]].visibilityDeadline = clock + vis
          /\ messages'[c[h - n]].queue = messages[c[h - n]].queue
      BY <1>6, <3>2 DEF LeaseEffect
    <3>4. messages[c[h - n]].queue = q
      BY <1>4, <3>1 DEF Selected
    <3> QED
      BY <3>1, <3>3, <3>4
  <2> QED
    BY <1>11, <2>1, <2>2
<1> QED
  BY <1>12, <1>13 DEF LeaseExclusive

LEMMA ExclusiveDelete ==
  ASSUME TypeInv, LeaseExclusive, NEW p \in Requests, deleteByReceiptHandle(p)
  PROVE  LeaseExclusive'
<1> DEFINE h == Head(reqs[p].handles)
           r == receipts[h].message
<1>1. TypeOK /\ ReceiptsRefer
  BY DEF TypeInv
<1>2. CASE UNCHANGED <<messages, receipts>>
  BY <1>2, ExclusiveUnchanged
<1>3. CASE HandleUsable(reqs[p].queue, h, reqs[p].now)
  <2>1. h \in DOMAIN receipts /\ r \in DOMAIN messages
    BY <1>1, <1>3 DEF HandleUsable, ReceiptsRefer
  <2>2. receipts' = [receipts EXCEPT ![h].active = FALSE]
    BY <1>3 DEF deleteByReceiptHandle
  <2>3. /\ DOMAIN receipts' = DOMAIN receipts
        /\ \A g \in DOMAIN receipts :
              /\ receipts'[g].queue = receipts[g].queue
              /\ receipts'[g].message = receipts[g].message
              /\ receipts'[g].visibilityDeadline = receipts[g].visibilityDeadline
              /\ receipts'[g].active => receipts[g].active
    BY <1>1, <2>1, <2>2, ReceiptRetired
  <2>4. \A s \in DOMAIN messages : messages'[s].deleted \/ messages'[s] = messages[s]
    <3>1. CASE messages' = messages
      BY <3>1
    <3>2. CASE messages' = [messages EXCEPT ![r].deleted = TRUE,
                                            ![r].visibilityDeadline = 0]
      BY <1>1, <2>1, <3>2, RowRemoved
    <3> QED
      BY <1>3, <3>1, <3>2 DEF deleteByReceiptHandle
  <2>5. \A g \in DOMAIN receipts : receipts[g].message \in DOMAIN messages
    BY <1>1 DEF ReceiptsRefer
  <2> QED
    BY <2>3, <2>4, <2>5, ExclusiveKept
<1> QED
  BY <1>2, <1>3 DEF deleteByReceiptHandle

LEMMA ExclusiveReplay ==
  ASSUME TypeInv, LeaseExclusive, NEW p \in Requests, replayReceiveAttempt(p)
  PROVE  LeaseExclusive'
<1>1. reqs[p].now + reqs[p].vis \in Nat
  BY RequestKinds DEF TypeInv, replayReceiveAttempt, ReceiveRequest
<1>2. CASE UNCHANGED <<messages, receipts>>
  BY <1>2, ExclusiveUnchanged
<1>3. ASSUME NEW a, NEW k,
             \A i \in 1 .. k : Replayable(reqs[p].queue, a.response[i], reqs[p].now),
             SetDeadlines({a.response[i] : i \in 1 .. k}, reqs[p].now + reqs[p].vis)
      PROVE  LeaseExclusive'
  <2> DEFINE H == {a.response[i] : i \in 1 .. k}
  <2>1. \A h \in H : h \in DOMAIN receipts /\ receipts[h].active
    BY <1>3 DEF Replayable
  <2>2. SetDeadlines(H, reqs[p].now + reqs[p].vis)
    BY <1>3
  <2> HIDE DEF H
  <2> QED
    BY <1>1, <2>1, <2>2, ExclusiveDeadlines
<1> QED
  BY <1>2, <1>3 DEF replayReceiveAttempt

LEMMA ExclusiveChange ==
  ASSUME TypeInv, LeaseExclusive, NEW p \in Requests, changeVisibilityByReceiptHandle(p)
  PROVE  LeaseExclusive'
<1> DEFINE h == Head(reqs[p].changes).handle
           timeout == Head(reqs[p].changes).timeout
<1>1. reqs[p].now + timeout \in Nat
  <2>1. reqs[p] \in ChangeRequest /\ reqs[p].changes # << >>
    <3>1. reqs[p].op = "change"
      BY DEF changeVisibilityByReceiptHandle
    <3> QED
      BY <3>1, RequestKinds DEF TypeInv, BatchesNonEmpty
  <2>2. reqs[p].changes \in Seq(Change) /\ reqs[p].now \in Nat
    BY <2>1 DEF ChangeRequest
  <2>3. Head(reqs[p].changes) \in Change
    BY <2>1, <2>2, HeadTailProperties
  <2> QED
    BY <2>2, <2>3 DEF Change
<1>2. CASE UNCHANGED <<messages, receipts>>
  BY <1>2, ExclusiveUnchanged
<1>3. CASE /\ HandleUsable(reqs[p].queue, h, reqs[p].now)
           /\ SetDeadlines({h}, reqs[p].now + timeout)
  <2>1. \A g \in {h} : g \in DOMAIN receipts /\ receipts[g].active
    BY <1>3 DEF HandleUsable
  <2> QED
    BY <1>1, <1>3, <2>1, ExclusiveDeadlines
<1> QED
  BY <1>2, <1>3 DEF changeVisibilityByReceiptHandle

LEMMA ExclusiveStep == TypeInv /\ LeaseExclusive /\ [SectionNext]_planeVars => LeaseExclusive'
<1> SUFFICES ASSUME TypeInv, LeaseExclusive, [SectionNext]_planeVars PROVE LeaseExclusive'
  OBVIOUS
<1>1. CASE UNCHANGED planeVars
  BY <1>1, ExclusiveUnchanged DEF planeVars
<1>2. ASSUME NEW p \in Requests, StartRequest(p)
      PROVE  LeaseExclusive'
  <2>1. maintain(clock)
    BY <1>2, QueueAssumption DEF StartRequest, SendMessageBatch, ReceiveMessage, DeleteMessageBatch,
                ChangeMessageVisibilityBatch, Begin
  <2> QED
    BY <2>1, ExclusiveMaintain
<1>3. ASSUME NEW p \in Requests, Proceed(p) \/ Disconnect(p)
      PROVE  LeaseExclusive'
  <2>1. CASE ReceiveLoop(p)
    BY <2>1, ExclusiveMaintain DEF ReceiveLoop
  <2>2. CASE ReceiveNothing(p) \/ PollWake(p) \/ Disconnect(p)
    BY <2>2, ExclusiveUnchanged DEF ReceiveNothing, PollWake, Disconnect
  <2> QED
    BY <1>3, <2>1, <2>2, ExclusiveSend, ExclusiveReplay, ExclusiveRedrive,
       ExclusiveLease, ExclusiveDelete, ExclusiveChange DEF Proceed
<1>4. CASE Tick \/ (\E q \in PurgeableQueues : PurgeQueue(q))
                \/ (\E q \in DeletableQueues : DeleteQueue(q))
  BY <1>4, ExclusiveUnchanged DEF Tick, PurgeQueue, DeleteQueue
<1>5. CASE RefusedRequest
  BY <1>5, ExclusiveMaintain DEF RefusedRequest
<1> QED
  BY <1>1, <1>2, <1>3, <1>4, <1>5 DEF SectionNext

\* As long as the statements of two sections do not interleave:
\* A lease is exclusive whatever the number of requests and the values of their
\* stale clocks: no message ever has two active receipts, and the active one
\* agrees with the row that hides the message from the other consumers
\* (ReceiveMessage, replayReceiveAttempt, changeVisibilityByReceiptHandle,
\* deleteByReceiptHandle, redriveMessage and reapQueue together).
LEMMA ExclusiveApart == SectionSpec => []LeaseExclusive
<1>1. SectionInit => LeaseExclusive
  BY DEF SectionInit, LeaseExclusive, OneActiveReceipt, ReceiptAgrees
<1> QED
  BY <1>1, TypeInit, TypeStep, ExclusiveStep, PTL DEF SectionSpec

-----------------------------------------------------------------------------
(* No message is lost silently.                                              *)

\* The reasons for which a section can remove row r; the receipt of a delete need
\* not belong to the queue the row is in.
LossCaused(r) ==
  \/ messages[r].retentionDeadline <= clock
  \/ purgeExpires[messages[r].queue] >= messages[r].sentAt
  \/ \E p \in Requests :
       /\ reqs[p].op = "delete"
       /\ HandleUsable(reqs[p].queue, Head(reqs[p].handles), reqs[p].now)
       /\ receipts[Head(reqs[p].handles)].message = r

\* The steps that delete a row, each with its reason.
LEMMA LossCauses ==
  ASSUME TypeInv, [SectionNext]_planeVars,
         NEW r \in DOMAIN messages, ~messages[r].deleted, messages'[r].deleted
  PROVE  LossCaused(r)
<1>1. TypeOK /\ ReceiptsRefer /\ clock \in Nat
  BY DEF TypeInv, TypeOK
<1>2. ASSUME maintain(clock)
      PROVE  LossCaused(r)
  <2>1. r \in ExpiredAt(clock) \/ r \in PurgedRows
    BY <1>1, <1>2, MaintainTables
  <2> QED
    BY <1>1, <2>1, RowTypes DEF ExpiredAt, PurgedRows, LossCaused, TypeOK, Message
<1>3. CASE messages' = messages
  BY <1>3
<1>4. ASSUME NEW p \in Requests, StartRequest(p)
      PROVE  LossCaused(r)
  BY <1>2, <1>4, QueueAssumption DEF StartRequest, SendMessageBatch, ReceiveMessage, DeleteMessageBatch,
                    ChangeMessageVisibilityBatch, Begin
<1>5. ASSUME NEW p \in Requests, sendMessageEntry(p)
      PROVE  messages'[r] = messages[r]
  <2>1. messages \in Seq(Message)
    BY <1>1 DEF TypeOK
  <2>2. ASSUME NEW m, messages' = Append(messages, m)
        PROVE  messages'[r] = messages[r]
    BY <2>1, <2>2
  <2> QED
    BY <1>5, <2>2 DEF sendMessageEntry, InsertMessage, NewSend
<1>6. ASSUME NEW p \in Requests, replayReceiveAttempt(p)
      PROVE  messages'[r].deleted = messages[r].deleted
  <2>1. reqs[p].now + reqs[p].vis \in Nat
    BY <1>1, <1>6, RequestKinds DEF replayReceiveAttempt, ReceiveRequest
  <2>2. ASSUME NEW H, SetDeadlines(H, reqs[p].now + reqs[p].vis)
        PROVE  messages'[r].deleted = messages[r].deleted
    BY <1>1, <2>1, <2>2, DeadlineTables
  <2> QED
    BY <1>6, <2>2 DEF replayReceiveAttempt
<1>7. ASSUME NEW p \in Requests, RedriveRound(p)
      PROVE  messages'[r].deleted = messages[r].deleted
  <2>1. reqs[p].queue \in Queues /\ reqs[p].now \in Nat
    BY <1>1, <1>7, RequestKinds DEF RedriveRound, ReceiveRequest
  <2>2. PICK R : /\ RedriveTarget[reqs[p].queue] # NoQueue
                 /\ redriveMessage(reqs[p].queue, R, reqs[p].now)
    BY <1>7 DEF RedriveRound, shouldRedrive
  <2> QED
    BY <1>1, <2>1, <2>2, RedriveTables
<1>8. ASSUME NEW p \in Requests, LeaseCandidates(p)
      PROVE  messages'[r].deleted = messages[r].deleted
  <2> DEFINE q == reqs[p].queue
             vis == reqs[p].vis
  <2>1. q \in Queues /\ vis \in Nat /\ reqs[p].max \in Nat
    BY <1>1, <1>8, RequestKinds DEF LeaseCandidates, ReceiveRequest
  <2>2. PICK c \in candidateMessages(q, reqs[p].max, reqs[p].now) : Lease(q, c, vis)
    BY <1>8 DEF LeaseCandidates
  <2>3. PICK k \in Nat : Selected(q, k, c)
    BY <1>1, <2>1, CandidateFacts
  <2>4. c \in [1 .. k -> DOMAIN messages]
    BY <2>3 DEF Selected
  <2>5. LeaseEffect(q, k, c, vis)
    BY <1>1, <2>1, <2>2, <2>4, LeaseTables
  <2> QED
    BY <2>5 DEF LeaseEffect
<1>9. ASSUME NEW p \in Requests, deleteByReceiptHandle(p)
      PROVE  LossCaused(r)
  <2> DEFINE h == Head(reqs[p].handles)
             s == receipts[h].message
  <2>1. /\ reqs[p].op = "delete"
        /\ HandleUsable(reqs[p].queue, h, reqs[p].now)
        /\ messages' = [messages EXCEPT ![s].deleted = TRUE, ![s].visibilityDeadline = 0]
    BY <1>9 DEF deleteByReceiptHandle
  <2>2. h \in DOMAIN receipts /\ receipts[h].active /\ s \in DOMAIN messages
    BY <1>1, <2>1 DEF HandleUsable, ReceiptsRefer
  <2>3. r = s
    BY <1>1, <2>1, <2>2, RowRemoved
  <2> QED
    BY <2>1, <2>3 DEF LossCaused
<1>10. ASSUME NEW p \in Requests, changeVisibilityByReceiptHandle(p)
       PROVE  messages'[r].deleted = messages[r].deleted
  <2> DEFINE timeout == Head(reqs[p].changes).timeout
             h == Head(reqs[p].changes).handle
  <2>1. reqs[p] \in ChangeRequest /\ reqs[p].changes # << >>
    <3>1. reqs[p].op = "change"
      BY <1>10 DEF changeVisibilityByReceiptHandle
    <3> QED
      BY <3>1, RequestKinds DEF TypeInv, BatchesNonEmpty
  <2>2. reqs[p].changes \in Seq(Change) /\ reqs[p].now \in Nat
    BY <2>1 DEF ChangeRequest
  <2>3. Head(reqs[p].changes) \in Change
    BY <2>1, <2>2, HeadTailProperties
  <2>4. reqs[p].now + timeout \in Nat
    BY <2>2, <2>3 DEF Change
  <2>5. CASE SetDeadlines({h}, reqs[p].now + timeout)
    BY <1>1, <2>4, <2>5, DeadlineTables
  <2> QED
    BY <1>10, <2>5 DEF changeVisibilityByReceiptHandle
<1>11. ASSUME NEW p \in Requests, Proceed(p) \/ Disconnect(p)
       PROVE  LossCaused(r)
  <2>1. CASE ReceiveLoop(p)
    BY <1>2, <2>1 DEF ReceiveLoop
  <2>2. CASE ReceiveNothing(p) \/ PollWake(p) \/ Disconnect(p)
    BY <1>3, <2>2 DEF ReceiveNothing, PollWake, Disconnect
  <2> QED
    BY <1>5, <1>6, <1>7, <1>8, <1>9, <1>10, <1>11, <2>1, <2>2 DEF Proceed
<1>12. CASE Tick \/ (\E q \in PurgeableQueues : PurgeQueue(q))
                 \/ (\E q \in DeletableQueues : DeleteQueue(q)) \/ UNCHANGED planeVars
  BY <1>3, <1>12 DEF Tick, PurgeQueue, DeleteQueue, planeVars
<1>13. CASE RefusedRequest
  BY <1>2, <1>13 DEF RefusedRequest
<1> QED
  BY <1>4, <1>11, <1>12, <1>13 DEF SectionNext

\* With exclusive leases the receipt of a delete is of the row's own queue.
LEMMA LossStep ==
  ASSUME TypeInv, LeaseExclusive, [SectionNext]_planeVars,
         NEW r \in DOMAIN messages, ~messages[r].deleted, messages'[r].deleted
  PROVE  LossExplained(r)
<1>1. LossCaused(r)
  BY LossCauses
<1>2. ASSUME NEW p \in Requests,
             reqs[p].op = "delete",
             HandleUsable(reqs[p].queue, Head(reqs[p].handles), reqs[p].now),
             receipts[Head(reqs[p].handles)].message = r
      PROVE  LossExplained(r)
  <2> DEFINE h == Head(reqs[p].handles)
  <2>1. h \in DOMAIN receipts /\ receipts[h].active /\ receipts[h].message = r
    BY <1>2 DEF HandleUsable
  <2>2. receipts[h].queue = messages[r].queue
    BY <2>1 DEF LeaseExclusive, ReceiptAgrees
  <2> QED
    BY <1>2, <2>1, <2>2 DEF LossExplained
<1> QED
  BY <1>1, <1>2 DEF LossCaused, LossExplained

\* As long as the statements of two sections do not interleave:
\* Every deletion of a message has a cause the code intends: end of retention,
\* a purge window, or a delete under the one active receipt of that message.
LEMMA LossApart == SectionSpec => NoSilentLoss
<1>1. TypeInv /\ LeaseExclusive /\ [SectionNext]_planeVars =>
        [\A r \in DOMAIN messages :
           ~messages[r].deleted /\ messages'[r].deleted => LossExplained(r)]_planeVars
  BY LossStep
<1>2. SectionInit => LeaseExclusive
  BY DEF SectionInit, LeaseExclusive, OneActiveReceipt, ReceiptAgrees
<1> QED
  BY <1>1, <1>2, TypeInit, TypeStep, ExclusiveStep, PTL DEF SectionSpec, NoSilentLoss

-----------------------------------------------------------------------------
(* FIFO deduplication, for every number of requests, every window and every   *)
(* interleaving of the sections.                                             *)

\* No handler works with a time that has not come yet.
NowNotAhead == \A p \in Requests : reqs[p] # Idle => reqs[p].now <= clock

\* While the window of an accepted send is open, a ledger row answers for it
\* (maintain reaps by the clock, and a row is replaced only when it had lapsed).
LedgerCovers ==
  \A a \in accepted :
    a.at + DedupWindow > clock =>
      \E x \in ledger : Matches(x, a) /\ x.expiresAt >= a.at + DedupWindow

\* Accepted sends refer to rows that exist.
AcceptedPast ==
  \A a \in accepted : a.row <= Len(messages)

DedupInv == /\ TypeInv
            /\ NowNotAhead
            /\ LedgerCovers
            /\ AcceptedPast
            /\ DedupWindowHolds

-----------------------------------------------------------------------------

\* A step that writes one handler with a time that is not ahead.
LEMMA NowWritten ==
  ASSUME TypeInv, NowNotAhead, NEW p \in Requests, NEW x,
         reqs' = [reqs EXCEPT ![p] = x], clock' = clock,
         x # Idle => x.now <= clock
  PROVE  NowNotAhead'
<1>1. reqs \in [Requests -> Request]
  BY DEF TypeInv, TypeOK
<1>2. \A s \in Requests : reqs'[s] = IF s = p THEN x ELSE reqs[s]
  BY <1>1
<1> QED
  BY <1>2 DEF NowNotAhead

\* Every step keeps the times of the handlers in the past.
LEMMA NowStep ==
  ASSUME TypeInv, NowNotAhead, [SectionNext]_planeVars
  PROVE  NowNotAhead'
<1>1. TypeOK /\ clock \in Nat /\ \A s \in Requests : reqs[s] \in Request
  BY DEF TypeInv, TypeOK
<1>2. CASE UNCHANGED <<clock, reqs>>
  BY <1>2 DEF NowNotAhead
<1>3. CASE Tick
  <2>1. UNCHANGED reqs /\ clock' = clock + 1
    BY <1>3 DEF Tick
  <2>2. \A s \in Requests : reqs[s] # Idle => reqs[s].now \in Nat
    BY <1>1 DEF Request, SendRequest, DeleteRequest, ChangeRequest, ReceiveRequest
  <2> QED
    BY <1>1, <2>1, <2>2 DEF NowNotAhead
<1>4. ASSUME NEW p \in Requests, NEW q, NEW x, x.now = clock, Begin(p, q, x)
      PROVE  NowNotAhead'
  <2> DEFINE y == IF QueueExists(q) THEN x ELSE Idle
  <2>1. reqs' = [reqs EXCEPT ![p] = y] /\ clock' = clock
    BY <1>4 DEF Begin
  <2>2. y # Idle => y.now <= clock
    BY <1>1, <1>4
  <2> HIDE DEF y
  <2> QED
    BY <2>1, <2>2, NowWritten
<1>5. ASSUME NEW p \in Requests, StartRequest(p)
      PROVE  NowNotAhead'
  BY <1>4, <1>5, QueueAssumption DEF StartRequest, SendMessageBatch, ReceiveMessage, DeleteMessageBatch,
                    ChangeMessageVisibilityBatch
<1>6. ASSUME NEW p \in Requests, Return(p), clock' = clock
      PROVE  NowNotAhead'
  BY <1>6, NowWritten DEF Return
<1>7. ASSUME NEW p \in Requests, reqs[p] # Idle, NEW x, x.now = reqs[p].now,
             reqs' = [reqs EXCEPT ![p] = x], clock' = clock
      PROVE  NowNotAhead'
  <2>1. x.now <= clock
    BY <1>7 DEF NowNotAhead
  <2> QED
    BY <1>7, <2>1, NowWritten
<1>8. ASSUME NEW p \in Requests, sendMessageEntry(p)
      PROVE  NowNotAhead'
  <2>1. reqs[p] \in SendRequest /\ reqs[p] # Idle /\ clock' = clock
    <3>1. reqs[p].op = "send" /\ clock' = clock
      BY <1>8 DEF sendMessageEntry
    <3> QED
      BY <1>1, <3>1, RequestKinds DEF Idle
  <2> DEFINE rest == [reqs[p] EXCEPT !.entries = Tail(reqs[p].entries)]
  <2>2. rest.now = reqs[p].now
    BY <2>1 DEF SendRequest
  <2>3. Return(p) \/ reqs' = [reqs EXCEPT ![p] = rest]
    BY <1>8 DEF sendMessageEntry, NextEntry, Return
  <2> HIDE DEF rest
  <2> QED
    BY <1>6, <1>7, <2>1, <2>2, <2>3
<1>9. ASSUME NEW p \in Requests, deleteByReceiptHandle(p)
      PROVE  NowNotAhead'
  <2>1. reqs[p] \in DeleteRequest /\ reqs[p] # Idle /\ clock' = clock
    <3>1. reqs[p].op = "delete" /\ clock' = clock
      BY <1>9 DEF deleteByReceiptHandle
    <3> QED
      BY <1>1, <3>1, RequestKinds DEF Idle
  <2> DEFINE rest == [reqs[p] EXCEPT !.handles = Tail(reqs[p].handles)]
  <2>2. rest.now = reqs[p].now
    BY <2>1 DEF DeleteRequest
  <2>3. Return(p) \/ reqs' = [reqs EXCEPT ![p] = rest]
    BY <1>9 DEF deleteByReceiptHandle, NextEntry, Return
  <2> HIDE DEF rest
  <2> QED
    BY <1>6, <1>7, <2>1, <2>2, <2>3
<1>10. ASSUME NEW p \in Requests, changeVisibilityByReceiptHandle(p)
       PROVE  NowNotAhead'
  <2>1. reqs[p] \in ChangeRequest /\ reqs[p] # Idle /\ clock' = clock
    <3>1. reqs[p].op = "change" /\ clock' = clock
      BY <1>10 DEF changeVisibilityByReceiptHandle
    <3> QED
      BY <1>1, <3>1, RequestKinds DEF Idle
  <2> DEFINE rest == [reqs[p] EXCEPT !.changes = Tail(reqs[p].changes)]
  <2>2. rest.now = reqs[p].now
    BY <2>1 DEF ChangeRequest
  <2>3. Return(p) \/ reqs' = [reqs EXCEPT ![p] = rest]
    BY <1>10 DEF changeVisibilityByReceiptHandle, NextEntry, Return
  <2> HIDE DEF rest
  <2> QED
    BY <1>6, <1>7, <2>1, <2>2, <2>3
<1>11. ASSUME NEW p \in Requests, reqs[p].op \in {"replay", "loop", "select", "sleep"},
              NEW pc, Goto(p, pc), clock' = clock
       PROVE  NowNotAhead'
  <2>1. reqs[p] \in ReceiveRequest /\ reqs[p] # Idle
    BY <1>1, <1>11, RequestKinds DEF Idle
  <2> DEFINE x == [reqs[p] EXCEPT !.op = pc]
  <2>2. x.now = reqs[p].now /\ reqs' = [reqs EXCEPT ![p] = x]
    BY <1>11, <2>1 DEF Goto, ReceiveRequest
  <2> HIDE DEF x
  <2> QED
    BY <1>7, <1>11, <2>1, <2>2
<1>12. ASSUME NEW p \in Requests, ReceiveNothing(p)
       PROVE  NowNotAhead'
  <2>1. reqs[p] \in ReceiveRequest /\ reqs[p] # Idle /\ clock' = clock
    BY <1>1, <1>12, RequestKinds DEF ReceiveNothing, Idle
  <2> DEFINE x == [reqs[p] EXCEPT !.op = "sleep",
                     !.wakeAt = MinOf(clock + WakeFrequency, reqs[p].deadline)]
  <2>2. x.now = reqs[p].now
    BY <2>1 DEF ReceiveRequest
  <2>3. Return(p) \/ reqs' = [reqs EXCEPT ![p] = x]
    BY <1>12 DEF ReceiveNothing
  <2> HIDE DEF x
  <2> QED
    BY <1>6, <1>7, <2>1, <2>2, <2>3
<1>13. ASSUME NEW p \in Requests, PollWake(p)
       PROVE  NowNotAhead'
  <2>1. reqs[p] \in ReceiveRequest /\ clock' = clock
    BY <1>1, <1>13, RequestKinds DEF PollWake
  <2> DEFINE x == [reqs[p] EXCEPT !.op = "loop", !.now = clock]
  <2>2. x.now = clock /\ reqs' = [reqs EXCEPT ![p] = x]
    BY <1>13, <2>1 DEF PollWake, ReceiveRequest
  <2>3. x.now <= clock
    BY <1>1, <2>2
  <2> HIDE DEF x
  <2> QED
    BY <2>1, <2>2, <2>3, NowWritten
<1>14. ASSUME NEW p \in Requests, Proceed(p) \/ Disconnect(p)
       PROVE  NowNotAhead'
  <2>1. CASE replayReceiveAttempt(p)
    BY <1>6, <1>11, <2>1 DEF replayReceiveAttempt
  <2>2. CASE ReceiveLoop(p)
    BY <1>6, <1>11, <2>2 DEF ReceiveLoop
  <2>3. CASE RedriveRound(p)
    BY <1>2, <2>3 DEF RedriveRound
  <2>4. CASE LeaseCandidates(p)
    BY <1>6, <2>4 DEF LeaseCandidates
  <2>5. CASE Disconnect(p)
    BY <1>6, <2>5 DEF Disconnect
  <2> QED
    BY <1>8, <1>9, <1>10, <1>12, <1>13, <1>14, <2>1, <2>2, <2>3, <2>4, <2>5 DEF Proceed
<1>15. CASE \/ RefusedRequest
            \/ \E q \in PurgeableQueues : PurgeQueue(q)
            \/ \E q \in DeletableQueues : DeleteQueue(q)
            \/ UNCHANGED planeVars
  BY <1>2, <1>15 DEF RefusedRequest, PurgeQueue, DeleteQueue, planeVars
<1> QED
  BY <1>3, <1>5, <1>14, <1>15 DEF SectionNext

-----------------------------------------------------------------------------

\* A step that accepts no send and keeps the ledger rows that have not lapsed.
LEMMA DedupKept ==
  ASSUME DedupInv, accepted' = accepted, Len(messages') = Len(messages),
         clock' \in Nat, clock' >= clock,
         \A x \in ledger : x.expiresAt > clock' => x \in ledger'
  PROVE  LedgerCovers' /\ AcceptedPast' /\ DedupWindowHolds'
<1>1. /\ clock \in Nat /\ accepted \in SUBSET Send /\ ledger \in SUBSET LedgerEntry
      /\ DedupWindow \in Nat
  BY TimeAssumption DEF DedupInv, TypeInv, TypeOK
<1>2. LedgerCovers'
  <2> SUFFICES ASSUME NEW a \in accepted, a.at + DedupWindow > clock'
               PROVE  \E x \in ledger' : Matches(x, a) /\ x.expiresAt >= a.at + DedupWindow
    BY DEF LedgerCovers
  <2>1. a.at \in Nat
    BY <1>1 DEF Send
  <2>2. PICK x \in ledger : Matches(x, a) /\ x.expiresAt >= a.at + DedupWindow
    BY <1>1, <2>1 DEF DedupInv, LedgerCovers
  <2>3. x.expiresAt \in Nat
    BY <1>1 DEF LedgerEntry
  <2> QED
    BY <1>1, <2>1, <2>2, <2>3
<1>3. AcceptedPast' /\ DedupWindowHolds'
  BY DEF DedupInv, AcceptedPast, DedupWindowHolds
<1> QED
  BY <1>2, <1>3

\* The maintenance pass reaps lapsed ledger rows only.
LEMMA DedupMaintain ==
  ASSUME DedupInv, maintain(clock), UNCHANGED <<clock, accepted>>
  PROVE  LedgerCovers' /\ AcceptedPast' /\ DedupWindowHolds'
<1>1. TypeOK /\ clock \in Nat
  BY DEF DedupInv, TypeInv, TypeOK
<1>2. Len(messages') = Len(messages) /\ ledger' = {e \in ledger : e.expiresAt > clock}
  BY <1>1, MaintainTables
<1> QED
  BY <1>1, <1>2, DedupKept

\* An accepted send finds no open window of its key, because such a window
\* would have had its ledger row.
LEMMA DedupSend ==
  ASSUME DedupInv, NEW p \in Requests, sendMessageEntry(p)
  PROVE  LedgerCovers' /\ AcceptedPast' /\ DedupWindowHolds'
<1> DEFINE q == reqs[p].queue
           e == Head(reqs[p].entries)
           now == reqs[p].now
           row == Len(messages) + 1
           b == [queue |-> q, scope |-> dedupScopeKey(q, e), dedup |-> EffectiveDedup(e),
                 row |-> row, at |-> now, clk |-> clock]
           y == [queue |-> q, scope |-> dedupScopeKey(q, e), dedup |-> EffectiveDedup(e),
                 row |-> row, expiresAt |-> now + DedupWindow]
<1>1. /\ TypeOK /\ clock \in Nat /\ accepted \in SUBSET Send
      /\ ledger \in SUBSET LedgerEntry /\ DedupWindow \in Nat \ {0}
      /\ messages \in Seq(Message) /\ Len(messages) \in Nat
  BY TimeAssumption DEF DedupInv, TypeInv, TypeOK
<1>2. now \in Nat /\ now <= clock
  <2>1. reqs[p] \in SendRequest /\ reqs[p] # Idle
    BY <1>1, RequestKinds DEF sendMessageEntry, Idle
  <2> QED
    BY <2>1 DEF SendRequest, DedupInv, NowNotAhead
<1>3. UNCHANGED clock
  BY DEF sendMessageEntry
<1>4. CASE UNCHANGED <<messages, ledger, accepted>>
  BY <1>1, <1>3, <1>4, DedupKept
<1>5. CASE q \notin FifoQueues /\ InsertMessage(q, e, now)
  <2>1. UNCHANGED <<ledger, accepted>> /\ messages' = Append(messages, NewMessage(q, e, now))
    BY <1>5 DEF InsertMessage, NewSend
  <2>2. Len(messages') = Len(messages) + 1
    BY <1>1, <2>1
  <2>3. AcceptedPast'
    BY <1>1, <2>1, <2>2 DEF DedupInv, AcceptedPast, Send
  <2>4. LedgerCovers' /\ DedupWindowHolds'
    BY <1>3, <2>1 DEF DedupInv, LedgerCovers, DedupWindowHolds
  <2> QED
    BY <2>3, <2>4
<1>6. CASE q \in FifoQueues /\ ~Duplicate(q, e, now) /\ InsertMessage(q, e, now)
  <2>1. /\ messages' = Append(messages, NewMessage(q, e, now))
        /\ ledger' = {x \in ledger : ~Matches(x, LedgerKey(q, e))} \cup {y}
        /\ accepted' = accepted \cup {b}
    BY <1>6 DEF InsertMessage, NewSend, NewLedger
  <2>2. Len(messages') = row /\ row \in Nat
    BY <1>1, <2>1
  <2>3. \A x : Matches(x, LedgerKey(q, e)) <=> Matches(x, b)
    BY DEF Matches, LedgerKey
  <2>4. Matches(y, b) /\ y.expiresAt = now + DedupWindow
    BY DEF Matches
  <2>5. b.row = row /\ b.at = now /\ b.clk = clock
    OBVIOUS
  <2>6. \A x \in ledger : Matches(x, b) => ~(x.expiresAt > now)
    BY <1>6, <2>3 DEF Duplicate
  <2> HIDE DEF b, y
  <2>7. ASSUME NEW a \in accepted, Matches(a, b)
        PROVE  a.at + DedupWindow <= clock
    <3>1. a.at \in Nat
      BY <1>1 DEF Send
    <3>2. SUFFICES ASSUME a.at + DedupWindow > clock PROVE FALSE
      BY <1>1, <3>1
    <3>3. PICK x \in ledger : Matches(x, a) /\ x.expiresAt >= a.at + DedupWindow
      BY <3>2 DEF DedupInv, LedgerCovers
    <3>4. x.expiresAt \in Nat
      BY <1>1 DEF LedgerEntry
    <3>5. Matches(x, b)
      BY <2>7, <3>3 DEF Matches
    <3>6. ~(x.expiresAt > now)
      BY <2>6, <3>5
    <3> QED
      BY <1>1, <1>2, <3>1, <3>2, <3>3, <3>4, <3>6
  <2>8. AcceptedPast'
    BY <1>1, <2>1, <2>2, <2>5 DEF DedupInv, AcceptedPast, Send
  <2>9. DedupWindowHolds'
    <3> SUFFICES ASSUME NEW a \in accepted', NEW c \in accepted', Matches(a, c), a.row < c.row
                 PROVE  c.clk >= a.at + DedupWindow
      BY DEF DedupWindowHolds
    <3>1. CASE a \in accepted /\ c \in accepted
      BY <3>1 DEF DedupInv, DedupWindowHolds
    <3>2. CASE a \in accepted /\ c = b
      <4>1. a.at + DedupWindow <= clock /\ a.at \in Nat
        BY <1>1, <2>7, <3>2 DEF Send
      <4> QED
        BY <1>1, <2>5, <3>2, <4>1
    <3>3. CASE a = b /\ c = b
      BY <2>2, <2>5, <3>3
    <3>4. CASE a = b /\ c \in accepted
      <4>1. c.row \in Nat /\ c.row <= Len(messages)
        BY <1>1, <3>4 DEF Send, DedupInv, AcceptedPast
      <4> QED
        BY <1>1, <2>5, <3>4, <4>1
    <3> QED
      BY <2>1, <3>1, <3>2, <3>3, <3>4
  <2>10. LedgerCovers'
    <3> SUFFICES ASSUME NEW a \in accepted', a.at + DedupWindow > clock
                 PROVE  \E x \in ledger' : Matches(x, a) /\ x.expiresAt >= a.at + DedupWindow
      BY <1>3 DEF LedgerCovers
    <3>1. CASE a = b
      <4>1. y.expiresAt >= b.at + DedupWindow
        BY <1>1, <1>2, <2>4, <2>5
      <4> QED
        BY <2>1, <2>4, <3>1, <4>1
    <3>2. CASE a \in accepted
      <4>1. a.at \in Nat
        BY <1>1, <3>2 DEF Send
      <4>2. ~Matches(a, b)
        BY <1>1, <2>7, <3>2, <4>1
      <4>3. PICK x \in ledger : Matches(x, a) /\ x.expiresAt >= a.at + DedupWindow
        BY <3>2 DEF DedupInv, LedgerCovers
      <4>4. ~Matches(x, LedgerKey(q, e))
        <5>1. ~Matches(x, b)
          BY <4>2, <4>3 DEF Matches
        <5> QED
          BY <2>3, <5>1
      <4> QED
        BY <2>1, <4>3, <4>4
    <3> QED
      BY <2>1, <3>1, <3>2
  <2> QED
    BY <2>8, <2>9, <2>10
<1> QED
  BY <1>4, <1>5, <1>6 DEF sendMessageEntry

\* The steps of a receive, a delete or a visibility change add no row.
LEMMA RowsKept ==
  ASSUME TypeInv, NEW p \in Requests,
         \/ replayReceiveAttempt(p) \/ RedriveRound(p) \/ LeaseCandidates(p)
         \/ deleteByReceiptHandle(p) \/ changeVisibilityByReceiptHandle(p)
  PROVE  Len(messages') = Len(messages)
<1>1. TypeOK /\ ReceiptsRefer /\ TypeInv'
  BY ReplayType, RedriveType, LeaseType, DeleteType, ChangeType DEF TypeInv
<1>2. messages \in Seq(Message) /\ messages' \in Seq(Message)
  BY <1>1 DEF TypeInv, TypeOK
<1>3. SUFFICES DOMAIN messages' = DOMAIN messages
  BY <1>2
<1>4. CASE UNCHANGED messages
  BY <1>4
<1>5. ASSUME NEW f, messages' = [r \in DOMAIN messages |-> f[r]]
      PROVE  DOMAIN messages' = DOMAIN messages
  BY <1>5
<1>6. CASE replayReceiveAttempt(p) \/ changeVisibilityByReceiptHandle(p)
  BY <1>4, <1>6 DEF replayReceiveAttempt, changeVisibilityByReceiptHandle, SetDeadlines
<1>7. CASE RedriveRound(p)
  BY <1>4, <1>7 DEF RedriveRound, redriveMessage, Redriven
<1>8. CASE LeaseCandidates(p)
  BY <1>8 DEF LeaseCandidates, Lease
<1>9. CASE deleteByReceiptHandle(p)
  BY <1>4, <1>9 DEF deleteByReceiptHandle
<1> QED
  BY <1>6, <1>7, <1>8, <1>9

LEMMA DedupStep == DedupInv /\ [SectionNext]_planeVars => DedupInv'
<1> SUFFICES ASSUME DedupInv, [SectionNext]_planeVars PROVE DedupInv'
  OBVIOUS
<1>1. TypeInv /\ NowNotAhead /\ clock \in Nat
  BY DEF DedupInv, TypeInv, TypeOK
<1>2. TypeInv' /\ NowNotAhead'
  BY <1>1, TypeStep, NowStep
<1> DEFINE Kept == LedgerCovers' /\ AcceptedPast' /\ DedupWindowHolds'
<1>3. SUFFICES Kept
  BY <1>2 DEF DedupInv
<1>4. CASE UNCHANGED <<clock, messages, ledger, accepted>>
  BY <1>1, <1>4, DedupKept
<1>5. CASE Tick
  <2>1. UNCHANGED <<messages, ledger, accepted>> /\ clock' = clock + 1
    BY <1>5 DEF Tick
  <2> QED
    BY <1>1, <2>1, DedupKept
<1>6. ASSUME NEW p \in Requests, StartRequest(p)
      PROVE  Kept
  <2>1. maintain(clock) /\ UNCHANGED <<clock, accepted>>
    BY <1>6, QueueAssumption DEF StartRequest, SendMessageBatch, ReceiveMessage, DeleteMessageBatch,
                ChangeMessageVisibilityBatch, Begin
  <2> QED
    BY <2>1, DedupMaintain
<1>7. ASSUME NEW p \in Requests,
             \/ replayReceiveAttempt(p) \/ RedriveRound(p) \/ LeaseCandidates(p)
             \/ deleteByReceiptHandle(p) \/ changeVisibilityByReceiptHandle(p)
      PROVE  Kept
  <2>1. UNCHANGED <<clock, ledger, accepted>>
    BY <1>7 DEF replayReceiveAttempt, RedriveRound, LeaseCandidates,
                deleteByReceiptHandle, changeVisibilityByReceiptHandle
  <2>2. Len(messages') = Len(messages)
    BY <1>1, <1>7, RowsKept
  <2> QED
    BY <1>1, <2>1, <2>2, DedupKept
<1>8. ASSUME NEW p \in Requests, Proceed(p) \/ Disconnect(p)
      PROVE  Kept
  <2>1. CASE ReceiveLoop(p)
    BY <2>1, DedupMaintain DEF ReceiveLoop
  <2>2. CASE ReceiveNothing(p) \/ PollWake(p) \/ Disconnect(p)
    BY <1>4, <2>2 DEF ReceiveNothing, PollWake, Disconnect
  <2> QED
    BY <1>7, <1>8, <2>1, <2>2, DedupSend DEF Proceed
<1>9. CASE \/ \E q \in PurgeableQueues : PurgeQueue(q)
           \/ \E q \in DeletableQueues : DeleteQueue(q)
           \/ UNCHANGED planeVars
  BY <1>4, <1>9 DEF PurgeQueue, DeleteQueue, planeVars
<1>10. CASE RefusedRequest
  BY <1>10, DedupMaintain DEF RefusedRequest
<1> QED
  BY <1>5, <1>6, <1>8, <1>9, <1>10 DEF SectionNext

\* As long as the statements of two sections do not interleave:
\* FIFO deduplication is exact at the granularity of a batch entry: whatever
\* the requests in flight and however old their now, a second send with the
\* same id in the same scope is accepted only after the window of the first
\* (sendMessageEntry, DedupEntry, InsertDedupEntry, DeleteExpiredDedupEntries).
LEMMA DedupApart == SectionSpec => []DedupWindowHolds
<1>1. SectionInit => DedupInv
  <2> SUFFICES ASSUME SectionInit PROVE DedupInv
    OBVIOUS
  <2>1. accepted = {} /\ \A p \in Requests : reqs[p] = Idle
    BY DEF SectionInit
  <2> QED
    BY <2>1, TypeInit DEF DedupInv, NowNotAhead, LedgerCovers, AcceptedPast, DedupWindowHolds
<1>2. DedupInv => DedupWindowHolds
  BY DEF DedupInv
<1> QED
  BY <1>1, <1>2, DedupStep, PTL DEF SectionSpec

=============================================================================
