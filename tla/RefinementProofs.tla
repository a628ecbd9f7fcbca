--------------------------- MODULE RefinementProofs ---------------------------
(***************************************************************************)
(* The tables, handlers and maintenance of the message plane implement the  *)
(* abstract lease queue, for every number of requests, queues and rows: the *)
(* initial state maps to an initial state, and every step to a step of      *)
(* LeaseQueue or to a stutter.                                              *)
(***************************************************************************)
EXTENDS MessagePlaneRefinement, LeaseProofs

-----------------------------------------------------------------------------
(* The mapping.                                                              *)

\* What the mapping shows of one row.
LEMMA BarRow ==
  ASSUME TypeInv, NEW r \in DOMAIN messages
  PROVE  /\ placeBar[r] = IF messages[r].deleted THEN Gone ELSE messages[r].queue
         /\ placeBar[r] # Gone <=> ~messages[r].deleted
         /\ untilBar[r] = IF messages[r].deleted THEN 0 ELSE messages[r].visibilityDeadline
         /\ messages[r].deleted \/ ActiveHandles(r) = {} => holderBar[r] = 0
         /\ ~messages[r].deleted /\ ActiveHandles(r) # {} => holderBar[r] \in ActiveHandles(r)
         /\ ActiveHandles(r) \subseteq Nat \ {0}
         /\ holderBar[r] \in Nat /\ untilBar[r] \in Nat
<1>1. TypeOK /\ messages[r] \in Message /\ DOMAIN receipts = 1 .. Len(receipts)
      /\ Len(receipts) \in Nat
  BY RowTypes DEF TypeInv
<1>2. messages[r].queue \in Queues /\ messages[r].visibilityDeadline \in Nat
  BY <1>1 DEF Message
<1>3. ActiveHandles(r) \subseteq Nat \ {0}
  BY <1>1 DEF ActiveHandles
<1>4. /\ messages[r].deleted \/ ActiveHandles(r) = {} => holderBar[r] = 0
      /\ ~messages[r].deleted /\ ActiveHandles(r) # {} => holderBar[r] \in ActiveHandles(r)
  BY DEF holderBar
<1>5. placeBar[r] = IF messages[r].deleted THEN Gone ELSE messages[r].queue
  BY DEF placeBar
<1>6. untilBar[r] = IF messages[r].deleted THEN 0 ELSE messages[r].visibilityDeadline
  BY DEF untilBar
<1>7. holderBar[r] \in Nat
  BY <1>3, <1>4
<1>8. placeBar[r] # Gone <=> ~messages[r].deleted
  BY <1>2, <1>5, GoneAssumption
<1> QED
  BY <1>2, <1>3, <1>4, <1>5, <1>6, <1>7, <1>8

LEMMA BarDomains == DOMAIN placeBar = DOMAIN messages
                    /\ DOMAIN holderBar = DOMAIN messages
                    /\ DOMAIN untilBar = DOMAIN messages
BY DEF placeBar, holderBar, untilBar

\* A row whose deletion mark and active receipts did not change keeps its holder.
LEMMA HolderSame ==
  ASSUME NEW r \in DOMAIN messages, r \in DOMAIN messages',
         messages'[r].deleted = messages[r].deleted,
         ActiveHandles(r)' = ActiveHandles(r)
  PROVE  holderBar'[r] = holderBar[r]
BY DEF holderBar

-----------------------------------------------------------------------------
(* Removals: maintenance and deletes.                                        *)

LEMMA RemoveRefines ==
  ASSUME TypeInv, TypeInv', clock' = clock,
         DOMAIN messages' = DOMAIN messages, Len(receipts') = Len(receipts),
         \A r \in DOMAIN messages :
           /\ messages[r].deleted => messages'[r].deleted
           /\ ~messages'[r].deleted =>
                /\ messages'[r].queue = messages[r].queue
                /\ messages'[r].visibilityDeadline = messages[r].visibilityDeadline
                /\ ActiveHandles(r)' = ActiveHandles(r)
  PROVE  Leases!LNext
<1> DEFINE R == {r \in DOMAIN messages : messages'[r].deleted}
<1>1. \A r \in DOMAIN messages :
        /\ r \in R => placeBar'[r] = Gone /\ holderBar'[r] = 0 /\ untilBar'[r] = 0
        /\ r \notin R => /\ placeBar'[r] = placeBar[r]
                         /\ holderBar'[r] = holderBar[r]
                         /\ untilBar'[r] = untilBar[r]
  <2> TAKE r \in DOMAIN messages
  <2>1. CASE r \in R
    BY <2>1 DEF placeBar, holderBar, untilBar
  <2>2. CASE r \notin R
    <3>1. messages'[r].deleted = messages[r].deleted
      <4>1. messages[r] \in Message /\ messages'[r] \in Message
        BY DEF TypeInv, TypeOK
      <4> QED
        BY <2>2, <4>1 DEF Message
    <3>2. holderBar'[r] = holderBar[r]
      BY <2>2, <3>1, HolderSame
    <3> QED
      BY <2>2, <3>1, <3>2 DEF placeBar, untilBar
  <2> QED
    BY <2>1, <2>2
<1>2. /\ placeBar' = [r \in DOMAIN messages |-> placeBar'[r]]
      /\ holderBar' = [r \in DOMAIN messages |-> holderBar'[r]]
      /\ untilBar' = [r \in DOMAIN messages |-> untilBar'[r]]
  BY DEF placeBar, holderBar, untilBar
<1>3. R \in SUBSET DOMAIN placeBar
  BY BarDomains
<1> HIDE DEF R
<1>4. Leases!Remove(R)
  BY <1>1, <1>2, BarDomains DEF Leases!Remove
<1> QED
  BY <1>3, <1>4 DEF Leases!LNext

LEMMA MaintainRefines ==
  ASSUME TypeInv, TypeInv', clock' = clock, maintain(clock)
  PROVE  Leases!LNext
<1>1. TypeOK /\ clock \in Nat
  BY DEF TypeInv, TypeOK
<1>2. /\ DOMAIN messages' = DOMAIN messages
      /\ \A r \in DOMAIN messages :
           /\ messages'[r].queue = messages[r].queue
           /\ messages'[r].deleted <=>
                messages[r].deleted \/ r \in ExpiredAt(clock) \/ r \in PurgedRows
           /\ r \notin ExpiredAt(clock) =>
                messages'[r].visibilityDeadline = messages[r].visibilityDeadline
      /\ receipts' = ReceiptsDeactivated(ExpiredAt(clock))
  BY <1>1, MaintainTables
<1>3. Len(receipts') = Len(receipts)
  BY <1>1, <1>2, DeactivatedTable
<1>4. ASSUME NEW r \in DOMAIN messages, r \notin ExpiredAt(clock)
      PROVE  ActiveHandles(r)' = ActiveHandles(r)
  <2>1. /\ DOMAIN receipts' = DOMAIN receipts
        /\ \A h \in DOMAIN receipts :
             /\ receipts'[h].message = receipts[h].message
             /\ receipts'[h].active <=>
                  receipts[h].active /\ receipts[h].message \notin ExpiredAt(clock)
    BY <1>1, <1>2, DeactivatedTable
  <2> QED
    BY <1>4, <2>1 DEF ActiveHandles
<1> QED
  BY <1>2, <1>3, <1>4, RemoveRefines

LEMMA DeleteRefines ==
  ASSUME TypeInv, TypeInv', clock' = clock, NEW p \in Requests, deleteByReceiptHandle(p),
         ~UNCHANGED <<messages, receipts>>
  PROVE  Leases!LNext
<1>1. TypeOK
  BY DEF TypeInv
<1>2. ASSUME NEW h \in DOMAIN receipts, NEW s \in DOMAIN messages,
             s = receipts[h].message,
             receipts' = [receipts EXCEPT ![h].active = FALSE],
             \/ messages[s].deleted /\ UNCHANGED messages
             \/ messages' = [messages EXCEPT ![s].deleted = TRUE,
                                             ![s].visibilityDeadline = 0]
      PROVE  Leases!LNext
  <2>1. /\ DOMAIN messages' = DOMAIN messages
        /\ messages'[s].deleted
        /\ \A r \in DOMAIN messages : r # s => messages'[r] = messages[r]
    BY <1>1, <1>2, RowRemoved
  <2>2. /\ DOMAIN receipts' = DOMAIN receipts
        /\ \A g \in DOMAIN receipts :
             /\ receipts'[g].message = receipts[g].message
             /\ receipts'[g].active <=> receipts[g].active /\ g # h
        /\ receipts' \in Seq(Receipt)
    BY <1>1, <1>2, ReceiptRetired
  <2>3. Len(receipts') = Len(receipts)
    BY <1>1, <2>2 DEF TypeOK
  <2>4. \A r \in DOMAIN messages : r # s => ActiveHandles(r)' = ActiveHandles(r)
    BY <1>2, <2>2 DEF ActiveHandles
  <2> QED
    BY <2>1, <2>3, <2>4, RemoveRefines
<1>3. PICK h \in DOMAIN receipts :
        /\ receipts' = [receipts EXCEPT ![h].active = FALSE]
        /\ receipts[h].message \in DOMAIN messages
        /\ \/ messages[receipts[h].message].deleted /\ UNCHANGED messages
           \/ messages' = [messages EXCEPT ![receipts[h].message].deleted = TRUE,
                                           ![receipts[h].message].visibilityDeadline = 0]
  BY DeleteTables
<1> QED
  BY <1>2, <1>3

-----------------------------------------------------------------------------
(* Renewals: replays and visibility changes.                                 *)

LEMMA RenewRefines ==
  ASSUME TypeInv, NEW H, NEW d \in Nat, SetDeadlines(H, d), clock' = clock,
         \A h \in H : /\ h \in DOMAIN receipts /\ receipts[h].active
                      /\ ~messages[receipts[h].message].deleted
  PROVE  Leases!LNext
<1> DEFINE R == {receipts[h].message : h \in H}
<1>1. TypeOK
  BY DEF TypeInv
<1>2. /\ DOMAIN messages' = DOMAIN messages
      /\ DOMAIN receipts' = DOMAIN receipts
      /\ receipts' \in Seq(Receipt)
      /\ \A r \in DOMAIN messages :
           /\ messages'[r].deleted = messages[r].deleted
           /\ messages'[r].queue = messages[r].queue
           /\ r \notin R =>
                messages'[r].visibilityDeadline = messages[r].visibilityDeadline
      /\ \A h \in DOMAIN receipts : /\ receipts'[h].message = receipts[h].message
                                    /\ receipts'[h].active = receipts[h].active
  BY <1>1, DeadlineTables
<1>3. Len(receipts') = Len(receipts)
  BY <1>1, <1>2 DEF TypeOK
<1>4. \A r \in DOMAIN messages : ActiveHandles(r)' = ActiveHandles(r)
  BY <1>2 DEF ActiveHandles
<1>5. \A r \in DOMAIN messages : holderBar'[r] = holderBar[r]
  BY <1>2, <1>4, HolderSame
<1>6. placeBar' = placeBar
  BY <1>2 DEF placeBar
<1>7. \A r \in DOMAIN messages \ R : untilBar'[r] = untilBar[r]
  BY <1>2 DEF untilBar
<1>8. R \subseteq DOMAIN messages /\ \A r \in R : placeBar[r] # Gone /\ holderBar[r] # 0
  <2> SUFFICES ASSUME NEW h \in H
               PROVE  /\ receipts[h].message \in DOMAIN messages
                      /\ placeBar[receipts[h].message] # Gone
                      /\ holderBar[receipts[h].message] # 0
    OBVIOUS
  <2> DEFINE r == receipts[h].message
  <2>1. r \in DOMAIN messages /\ ~messages[r].deleted /\ h \in ActiveHandles(r)
    BY DEF TypeInv, ReceiptsRefer, ActiveHandles
  <2> HIDE DEF r
  <2>2. placeBar[r] # Gone /\ holderBar[r] # 0
    BY <2>1, BarRow
  <2> QED
    BY <2>1, <2>2 DEF r
<1> HIDE DEF R
<1>9. DOMAIN holderBar' = DOMAIN holderBar /\ DOMAIN untilBar' = DOMAIN untilBar
  BY <1>2 DEF holderBar, untilBar
<1>10. Leases!Renew(R)
  BY <1>3, <1>5, <1>6, <1>7, <1>8, <1>9, BarDomains DEF Leases!Renew, Leases!OthersKeep
<1> QED
  BY <1>8, <1>10, BarDomains DEF Leases!LNext

-----------------------------------------------------------------------------
(* Sends.                                                                    *)

\* Appending a row appends to a table that is computed row by row.
LEMMA AppendTable ==
  ASSUME NEW S, NEW n \in Nat, NEW f \in [1 .. n -> S], NEW g \in [1 .. (n + 1) -> S],
         \A i \in 1 .. n : g[i] = f[i]
  PROVE  g = Append(f, g[n + 1])
<1>1. f \in Seq(S) /\ Len(f) = n /\ n + 1 \in 1 .. (n + 1)
  BY LenProperties, SeqDef
<1>2. g[n + 1] \in S
  BY <1>1
<1> DEFINE a == Append(f, g[n + 1])
<1>3. /\ a \in Seq(S) /\ Len(a) = n + 1
      /\ \A i \in 1 .. n : a[i] = f[i]
      /\ a[n + 1] = g[n + 1]
  BY <1>1, <1>2, AppendProperties
<1>4. a \in [1 .. (n + 1) -> S]
  BY <1>3, LenProperties
<1> HIDE DEF a
<1>5. \A i \in 1 .. (n + 1) : a[i] = g[i]
  BY <1>3
<1>6. a = g
  BY <1>4, <1>5
<1> QED
  BY <1>6 DEF a

LEMMA SendRefines ==
  ASSUME TypeInv, TypeInv', NowNotAhead, clock' = clock,
         NEW p \in Requests, sendMessageEntry(p), ~UNCHANGED <<messages, receipts>>
  PROVE  Leases!LNext
<1>1. TypeOK /\ TypeOK' /\ UNCHANGED receipts
  BY SendTables DEF TypeInv
<1>2. PICK m \in Message : /\ messages' = Append(messages, m)
                           /\ m.visibilityDeadline = 0 /\ ~m.deleted
  BY <1>1, SendTables
<1> DEFINE n == Len(messages)
<1>3. /\ n \in Nat /\ DOMAIN messages = 1 .. n
      /\ Len(messages') = n + 1 /\ DOMAIN messages' = 1 .. (n + 1)
      /\ messages'[n + 1] = m
      /\ \A r \in 1 .. n : messages'[r] = messages[r]
  BY <1>1, <1>2, AppendProperties DEF TypeOK
<1>4. m.queue \in Queues
  BY DEF Message
<1> HIDE DEF n
<1>5. /\ n + 1 \in DOMAIN messages' /\ n + 1 \notin DOMAIN messages
      /\ \A r \in DOMAIN messages : r \in DOMAIN messages'
  BY <1>3
<1>6. \A r : ActiveHandles(r)' = ActiveHandles(r)
  BY <1>1 DEF ActiveHandles
<1>7. ActiveHandles(n + 1) = {}
  BY <1>5 DEF ActiveHandles, TypeInv, ReceiptsRefer
<1>8. /\ placeBar'[n + 1] = m.queue /\ holderBar'[n + 1] = 0 /\ untilBar'[n + 1] = 0
  BY <1>2, <1>3, <1>5, <1>6, <1>7 DEF placeBar, holderBar, untilBar
<1>9. \A r \in 1 .. n : /\ placeBar'[r] = placeBar[r]
                        /\ holderBar'[r] = holderBar[r]
                        /\ untilBar'[r] = untilBar[r]
  BY <1>3, <1>5, <1>6, HolderSame DEF placeBar, untilBar
<1>10. /\ placeBar = [r \in 1 .. n |-> placeBar[r]]
       /\ holderBar = [r \in 1 .. n |-> holderBar[r]]
       /\ untilBar = [r \in 1 .. n |-> untilBar[r]]
  BY <1>3 DEF placeBar, holderBar, untilBar
<1>11. /\ placeBar' = [r \in 1 .. (n + 1) |-> placeBar'[r]]
       /\ holderBar' = [r \in 1 .. (n + 1) |-> holderBar'[r]]
       /\ untilBar' = [r \in 1 .. (n + 1) |-> untilBar'[r]]
  BY <1>3 DEF placeBar, holderBar, untilBar
<1>12. \A r \in 1 .. n : /\ placeBar[r] \in Queues \cup {Gone}
                         /\ holderBar[r] \in Nat /\ untilBar[r] \in Nat
  <2> TAKE r \in 1 .. n
  <2>1. r \in DOMAIN messages /\ messages[r] \in Message
    BY <1>1, <1>3, RowTypes
  <2>2. messages[r].queue \in Queues
    BY <2>1 DEF Message
  <2> QED
    BY <2>1, <2>2, BarRow
<1>13. \A r \in 1 .. (n + 1) : r \in 1 .. n \/ r = n + 1
  BY <1>3
<1>14. /\ placeBar \in [1 .. n -> Queues \cup {Gone}]
       /\ holderBar \in [1 .. n -> Nat]
       /\ untilBar \in [1 .. n -> Nat]
       /\ placeBar' \in [1 .. (n + 1) -> Queues \cup {Gone}]
       /\ holderBar' \in [1 .. (n + 1) -> Nat]
       /\ untilBar' \in [1 .. (n + 1) -> Nat]
  <2>1. /\ placeBar \in [1 .. n -> Queues \cup {Gone}]
        /\ holderBar \in [1 .. n -> Nat] /\ untilBar \in [1 .. n -> Nat]
    BY <1>10, <1>12
  <2>2. \A r \in 1 .. (n + 1) : /\ placeBar'[r] \in Queues \cup {Gone}
                                /\ holderBar'[r] \in Nat /\ untilBar'[r] \in Nat
    BY <1>4, <1>8, <1>9, <1>12, <1>13
  <2> QED
    BY <1>11, <2>1, <2>2
<1>15. /\ placeBar' = Append(placeBar, m.queue)
       /\ holderBar' = Append(holderBar, 0)
       /\ untilBar' = Append(untilBar, 0)
  BY <1>3, <1>8, <1>9, <1>14, AppendTable
<1>16. Leases!Put(m.queue)
  BY <1>1, <1>15 DEF Leases!Put
<1> QED
  BY <1>4, <1>16 DEF Leases!LNext

-----------------------------------------------------------------------------
(* Redrives.                                                                 *)

\* A message that a selection round may take carries no running lease.
LEMMA EligibleFree ==
  ASSUME TypeInv, NEW q, NEW now \in Nat, now <= clock, NEW r \in Eligible(q, now)
  PROVE  r \in DOMAIN messages /\ messages[r].queue = q /\ ~messages[r].deleted
         /\ Leases!Free(r)
<1>1. TypeOK /\ clock \in Nat
  BY DEF TypeInv, TypeOK
<1>2. /\ r \in DOMAIN messages /\ messages[r].queue = q /\ ~messages[r].deleted
      /\ messageVisible(r, now)
  BY DEF Eligible, FifoEligible, liveMessages, SameGroup
<1>3. messages[r].visibilityDeadline \in Nat /\ messages[r].visibilityDeadline <= now
  BY <1>1, <1>2, RowTypes DEF Message, messageVisible
<1>4. messages[r].visibilityDeadline <= clock
  BY <1>1, <1>3
<1> QED
  BY <1>2, <1>4, BarRow DEF Leases!Free

LEMMA RedriveRefines ==
  ASSUME TypeInv, NowNotAhead, clock' = clock, NEW p \in Requests, RedriveRound(p),
         ~UNCHANGED <<messages, receipts>>
  PROVE  Leases!LNext
<1>1. TypeOK
  BY DEF TypeInv
<1>2. /\ reqs[p].queue \in Queues /\ RedriveTarget[reqs[p].queue] # NoQueue
      /\ reqs[p].now \in Nat /\ reqs[p].now <= clock
  BY RedriveFacts DEF ReceiveRequest, NowNotAhead
<1> DEFINE target == RedriveTarget[reqs[p].queue]
<1>3. target \in Queues
  BY <1>2, QueueAssumption
<1>4. PICK R : /\ redriveMessage(reqs[p].queue, R, reqs[p].now)
               /\ \A r \in R : r \in Eligible(reqs[p].queue, reqs[p].now)
  BY RedriveFacts
<1>5. \A r \in R : r \in DOMAIN messages /\ ~messages[r].deleted /\ Leases!Free(r)
  BY <1>2, <1>4, EligibleFree
<1>6. /\ DOMAIN messages' = DOMAIN messages
      /\ receipts' = ReceiptsDeactivated(R)
      /\ \A r \in DOMAIN messages :
           /\ messages'[r].deleted = messages[r].deleted
           /\ r \notin R => messages'[r] = messages[r]
           /\ r \in R => /\ messages'[r].queue = target
                         /\ messages'[r].visibilityDeadline = 0
  BY <1>1, <1>2, <1>4, RedriveTables
<1> HIDE DEF target
<1>7. /\ DOMAIN receipts' = DOMAIN receipts /\ Len(receipts') = Len(receipts)
      /\ \A h \in DOMAIN receipts :
           /\ receipts'[h].message = receipts[h].message
           /\ receipts'[h].active <=>
                receipts[h].active /\ receipts[h].message \notin R
  BY <1>1, <1>6, DeactivatedTable
<1>8. \A r \in DOMAIN messages :
        /\ r \in R => ActiveHandles(r)' = {}
        /\ r \notin R => ActiveHandles(r)' = ActiveHandles(r)
  BY <1>7 DEF ActiveHandles
<1>9. \A r \in DOMAIN messages :
        /\ r \in R => placeBar'[r] = target /\ holderBar'[r] = 0 /\ untilBar'[r] = 0
        /\ r \notin R => /\ placeBar'[r] = placeBar[r]
                         /\ holderBar'[r] = holderBar[r]
                         /\ untilBar'[r] = untilBar[r]
  <2> TAKE r \in DOMAIN messages
  <2>1. CASE r \in R
    BY <1>5, <1>6, <1>8, <2>1 DEF placeBar, holderBar, untilBar
  <2>2. CASE r \notin R
    BY <1>6, <1>8, <2>2, HolderSame DEF placeBar, untilBar
  <2> QED
    BY <2>1, <2>2
<1>10. /\ placeBar' = [r \in DOMAIN messages |-> placeBar'[r]]
       /\ holderBar' = [r \in DOMAIN messages |-> holderBar'[r]]
       /\ untilBar' = [r \in DOMAIN messages |-> untilBar'[r]]
  BY <1>6 DEF placeBar, holderBar, untilBar
<1>11. Leases!DeadLetter(R, target)
  BY <1>5, <1>7, <1>9, <1>10, BarDomains DEF Leases!DeadLetter
<1>12. R \in SUBSET DOMAIN placeBar
  BY <1>5, BarDomains
<1> QED
  BY <1>3, <1>11, <1>12 DEF Leases!LNext

-----------------------------------------------------------------------------
(* Grants.                                                                   *)

\* A selection has as many rows as places.
LEMMA RowsCounted ==
  ASSUME NEW q, NEW k \in Nat, NEW c, Selected(q, k, c)
  PROVE  Cardinality(Rows(c, k)) = k
<1>1. /\ c \in [1 .. k -> Rows(c, k)]
      /\ \A i, j \in 1 .. k : c[i] = c[j] => i = j
      /\ \A r \in Rows(c, k) : \E i \in 1 .. k : c[i] = r
  BY DEF Selected, Rows
<1>2. ExistsBijection(1 .. k, Rows(c, k))
  <2>1. c \in Bijection(1 .. k, Rows(c, k))
    BY <1>1, Fun_IsBij
  <2> QED
    BY <2>1, Fun_ExistsBij
<1>3. IsFiniteSet(1 .. k) /\ Cardinality(1 .. k) = k
  BY FS_Interval
<1> QED
  BY <1>2, <1>3, FS_Bijection

\* LeaseQueue counts with the same operator.
LEMMA SameCardinality ==
  ASSUME NEW S
  PROVE  Leases!Cardinality(S) = Cardinality(S)
BY DEF Leases!Cardinality, Cardinality, Leases!IsFiniteSet, IsFiniteSet

\* After a lease the one active receipt of a leased row is its new one.
LEMMA LeaseHandles ==
  ASSUME TypeInv, NEW q \in Queues, NEW k \in Nat, NEW c, NEW vis \in Nat,
         Selected(q, k, c), LeaseEffect(q, k, c, vis), NEW r \in DOMAIN messages
  PROVE  /\ \A i \in 1 .. k : c[i] = r => ActiveHandles(r)' = {Len(receipts) + i}
         /\ r \notin Rows(c, k) => ActiveHandles(r)' = ActiveHandles(r)
<1>1. /\ Len(receipts) \in Nat /\ DOMAIN receipts = 1 .. Len(receipts)
      /\ DOMAIN receipts' = 1 .. (Len(receipts) + k)
  BY RowTypes DEF TypeInv, LeaseEffect
<1>2. \A h \in DOMAIN receipts :
        /\ h \in DOMAIN receipts'
        /\ receipts'[h].message = receipts[h].message
        /\ receipts'[h].active <=>
             receipts[h].active /\ receipts[h].message \notin Rows(c, k)
  <2>1. \A h \in DOMAIN receipts : h \in DOMAIN receipts'
    BY <1>1
  <2> QED
    BY <2>1, LeaseReceipts DEF ReceiptKept
<1>3. \A h \in DOMAIN receipts' \ DOMAIN receipts :
        /\ h - Len(receipts) \in 1 .. k
        /\ receipts'[h].message = c[h - Len(receipts)]
        /\ receipts'[h].active
  BY LeaseReceipts
<1>4. ASSUME NEW i \in 1 .. k, c[i] = r
      PROVE  ActiveHandles(r)' = {Len(receipts) + i}
  <2> DEFINE g == Len(receipts) + i
  <2>1. g \in DOMAIN receipts' /\ g \notin DOMAIN receipts /\ g - Len(receipts) = i
    BY <1>1
  <2>2. receipts'[g].message = r /\ receipts'[g].active
    BY <1>3, <1>4, <2>1
  <2>3. \A h \in DOMAIN receipts : ~(receipts'[h].active /\ receipts'[h].message = r)
    BY <1>2, <1>4 DEF Rows
  <2>4. ASSUME NEW h \in DOMAIN receipts' \ DOMAIN receipts, receipts'[h].message = r
        PROVE  h = g
    <3>1. h - Len(receipts) \in 1 .. k /\ c[h - Len(receipts)] = c[i]
      BY <1>3, <1>4, <2>4
    <3>2. h - Len(receipts) = i
      BY <3>1 DEF Selected
    <3> QED
      BY <1>1, <3>2
  <2> HIDE DEF g
  <2>5. ActiveHandles(r)' = {g}
    BY <2>1, <2>2, <2>3, <2>4 DEF ActiveHandles
  <2> QED
    BY <2>5 DEF g
<1>5. ASSUME r \notin Rows(c, k)
      PROVE  ActiveHandles(r)' = ActiveHandles(r)
  <2>1. \A h \in DOMAIN receipts' \ DOMAIN receipts : receipts'[h].message # r
    BY <1>3, <1>5 DEF Rows
  <2> QED
    BY <1>2, <1>5, <2>1 DEF ActiveHandles
<1> QED
  BY <1>4, <1>5

LEMMA GrantRefines ==
  ASSUME TypeInv, TypeInv', NowNotAhead, clock' = clock, NEW p \in Requests,
         LeaseCandidates(p)
  PROVE  Leases!LNext
<1>1. TypeOK /\ TypeOK' /\ clock \in Nat
  BY DEF TypeInv, TypeOK
<1>2. /\ reqs[p].queue \in Queues /\ reqs[p].vis \in Nat
      /\ reqs[p].now \in Nat /\ reqs[p].now <= clock
  BY LeaseFacts DEF ReceiveRequest, NowNotAhead
<1>3. PICK k, c : /\ k \in Nat
                  /\ Selected(reqs[p].queue, k, c)
                  /\ Listed(reqs[p].queue, k, c, reqs[p].now)
                  /\ LeaseEffect(reqs[p].queue, k, c, reqs[p].vis)
  BY LeaseFacts
<1> DEFINE R == Rows(c, k)
           n == Len(receipts)
<1>4. \A r \in R : /\ r \in DOMAIN messages /\ messages[r].queue = reqs[p].queue
                   /\ ~messages[r].deleted /\ Leases!Free(r)
  BY <1>2, <1>3, EligibleFree DEF Rows, Listed
<1>5. Cardinality(R) = k /\ n \in Nat
  BY <1>1, <1>3, RowsCounted, RowTypes
<1>6. Len(receipts') = n + k
  BY <1>1, <1>3, <1>5 DEF LeaseEffect, TypeOK
<1>7. /\ DOMAIN messages' = DOMAIN messages
      /\ \A r \in DOMAIN messages :
           /\ messages'[r].deleted = messages[r].deleted
           /\ messages'[r].queue = messages[r].queue
           /\ r \in R => messages'[r].visibilityDeadline = clock + reqs[p].vis
           /\ r \notin R => messages'[r] = messages[r]
  BY <1>3 DEF LeaseEffect
<1>8. \A r \in DOMAIN messages : r \notin R => ActiveHandles(r)' = ActiveHandles(r)
  BY <1>2, <1>3, LeaseHandles
<1>9. \A i \in 1 .. k : holderBar'[c[i]] = n + i
  <2> TAKE i \in 1 .. k
  <2>1. c[i] \in R
    BY DEF Rows
  <2>2. c[i] \in DOMAIN messages' /\ ~messages'[c[i]].deleted
    BY <1>4, <1>7, <2>1
  <2>3. ActiveHandles(c[i])' = {n + i}
    <3>1. c[i] \in DOMAIN messages
      BY <1>4, <2>1
    <3> QED
      BY <1>2, <1>3, <3>1, LeaseHandles
  <2> QED
    BY <2>2, <2>3 DEF holderBar
<1>10. placeBar' = placeBar
  BY <1>7 DEF placeBar
<1>11. \A r \in DOMAIN messages \ R :
         holderBar'[r] = holderBar[r] /\ untilBar'[r] = untilBar[r]
  BY <1>7, <1>8, HolderSame DEF untilBar
<1>12. DOMAIN holderBar' = DOMAIN holderBar /\ DOMAIN untilBar' = DOMAIN untilBar
  BY <1>7 DEF holderBar, untilBar
<1>13. \A r \in R : untilBar'[r] >= clock
  <2> TAKE r \in R
  <2>1. untilBar'[r] = clock + reqs[p].vis
    BY <1>4, <1>7 DEF untilBar
  <2> QED
    BY <1>1, <1>2, <2>1
<1>14. \A r \in R : holderBar'[r] \in (n + 1) .. (n + k)
  <2> TAKE r \in R
  <2>1. PICK i \in 1 .. k : r = c[i]
    BY DEF Rows
  <2>2. n + i \in (n + 1) .. (n + k)
    BY <1>3, <1>5
  <2> QED
    BY <1>9, <2>1, <2>2
<1>15. \A r, s \in R : placeBar[r] = placeBar[s]
                         /\ (r # s => holderBar'[r] # holderBar'[s])
  <2> TAKE r, s \in R
  <2>1. PICK i \in 1 .. k, j \in 1 .. k : r = c[i] /\ s = c[j]
    BY DEF Rows
  <2>2. r # s => n + i # n + j
    BY <1>5, <2>1
  <2>3. placeBar[r] = reqs[p].queue /\ placeBar[s] = reqs[p].queue
    BY <1>4, BarRow
  <2> QED
    BY <1>9, <2>1, <2>2, <2>3
<1> HIDE DEF R, n
<1>16. Leases!Grant(R)
  BY <1>4, <1>5, <1>6, <1>10, <1>11, <1>12, <1>13, <1>14, <1>15, BarDomains,
     SameCardinality DEF Leases!Grant, Leases!OthersKeep, n
<1>17. R \in SUBSET DOMAIN placeBar
  BY <1>4, BarDomains
<1> QED
  BY <1>16, <1>17 DEF Leases!LNext

-----------------------------------------------------------------------------
(* The refinement.                                                           *)

LEMMA StepRefines ==
  ASSUME TypeInv, NowNotAhead, [SectionNext]_planeVars
  PROVE  [Leases!LNext]_(Leases!lvars)
<1>1. /\ TypeInv' /\ TableStep
      /\ clock \in Nat /\ clock' \in Nat
      /\ \/ clock' = clock
         \/ clock' = clock + 1 /\ UNCHANGED <<messages, receipts>>
  BY TypeStep, NextTables
<1>2. CASE UNCHANGED <<messages, receipts>>
  <2>1. UNCHANGED <<placeBar, holderBar, untilBar>> /\ Len(receipts') = Len(receipts)
    <3>1. UNCHANGED messages /\ UNCHANGED receipts
      BY <1>2
    <3>2. placeBar' = placeBar /\ untilBar' = untilBar
      BY <3>1 DEF placeBar, untilBar
    <3>3. holderBar' = holderBar
      BY <3>1 DEF holderBar, ActiveHandles
    <3> QED
      BY <3>1, <3>2, <3>3
  <2>2. CASE clock' = clock
    BY <2>1, <2>2 DEF Leases!lvars
  <2>3. CASE clock' = clock + 1
    BY <2>1, <2>3 DEF Leases!LNext, Leases!PassTime
  <2> QED
    BY <1>1, <2>2, <2>3
<1>3. CASE ~UNCHANGED <<messages, receipts>>
  <2>1. clock' = clock
    BY <1>1, <1>3
  <2>2. ASSUME NEW p \in Requests, replayReceiveAttempt(p)
        PROVE  Leases!LNext
    <3>1. PICK H : /\ \A h \in H : Replayable(reqs[p].queue, h, reqs[p].now)
                   /\ reqs[p].now + reqs[p].vis \in Nat
                   /\ SetDeadlines(H, reqs[p].now + reqs[p].vis)
      BY <1>3, <2>2, ReplayTables
    <3>2. \A h \in H : /\ h \in DOMAIN receipts /\ receipts[h].active
                       /\ ~messages[receipts[h].message].deleted
      BY <3>1 DEF Replayable
    <3> QED
      BY <2>1, <3>1, <3>2, RenewRefines
  <2>3. ASSUME NEW p \in Requests, changeVisibilityByReceiptHandle(p)
        PROVE  Leases!LNext
    <3>1. PICK h \in DOMAIN receipts, timeout \in Nat :
            /\ HandleUsable(reqs[p].queue, h, reqs[p].now)
            /\ ~messages[receipts[h].message].deleted
            /\ reqs[p].now + timeout \in Nat
            /\ SetDeadlines({h}, reqs[p].now + timeout)
      BY <1>3, <2>3, ChangeTables
    <3>2. \A g \in {h} : /\ g \in DOMAIN receipts /\ receipts[g].active
                         /\ ~messages[receipts[g].message].deleted
      BY <3>1 DEF HandleUsable
    <3> QED
      BY <2>1, <3>1, <3>2, RenewRefines
  <2>4. Leases!LNext
    BY <1>1, <1>3, <2>1, <2>2, <2>3, MaintainRefines, SendRefines, RedriveRefines,
       GrantRefines, DeleteRefines DEF TableStep
  <2> QED
    BY <2>4
<1> QED
  BY <1>2, <1>3

LEMMA InitRefines == SectionInit => Leases!LInit
<1> SUFFICES ASSUME SectionInit PROVE Leases!LInit
  OBVIOUS
<1>1. messages = << >> /\ receipts = << >> /\ clock = Second
  BY DEF SectionInit
<1>2. DOMAIN messages = 1 .. 0 /\ Len(receipts) = 0
  BY <1>1
<1>3. ASSUME NEW f, f = [r \in 1 .. 0 |-> f[r]]
      PROVE  f = << >>
  <2>1. f \in [1 .. 0 -> Nat]
    BY <1>3
  <2>2. f \in Seq(Nat) /\ Len(f) = 0
    BY <2>1, LenProperties, SeqDef
  <2> QED
    BY <2>2, EmptySeq
<1>4. placeBar = << >> /\ holderBar = << >> /\ untilBar = << >>
  <2>1. /\ placeBar = [r \in 1 .. 0 |-> placeBar[r]]
        /\ holderBar = [r \in 1 .. 0 |-> holderBar[r]]
        /\ untilBar = [r \in 1 .. 0 |-> untilBar[r]]
    BY <1>2 DEF placeBar, holderBar, untilBar
  <2> QED
    BY <1>3, <2>1
<1> QED
  BY <1>1, <1>2, <1>4, TimeAssumption DEF Leases!LInit

\* As long as the statements of two sections do not interleave:
\* The message plane implements the abstract lease queue for every number of
\* requests, rows and receipts: whatever the interleaving, grants are of free
\* messages only and under fresh tokens, renewals of held ones, a redrive voids
\* the token, and what is gone stays gone (ReceiveMessage, replayReceiveAttempt,
\* redriveMessage, reapQueue, DeleteMessage, ChangeMessageVisibility).
LEMMA RefineApart == SectionSpec => RefinesLeaseQueue
<1>1. SectionInit => TypeInv /\ NowNotAhead
  BY TypeInit DEF SectionInit, NowNotAhead
<1>2. TypeInv /\ NowNotAhead /\ [SectionNext]_planeVars => (TypeInv /\ NowNotAhead)'
  BY TypeStep, NowStep
<1>3. TypeInv /\ NowNotAhead /\ [SectionNext]_planeVars => [Leases!LNext]_(Leases!lvars)
  BY StepRefines
<1>4. SectionSpec => Leases!LSpec
  BY <1>1, <1>2, <1>3, InitRefines, PTL DEF SectionSpec, Leases!LSpec
<1> QED
  BY <1>4 DEF RefinesLeaseQueue

=============================================================================
