---------------------------- MODULE MessageSteps ----------------------------
(***************************************************************************)
(* ReceiveMessage, DeleteMessage, ChangeMessageVisibility and SendMessage   *)
(* at the granularity of the store: every call on the store is one          *)
(* autocommitted SQL statement, no lock or transaction spans two of them,   *)
(* and UpdateMessage and UpdateReceipt write whole rows from the copy the   *)
(* handler read earlier.  A client may disconnect and the server may crash  *)
(* between any two statements; the tables survive.                          *)
(*                                                                          *)
(* One standard queue takes receives of one message at a time, one FIFO     *)
(* queue takes sends with a deduplication id.  Nothing expires by retention *)
(* and nothing is purged, so that of maintain only the reaping of the       *)
(* deduplication ledger is left.                                            *)
(***************************************************************************)
EXTENDS Naturals, Sequences, FiniteSets

CONSTANTS
  Procs,             \* handlers that may run concurrently
  DedupIds, NoDedup, \* deduplication ids; NoDedup marks a standard send
  Timeouts,          \* visibility timeouts clients ask for
  DedupWindow,       \* fifoDedupWindow
  MayFail,           \* clients disconnect and the server crashes
  MaxClock, MaxRows, MaxReceipts

ASSUME StepsAssumption ==
  /\ NoDedup \notin DedupIds
  /\ Timeouts \subseteq Nat
  /\ DedupWindow \in Nat \ {0}
  /\ MayFail \in BOOLEAN
  /\ MaxClock \in Nat /\ MaxRows \in Nat /\ MaxReceipts \in Nat

VARIABLES
  clock,
  messages,  \* row id -> row
  receipts,  \* handle -> row
  ledger,    \* deduplication id -> expires_at, 0 when there is no row
  procs,     \* handler -> its local variables
  acked      \* history: rows whose DeleteMessage was acknowledged

svars == <<clock, messages, receipts, ledger, procs, acked>>

Row == [dedup : DedupIds \cup {NoDedup}, sentAt : Nat, receiveCount : Nat,
        visibilityDeadline : Nat, deleted : BOOLEAN]

Receipt == [message : Nat, visibilityDeadline : Nat, active : BOOLEAN]

Idle == [pc |-> "idle"]

Proc ==
  {Idle}
    \cup [pc : {"listed", "deactivated", "updated"}, row : Nat, msg : Row, vis : Nat]
    \cup [pc : {"delete", "change"}, h : Nat, rcpt : Receipt, now : Nat, timeout : Nat]
    \cup [pc : {"deleteLoaded", "deleteMarked", "changeLoaded", "changeStretched"},
          h : Nat, rcpt : Receipt, now : Nat, timeout : Nat, msg : Row]
    \cup [pc : {"lookup", "insert", "record"}, dedup : DedupIds \cup {NoDedup}, now : Nat]

StepsTypeOK ==
  /\ clock \in Nat
  /\ messages \in Seq(Row)
  /\ receipts \in Seq(Receipt)
  /\ ledger \in [DedupIds -> Nat]
  /\ procs \in [Procs -> Proc]
  /\ acked \subseteq Nat

-----------------------------------------------------------------------------
(* Store calls.                                                              *)

UpdateMessage(r, row) == messages' = [messages EXCEPT ![r] = row]

UpdateReceipt(h, row) == receipts' = [receipts EXCEPT ![h] = row]

DeactivateReceiptsByMessage(r) ==
  receipts' = [h \in DOMAIN receipts |->
                 [receipts[h] EXCEPT !.active = @ /\ receipts[h].message # r]]

InsertReceipt(r, deadline) ==
  receipts' = Append(receipts,
                [message |-> r, visibilityDeadline |-> deadline, active |-> TRUE])

DeleteExpiredDedupEntries(now) ==
  ledger' = [d \in DedupIds |-> IF ledger[d] <= now THEN 0 ELSE ledger[d]]

-----------------------------------------------------------------------------
(* Control.                                                                  *)

\* A handler starts: it captures now and runs the maintenance pass.
Enter(p, local) ==
  /\ procs[p] = Idle
  /\ DeleteExpiredDedupEntries(clock)
  /\ procs' = [procs EXCEPT ![p] = local]

Step(p, pc) == procs' = [procs EXCEPT ![p].pc = pc]

Done(p) == procs' = [procs EXCEPT ![p] = Idle]

-----------------------------------------------------------------------------
(* ReceiveMessage with MaxNumberOfMessages = 1 on the standard queue.        *)

Visible(r) == /\ messages[r].dedup = NoDedup
              /\ ~messages[r].deleted
              /\ messages[r].visibilityDeadline <= clock

\* ListMessagesByQueue and candidateMessages: the first visible row, copied.
ListCandidates(p, vis) ==
  /\ Len(receipts) < MaxReceipts
  /\ \E r \in DOMAIN messages :
       /\ Visible(r)
       /\ \A s \in DOMAIN messages :
            Visible(s) => \/ messages[r].sentAt < messages[s].sentAt
                          \/ messages[r].sentAt = messages[s].sentAt /\ r <= s
       /\ Enter(p, [pc |-> "listed", row |-> r, msg |-> messages[r], vis |-> vis])
  /\ UNCHANGED <<clock, messages, receipts, acked>>

\* Faulty variant: the prior receipts are left alone.
DeactivatePriorReceipts_Skipped(p) ==
  /\ procs[p].pc = "listed"
  /\ Step(p, "deactivated")
  /\ UNCHANGED <<clock, messages, receipts, ledger, acked>>

\* Faulty variant: the new receipt is inserted before the count is written.
DeactivatePriorReceipts_IssuesFirst(p) ==
  /\ procs[p].pc = "listed"
  /\ InsertReceipt(procs[p].row, clock + procs[p].vis)
  /\ Step(p, "deactivated")
  /\ UNCHANGED <<clock, messages, ledger, acked>>

DeactivatePriorReceipts(p) ==
  /\ procs[p].pc = "listed"
  /\ DeactivateReceiptsByMessage(procs[p].row)
  /\ Step(p, "deactivated")
  /\ UNCHANGED <<clock, messages, ledger, acked>>

\* Faulty variant: the deadline is stored as a duration.
WriteLease_Duration(p) ==
  /\ procs[p].pc = "deactivated"
  /\ LET leased == [procs[p].msg EXCEPT !.receiveCount = @ + 1,
                                        !.visibilityDeadline = procs[p].vis - clock]
     IN  /\ UpdateMessage(procs[p].row, leased)
         /\ procs' = [procs EXCEPT ![p].pc = "updated", ![p].msg = leased]
  /\ UNCHANGED <<clock, receipts, ledger, acked>>

\* leaseDeadline is computed here and reused for the receipt.
WriteLease(p) ==
  /\ procs[p].pc = "deactivated"
  /\ LET leased == [procs[p].msg EXCEPT !.receiveCount = @ + 1,
                                        !.visibilityDeadline = clock + procs[p].vis]
     IN  /\ UpdateMessage(procs[p].row, leased)
         /\ procs' = [procs EXCEPT ![p].pc = "updated", ![p].msg = leased]
  /\ UNCHANGED <<clock, receipts, ledger, acked>>

IssueReceipt(p) ==
  /\ procs[p].pc = "updated"
  /\ InsertReceipt(procs[p].row, procs[p].msg.visibilityDeadline)
  /\ Done(p)
  /\ UNCHANGED <<clock, messages, ledger, acked>>

-----------------------------------------------------------------------------
(* DeleteMessage and ChangeMessageVisibility.                                *)

\* ReceiptByHandle; `op' is the operation that asks.
LookupReceipt(p, op, h, timeout) ==
  /\ Enter(p, [pc |-> op, h |-> h, rcpt |-> receipts[h], now |-> clock,
               timeout |-> timeout])
  /\ UNCHANGED <<clock, messages, receipts, acked>>

Usable(p) == /\ procs[p].rcpt.active
             /\ procs[p].rcpt.visibilityDeadline > procs[p].now

\* An inactive receipt ends a delete with success and a change with an error,
\* a lapsed one both with an error: nothing is written.
RefuseReceipt(p) ==
  /\ procs[p].pc \in {"delete", "change"}
  /\ ~Usable(p)
  /\ Done(p)
  /\ UNCHANGED <<clock, messages, receipts, ledger, acked>>

\* MessageByRowID.
LoadMessage(p) ==
  /\ procs[p].pc \in {"delete", "change"}
  /\ Usable(p)
  /\ procs' = [procs EXCEPT ![p] =
       [pc |-> IF @.pc = "delete" THEN "deleteLoaded" ELSE "changeLoaded",
        h |-> @.h, rcpt |-> @.rcpt, now |-> @.now, timeout |-> @.timeout,
        msg |-> messages[@.rcpt.message]]]
  /\ UNCHANGED <<clock, messages, receipts, ledger, acked>>

\* Faulty variant: the row is only made visible again.
MarkDeleted_Released(p) ==
  /\ procs[p].pc = "deleteLoaded"
  /\ IF procs[p].msg.deleted
       THEN UNCHANGED messages
       ELSE UpdateMessage(procs[p].rcpt.message, [procs[p].msg EXCEPT !.visibilityDeadline = 0])
  /\ Step(p, "deleteMarked")
  /\ UNCHANGED <<clock, receipts, ledger, acked>>

\* deleteByReceiptHandle: mark the row, then the receipt.
MarkDeleted(p) ==
  /\ procs[p].pc = "deleteLoaded"
  /\ IF procs[p].msg.deleted
       THEN UNCHANGED messages
       ELSE UpdateMessage(procs[p].rcpt.message,
              [procs[p].msg EXCEPT !.deleted = TRUE, !.visibilityDeadline = 0])
  /\ Step(p, "deleteMarked")
  /\ UNCHANGED <<clock, receipts, ledger, acked>>

RetireReceipt(p) ==
  /\ procs[p].pc = "deleteMarked"
  /\ UpdateReceipt(procs[p].h, [procs[p].rcpt EXCEPT !.active = FALSE])
  /\ acked' = acked \cup {procs[p].rcpt.message}
  /\ Done(p)
  /\ UNCHANGED <<clock, messages, ledger>>

\* changeVisibilityByReceiptHandle: the receipt first, then the row.
StretchReceipt(p) ==
  /\ procs[p].pc = "changeLoaded"
  /\ IF procs[p].msg.deleted
       THEN Done(p) /\ UNCHANGED receipts
       ELSE /\ UpdateReceipt(procs[p].h, [procs[p].rcpt EXCEPT
                 !.visibilityDeadline = procs[p].now + procs[p].timeout])
            /\ Step(p, "changeStretched")
  /\ UNCHANGED <<clock, messages, ledger, acked>>

StretchMessage(p) ==
  /\ procs[p].pc = "changeStretched"
  /\ UpdateMessage(procs[p].rcpt.message, [procs[p].msg EXCEPT
       !.visibilityDeadline = procs[p].now + procs[p].timeout])
  /\ Done(p)
  /\ UNCHANGED <<clock, receipts, ledger, acked>>

-----------------------------------------------------------------------------
(* sendMessageEntry.                                                         *)

SendMessage(p, d) ==
  /\ Len(messages) < MaxRows
  /\ Enter(p, [pc |-> "lookup", dedup |-> d, now |-> clock])
  /\ UNCHANGED <<clock, messages, receipts, acked>>

\* DedupEntry: a hit replays the stored response.
LookupDedup(p) ==
  /\ procs[p].pc = "lookup"
  /\ IF procs[p].dedup # NoDedup /\ ledger[procs[p].dedup] > procs[p].now
       THEN Done(p)
       ELSE Step(p, "insert")
  /\ UNCHANGED <<clock, messages, receipts, ledger, acked>>

InsertMessage(p) ==
  /\ procs[p].pc = "insert"
  /\ messages' = Append(messages,
       [dedup |-> procs[p].dedup, sentAt |-> procs[p].now, receiveCount |-> 0,
        visibilityDeadline |-> 0, deleted |-> FALSE])
  /\ IF procs[p].dedup = NoDedup THEN Done(p) ELSE Step(p, "record")
  /\ UNCHANGED <<clock, receipts, ledger, acked>>

InsertDedupEntry(p) ==
  /\ procs[p].pc = "record"
  /\ ledger' = [ledger EXCEPT ![procs[p].dedup] = procs[p].now + DedupWindow]
  /\ Done(p)
  /\ UNCHANGED <<clock, messages, receipts, acked>>

-----------------------------------------------------------------------------
(* Failures and time.                                                        *)

\* The client goes away: the next store call fails and the handler returns.
Disconnect(p) ==
  /\ MayFail
  /\ procs[p] # Idle
  /\ Done(p)
  /\ UNCHANGED <<clock, messages, receipts, ledger, acked>>

\* The server stops and starts again on the same database file.
Crash ==
  /\ MayFail
  /\ procs' = [p \in Procs |-> Idle]
  /\ UNCHANGED <<clock, messages, receipts, ledger, acked>>

Tick ==
  /\ clock < MaxClock
  /\ clock' = clock + 1
  /\ UNCHANGED <<messages, receipts, ledger, procs, acked>>

StepsInit ==
  /\ clock = 1
  /\ messages = << >>
  /\ receipts = << >>
  /\ ledger = [d \in DedupIds |-> 0]
  /\ procs = [p \in Procs |-> Idle]
  /\ acked = {}

Start(p) ==
  \/ \E d \in DedupIds \cup {NoDedup} : SendMessage(p, d)
  \/ \E vis \in Timeouts : ListCandidates(p, vis)
  \/ \E h \in DOMAIN receipts : LookupReceipt(p, "delete", h, 0)
  \/ \E h \in DOMAIN receipts, timeout \in Timeouts : LookupReceipt(p, "change", h, timeout)

Continue(p) ==
  \/ DeactivatePriorReceipts(p)
  \/ WriteLease(p)
  \/ IssueReceipt(p)
  \/ RefuseReceipt(p)
  \/ LoadMessage(p)
  \/ MarkDeleted(p)
  \/ RetireReceipt(p)
  \/ StretchReceipt(p)
  \/ StretchMessage(p)
  \/ LookupDedup(p)
  \/ InsertMessage(p)
  \/ InsertDedupEntry(p)

StepsNext ==
  \/ Tick
  \/ Crash
  \/ \E p \in Procs : Start(p) \/ Continue(p) \/ Disconnect(p)

StepsSpec == StepsInit /\ [][StepsNext]_svars

-----------------------------------------------------------------------------
(* Properties.                                                               *)

\* At most one receipt of a message is active: the statements of ReceiveMessage
\* deactivate the prior receipts before the new one is inserted, and a crash
\* between them leaves a message without a receipt rather than with two.
OneActiveReceipt ==
  \A h, g \in DOMAIN receipts :
    receipts[h].active /\ receipts[g].active
      /\ receipts[h].message = receipts[g].message => h = g

\* The receive count of a row never falls behind the receipts issued for it,
\* so that maxReceiveCount is never exceeded by an interrupted receive.
CountCoversReceipts ==
  \A r \in DOMAIN messages :
    Cardinality({h \in DOMAIN receipts : receipts[h].message = r})
      <= messages[r].receiveCount

\* An acknowledged DeleteMessage is final: the message does not come back.
AckedStaysDeleted == \A r \in acked : messages[r].deleted

\* Two rows with the same deduplication id were sent at least a deduplication
\* window apart.
NoDuplicateInWindow ==
  \A r, s \in DOMAIN messages :
    r < s /\ messages[r].dedup # NoDedup /\ messages[r].dedup = messages[s].dedup
      => messages[s].sentAt >= messages[r].sentAt + DedupWindow
=============================================================================
