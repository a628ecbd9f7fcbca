----------------------------- MODULE StepsProofs -----------------------------
(***************************************************************************)
(* Theorems about MessageSteps.  The types hold for every set of handlers.  *)
(* That at most one receipt of a message is active, that the receive count  *)
(* covers the receipts and that an acknowledged delete is final hold when   *)
(* handlers run one at a time, whatever clients and the server interrupt:   *)
(* with two handlers TLC refutes the last one (StepsResurrection).          *)
(***************************************************************************)
EXTENDS MessageSteps, SequenceTheorems, FiniteSetTheorems, TLAPS

-----------------------------------------------------------------------------
(* The local states of a handler.                                            *)

Receiver == [pc : {"listed", "deactivated", "updated"}, row : Nat, msg : Row, vis : Nat]

Asker == [pc : {"delete", "change"}, h : Nat, rcpt : Receipt, now : Nat, timeout : Nat]

Loader == [pc : {"deleteLoaded", "deleteMarked", "changeLoaded", "changeStretched"},
           h : Nat, rcpt : Receipt, now : Nat, timeout : Nat, msg : Row]

Sender == [pc : {"lookup", "insert", "record"}, dedup : DedupIds \cup {NoDedup}, now : Nat]

Receives(s) == s.pc \in {"listed", "deactivated", "updated"}

Asks(s) == s.pc \in {"delete", "change"}

Loaded(s) == s.pc \in {"deleteLoaded", "deleteMarked", "changeLoaded", "changeStretched"}

Sends(s) == s.pc \in {"lookup", "insert", "record"}

\* The program counter of a handler tells which local variables it has.
LEMMA LocalKinds ==
  ASSUME NEW s \in Proc
  PROVE  /\ s = Idle \/ Receives(s) \/ Asks(s) \/ Loaded(s) \/ Sends(s)
         /\ s = Idle => s.pc = "idle"
         /\ Receives(s) => s \in Receiver
         /\ Asks(s) => s \in Asker
         /\ Loaded(s) => s \in Loader
         /\ Sends(s) => s \in Sender
<1>1. s = Idle \/ s \in Receiver \/ s \in Asker \/ s \in Loader \/ s \in Sender
  BY DEF Proc, Receiver, Asker, Loader, Sender
<1>2. s = Idle => s.pc = "idle"
  BY DEF Idle
<1>3. /\ s \in Receiver => Receives(s)
      /\ s \in Asker => Asks(s)
      /\ s \in Loader => Loaded(s)
      /\ s \in Sender => Sends(s)
  BY DEF Receiver, Asker, Loader, Sender, Receives, Asks, Loaded, Sends
<1> QED
  BY <1>1, <1>2, <1>3 DEF Receives, Asks, Loaded, Sends

\* Each kind is a handler's state, and stays one when its counter moves on.
LEMMA KindsOfProc ==
  /\ Idle \in Proc
  /\ Receiver \subseteq Proc /\ Asker \subseteq Proc
  /\ Loader \subseteq Proc /\ Sender \subseteq Proc
  BY DEF Proc, Receiver, Asker, Loader, Sender

\* A handler whose counter alone moves keeps its other variables.
LEMMA StepLocal ==
  ASSUME StepsTypeOK, NEW p \in Procs, NEW pc, Step(p, pc)
  PROVE  /\ \A q \in Procs : q # p => procs'[q] = procs[q]
         /\ procs'[p] = [procs[p] EXCEPT !.pc = pc]
         /\ DOMAIN procs' = Procs /\ procs' = [q \in Procs |-> procs'[q]]
  BY DEF StepsTypeOK, Step

LEMMA ReceiverStep ==
  ASSUME NEW s \in Receiver, NEW pc \in {"listed", "deactivated", "updated"}
  PROVE  /\ [s EXCEPT !.pc = pc] \in Receiver
         /\ [s EXCEPT !.pc = pc].pc = pc
         /\ [s EXCEPT !.pc = pc].row = s.row
         /\ [s EXCEPT !.pc = pc].msg = s.msg
         /\ [s EXCEPT !.pc = pc].vis = s.vis
  BY DEF Receiver

LEMMA LoaderStep ==
  ASSUME NEW s \in Loader,
         NEW pc \in {"deleteLoaded", "deleteMarked", "changeLoaded", "changeStretched"}
  PROVE  /\ [s EXCEPT !.pc = pc] \in Loader
         /\ [s EXCEPT !.pc = pc].pc = pc
         /\ [s EXCEPT !.pc = pc].h = s.h
         /\ [s EXCEPT !.pc = pc].rcpt = s.rcpt
         /\ [s EXCEPT !.pc = pc].msg = s.msg
         /\ [s EXCEPT !.pc = pc].now = s.now
         /\ [s EXCEPT !.pc = pc].timeout = s.timeout
  BY DEF Loader

LEMMA SenderStep ==
  ASSUME NEW s \in Sender, NEW pc \in {"lookup", "insert", "record"}
  PROVE  [s EXCEPT !.pc = pc] \in Sender /\ [s EXCEPT !.pc = pc].pc = pc
  BY DEF Sender

-----------------------------------------------------------------------------
(* The tables under each store call.                                         *)

LEMMA StepTables ==
  ASSUME StepsTypeOK
  PROVE  /\ Len(messages) \in Nat /\ DOMAIN messages = 1 .. Len(messages)
         /\ \A r \in DOMAIN messages : messages[r] \in Row
         /\ Len(receipts) \in Nat /\ DOMAIN receipts = 1 .. Len(receipts)
         /\ \A h \in DOMAIN receipts : receipts[h] \in Receipt
  BY DEF StepsTypeOK

LEMMA UpdatedMessage ==
  ASSUME StepsTypeOK, NEW r \in DOMAIN messages, NEW row \in Row, UpdateMessage(r, row)
  PROVE  /\ messages' \in Seq(Row) /\ DOMAIN messages' = DOMAIN messages
         /\ messages'[r] = row
         /\ \A s \in DOMAIN messages : s # r => messages'[s] = messages[s]
  BY DEF StepsTypeOK, UpdateMessage

LEMMA UpdatedReceipt ==
  ASSUME StepsTypeOK, NEW h \in DOMAIN receipts, NEW row \in Receipt, UpdateReceipt(h, row)
  PROVE  /\ receipts' \in Seq(Receipt) /\ DOMAIN receipts' = DOMAIN receipts
         /\ receipts'[h] = row
         /\ \A g \in DOMAIN receipts : g # h => receipts'[g] = receipts[g]
  BY DEF StepsTypeOK, UpdateReceipt

LEMMA DeactivatedReceipts ==
  ASSUME StepsTypeOK, NEW r, DeactivateReceiptsByMessage(r)
  PROVE  /\ receipts' \in Seq(Receipt) /\ DOMAIN receipts' = DOMAIN receipts
         /\ \A h \in DOMAIN receipts :
              /\ receipts'[h].message = receipts[h].message
              /\ receipts'[h].active <=> receipts[h].active /\ receipts[h].message # r
<1>1. \A h \in DOMAIN receipts : receipts[h] \in Receipt
  BY StepTables
<1>2. ASSUME NEW h \in DOMAIN receipts
      PROVE  /\ receipts'[h] \in Receipt
             /\ receipts'[h].message = receipts[h].message
             /\ receipts'[h].active <=> receipts[h].active /\ receipts[h].message # r
  <2>1. receipts'[h] = [receipts[h] EXCEPT !.active = @ /\ receipts[h].message # r]
    BY DEF DeactivateReceiptsByMessage
  <2> QED
    BY <1>1, <2>1 DEF Receipt
<1>3. Len(receipts) \in Nat /\ DOMAIN receipts = 1 .. Len(receipts)
  BY StepTables
<1>4. receipts' = [h \in 1 .. Len(receipts) |-> receipts'[h]]
  BY <1>3 DEF DeactivateReceiptsByMessage
<1>5. receipts' \in [1 .. Len(receipts) -> Receipt]
  BY <1>2, <1>3, <1>4
<1>6. receipts' \in Seq(Receipt)
  BY <1>3, <1>5, SeqDef
<1> QED
  BY <1>2, <1>3, <1>4, <1>6

LEMMA InsertedReceipt ==
  ASSUME StepsTypeOK, NEW r \in Nat, NEW deadline \in Nat, InsertReceipt(r, deadline)
  PROVE  /\ receipts' \in Seq(Receipt)
         /\ DOMAIN receipts' = DOMAIN receipts \cup {Len(receipts) + 1}
         /\ Len(receipts) + 1 \notin DOMAIN receipts
         /\ receipts'[Len(receipts) + 1] =
              [message |-> r, visibilityDeadline |-> deadline, active |-> TRUE]
         /\ \A h \in DOMAIN receipts : receipts'[h] = receipts[h]
<1>1. [message |-> r, visibilityDeadline |-> deadline, active |-> TRUE] \in Receipt
  BY DEF Receipt
<1> QED
  BY <1>1 DEF StepsTypeOK, InsertReceipt

LEMMA ReapedLedger ==
  ASSUME StepsTypeOK, NEW now, DeleteExpiredDedupEntries(now)
  PROVE  ledger' \in [DedupIds -> Nat]
  BY DEF StepsTypeOK, DeleteExpiredDedupEntries

-----------------------------------------------------------------------------
(* Types, for every set of handlers.  They need that nothing dangles: a      *)
(* receipt is of a row of the table, and so is what a handler remembers.     *)

HandlerRefers(s, rows, handles) ==
  /\ Receives(s) => s.row \in rows
  /\ Asks(s) \/ Loaded(s) => s.h \in handles /\ s.rcpt.message \in rows

StepsRefer ==
  /\ \A h \in DOMAIN receipts : receipts[h].message \in DOMAIN messages
  /\ \A p \in Procs : HandlerRefers(procs[p], DOMAIN messages, DOMAIN receipts)

StepsInv == StepsTypeOK /\ StepsRefer

\* The tables only grow, and stay typed and without dangling receipts.
TablesGrow ==
  /\ messages' \in Seq(Row) /\ receipts' \in Seq(Receipt) /\ ledger' \in [DedupIds -> Nat]
  /\ DOMAIN messages \subseteq DOMAIN messages' /\ DOMAIN receipts \subseteq DOMAIN receipts'
  /\ \A h \in DOMAIN receipts' : receipts'[h].message \in DOMAIN messages'

\* One handler p goes to a state that refers into the tables.
Moves(p) ==
  /\ DOMAIN procs' = Procs /\ procs' = [q \in Procs |-> procs'[q]]
  /\ \A q \in Procs : q # p => procs'[q] = procs[q]
  /\ procs'[p] \in Proc
  /\ HandlerRefers(procs'[p], DOMAIN messages', DOMAIN receipts')

LEMMA MovesKeepsTypes ==
  ASSUME StepsInv, NEW p \in Procs, TablesGrow, Moves(p),
         clock' = clock, acked' \subseteq Nat
  PROVE  StepsInv'
<1>1. \A q \in Procs : procs'[q] \in Proc
  BY DEF Moves, StepsInv, StepsTypeOK
<1>2. procs' \in [Procs -> Proc]
  BY <1>1 DEF Moves
<1>3. StepsTypeOK'
  BY <1>2 DEF StepsInv, StepsTypeOK, TablesGrow
<1>4. ASSUME NEW q \in Procs PROVE HandlerRefers(procs'[q], DOMAIN messages', DOMAIN receipts')
  <2>1. CASE q = p
    BY <2>1 DEF Moves
  <2>2. CASE q # p
    BY <2>2 DEF StepsInv, StepsRefer, Moves, HandlerRefers, TablesGrow
  <2> QED
    BY <2>1, <2>2
<1> QED
  BY <1>3, <1>4 DEF StepsInv, StepsRefer, TablesGrow

LEMMA SameTablesGrow ==
  ASSUME StepsInv, UNCHANGED <<messages, receipts>>, ledger' \in [DedupIds -> Nat]
  PROVE  TablesGrow
  BY DEF StepsInv, StepsTypeOK, StepsRefer, TablesGrow

\* A handler that has returned, been cut off, or just arrived.
LEMMA DoneMoves ==
  ASSUME StepsInv, NEW p \in Procs, Done(p)
  PROVE  Moves(p) /\ procs'[p] = Idle
<1>1. /\ DOMAIN procs' = Procs /\ procs' = [q \in Procs |-> procs'[q]]
      /\ \A q \in Procs : q # p => procs'[q] = procs[q]
      /\ procs'[p] = Idle
  BY DEF StepsInv, StepsTypeOK, Done
<1>2. HandlerRefers(Idle, DOMAIN messages', DOMAIN receipts')
  BY DEF HandlerRefers, Idle, Receives, Asks, Loaded
<1> QED
  BY <1>1, <1>2, KindsOfProc DEF Moves

LEMMA EnterMoves ==
  ASSUME StepsInv, NEW p \in Procs, NEW local \in Proc, Enter(p, local),
         UNCHANGED <<clock, messages, receipts, acked>>, HandlerRefers(local, DOMAIN messages', DOMAIN receipts')
  PROVE  StepsInv' /\ procs'[p] = local /\ \A q \in Procs : q # p => procs'[q] = procs[q]
<1>1. /\ DOMAIN procs' = Procs /\ procs' = [q \in Procs |-> procs'[q]]
      /\ \A q \in Procs : q # p => procs'[q] = procs[q]
      /\ procs'[p] = local
  BY DEF StepsInv, StepsTypeOK, Enter
<1>2. Moves(p)
  BY <1>1 DEF Moves
<1>3. TablesGrow
  BY ReapedLedger, SameTablesGrow DEF Enter, StepsInv
<1>4. acked' \subseteq Nat
  BY DEF StepsInv, StepsTypeOK
<1> QED
  BY <1>1, <1>2, <1>3, <1>4, MovesKeepsTypes

LEMMA StartTypes ==
  ASSUME StepsInv, NEW p \in Procs, Start(p)
  PROVE  StepsInv'
<1>1. ASSUME NEW d \in DedupIds \cup {NoDedup}, SendMessage(p, d) PROVE StepsInv'
  <2> DEFINE local == [pc |-> "lookup", dedup |-> d, now |-> clock]
  <2>1. local \in Sender
    BY DEF Sender, StepsInv, StepsTypeOK
  <2>2. HandlerRefers(local, DOMAIN messages', DOMAIN receipts')
    BY DEF HandlerRefers, Receives, Asks, Loaded
  <2> QED
    BY <1>1, <2>1, <2>2, KindsOfProc, EnterMoves DEF SendMessage
<1>2. ASSUME NEW vis \in Timeouts, ListCandidates(p, vis) PROVE StepsInv'
  <2>1. PICK r \in DOMAIN messages :
           Enter(p, [pc |-> "listed", row |-> r, msg |-> messages[r], vis |-> vis])
    BY <1>2 DEF ListCandidates
  <2> DEFINE local == [pc |-> "listed", row |-> r, msg |-> messages[r], vis |-> vis]
  <2>2. UNCHANGED <<clock, messages, receipts, acked>>
    BY <1>2 DEF ListCandidates
  <2>3. r \in Nat /\ messages[r] \in Row /\ vis \in Nat
    BY StepTables, StepsAssumption DEF StepsInv
  <2>4. local \in Receiver
    BY <2>3 DEF Receiver
  <2>5. HandlerRefers(local, DOMAIN messages', DOMAIN receipts')
    BY <2>2 DEF HandlerRefers, Receives, Asks, Loaded
  <2> QED
    BY <2>1, <2>2, <2>4, <2>5, KindsOfProc, EnterMoves
<1>3. ASSUME NEW op \in {"delete", "change"}, NEW h \in DOMAIN receipts,
             NEW timeout \in Nat, LookupReceipt(p, op, h, timeout)
      PROVE  StepsInv'
  <2> DEFINE local == [pc |-> op, h |-> h, rcpt |-> receipts[h], now |-> clock,
                       timeout |-> timeout]
  <2>1. UNCHANGED <<clock, messages, receipts, acked>> /\ Enter(p, local)
    BY <1>3 DEF LookupReceipt
  <2>2. h \in Nat /\ receipts[h] \in Receipt /\ clock \in Nat
    BY StepTables DEF StepsInv, StepsTypeOK
  <2>3. local \in Asker
    BY <2>2 DEF Asker
  <2>4. HandlerRefers(local, DOMAIN messages', DOMAIN receipts')
    BY <2>1 DEF HandlerRefers, Receives, Asks, Loaded, StepsInv, StepsRefer
  <2> HIDE DEF local
  <2> QED
    BY <2>1, <2>3, <2>4, KindsOfProc, EnterMoves
<1> QED
  BY <1>1, <1>2, <1>3, StepsAssumption DEF Start

LEMMA ReceiveTypes ==
  ASSUME StepsInv, NEW p \in Procs,
         DeactivatePriorReceipts(p) \/ WriteLease(p) \/ IssueReceipt(p)
  PROVE  StepsInv'
<1>1. StepsTypeOK /\ StepsRefer /\ acked \subseteq Nat /\ ledger \in [DedupIds -> Nat]
  BY DEF StepsInv, StepsTypeOK
<1>2. procs[p] \in Receiver /\ procs[p].row \in DOMAIN messages
  <2>1. Receives(procs[p])
    BY DEF DeactivatePriorReceipts, WriteLease, IssueReceipt, Receives
  <2> QED
    BY <1>1, <2>1, LocalKinds DEF StepsTypeOK, StepsRefer, HandlerRefers
<1>3. /\ procs[p].row \in Nat /\ procs[p].msg \in Row /\ procs[p].vis \in Nat
      /\ procs[p].msg.visibilityDeadline \in Nat
  BY <1>2 DEF Receiver, Row
<1>4. CASE DeactivatePriorReceipts(p)
  <2>1. DeactivateReceiptsByMessage(procs[p].row) /\ Step(p, "deactivated")
    BY <1>4 DEF DeactivatePriorReceipts
  <2>2. UNCHANGED <<clock, messages, ledger, acked>>
    BY <1>4 DEF DeactivatePriorReceipts
  <2>3. TablesGrow
    BY <1>1, <2>1, <2>2, DeactivatedReceipts DEF TablesGrow, StepsTypeOK, StepsRefer
  <2>4. procs'[p] \in Receiver /\ procs'[p].pc = "deactivated" /\ procs'[p].row = procs[p].row
    <3>1. procs'[p] = [procs[p] EXCEPT !.pc = "deactivated"]
      BY <1>1, <2>1, StepLocal
    <3> QED
      BY <1>2, <3>1 DEF Receiver
  <2>5. HandlerRefers(procs'[p], DOMAIN messages', DOMAIN receipts')
    BY <1>2, <2>2, <2>4 DEF HandlerRefers, Receives, Asks, Loaded
  <2>6. Moves(p)
    BY <1>1, <2>1, <2>4, <2>5, StepLocal, KindsOfProc DEF Moves
  <2> QED
    BY <1>1, <2>2, <2>3, <2>6, MovesKeepsTypes
<1>5. CASE WriteLease(p)
  <2> DEFINE leased == [procs[p].msg EXCEPT !.receiveCount = @ + 1,
                                            !.visibilityDeadline = clock + procs[p].vis]
  <2>1. UpdateMessage(procs[p].row, leased) /\ UNCHANGED <<clock, receipts, ledger, acked>>
    BY <1>5 DEF WriteLease
  <2>2. leased \in Row
    <3>1. clock + procs[p].vis \in Nat /\ procs[p].msg.receiveCount + 1 \in Nat
      BY <1>1, <1>3 DEF Row, StepsTypeOK
    <3> QED
      BY <1>3, <3>1 DEF Row
  <2>3. procs' = [procs EXCEPT ![p].pc = "updated", ![p].msg = leased]
    BY <1>5 DEF WriteLease
  <2> HIDE DEF leased
  <2>4. TablesGrow
    BY <1>1, <1>2, <2>1, <2>2, UpdatedMessage DEF TablesGrow, StepsTypeOK, StepsRefer
  <2>5. /\ DOMAIN procs' = Procs /\ procs' = [q \in Procs |-> procs'[q]]
        /\ \A q \in Procs : q # p => procs'[q] = procs[q]
        /\ procs'[p] = [procs[p] EXCEPT !.pc = "updated", !.msg = leased]
    BY <1>1, <2>3 DEF StepsTypeOK
  <2>6. procs'[p] \in Receiver /\ procs'[p].pc = "updated" /\ procs'[p].row = procs[p].row
    BY <1>2, <2>2, <2>5 DEF Receiver
  <2>7. HandlerRefers(procs'[p], DOMAIN messages', DOMAIN receipts')
    BY <1>2, <2>4, <2>6 DEF HandlerRefers, Receives, Asks, Loaded, TablesGrow
  <2>8. Moves(p)
    BY <2>5, <2>6, <2>7, KindsOfProc DEF Moves
  <2> QED
    BY <1>1, <2>1, <2>4, <2>8, MovesKeepsTypes
<1>6. CASE IssueReceipt(p)
  <2>1. /\ InsertReceipt(procs[p].row, procs[p].msg.visibilityDeadline) /\ Done(p)
        /\ UNCHANGED <<clock, messages, ledger, acked>>
    BY <1>6 DEF IssueReceipt
  <2>2. TablesGrow
    <3> DEFINE h == Len(receipts) + 1
    <3> DEFINE deadline == procs[p].msg.visibilityDeadline
    <3>1. /\ receipts' \in Seq(Receipt) /\ DOMAIN receipts' = DOMAIN receipts \cup {h}
          /\ receipts'[h] =
               [message |-> procs[p].row, visibilityDeadline |-> deadline, active |-> TRUE]
          /\ \A g \in DOMAIN receipts : receipts'[g] = receipts[g]
      <4> HIDE DEF deadline
      <4>1. InsertReceipt(procs[p].row, deadline) /\ deadline \in Nat
        BY <1>3, <2>1 DEF deadline
      <4> QED
        BY <1>1, <1>3, <4>1, InsertedReceipt
    <3>2. receipts'[h].message = procs[p].row
      BY <3>1
    <3> HIDE DEF h, deadline
    <3> QED
      BY <1>1, <1>2, <2>1, <3>1, <3>2 DEF TablesGrow, StepsTypeOK, StepsRefer
  <2> QED
    BY <1>1, <2>1, <2>2, DoneMoves, MovesKeepsTypes
<1> QED
  BY <1>4, <1>5, <1>6

LEMMA HandleTypes ==
  ASSUME StepsInv, NEW p \in Procs,
         \/ RefuseReceipt(p) \/ LoadMessage(p) \/ MarkDeleted(p)
         \/ RetireReceipt(p) \/ StretchReceipt(p) \/ StretchMessage(p)
  PROVE  StepsInv'
<1>1. StepsTypeOK /\ StepsRefer /\ acked \subseteq Nat /\ ledger \in [DedupIds -> Nat]
  BY DEF StepsInv, StepsTypeOK
<1>2. procs[p] \in Proc
  BY <1>1 DEF StepsTypeOK
<1>3. Asks(procs[p]) \/ Loaded(procs[p])
  BY DEF RefuseReceipt, LoadMessage, MarkDeleted, RetireReceipt, StretchReceipt,
         StretchMessage, Asks, Loaded
<1>4. procs[p].h \in DOMAIN receipts /\ procs[p].rcpt.message \in DOMAIN messages
  BY <1>1, <1>3 DEF StepsRefer, HandlerRefers
<1>5. /\ procs[p].h \in Nat /\ procs[p].rcpt \in Receipt /\ procs[p].now \in Nat
      /\ procs[p].timeout \in Nat
  BY <1>2, <1>3, LocalKinds DEF Asker, Loader
<1>6. /\ procs[p].rcpt.message \in Nat /\ procs[p].now + procs[p].timeout \in Nat
      /\ messages[procs[p].rcpt.message] \in Row
  BY <1>1, <1>4, <1>5, StepTables DEF Receipt
<1>7. Loaded(procs[p]) => procs[p] \in Loader /\ procs[p].msg \in Row
  BY <1>2, LocalKinds DEF Loader
<1>8. ASSUME NEW row \in Row, Loaded(procs[p]), UpdateMessage(procs[p].rcpt.message, row),
             UNCHANGED <<receipts, ledger>>
      PROVE  TablesGrow /\ DOMAIN messages' = DOMAIN messages
  BY <1>1, <1>4, <1>8, UpdatedMessage DEF TablesGrow, StepsTypeOK, StepsRefer
<1>9. ASSUME NEW row \in Receipt, row.message = procs[p].rcpt.message,
             UpdateReceipt(procs[p].h, row), UNCHANGED <<messages, ledger>>
      PROVE  TablesGrow /\ DOMAIN receipts' = DOMAIN receipts
  BY <1>1, <1>4, <1>9, UpdatedReceipt DEF TablesGrow, StepsTypeOK, StepsRefer
<1>10. ASSUME NEW pc \in {"deleteMarked", "changeStretched"}, Loaded(procs[p]), Step(p, pc),
              DOMAIN messages' = DOMAIN messages, DOMAIN receipts' = DOMAIN receipts
       PROVE  Moves(p)
  <2>1. procs'[p] = [procs[p] EXCEPT !.pc = pc]
    BY <1>1, <1>10, StepLocal
  <2>2. /\ procs'[p] \in Loader /\ procs'[p].h = procs[p].h
        /\ procs'[p].rcpt = procs[p].rcpt /\ procs'[p].pc = pc
    BY <1>7, <1>10, <2>1 DEF Loader
  <2>3. HandlerRefers(procs'[p], DOMAIN messages', DOMAIN receipts')
    BY <1>4, <1>10, <2>2 DEF HandlerRefers, Receives
  <2> QED
    BY <1>1, <1>10, <2>2, <2>3, StepLocal, KindsOfProc DEF Moves
<1>11. CASE RefuseReceipt(p)
  <2>1. Done(p) /\ UNCHANGED <<clock, messages, receipts, ledger, acked>>
    BY <1>11 DEF RefuseReceipt
  <2> QED
    BY <1>1, <2>1, DoneMoves, SameTablesGrow, MovesKeepsTypes
<1>12. CASE LoadMessage(p)
  <2> DEFINE local == [pc |-> IF procs[p].pc = "delete" THEN "deleteLoaded" ELSE "changeLoaded",
                       h |-> procs[p].h, rcpt |-> procs[p].rcpt, now |-> procs[p].now,
                       timeout |-> procs[p].timeout,
                       msg |-> messages[procs[p].rcpt.message]]
  <2>1. UNCHANGED <<clock, messages, receipts, ledger, acked>>
    BY <1>12 DEF LoadMessage
  <2>2. procs' = [procs EXCEPT ![p] = local]
    BY <1>12 DEF LoadMessage
  <2>3. local \in Loader
    BY <1>5, <1>6 DEF Loader
  <2>4. HandlerRefers(local, DOMAIN messages', DOMAIN receipts')
    BY <1>4, <2>1 DEF HandlerRefers, Receives
  <2> HIDE DEF local
  <2>5. /\ DOMAIN procs' = Procs /\ procs' = [q \in Procs |-> procs'[q]]
        /\ \A q \in Procs : q # p => procs'[q] = procs[q]
        /\ procs'[p] = local
    BY <1>1, <2>2 DEF StepsTypeOK
  <2>6. Moves(p)
    BY <2>3, <2>4, <2>5, KindsOfProc DEF Moves
  <2> QED
    BY <1>1, <2>1, <2>6, SameTablesGrow, MovesKeepsTypes
<1>13. CASE MarkDeleted(p)
  <2>1. /\ Loaded(procs[p]) /\ Step(p, "deleteMarked")
        /\ UNCHANGED <<clock, receipts, ledger, acked>>
    BY <1>13 DEF MarkDeleted, Loaded
  <2>2. CASE messages' = messages
    BY <1>1, <1>10, <2>1, <2>2, SameTablesGrow, MovesKeepsTypes
  <2>3. CASE messages' # messages
    <3> DEFINE row == [procs[p].msg EXCEPT !.deleted = TRUE, !.visibilityDeadline = 0]
    <3>1. UpdateMessage(procs[p].rcpt.message, row)
      BY <1>13, <2>3 DEF MarkDeleted
    <3>2. row \in Row
      BY <1>7, <2>1 DEF Row
    <3> HIDE DEF row
    <3>3. TablesGrow /\ DOMAIN messages' = DOMAIN messages
      BY <1>8, <2>1, <3>1, <3>2
    <3> QED
      BY <1>1, <1>10, <2>1, <3>3, MovesKeepsTypes
  <2> QED
    BY <2>2, <2>3
<1>14. CASE RetireReceipt(p)
  <2> DEFINE row == [procs[p].rcpt EXCEPT !.active = FALSE]
  <2>1. /\ UpdateReceipt(procs[p].h, row) /\ Done(p) /\ UNCHANGED <<clock, messages, ledger>>
        /\ acked' = acked \cup {procs[p].rcpt.message}
    BY <1>14 DEF RetireReceipt
  <2>2. row \in Receipt /\ row.message = procs[p].rcpt.message
    BY <1>5 DEF Receipt
  <2> HIDE DEF row
  <2>3. TablesGrow
    BY <1>9, <2>1, <2>2
  <2> QED
    BY <1>1, <1>6, <2>1, <2>3, DoneMoves, MovesKeepsTypes
<1>15. CASE StretchReceipt(p)
  <2>1. Loaded(procs[p]) /\ UNCHANGED <<clock, messages, ledger, acked>>
    BY <1>15 DEF StretchReceipt, Loaded
  <2>2. CASE procs[p].msg.deleted
    <3>1. Done(p) /\ UNCHANGED receipts
      BY <1>15, <2>2 DEF StretchReceipt
    <3> QED
      BY <1>1, <2>1, <3>1, DoneMoves, SameTablesGrow, MovesKeepsTypes
  <2>3. CASE ~procs[p].msg.deleted
    <3> DEFINE row == [procs[p].rcpt EXCEPT !.visibilityDeadline = procs[p].now + procs[p].timeout]
    <3>1. UpdateReceipt(procs[p].h, row) /\ Step(p, "changeStretched")
      BY <1>15, <2>3 DEF StretchReceipt
    <3>2. row \in Receipt /\ row.message = procs[p].rcpt.message
      BY <1>5, <1>6 DEF Receipt
    <3> HIDE DEF row
    <3>3. TablesGrow /\ DOMAIN receipts' = DOMAIN receipts
      BY <1>9, <2>1, <3>1, <3>2
    <3> QED
      BY <1>1, <1>10, <2>1, <3>1, <3>3, MovesKeepsTypes
  <2> QED
    BY <2>2, <2>3
<1>16. CASE StretchMessage(p)
  <2> DEFINE row == [procs[p].msg EXCEPT !.visibilityDeadline = procs[p].now + procs[p].timeout]
  <2>1. /\ Loaded(procs[p]) /\ Done(p) /\ UNCHANGED <<clock, receipts, ledger, acked>>
        /\ UpdateMessage(procs[p].rcpt.message, row)
    BY <1>16 DEF StretchMessage, Loaded
  <2>2. row \in Row
    BY <1>6, <1>7, <2>1 DEF Row
  <2> HIDE DEF row
  <2>3. TablesGrow
    BY <1>8, <2>1, <2>2
  <2> QED
    BY <1>1, <2>1, <2>3, DoneMoves, MovesKeepsTypes
<1> QED
  BY <1>11, <1>12, <1>13, <1>14, <1>15, <1>16

LEMMA SendTypes ==
  ASSUME StepsInv, NEW p \in Procs,
         LookupDedup(p) \/ InsertMessage(p) \/ InsertDedupEntry(p)
  PROVE  StepsInv'
<1>1. StepsTypeOK /\ StepsRefer /\ acked \subseteq Nat /\ ledger \in [DedupIds -> Nat]
  BY DEF StepsInv, StepsTypeOK
<1>2. procs[p] \in Sender
  <2>1. Sends(procs[p])
    BY DEF LookupDedup, InsertMessage, InsertDedupEntry, Sends
  <2> QED
    BY <1>1, <2>1, LocalKinds DEF StepsTypeOK
<1>3. procs[p].dedup \in DedupIds \cup {NoDedup} /\ procs[p].now \in Nat
  BY <1>2 DEF Sender
<1>4. ASSUME NEW pc \in {"insert", "record"}, Step(p, pc) PROVE Moves(p)
  <2>1. procs'[p] = [procs[p] EXCEPT !.pc = pc]
    BY <1>1, <1>4, StepLocal
  <2>2. procs'[p] \in Sender /\ procs'[p].pc = pc
    BY <1>2, <1>4, <2>1 DEF Sender
  <2>3. HandlerRefers(procs'[p], DOMAIN messages', DOMAIN receipts')
    BY <2>2 DEF HandlerRefers, Receives, Asks, Loaded
  <2> QED
    BY <1>1, <1>4, <2>2, <2>3, StepLocal, KindsOfProc DEF Moves
<1>5. CASE LookupDedup(p)
  <2>1. Done(p) \/ Step(p, "insert")
    BY <1>5 DEF LookupDedup
  <2>2. UNCHANGED <<clock, messages, receipts, ledger, acked>>
    BY <1>5 DEF LookupDedup
  <2> QED
    BY <1>1, <1>4, <2>1, <2>2, DoneMoves, SameTablesGrow, MovesKeepsTypes
<1>6. CASE InsertMessage(p)
  <2> DEFINE row == [dedup |-> procs[p].dedup, sentAt |-> procs[p].now, receiveCount |-> 0,
                     visibilityDeadline |-> 0, deleted |-> FALSE]
  <2>1. messages' = Append(messages, row) /\ UNCHANGED <<clock, receipts, ledger, acked>>
    BY <1>6 DEF InsertMessage
  <2>2. Done(p) \/ Step(p, "record")
    BY <1>6 DEF InsertMessage
  <2>3. row \in Row
    BY <1>3 DEF Row
  <2> HIDE DEF row
  <2>4. TablesGrow
    BY <1>1, <2>1, <2>3 DEF TablesGrow, StepsTypeOK, StepsRefer
  <2> QED
    BY <1>1, <1>4, <2>1, <2>2, <2>4, DoneMoves, MovesKeepsTypes
<1>7. CASE InsertDedupEntry(p)
  <2>1. /\ Done(p) /\ UNCHANGED <<clock, messages, receipts, acked>>
        /\ ledger' = [ledger EXCEPT ![procs[p].dedup] = procs[p].now + DedupWindow]
    BY <1>7 DEF InsertDedupEntry
  <2>2. ledger' \in [DedupIds -> Nat]
    <3>1. procs[p].now + DedupWindow \in Nat
      BY <1>3, StepsAssumption
    <3> QED
      BY <1>1, <2>1, <3>1
  <2> QED
    BY <1>1, <2>1, <2>2, DoneMoves, SameTablesGrow, MovesKeepsTypes
<1> QED
  BY <1>5, <1>6, <1>7

LEMMA StepTypes ==
  ASSUME StepsInv, [StepsNext]_svars
  PROVE  StepsInv'
<1>1. CASE Tick
  <2>1. clock' \in Nat /\ UNCHANGED <<messages, receipts, ledger, procs, acked>>
    BY <1>1 DEF Tick, StepsInv, StepsTypeOK
  <2> QED
    BY <2>1 DEF StepsInv, StepsTypeOK, StepsRefer
<1>2. CASE Crash
  <2>1. procs' = [p \in Procs |-> Idle] /\ UNCHANGED <<clock, messages, receipts, ledger, acked>>
    BY <1>2 DEF Crash
  <2>2. HandlerRefers(Idle, DOMAIN messages, DOMAIN receipts)
    BY DEF HandlerRefers, Idle, Receives, Asks, Loaded
  <2> QED
    <3>1. procs' \in [Procs -> Proc] /\ \A p \in Procs : procs'[p] = Idle
      BY <2>1, KindsOfProc
    <3> QED
      BY <2>1, <2>2, <3>1 DEF StepsInv, StepsTypeOK, StepsRefer
<1>3. ASSUME NEW p \in Procs, Continue(p) PROVE StepsInv'
  BY <1>3, ReceiveTypes, HandleTypes, SendTypes DEF Continue
<1>4. ASSUME NEW p \in Procs, Disconnect(p) PROVE StepsInv'
  <2>1. Done(p) /\ UNCHANGED <<clock, messages, receipts, ledger, acked>>
    BY <1>4 DEF Disconnect
  <2>2. ledger' \in [DedupIds -> Nat] /\ acked' \subseteq Nat
    BY <2>1 DEF StepsInv, StepsTypeOK
  <2> QED
    BY <2>1, <2>2, DoneMoves, SameTablesGrow, MovesKeepsTypes
<1>5. CASE UNCHANGED svars
  BY <1>5 DEF svars, StepsInv, StepsTypeOK, StepsRefer
<1> QED
  BY <1>1, <1>2, <1>3, <1>4, <1>5, StartTypes DEF StepsNext

LEMMA StepsInitTypes == StepsInit => StepsInv
<1> SUFFICES ASSUME StepsInit PROVE StepsInv
  OBVIOUS
<1>1. HandlerRefers(Idle, DOMAIN messages, DOMAIN receipts)
  BY DEF HandlerRefers, Idle, Receives, Asks, Loaded
<1> QED
  BY <1>1, KindsOfProc DEF StepsInit, StepsInv, StepsTypeOK, StepsRefer

\* Whatever number of handlers run their statements in whatever order, and
\* wherever clients and the server interrupt them, the tables keep their types
\* and a handler between two statements remembers a state it can resume from.
THEOREM StepsTyped == StepsSpec => []StepsTypeOK
<1>1. StepsInv => StepsTypeOK
  BY DEF StepsInv
<1> QED
  BY StepsInitTypes, StepTypes, <1>1, PTL DEF StepsSpec

-----------------------------------------------------------------------------
(* One handler at a time.  What a handler remembers is then still what the   *)
(* tables hold, however long ago it read it: no other handler wrote since.   *)

OneAtATime == \A p, q \in Procs : p = q

Issued(r, handles) == {h \in DOMAIN handles : handles[h].message = r}

Current(s, rows, handles) ==
  /\ Receives(s) => rows[s.row] = s.msg
  /\ s.pc \in {"deactivated", "updated"} =>
       \A h \in DOMAIN handles : handles[h].message = s.row => ~handles[h].active
  /\ s.pc = "updated" => Cardinality(Issued(s.row, handles)) < rows[s.row].receiveCount
  /\ Asks(s) \/ Loaded(s) =>
       /\ handles[s.h].message = s.rcpt.message
       /\ handles[s.h].active = s.rcpt.active
  /\ s.pc \in {"deleteLoaded", "changeLoaded", "changeStretched"} =>
       rows[s.rcpt.message] = s.msg
  /\ s.pc = "deleteMarked" => rows[s.rcpt.message].deleted

LocalsCurrent == \A p \in Procs : Current(procs[p], messages, receipts)

Settled ==
  /\ OneActiveReceipt
  /\ CountCoversReceipts
  /\ AckedStaysDeleted /\ acked \subseteq DOMAIN messages

SerialInv == StepsInv /\ Settled /\ LocalsCurrent

\* No receipt is issued, moved to another message or made active again.
ReceiptsFade ==
  /\ DOMAIN receipts' = DOMAIN receipts
  /\ \A h \in DOMAIN receipts : /\ receipts'[h].message = receipts[h].message
                                /\ receipts'[h].active => receipts[h].active

\* No row is lost, counted down or undeleted.
RowsAdvance ==
  \A r \in DOMAIN messages :
    /\ r \in DOMAIN messages'
    /\ messages[r].receiveCount <= messages'[r].receiveCount
    /\ messages[r].deleted => messages'[r].deleted

LEMMA IssuedCount ==
  ASSUME StepsTypeOK, NEW r
  PROVE  IsFiniteSet(Issued(r, receipts)) /\ Cardinality(Issued(r, receipts)) \in Nat
<1>1. IsFiniteSet(DOMAIN receipts)
  <2>1. Len(receipts) \in Nat /\ DOMAIN receipts = 1 .. Len(receipts)
    BY StepTables
  <2> QED
    BY <2>1, FS_Interval
<1>2. Issued(r, receipts) \in SUBSET (DOMAIN receipts)
  BY DEF Issued
<1>3. IsFiniteSet(Issued(r, receipts))
  BY <1>1, <1>2, FS_Subset
<1> QED
  BY <1>3, FS_CardinalityType

\* Every statement but the insertion of a receipt keeps what is settled.
LEMMA SettledKept ==
  ASSUME StepsInv, StepsInv', Settled, ReceiptsFade, RowsAdvance,
         \A r \in acked' : r \in acked \/ (r \in DOMAIN messages /\ messages'[r].deleted)
  PROVE  Settled'
<1>1. OneActiveReceipt'
  BY DEF Settled, OneActiveReceipt, ReceiptsFade
<1>2. \A r : Issued(r, receipts') = Issued(r, receipts)
  BY DEF Issued, ReceiptsFade
<1>3. ASSUME NEW r \in DOMAIN messages'
      PROVE  Cardinality(Issued(r, receipts')) <= messages'[r].receiveCount
  <2>1. messages'[r].receiveCount \in Nat
    <3>1. messages'[r] \in Row
      BY <1>3 DEF StepsInv, StepsTypeOK
    <3> QED
      BY <3>1 DEF Row
  <2>2. CASE r \in DOMAIN messages
    <3>1. Cardinality(Issued(r, receipts)) <= messages[r].receiveCount
      BY <2>2 DEF Settled, CountCoversReceipts, Issued
    <3>2. messages[r].receiveCount <= messages'[r].receiveCount
      BY <2>2 DEF RowsAdvance
    <3>3. messages[r].receiveCount \in Nat
      <4>1. messages[r] \in Row
        BY <2>2, StepTables DEF StepsInv
      <4> QED
        BY <4>1 DEF Row
    <3>4. Cardinality(Issued(r, receipts)) \in Nat
      BY IssuedCount DEF StepsInv
    <3>5. Cardinality(Issued(r, receipts')) = Cardinality(Issued(r, receipts))
      BY <1>2
    <3> QED
      BY <2>1, <3>1, <3>2, <3>3, <3>4, <3>5
  <2>3. CASE r \notin DOMAIN messages
    <3>1. Issued(r, receipts) = {}
      BY <2>3 DEF Issued, StepsInv, StepsRefer
    <3>2. Cardinality(Issued(r, receipts')) = 0
      BY <1>2, <3>1, FS_EmptySet
    <3> QED
      BY <2>1, <3>2
  <2> QED
    BY <2>2, <2>3
<1>4. CountCoversReceipts'
  BY <1>3 DEF CountCoversReceipts, Issued
<1>5. AckedStaysDeleted' /\ acked' \subseteq DOMAIN messages'
  BY DEF Settled, AckedStaysDeleted, RowsAdvance
<1> QED
  BY <1>1, <1>4, <1>5 DEF Settled

\* With the tables as they were, what is settled stays settled.
LEMMA SettledSame ==
  ASSUME StepsInv, StepsInv', Settled, UNCHANGED <<messages, receipts, acked>>
  PROVE  Settled'
  BY DEF Settled, OneActiveReceipt, CountCoversReceipts, AckedStaysDeleted

LEMMA IdleCurrent ==
  ASSUME NEW rows, NEW handles
  PROVE  Current(Idle, rows, handles)
  BY DEF Current, Idle, Receives, Asks, Loaded

LEMMA DoneCurrent ==
  ASSUME SerialInv, NEW p \in Procs, Done(p)
  PROVE  Current(procs'[p], messages', receipts')
  BY DoneMoves, IdleCurrent DEF SerialInv

\* Each operation starts from what the tables hold.
LEMMA StartCurrent ==
  ASSUME SerialInv, NEW p \in Procs, Start(p)
  PROVE  Settled' /\ Current(procs'[p], messages', receipts')
<1>1. UNCHANGED <<clock, messages, receipts, acked>>
  BY DEF Start, SendMessage, ListCandidates, LookupReceipt
<1>2. Settled'
  BY <1>1, StartTypes, SettledSame DEF SerialInv
<1>3. \A local : Enter(p, local) => procs'[p] = local
  BY DEF SerialInv, StepsInv, StepsTypeOK, Enter
<1>4. ASSUME NEW d, SendMessage(p, d) PROVE Current(procs'[p], messages', receipts')
  BY <1>3, <1>4 DEF SendMessage, Current, Receives, Asks, Loaded
<1>5. ASSUME NEW vis, ListCandidates(p, vis) PROVE Current(procs'[p], messages', receipts')
  BY <1>1, <1>3, <1>5 DEF ListCandidates, Current, Receives, Asks, Loaded
<1>6. ASSUME NEW op \in {"delete", "change"}, NEW h, NEW timeout, LookupReceipt(p, op, h, timeout)
      PROVE  Current(procs'[p], messages', receipts')
  BY <1>1, <1>3, <1>6 DEF LookupReceipt, Current, Receives, Asks, Loaded
<1> QED
  BY <1>2, <1>4, <1>5, <1>6 DEF Start

\* ReceiveMessage: the prior receipts go first, the count is written before the
\* receipt it counts.
LEMMA ReceiveSerial ==
  ASSUME SerialInv, NEW p \in Procs,
         DeactivatePriorReceipts(p) \/ WriteLease(p) \/ IssueReceipt(p)
  PROVE  Settled' /\ Current(procs'[p], messages', receipts')
<1> DEFINE row == procs[p].row
<1>1. /\ StepsInv /\ StepsTypeOK /\ Settled /\ Current(procs[p], messages, receipts)
      /\ StepsInv'
  BY ReceiveTypes DEF SerialInv, LocalsCurrent, StepsInv
<1>2. Receives(procs[p])
  BY DEF DeactivatePriorReceipts, WriteLease, IssueReceipt, Receives
<1>3. procs[p] \in Receiver /\ row \in DOMAIN messages /\ messages[row] = procs[p].msg
  BY <1>1, <1>2, LocalKinds DEF StepsTypeOK, StepsInv, StepsRefer, HandlerRefers, Current
<1>4. /\ procs[p].msg \in Row /\ procs[p].vis \in Nat /\ clock \in Nat /\ row \in Nat
      /\ procs[p].msg.receiveCount \in Nat /\ procs[p].msg.visibilityDeadline \in Nat
  BY <1>1, <1>3 DEF Receiver, Row, StepsTypeOK
<1>5. CASE DeactivatePriorReceipts(p)
  <2>1. /\ DeactivateReceiptsByMessage(row) /\ UNCHANGED <<messages, acked>>
        /\ Step(p, "deactivated")
    BY <1>5 DEF DeactivatePriorReceipts
  <2>2. /\ DOMAIN receipts' = DOMAIN receipts
        /\ \A h \in DOMAIN receipts :
             /\ receipts'[h].message = receipts[h].message
             /\ receipts'[h].active <=> receipts[h].active /\ receipts[h].message # row
    <3> HIDE DEF row
    <3> QED
      BY <1>1, <2>1, DeactivatedReceipts
  <2>3. ReceiptsFade
    BY <2>2 DEF ReceiptsFade
  <2>4. RowsAdvance
    BY <1>1, <2>1, StepTables DEF RowsAdvance, Row
  <2>5. Settled'
    <3>1. \A r \in acked' : r \in acked \/ (r \in DOMAIN messages /\ messages'[r].deleted)
      BY <2>1
    <3> QED
      BY <1>1, <2>3, <2>4, <3>1, SettledKept
  <2>6. /\ procs'[p].pc = "deactivated" /\ procs'[p].row = row
        /\ procs'[p].msg = procs[p].msg
    <3>1. procs'[p] = [procs[p] EXCEPT !.pc = "deactivated"]
      BY <1>1, <2>1, StepLocal
    <3> QED
      BY <1>3, <3>1 DEF Receiver
  <2>7. Current(procs'[p], messages', receipts')
    <3> HIDE DEF row
    <3> QED
      BY <1>3, <2>1, <2>2, <2>6 DEF Current, Receives, Asks, Loaded
  <2> QED
    BY <2>5, <2>7
<1>6. CASE WriteLease(p)
  <2> DEFINE leased == [procs[p].msg EXCEPT !.receiveCount = @ + 1,
                                            !.visibilityDeadline = clock + procs[p].vis]
  <2>1. UpdateMessage(row, leased) /\ UNCHANGED <<receipts, acked>>
    BY <1>6 DEF WriteLease
  <2>2. /\ leased \in Row /\ leased.receiveCount = procs[p].msg.receiveCount + 1
        /\ leased.deleted = procs[p].msg.deleted
    <3>1. clock + procs[p].vis \in Nat /\ procs[p].msg.receiveCount + 1 \in Nat
      BY <1>4
    <3> QED
      BY <1>4, <3>1 DEF Row
  <2>3. /\ procs'[p].pc = "updated" /\ procs'[p].row = row /\ procs'[p].msg = leased
    <3>1. procs'[p] = [procs[p] EXCEPT !.pc = "updated", !.msg = leased]
      BY <1>1, <1>6 DEF WriteLease, StepsTypeOK
    <3> HIDE DEF leased
    <3> QED
      BY <1>3, <3>1 DEF Receiver
  <2> HIDE DEF leased, row
  <2>4. /\ DOMAIN messages' = DOMAIN messages /\ messages'[row] = leased
        /\ \A s \in DOMAIN messages : s # row => messages'[s] = messages[s]
    BY <1>1, <1>3, <2>1, <2>2, UpdatedMessage
  <2>5. RowsAdvance
    <3>1. ASSUME NEW r \in DOMAIN messages
          PROVE  messages[r].receiveCount \in Nat
      BY <1>1, StepTables DEF Row
    <3> QED
      BY <1>3, <2>2, <2>4, <3>1 DEF RowsAdvance
  <2>6. ReceiptsFade
    BY <2>1 DEF ReceiptsFade
  <2>7. Settled'
    <3>1. \A r \in acked' : r \in acked \/ (r \in DOMAIN messages /\ messages'[r].deleted)
      BY <2>1
    <3> QED
      BY <1>1, <2>5, <2>6, <3>1, SettledKept
  <2>8. \A h \in DOMAIN receipts' : receipts'[h].message = row => ~receipts'[h].active
    <3>1. procs[p].pc = "deactivated"
      BY <1>6 DEF WriteLease
    <3>2. \A h \in DOMAIN receipts : receipts[h].message = row => ~receipts[h].active
      BY <1>1, <3>1 DEF Current, row
    <3> QED
      BY <2>1, <3>2
  <2>9. Cardinality(Issued(row, receipts')) < messages'[row].receiveCount
    <3>1. Cardinality(Issued(row, receipts)) <= messages[row].receiveCount
      BY <1>1, <1>3 DEF Settled, CountCoversReceipts, Issued
    <3>2. Cardinality(Issued(row, receipts)) \in Nat /\ Issued(row, receipts') = Issued(row, receipts)
      BY <1>1, <2>1, IssuedCount
    <3>3. messages'[row].receiveCount = messages[row].receiveCount + 1
      BY <1>3, <2>2, <2>4
    <3>4. messages[row].receiveCount \in Nat
      BY <1>3, <1>4
    <3> QED
      BY <3>1, <3>2, <3>3, <3>4
  <2>10. Current(procs'[p], messages', receipts')
    BY <2>3, <2>4, <2>8, <2>9 DEF Current, Receives, Asks, Loaded
  <2> QED
    BY <2>7, <2>10
<1>7. CASE IssueReceipt(p)
  <2> DEFINE g == Len(receipts) + 1
             deadline == procs[p].msg.visibilityDeadline
  <2>1. /\ InsertReceipt(row, deadline) /\ Done(p) /\ UNCHANGED <<messages, acked>>
        /\ procs[p].pc = "updated"
    BY <1>7 DEF IssueReceipt
  <2>2. /\ DOMAIN receipts' = DOMAIN receipts \cup {g} /\ g \notin DOMAIN receipts
        /\ receipts'[g] = [message |-> row, visibilityDeadline |-> deadline, active |-> TRUE]
        /\ \A h \in DOMAIN receipts : receipts'[h] = receipts[h]
    <3> HIDE DEF deadline, row
    <3>1. deadline \in Nat /\ row \in Nat
      BY <1>4 DEF deadline, row
    <3> QED
      BY <1>1, <2>1, <3>1, InsertedReceipt
  <2>3. receipts'[g].message = row
    BY <2>2
  <2> HIDE DEF g, deadline, row
  <2>4. \A h \in DOMAIN receipts : receipts[h].message = row => ~receipts[h].active
    BY <1>1, <2>1 DEF Current, row
  <2>5. OneActiveReceipt'
    BY <1>1, <2>2, <2>3, <2>4 DEF Settled, OneActiveReceipt
  <2>6. ASSUME NEW r \in DOMAIN messages
        PROVE  Cardinality(Issued(r, receipts')) <= messages[r].receiveCount
    <3>1. /\ IsFiniteSet(Issued(r, receipts)) /\ Cardinality(Issued(r, receipts)) \in Nat
          /\ g \notin Issued(r, receipts)
      BY <1>1, <2>2, IssuedCount DEF Issued
    <3>2. CASE r = row
      <4>1. Issued(r, receipts') = Issued(r, receipts) \cup {g}
        BY <2>2, <2>3, <3>2 DEF Issued
      <4>2. Cardinality(Issued(r, receipts) \cup {g}) = Cardinality(Issued(r, receipts)) + 1
        BY <3>1, FS_AddElement
      <4>3. Cardinality(Issued(r, receipts)) < messages[r].receiveCount
        BY <1>1, <2>1, <3>2 DEF Current, row
      <4>4. messages[r].receiveCount \in Nat
        BY <1>3, <1>4, <3>2 DEF row
      <4> DEFINE n == Cardinality(Issued(r, receipts))
                 m == Cardinality(Issued(r, receipts'))
                 k == messages[r].receiveCount
      <4>5. n \in Nat /\ k \in Nat /\ n < k /\ m = n + 1
        BY <3>1, <4>1, <4>2, <4>3, <4>4
      <4> HIDE DEF n, m, k
      <4>6. m <= k
        BY <4>5
      <4> QED
        BY <4>6 DEF m, k
    <3>3. CASE r # row
      <4>1. Issued(r, receipts') = Issued(r, receipts)
        BY <2>2, <2>3, <3>3 DEF Issued
      <4> QED
        BY <1>1, <4>1 DEF Settled, CountCoversReceipts, Issued
    <3> QED
      BY <3>2, <3>3
  <2>7. CountCoversReceipts'
    BY <2>1, <2>6 DEF CountCoversReceipts, Issued
  <2>8. Settled'
    BY <1>1, <2>1, <2>5, <2>7 DEF Settled, AckedStaysDeleted
  <2> QED
    BY <2>1, <2>8, DoneCurrent DEF row
<1> QED
  BY <1>5, <1>6, <1>7

\* DeleteMessage and ChangeMessageVisibility: both tables are written from the
\* copies, which are what the tables hold.
LEMMA HandleSerial ==
  ASSUME SerialInv, NEW p \in Procs,
         \/ RefuseReceipt(p) \/ LoadMessage(p) \/ MarkDeleted(p)
         \/ RetireReceipt(p) \/ StretchReceipt(p) \/ StretchMessage(p)
  PROVE  Settled' /\ Current(procs'[p], messages', receipts')
<1> DEFINE row == procs[p].rcpt.message
           h == procs[p].h
<1>1. /\ StepsInv /\ StepsTypeOK /\ Settled /\ Current(procs[p], messages, receipts)
      /\ StepsInv'
  BY HandleTypes DEF SerialInv, LocalsCurrent, StepsInv
<1>2. Asks(procs[p]) \/ Loaded(procs[p])
  BY DEF RefuseReceipt, LoadMessage, MarkDeleted, RetireReceipt, StretchReceipt,
         StretchMessage, Asks, Loaded
<1>3. procs[p] \in Proc /\ h \in DOMAIN receipts /\ row \in DOMAIN messages
  BY <1>1, <1>2 DEF StepsTypeOK, StepsInv, StepsRefer, HandlerRefers
<1>4. /\ procs[p].rcpt \in Receipt /\ procs[p].now + procs[p].timeout \in Nat
      /\ Loaded(procs[p]) => procs[p] \in Loader /\ procs[p].msg \in Row
  <2>1. /\ procs[p].rcpt \in Receipt /\ procs[p].now \in Nat /\ procs[p].timeout \in Nat
        /\ Loaded(procs[p]) => procs[p] \in Loader /\ procs[p].msg \in Row
    BY <1>2, <1>3, LocalKinds DEF Asker, Loader
  <2> QED
    BY <2>1
<1>5. receipts[h].message = row /\ receipts[h].active = procs[p].rcpt.active
  BY <1>1, <1>2 DEF Current
<1>6. \A r \in DOMAIN messages : messages[r] \in Row /\ messages[r].receiveCount \in Nat
  BY <1>1, StepTables DEF Row
<1>7. ASSUME NEW new \in Receipt, UpdateReceipt(h, new), UNCHANGED messages,
             new.message = row, new.active => procs[p].rcpt.active,
             \A r \in acked' : r \in acked \/ (r \in DOMAIN messages /\ messages[r].deleted)
      PROVE  /\ Settled' /\ receipts'[h] = new
  <2> HIDE DEF row, h
  <2>1. /\ DOMAIN receipts' = DOMAIN receipts /\ receipts'[h] = new
        /\ \A g \in DOMAIN receipts : g # h => receipts'[g] = receipts[g]
    BY <1>1, <1>3, <1>7, UpdatedReceipt
  <2>2. ReceiptsFade
    BY <1>5, <1>7, <2>1 DEF ReceiptsFade
  <2>3. RowsAdvance
    BY <1>6, <1>7 DEF RowsAdvance
  <2>4. \A r \in acked' : r \in acked \/ (r \in DOMAIN messages /\ messages'[r].deleted)
    BY <1>7
  <2> QED
    BY <1>1, <2>1, <2>2, <2>3, <2>4, SettledKept
<1>8. ASSUME NEW new \in Row, UpdateMessage(row, new), UNCHANGED <<receipts, acked>>,
             messages[row] = procs[p].msg, new.receiveCount = procs[p].msg.receiveCount,
             procs[p].msg.deleted => new.deleted
      PROVE  Settled' /\ messages'[row] = new
  <2> HIDE DEF row, h
  <2>1. /\ DOMAIN messages' = DOMAIN messages /\ messages'[row] = new
        /\ \A s \in DOMAIN messages : s # row => messages'[s] = messages[s]
    BY <1>1, <1>3, <1>8, UpdatedMessage
  <2>2. RowsAdvance
    BY <1>3, <1>6, <1>8, <2>1 DEF RowsAdvance
  <2>3. ReceiptsFade
    BY <1>8 DEF ReceiptsFade
  <2>4. \A r \in acked' : r \in acked \/ (r \in DOMAIN messages /\ messages'[r].deleted)
    BY <1>8
  <2> QED
    BY <1>1, <2>1, <2>2, <2>3, <2>4, SettledKept
<1>9. ASSUME NEW pc \in {"deleteMarked", "changeStretched"}, Loaded(procs[p]), Step(p, pc)
      PROVE  /\ procs'[p].pc = pc /\ procs'[p].h = h /\ procs'[p].rcpt = procs[p].rcpt
             /\ procs'[p].msg = procs[p].msg
  <2>1. procs'[p] = [procs[p] EXCEPT !.pc = pc]
    BY <1>1, <1>9, StepLocal
  <2> QED
    BY <1>4, <1>9, <2>1 DEF Loader
<1>10. CASE RefuseReceipt(p)
  <2>1. Done(p) /\ UNCHANGED <<messages, receipts, acked>>
    BY <1>10 DEF RefuseReceipt
  <2> QED
    BY <1>1, <2>1, DoneCurrent, SettledSame
<1>11. CASE LoadMessage(p)
  <2>1. UNCHANGED <<messages, receipts, acked>>
    BY <1>11 DEF LoadMessage
  <2>2. /\ procs'[p].pc \in {"deleteLoaded", "changeLoaded"} /\ procs'[p].h = h
        /\ procs'[p].rcpt = procs[p].rcpt /\ procs'[p].msg = messages[row]
    BY <1>1, <1>11 DEF LoadMessage, StepsTypeOK
  <2>3. Current(procs'[p], messages', receipts')
    <3> HIDE DEF row, h
    <3>1. procs'[p].rcpt.message = row
      BY <2>2 DEF row
    <3> QED
      BY <1>5, <2>1, <2>2, <3>1 DEF Current, Receives, Asks, Loaded
  <2> QED
    BY <1>1, <2>1, <2>3, SettledSame
<1>12. CASE MarkDeleted(p)
  <2>1. /\ Loaded(procs[p]) /\ Step(p, "deleteMarked") /\ UNCHANGED <<receipts, acked>>
        /\ procs[p].pc = "deleteLoaded"
    BY <1>12 DEF MarkDeleted, Loaded
  <2>2. messages[row] = procs[p].msg
    BY <1>1, <2>1 DEF Current
  <2>3. Settled' /\ messages'[row].deleted
    <3>1. CASE procs[p].msg.deleted
      <4>1. UNCHANGED messages
        BY <1>12, <3>1 DEF MarkDeleted
      <4> QED
        BY <1>1, <2>1, <2>2, <3>1, <4>1, SettledSame
    <3>2. CASE ~procs[p].msg.deleted
      <4> DEFINE new == [procs[p].msg EXCEPT !.deleted = TRUE, !.visibilityDeadline = 0]
      <4>1. UpdateMessage(row, new)
        BY <1>12, <3>2 DEF MarkDeleted
      <4>2. /\ new \in Row /\ new.receiveCount = procs[p].msg.receiveCount /\ new.deleted
        BY <1>4, <2>1 DEF Row
      <4> HIDE DEF new, row
      <4>3. Settled' /\ messages'[row] = new
        BY <1>8, <2>1, <2>2, <4>1, <4>2
      <4> QED
        BY <4>2, <4>3
    <3> QED
      BY <3>1, <3>2
  <2>4. Current(procs'[p], messages', receipts')
    <3>1. /\ procs'[p].pc = "deleteMarked" /\ procs'[p].h = h
          /\ procs'[p].rcpt = procs[p].rcpt
      BY <1>9, <2>1
    <3> QED
      BY <1>5, <2>1, <2>3, <3>1 DEF Current, Receives, Asks, Loaded
  <2> QED
    BY <2>3, <2>4
<1>13. CASE RetireReceipt(p)
  <2> DEFINE new == [procs[p].rcpt EXCEPT !.active = FALSE]
  <2>1. /\ UpdateReceipt(h, new) /\ Done(p) /\ UNCHANGED messages
        /\ acked' = acked \cup {row} /\ procs[p].pc = "deleteMarked"
    BY <1>13 DEF RetireReceipt
  <2>2. new \in Receipt /\ new.message = row /\ ~new.active
    BY <1>4 DEF Receipt
  <2>3. \A r \in acked' : r \in acked \/ (r \in DOMAIN messages /\ messages[r].deleted)
    BY <1>1, <1>3, <2>1 DEF Current
  <2> HIDE DEF new
  <2> QED
    BY <1>7, <2>1, <2>2, <2>3, DoneCurrent
<1>14. CASE StretchReceipt(p)
  <2>1. /\ Loaded(procs[p]) /\ UNCHANGED <<messages, acked>> /\ procs[p].pc = "changeLoaded"
    BY <1>14 DEF StretchReceipt, Loaded
  <2>2. CASE procs[p].msg.deleted
    <3>1. Done(p) /\ UNCHANGED receipts
      BY <1>14, <2>2 DEF StretchReceipt
    <3> QED
      BY <1>1, <2>1, <3>1, DoneCurrent, SettledSame
  <2>3. CASE ~procs[p].msg.deleted
    <3> DEFINE new == [procs[p].rcpt EXCEPT !.visibilityDeadline = procs[p].now + procs[p].timeout]
    <3>1. UpdateReceipt(h, new) /\ Step(p, "changeStretched")
      BY <1>14, <2>3 DEF StretchReceipt
    <3>2. new \in Receipt /\ new.message = row /\ new.active = procs[p].rcpt.active
      BY <1>4 DEF Receipt
    <3> HIDE DEF new
    <3>3. \A r \in acked' : r \in acked \/ (r \in DOMAIN messages /\ messages[r].deleted)
      BY <2>1
    <3>4. Settled' /\ receipts'[h] = new
      BY <1>7, <2>1, <3>1, <3>2, <3>3
    <3>5. /\ procs'[p].pc = "changeStretched" /\ procs'[p].h = h
          /\ procs'[p].rcpt = procs[p].rcpt /\ procs'[p].msg = procs[p].msg
      BY <1>9, <2>1, <3>1
    <3>6. messages'[row] = procs[p].msg
      BY <1>1, <2>1 DEF Current
    <3>7. Current(procs'[p], messages', receipts')
      BY <3>2, <3>4, <3>5, <3>6 DEF Current, Receives, Asks, Loaded
    <3> QED
      BY <3>4, <3>7
  <2> QED
    BY <2>2, <2>3
<1>15. CASE StretchMessage(p)
  <2> DEFINE new == [procs[p].msg EXCEPT !.visibilityDeadline = procs[p].now + procs[p].timeout]
  <2>1. /\ Loaded(procs[p]) /\ Done(p) /\ UNCHANGED <<receipts, acked>>
        /\ UpdateMessage(row, new) /\ procs[p].pc = "changeStretched"
    BY <1>15 DEF StretchMessage, Loaded
  <2>2. /\ new \in Row /\ new.receiveCount = procs[p].msg.receiveCount
        /\ new.deleted = procs[p].msg.deleted
    BY <1>4, <2>1 DEF Row
  <2>3. messages[row] = procs[p].msg
    BY <1>1, <2>1 DEF Current
  <2> HIDE DEF new
  <2> QED
    BY <1>8, <2>1, <2>2, <2>3, DoneCurrent
<1> QED
  BY <1>10, <1>11, <1>12, <1>13, <1>14, <1>15

\* SendMessage: a new row has no receipt yet.
LEMMA SendSerial ==
  ASSUME SerialInv, NEW p \in Procs,
         LookupDedup(p) \/ InsertMessage(p) \/ InsertDedupEntry(p)
  PROVE  Settled' /\ Current(procs'[p], messages', receipts')
<1>1. StepsInv /\ StepsTypeOK /\ Settled /\ StepsInv'
  BY SendTypes DEF SerialInv, StepsInv
<1>2. UNCHANGED <<receipts, acked>>
  BY DEF LookupDedup, InsertMessage, InsertDedupEntry
<1>3. Settled'
  <2>1. CASE UNCHANGED messages
    BY <1>1, <1>2, <2>1, SettledSame
  <2>2. CASE InsertMessage(p)
    <3>1. PICK row : messages' = Append(messages, row)
      BY <2>2 DEF InsertMessage
    <3>2. \A r \in DOMAIN messages : r \in DOMAIN messages' /\ messages'[r] = messages[r]
      BY <1>1, <3>1 DEF StepsTypeOK
    <3>3. \A r \in DOMAIN messages : messages[r].receiveCount \in Nat
      BY <1>1, StepTables DEF Row
    <3>4. RowsAdvance
      BY <3>2, <3>3 DEF RowsAdvance
    <3>5. ReceiptsFade
      BY <1>2 DEF ReceiptsFade
    <3>6. \A r \in acked' : r \in acked \/ (r \in DOMAIN messages /\ messages'[r].deleted)
      BY <1>2
    <3> QED
      BY <1>1, <3>4, <3>5, <3>6, SettledKept
  <2> QED
    BY <2>1, <2>2 DEF LookupDedup, InsertDedupEntry
<1>4. CASE Done(p)
  BY <1>3, <1>4, DoneCurrent
<1>5. ASSUME NEW pc \in {"insert", "record"}, Step(p, pc)
      PROVE  Current(procs'[p], messages', receipts')
  <2>1. procs[p] \in Sender
    <3>1. Sends(procs[p])
      BY DEF LookupDedup, InsertMessage, InsertDedupEntry, Sends
    <3> QED
      BY <1>1, <3>1, LocalKinds DEF StepsTypeOK
  <2>2. procs'[p] = [procs[p] EXCEPT !.pc = pc]
    BY <1>1, <1>5, StepLocal
  <2>3. procs'[p].pc = pc
    BY <2>1, <2>2 DEF Sender
  <2> QED
    BY <2>3 DEF Current, Receives, Asks, Loaded
<1> QED
  BY <1>3, <1>4, <1>5 DEF LookupDedup, InsertMessage, InsertDedupEntry

LEMMA SerialStep ==
  ASSUME OneAtATime, SerialInv, [StepsNext]_svars
  PROVE  SerialInv'
<1>1. StepsInv /\ Settled /\ StepsInv'
  BY StepTypes DEF SerialInv
<1>2. CASE Tick
  <2>1. UNCHANGED <<messages, receipts, procs, acked>>
    BY <1>2 DEF Tick
  <2>2. LocalsCurrent'
    BY <2>1 DEF SerialInv, LocalsCurrent
  <2> QED
    BY <1>1, <2>1, <2>2, SettledSame DEF SerialInv
<1>3. CASE Crash
  <2>1. UNCHANGED <<messages, receipts, acked>> /\ \A p \in Procs : procs'[p] = Idle
    BY <1>3 DEF Crash
  <2>2. LocalsCurrent'
    BY <2>1, IdleCurrent DEF LocalsCurrent
  <2> QED
    BY <1>1, <2>1, <2>2, SettledSame DEF SerialInv
<1>4. ASSUME NEW p \in Procs, Start(p) \/ Continue(p) \/ Disconnect(p) PROVE SerialInv'
  <2>1. Settled' /\ Current(procs'[p], messages', receipts')
    <3>1. CASE Start(p)
      BY <3>1, StartCurrent
    <3>2. CASE Continue(p)
      BY <3>2, ReceiveSerial, HandleSerial, SendSerial DEF Continue
    <3>3. CASE Disconnect(p)
      <4>1. Done(p) /\ UNCHANGED <<messages, receipts, acked>>
        BY <3>3 DEF Disconnect
      <4> QED
        BY <1>1, <4>1, DoneCurrent, SettledSame
    <3> QED
      BY <1>4, <3>1, <3>2, <3>3
  <2>2. \A q \in Procs : q = p
    BY DEF OneAtATime
  <2>3. LocalsCurrent'
    BY <2>1, <2>2 DEF LocalsCurrent
  <2> QED
    BY <1>1, <2>1, <2>3 DEF SerialInv
<1>5. CASE UNCHANGED svars
  <2>1. UNCHANGED <<messages, receipts, procs, acked>>
    BY <1>5 DEF svars
  <2>2. LocalsCurrent'
    BY <2>1 DEF SerialInv, LocalsCurrent
  <2> QED
    BY <1>1, <2>1, <2>2, SettledSame DEF SerialInv
<1> QED
  BY <1>2, <1>3, <1>4, <1>5 DEF StepsNext

LEMMA SerialInit == StepsInit => SerialInv
<1> SUFFICES ASSUME StepsInit PROVE SerialInv
  OBVIOUS
<1>1. LocalsCurrent
  BY IdleCurrent DEF StepsInit, LocalsCurrent
<1>2. Settled
  BY DEF StepsInit, Settled, OneActiveReceipt, CountCoversReceipts, AckedStaysDeleted
<1> QED
  BY <1>1, <1>2, StepsInitTypes DEF SerialInv

LEMMA SerialAlways ==
  ASSUME OneAtATime
  PROVE  StepsSpec => []Settled
<1>1. SerialInv => Settled
  BY DEF SerialInv
<1>2. SerialInv /\ [StepsNext]_svars => SerialInv'
  BY SerialStep
<1> QED
  BY SerialInit, <1>1, <1>2, PTL DEF StepsSpec

\* As long as one handler runs at a time, a message has at most one active
\* receipt, wherever a receive is cut off by its client or by a crash.
THEOREM ReceiptsDistinct ==
  ASSUME OneAtATime
  PROVE  StepsSpec => []OneActiveReceipt
<1>1. Settled => OneActiveReceipt
  BY DEF Settled
<1> QED
  BY SerialAlways, <1>1, PTL

\* The receive count of a row covers the receipts issued for it, so that an
\* interrupted receive costs a message one of its deliveries and never adds one.
THEOREM CountsCover ==
  ASSUME OneAtATime
  PROVE  StepsSpec => []CountCoversReceipts
<1>1. Settled => CountCoversReceipts
  BY DEF Settled
<1> QED
  BY SerialAlways, <1>1, PTL

\* An acknowledged DeleteMessage is final as long as one handler runs at a time.
\* The hypothesis is the whole matter: two handlers bring the message back.
THEOREM DeletesLast ==
  ASSUME OneAtATime
  PROVE  StepsSpec => []AckedStaysDeleted
<1>1. Settled => AckedStaysDeleted
  BY DEF Settled
<1> QED
  BY SerialAlways, <1>1, PTL
=============================================================================
