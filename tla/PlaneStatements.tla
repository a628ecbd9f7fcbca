--------------------------- MODULE PlaneStatements ---------------------------
(***************************************************************************)
(* The message plane with its sections taken apart.  MessagePlane takes a   *)
(* section of a handler -- one batch entry, one replay, one selection round *)
(* with its leases -- as one step.  In the code it is a sequence of store   *)
(* calls, each one autocommitted statement, with no lock and no transaction *)
(* around them: other requests come in between, time passes, and a client   *)
(* that goes away stops the handler after any of them.  What was read       *)
(* before is a copy by then, and UpdateMessage and UpdateReceipt write      *)
(* whole rows from it.                                                      *)
(*                                                                          *)
(* `open' holds the section each request is inside of, at the statement it  *)
(* executes next, with the copies the handler holds.  At most MaxSplits      *)
(* sections of a behaviour are taken apart, the others are single steps.    *)
(* With MaxSplits = 0 nothing ever comes between the statements of a        *)
(* section and none is cut off: results that need this say so               *)
(* (SectionsApart).                                                         *)
(*                                                                          *)
(* The maintenance pass with the queue lookup stays one step.               *)
(***************************************************************************)
EXTENDS MessagePlane

CONSTANT MaxSplits \* how many sections are taken apart, bound of the instance

ASSUME SplitsAssumption == MaxSplits \in Nat

VARIABLES
  open,   \* request -> the section it is inside of
  splits  \* how many sections were taken apart

vars == <<clock, deleted, purgeExpires, messages, receipts, ledger, attempts,
          reqs, accepted, doomed, open, splits>>

-----------------------------------------------------------------------------
(* The sections in progress.                                                 *)

Closed == [at |-> "closed"]

\* A row of the messages table as a handler read it.
Copy == [row : Nat, msg : Message]

\* Candidates to lease, and the handles issued so far.
LeaseSection == [at : {"deactivate", "update", "issue"}, todo : Seq(Copy), issued : Seq(Nat)]
RememberSection == [at : {"remember"}, issued : Seq(Nat)]

\* Exhausted candidates to redrive.
RedriveSection == [at : {"void", "move"}, todo : Seq(Copy)]

SendSection == [at : {"insert"}] \cup [at : {"record"}, row : Nat]

\* A handle at work; `rest' are the handles a replay has still to refresh.
ReplaySection == [at : {"find"}, rest : Seq(Nat)]
FoundSection == [at : {"load"}, handle : Nat, rcpt : Receipt, rest : Seq(Nat)]
LoadedSection == [at : {"mark", "retire", "stretch", "stretchRow"}, handle : Nat,
                  rcpt : Receipt, msg : Message, rest : Seq(Nat)]
ForgetSection == [at : {"forget"}]

Section == {Closed} \cup LeaseSection \cup RememberSection \cup RedriveSection
             \cup SendSection \cup ReplaySection \cup FoundSection
             \cup LoadedSection \cup ForgetSection

StatementsTypeOK ==
  TypeOK /\ open \in [Requests -> Section] /\ splits \in 0 .. MaxSplits

SectionsApart == MaxSplits = 0

-----------------------------------------------------------------------------
(* Control.                                                                  *)

\* A request that has no section in progress begins one.
Opens(p, section) ==
  /\ open[p] = Closed
  /\ splits < MaxSplits
  /\ open' = [open EXCEPT ![p] = section]
  /\ splits' = splits + 1

Inside(p, at) == open[p].at = at

Moves(p, section) == open' = [open EXCEPT ![p] = section] /\ UNCHANGED splits

Closes(p) == open' = [open EXCEPT ![p] = Closed] /\ UNCHANGED splits

UpdateMessage(r, row) == messages' = [messages EXCEPT ![r] = row]

UpdateReceipt(h, row) == receipts' = [receipts EXCEPT ![h] = row]

\* The batch entry at hand is done.
EntryDone(p) ==
  LET req == reqs[p] IN
  CASE req.op = "send" -> NextEntry(p, req.entries, [req EXCEPT !.entries = Tail(@)])
    [] req.op = "delete" -> NextEntry(p, req.handles, [req EXCEPT !.handles = Tail(@)])
    [] req.op = "change" -> NextEntry(p, req.changes, [req EXCEPT !.changes = Tail(@)])

-----------------------------------------------------------------------------
(* sendMessageEntry on a FIFO queue; a send to a standard queue is one       *)
(* statement.                                                                *)

\* DedupEntry finds nothing.
FindNoDuplicate(p) ==
  /\ reqs[p].op = "send"
  /\ reqs[p].queue \in FifoQueues
  /\ EntryValid(reqs[p].queue, Head(reqs[p].entries))
  /\ ~Duplicate(reqs[p].queue, Head(reqs[p].entries), reqs[p].now)
  /\ Opens(p, [at |-> "insert"])
  /\ UNCHANGED planeVars

InsertRow(p) ==
  /\ Inside(p, "insert")
  /\ LET q == reqs[p].queue
         e == Head(reqs[p].entries)
         row == Len(messages) + 1
     IN  /\ messages' = Append(messages, NewMessage(q, e, reqs[p].now))
         /\ accepted' = accepted \cup {NewSend(q, e, row, reqs[p].now)}
         /\ Moves(p, [at |-> "record", row |-> row])
  /\ UNCHANGED <<clock, deleted, purgeExpires, receipts, ledger, attempts, reqs, doomed>>

RecordSend(p) ==
  /\ Inside(p, "record")
  /\ ledger' = NewLedger(reqs[p].queue, Head(reqs[p].entries), open[p].row, reqs[p].now)
  /\ EntryDone(p)
  /\ Closes(p)
  /\ UNCHANGED <<clock, deleted, purgeExpires, messages, receipts, attempts,
                 accepted, doomed>>

-----------------------------------------------------------------------------
(* The selection rounds of ReceiveMessage.                                   *)

\* Faulty variant: the candidates are worked off from the last.
Copies_FromTheEnd(c) ==
  [i \in DOMAIN c |-> LET r == c[Len(c) + 1 - i] IN [row |-> r, msg |-> messages[r]]]

Copies(c) == [i \in DOMAIN c |-> [row |-> c[i], msg |-> messages[c[i]]]]

\* The exhausted ones among the candidates c, in their order, as the only
\* element of a set.
Exhausted(q, c) ==
  LET places == {i \in DOMAIN c : shouldRedrive(q, c[i])}
  IN  {[j \in DOMAIN f |-> c[f[j]]] :
         f \in {g \in [1 .. Cardinality(places) -> places] :
                  \A i, j \in DOMAIN g : i < j => g[i] < g[j]}}

\* ListMessagesByQueue and candidateMessages: the candidates as they were
\* read, the exhausted ones alone when there are any.
ListCandidates(p) ==
  /\ reqs[p].op = "select"
  /\ \E c \in candidateMessages(reqs[p].queue, reqs[p].max, reqs[p].now) :
       \E e \in Exhausted(reqs[p].queue, c) :
         /\ c # << >>
         /\ Opens(p, IF e = << >>
                       THEN [at |-> "deactivate", todo |-> Copies(c), issued |-> << >>]
                       ELSE [at |-> "void", todo |-> Copies(e)])
  /\ UNCHANGED planeVars

DeactivatePriors(p) ==
  /\ Inside(p, "deactivate")
  /\ receipts' = ReceiptsDeactivated({Head(open[p].todo).row})
  /\ Moves(p, [open[p] EXCEPT !.at = "update"])
  /\ UNCHANGED <<clock, deleted, purgeExpires, messages, ledger, attempts, reqs,
                 accepted, doomed>>

\* The count and the fresh deadline, into the copy and from it into the row.
WriteLease(p) ==
  /\ Inside(p, "update")
  /\ LET leased == [Head(open[p].todo) EXCEPT
                      !.msg.receiveCount = @ + 1,
                      !.msg.visibilityDeadline = clock + reqs[p].vis]
     IN  /\ UpdateMessage(leased.row, leased.msg)
         /\ Moves(p, [open[p] EXCEPT !.at = "issue", !.todo = <<leased>> \o Tail(@)])
  /\ UNCHANGED <<clock, deleted, purgeExpires, receipts, ledger, attempts, reqs,
                 accepted, doomed>>

\* InsertReceipt with the deadline that was written; then the next candidate.
IssueReceipt(p) ==
  /\ Inside(p, "issue")
  /\ LET leased == Head(open[p].todo)
         issued == Append(open[p].issued, Len(receipts) + 1)
     IN  /\ receipts' = Append(receipts,
              [queue |-> reqs[p].queue, message |-> leased.row, issuedAt |-> clock,
               visibilityDeadline |-> leased.msg.visibilityDeadline, active |-> TRUE])
         /\ \/ /\ Len(open[p].todo) > 1
               /\ Moves(p, [at |-> "deactivate", todo |-> Tail(open[p].todo),
                            issued |-> issued])
               /\ UNCHANGED reqs
            \/ /\ Len(open[p].todo) = 1 /\ reqs[p].attempt # NoAttempt
               /\ Moves(p, [at |-> "remember", issued |-> issued])
               /\ UNCHANGED reqs
            \/ /\ Len(open[p].todo) = 1 /\ reqs[p].attempt = NoAttempt
               /\ Closes(p)
               /\ Return(p)
  /\ UNCHANGED <<clock, deleted, purgeExpires, messages, ledger, attempts, accepted, doomed>>

RememberReceive(p) ==
  /\ Inside(p, "remember")
  /\ attempts' = NewAttempt(reqs[p].queue, reqs[p].attempt, open[p].issued)
  /\ Return(p)
  /\ Closes(p)
  /\ UNCHANGED <<clock, deleted, purgeExpires, messages, receipts, ledger, accepted, doomed>>

\* The next exhausted candidate, or the next selection round.
NextExhausted(p) ==
  IF Len(open[p].todo) = 1
    THEN Closes(p)
    ELSE Moves(p, [at |-> "void", todo |-> Tail(open[p].todo)])

\* redriveMessage: without a live target the message stays.
VoidReceipts(p) ==
  /\ Inside(p, "void")
  /\ IF QueueExists(RedriveTarget[reqs[p].queue])
       THEN /\ receipts' = ReceiptsDeactivated({Head(open[p].todo).row})
            /\ Moves(p, [open[p] EXCEPT !.at = "move"])
       ELSE NextExhausted(p) /\ UNCHANGED receipts
  /\ UNCHANGED <<clock, deleted, purgeExpires, messages, ledger, attempts, reqs,
                 accepted, doomed>>

MoveRow(p) ==
  /\ Inside(p, "move")
  /\ LET c == Head(open[p].todo) IN
       UpdateMessage(c.row, Redriven(c.msg, reqs[p].queue, reqs[p].now))
  /\ NextExhausted(p)
  /\ UNCHANGED <<clock, deleted, purgeExpires, receipts, ledger, attempts, reqs,
                 accepted, doomed>>

-----------------------------------------------------------------------------
(* Receipt handles: DeleteMessage, ChangeMessageVisibility and the replay of *)
(* a receive attempt.                                                        *)

\* ReceiptByHandle for an entry of a delete or change batch, judged usable.
FindReceipt(p) ==
  /\ LET req == reqs[p] IN
     \E h \in DOMAIN receipts :
       /\ \/ req.op = "delete" /\ h = Head(req.handles)
          \/ /\ req.op = "change" /\ h = Head(req.changes).handle
             /\ WithinMaxVisibility(h, Head(req.changes).timeout, req.now)
       /\ HandleUsable(req.queue, h, req.now)
       /\ Opens(p, [at |-> "load", handle |-> h, rcpt |-> receipts[h], rest |-> << >>])
  /\ UNCHANGED planeVars

\* ReceiveAttempt finds a cached response.
FindAttempt(p) ==
  /\ reqs[p].op = "replay"
  /\ \E a \in attempts :
       /\ a.queue = reqs[p].queue
       /\ a.attempt = reqs[p].attempt
       /\ a.expiresAt > reqs[p].now
       /\ Opens(p, [at |-> "find", rest |-> a.response])
  /\ UNCHANGED planeVars

\* The replay ends here; what it refreshed stays refreshed.
GiveUpReplay(p) == Goto(p, "loop") /\ Closes(p)

\* ReceiptByHandle for the next handle of the cached response.
FindCached(p) ==
  /\ Inside(p, "find")
  /\ LET h == Head(open[p].rest) IN
       IF /\ h \in DOMAIN receipts
          /\ receipts[h].active
          /\ receipts[h].visibilityDeadline > reqs[p].now
         THEN /\ Moves(p, [at |-> "load", handle |-> h, rcpt |-> receipts[h],
                           rest |-> Tail(open[p].rest)])
              /\ UNCHANGED reqs
         ELSE GiveUpReplay(p)
  /\ UNCHANGED <<clock, deleted, purgeExpires, messages, receipts, ledger, attempts,
                 accepted, doomed>>

\* MessageByRowID: the row decides whether the operation goes on.
LoadRow(p) ==
  /\ Inside(p, "load")
  /\ LET m == messages[open[p].rcpt.message]
         Loaded(at) == /\ Moves(p, [at |-> at, handle |-> open[p].handle,
                                    rcpt |-> open[p].rcpt, msg |-> m,
                                    rest |-> open[p].rest])
                       /\ UNCHANGED reqs
         replayable == /\ m.queue = reqs[p].queue
                       /\ ~m.deleted
                       /\ m.retentionDeadline > reqs[p].now
     IN  \/ reqs[p].op = "delete" /\ ~m.deleted /\ Loaded("mark")
         \/ reqs[p].op = "delete" /\ m.deleted /\ Loaded("retire")
         \/ reqs[p].op = "change" /\ ~m.deleted /\ Loaded("stretch")
         \/ reqs[p].op = "change" /\ m.deleted /\ EntryDone(p) /\ Closes(p)
         \/ reqs[p].op = "replay" /\ replayable /\ Loaded("stretch")
         \/ reqs[p].op = "replay" /\ ~replayable /\ GiveUpReplay(p)
  /\ UNCHANGED <<clock, deleted, purgeExpires, messages, receipts, ledger, attempts,
                 accepted, doomed>>

MarkRow(p) ==
  /\ Inside(p, "mark")
  /\ UpdateMessage(open[p].rcpt.message,
       [open[p].msg EXCEPT !.deleted = TRUE, !.visibilityDeadline = 0])
  /\ Moves(p, [open[p] EXCEPT !.at = "retire"])
  /\ UNCHANGED <<clock, deleted, purgeExpires, receipts, ledger, attempts, reqs,
                 accepted, doomed>>

\* A message that was already gone leaves the cached attempts alone.
RetireReceipt(p) ==
  /\ Inside(p, "retire")
  /\ UpdateReceipt(open[p].handle, [open[p].rcpt EXCEPT !.active = FALSE])
  /\ IF open[p].msg.deleted
       THEN EntryDone(p) /\ Closes(p)
       ELSE Moves(p, [at |-> "forget"]) /\ UNCHANGED reqs
  /\ UNCHANGED <<clock, deleted, purgeExpires, messages, ledger, attempts, accepted, doomed>>

\* The deadline a change or a replay sets.
NewDeadline(p) ==
  reqs[p].now + (IF reqs[p].op = "change" THEN Head(reqs[p].changes).timeout
                                          ELSE reqs[p].vis)

StretchReceipt(p) ==
  /\ Inside(p, "stretch")
  /\ UpdateReceipt(open[p].handle, [open[p].rcpt EXCEPT !.visibilityDeadline = NewDeadline(p)])
  /\ Moves(p, [open[p] EXCEPT !.at = "stretchRow"])
  /\ UNCHANGED <<clock, deleted, purgeExpires, messages, ledger, attempts, reqs,
                 accepted, doomed>>

StretchRow(p) ==
  /\ Inside(p, "stretchRow")
  /\ UpdateMessage(open[p].rcpt.message,
       [open[p].msg EXCEPT !.visibilityDeadline = NewDeadline(p)])
  /\ \/ reqs[p].op = "change" /\ Moves(p, [at |-> "forget"]) /\ UNCHANGED reqs
     \/ /\ reqs[p].op = "replay" /\ open[p].rest # << >>
        /\ Moves(p, [at |-> "find", rest |-> open[p].rest])
        /\ UNCHANGED reqs
     \/ reqs[p].op = "replay" /\ open[p].rest = << >> /\ Return(p) /\ Closes(p)
  /\ UNCHANGED <<clock, deleted, purgeExpires, receipts, ledger, attempts, accepted, doomed>>

\* InvalidateReceiveAttempts, the last statement of a delete or a change.
ForgetAttempts(p) ==
  /\ Inside(p, "forget")
  /\ attempts' = AttemptsInvalidated(reqs[p].queue)
  /\ EntryDone(p)
  /\ Closes(p)
  /\ UNCHANGED <<clock, deleted, purgeExpires, messages, receipts, ledger, accepted, doomed>>

-----------------------------------------------------------------------------
(* The specification.                                                        *)

Init == SectionInit /\ open = [p \in Requests |-> Closed] /\ splits = 0

\* A section nothing comes between.
WholeSection(p) == open[p] = Closed /\ Proceed(p) /\ UNCHANGED <<open, splits>>

\* One statement of a section that is taken apart.
Statement(p) ==
  \/ FindNoDuplicate(p)
  \/ InsertRow(p)
  \/ RecordSend(p)
  \/ ListCandidates(p)
  \/ DeactivatePriors(p)
  \/ WriteLease(p)
  \/ IssueReceipt(p)
  \/ RememberReceive(p)
  \/ VoidReceipts(p)
  \/ MoveRow(p)
  \/ FindReceipt(p)
  \/ FindAttempt(p)
  \/ FindCached(p)
  \/ LoadRow(p)
  \/ MarkRow(p)
  \/ RetireReceipt(p)
  \/ StretchReceipt(p)
  \/ StretchRow(p)
  \/ ForgetAttempts(p)

\* The client goes away, between two sections or inside one.
CutOff(p) == Disconnect(p) /\ Closes(p)

\* What happens around the sections.
Surroundings ==
  \/ Tick
  \/ RefusedRequest
  \/ \E p \in Requests : StartRequest(p)
  \/ \E q \in PurgeableQueues : PurgeQueue(q)
  \/ \E q \in DeletableQueues : DeleteQueue(q)

Next ==
  \/ Surroundings /\ UNCHANGED <<open, splits>>
  \/ \E p \in Requests : WholeSection(p) \/ Statement(p) \/ CutOff(p)

Spec == Init /\ [][Next]_vars

\* Time passes and the Go scheduler runs every handler that can run.
Fairness ==
  /\ WF_vars(Tick /\ UNCHANGED <<open, splits>>)
  /\ \A p \in Requests : WF_vars(WholeSection(p) \/ Statement(p))

FairSpec == Spec /\ Fairness

-----------------------------------------------------------------------------
(* Properties.                                                               *)

\* A receipt under which request req may delete row r.
Entitles(receipt, req, r) ==
  /\ receipt.message = r
  /\ receipt.active
  /\ receipt.queue = req.queue
  /\ receipt.visibilityDeadline > req.now

\* Request p deletes row r under a receipt of its own queue that was active and
\* had not lapsed when it looked it up: in a section by itself, or as the
\* statement that follows the look-ups.
DeletesUnderReceipt(p, r) ==
  \/ /\ reqs[p].op = "delete"
     /\ Head(reqs[p].handles) \in DOMAIN receipts
     /\ Entitles(receipts[Head(reqs[p].handles)], reqs[p], r)
  \/ /\ open[p].at = "mark"
     /\ Entitles(open[p].rcpt, reqs[p], r)

\* However the statements of several requests interleave, a message disappears
\* only because its retention ended, because a purge window covers it, or
\* because a request deletes it under a receipt it found usable; no copy that a
\* handler writes back removes one, and neither does a retired or lapsed handle
\* (deleteByReceiptHandle, UpdateMessage, reapQueue).
LossAccounted ==
  [][\A r \in DOMAIN messages :
       ~messages[r].deleted /\ messages'[r].deleted
         => \/ messages[r].retentionDeadline <= clock
            \/ purgeExpires[messages[r].queue] >= messages[r].sentAt
            \/ \E p \in Requests : DeletesUnderReceipt(p, r)]_vars
=============================================================================
