# A formal model of the SQS emulator

This directory holds a TLA+ development of the emulator in `src/`: a Go server
that speaks the SQS API and keeps its state in SQLite.  TLC checks the models on
small instances, TLAPS proves the most important results for every instance.

The server has no lock and, with one exception, no transaction around a handler:
each handler reads rows, computes, and writes whole rows back, one autocommitted
statement at a time, while other handlers do the same.  Correctness therefore
rests on *orders* – of statements inside a handler, of sections of different
handlers, and of the times (`now`) the handlers captured – and those orders are
what the models are about.

## 1. Inventory

| Component | Source | State | Operations |
|---|---|---|---|
| Message plane | `internal/service/messages.go` | rows of `messages`, `receipts`, `dedup_entries`, `receive_attempts` | SendMessage(Batch), ReceiveMessage with long poll, attempt replay and redrive, DeleteMessage(Batch), ChangeMessageVisibility(Batch), the maintenance pass `maintain` / `reapQueue` |
| Message store | `internal/storage/sqlite/message_store.go` | the same tables | one SQL statement per call; `UpdateMessage` and `UpdateReceipt` write every column |
| Queue registry | `internal/service/sqs.go`, `internal/storage/sqlite/store.go` | rows of `queues`, `pending_queue_attributes`, `queue_tags` | CreateQueue, DeleteQueue, SetQueueAttributes (delayed), AddPermission, RemovePermission, TagQueue, UntagQueue, PurgeQueue; GetQueueAttributes, ListQueues and the others read |
| Message move tasks | both service files | rows of `message_move_tasks` | start, cancel, list; `processMoveTasks` as part of `maintain` |
| HTTP front end | `internal/httpx`, `internal/service/dispatcher.go` | the requests in progress | `ServeHTTP`: detect the protocol, authenticate, decode, dispatch, encode |
| Authentication | `internal/auth` | credentials, read at start | verifies a signature in the header or the URL; bypass mode |
| Protocol codecs | `internal/protocol/json`, `internal/protocol/query` | none | decode a request, encode a reply or an error |
| Model registry | `internal/model` | the table of operations and shapes | looked up by both codecs |
| Errors, input helpers | `internal/errors`, `helpers.go` | none | error codes; accessors of the decoded input; page tokens |
| Clock | `internal/clock` | time | now, timers |
| Server process | `cmd/sqsd/main.go` | up, closing, down | start, signal, exit, restart on the same database |
| Configuration | `internal/config`, credential files | flags, read at start | none |
| Code generator | `tools/gensqs` | none | writes `registry_gen.go` at build time |

**Interaction.** The HTTP server runs one goroutine per request.  All data-plane
handlers begin alike: capture `now`, run `maintain` over the live queues of the
configured account, look the queue up.  `maintain` applies due attribute changes
in one transaction (`ApplyDueQueueMutations`), removes expired and purged
messages, closes purge windows, reaps the deduplication ledger and the attempt
cache, and advances move tasks.  There is no background worker: *what is due
happens when the next request comes*.  The components share only the database
and the clock; a handler that waits (a long poll) waits on a clock timer and its
request context.

**What is hard.**

* concurrency: selection and lease, lookup and ledger row, read and write of a
  row are separate statements;
* stale time: a handler works with the `now` it captured, the reaper of another
  request with a later one, and leases are written with a fresh one;
* order: FIFO groups, purge cut-offs that lie in the future, pending changes
  applied by effective time;
* failure: a client may go away or the server restart between two statements,
  and the database survives;
* rounding: queue rows keep whole seconds, message rows milliseconds;
* termination: the selection loop has no exit other than running out of
  exhausted messages;
* names: a request reaches a handler through two codecs, one of which builds the
  names of repeated members by rule, and handlers read members the shape of the
  operation may not have;
* paging: a page token is an offset into a list that other requests change;
* checks at different times: the authenticator reads the clock once per check.

**What makes each component correct.**

* message plane: FIFO order holds and nothing disappears without a reason, however
  the statements of requests interleave; as long as sections of handlers do not overlap,
  a usable receipt is exclusive, `maxReceiveCount` caps the leases, group lock and
  deduplication hold and what is purged is not delivered; every receive returns;
* message store: what an interrupted handler leaves is safe;
* registry: rows stay valid; an acknowledged attribute change takes effect; a
  deleted name is blocked, and purges are spaced, for their cool-downs;
* move tasks: a task takes a message from its consumers cleanly, moves it only
  where it was asked to, reports no more than it did, and ends;
* front end, codecs and registry: a handler is given what the client meant, the
  client reads what the handler answered, in both protocols and for every
  operation; listings show what is there and end;
* authentication: a request is accepted as the account whose secret signed it, and
  only while credential, date and expiry are in force.

`PROJECT.json` lists the hazards at their lines.

## 2. Modules

| Module | Contents |
|---|---|
| `MessagePlane` | the message plane; a step is one *section* of a handler |
| `PlaneStatements` | extends `MessagePlane`: sections taken apart into their SQL *statements*, with other requests, time and disconnects in between |
| `LeaseQueue` | abstract specification: a message is in one place, held by at most one token until a time |
| `MessagePlaneRefinement` | the refinement mapping from the tables to `LeaseQueue` |
| `MessageSteps` | receive, delete, visibility and send of one message, a step is one SQL *statement*; disconnects and crashes with a restart |
| `QueueRegistry` | the control plane; a handler is a read step and one or two whole-row write steps |
| `MoveTasks` | message move tasks and the passes that advance them, one store call per step; queues deleted and created anew |
| `ShapeRegistry` | the operations with the shapes of their inputs and outputs, as a table |
| `Values` | the values handlers and codecs share: kinds, results, errors, the accessors of the decoded input |
| `Codecs` | both protocols as functions on values: decoding, encoding, errors; and how clients write and read them |
| `Authentication` | the checks of a signature as operators of the request and a time |
| `FrontEnd` | requests on their way through the server, listings, lookups, and the process |
| `MessagePlaneProofs`, `LeaseProofs`, `RefinementProofs` | what every section preserves: types and leases, groups, purges and caps, the refinement of `LeaseQueue` |
| `StatementProofs` | the theorems about the message plane, for sections apart and for overlapping ones |
| `StepsProofs`, `MoveProofs`, `RegistryProofs` | theorems about `MessageSteps`, `MoveTasks`, `QueueRegistry` |
| `FrontEndProofs` | verdicts on signatures, types, the accuracy of listings |
| `MCMessagePlane`, `MCMessageSteps`, `MCQueueRegistry`, `MCMoveTasks`, `MCFrontEnd` | instances for TLC |

`FrontEnd` EXTENDS `Values` and `Authentication`.  What the codecs and the clients'
serializers compute are operator parameters of it (`HTTPWritten`, `JSONDecoded`,
`QueryEncoded`, `ReplyRead`, ...), so that it can be reasoned about without the
recursive operators of `Codecs`; `MCFrontEnd` gives them the values of `Codecs`
(`Wire == INSTANCE Codecs`), and both of its runs are of that composition.  `FrontEnd` takes a
handler as one step; what happens inside a handler is in the four modules above it,
which share the database with it.

Definitions named `X_Y` just above a definition `X` are faulty variants of `X`,
the bugs each property has been seen to catch.

### MessagePlane

*State.* `messages` and `receipts` are the tables, indexed by row id and by
receipt handle; `ledger` is `dedup_entries`, `attempts` is `receive_attempts`;
`deleted` and `purgeExpires` are the two columns of `queues` that the data plane
reads.  `reqs` holds the local variables of each handler in flight.  `accepted`
(the sends stored) and `doomed` (what a purge should remove) are history.

*Actions.*

| Action | Code |
|---|---|
| `Begin` (in every `…Batch` and `ReceiveMessage`) | `clock.Now()`, `maintain`, `ensureQueueReady` |
| `sendMessageEntry` | one entry: validation, ledger lookup, insert, ledger row |
| `replayReceiveAttempt` | the cached handles refreshed in order, up to the first unusable one |
| `ReceiveLoop`, `ReceiveNothing`, `PollWake` | the loop of `ReceiveMessage`: maintenance again, lookup again, deadline, timer |
| `RedriveRound`, `LeaseCandidates` | `selectMessagesForReceive`: redrive and select again, or deactivate, lease, issue |
| `deleteByReceiptHandle`, `changeVisibilityByReceiptHandle` | one entry of a batch |
| `PurgeQueue`, `DeleteQueue`, `RefusedRequest`, `Disconnect`, `Tick` | the control plane as the data plane sees it, failures, time |

A section is one batch entry, one replay, or one selection round with its leases.  In
the code it is a sequence of autocommitted statements, and `MessagePlane` by itself
takes it as one step.  That is a real restriction: two receives that both listed a row
before either leased it are not in it.  `PlaneStatements` has them.

*Abstractions.* A body is its digest; attributes, sizes and formats are the flag
`ok` of an entry.  Queues exist from the start with constant attributes and are
past their creation delay; no attribute change is pending and no move task runs.
The order of a FIFO group is (sent time, row id), as in the `ORDER BY`.  A
statement that fails with `SQLITE_BUSY` changes nothing, which is a stutter.  The
counters of GetQueueAttributes are left out (section 5).

### PlaneStatements

*State.* That of `MessagePlane`, and `open[p]`: the section request `p` is inside of, at
the statement it executes next, with the copies of rows and receipts the handler holds.
`splits` counts the sections taken apart, up to `MaxSplits`.

| Statements | Code |
|---|---|
| `FindNoDuplicate`, `InsertRow`, `RecordSend` | `DedupEntry`, `InsertMessage`, `InsertDedupEntry` in `sendMessageEntry` |
| `ListCandidates` | `ListMessagesByQueue` in `selectMessagesForReceive` |
| `DeactivatePriors`, `WriteLease`, `IssueReceipt`, `RememberReceive` | `DeactivateReceiptsByMessage`, `UpdateMessage`, `InsertReceipt` for each candidate, `InsertReceiveAttempt` |
| `VoidReceipts`, `MoveRow` | the two writes of `redriveMessage`, for each exhausted candidate |
| `FindReceipt`, `FindAttempt`, `FindCached`, `LoadRow` | the look-ups of a delete, a change or a replay |
| `MarkRow`, `RetireReceipt` | the writes of `deleteByReceiptHandle` |
| `StretchReceipt`, `StretchRow` | the writes of a change or a replay |
| `ForgetAttempts` | `InvalidateReceiveAttempts` |

`UpdateMessage` and `UpdateReceipt` write the whole row from the handler's copy, however
old it is.  `WholeSection` is a section nothing comes between, `CutOff` a client that goes
away between any two statements.  With `MaxSplits = 0` (`SectionsApart`) the behaviours
are those of `MessagePlane`.  The maintenance pass with the queue lookup stays one step.

### MessageSteps

Every store call of the four operations is a step, in the order of the code:
list, deactivate, update, insert receipt; look up receipt, load row, mark row,
retire receipt; look up receipt, load row, stretch receipt, stretch row; look up
ledger, insert message, insert ledger row.  `Disconnect` ends one handler and
`Crash` all of them between any two steps; the tables survive.  `MayFail` turns
both off.

### QueueRegistry

A handler's local state holds the *copy* of the row it read; `UpdateQueue` writes
every column from that copy.  Pending attribute changes carry their effective
time and are applied by `ApplyDueQueueMutations`, in the order (effective time,
id), by whichever request comes next – also to tombstones.  `Unix` drops the
fraction of a second, as the queue columns do.  `Abort` ends a handler between
two store calls.  The policy is the set of its statement ids, a tag its key.
`last_modified_at` is left out.  `maintain` takes one queue at a time, because a
pass holds one copy per queue and each is written independently of the others.

### MoveTasks

Every request begins with a pass (`maintain`): it lists the running tasks, loads
the source of each (`LoadSource`, or `FailTask` when it is deleted), leaves or
takes its messages one by one (`LeaveMessage`; `TakeMessage` for the receipts,
`WriteMessage` for the row) and writes the task row from the listed copy
(`FinishPass`).  Then the request does its own work: start (find, insert, and one
more pass), cancel (read, write), send, receive, delete.  `tasks` is
`message_move_tasks`; `moves`, `cancelled`, `acked` and `asked` (the destination of a
start and the queues as they were then) are history.  `DeleteQueue` leaves a
tombstone.  `CreateQueue` over a tombstone deletes the row first, and the foreign
keys do the rest: messages of the queue go, and so do tasks it was the source of
(`REMOVED` here), while a task it was the *destination* of stays with its
destination column set to NULL – which is the column's value for "back to where the
messages came from".  Time is left
out, so that a lease may lapse at any moment and tasks started in the same second
are listed in any order.  A receive or a delete is one step here.  `CreateQueue` comes
only while no handler is at work, which is a restriction of the model and not of the
code: a queue created anew in the middle of a pass is left out.  Composition
with `MessagePlane` is by the shared tables: this module keeps of a message what
a task reads and writes – queue, dead-letter source, lease, tombstone.

### ShapeRegistry and Codecs

`ShapeRegistry!Operations` maps each of the 23 operations to the shapes of its input
and output; a shape refers to the shapes of its members directly.  It is the part of
`registry_gen.go` that is read at run time.

A value is tagged with its kind, as the `any` of the code is.  A Query form is a
function from keys split at their dots to text, an XML body a sequence of elements,
a JSON body a value whose numbers are literals.  `DecodeQuery`, `DecodeJSON`,
`EncodeQuery`, `EncodeJSON` and the two error encoders are the code's functions of
those names, with `decodeShape`, `collectIndices`, `collectionWireName`,
`encodeShape` and `normalizeNumbers` beneath them.  `Written` and `ReadReply` are the
clients: external, and written from the names the repository's tests and `names.go`
use, not from the decoder.

### Authentication and FrontEnd

A signature is the record of what was hashed into it, so that it matches exactly
when secret, date, scope and canonical request are the same.  `buildCanonicalRequest`
takes the payload hash from `X-Amz-Content-Sha256` when the client names one, and nothing
compares that hash with the body (section 5); a signing record has the hash it names, if
any.  The clients of the model sign every header they send.  `Acceptable` says, without
following the order of the checks, what a client may count on.

*State.* `conn[c]` is the request client `c` waits for, at its stage; `listing[c]` the
listing it pages through, with the queues that were there when it began and those
created and deleted since (history); `rows` the columns of `queues` that listings and
lookups read, `tasks` how many move tasks each queue started; `process` and `exits`
the server; `mode` the authentication mode.

| Action | Code |
|---|---|
| `Ask`, `Probe`, `AskNext` | clients (external): a request, a request of a fresh server with nobody else, the next page |
| `Receive` | `ServeHTTP` to `Authenticate`; bypass mode, a missing signature |
| `CheckIdentity`, `CheckScope`, `CheckSignature` | `lookupIdentity`, `validateScope`, the rest of `authenticateHeaderSigned` or `authenticateQuerySigned`; each reads the clock |
| `Handle` | `DecodeRequest`, `Dispatch`, the handler |
| `Respond` | `EncodeResponse` or `EncodeError`, and the client reads it |
| `Tick`, `Stop`, `Exit`, `Restart` | time; signal, end of `main` with requests in progress or a crash, start on the same database |

The handlers written out are CreateQueue, DeleteQueue, GetQueueUrl, ListQueues,
ListDeadLetterSourceQueues, StartMessageMoveTask and CancelMessageMoveTask; every
other operation answers with a member of `OtherResults`, every sample of its output
shape and two errors, because what it does is in the other modules.

## 3. What TLC checks

### Runs that pass

| Run | Instance | Properties |
|---|---|---|
| `Lease` | one standard queue, two requests, one message, sent plain or delayed, two receipts, a purge window of two ticks and seconds of two ticks, retention of two ticks, which ends within the horizon; `SectionsApart` | `LeaseExclusive`, `NoSilentLoss`, `PurgedNotDelivered`, `RefinesLeaseQueue` |
| `Fifo` | one FIFO queue, two messages of one group sent in a batch under an explicit and a content-based id, two requests, receives of one or two under an attempt id, replays, visibility changes to the maximum; `SectionsApart` | `FifoNoOvertake`, `GroupHeld`, `LeaseExclusive`, `VisibilityBounded`, `DedupWindowHolds` |
| `Redrive` | a queue and its dead-letter queue, which may be deleted; two long polls; fairness; `SectionsApart` | `LeaseGrantsCapped`, `RefinesLeaseQueue`, `ReceiveReturnsOrTargetGone` |
| `Overlap` | a FIFO queue with a dead-letter queue, two messages of one group, two requests; one section of the behaviour, whichever it is, is taken apart, and whole sections of the other request, time and disconnects come in between | `StatementsTypeOK`, `FifoNoOvertake`, `LossAccounted` |
| `StepsSerial` | one handler at a time over statements, disconnects and crashes | `StepsTypeOK`, `OneActiveReceipt`, `CountCoversReceipts`, `AckedStaysDeleted` |
| `Registry` | one FIFO name, two rows, two patches, one handler at a time, restarts | `RegistryTypeOK`, `RowsValid`, `AttributesConverge`, `PurgesSpaced`, `DeletedStaysBlocked` |
| `Moves` | a dead-letter queue, its source and a third queue, two messages, two tasks (unlimited to where the messages came from, and limited to one per pass to the third queue), one receipt, one request cut off or one queue deleted and created anew, one request at a time; fairness | `MoveTypeOK`, `ReceiptInPlace`, `MovedNotAhead`, `AckedNotMoved`, `OneTaskPerSource`, `CancelIsFinal`, `MovesWhereAsked`, `TaskEnds` |
| `FrontEnd` | two accounts, four queue names, strict and bypass mode; one client that pages through listings, one that creates and deletes queues and starts and cancels tasks; every operation as a probe in three forms, every way to sign; one end of the process; fairness | `FrontTypeOK`, `HandledAsMeant`, `ReadAsAnswered`, `ListingsCarried`, `ListingAccurate`, `VerdictRight`, `ListingEnds` |

*Properties in words.*

The following suppose that sections do not overlap (`SectionsApart`).  They relate
requests with different and stale times, whose sections follow one another in any order.
Section 5 says how overlapping sections break them; only `ReceiveReturnsOrTargetGone` is
not known to break.

* `LeaseExclusive`: a receipt that would still be honoured is the only active one
  of its message and its deadline is the one that hides the row.
* `LeaseGrantsCapped`: with a redrive policy a message is leased at most
  `maxReceiveCount` times.
* `NoSilentLoss`: a message disappears by retention, by a purge window, or under
  its own active receipt, and in no other way.
* `PurgedNotDelivered`: after an accepted purge nothing that was in the queue is
  leased, except by a receive that had already begun.
* `DedupWindowHolds`: of two accepted sends with one id and scope, the second was
  accepted after the window of the first.
* `GroupHeld`: no message of a group is delivered while another one is leased.
* `VisibilityBounded`: replays and visibility changes together cannot stretch a
  lease past twelve hours and the life of the cached attempt.
* `ReceiveReturnsOrTargetGone`: every receive ends, unless a redrive policy names
  a deleted queue.
* `RefinesLeaseQueue`: the tables implement `LeaseQueue` – grants only of free
  messages under new tokens, renewals only of held ones, redrives only of free
  ones, no way back from removal.

These hold for overlapping sections, with `MaxSplits` of any size by proof:

* `FifoNoOvertake`: within a group no message is delivered before an undelivered
  predecessor, whatever copies the receives and redrives work with.
* `LossAccounted`: a message disappears by retention, by a purge window, or by a delete
  that found a usable receipt of it when it looked; a redelivery between that check and
  the write (messages.go:793-819) loses the message to its new consumer, and this is all
  that may be said of it.

The other parts of the system:

* `CountCoversReceipts`: an interrupted receive never leaves a receipt that was
  not counted, with one handler at a time.
* `AckedStaysDeleted`: an acknowledged delete is not undone, which holds with one handler
  at a time and fails with two (`StepsResurrection`).
* `AttributesConverge`: the value in effect, or the one the pending patches
  leave, is the one last asked for.
* `RowsValid`: FIFO column, `FifoQueue` attribute and name suffix agree, no
  attribute is out of range.
* `PurgesSpaced`: accepted purges of a queue are a cool-down apart.
* `DeletedStaysBlocked`: while the cool-down of an acknowledged deletion runs, no queue
  of that name is there, created or brought back.
* `ReceiptInPlace`: a usable receipt names the queue its message is in, also when
  a pass is cut off in the middle of a move.
* `MovedNotAhead`: the reported count never exceeds what was moved.
* `AckedNotMoved`: no task brings a deleted message back.
* `OneTaskPerSource`, `CancelIsFinal`: one running task per source, and none moves
  anything after its cancellation was acknowledged.
* `MovesWhereAsked`: a task with a destination moves messages there or nowhere,
  also while that queue is deleted; the exception is a destination that was created
  anew (section 5).
* `TaskEnds`: a task with a destination other than its source ends while the
  destination lives, once nothing more arrives in its source.
* `HandledAsMeant`: whichever protocol a request came in, the handler is given the
  operation and the members the client set, and the queue it named.
* `ReadAsAnswered`: the client reads in its protocol what the handler answered, an
  error with its code and status.
* `ListingsCarried`: the operation of a request stays the one asked for on its way; a
  listing handler reads the prefix, the token, the queue and the page size the client
  set, and the client reads the page and the token the handler answered.
* `ListingAccurate`: a listing taken page by page while queues come and go shows only
  queues of the caller that were there; one is shown twice only if an earlier one was
  created, and one that was there throughout is missing only if an earlier one was
  deleted.
* `ListingEnds`: paging comes to an end, unless the server does.
* `VerdictRight`: a request is accepted as the account whose secret signed it, only
  if it was acceptable at some reading of the clock, and refused only if it was not
  acceptable throughout.  It says nothing of the body, which the signature need not
  cover.

*Bounds and why they are enough.*  `MaxClock`, `MaxRows`, `MaxReceipts`,
`MaxBatch` and `MaxPatches` cut off the unbounded counters, as guards of the
actions that count.  One message, two receipts and two requests are what a
double lease, a stale delete or a revived row takes; two messages what an order
takes, also in `Overlap`, where one group is enough because groups never meet.
`MaxSplits = 1` there is one handler caught between any two of its statements by any
number of sections of the other; two handlers both caught are beyond TLC at this size,
and the proofs are for any number.  A visibility timeout of one tick, a maximum of two
and a polling interval of one keep expiry, extension and wake-up reachable within the
horizon.  `Second = 2` (`Lease`) puts requests off the second, and its retention of two
ticks ends before `MaxClock`.  `Overlap` has neither purges nor an end of retention: there
a message may only go by a delete, which is the case that matters.  The registry instance lets
a name be deleted, stay blocked for two ticks, be created again and still have
patches in flight.  In `Moves`, `MaxFailures` bounds lost clients, restarts and
deleted queues together, to one: either a pass is cut off or a queue goes and
returns.

`FrontEnd` asks its probes one at a time of a server that nothing was asked of yet,
because what they are about – members, names, signatures – does not depend on the
tables.  A probe sets each member of an input shape alone, with each of its samples,
or all of them with lists of eleven items (so that item 10 exists).  `Digits` are the
numbers 0 to 24 as text, more than the instance writes.  A queue name outside
`QueueKeys` stands for one the pattern refuses; the names in use include `q_`, which
`LIKE` matches with `qx`, and a name of another account.  `Skew = 1`, `DayLength = 2`
and `MaxClock = 2` let a request cross a midnight, a credential lapse and a date leave
its window between two checks.  `MaxTasks = 1` and `MaxExits = 1` bound tasks per queue
and ends of the process.  What clients may ask besides (`Requests`) depends on the
mode: in strict mode every page is signed and checked again, so that the listing (in JSON,
with a prefix that `LIKE` takes further) is paged without changes to the list, and with
them in bypass mode (a list of all names in Query form, the sources of a dead-letter queue
by its path).

In `MessagePlane`, a request that would pass the horizon is not started, so that no
liveness result rests on time having stopped.

`AttributesConverge` is checked with every attribute always set under the same
propagation delay; see section 5 for mixed delays.  `Registry`, `StepsSerial` and
`Moves` take one handler at a time because most of their properties fail otherwise; the
passing runs establish that restarts alone do no harm, and sections 3 (below)
and 5 record what concurrency does.

*Fairness.*  `FairSpec` assumes weak fairness of `Tick` (time passes) and of
`WholeSection(p) \/ Statement(p)` for every request (the Go scheduler runs every
goroutine that can run, and the timer of a poll fires).  Nothing is assumed about clients: they need
not start, retry or stay connected.  `FrontEnd!FairSpec` says the same of the front
end without ENABLED: a request is answered, unless the process ends; a client in the
middle of a listing goes on (`AskNext`), without which `ListingEnds` would be about
the client.  `MFairSpec` is different in one point: tasks
are request-driven (`docs/compatibility.md`, "Message move tasks are
request-driven"), so `TaskEnds` assumes that requests keep arriving, and that
only finitely many of them are cut off (`MaxFailures`).  The premise of `TaskEnds`, that
arrivals in the source end, holds in every behaviour of the instance, because `MaxRows`
ends them; a behaviour in which they do not end grows without bound and is in no finite
instance (section 5, tasks that never end).

### Runs that find a disagreement

| Run | What TLC shows |
|---|---|
| `PollDeadTarget` | the dead-letter queue is deleted; `redriveMessage` moves nothing, the selection takes that for a redrive and selects again for ever |
| `CancelByHandle` | CancelMessageMoveTask reads the member SourceArn, which its input shape does not have: a cancel by the handle alone, as the SDKs send it, never finds the task |
| `StepsResurrection` | a visibility change writes its older copy after a delete: the acknowledged message is back |
| `StepsRetriedSend` | a send is cut off before its ledger row: the client's retry is stored again |

Each is listed with the sentence it contradicts under "findings" of
`PROJECT.json`.

## 4. What is proved

TLAPS checks these theorems for every value of the constants – any number of queues,
messages, receipts, requests, tasks and names, any windows, delays and bounds – from
the named assumptions of the modules alone: the types of the constants, distinct
sentinels, batches that are not empty, positive windows, defaults that are in range.
`GoneAssumption` says that the value the refinement mapping gives a removed message
is not a queue, `TextAssumption` that queues differ in their URLs and ARNs and that a
page token means the offset it was made from, `RequestsAssumption` which requests a
client may ask (a listing is asked for with its own members, from its first page).  TLC
evaluates all of them in the runs.

### The message plane with overlapping sections

These hold of `Spec` of `PlaneStatements` for any number of requests and any `MaxSplits`:
statements of any number of handlers interleave, and each may be cut off after any of them.

| Theorem | Statement | Argument |
|---|---|---|
| `TypeCorrect` | `Spec => []StatementsTypeOK` | `IInv`: `TypeInv` adds that a handler inside a batch has an entry left and that receipts refer to rows (the foreign key); what a handler holds in `open` belongs to the operation it is in and refers to rows and receipts that exist (`Fits`), and every receipt is one of a delivered row |
| `LossesAccounted` | `Spec => LossAccounted` | the part of `IInv` about copies: what is leased, redriven or stretched is a copy that was not deleted when it was read (`CandidatesSound`, `HandleSound`), so that only `MarkRow`, a whole delete and maintenance mark a row; and what `MarkRow` holds was a usable receipt when it was looked up |
| `GroupsInOrder` | `Spec => []FifoNoOvertake` | `OrderInv`: not only the rows keep to the order but also what a handler may still write (`CopiesInOrder`) – a copy behind a receipt overtakes nothing, and a candidate at most those that are leased before it in the same section; no row or copy changes its group, its sent time or its retention, and no delivered row becomes undelivered (`RowsOnward`), so that what is in order stays so |

### The message plane with sections apart

These are about the order of sections and the stale times of requests.  Each has the
hypothesis `SectionsApart`, that is `MaxSplits = 0`: nothing comes between the statements
of one section.  The hypothesis is needed: with `MaxSplits = 1` TLC refutes each of the
statements (section 5).

| Theorem | Statement | Argument |
|---|---|---|
| `LeasesExclusive` | `Spec => []LeaseExclusive` | inductive relative to `TypeInv`: every operation that moves a deadline writes the receipt and the row, every one that issues or moves deactivates first |
| `NothingLostSilently` | `Spec => NoSilentLoss` | from `TypeInv`, action by action; only maintenance and the delete section mark rows |
| `DeduplicationHolds` | `Spec => []DedupWindowHolds` | `DedupInv`: no handler's `now` is ahead of the clock, while a window is open some ledger row answers for it (the reaper goes by the clock, a row is replaced only once it lapsed), accepted sends refer to rows |
| `LeasesEnd` | `Spec => []VisibilityBounded` | `SpanInv`: the bound alone is not inductive, because a replay moves a deadline by what the request asks for; a cached attempt expires within the deduplication window of its receipts (`AttemptsCover`) and no request asks for more than the maximum (`ReceivesWithin`) |
| `GroupsHeld` | `Spec => GroupHeld` | from `LeaseExclusive` the row of a usable receipt carries its deadline, which is ahead of every handler's `now`, so that the row blocks its group |
| `PurgesReach` | `PurgedNotDelivered`, if `PurgeableQueues \subseteq HomeQueues` and `Second <= PurgeCooldown` | `PurgeInv`: a doomed row is covered by the window its queue still carries (`PurgePending`) or is already gone for whoever selects with a later `now` (`PurgeSettled`) |
| `GrantsCapped` | `Spec => []LeaseGrantsCapped` | the count of a row is the number of receipts issued of it (`ReceiptsCounted`), by cardinality; a row below the cap is leased once per section, a row at the cap is redriven |
| `PlaneRefines` | `Spec => RefinesLeaseQueue` | initial states map to initial states, every section to one abstract step or a stutter, one lemma per section |

The other two hypotheses of `PurgesReach` are what the code has: purges take sixty
seconds, which are whole seconds, and only the queues of the configured account are
maintained (section 5 records what happens to the others).

### The statement level, move tasks and the registry

Here a step is one store call and `Procs` are the handlers.  These hold for any set of
them:

| Theorem | Statement | Argument |
|---|---|---|
| `StepsTyped` | `StepsSpec => []StepsTypeOK` | `StepsInv`: what handlers remember refers to rows and receipts that exist |
| `MoveTyped`, `MovesCounted` | `MSpec => []MoveTypeOK`, `MSpec => []MovedNotAhead` | `PassInv`: every copy of a task row, in the table or in a handler, counts no more than was moved (`Faithful`); the total a pass will write is its copy's plus its own |
| `MovesGoWhereAsked` | `MSpec => MovesWhereAsked` | the same invariant: a copy's destination is the one of the start, or NULL after that queue was created anew |
| `RegistryTyped`, `RowsStayValid` | `RSpec => []RegistryTypeOK`, `RSpec => []RowsValid` | `RegistryInv`: rows, copies, validated creations and patches, waiting or still in a handler, are valid for the *name* of their row (`RowOK`, `PatchOK`, `LocalOK`), and names never change; the attributes of one row may come from many requests, but each value is fine by itself |

The others hold when `OneAtATime`, that is `\A p, q \in Procs : p = q`: one handler
runs at a time, may be cut off between any two of its store calls, and time passes in
between.  The hypothesis is not a convenience.  With two handlers `StepsResurrection`
refutes the last theorem about `MessageSteps`, and section 5 lists the behaviours that
refute the others.  So these theorems say that crashes, restarts and disconnects *alone*
do no harm, at any size, and that what goes wrong takes two handlers.

| Theorem | Statement | Argument |
|---|---|---|
| `ReceiptsDistinct`, `CountsCover`, `DeletesLast` | `OneActiveReceipt`, `CountCoversReceipts`, `AckedStaysDeleted` of `MessageSteps` | `SerialInv`: what the handler remembers is still what the tables hold (`Current`), and after each statement of a receive the older receipts are inactive and the next one is already counted |
| `ReceiptsInPlace`, `DeletesFinal`, `OneTask`, `CancelsFinal` | `ReceiptInPlace`, `AckedNotMoved`, `OneTaskPerSource`, `CancelIsFinal` of `MoveTasks` | `SerialInv`: listed tasks are running and as the table has them, rows to move are not acknowledged, a row about to be written has no usable receipt (`LocalCurrent`) |
| `CooldownsNearlyHold` | purges are spaced and deleted names blocked for their cool-down less one second, for every `Second` | `SerialInv`: a purge window lasts from the purge that opened it or is over (`WindowsHold`); while a cool-down runs the tombstone is there (`NamesBlocked`), and it is the only row of its name (`NamesUnique`) |
| `PurgesStaySpaced`, `NamesStayBlocked` | `PurgesSpaced`, `DeletedStaysBlocked`, if `Second = 1` | the same; with a clock finer than the rows the full cool-down does not hold (section 5, whole seconds) |
| `AttributesSettle` | `AttributesConverge`, if `UniformDelays` | `ConvergeInv`: no patch waits longer than its delay (`Delayed`), so the one saved last is the last to take effect; applying what is due does not change what all patches will leave (`PatchesSettle`) |

`UniformDelays` (every attribute is always set under the same delay) is an assumption
about clients, and needed: section 5, mixed delays.

The invariants above were checked by TLC, on the instances of the runs and some with
two handlers, before they were proved.  The proof modules are laid out alike: the local
states of a handler, the invariant, what a step may do to each table, then one lemma per
action, the step, and the theorems.

### The front end: any number of clients, queues and pages

| Theorem | Statement | Argument |
|---|---|---|
| `VerdictsRight` | `Spec => VerdictRight` | `TypeInv` carries what the earlier checks have shown of a request (`Checked`): each read the clock no earlier than the request was received and no later than the next one did, so that what passed at one reading held since it was received or holds until the end |
| `FrontTyped` | `Spec /\ []ListingsCarried => []FrontTypeOK` | `TypeInv` says where each request comes from (`Asking`); `StartInv`, that only one client at a time starts a task, makes the bound on tasks inductive, which needs the operation to stay the one asked for |
| `ListingsAccurate` | `Spec /\ []ListingsCarried => []ListingAccurate` | `ListingInv`, below |

`ListingAccurate` speaks of what was shown, and says nothing of where the next page
begins, so it is not inductive.  `ListingInv` (`PagesOK`) adds, for every listing in
progress: the history accounts for the table (`Known`); what was shown may be shown
(`Base`); and at the offset the next token stands for, everything shown lies before it,
unless an earlier queue was created, and everything due and not shown lies at or after
it, unless an earlier queue was deleted (`Reached`).  A reply that is on its way to the
client has the same of the longer list (`Carried`).  Creating or deleting a queue moves the
positions of the later ones by one and is noted in the history (`ChangeNoted`), a page
adds the positions from its offset up to that of its token (`PageShows`, `PageExtends`),
and a page that is refused or lost is asked for again with the same token.  A page
without a token ends the list, and then nothing due lies beyond it (`Through`).  The
order of queues and the counting of positions are proved from the order of
`QueueKeys`, by cardinality (`PositionBounds`, `InOrderLists`).

The hypothesis `[]ListingsCarried` is what the front end needs of the codecs, and no
more.  It is stated of the parameters, and the run `FrontEnd` checks it of the codecs of
the code, in the same states as the conclusions: all that passes through a listing's
request and reply in both protocols.  `VerdictsRight` needs nothing of them.

### Only model-checked

* Liveness, `ReceiveReturnsOrTargetGone`, `TaskEnds`, `ListingEnds`: fairness and ENABLED
  are outside the prover's reach.
* `HandledAsMeant`, `ReadAsAnswered`, `ListingsCarried`: they are about `Codecs`, whose
  operators follow the nesting of shapes and values by recursion.
* The four properties the code violates.

## 5. Observations that no run carries

* *Other accounts.*  `maintain` lists the queues of the configured account only.
  A queue of another authenticated account – a member of `Queues` outside
  `HomeQueues` – is purged in name only: the window opens, nothing is deleted, and
  `PurgedNotDelivered` fails; its messages do not expire from the table either.
* *Overlapping sections.*  No lock and no transaction keeps the statements of two
  handlers apart, and `docs/compatibility.md` says only that the emulator does not
  *intentionally* model duplicate delivery.  With `MaxSplits = 1` TLC finds, in behaviours
  of at most seventeen states:
  * two receives list a row before either leases it (messages.go:187): both keep an
    active receipt and both count from the same `ReceiveCount` (`LeaseExclusive`,
    `LeaseGrantsCapped`, `RefinesLeaseQueue`); on a FIFO queue both find the group free
    (`GroupHeld`, messages.go:955);
  * two sends of one deduplication id both miss the ledger (messages.go:621), both are
    stored, and `InsertDedupEntry` replaces the row of the first (`DedupWindowHolds`);
  * a handler that read a row before a purge or a delete writes it back as it was
    (`PurgedNotDelivered`; `StepsResurrection`);
  * `StretchReceipt` makes a receipt active again that a redelivery or a redrive had
    deactivated, and a delete under it removes the message from its new consumer or from
    the dead-letter queue; so does a delete that looked its receipt up before a redelivery
    (`NoSilentLoss`, which asks for the *active* receipt; `LossAccounted` asks for what the
    delete found);
  * a receive that is slow between its receipts and its cached attempt starts the five
    minutes of the attempt late (`VisibilityBounded`).

  To see them, set `MaxSplits = 1` in `Lease.cfg`, `Fifo.cfg` or `Redrive.cfg`
  (`PurgedNotDelivered` needs a retention beyond the horizon, `VisibilityBounded` a
  maximum of three ticks and receives that ask for it).
* *Counters.*  GetQueueAttributes counts rows, not receipts (messages.go:896): between the
  lease of a row (messages.go:204) and its receipt (messages.go:216) – or until the lease
  lapses, if the client goes away there – a message is counted as not visible that
  nobody can delete, and two overlapping receives leave two usable receipts of one counted
  message.  `docs/compatibility.md` calls the counters effectively exact.  They are computed
  without a maintenance pass, so that purged messages that were not yet removed are still
  counted.
* *Move tasks under concurrency.*  With two members in `Procs`, `MoveTasks` has
  behaviours in which two starts both find no running task, a pass writes
  RUNNING or COMPLETED over an acknowledged cancellation, a message deleted
  during a pass is written back, and a receipt issued between the two writes of a
  move stays usable for a message that is elsewhere.
* *Tasks that never end.*  A task whose messages have no dead-letter source, whose
  destination was deleted, or that is limited and moves a queue to itself stays
  RUNNING, and FindRunningMoveTask returns it to every later start.  So does a limited
  task whose source gains as many messages per request as a pass may move: a pass
  completes a task only when it leaves nothing behind (messages.go:473-519), and every
  request, a SendMessage to the source too, makes one pass.  Two limited tasks in opposite
  directions feed each other in the same way.
* *A destination created anew.*  The foreign key of a task's destination is SET NULL,
  and NULL means "where the messages came from": when the destination of a running
  task is deleted and created again, the task goes on and sends dead-lettered messages
  back to their sources.  Without the exception in it, `MovesWhereAsked` fails.
* *A limit per pass.*  The limit of messages per second is applied per pass, and
  every request makes one.
* *Names in Query requests.*  The decoder follows `names.go`: system attributes of a
  message are `MessageBodySystemAttribute.N`, tags `Tag.N.Name` and `Tag.N.Value`.  The
  clients of the model write these names; the AWS documentation uses others for some.
  An entirely empty batch entry cannot be written in this form at all, and the
  samples have none.
* *Members nobody reads.*  CreateQueue ignores `tags`, GetQueueUrl ignores
  `QueueOwnerAWSAccountId`.
* *Matching.*  ListQueues matches its prefix with `LIKE`, in which `_` matches any
  character and case does not count; ListDeadLetterSourceQueues looks for the ARN
  anywhere in the text of the policy, so that a queue whose name continues the name
  is taken for it.  `ListingAccurate` allows both.
* *Bodies.*  When a client names the payload hash in `X-Amz-Content-Sha256`, that claim is
  what the signature covers (auth.go:357-363); the body is never hashed to compare it.
* *Presigned requests* are also subject to the fifteen minutes of clock skew: a longer
  expiry has no effect beyond them.
* *Shutdown* does not wait for requests in progress: `ListenAndServe` returns as soon
  as the listener is closed, and `main` with it.
* *Lost updates in the registry.*  With two members in `Procs`, `QueueRegistry` has
  behaviours in which a whole-row write undoes another request's.  A request that read
  the queue before its deletion (a purge, a permission, SetQueueAttributes, the end of
  a purge window) writes its copy back: the deleted queue is live again, although
  ErrQueueDeletedRecently (`internal/errors/api.go:85`) asks to wait, and
  `DeletedStaysBlocked` fails in the seventh state.  Two purges both pass the test of
  the window they read, against ErrPurgeQueueInProgress (`internal/errors/api.go:100`), and
  `PurgesSpaced` fails in the eighth.  A permission that was acknowledged disappears,
  and `AttributesConverge` fails.  To see them, run `Registry.cfg` with
  `Procs = {p1, p2}`.
* *Busy database.*  `ApplyDueQueueMutations` reads and then writes in one transaction,
  which ends in `SQLITE_BUSY` when another request wrote in between; the request that ran
  it fails, and the next one applies the changes.
* *Whole seconds.*  With `Second = 2`, a name is free, and a queue can be purged
  again, up to a second before its cool-down is over; `CooldownsNearlyHold` says that it
  is never more than that.
* *Mixed delays.*  A change of the retention period alone waits fifteen minutes
  and one together with another attribute one minute, so the earlier request can
  win over the later one.
* *Revived group lease.*  A visibility change tests the receipt against the `now`
  of its request; if the lease lapsed in between, it can be revived after another
  member of the FIFO group was delivered, and two consumers hold the group.
  `GroupHeld` speaks of new deliveries only and is not affected.  It takes three
  receipts: two messages received together, the first redelivered after both
  leases lapsed, then the delayed change of the second.

## 6. Not modelled

* In move tasks: time – the retention deadline of moved messages, the order of tasks
  started in different seconds.
* `ensureQueueReady`'s creation delay in the message plane: queues are past it.
* The counters of GetQueueAttributes (section 5).
* Statements inside the maintenance pass and between it and the queue lookup, in the message
  plane; the passes of move tasks are modelled by statement in `MoveTasks`.
* Message attributes, digests, and the filters of a receive's reply: data no property
  tells apart.  Normalisation of policy JSON in `helpers.go`.
* In the codecs: escaping, percent-encoding and numbers beyond plain decimals.
* In authentication: the text of the canonical request and of the string to sign, and
  the parsing of credential scopes and headers; credential files.
* In the model registry: required members, enumerations, errors and paginators, which
  nothing reads at run time, and the shapes of exceptions, which have only a message.
* Configuration: flags and environment are read once into values that never change;
  they are the constants of the models.
* The code generator: a build tool; `ShapeRegistry` is taken from what it wrote.
* `DeleteMessagesByQueue` has no caller.

## 7. Plan

1. *Termination with overlapping sections*: `ReceiveReturnsOrTargetGone` with a section
   taken apart, which is beyond TLC on the present instance.
2. *Two handlers where they do no harm*: which of the registry's and the move tasks'
   results hold for concurrent handlers that touch different queues.
3. *Codecs without recursive operators*: the recursion over shapes as functions on bounded
   depth, so that `ListingsCarried`, which is about flat members only, can be proved of
   them and `ListingsAccurate` loses its hypothesis.
4. *Revived group leases* and *redriven messages are receivable*: the hazards that have
   no property yet.
