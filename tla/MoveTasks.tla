----------------------------- MODULE MoveTasks -----------------------------
(***************************************************************************)
(* Message move tasks: StartMessageMoveTask, CancelMessageMoveTask and      *)
(* processMoveTasks, which every data-plane request runs as the last part   *)
(* of its maintenance pass (src/internal/service/sqs.go and messages.go,    *)
(* over the message_move_tasks, messages and receipts tables).              *)
(*                                                                          *)
(* A step is one store call or the calls that only read: a pass lists the   *)
(* running tasks, loads the source of each, moves its messages one by one   *)
(* (receipts first, then the row) and writes the whole task row back from   *)
(* the copy it listed.  The request that triggered the pass does its own    *)
(* work afterwards; a receive or a delete is then one step (MessagePlane    *)
(* and MessageSteps take those apart).                                      *)
(*                                                                          *)
(* Time is left out: retention never ends, a lease may lapse at any moment, *)
(* and a pass takes the messages of the source in any order.  The status    *)
(* CANCELLING, which the code tests but never sets, is left out as well.    *)
(* A queue is named by its name: the row of a queue created anew is another *)
(* row, and what referred to the former one is gone by then.  The rows of a *)
(* task or a message removed with their queue stay in the tables here, as   *)
(* REMOVED and as deleted.                                                  *)
(***************************************************************************)
EXTENDS Naturals, Sequences, FiniteSets

CONSTANTS
  Queues,
  NoQueue,    \* NULL or "" where a queue is named
  Starts,     \* the parameters of StartMessageMoveTask; limit 0 when absent
  Arrivals,   \* the queues messages arrive in, sent or dead-lettered from one
  Procs,      \* handlers that may run concurrently
  MaxRows, MaxTasks, MaxReceives,
  MaxFailures \* bound on lost clients, restarts and deleted queues

ASSUME MoveAssumption ==
  /\ NoQueue \notin Queues
  /\ Starts \subseteq [source : Queues, dest : Queues \cup {NoQueue}, limit : Nat]
  /\ Arrivals \subseteq [queue : Queues, dlSource : Queues \cup {NoQueue}]
  /\ MaxRows \in Nat /\ MaxTasks \in Nat /\ MaxReceives \in Nat /\ MaxFailures \in Nat

VARIABLES
  messages,   \* row id -> row
  receipts,   \* handle -> row
  gone, \* queues whose row has deleted_at set
  created,    \* queue -> how often it was created over its tombstone
  tasks,      \* task id -> row of message_move_tasks
  procs,      \* handler -> its local variables
  failures,   \* number of handlers cut off and queues deleted so far
  acked,      \* history: rows whose DeleteMessage was acknowledged
  cancelled,  \* history: tasks whose cancellation was acknowledged
  moves,      \* history: task id -> number of messages it has moved
  asked       \* history: task id -> the task as it was started

mvars == <<messages, receipts, gone, created, tasks, procs, failures, acked, cancelled,
           moves, asked>>

history == <<acked, cancelled, moves, asked>>

Message == [queue : Queues, dlSource : Queues \cup {NoQueue}, hidden : BOOLEAN,
            deleted : BOOLEAN]

Receipt == [queue : Queues, message : Nat, active : BOOLEAN]

Task == [source : Queues, dest : Queues \cup {NoQueue}, limit : Nat,
         status : {"RUNNING", "COMPLETED", "CANCELLED", "FAILED", "REMOVED"}, moved : Nat, toMove : Nat]

\* A start that was answered: its destination, and how often each queue had been
\* created over its tombstone by then.
Start == [dest : Queues \cup {NoQueue}, created : [Queues -> Nat]]

\* What a request does after its maintenance pass.
Request ==
  [kind : {"none"}]
    \cup [kind : {"start"}, task : Starts]
    \cup [kind : {"cancel"}, source : Queues, task : Nat]
    \cup [kind : {"send"}, message : Arrivals]
    \cup [kind : {"receive"}, queue : Queues]
    \cup [kind : {"delete"}, handle : Nat]

Listed == [id : Nat, row : Task]  \* a task and the copy of its row

Idle == [pc |-> "idle"]

Proc ==
  {Idle}
    \cup [pc : {"pass"}, req : Request, todo : Seq(Listed)]
    \cup [pc : {"move", "write"}, req : Request, todo : Seq(Listed), rows : SUBSET Nat,
          row : Nat, to : Queues \cup {NoQueue}, limit : Nat, moved : Nat, remaining : Nat]
    \cup [pc : {"create", "created"}, req : Request]
    \cup [pc : {"cancel"}, id : Nat, row : Task]

MoveTypeOK ==
  /\ messages \in Seq(Message)
  /\ receipts \in Seq(Receipt)
  /\ gone \subseteq Queues
  /\ created \in [Queues -> Nat]
  /\ tasks \in Seq(Task)
  /\ procs \in [Procs -> Proc]
  /\ failures \in Nat
  /\ acked \subseteq DOMAIN messages
  /\ cancelled \subseteq DOMAIN tasks
  /\ moves \in [DOMAIN tasks -> Nat]
  /\ asked \in [DOMAIN tasks -> Start]

-----------------------------------------------------------------------------
(* Store calls.                                                              *)

Exists(q) == q \in Queues \ gone

\* Faulty variant: rows with deleted_at set are taken for messages.
Movable_Tombstones(q) == {r \in DOMAIN messages : messages[r].queue = q}

\* ListMessagesByQueue and the rows a task does not skip.
Movable(q) == {r \in DOMAIN messages : messages[r].queue = q /\ ~messages[r].deleted}

\* Faulty variant: only a completed task is over.
Running_UntilCompleted == {t \in DOMAIN tasks : tasks[t].status # "COMPLETED"}

Running == {t \in DOMAIN tasks : tasks[t].status = "RUNNING"}

\* The orders in which ListRunningMoveTasks may return the tasks: started_at is
\* kept in whole seconds, so that tasks of one second come in any order.
RunningMoveTasks ==
  {s \in [1 .. Cardinality(Running) -> [id : Running, row : {tasks[t] : t \in Running}]] :
     /\ \A i \in DOMAIN s : s[i].row = tasks[s[i].id]
     /\ \A i, j \in DOMAIN s : s[i].id = s[j].id => i = j}

UpdateMoveTask(t, row) == tasks' = [tasks EXCEPT ![t] = row]

Deactivated(r) ==
  [h \in DOMAIN receipts |->
     [receipts[h] EXCEPT !.active = @ /\ receipts[h].message # r]]

\* Faulty variant: the receipts are left alone.
DeactivateReceiptsByMessage_Skipped(r) == UNCHANGED receipts

DeactivateReceiptsByMessage(r) == receipts' = Deactivated(r)

-----------------------------------------------------------------------------
(* The maintenance pass.                                                     *)

\* A request arrives: the running tasks are listed.
maintain(p, req) ==
  /\ procs[p] = Idle
  /\ \E s \in RunningMoveTasks :
       procs' = [procs EXCEPT ![p] = [pc |-> "pass", req |-> req, todo |-> s]]
  /\ UNCHANGED <<messages, receipts, gone, created, tasks, failures, history>>

\* The next task of the list is done.
NextTask(p) ==
  procs' = [procs EXCEPT ![p] = [pc |-> "pass", req |-> @.req, todo |-> Tail(@.todo)]]

FailTask(p) ==
  /\ procs[p].pc = "pass" /\ procs[p].todo # << >>
  /\ LET t == Head(procs[p].todo) IN
     /\ ~Exists(t.row.source)
     /\ UpdateMoveTask(t.id, [t.row EXCEPT !.status = "FAILED"])
  /\ NextTask(p)
  /\ UNCHANGED <<messages, receipts, gone, created, failures, history>>

\* Faulty variant: the limit itself is not reached.
MoveLimit_OffByOne(task, n) == IF task.limit > 0 THEN task.limit - 1 ELSE n

\* How many of n messages one pass moves.
MoveLimit(task, n) == IF task.limit > 0 THEN task.limit ELSE n

LoadSource(p) ==
  /\ procs[p].pc = "pass" /\ procs[p].todo # << >>
  /\ LET t == Head(procs[p].todo)
         rows == Movable(t.row.source)
     IN  /\ Exists(t.row.source)
         /\ procs' = [procs EXCEPT ![p] =
              [pc |-> "move", req |-> @.req, todo |-> @.todo, rows |-> rows, row |-> 0,
               to |-> NoQueue, limit |-> MoveLimit(t.row, Cardinality(rows)), moved |-> 0, remaining |-> 0]]
  /\ UNCHANGED <<messages, receipts, gone, created, tasks, failures, history>>

\* Faulty variant: when the destination is gone, messages go back.
resolveMoveDestination_FallsBack(task, r) ==
  LET q == IF Exists(task.dest) THEN task.dest ELSE messages[r].dlSource
  IN  IF Exists(q) THEN q ELSE NoQueue

\* The queue that resolveMoveDestination names; NoQueue when there is none.
resolveMoveDestination(task, r) ==
  LET q == IF task.dest # NoQueue THEN task.dest ELSE messages[r].dlSource
  IN  IF Exists(q) THEN q ELSE NoQueue

\* Faulty variant: a message counts as moved before its destination is known.
LeaveMessage_Counted(p) ==
  /\ procs[p].pc = "move"
  /\ \E r \in procs[p].rows :
       /\ \/ procs[p].moved >= procs[p].limit
          \/ resolveMoveDestination(Head(procs[p].todo).row, r) = NoQueue
       /\ procs' = [procs EXCEPT ![p].rows = @ \ {r}, ![p].moved = @ + 1]
  /\ UNCHANGED <<messages, receipts, gone, created, tasks, failures, history>>

\* A message over the limit or without a destination stays.
LeaveMessage(p) ==
  /\ procs[p].pc = "move"
  /\ \E r \in procs[p].rows :
       /\ \/ procs[p].moved >= procs[p].limit
          \/ resolveMoveDestination(Head(procs[p].todo).row, r) = NoQueue
       /\ procs' = [procs EXCEPT ![p].rows = @ \ {r}, ![p].remaining = @ + 1]
  /\ UNCHANGED <<messages, receipts, gone, created, tasks, failures, history>>

\* The receipts of the next message are deactivated ...
TakeMessage(p) ==
  /\ procs[p].pc = "move"
  /\ procs[p].moved < procs[p].limit
  /\ \E r \in procs[p].rows :
       LET q == resolveMoveDestination(Head(procs[p].todo).row, r)
       IN  /\ q # NoQueue
           /\ DeactivateReceiptsByMessage(r)
           /\ procs' = [procs EXCEPT ![p].pc = "write", ![p].row = r, ![p].to = q]
  /\ UNCHANGED <<messages, gone, created, tasks, failures, history>>

\* ... and its row is written, every column of it.
WriteMessage(p) ==
  /\ procs[p].pc = "write"
  /\ messages' = [messages EXCEPT ![procs[p].row] =
       [queue |-> procs[p].to, dlSource |-> NoQueue, hidden |-> FALSE, deleted |-> FALSE]]
  /\ moves' = [moves EXCEPT ![Head(procs[p].todo).id] = @ + 1]
  /\ procs' = [procs EXCEPT ![p].pc = "move", ![p].rows = @ \ {procs[p].row},
                            ![p].moved = @ + 1]
  /\ UNCHANGED <<receipts, gone, created, tasks, failures, acked, cancelled, asked>>

\* The task row is written back from the copy that was listed.
FinishPass(p) ==
  /\ procs[p].pc = "move" /\ procs[p].rows = {}
  /\ LET t == Head(procs[p].todo) IN
     UpdateMoveTask(t.id,
       [t.row EXCEPT !.moved = @ + procs[p].moved,
                     !.toMove = procs[p].remaining,
                     !.status = IF procs[p].remaining = 0 THEN "COMPLETED" ELSE @])
  /\ NextTask(p)
  /\ UNCHANGED <<messages, receipts, gone, created, failures, history>>

-----------------------------------------------------------------------------
(* The requests.                                                             *)

\* The pass of p is over and its request is of this kind.
Ready(p, kind) ==
  procs[p].pc = "pass" /\ procs[p].todo = << >> /\ procs[p].req.kind = kind

Return(p) == procs' = [procs EXCEPT ![p] = Idle]

\* ListMessageMoveTasks, and requests that are refused.
OtherRequest(p) ==
  /\ Ready(p, "none")
  /\ Return(p)
  /\ UNCHANGED <<messages, receipts, gone, created, tasks, failures, history>>

\* Faulty variant: a task is started whether or not one is running.
StartMessageMoveTask_Always(p) ==
  /\ Ready(p, "start")
  /\ procs' = [procs EXCEPT ![p] = [pc |-> "create", req |-> @.req]]
  /\ UNCHANGED <<messages, receipts, gone, created, tasks, failures, history>>

\* FindRunningMoveTask: a running task of the source is returned instead.
StartMessageMoveTask(p) ==
  /\ Ready(p, "start")
  /\ LET task == procs[p].req.task IN
     IF /\ Exists(task.source)
        /\ \A t \in Running : tasks[t].source # task.source
        /\ task.dest # NoQueue => Exists(task.dest)
       THEN procs' = [procs EXCEPT ![p] = [pc |-> "create", req |-> @.req]]
       ELSE Return(p)
  /\ UNCHANGED <<messages, receipts, gone, created, tasks, failures, history>>

\* InsertMoveTask; then processMoveTasks runs once more.
InsertMoveTask(p) ==
  /\ procs[p].pc = "create"
  /\ LET task == procs[p].req.task IN
     tasks' = Append(tasks,
       [source |-> task.source, dest |-> task.dest, limit |-> task.limit,
        status |-> "RUNNING", moved |-> 0, toMove |-> Cardinality(Movable(task.source))])
  /\ moves' = Append(moves, 0)
  /\ asked' = Append(asked, [dest |-> procs[p].req.task.dest, created |-> created])
  /\ procs' = [procs EXCEPT ![p].pc = "created"]
  /\ UNCHANGED <<messages, receipts, gone, created, failures, acked, cancelled>>

processMoveTasks(p) ==
  /\ procs[p].pc = "created"
  /\ \E s \in RunningMoveTasks :
       procs' = [procs EXCEPT ![p] = [pc |-> "pass", req |-> [kind |-> "none"], todo |-> s]]
  /\ UNCHANGED <<messages, receipts, gone, created, tasks, failures, history>>

\* ListMoveTasksBySourceQueue and the handle are compared, whatever the status.
CancelMessageMoveTask(p) ==
  /\ Ready(p, "cancel")
  /\ LET req == procs[p].req IN
     \/ /\ Exists(req.source)
        /\ tasks[req.task].source = req.source
        /\ tasks[req.task].status # "REMOVED"
        /\ procs' = [procs EXCEPT ![p] =
             [pc |-> "cancel", id |-> req.task, row |-> tasks[req.task]]]
     \/ /\ \/ ~Exists(req.source)
           \/ tasks[req.task].source # req.source
           \/ tasks[req.task].status = "REMOVED"
        /\ Return(p)
  /\ UNCHANGED <<messages, receipts, gone, created, tasks, failures, history>>

\* Faulty variant: the task is left for the next pass to end.
CancelledRow_Cancelling(row) == [row EXCEPT !.status = "CANCELLING"]

CancelledRow(row) == [row EXCEPT !.status = "CANCELLED"]

WriteCancellation(p) ==
  /\ procs[p].pc = "cancel"
  /\ UpdateMoveTask(procs[p].id, CancelledRow(procs[p].row))
  /\ cancelled' = cancelled \cup {procs[p].id}
  /\ Return(p)
  /\ UNCHANGED <<messages, receipts, gone, created, failures, acked, moves, asked>>

\* A message arrives, sent or (with a source) dead-lettered.
SendMessage(p) ==
  /\ Ready(p, "send")
  /\ LET m == procs[p].req.message IN
     messages' = IF Exists(m.queue)
       THEN Append(messages, [queue |-> m.queue, dlSource |-> m.dlSource,
                              hidden |-> FALSE, deleted |-> FALSE])
       ELSE messages
  /\ Return(p)
  /\ UNCHANGED <<receipts, gone, created, tasks, failures, history>>

ReceiveMessage(p) ==
  /\ Ready(p, "receive")
  /\ LET q == procs[p].req.queue
         visible == {r \in Movable(q) : ~messages[r].hidden}
     IN  \/ \E r \in visible :
              /\ Exists(q)
              /\ messages' = [messages EXCEPT ![r].hidden = TRUE]
              /\ receipts' = Append(Deactivated(r),
                                    [queue |-> q, message |-> r, active |-> TRUE])
         \/ /\ visible = {} \/ ~Exists(q)
            /\ UNCHANGED <<messages, receipts>>
  /\ Return(p)
  /\ UNCHANGED <<gone, created, tasks, failures, history>>

DeleteMessage(p) ==
  /\ Ready(p, "delete")
  /\ LET h == procs[p].req.handle
         r == receipts[h].message
     IN  IF receipts[h].active /\ messages[r].hidden
           THEN /\ messages' = [messages EXCEPT ![r].deleted = TRUE, ![r].hidden = FALSE]
                /\ receipts' = [receipts EXCEPT ![h].active = FALSE]
                /\ acked' = acked \cup {r}
           ELSE UNCHANGED <<messages, receipts, acked>>
  /\ Return(p)
  /\ UNCHANGED <<gone, created, tasks, failures, cancelled, moves, asked>>

\* A lease ends.
Lapse(r) ==
  /\ messages[r].hidden
  /\ messages' = [messages EXCEPT ![r].hidden = FALSE]
  /\ UNCHANGED <<receipts, gone, created, tasks, procs, failures, history>>

\* DeleteQueue runs no maintenance.
DeleteQueue(p, q) ==
  /\ procs[p] = Idle
  /\ Exists(q)
  /\ failures < MaxFailures
  /\ failures' = failures + 1
  /\ gone' = gone \cup {q}
  /\ UNCHANGED <<messages, receipts, created, tasks, procs, history>>

\* The foreign keys of message_move_tasks: a task goes with its source, and
\* loses its destination.
TasksWithout(q) ==
  [t \in DOMAIN tasks |->
     [tasks[t] EXCEPT !.dest = IF @ = q THEN NoQueue ELSE @,
                      !.status = IF tasks[t].source = q THEN "REMOVED" ELSE @]]

\* CreateQueue after the cool-down of a deleted name: DeleteQueueRow takes what
\* refers to the row along, then the new row is inserted.  The instance does it
\* while no other handler runs.
CreateQueue(p, q) ==
  /\ \A o \in Procs : procs[o] = Idle
  /\ q \in gone
  /\ gone' = gone \ {q}
  /\ created' = [created EXCEPT ![q] = @ + 1]
  /\ messages' = [r \in DOMAIN messages |->
       IF messages[r].queue = q
         THEN [messages[r] EXCEPT !.deleted = TRUE, !.hidden = FALSE]
         ELSE messages[r]]
  /\ receipts' = [h \in DOMAIN receipts |->
       [receipts[h] EXCEPT !.active = /\ @
                                      /\ receipts[h].queue # q
                                      /\ messages[receipts[h].message].queue # q]]
  /\ tasks' = TasksWithout(q)
  /\ UNCHANGED <<procs, failures, history>>

\* The client goes away or the server restarts between two store calls.
Abort(p) ==
  /\ procs[p] # Idle
  /\ failures < MaxFailures
  /\ failures' = failures + 1
  /\ Return(p)
  /\ UNCHANGED <<messages, receipts, gone, created, tasks, history>>

-----------------------------------------------------------------------------
(* The specification.                                                        *)

\* The handlers whose request is of this kind.
InFlight(kind) ==
  Cardinality({p \in Procs : procs[p].pc \in {"pass", "move", "write", "create"}
                               /\ procs[p].req.kind = kind})

\* The requests clients may make next.
Requests ==
  {[kind |-> "none"]}
    \cup (IF Len(tasks) + InFlight("start") < MaxTasks
             THEN [kind : {"start"}, task : Starts]
             ELSE {})
    \cup [kind : {"cancel"}, source : Queues, task : DOMAIN tasks]
    \cup (IF Len(messages) + InFlight("send") < MaxRows
             THEN [kind : {"send"}, message : Arrivals]
             ELSE {})
    \cup (IF Len(receipts) + InFlight("receive") < MaxReceives
             THEN [kind : {"receive"}, queue : Queues]
             ELSE {})
    \cup [kind : {"delete"}, handle : DOMAIN receipts]

MInit ==
  /\ messages = << >>
  /\ receipts = << >>
  /\ gone = {}
  /\ created = [q \in Queues |-> 0]
  /\ tasks = << >>
  /\ procs = [p \in Procs |-> Idle]
  /\ failures = 0
  /\ acked = {}
  /\ cancelled = {}
  /\ moves = << >>
  /\ asked = << >>

Proceed(p) ==
  \/ FailTask(p)
  \/ LoadSource(p)
  \/ LeaveMessage(p)
  \/ TakeMessage(p)
  \/ WriteMessage(p)
  \/ FinishPass(p)
  \/ OtherRequest(p)
  \/ StartMessageMoveTask(p)
  \/ InsertMoveTask(p)
  \/ processMoveTasks(p)
  \/ CancelMessageMoveTask(p)
  \/ WriteCancellation(p)
  \/ SendMessage(p)
  \/ ReceiveMessage(p)
  \/ DeleteMessage(p)

MNext ==
  \/ \E p \in Procs : \/ \E req \in Requests : maintain(p, req)
                      \/ Proceed(p)
                      \/ \E q \in Queues : DeleteQueue(p, q) \/ CreateQueue(p, q)
                      \/ Abort(p)
  \/ \E r \in DOMAIN messages : Lapse(r)

MSpec == MInit /\ [][MNext]_mvars

\* The scheduler runs every handler, and requests keep coming: tasks are
\* advanced by requests and by nothing else.
MFairness ==
  \A p \in Procs : /\ WF_mvars(Proceed(p))
                   /\ WF_mvars(\E req \in Requests : maintain(p, req))

MFairSpec == MSpec /\ MFairness

-----------------------------------------------------------------------------
(* Properties.                                                               *)

\* A usable receipt names the queue its message is in: a task takes a message
\* away from its consumer, and a pass that is cut off between the receipts and
\* the row leaves the message where it is.
ReceiptInPlace ==
  \A h \in DOMAIN receipts :
    receipts[h].active => messages[receipts[h].message].queue = receipts[h].queue

\* ApproximateNumberOfMessagesMoved is never ahead of the messages a task really
\* moved, whichever passes were cut off between the rows and the count.
MovedNotAhead == \A t \in DOMAIN tasks : tasks[t].moved <= moves[t]

\* An acknowledged DeleteMessage is final: no task brings the message back.
AckedNotMoved == \A r \in acked : messages[r].deleted

\* A source has one running task at a time (FindRunningMoveTask).
OneTaskPerSource ==
  \A t, u \in Running : tasks[t].source = tasks[u].source => t = u

\* After CancelMessageMoveTask returned, the task stays cancelled, until its
\* source is created anew, and moves nothing any more, whatever a pass had listed
\* before.
CancelIsFinal ==
  [][\A t \in cancelled : /\ tasks'[t].status \in {"CANCELLED", "REMOVED"}
                          /\ moves'[t] = moves[t]]_mvars

\* A task with a destination moves messages there or nowhere, also when that queue
\* was deleted in the meantime.  (resolveMoveDestination sends messages back to where they
\* were dead-lettered from once the row of the destination itself is gone: a task
\* whose destination was created anew is the exception.)
MovesWhereAsked ==
  [][\A t \in DOMAIN moves :
       moves'[t] # moves[t] =>
         \A r \in DOMAIN messages :
           messages'[r] # messages[r] =>
             \/ asked[t].dest \in {NoQueue, messages'[r].queue}
             \/ created[asked[t].dest] # asked[t].created[asked[t].dest]]_mvars

\* Nothing is sent to a queue, dead-lettered or moved there.
NothingArrives(q) ==
  \A r \in DOMAIN messages' :
    messages'[r].queue = q => r \in DOMAIN messages /\ messages[r].queue = q

\* A task to a destination of its own ends, also when it is limited and when
\* passes are cut off, once nothing arrives in its source any more and as long as
\* requests keep coming and the destination lives.  (A limited task that gains in
\* every pass what it may move in one never ends: messages.go, remaining.)
TaskEnds ==
  \A q \in {task.source : task \in Starts} :
    <>[][NothingArrives(q)]_mvars =>
      \A t \in 1 .. MaxTasks :
        (t \in Running /\ tasks[t].source = q /\ tasks[t].dest \notin {NoQueue, q})
          ~> (t \notin Running \/ ~Exists(tasks[t].dest))
=============================================================================
