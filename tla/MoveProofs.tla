------------------------------ MODULE MoveProofs ------------------------------
(***************************************************************************)
(* Theorems about MoveTasks.  The types, that the count of moved messages   *)
(* is never ahead, and that a task moves messages where it was asked to     *)
(* hold for every set of handlers.  That a receipt is where its message is, *)
(* that deletes and cancellations are final and that a source has one task  *)
(* hold when handlers run one at a time, wherever a pass is cut off.        *)
(***************************************************************************)
EXTENDS MoveTasks, SequenceTheorems, FiniteSetTheorems, TLAPS

-----------------------------------------------------------------------------
(* The local states of a handler.                                            *)

Passer == [pc : {"pass"}, req : Request, todo : Seq(Listed)]

Mover == [pc : {"move", "write"}, req : Request, todo : Seq(Listed), rows : SUBSET Nat,
          row : Nat, to : Queues \cup {NoQueue}, limit : Nat, moved : Nat, remaining : Nat]

Creator == [pc : {"create", "created"}, req : Request]

Canceller == [pc : {"cancel"}, id : Nat, row : Task]

Passes(s) == s.pc = "pass"

Moving(s) == s.pc \in {"move", "write"}

Creates(s) == s.pc \in {"create", "created"}

Cancels(s) == s.pc = "cancel"

\* The program counter of a handler tells which local variables it has.
LEMMA MoveKinds ==
  ASSUME NEW s \in Proc
  PROVE  /\ s = Idle \/ Passes(s) \/ Moving(s) \/ Creates(s) \/ Cancels(s)
         /\ Passes(s) => s \in Passer
         /\ Moving(s) => s \in Mover
         /\ Creates(s) => s \in Creator
         /\ Cancels(s) => s \in Canceller
<1>1. s = Idle \/ s \in Passer \/ s \in Mover \/ s \in Creator \/ s \in Canceller
  BY DEF Proc, Passer, Mover, Creator, Canceller
<1>2. s = Idle => s.pc = "idle"
  BY DEF Idle
<1>3. /\ s \in Passer => Passes(s)
      /\ s \in Mover => Moving(s)
      /\ s \in Creator => Creates(s)
      /\ s \in Canceller => Cancels(s)
  BY DEF Passer, Mover, Creator, Canceller, Passes, Moving, Creates, Cancels
<1> QED
  BY <1>1, <1>2, <1>3 DEF Passes, Moving, Creates, Cancels

LEMMA KindsOfMover ==
  /\ Idle \in Proc
  /\ Passer \subseteq Proc /\ Mover \subseteq Proc
  /\ Creator \subseteq Proc /\ Canceller \subseteq Proc
  BY DEF Proc, Passer, Mover, Creator, Canceller

-----------------------------------------------------------------------------
(* What the tables hold.                                                     *)

LEMMA MoveTables ==
  ASSUME MoveTypeOK
  PROVE  /\ Len(messages) \in Nat /\ DOMAIN messages = 1 .. Len(messages)
         /\ \A r \in DOMAIN messages : messages[r] \in Message /\ r \in Nat
         /\ Len(receipts) \in Nat /\ DOMAIN receipts = 1 .. Len(receipts)
         /\ \A h \in DOMAIN receipts : receipts[h] \in Receipt /\ h \in Nat
         /\ Len(tasks) \in Nat /\ DOMAIN tasks = 1 .. Len(tasks)
         /\ \A t \in DOMAIN tasks : tasks[t] \in Task /\ t \in Nat
         /\ DOMAIN moves = DOMAIN tasks /\ \A t \in DOMAIN moves : moves[t] \in Nat
         /\ DOMAIN asked = DOMAIN tasks /\ \A t \in DOMAIN asked : asked[t] \in Start
  BY DEF MoveTypeOK

LEMMA RowsFinite ==
  ASSUME MoveTypeOK, NEW q
  PROVE  /\ Movable(q) \subseteq DOMAIN messages /\ Movable(q) \subseteq Nat
         /\ Cardinality(Movable(q)) \in Nat /\ Cardinality(Running) \in Nat
<1>1. IsFiniteSet(DOMAIN messages) /\ IsFiniteSet(DOMAIN tasks)
  <2>1. /\ Len(messages) \in Nat /\ DOMAIN messages = 1 .. Len(messages)
        /\ Len(tasks) \in Nat /\ DOMAIN tasks = 1 .. Len(tasks)
    BY MoveTables
  <2> QED
    BY <2>1, FS_Interval
<1>2. Movable(q) \in SUBSET (DOMAIN messages) /\ Running \in SUBSET (DOMAIN tasks)
  BY DEF Movable, Running
<1>3. IsFiniteSet(Movable(q)) /\ IsFiniteSet(Running)
  BY <1>1, <1>2, FS_Subset
<1>4. Cardinality(Movable(q)) \in Nat /\ Cardinality(Running) \in Nat
  BY <1>3, FS_CardinalityType
<1> QED
  BY <1>2, <1>4, MoveTables

\* A listing names each running task once, with its row.
LEMMA ListedTasks ==
  ASSUME MoveTypeOK, NEW s \in RunningMoveTasks
  PROVE  /\ s \in Seq(Listed)
         /\ \A i \in DOMAIN s : /\ s[i].id \in Running /\ s[i].row = tasks[s[i].id]
                                /\ s[i].id \in DOMAIN tasks
         /\ \A i, j \in DOMAIN s : s[i].id = s[j].id => i = j
<1>1. /\ s \in [1 .. Cardinality(Running) -> [id : Running, row : {tasks[t] : t \in Running}]]
      /\ \A i \in DOMAIN s : s[i].row = tasks[s[i].id]
      /\ \A i, j \in DOMAIN s : s[i].id = s[j].id => i = j
  BY DEF RunningMoveTasks
<1>2. \A t \in Running : t \in DOMAIN tasks /\ t \in Nat /\ tasks[t] \in Task
  BY MoveTables DEF Running
<1>3. [id : Running, row : {tasks[t] : t \in Running}] \subseteq Listed
  BY <1>2 DEF Listed
<1>4. s \in [1 .. Cardinality(Running) -> Listed]
  BY <1>1, <1>3
<1>5. s \in Seq(Listed)
  BY <1>4, RowsFinite, SeqDef
<1>6. \A i \in DOMAIN s : s[i].id \in Running
  BY <1>1
<1> QED
  BY <1>1, <1>2, <1>5, <1>6

\* The tasks after the first.
LEMMA ListedTail ==
  ASSUME NEW s \in Seq(Listed), s # << >>
  PROVE  /\ Tail(s) \in Seq(Listed)
         /\ DOMAIN Tail(s) = 1 .. (Len(s) - 1) /\ DOMAIN s = 1 .. Len(s) /\ Len(s) \in Nat
         /\ \A i \in DOMAIN Tail(s) : i + 1 \in DOMAIN s /\ Tail(s)[i] = s[i + 1]
         /\ 1 \in DOMAIN s /\ Head(s) = s[1] /\ Head(s) \in Listed
  BY EmptySeq, HeadTailProperties

-----------------------------------------------------------------------------
(* The invariant for every set of handlers.  The copies handlers hold of     *)
(* task rows are stale, but never ahead of what was moved, and never name a  *)
(* destination the task was not started with.                                *)

RequestRefers(req, ids, handles) ==
  /\ req.kind = "cancel" => req.task \in ids
  /\ req.kind = "delete" => req.handle \in handles

\* A row of task id, or an old copy of one, that does not say too much.
Faithful(id, row, mv, as, cr) ==
  /\ id \in DOMAIN mv
  /\ row.moved <= mv[id]
  /\ \/ row.dest = as[id].dest
     \/ /\ row.dest = NoQueue /\ as[id].dest \in Queues
        /\ as[id].created[as[id].dest] < cr[as[id].dest]

LocalFaithful(s, handles, mv, as, cr) ==
  /\ Passes(s) \/ Moving(s) =>
       /\ RequestRefers(s.req, DOMAIN mv, handles)
       /\ \A i \in DOMAIN s.todo : Faithful(s.todo[i].id, s.todo[i].row, mv, as, cr)
  /\ Moving(s) => /\ s.todo # << >>
                  /\ Head(s.todo).row.moved + s.moved <= mv[Head(s.todo).id]
  /\ s.pc = "write" => s.to \in Queues /\ Head(s.todo).row.dest \in {NoQueue, s.to}
  /\ s.pc = "create" => s.req.kind = "start"
  /\ s.pc = "cancel" => Faithful(s.id, s.row, mv, as, cr)

MoveRefer ==
  /\ \A h \in DOMAIN receipts : receipts[h].message \in DOMAIN messages
  /\ \A t \in DOMAIN asked : \A q \in Queues : asked[t].created[q] <= created[q]

TasksFaithful == \A t \in DOMAIN tasks : Faithful(t, tasks[t], moves, asked, created)

LocalsFaithful ==
  \A p \in Procs : LocalFaithful(procs[p], DOMAIN receipts, moves, asked, created)

PassInv == MoveTypeOK /\ MoveRefer /\ TasksFaithful /\ LocalsFaithful

\* The tables of queues, messages and receipts under a step that leaves the
\* tasks alone, or adds to what they moved.
TypedTables ==
  /\ messages' \in Seq(Message) /\ receipts' \in Seq(Receipt) /\ gone' \subseteq Queues
  /\ failures' \in Nat
  /\ DOMAIN messages \subseteq DOMAIN messages' /\ DOMAIN receipts \subseteq DOMAIN receipts'
  /\ \A h \in DOMAIN receipts' : receipts'[h].message \in DOMAIN messages'
  /\ acked' \subseteq DOMAIN messages'

TypedTasks ==
  /\ tasks' \in Seq(Task) /\ created' \in [Queues -> Nat]
  /\ DOMAIN tasks \subseteq DOMAIN tasks'
  /\ cancelled' \subseteq DOMAIN tasks'
  /\ moves' \in [DOMAIN tasks' -> Nat] /\ asked' \in [DOMAIN tasks' -> Start]
  /\ \A t \in DOMAIN tasks : moves[t] <= moves'[t] /\ asked'[t] = asked[t]
  /\ \A q \in Queues : created[q] <= created'[q]
  /\ \A t \in DOMAIN tasks' : /\ Faithful(t, tasks'[t], moves', asked', created')
                              /\ \A q \in Queues : asked'[t].created[q] <= created'[q]

\* Handler p goes to state s.
GoesTo(p, s) ==
  /\ DOMAIN procs' = Procs /\ procs' = [q \in Procs |-> procs'[q]]
  /\ \A q \in Procs : q # p => procs'[q] = procs[q]
  /\ procs'[p] = s /\ s \in Proc

LEMMA FaithfulLasts ==
  ASSUME MoveTypeOK, TypedTasks, NEW id, NEW row \in Task,
         Faithful(id, row, moves, asked, created)
  PROVE  Faithful(id, row, moves', asked', created')
<1>1. id \in DOMAIN tasks /\ id \in DOMAIN moves' /\ moves[id] \in Nat /\ asked[id] \in Start
  BY MoveTables DEF Faithful, TypedTasks
<1>2. moves[id] <= moves'[id] /\ asked'[id] = asked[id] /\ moves'[id] \in Nat
  BY <1>1 DEF TypedTasks
<1>3. row.moved <= moves'[id]
  <2>1. row.moved \in Nat /\ row.moved <= moves[id]
    BY DEF Task, Faithful
  <2> QED
    BY <1>1, <1>2, <2>1
<1>4. ASSUME NEW q \in Queues, asked[id].created[q] < created[q]
      PROVE  asked[id].created[q] < created'[q]
  <2>1. asked[id].created[q] \in Nat /\ created[q] \in Nat /\ created'[q] \in Nat
    BY <1>1 DEF Start, MoveTypeOK, TypedTasks
  <2>2. created[q] <= created'[q]
    BY DEF TypedTasks
  <2> QED
    BY <1>4, <2>1, <2>2
<1> QED
  BY <1>1, <1>2, <1>3, <1>4 DEF Faithful

LEMMA LocalLasts ==
  ASSUME MoveTypeOK, TypedTables, TypedTasks, NEW s \in Proc,
         LocalFaithful(s, DOMAIN receipts, moves, asked, created)
  PROVE  LocalFaithful(s, DOMAIN receipts', moves', asked', created')
<1>1. DOMAIN moves \subseteq DOMAIN moves' /\ DOMAIN receipts \subseteq DOMAIN receipts'
  BY MoveTables DEF TypedTasks, TypedTables
<1>2. ASSUME Passes(s) \/ Moving(s)
      PROVE  /\ RequestRefers(s.req, DOMAIN moves', DOMAIN receipts')
             /\ \A i \in DOMAIN s.todo :
                  Faithful(s.todo[i].id, s.todo[i].row, moves', asked', created')
  <2>1. s.todo \in Seq(Listed)
    BY <1>2, MoveKinds DEF Passer, Mover
  <2>2. ASSUME NEW i \in DOMAIN s.todo
        PROVE  Faithful(s.todo[i].id, s.todo[i].row, moves', asked', created')
    <3>1. s.todo[i] \in Listed
      BY <2>1
    <3>2. s.todo[i].row \in Task
      BY <3>1 DEF Listed
    <3>3. Faithful(s.todo[i].id, s.todo[i].row, moves, asked, created)
      BY <1>2 DEF LocalFaithful
    <3> QED
      BY <3>2, <3>3, FaithfulLasts
  <2> QED
    BY <1>1, <1>2, <2>2 DEF LocalFaithful, RequestRefers
<1>3. ASSUME Moving(s)
      PROVE  /\ s.todo # << >>
             /\ Head(s.todo).row.moved + s.moved <= moves'[Head(s.todo).id]
  <2>1. s.todo \in Seq(Listed) /\ s.todo # << >> /\ s.moved \in Nat
    BY <1>3, MoveKinds DEF Mover, LocalFaithful
  <2>2. Head(s.todo) \in Listed /\ Head(s.todo) = s.todo[1] /\ 1 \in DOMAIN s.todo
    BY <2>1, ListedTail
  <2> DEFINE id == Head(s.todo).id
             n == Head(s.todo).row.moved
  <2>3. n \in Nat
    BY <2>2 DEF Listed, Task
  <2>4. id \in DOMAIN tasks
    BY <1>3, <2>2, MoveTables DEF LocalFaithful, Faithful
  <2>5. moves[id] \in Nat /\ moves'[id] \in Nat /\ moves[id] <= moves'[id]
    BY <2>4, MoveTables DEF TypedTasks
  <2>6. n + s.moved <= moves[id]
    BY <1>3 DEF LocalFaithful
  <2> HIDE DEF n, id
  <2>7. n + s.moved <= moves'[id]
    BY <2>1, <2>3, <2>5, <2>6
  <2> QED
    BY <2>1, <2>7 DEF n, id
<1>4. ASSUME Cancels(s) PROVE Faithful(s.id, s.row, moves', asked', created')
  <2>1. s.row \in Task /\ Faithful(s.id, s.row, moves, asked, created)
    BY <1>4, MoveKinds DEF Canceller, LocalFaithful, Cancels
  <2> QED
    BY <2>1, FaithfulLasts
<1> QED
  BY <1>2, <1>3, <1>4 DEF LocalFaithful, Cancels

\* A step of handler p to a faithful state keeps the invariant.
LEMMA PassKept ==
  ASSUME PassInv, TypedTables, TypedTasks, NEW p \in Procs, NEW s, GoesTo(p, s),
         LocalFaithful(s, DOMAIN receipts', moves', asked', created')
  PROVE  PassInv'
<1>1. ASSUME NEW q \in Procs
      PROVE  /\ procs'[q] \in Proc
             /\ LocalFaithful(procs'[q], DOMAIN receipts', moves', asked', created')
  <2>1. CASE q = p
    BY <2>1 DEF GoesTo
  <2>2. CASE q # p
    <3>1. /\ procs'[q] = procs[q] /\ procs[q] \in Proc
          /\ LocalFaithful(procs[q], DOMAIN receipts, moves, asked, created)
      BY <2>2 DEF GoesTo, PassInv, MoveTypeOK, LocalsFaithful
    <3> QED
      BY <3>1, LocalLasts DEF PassInv
  <2> QED
    BY <2>1, <2>2
<1>2. procs' \in [Procs -> Proc]
  BY <1>1 DEF GoesTo
<1>3. MoveTypeOK'
  BY <1>2 DEF MoveTypeOK, TypedTables, TypedTasks
<1>4. MoveRefer' /\ TasksFaithful'
  BY <1>3, MoveTables DEF MoveRefer, TasksFaithful, TypedTables, TypedTasks
<1> QED
  BY <1>1, <1>3, <1>4 DEF PassInv, LocalsFaithful

LEMMA IdleFaithful ==
  ASSUME NEW handles, NEW mv, NEW as, NEW cr
  PROVE  LocalFaithful(Idle, handles, mv, as, cr)
  BY DEF LocalFaithful, Idle, Passes, Moving

LEMMA ReturnGoes ==
  ASSUME MoveTypeOK, NEW p \in Procs, Return(p)
  PROVE  GoesTo(p, Idle)
  BY KindsOfMover DEF MoveTypeOK, Return, GoesTo

\* The tables that a step leaves alone.
LEMMA SameTables ==
  ASSUME PassInv, UNCHANGED <<messages, receipts, gone, acked>>, failures' \in Nat
  PROVE  TypedTables
  BY DEF PassInv, MoveTypeOK, MoveRefer, TypedTables

LEMMA SameTasks ==
  ASSUME PassInv, UNCHANGED <<created, tasks, cancelled, moves, asked>>
  PROVE  TypedTasks
<1>1. \A t \in DOMAIN tasks : moves[t] <= moves[t]
  BY MoveTables DEF PassInv
<1>2. \A q \in Queues : created[q] <= created[q]
  BY DEF PassInv, MoveTypeOK
<1>3. \A t \in DOMAIN tasks : /\ Faithful(t, tasks[t], moves, asked, created)
                              /\ \A q \in Queues : asked[t].created[q] <= created[q]
  BY MoveTables DEF PassInv, TasksFaithful, MoveRefer
<1> QED
  BY <1>1, <1>2, <1>3 DEF PassInv, MoveTypeOK, TypedTasks

-----------------------------------------------------------------------------
(* The steps of a pass.                                                      *)

\* What the local variables of a pass are.
LEMMA PassLocals ==
  ASSUME PassInv, NEW p \in Procs, Passes(procs[p]) \/ Moving(procs[p])
  PROVE  /\ procs[p] \in Proc /\ procs[p].req \in Request /\ procs[p].todo \in Seq(Listed)
         /\ Passes(procs[p]) => procs[p] \in Passer
         /\ Moving(procs[p]) => procs[p] \in Mover /\ procs[p].todo # << >>
         /\ LocalFaithful(procs[p], DOMAIN receipts, moves, asked, created)
         /\ MoveTypeOK
<1>1. procs[p] \in Proc /\ LocalFaithful(procs[p], DOMAIN receipts, moves, asked, created)
  BY DEF PassInv, MoveTypeOK, LocalsFaithful
<1>2. /\ Passes(procs[p]) => procs[p] \in Passer
      /\ Moving(procs[p]) => procs[p] \in Mover
  BY <1>1, MoveKinds
<1> QED
  BY <1>1, <1>2 DEF Passer, Mover, LocalFaithful, PassInv

\* The task a pass is at.
LEMMA HeadFaithful ==
  ASSUME PassInv, NEW p \in Procs, Passes(procs[p]) \/ Moving(procs[p]), procs[p].todo # << >>
  PROVE  LET t == Head(procs[p].todo)
         IN  /\ t.row \in Task /\ t.id \in DOMAIN tasks
             /\ t = procs[p].todo[1] /\ 1 \in DOMAIN procs[p].todo
             /\ Faithful(t.id, t.row, moves, asked, created)
<1>1. procs[p].todo \in Seq(Listed)
  BY PassLocals
<1>2. /\ 1 \in DOMAIN procs[p].todo /\ Head(procs[p].todo) = procs[p].todo[1]
      /\ Head(procs[p].todo) \in Listed
  BY <1>1, ListedTail
<1>3. Faithful(Head(procs[p].todo).id, Head(procs[p].todo).row, moves, asked, created)
  BY <1>2, PassLocals DEF LocalFaithful
<1>4. Head(procs[p].todo).id \in DOMAIN tasks
  BY <1>3, MoveTables DEF Faithful, PassInv
<1> QED
  BY <1>2, <1>3, <1>4 DEF Listed

\* A listing is faithful: it is read from the table.
LEMMA ListingFaithful ==
  ASSUME PassInv, NEW req \in Request, RequestRefers(req, DOMAIN moves, DOMAIN receipts),
         NEW s \in RunningMoveTasks
  PROVE  LET local == [pc |-> "pass", req |-> req, todo |-> s]
         IN  local \in Proc /\ LocalFaithful(local, DOMAIN receipts, moves, asked, created)
<1> DEFINE local == [pc |-> "pass", req |-> req, todo |-> s]
<1>1. local \in Passer
  BY ListedTasks DEF Passer, PassInv
<1>2. \A i \in DOMAIN s : Faithful(s[i].id, s[i].row, moves, asked, created)
  BY ListedTasks DEF PassInv, TasksFaithful
<1>3. LocalFaithful(local, DOMAIN receipts, moves, asked, created)
  BY <1>2 DEF LocalFaithful, Passes, Moving
<1> QED
  BY <1>1, <1>3, KindsOfMover

\* What clients may ask for is typed and refers to what is there.
LEMMA RequestsRefer ==
  ASSUME MoveTypeOK, NEW req \in Requests
  PROVE  req \in Request /\ RequestRefers(req, DOMAIN moves, DOMAIN receipts)
<1>1. DOMAIN tasks \subseteq Nat /\ DOMAIN receipts \subseteq Nat /\ DOMAIN moves = DOMAIN tasks
  BY MoveTables
<1>2. \/ req = [kind |-> "none"]
      \/ req \in [kind : {"start"}, task : Starts]
      \/ req \in [kind : {"cancel"}, source : Queues, task : DOMAIN tasks]
      \/ req \in [kind : {"send"}, message : Arrivals]
      \/ req \in [kind : {"receive"}, queue : Queues]
      \/ req \in [kind : {"delete"}, handle : DOMAIN receipts]
  BY DEF Requests
<1>3. CASE req \in [kind : {"cancel"}, source : Queues, task : DOMAIN tasks]
  <2>1. req \in [kind : {"cancel"}, source : Queues, task : Nat]
    BY <1>1, <1>3
  <2> QED
    BY <1>1, <1>3, <2>1 DEF Request, RequestRefers
<1>4. CASE req \in [kind : {"delete"}, handle : DOMAIN receipts]
  <2>1. req \in [kind : {"delete"}, handle : Nat]
    BY <1>1, <1>4
  <2> QED
    BY <1>4, <2>1 DEF Request, RequestRefers
<1>5. CASE req = [kind |-> "none"]
  BY <1>5 DEF Request, RequestRefers
<1>6. CASE req \in [kind : {"start"}, task : Starts]
  BY <1>6 DEF Request, RequestRefers
<1>7. CASE req \in [kind : {"send"}, message : Arrivals]
  BY <1>7 DEF Request, RequestRefers
<1>8. CASE req \in [kind : {"receive"}, queue : Queues]
  BY <1>8 DEF Request, RequestRefers
<1> QED
  BY <1>2, <1>3, <1>4, <1>5, <1>6, <1>7, <1>8

\* A step that changes nothing but the local variables of p.
LEMMA LocalStep ==
  ASSUME PassInv, NEW p \in Procs, NEW s \in Proc, procs' = [procs EXCEPT ![p] = s],
         UNCHANGED <<messages, receipts, gone, created, tasks, failures, history>>,
         LocalFaithful(s, DOMAIN receipts, moves, asked, created)
  PROVE  PassInv'
<1>1. /\ UNCHANGED <<messages, receipts, gone, acked>>
      /\ UNCHANGED <<created, tasks, cancelled, moves, asked>>
      /\ failures' \in Nat
  BY DEF history, PassInv, MoveTypeOK
<1>2. TypedTables /\ TypedTasks
  BY <1>1, SameTables, SameTasks
<1>3. GoesTo(p, s)
  BY DEF GoesTo, PassInv, MoveTypeOK
<1>4. LocalFaithful(s, DOMAIN receipts', moves', asked', created')
  BY <1>1
<1> QED
  BY <1>2, <1>3, <1>4, PassKept

LEMMA MaintainTypes ==
  ASSUME PassInv, NEW p \in Procs, NEW req \in Requests, maintain(p, req)
  PROVE  PassInv'
<1>1. PICK s \in RunningMoveTasks :
         procs' = [procs EXCEPT ![p] = [pc |-> "pass", req |-> req, todo |-> s]]
  BY DEF maintain
<1>2. UNCHANGED <<messages, receipts, gone, created, tasks, failures, history>>
  BY DEF maintain
<1> DEFINE local == [pc |-> "pass", req |-> req, todo |-> s]
<1>3. local \in Proc /\ LocalFaithful(local, DOMAIN receipts, moves, asked, created)
  BY RequestsRefer, ListingFaithful DEF PassInv
<1> HIDE DEF local
<1>4. procs' = [procs EXCEPT ![p] = local]
  BY <1>1 DEF local
<1> QED
  BY <1>2, <1>3, <1>4, LocalStep

\* The next task of the list, and a task row that is written back.
LEMMA NextTaskGoes ==
  ASSUME PassInv, NEW p \in Procs, Passes(procs[p]) \/ Moving(procs[p]),
         procs[p].todo # << >>, NextTask(p)
  PROVE  LET s == [pc |-> "pass", req |-> procs[p].req, todo |-> Tail(procs[p].todo)]
         IN  GoesTo(p, s) /\ LocalFaithful(s, DOMAIN receipts, moves, asked, created)
<1> DEFINE s == [pc |-> "pass", req |-> procs[p].req, todo |-> Tail(procs[p].todo)]
<1>1. /\ Tail(procs[p].todo) \in Seq(Listed)
      /\ \A i \in DOMAIN Tail(procs[p].todo) :
           i + 1 \in DOMAIN procs[p].todo /\ Tail(procs[p].todo)[i] = procs[p].todo[i + 1]
  BY PassLocals, ListedTail
<1>2. s \in Passer
  BY <1>1, PassLocals DEF Passer
<1>3. LocalFaithful(s, DOMAIN receipts, moves, asked, created)
  <2>1. RequestRefers(procs[p].req, DOMAIN moves, DOMAIN receipts)
    BY PassLocals DEF LocalFaithful
  <2>2. ASSUME NEW i \in DOMAIN Tail(procs[p].todo)
        PROVE  Faithful(Tail(procs[p].todo)[i].id, Tail(procs[p].todo)[i].row, moves, asked, created)
    BY <1>1, PassLocals DEF LocalFaithful
  <2> QED
    BY <2>1, <2>2 DEF LocalFaithful, Passes, Moving
<1>4. procs' = [procs EXCEPT ![p] = s]
  BY DEF NextTask
<1> HIDE DEF s
<1>5. GoesTo(p, s)
  BY <1>2, <1>4, KindsOfMover DEF GoesTo, PassInv, MoveTypeOK
<1> QED
  BY <1>3, <1>5 DEF s

LEMMA TaskWritten ==
  ASSUME PassInv, NEW id \in DOMAIN tasks, NEW row \in Task, UpdateMoveTask(id, row),
         Faithful(id, row, moves, asked, created), cancelled' \subseteq DOMAIN tasks,
         UNCHANGED <<created, moves, asked>>
  PROVE  TypedTasks
<1>1. /\ tasks' \in Seq(Task) /\ DOMAIN tasks' = DOMAIN tasks /\ tasks'[id] = row
      /\ \A t \in DOMAIN tasks : t # id => tasks'[t] = tasks[t]
  BY DEF PassInv, MoveTypeOK, UpdateMoveTask
<1>2. \A t \in DOMAIN tasks' : Faithful(t, tasks'[t], moves, asked, created)
  BY <1>1 DEF PassInv, TasksFaithful
<1>3. \A t \in DOMAIN tasks : moves[t] <= moves[t]
  BY MoveTables DEF PassInv
<1>4. \A q \in Queues : created[q] <= created[q]
  BY DEF PassInv, MoveTypeOK
<1>5. \A t \in DOMAIN tasks : \A q \in Queues : asked[t].created[q] <= created[q]
  BY MoveTables DEF PassInv, MoveRefer
<1> QED
  BY <1>1, <1>2, <1>3, <1>4, <1>5 DEF PassInv, MoveTypeOK, TypedTasks

LEMMA FailTaskTypes ==
  ASSUME PassInv, NEW p \in Procs, FailTask(p)
  PROVE  PassInv'
<1> DEFINE t == Head(procs[p].todo)
           row == [t.row EXCEPT !.status = "FAILED"]
           s == [pc |-> "pass", req |-> procs[p].req, todo |-> Tail(procs[p].todo)]
<1>1. /\ Passes(procs[p]) /\ procs[p].todo # << >> /\ UpdateMoveTask(t.id, row) /\ NextTask(p)
      /\ UNCHANGED <<messages, receipts, gone, created, failures, history>>
  BY DEF FailTask, Passes
<1>2. t.row \in Task /\ t.id \in DOMAIN tasks /\ Faithful(t.id, t.row, moves, asked, created)
  BY <1>1, HeadFaithful
<1>3. row \in Task /\ row.moved = t.row.moved /\ row.dest = t.row.dest
  BY <1>2 DEF Task
<1>4. Faithful(t.id, row, moves, asked, created)
  BY <1>2, <1>3 DEF Faithful
<1>5. cancelled' \subseteq DOMAIN tasks /\ UNCHANGED <<acked, created, moves, asked>>
  BY <1>1 DEF history, PassInv, MoveTypeOK
<1>6. GoesTo(p, s) /\ LocalFaithful(s, DOMAIN receipts, moves, asked, created)
  BY <1>1, NextTaskGoes
<1>7. failures' \in Nat
  BY <1>1 DEF PassInv, MoveTypeOK
<1> HIDE DEF t, row, s
<1>8. TypedTasks
  BY <1>1, <1>2, <1>3, <1>4, <1>5, TaskWritten
<1>9. TypedTables
  BY <1>1, <1>5, <1>7, SameTables
<1>10. LocalFaithful(s, DOMAIN receipts', moves', asked', created')
  BY <1>1, <1>5, <1>6
<1> QED
  BY <1>6, <1>8, <1>9, <1>10, PassKept

LEMMA LoadSourceTypes ==
  ASSUME PassInv, NEW p \in Procs, LoadSource(p)
  PROVE  PassInv'
<1> DEFINE t == Head(procs[p].todo)
           rows == Movable(t.row.source)
           limit == MoveLimit(t.row, Cardinality(rows))
           s == [pc |-> "move", req |-> procs[p].req, todo |-> procs[p].todo, rows |-> rows,
                 row |-> 0, to |-> NoQueue, limit |-> limit, moved |-> 0, remaining |-> 0]
<1>1. /\ Passes(procs[p]) /\ procs[p].todo # << >> /\ procs' = [procs EXCEPT ![p] = s]
      /\ UNCHANGED <<messages, receipts, gone, created, tasks, failures, history>>
  BY DEF LoadSource, Passes
<1>2. /\ t.row \in Task /\ t.id \in DOMAIN tasks /\ Faithful(t.id, t.row, moves, asked, created)
  BY <1>1, HeadFaithful
<1>3. rows \subseteq Nat /\ limit \in Nat
  <2>1. rows \subseteq Nat /\ Cardinality(rows) \in Nat
    BY RowsFinite DEF PassInv
  <2> QED
    BY <1>2, <2>1 DEF MoveLimit, Task
<1>4. s \in Mover
  <2> HIDE DEF t, rows, limit
  <2> QED
    BY <1>1, <1>3, PassLocals DEF Mover
<1>5. t.row.moved + 0 <= moves[t.id]
  <2>1. t.row.moved \in Nat /\ t.row.moved <= moves[t.id]
    BY <1>2 DEF Task, Faithful
  <2> QED
    BY <2>1
<1>6. LocalFaithful(s, DOMAIN receipts, moves, asked, created)
  <2> HIDE DEF rows, limit
  <2> QED
    BY <1>1, <1>5, PassLocals DEF LocalFaithful, Passes, Moving
<1> HIDE DEF s
<1> QED
  BY <1>1, <1>4, <1>6, KindsOfMover, LocalStep

\* A message that stays, and the receipts of one that goes.
LEMMA MoverStep ==
  ASSUME PassInv, NEW p \in Procs, Moving(procs[p]), NEW s \in Mover,
         procs' = [procs EXCEPT ![p] = s], s.req = procs[p].req, s.todo = procs[p].todo,
         s.moved = procs[p].moved,
         s.pc = "write" => s.to \in Queues /\ Head(s.todo).row.dest \in {NoQueue, s.to}
  PROVE  /\ GoesTo(p, s)
         /\ LocalFaithful(s, DOMAIN receipts, moves, asked, created)
<1>1. GoesTo(p, s)
  BY KindsOfMover DEF GoesTo, PassInv, MoveTypeOK
<1>2. s.pc \in {"move", "write"}
  BY DEF Mover
<1>3. LocalFaithful(s, DOMAIN receipts, moves, asked, created)
  BY <1>2, PassLocals DEF LocalFaithful, Passes, Moving
<1> QED
  BY <1>1, <1>3

LEMMA LeaveMessageTypes ==
  ASSUME PassInv, NEW p \in Procs, LeaveMessage(p)
  PROVE  PassInv'
<1>1. Moving(procs[p]) /\ procs[p].pc = "move"
  BY DEF LeaveMessage, Moving
<1>2. PICK r : procs' = [procs EXCEPT ![p].rows = @ \ {r}, ![p].remaining = @ + 1]
  BY DEF LeaveMessage
<1> DEFINE s == [procs[p] EXCEPT !.rows = @ \ {r}, !.remaining = @ + 1]
<1>3. procs[p] \in Mover
  BY <1>1, PassLocals
<1>4. /\ s \in Mover /\ s.req = procs[p].req /\ s.todo = procs[p].todo
      /\ s.moved = procs[p].moved /\ s.pc = "move"
  <2>1. procs[p].rows \ {r} \in SUBSET Nat /\ procs[p].remaining + 1 \in Nat
    BY <1>3 DEF Mover
  <2> QED
    BY <1>1, <1>3, <2>1 DEF Mover
<1>5. procs' = [procs EXCEPT ![p] = s]
  BY <1>2 DEF PassInv, MoveTypeOK
<1>6. UNCHANGED <<messages, receipts, gone, created, tasks, failures, history>>
  BY DEF LeaveMessage
<1> HIDE DEF s
<1>7. LocalFaithful(s, DOMAIN receipts, moves, asked, created)
  BY <1>1, <1>4, <1>5, MoverStep
<1> QED
  BY <1>4, <1>5, <1>6, <1>7, KindsOfMover, LocalStep

\* Where a message goes: to the destination of the task when it has one.
LEMMA DestinationResolved ==
  ASSUME NEW task \in Task, NEW r, resolveMoveDestination(task, r) # NoQueue
  PROVE  /\ resolveMoveDestination(task, r) \in Queues
         /\ task.dest \in {NoQueue, resolveMoveDestination(task, r)}
  BY DEF resolveMoveDestination, Exists

LEMMA DeactivatedTyped ==
  ASSUME MoveTypeOK, NEW r
  PROVE  /\ Deactivated(r) \in Seq(Receipt) /\ DOMAIN Deactivated(r) = DOMAIN receipts
         /\ Len(Deactivated(r)) = Len(receipts)
         /\ \A h \in DOMAIN receipts :
              /\ Deactivated(r)[h].message = receipts[h].message
              /\ Deactivated(r)[h].queue = receipts[h].queue
              /\ Deactivated(r)[h].active <=> (receipts[h].active /\ receipts[h].message # r)
<1>1. ASSUME NEW h \in DOMAIN receipts
      PROVE  /\ Deactivated(r)[h] \in Receipt
             /\ Deactivated(r)[h].message = receipts[h].message
             /\ Deactivated(r)[h].queue = receipts[h].queue
             /\ Deactivated(r)[h].active <=> (receipts[h].active /\ receipts[h].message # r)
  <2>1. Deactivated(r)[h] = [receipts[h] EXCEPT !.active = @ /\ receipts[h].message # r]
    BY DEF Deactivated
  <2>2. receipts[h] \in Receipt
    BY MoveTables
  <2> QED
    BY <2>1, <2>2 DEF Receipt
<1>2. Len(receipts) \in Nat /\ DOMAIN receipts = 1 .. Len(receipts)
  BY MoveTables
<1>3. /\ Deactivated(r) = [h \in 1 .. Len(receipts) |-> Deactivated(r)[h]]
      /\ DOMAIN Deactivated(r) = DOMAIN receipts
  BY <1>2 DEF Deactivated
<1>4. Deactivated(r) \in [1 .. Len(receipts) -> Receipt]
  BY <1>1, <1>2, <1>3
<1>5. Deactivated(r) \in Seq(Receipt)
  BY <1>2, <1>4, SeqDef
<1>6. Len(Deactivated(r)) = Len(receipts)
  BY <1>2, <1>3, <1>5, LenProperties
<1> QED
  BY <1>1, <1>3, <1>5, <1>6

LEMMA TakeMessageTypes ==
  ASSUME PassInv, NEW p \in Procs, TakeMessage(p)
  PROVE  PassInv'
<1> DEFINE task == Head(procs[p].todo).row
<1>1. Moving(procs[p])
  BY DEF TakeMessage, Moving
<1>2. PICK r \in procs[p].rows :
         /\ resolveMoveDestination(task, r) # NoQueue
         /\ DeactivateReceiptsByMessage(r)
         /\ procs' = [procs EXCEPT ![p].pc = "write", ![p].row = r,
                                   ![p].to = resolveMoveDestination(task, r)]
  BY DEF TakeMessage
<1>3. procs[p] \in Mover /\ procs[p].todo # << >> /\ r \in Nat
  BY <1>1, PassLocals DEF Mover
<1>4. task \in Task
  BY <1>1, <1>3, HeadFaithful
<1> DEFINE to == resolveMoveDestination(task, r)
           s == [procs[p] EXCEPT !.pc = "write", !.row = r, !.to = to]
<1>5. to \in Queues /\ task.dest \in {NoQueue, to}
  BY <1>2, <1>4, DestinationResolved
<1>6. procs' = [procs EXCEPT ![p] = s]
  BY <1>2 DEF PassInv, MoveTypeOK
<1>7. /\ s \in Mover /\ s.req = procs[p].req /\ s.todo = procs[p].todo
      /\ s.moved = procs[p].moved /\ s.to = to
  <2> HIDE DEF to
  <2> QED
    BY <1>3, <1>5 DEF Mover
<1>8. Head(s.todo).row.dest \in {NoQueue, s.to}
  <2> HIDE DEF s, to
  <2> QED
    BY <1>5, <1>7
<1> HIDE DEF s, to
<1>9. GoesTo(p, s) /\ LocalFaithful(s, DOMAIN receipts, moves, asked, created)
  BY <1>1, <1>5, <1>6, <1>7, <1>8, MoverStep
<1>10. /\ UNCHANGED <<messages, gone, created, tasks, failures>>
       /\ UNCHANGED <<acked, cancelled, moves, asked>>
  BY DEF TakeMessage, history
<1>11. /\ receipts' \in Seq(Receipt) /\ DOMAIN receipts' = DOMAIN receipts
       /\ \A h \in DOMAIN receipts : receipts'[h].message = receipts[h].message
  BY <1>2, DeactivatedTyped DEF DeactivateReceiptsByMessage, PassInv
<1>12. TypedTables
  BY <1>10, <1>11 DEF TypedTables, PassInv, MoveTypeOK, MoveRefer
<1>13. TypedTasks
  BY <1>10, SameTasks
<1>14. LocalFaithful(s, DOMAIN receipts', moves', asked', created')
  BY <1>9, <1>10, <1>11
<1> QED
  BY <1>9, <1>12, <1>13, <1>14, PassKept

\* The effect of writing the row of a message that moves.
LEMMA MessageWritten ==
  ASSUME PassInv, NEW p \in Procs, WriteMessage(p)
  PROVE  LET id == Head(procs[p].todo).id
             r == procs[p].row
         IN  /\ Moving(procs[p]) /\ procs[p] \in Mover /\ procs[p].to \in Queues
             /\ DOMAIN messages' = DOMAIN messages /\ messages' \in Seq(Message)
             /\ r \in DOMAIN messages =>
                  /\ messages'[r].queue = procs[p].to /\ ~messages'[r].deleted
             /\ \A o \in DOMAIN messages : o # r => messages'[o] = messages[o]
             /\ id \in DOMAIN tasks /\ DOMAIN moves' = DOMAIN moves
             /\ moves'[id] = moves[id] + 1
             /\ \A t \in DOMAIN moves : t # id => moves'[t] = moves[t]
<1> DEFINE id == Head(procs[p].todo).id
           r == procs[p].row
           new == [queue |-> procs[p].to, dlSource |-> NoQueue, hidden |-> FALSE, deleted |-> FALSE]
<1>1. Moving(procs[p]) /\ procs[p].pc = "write"
  BY DEF WriteMessage, Moving
<1>2. procs[p] \in Mover /\ procs[p].todo # << >> /\ procs[p].to \in Queues
  BY <1>1, PassLocals DEF LocalFaithful
<1>3. id \in DOMAIN tasks /\ id \in DOMAIN moves
  BY <1>1, <1>2, HeadFaithful, MoveTables DEF PassInv
<1>4. new \in Message
  BY <1>2 DEF Message
<1>5. messages' = [messages EXCEPT ![r] = new] /\ moves' = [moves EXCEPT ![id] = @ + 1]
  BY DEF WriteMessage
<1>6. new.queue = procs[p].to /\ ~new.deleted
  OBVIOUS
<1> HIDE DEF new, r, id
<1>7. /\ DOMAIN messages' = DOMAIN messages /\ messages' \in Seq(Message)
      /\ r \in DOMAIN messages => messages'[r] = new
      /\ \A o \in DOMAIN messages : o # r => messages'[o] = messages[o]
  <2>1. messages \in [1 .. Len(messages) -> Message] /\ Len(messages) \in Nat
    BY DEF PassInv, MoveTypeOK
  <2>2. messages' \in [1 .. Len(messages) -> Message]
    BY <1>4, <1>5, <2>1
  <2>3. messages' \in Seq(Message)
    BY <2>1, <2>2, SeqDef
  <2> QED
    BY <1>5, <2>1, <2>3
<1>8. /\ DOMAIN moves' = DOMAIN moves /\ moves'[id] = moves[id] + 1
      /\ \A t \in DOMAIN moves : t # id => moves'[t] = moves[t]
  BY <1>3, <1>5 DEF PassInv, MoveTypeOK
<1> QED
  BY <1>1, <1>2, <1>3, <1>6, <1>7, <1>8 DEF r, id

LEMMA WriteMessageTypes ==
  ASSUME PassInv, NEW p \in Procs, WriteMessage(p)
  PROVE  PassInv'
<1> DEFINE id == Head(procs[p].todo).id
           n == Head(procs[p].todo).row.moved
           s == [procs[p] EXCEPT !.pc = "move", !.rows = @ \ {procs[p].row}, !.moved = @ + 1]
<1>1. /\ Moving(procs[p]) /\ procs[p] \in Mover
      /\ DOMAIN messages' = DOMAIN messages /\ messages' \in Seq(Message)
      /\ id \in DOMAIN tasks /\ DOMAIN moves' = DOMAIN moves
      /\ moves'[id] = moves[id] + 1
      /\ \A t \in DOMAIN moves : t # id => moves'[t] = moves[t]
  BY MessageWritten
<1>2. UNCHANGED <<receipts, gone, created, tasks, failures, acked, cancelled, asked>>
  BY DEF WriteMessage
<1>3. procs' = [procs EXCEPT ![p] = s]
  <2>1. procs' = [procs EXCEPT ![p].pc = "move", ![p].rows = @ \ {procs[p].row},
                               ![p].moved = @ + 1]
    BY DEF WriteMessage
  <2> QED
    BY <2>1 DEF PassInv, MoveTypeOK
<1>4. /\ s \in Mover /\ s.req = procs[p].req /\ s.todo = procs[p].todo
      /\ s.moved = procs[p].moved + 1 /\ s.pc = "move" /\ procs[p].moved \in Nat
  <2>1. procs[p].rows \ {procs[p].row} \in SUBSET Nat /\ procs[p].moved + 1 \in Nat
    BY <1>1 DEF Mover
  <2> QED
    BY <1>1, <2>1 DEF Mover
<1>5. n \in Nat /\ moves[id] \in Nat /\ n + procs[p].moved <= moves[id] /\ procs[p].todo # << >>
  <2>1. procs[p].todo # << >> /\ n + procs[p].moved <= moves[id]
    BY <1>1, PassLocals DEF LocalFaithful
  <2>2. Head(procs[p].todo).row \in Task
    BY <1>1, <2>1, HeadFaithful
  <2> QED
    BY <1>1, <2>1, <2>2, MoveTables DEF Task, PassInv
<1> HIDE DEF s
<1>6. TypedTables
  BY <1>1, <1>2 DEF TypedTables, PassInv, MoveTypeOK, MoveRefer
<1>7. TypedTasks
  <2>1. /\ MoveTypeOK /\ DOMAIN moves = DOMAIN tasks /\ \A t \in DOMAIN moves : moves[t] \in Nat
        /\ \A t \in DOMAIN asked : asked[t] \in Start
        /\ \A t \in DOMAIN tasks : tasks[t] \in Task
    BY MoveTables DEF PassInv
  <2>2. \A t \in DOMAIN tasks : moves[t] <= moves'[t] /\ moves'[t] \in Nat
    <3> HIDE DEF id
    <3> QED
      BY <1>1, <2>1
  <2>3. moves' = [t \in DOMAIN tasks |-> moves'[t]]
    BY <1>1, <2>1 DEF WriteMessage
  <2>4. moves' \in [DOMAIN tasks -> Nat]
    BY <2>2, <2>3
  <2>5. ASSUME NEW t \in DOMAIN tasks
        PROVE  Faithful(t, tasks[t], moves', asked, created)
    <3>1. Faithful(t, tasks[t], moves, asked, created) /\ tasks[t].moved \in Nat
      BY <2>1 DEF PassInv, TasksFaithful, Task
    <3>2. tasks[t].moved <= moves[t] /\ moves[t] <= moves'[t] /\ moves[t] \in Nat /\ moves'[t] \in Nat
      BY <2>1, <2>2, <3>1 DEF Faithful
    <3>3. tasks[t].moved <= moves'[t]
      BY <3>1, <3>2
    <3> QED
      BY <1>1, <2>1, <3>1, <3>3 DEF Faithful
  <2>6. \A q \in Queues : created[q] <= created[q]
    BY <2>1 DEF MoveTypeOK
  <2>7. \A t \in DOMAIN tasks : \A q \in Queues : asked[t].created[q] <= created[q]
    BY MoveTables DEF PassInv, MoveRefer
  <2> QED
    BY <1>2, <2>1, <2>2, <2>4, <2>5, <2>6, <2>7 DEF TypedTasks, MoveTypeOK
<1>8. GoesTo(p, s)
  BY <1>3, <1>4, KindsOfMover DEF GoesTo, PassInv, MoveTypeOK
<1>9. LocalFaithful(s, DOMAIN receipts', moves', asked', created')
  <2>1. LocalFaithful(procs[p], DOMAIN receipts', moves', asked', created')
    BY <1>1, <1>6, <1>7, PassLocals, LocalLasts
  <2>2. n + s.moved <= moves'[id]
    <3> HIDE DEF n, id
    <3> QED
      BY <1>1, <1>4, <1>5
  <2> QED
    BY <1>1, <1>4, <1>5, <2>1, <2>2 DEF LocalFaithful, Passes, Moving
<1> QED
  BY <1>6, <1>7, <1>8, <1>9, PassKept

LEMMA FinishPassTypes ==
  ASSUME PassInv, NEW p \in Procs, FinishPass(p)
  PROVE  PassInv'
<1> DEFINE t == Head(procs[p].todo)
           row == [t.row EXCEPT !.moved = @ + procs[p].moved,
                                !.toMove = procs[p].remaining,
                                !.status = IF procs[p].remaining = 0 THEN "COMPLETED" ELSE @]
           s == [pc |-> "pass", req |-> procs[p].req, todo |-> Tail(procs[p].todo)]
<1>1. /\ Moving(procs[p]) /\ UpdateMoveTask(t.id, row) /\ NextTask(p)
      /\ UNCHANGED <<messages, receipts, gone, created, failures, history>>
  BY DEF FinishPass, Moving
<1>2. procs[p] \in Mover /\ procs[p].todo # << >>
  BY <1>1, PassLocals
<1>3. t.row \in Task /\ t.id \in DOMAIN tasks /\ Faithful(t.id, t.row, moves, asked, created)
  BY <1>1, <1>2, HeadFaithful
<1>4. row \in Task /\ row.moved = t.row.moved + procs[p].moved /\ row.dest = t.row.dest
  <2>1. t.row.moved + procs[p].moved \in Nat /\ procs[p].remaining \in Nat
    BY <1>2, <1>3 DEF Mover, Task
  <2> QED
    BY <1>3, <2>1 DEF Task
<1>5. row.moved <= moves[t.id]
  BY <1>1, <1>4, PassLocals DEF LocalFaithful
<1>6. Faithful(t.id, row, moves, asked, created)
  <2> HIDE DEF row
  <2> QED
    BY <1>3, <1>4, <1>5 DEF Faithful
<1>7. cancelled' \subseteq DOMAIN tasks /\ UNCHANGED <<acked, created, moves, asked>>
  BY <1>1 DEF history, PassInv, MoveTypeOK
<1>8. GoesTo(p, s) /\ LocalFaithful(s, DOMAIN receipts, moves, asked, created)
  BY <1>1, <1>2, NextTaskGoes
<1>9. failures' \in Nat
  BY <1>1 DEF PassInv, MoveTypeOK
<1> HIDE DEF t, row, s
<1>10. TypedTasks
  BY <1>1, <1>3, <1>4, <1>6, <1>7, TaskWritten
<1>11. TypedTables
  BY <1>1, <1>7, <1>9, SameTables
<1>12. LocalFaithful(s, DOMAIN receipts', moves', asked', created')
  BY <1>1, <1>7, <1>8
<1> QED
  BY <1>8, <1>10, <1>11, <1>12, PassKept

-----------------------------------------------------------------------------
(* The requests.                                                             *)

LEMMA RequestKinds ==
  ASSUME NEW req \in Request
  PROVE  /\ req.kind = "start" => req.task \in Starts
         /\ req.kind = "cancel" => req.source \in Queues /\ req.task \in Nat
         /\ req.kind = "send" => req.message \in Arrivals
         /\ req.kind = "receive" => req.queue \in Queues
         /\ req.kind = "delete" => req.handle \in Nat
  BY DEF Request

\* What is known when the request of a pass is served.
LEMMA ReadyLocals ==
  ASSUME PassInv, NEW p \in Procs, NEW kind, Ready(p, kind)
  PROVE  /\ MoveTypeOK /\ procs[p] \in Passer /\ procs[p].req \in Request
         /\ procs[p].req.kind = kind
         /\ RequestRefers(procs[p].req, DOMAIN moves, DOMAIN receipts)
<1>1. Passes(procs[p]) /\ procs[p].req.kind = kind
  BY DEF Ready, Passes
<1> QED
  BY <1>1, PassLocals DEF LocalFaithful

\* A handler that returns.
LEMMA ReturnTypes ==
  ASSUME PassInv, NEW p \in Procs, Return(p), TypedTables, TypedTasks
  PROVE  PassInv'
  BY ReturnGoes, IdleFaithful, PassKept DEF PassInv

LEMMA StartTypes ==
  ASSUME PassInv, NEW p \in Procs, OtherRequest(p) \/ StartMessageMoveTask(p)
  PROVE  PassInv'
<1>1. UNCHANGED <<messages, receipts, gone, created, tasks, failures, history>>
  BY DEF OtherRequest, StartMessageMoveTask
<1>2. CASE Return(p)
  <2>1. Idle \in Proc /\ procs' = [procs EXCEPT ![p] = Idle]
    BY <1>2, KindsOfMover DEF Return
  <2> QED
    BY <1>1, <2>1, IdleFaithful, LocalStep
<1>3. ASSUME StartMessageMoveTask(p), ~Return(p) PROVE PassInv'
  <2> DEFINE s == [pc |-> "create", req |-> procs[p].req]
  <2>1. procs' = [procs EXCEPT ![p] = s] /\ Ready(p, "start")
    BY <1>3 DEF StartMessageMoveTask
  <2>2. procs[p].req \in Request /\ procs[p].req.kind = "start"
    BY <2>1, ReadyLocals
  <2>3. s \in Creator
    BY <2>2 DEF Creator
  <2>4. LocalFaithful(s, DOMAIN receipts, moves, asked, created)
    BY <2>2 DEF LocalFaithful, Passes, Moving
  <2> HIDE DEF s
  <2> QED
    BY <1>1, <2>1, <2>3, <2>4, KindsOfMover, LocalStep
<1> QED
  BY <1>2, <1>3 DEF OtherRequest

\* The effect of a new task on the histories.
LEMMA TaskInserted ==
  ASSUME PassInv, NEW p \in Procs, InsertMoveTask(p)
  PROVE  /\ TypedTasks
         /\ procs[p] \in Creator /\ procs[p].req.task \in Starts
         /\ Len(tasks') = Len(tasks) + 1
         /\ DOMAIN tasks' = DOMAIN tasks \cup {Len(tasks) + 1}
         /\ Len(tasks) + 1 \notin DOMAIN tasks
         /\ \A t \in DOMAIN tasks : tasks'[t] = tasks[t] /\ moves'[t] = moves[t]
         /\ tasks'[Len(tasks) + 1].source = procs[p].req.task.source
<1> DEFINE task == procs[p].req.task
           new == [source |-> task.source, dest |-> task.dest, limit |-> task.limit,
                   status |-> "RUNNING", moved |-> 0,
                   toMove |-> Cardinality(Movable(task.source))]
           start == [dest |-> task.dest, created |-> created]
           n == Len(tasks) + 1
<1>1. /\ tasks' = Append(tasks, new) /\ moves' = Append(moves, 0)
      /\ asked' = Append(asked, start) /\ UNCHANGED <<created, cancelled>>
      /\ Creates(procs[p]) /\ procs[p].pc = "create"
  BY DEF InsertMoveTask, Creates
<1>2. /\ procs[p] \in Proc /\ LocalFaithful(procs[p], DOMAIN receipts, moves, asked, created)
      /\ MoveTypeOK
  BY DEF PassInv, MoveTypeOK, LocalsFaithful
<1>3. procs[p] \in Creator /\ procs[p].req.kind = "start"
  BY <1>1, <1>2, MoveKinds DEF LocalFaithful
<1>4. task \in Starts
  BY <1>3, RequestKinds DEF Creator
<1>5. task.source \in Queues /\ task.dest \in Queues \cup {NoQueue} /\ task.limit \in Nat
  BY <1>4, MoveAssumption
<1>6. new \in Task /\ new.source = task.source /\ new.dest = task.dest /\ new.moved = 0
  BY <1>2, <1>5, RowsFinite DEF Task
<1>7. start \in Start /\ start.dest = task.dest /\ start.created = created
  BY <1>2, <1>5 DEF Start, MoveTypeOK
<1>8. /\ Len(tasks) \in Nat /\ DOMAIN tasks = 1 .. Len(tasks)
      /\ moves \in Seq(Nat) /\ Len(moves) = Len(tasks)
      /\ asked \in Seq(Start) /\ Len(asked) = Len(tasks)
  <2>1. Len(tasks) \in Nat /\ DOMAIN tasks = 1 .. Len(tasks)
    BY <1>2, MoveTables
  <2>2. moves \in [1 .. Len(tasks) -> Nat] /\ asked \in [1 .. Len(tasks) -> Start]
    BY <1>2, <2>1 DEF MoveTypeOK
  <2>3. moves \in Seq(Nat) /\ asked \in Seq(Start)
    BY <2>1, <2>2, SeqDef
  <2> QED
    BY <2>1, <2>2, <2>3, LenProperties
<1> HIDE DEF new, start, task
<1>9. /\ tasks' \in Seq(Task) /\ Len(tasks') = n /\ DOMAIN tasks' = 1 .. n /\ tasks'[n] = new
      /\ \A t \in DOMAIN tasks : tasks'[t] = tasks[t]
  BY <1>1, <1>2, <1>6, <1>8, AppendProperties DEF MoveTypeOK
<1>10. /\ moves' \in Seq(Nat) /\ Len(moves') = n /\ DOMAIN moves' = 1 .. n /\ moves'[n] = 0
       /\ \A t \in DOMAIN tasks : moves'[t] = moves[t]
  BY <1>1, <1>8, AppendProperties
<1>11. /\ asked' \in Seq(Start) /\ Len(asked') = n /\ DOMAIN asked' = 1 .. n /\ asked'[n] = start
       /\ \A t \in DOMAIN tasks : asked'[t] = asked[t]
  BY <1>1, <1>7, <1>8, AppendProperties
<1>12. DOMAIN tasks' = DOMAIN tasks \cup {n} /\ n \notin DOMAIN tasks
  BY <1>8, <1>9
<1>13. moves' \in [DOMAIN tasks' -> Nat] /\ asked' \in [DOMAIN tasks' -> Start]
  BY <1>9, <1>10, <1>11
<1>14. \A t \in DOMAIN tasks : moves[t] <= moves'[t] /\ asked'[t] = asked[t]
  BY <1>2, <1>10, <1>11, MoveTables
<1>15. \A q \in Queues : created[q] <= created'[q] /\ created[q] <= created[q]
  BY <1>1, <1>2 DEF MoveTypeOK
<1>16. ASSUME NEW t \in DOMAIN tasks'
       PROVE  /\ Faithful(t, tasks'[t], moves', asked', created')
              /\ \A q \in Queues : asked'[t].created[q] <= created'[q]
  <2>1. CASE t = n
    <3>1. t \in DOMAIN moves' /\ tasks'[t].moved <= moves'[t] /\ tasks'[t].dest = asked'[t].dest
      BY <1>6, <1>7, <1>9, <1>10, <1>11, <2>1
    <3>2. asked'[t].created = created
      BY <1>7, <1>11, <2>1
    <3> QED
      BY <1>1, <1>15, <3>1, <3>2 DEF Faithful
  <2>2. CASE t # n
    <3>1. t \in DOMAIN tasks /\ t \in DOMAIN moves'
      BY <1>10, <1>12, <1>9, <2>2
    <3>2. /\ Faithful(t, tasks[t], moves, asked, created)
          /\ \A q \in Queues : asked[t].created[q] <= created[q]
      BY <1>2, <3>1, MoveTables DEF PassInv, TasksFaithful, MoveRefer
    <3>3. tasks'[t] = tasks[t] /\ moves'[t] = moves[t] /\ asked'[t] = asked[t] /\ created' = created
      BY <1>1, <1>9, <1>10, <1>11, <3>1
    <3> QED
      BY <3>1, <3>2, <3>3 DEF Faithful
  <2> QED
    BY <2>1, <2>2
<1>17. cancelled' \subseteq DOMAIN tasks' /\ created' \in [Queues -> Nat]
  BY <1>1, <1>2, <1>12 DEF MoveTypeOK
<1>18. TypedTasks
  BY <1>9, <1>12, <1>13, <1>14, <1>15, <1>16, <1>17 DEF TypedTasks
<1> QED
  BY <1>3, <1>4, <1>6, <1>9, <1>10, <1>12, <1>18 DEF task

LEMMA InsertMoveTaskTypes ==
  ASSUME PassInv, NEW p \in Procs, InsertMoveTask(p)
  PROVE  PassInv'
<1> DEFINE s == [procs[p] EXCEPT !.pc = "created"]
<1>1. TypedTasks /\ procs[p] \in Creator
  BY TaskInserted
<1>2. s \in Creator /\ s.pc = "created"
  BY <1>1 DEF Creator
<1>3. UNCHANGED <<messages, receipts, gone, acked>> /\ failures' \in Nat
  BY DEF InsertMoveTask, PassInv, MoveTypeOK
<1>4. procs' = [procs EXCEPT ![p] = s]
  BY DEF InsertMoveTask, PassInv, MoveTypeOK
<1> HIDE DEF s
<1>5. GoesTo(p, s)
  BY <1>2, <1>4, KindsOfMover DEF GoesTo, PassInv, MoveTypeOK
<1>6. LocalFaithful(s, DOMAIN receipts', moves', asked', created')
  BY <1>2 DEF LocalFaithful, Passes, Moving
<1> QED
  BY <1>1, <1>3, <1>5, <1>6, SameTables, PassKept

LEMMA processMoveTasksTypes ==
  ASSUME PassInv, NEW p \in Procs, processMoveTasks(p)
  PROVE  PassInv'
<1> DEFINE none == [kind |-> "none"]
<1>1. PICK s \in RunningMoveTasks :
         procs' = [procs EXCEPT ![p] = [pc |-> "pass", req |-> none, todo |-> s]]
  BY DEF processMoveTasks
<1>2. UNCHANGED <<messages, receipts, gone, created, tasks, failures, history>>
  BY DEF processMoveTasks
<1>3. none \in Request /\ RequestRefers(none, DOMAIN moves, DOMAIN receipts)
  BY DEF Request, RequestRefers
<1> DEFINE local == [pc |-> "pass", req |-> none, todo |-> s]
<1>4. local \in Proc /\ LocalFaithful(local, DOMAIN receipts, moves, asked, created)
  <2> HIDE DEF none
  <2> QED
    BY <1>3, ListingFaithful
<1>5. procs' = [procs EXCEPT ![p] = local]
  BY <1>1
<1> HIDE DEF local
<1> QED
  BY <1>2, <1>4, <1>5, LocalStep

LEMMA CancelTypes ==
  ASSUME PassInv, NEW p \in Procs, CancelMessageMoveTask(p)
  PROVE  PassInv'
<1>1. UNCHANGED <<messages, receipts, gone, created, tasks, failures, history>>
  BY DEF CancelMessageMoveTask
<1>2. Ready(p, "cancel")
  BY DEF CancelMessageMoveTask
<1>3. /\ MoveTypeOK /\ procs[p].req \in Request /\ procs[p].req.kind = "cancel"
      /\ procs[p].req.task \in DOMAIN tasks
  BY <1>2, ReadyLocals, MoveTables DEF RequestRefers
<1>4. CASE Return(p)
  <2>1. Idle \in Proc /\ procs' = [procs EXCEPT ![p] = Idle]
    BY <1>4, KindsOfMover DEF Return
  <2> QED
    BY <1>1, <2>1, IdleFaithful, LocalStep
<1>5. CASE ~Return(p)
  <2> DEFINE id == procs[p].req.task
             s == [pc |-> "cancel", id |-> id, row |-> tasks[id]]
  <2>1. procs' = [procs EXCEPT ![p] = s]
    BY <1>5 DEF CancelMessageMoveTask
  <2>2. tasks[id] \in Task /\ id \in Nat
    BY <1>3, MoveTables
  <2>3. s \in Canceller
    BY <2>2 DEF Canceller
  <2>4. LocalFaithful(s, DOMAIN receipts, moves, asked, created)
    BY <1>3 DEF LocalFaithful, Passes, Moving, PassInv, TasksFaithful
  <2> HIDE DEF s
  <2> QED
    BY <1>1, <2>1, <2>3, <2>4, KindsOfMover, LocalStep
<1> QED
  BY <1>4, <1>5

LEMMA WriteCancellationTypes ==
  ASSUME PassInv, NEW p \in Procs, WriteCancellation(p)
  PROVE  PassInv'
<1> DEFINE id == procs[p].id
           row == CancelledRow(procs[p].row)
<1>1. /\ Cancels(procs[p]) /\ UpdateMoveTask(id, row) /\ Return(p)
      /\ cancelled' = cancelled \cup {id}
      /\ UNCHANGED <<messages, receipts, gone, created, failures, acked, moves, asked>>
  BY DEF WriteCancellation, Cancels
<1>2. /\ procs[p] \in Proc /\ LocalFaithful(procs[p], DOMAIN receipts, moves, asked, created)
      /\ MoveTypeOK
  BY DEF PassInv, MoveTypeOK, LocalsFaithful
<1>3. procs[p] \in Canceller /\ Faithful(id, procs[p].row, moves, asked, created)
  BY <1>1, <1>2, MoveKinds DEF LocalFaithful, Cancels
<1>4. id \in DOMAIN tasks /\ procs[p].row \in Task
  BY <1>2, <1>3, MoveTables DEF Faithful, Canceller
<1>5. row \in Task /\ row.moved = procs[p].row.moved /\ row.dest = procs[p].row.dest
  BY <1>4 DEF CancelledRow, Task
<1>6. cancelled' \subseteq DOMAIN tasks /\ failures' \in Nat
  BY <1>1, <1>2, <1>4 DEF MoveTypeOK
<1> HIDE DEF row, id
<1>7. Faithful(id, row, moves, asked, created)
  BY <1>3, <1>5 DEF Faithful
<1> QED
  BY <1>1, <1>4, <1>5, <1>6, <1>7, TaskWritten, SameTables, ReturnTypes

LEMMA SendMessageTypes ==
  ASSUME PassInv, NEW p \in Procs, SendMessage(p)
  PROVE  PassInv'
<1> DEFINE m == procs[p].req.message
           new == [queue |-> m.queue, dlSource |-> m.dlSource, hidden |-> FALSE,
                   deleted |-> FALSE]
<1>1. /\ Ready(p, "send") /\ Return(p)
      /\ messages' = Append(messages, new) \/ messages' = messages
      /\ UNCHANGED <<receipts, gone, created, tasks, failures>>
      /\ UNCHANGED <<acked, cancelled, moves, asked>>
  BY DEF SendMessage, history
<1>2. m \in Arrivals
  BY <1>1, ReadyLocals, RequestKinds
<1>3. new \in Message
  BY <1>2, MoveAssumption DEF Message
<1> HIDE DEF new, m
<1>4. messages' \in Seq(Message) /\ DOMAIN messages \subseteq DOMAIN messages'
  <2>1. messages \in Seq(Message)
    BY DEF PassInv, MoveTypeOK
  <2>2. CASE messages' = Append(messages, new)
    BY <1>3, <2>1, <2>2
  <2>3. CASE messages' = messages
    BY <2>1, <2>3
  <2> QED
    BY <1>1, <2>2, <2>3
<1>5. TypedTables
  BY <1>1, <1>4 DEF TypedTables, PassInv, MoveTypeOK, MoveRefer
<1> QED
  BY <1>1, <1>5, SameTasks, ReturnTypes

\* The effect of a receive: a visible message of the queue is hidden, its prior
\* receipts end and one is issued; or nothing is there.
LEMMA MessageReceived ==
  ASSUME PassInv, NEW p \in Procs, ReceiveMessage(p)
  PROVE  /\ Return(p)
         /\ UNCHANGED <<gone, created, tasks, failures>>
         /\ UNCHANGED <<acked, cancelled, moves, asked>>
         /\ \/ UNCHANGED <<messages, receipts>>
            \/ \E r \in DOMAIN messages :
                 LET h == Len(receipts) + 1
                 IN  /\ messages' \in Seq(Message) /\ DOMAIN messages' = DOMAIN messages
                     /\ \A o \in DOMAIN messages : /\ messages'[o].queue = messages[o].queue
                                                   /\ messages'[o].deleted = messages[o].deleted
                     /\ receipts' \in Seq(Receipt) /\ DOMAIN receipts' = DOMAIN receipts \cup {h}
                     /\ receipts'[h].message = r /\ receipts'[h].queue = messages[r].queue
                     /\ \A g \in DOMAIN receipts :
                          /\ receipts'[g].message = receipts[g].message
                          /\ receipts'[g].queue = receipts[g].queue
                          /\ receipts'[g].active => receipts[g].active
<1>1. /\ Return(p) /\ UNCHANGED <<gone, created, tasks, failures>>
      /\ UNCHANGED <<acked, cancelled, moves, asked>> /\ Ready(p, "receive")
  BY DEF ReceiveMessage, history
<1>2. MoveTypeOK /\ procs[p].req.queue \in Queues
  BY <1>1, ReadyLocals, RequestKinds
<1>3. ASSUME NEW q \in Queues, NEW r \in Movable(q),
             messages' = [messages EXCEPT ![r].hidden = TRUE],
             receipts' = Append(Deactivated(r), [queue |-> q, message |-> r, active |-> TRUE])
      PROVE  LET h == Len(receipts) + 1
             IN  /\ messages' \in Seq(Message) /\ DOMAIN messages' = DOMAIN messages
                 /\ \A o \in DOMAIN messages : /\ messages'[o].queue = messages[o].queue
                                               /\ messages'[o].deleted = messages[o].deleted
                 /\ receipts' \in Seq(Receipt) /\ DOMAIN receipts' = DOMAIN receipts \cup {h}
                 /\ receipts'[h].message = r /\ receipts'[h].queue = messages[r].queue
                 /\ \A g \in DOMAIN receipts :
                      /\ receipts'[g].message = receipts[g].message
                      /\ receipts'[g].queue = receipts[g].queue
                      /\ receipts'[g].active => receipts[g].active
  <2> DEFINE new == [queue |-> q, message |-> r, active |-> TRUE]
  <2>1. r \in DOMAIN messages /\ r \in Nat /\ messages[r].queue = q
    BY <1>2, RowsFinite DEF Movable
  <2>2. messages[r] \in Message
    BY <1>2, <2>1, MoveTables
  <2>3. [messages[r] EXCEPT !.hidden = TRUE] \in Message
    BY <2>2 DEF Message
  <2>4. /\ messages' \in Seq(Message) /\ DOMAIN messages' = DOMAIN messages
        /\ messages'[r] = [messages[r] EXCEPT !.hidden = TRUE]
        /\ \A o \in DOMAIN messages : o # r => messages'[o] = messages[o]
    <3>1. messages' = [messages EXCEPT ![r] = [messages[r] EXCEPT !.hidden = TRUE]]
      BY <1>3
    <3> DEFINE row == [messages[r] EXCEPT !.hidden = TRUE]
    <3> HIDE DEF row
    <3>2. messages' = [messages EXCEPT ![r] = row] /\ row \in Message
      BY <2>3, <3>1 DEF row
    <3>3. /\ messages' \in Seq(Message) /\ DOMAIN messages' = DOMAIN messages
          /\ messages'[r] = row
          /\ \A o \in DOMAIN messages : o # r => messages'[o] = messages[o]
      BY <1>2, <2>1, <3>2 DEF MoveTypeOK
    <3> QED
      BY <3>3 DEF row
  <2>5. messages'[r].queue = messages[r].queue /\ messages'[r].deleted = messages[r].deleted
    BY <2>2, <2>4 DEF Message
  <2>6. new \in Receipt /\ new.message = r /\ new.queue = q
    BY <2>1 DEF Receipt
  <2> HIDE DEF new
  <2>7. /\ Deactivated(r) \in Seq(Receipt) /\ Len(Deactivated(r)) = Len(receipts)
        /\ DOMAIN Deactivated(r) = DOMAIN receipts
        /\ Len(receipts) \in Nat /\ DOMAIN receipts = 1 .. Len(receipts)
    BY <1>2, DeactivatedTyped, MoveTables
  <2>8. receipts' = Append(Deactivated(r), new)
    BY <1>3 DEF new
  <2>9. /\ receipts' \in Seq(Receipt) /\ DOMAIN receipts' = 1 .. (Len(receipts) + 1)
        /\ receipts'[Len(receipts) + 1] = new
        /\ \A g \in DOMAIN receipts : receipts'[g] = Deactivated(r)[g]
    BY <2>6, <2>7, <2>8, AppendProperties
  <2>10. DOMAIN receipts' = DOMAIN receipts \cup {Len(receipts) + 1}
    BY <2>7, <2>9
  <2>11. \A g \in DOMAIN receipts :
           /\ receipts'[g].message = receipts[g].message
           /\ receipts'[g].queue = receipts[g].queue
           /\ receipts'[g].active => receipts[g].active
    BY <1>2, <2>9, DeactivatedTyped
  <2> QED
    BY <2>1, <2>4, <2>5, <2>6, <2>9, <2>10, <2>11
<1>4. CASE UNCHANGED <<messages, receipts>>
  BY <1>1, <1>4
<1>5. CASE ~UNCHANGED <<messages, receipts>>
  <2>1. PICK r \in Movable(procs[p].req.queue) :
           /\ messages' = [messages EXCEPT ![r].hidden = TRUE]
           /\ receipts' = Append(Deactivated(r),
                [queue |-> procs[p].req.queue, message |-> r, active |-> TRUE])
    BY <1>5 DEF ReceiveMessage
  <2>2. r \in DOMAIN messages
    BY DEF Movable
  <2> QED
    BY <1>1, <1>2, <1>3, <2>1, <2>2
<1> QED
  BY <1>4, <1>5

LEMMA ReceiveMessageTypes ==
  ASSUME PassInv, NEW p \in Procs, ReceiveMessage(p)
  PROVE  PassInv'
<1>1. /\ Return(p) /\ UNCHANGED <<gone, created, tasks, failures>>
      /\ UNCHANGED <<acked, cancelled, moves, asked>>
  BY MessageReceived
<1>2. TypedTasks /\ failures' \in Nat
  BY <1>1, SameTasks DEF PassInv, MoveTypeOK
<1>3. CASE UNCHANGED <<messages, receipts>>
  BY <1>1, <1>2, <1>3, SameTables, ReturnTypes
<1>4. CASE ~UNCHANGED <<messages, receipts>>
  <2> DEFINE h == Len(receipts) + 1
  <2>1. PICK r \in DOMAIN messages :
           /\ messages' \in Seq(Message) /\ DOMAIN messages' = DOMAIN messages
           /\ receipts' \in Seq(Receipt) /\ DOMAIN receipts' = DOMAIN receipts \cup {h}
           /\ receipts'[h].message = r
           /\ \A g \in DOMAIN receipts : receipts'[g].message = receipts[g].message
    BY <1>4, MessageReceived
  <2> HIDE DEF h
  <2>2. TypedTables
    BY <1>1, <1>2, <2>1 DEF TypedTables, PassInv, MoveTypeOK, MoveRefer
  <2> QED
    BY <1>1, <1>2, <2>2, ReturnTypes
<1> QED
  BY <1>3, <1>4

\* The effect of a delete: the message goes and its receipt with it, or nothing.
LEMMA MessageDeleted ==
  ASSUME PassInv, NEW p \in Procs, DeleteMessage(p)
  PROVE  /\ Return(p)
         /\ UNCHANGED <<gone, created, tasks, failures>>
         /\ UNCHANGED <<cancelled, moves, asked>>
         /\ \/ UNCHANGED <<messages, receipts, acked>>
            \/ \E r \in DOMAIN messages :
                 /\ messages' \in Seq(Message) /\ DOMAIN messages' = DOMAIN messages
                 /\ messages'[r].deleted
                 /\ \A o \in DOMAIN messages : /\ messages'[o].queue = messages[o].queue
                                               /\ messages[o].deleted => messages'[o].deleted
                 /\ receipts' \in Seq(Receipt) /\ DOMAIN receipts' = DOMAIN receipts
                 /\ \A g \in DOMAIN receipts :
                      /\ receipts'[g].message = receipts[g].message
                      /\ receipts'[g].queue = receipts[g].queue
                      /\ receipts'[g].active => receipts[g].active
                 /\ acked' = acked \cup {r}
<1> DEFINE h == procs[p].req.handle
           r == receipts[h].message
           row == [messages[r] EXCEPT !.deleted = TRUE, !.hidden = FALSE]
           receipt == [receipts[h] EXCEPT !.active = FALSE]
<1>1. /\ Return(p) /\ UNCHANGED <<gone, created, tasks, failures>>
      /\ UNCHANGED <<cancelled, moves, asked>> /\ Ready(p, "delete")
  BY DEF DeleteMessage
<1>2. MoveTypeOK /\ h \in DOMAIN receipts
  BY <1>1, ReadyLocals DEF RequestRefers
<1>3. r \in DOMAIN messages
  BY <1>2 DEF PassInv, MoveRefer
<1>4. receipts[h] \in Receipt /\ messages[r] \in Message
  BY <1>2, <1>3, MoveTables
<1>5. /\ row \in Message /\ row.queue = messages[r].queue /\ row.deleted
      /\ receipt \in Receipt /\ receipt.message = r /\ receipt.queue = receipts[h].queue
      /\ ~receipt.active
  BY <1>4 DEF Message, Receipt
<1>6. CASE UNCHANGED <<messages, receipts, acked>>
  BY <1>1, <1>6
<1>7. CASE ~UNCHANGED <<messages, receipts, acked>>
  <2>1. /\ messages' = [messages EXCEPT ![r].deleted = TRUE, ![r].hidden = FALSE]
        /\ receipts' = [receipts EXCEPT ![h].active = FALSE]
        /\ acked' = acked \cup {r}
    BY <1>7 DEF DeleteMessage
  <2>2. messages' = [messages EXCEPT ![r] = row] /\ receipts' = [receipts EXCEPT ![h] = receipt]
    BY <1>2, <1>3, <2>1 DEF MoveTypeOK
  <2> HIDE DEF row, receipt, r, h
  <2>3. /\ messages' \in Seq(Message) /\ DOMAIN messages' = DOMAIN messages
        /\ messages'[r] = row
        /\ \A o \in DOMAIN messages : o # r => messages'[o] = messages[o]
    BY <1>2, <1>3, <1>5, <2>2 DEF MoveTypeOK
  <2>4. /\ receipts' \in Seq(Receipt) /\ DOMAIN receipts' = DOMAIN receipts
        /\ receipts'[h] = receipt
        /\ \A g \in DOMAIN receipts : g # h => receipts'[g] = receipts[g]
    BY <1>2, <1>5, <2>2 DEF MoveTypeOK
  <2>5. receipts[h].message = r
    BY DEF r
  <2>6. \A o \in DOMAIN messages : /\ messages'[o].queue = messages[o].queue
                                   /\ messages[o].deleted => messages'[o].deleted
    BY <1>5, <2>3
  <2>7. \A g \in DOMAIN receipts : /\ receipts'[g].message = receipts[g].message
                                   /\ receipts'[g].queue = receipts[g].queue
                                   /\ receipts'[g].active => receipts[g].active
    BY <1>5, <2>4, <2>5
  <2> QED
    BY <1>1, <1>3, <1>5, <2>1, <2>3, <2>4, <2>6, <2>7
<1> QED
  BY <1>6, <1>7

LEMMA DeleteMessageTypes ==
  ASSUME PassInv, NEW p \in Procs, DeleteMessage(p)
  PROVE  PassInv'
<1>1. /\ Return(p) /\ UNCHANGED <<gone, created, tasks, failures>>
      /\ UNCHANGED <<cancelled, moves, asked>>
  BY MessageDeleted
<1>2. TypedTasks /\ failures' \in Nat
  BY <1>1, SameTasks DEF PassInv, MoveTypeOK
<1>3. CASE UNCHANGED <<messages, receipts, acked>>
  BY <1>1, <1>2, <1>3, SameTables, ReturnTypes
<1>4. CASE ~UNCHANGED <<messages, receipts, acked>>
  <2>1. PICK r \in DOMAIN messages :
           /\ messages' \in Seq(Message) /\ DOMAIN messages' = DOMAIN messages
           /\ receipts' \in Seq(Receipt) /\ DOMAIN receipts' = DOMAIN receipts
           /\ \A g \in DOMAIN receipts : receipts'[g].message = receipts[g].message
           /\ acked' = acked \cup {r}
    BY <1>4, MessageDeleted
  <2>2. TypedTables
    BY <1>1, <1>2, <2>1 DEF TypedTables, PassInv, MoveTypeOK, MoveRefer
  <2> QED
    BY <1>1, <1>2, <2>2, ReturnTypes
<1> QED
  BY <1>3, <1>4

-----------------------------------------------------------------------------
(* What happens outside the requests.                                        *)

LEMMA ProcsSame ==
  ASSUME PassInv, TypedTables, TypedTasks, procs' = procs
  PROVE  PassInv'
<1>1. MoveTypeOK'
  BY DEF PassInv, MoveTypeOK, TypedTables, TypedTasks
<1>2. MoveRefer' /\ TasksFaithful'
  BY <1>1, MoveTables DEF MoveRefer, TasksFaithful, TypedTables, TypedTasks
<1>3. ASSUME NEW q \in Procs
      PROVE  LocalFaithful(procs'[q], DOMAIN receipts', moves', asked', created')
  <2>1. procs[q] \in Proc /\ LocalFaithful(procs[q], DOMAIN receipts, moves, asked, created)
    BY DEF PassInv, MoveTypeOK, LocalsFaithful
  <2> QED
    BY <2>1, LocalLasts DEF PassInv
<1> QED
  BY <1>1, <1>2, <1>3 DEF PassInv, LocalsFaithful

\* A lease ends: nothing but the visibility of the row changes.
LEMMA Lapsed ==
  ASSUME MoveTypeOK, NEW r \in DOMAIN messages, Lapse(r)
  PROVE  /\ messages' \in Seq(Message) /\ DOMAIN messages' = DOMAIN messages
         /\ \A o \in DOMAIN messages : /\ messages'[o].queue = messages[o].queue
                                       /\ messages'[o].deleted = messages[o].deleted
         /\ UNCHANGED <<receipts, gone, created, tasks, procs, failures>>
         /\ UNCHANGED <<acked, cancelled, moves, asked>>
<1> DEFINE row == [messages[r] EXCEPT !.hidden = FALSE]
<1>1. messages[r] \in Message
  BY MoveTables
<1>2. row \in Message /\ row.queue = messages[r].queue /\ row.deleted = messages[r].deleted
  BY <1>1 DEF Message
<1>3. messages' = [messages EXCEPT ![r] = row]
  BY DEF Lapse, MoveTypeOK
<1>4. /\ UNCHANGED <<receipts, gone, created, tasks, procs, failures>>
      /\ UNCHANGED <<acked, cancelled, moves, asked>>
  BY DEF Lapse, history
<1> HIDE DEF row
<1>5. /\ messages' \in Seq(Message) /\ DOMAIN messages' = DOMAIN messages
      /\ messages'[r] = row
      /\ \A o \in DOMAIN messages : o # r => messages'[o] = messages[o]
  BY <1>2, <1>3 DEF MoveTypeOK
<1> QED
  BY <1>2, <1>4, <1>5

LEMMA LapseTypes ==
  ASSUME PassInv, NEW r \in DOMAIN messages, Lapse(r)
  PROVE  PassInv'
<1>1. /\ messages' \in Seq(Message) /\ DOMAIN messages' = DOMAIN messages
      /\ UNCHANGED <<receipts, gone, created, tasks, procs, failures>>
      /\ UNCHANGED <<acked, cancelled, moves, asked>>
  BY Lapsed DEF PassInv
<1>2. TypedTables
  BY <1>1 DEF TypedTables, PassInv, MoveTypeOK, MoveRefer
<1> QED
  BY <1>1, <1>2, SameTasks, ProcsSame

LEMMA DeleteQueueTypes ==
  ASSUME PassInv, NEW p \in Procs, NEW q \in Queues, DeleteQueue(p, q)
  PROVE  PassInv'
<1>1. /\ UNCHANGED <<messages, receipts, created, tasks, procs>>
      /\ UNCHANGED <<acked, cancelled, moves, asked>>
      /\ gone' = gone \cup {q} /\ failures' = failures + 1
  BY DEF DeleteQueue, history
<1>2. TypedTables
  BY <1>1 DEF TypedTables, PassInv, MoveTypeOK, MoveRefer
<1> QED
  BY <1>1, <1>2, SameTasks, ProcsSame

\* The effect of a creation over a tombstone on the messages, the receipts and
\* the tasks.
LEMMA QueueCreated ==
  ASSUME PassInv, NEW p \in Procs, NEW q \in Queues, CreateQueue(p, q)
  PROVE  /\ messages' \in Seq(Message) /\ DOMAIN messages' = DOMAIN messages
         /\ \A o \in DOMAIN messages : /\ messages'[o].queue = messages[o].queue
                                       /\ messages[o].deleted => messages'[o].deleted
         /\ receipts' \in Seq(Receipt) /\ DOMAIN receipts' = DOMAIN receipts
         /\ \A g \in DOMAIN receipts : /\ receipts'[g].message = receipts[g].message
                                       /\ receipts'[g].queue = receipts[g].queue
                                       /\ receipts'[g].active => receipts[g].active
         /\ tasks' \in Seq(Task) /\ DOMAIN tasks' = DOMAIN tasks
         /\ \A t \in DOMAIN tasks :
              /\ tasks'[t].source = tasks[t].source /\ tasks'[t].moved = tasks[t].moved
              /\ tasks'[t].status \in {tasks[t].status, "REMOVED"}
              /\ tasks'[t].dest = IF tasks[t].dest = q THEN NoQueue ELSE tasks[t].dest
         /\ created' \in [Queues -> Nat] /\ created'[q] = created[q] + 1
         /\ \A o \in Queues : o # q => created'[o] = created[o]
         /\ UNCHANGED <<procs, failures>> /\ UNCHANGED <<acked, cancelled, moves, asked>>
         /\ gone' \subseteq Queues
<1>1. MoveTypeOK
  BY DEF PassInv
<1>2. UNCHANGED <<procs, failures>> /\ UNCHANGED <<acked, cancelled, moves, asked>>
  BY DEF CreateQueue, history
<1>3. /\ created' \in [Queues -> Nat] /\ created'[q] = created[q] + 1 /\ gone' \subseteq Queues
      /\ \A o \in Queues : o # q => created'[o] = created[o]
  <2>1. created' = [created EXCEPT ![q] = @ + 1] /\ gone' = gone \ {q}
    BY DEF CreateQueue
  <2>2. created \in [Queues -> Nat] /\ gone \subseteq Queues
    BY <1>1 DEF MoveTypeOK
  <2> QED
    BY <2>1, <2>2
<1>4. /\ messages' \in Seq(Message) /\ DOMAIN messages' = DOMAIN messages
      /\ \A o \in DOMAIN messages : /\ messages'[o].queue = messages[o].queue
                                    /\ messages[o].deleted => messages'[o].deleted
  <2>1. Len(messages) \in Nat /\ DOMAIN messages = 1 .. Len(messages)
    BY <1>1, MoveTables
  <2>2. messages' = [r \in DOMAIN messages |->
          IF messages[r].queue = q
            THEN [messages[r] EXCEPT !.deleted = TRUE, !.hidden = FALSE]
            ELSE messages[r]]
    BY DEF CreateQueue
  <2>3. ASSUME NEW r \in DOMAIN messages
        PROVE  /\ messages'[r] \in Message /\ messages'[r].queue = messages[r].queue
               /\ messages[r].deleted => messages'[r].deleted
    <3>1. messages[r] \in Message
      BY <1>1, MoveTables
    <3>2. \/ messages'[r] = [messages[r] EXCEPT !.deleted = TRUE, !.hidden = FALSE]
          \/ messages'[r] = messages[r]
      BY <2>2
    <3> QED
      BY <3>1, <3>2 DEF Message
  <2>4. messages' = [r \in 1 .. Len(messages) |-> messages'[r]] /\ DOMAIN messages' = DOMAIN messages
    BY <2>1, <2>2
  <2>5. messages' \in [1 .. Len(messages) -> Message]
    BY <2>1, <2>3, <2>4
  <2>6. messages' \in Seq(Message)
    BY <2>1, <2>5, SeqDef
  <2> QED
    BY <2>3, <2>4, <2>6
<1>5. /\ receipts' \in Seq(Receipt) /\ DOMAIN receipts' = DOMAIN receipts
      /\ \A g \in DOMAIN receipts : /\ receipts'[g].message = receipts[g].message
                                    /\ receipts'[g].queue = receipts[g].queue
                                    /\ receipts'[g].active => receipts[g].active
  <2>1. Len(receipts) \in Nat /\ DOMAIN receipts = 1 .. Len(receipts)
    BY <1>1, MoveTables
  <2> DEFINE keeps(h) == /\ receipts[h].active
                         /\ receipts[h].queue # q
                         /\ messages[receipts[h].message].queue # q
  <2>2. receipts' = [h \in DOMAIN receipts |-> [receipts[h] EXCEPT !.active = keeps(h)]]
    BY DEF CreateQueue
  <2>3. \A h \in DOMAIN receipts : keeps(h) \in BOOLEAN /\ (keeps(h) => receipts[h].active)
    OBVIOUS
  <2> HIDE DEF keeps
  <2>4. ASSUME NEW h \in DOMAIN receipts
        PROVE  /\ receipts'[h] \in Receipt /\ receipts'[h].message = receipts[h].message
               /\ receipts'[h].queue = receipts[h].queue
               /\ receipts'[h].active => receipts[h].active
    <3>1. receipts[h] \in Receipt
      BY <1>1, MoveTables
    <3>2. receipts'[h] = [receipts[h] EXCEPT !.active = keeps(h)]
      BY <2>2
    <3> QED
      BY <2>3, <3>1, <3>2 DEF Receipt
  <2>5. receipts' = [h \in 1 .. Len(receipts) |-> receipts'[h]] /\ DOMAIN receipts' = DOMAIN receipts
    BY <2>1, <2>2
  <2>6. receipts' \in [1 .. Len(receipts) -> Receipt]
    BY <2>1, <2>4, <2>5
  <2>7. receipts' \in Seq(Receipt)
    BY <2>1, <2>6, SeqDef
  <2> QED
    BY <2>4, <2>5, <2>7
<1>6. /\ tasks' \in Seq(Task) /\ DOMAIN tasks' = DOMAIN tasks
      /\ \A t \in DOMAIN tasks :
           /\ tasks'[t].source = tasks[t].source /\ tasks'[t].moved = tasks[t].moved
           /\ tasks'[t].status \in {tasks[t].status, "REMOVED"}
           /\ tasks'[t].dest = IF tasks[t].dest = q THEN NoQueue ELSE tasks[t].dest
  <2>1. Len(tasks) \in Nat /\ DOMAIN tasks = 1 .. Len(tasks)
    BY <1>1, MoveTables
  <2> DEFINE dest(t) == IF tasks[t].dest = q THEN NoQueue ELSE tasks[t].dest
             status(t) == IF tasks[t].source = q THEN "REMOVED" ELSE tasks[t].status
  <2>2. tasks' = [t \in DOMAIN tasks |->
          [tasks[t] EXCEPT !.dest = dest(t), !.status = status(t)]]
    BY DEF CreateQueue, TasksWithout
  <2>3. ASSUME NEW t \in DOMAIN tasks
        PROVE  /\ tasks'[t] \in Task
               /\ tasks'[t].source = tasks[t].source /\ tasks'[t].moved = tasks[t].moved
               /\ tasks'[t].status = status(t) /\ tasks'[t].dest = dest(t)
    <3>1. tasks[t] \in Task
      BY <1>1, MoveTables
    <3>2. dest(t) \in Queues \cup {NoQueue} /\ status(t) \in {tasks[t].status, "REMOVED"}
      BY <3>1 DEF Task
    <3> HIDE DEF dest, status
    <3>3. tasks'[t] = [tasks[t] EXCEPT !.dest = dest(t), !.status = status(t)]
      BY <2>2
    <3> QED
      BY <3>1, <3>2, <3>3 DEF Task
  <2> HIDE DEF dest, status
  <2>4. tasks' = [t \in 1 .. Len(tasks) |-> tasks'[t]] /\ DOMAIN tasks' = DOMAIN tasks
    BY <2>1, <2>2
  <2>5. tasks' \in [1 .. Len(tasks) -> Task]
    BY <2>1, <2>3, <2>4
  <2>6. tasks' \in Seq(Task)
    BY <2>1, <2>5, SeqDef
  <2> QED
    BY <2>3, <2>4, <2>6 DEF dest, status
<1> QED
  BY <1>2, <1>3, <1>4, <1>5, <1>6

LEMMA CreateQueueTypes ==
  ASSUME PassInv, NEW p \in Procs, NEW q \in Queues, CreateQueue(p, q)
  PROVE  PassInv'
<1>1. /\ messages' \in Seq(Message) /\ DOMAIN messages' = DOMAIN messages
      /\ receipts' \in Seq(Receipt) /\ DOMAIN receipts' = DOMAIN receipts
      /\ \A g \in DOMAIN receipts : receipts'[g].message = receipts[g].message
      /\ tasks' \in Seq(Task) /\ DOMAIN tasks' = DOMAIN tasks
      /\ created' \in [Queues -> Nat] /\ created'[q] = created[q] + 1
      /\ \A o \in Queues : o # q => created'[o] = created[o]
      /\ UNCHANGED <<procs, failures>> /\ UNCHANGED <<acked, cancelled, moves, asked>>
      /\ gone' \subseteq Queues
  BY QueueCreated
<1>2. TypedTables
  BY <1>1 DEF TypedTables, PassInv, MoveTypeOK, MoveRefer
<1>3. \A o \in Queues : /\ created[o] \in Nat /\ created'[o] \in Nat
                        /\ created[o] <= created'[o]
  <2>1. created \in [Queues -> Nat]
    BY DEF PassInv, MoveTypeOK
  <2>2. /\ created' \in [Queues -> Nat] /\ created'[q] = created[q] + 1
        /\ \A o \in Queues : o # q => created'[o] = created[o]
    BY <1>1
  <2> QED
    BY <2>1, <2>2
<1>4. ASSUME NEW t \in DOMAIN tasks
      PROVE  /\ Faithful(t, tasks'[t], moves, asked, created')
             /\ \A o \in Queues : asked[t].created[o] <= created'[o]
  <2>1. /\ Faithful(t, tasks[t], moves, asked, created) /\ asked[t] \in Start
        /\ tasks[t] \in Task
        /\ \A o \in Queues : asked[t].created[o] <= created[o]
    BY MoveTables DEF PassInv, TasksFaithful, MoveRefer
  <2>2. \A o \in Queues : asked[t].created[o] \in Nat
    BY <2>1 DEF Start
  <2>3. \A o \in Queues : /\ asked[t].created[o] <= created'[o]
                          /\ asked[t].created[o] < created[o] => asked[t].created[o] < created'[o]
    BY <1>3, <2>1, <2>2
  <2>4. /\ tasks'[t].moved = tasks[t].moved
        /\ tasks'[t].dest = IF tasks[t].dest = q THEN NoQueue ELSE tasks[t].dest
    BY QueueCreated
  <2>5. CASE tasks[t].dest = q /\ tasks[t].dest = asked[t].dest
    <3>1. asked[t].dest = q /\ tasks'[t].dest = NoQueue
      BY <2>4, <2>5
    <3>2. asked[t].created[q] < created'[q]
      BY <1>1, <1>3, <2>1, <2>2
    <3> QED
      BY <2>1, <2>3, <2>4, <3>1, <3>2 DEF Faithful
  <2>6. CASE tasks[t].dest # q /\ tasks[t].dest = asked[t].dest
    BY <2>1, <2>3, <2>4, <2>6 DEF Faithful
  <2>7. CASE tasks[t].dest # asked[t].dest
    <3>1. /\ tasks[t].dest = NoQueue /\ asked[t].dest \in Queues
          /\ asked[t].created[asked[t].dest] < created[asked[t].dest]
      BY <2>1, <2>7 DEF Faithful
    <3>2. tasks'[t].dest = NoQueue
      BY <2>4, <3>1
    <3>3. asked[t].created[asked[t].dest] < created'[asked[t].dest]
      BY <2>3, <3>1
    <3> QED
      BY <2>1, <2>3, <2>4, <3>1, <3>2, <3>3 DEF Faithful
  <2> QED
    BY <2>5, <2>6, <2>7
<1>5. \A t \in DOMAIN tasks : moves[t] <= moves[t]
  BY MoveTables DEF PassInv
<1>6. TypedTasks
  <2>1. /\ cancelled' \subseteq DOMAIN tasks' /\ moves' \in [DOMAIN tasks' -> Nat]
        /\ asked' \in [DOMAIN tasks' -> Start]
    BY <1>1 DEF PassInv, MoveTypeOK
  <2>2. moves' = moves /\ asked' = asked
    BY <1>1
  <2>3. \A t \in DOMAIN tasks' : /\ Faithful(t, tasks'[t], moves', asked', created')
                                 /\ \A o \in Queues : asked'[t].created[o] <= created'[o]
    BY <1>1, <1>4, <2>2
  <2>4. \A t \in DOMAIN tasks : moves[t] <= moves'[t] /\ asked'[t] = asked[t]
    BY <1>5, <2>2
  <2> QED
    BY <1>1, <1>3, <2>1, <2>3, <2>4 DEF TypedTasks
<1> QED
  BY <1>1, <1>2, <1>6, ProcsSame

LEMMA PassStep ==
  ASSUME PassInv, [MNext]_mvars
  PROVE  PassInv'
<1>1. ASSUME NEW p \in Procs, Proceed(p) PROVE PassInv'
  BY <1>1, FailTaskTypes, LoadSourceTypes, LeaveMessageTypes, TakeMessageTypes,
     WriteMessageTypes, FinishPassTypes, StartTypes, InsertMoveTaskTypes,
     processMoveTasksTypes, CancelTypes, WriteCancellationTypes, SendMessageTypes,
     ReceiveMessageTypes, DeleteMessageTypes DEF Proceed
<1>2. ASSUME NEW p \in Procs, Abort(p) PROVE PassInv'
  <2>1. /\ Return(p) /\ failures' = failures + 1
        /\ UNCHANGED <<messages, receipts, gone, created, tasks>>
        /\ UNCHANGED <<acked, cancelled, moves, asked>>
    BY <1>2 DEF Abort, history
  <2>2. failures' \in Nat
    BY <2>1 DEF PassInv, MoveTypeOK
  <2> QED
    BY <2>1, <2>2, SameTables, SameTasks, ReturnTypes
<1>3. CASE UNCHANGED mvars
  <2>1. /\ UNCHANGED <<messages, receipts, gone, created, tasks, procs, failures>>
        /\ UNCHANGED <<acked, cancelled, moves, asked>>
    BY <1>3 DEF mvars
  <2>2. failures' \in Nat
    BY <2>1 DEF PassInv, MoveTypeOK
  <2> QED
    BY <2>1, <2>2, SameTables, SameTasks, ProcsSame
<1> QED
  BY <1>1, <1>2, <1>3, MaintainTypes, DeleteQueueTypes, CreateQueueTypes, LapseTypes DEF MNext

LEMMA PassInit == MInit => PassInv
<1> SUFFICES ASSUME MInit PROVE PassInv
  OBVIOUS
<1>1. MoveTypeOK
  BY KindsOfMover DEF MInit, MoveTypeOK
<1>2. MoveRefer /\ TasksFaithful
  BY DEF MInit, MoveRefer, TasksFaithful
<1>3. LocalsFaithful
  BY IdleFaithful DEF MInit, LocalsFaithful
<1> QED
  BY <1>1, <1>2, <1>3 DEF PassInv

LEMMA PassAlways == MSpec => []PassInv
  BY PassInit, PassStep, PTL DEF MSpec

\* Whatever number of handlers run passes and requests in whatever order, the
\* tables and what handlers remember of them keep their types.
THEOREM MoveTyped == MSpec => []MoveTypeOK
<1>1. PassInv => MoveTypeOK
  BY DEF PassInv
<1> QED
  BY PassAlways, <1>1, PTL

\* The moved count of a task is never ahead of the messages it moved, for every
\* number of concurrent passes that overwrite each other's task rows.
THEOREM MovesCounted == MSpec => []MovedNotAhead
<1>1. PassInv => MovedNotAhead
  BY DEF PassInv, TasksFaithful, Faithful, MovedNotAhead
<1> QED
  BY PassAlways, <1>1, PTL

\* Only WriteMessage moves, and it moves one row for the task at hand.
LEMMA MovesOneRow ==
  ASSUME PassInv, [MNext]_mvars, NEW t \in DOMAIN moves, moves'[t] # moves[t]
  PROVE  \E p \in Procs : WriteMessage(p) /\ t = Head(procs[p].todo).id
<1>1. DOMAIN moves = DOMAIN tasks
  BY MoveTables DEF PassInv
<1>2. ASSUME NEW p \in Procs, Proceed(p)
      PROVE  WriteMessage(p) /\ t = Head(procs[p].todo).id
  <2>1. ~InsertMoveTask(p)
    BY <1>1, TaskInserted
  <2>2. WriteMessage(p)
    BY <1>2, <2>1 DEF Proceed, FailTask, LoadSource, LeaveMessage, TakeMessage, FinishPass,
                      OtherRequest, StartMessageMoveTask, processMoveTasks,
                      CancelMessageMoveTask, WriteCancellation, SendMessage, ReceiveMessage,
                      DeleteMessage, history
  <2> QED
    BY <2>2, MessageWritten
<1> QED
  BY <1>2 DEF MNext, mvars, maintain, DeleteQueue, CreateQueue, Abort, Lapse, history

LEMMA MovesWhereAskedStep ==
  ASSUME PassInv, [MNext]_mvars, NEW t \in DOMAIN moves, moves'[t] # moves[t],
         NEW r \in DOMAIN messages, messages'[r] # messages[r]
  PROVE  \/ asked[t].dest \in {NoQueue, messages'[r].queue}
         \/ created[asked[t].dest] # asked[t].created[asked[t].dest]
<1>1. PICK p \in Procs : WriteMessage(p) /\ t = Head(procs[p].todo).id
  BY MovesOneRow
<1>2. Moving(procs[p]) /\ procs[p].pc = "write"
  BY <1>1 DEF WriteMessage, Moving
<1>3. r = procs[p].row /\ messages'[r].queue = procs[p].to
  BY <1>1, MessageWritten
<1> DEFINE row == Head(procs[p].todo).row
<1>4. /\ row \in Task /\ Faithful(t, row, moves, asked, created)
      /\ row.dest \in {NoQueue, procs[p].to} /\ t \in DOMAIN tasks
  <2>1. procs[p].todo # << >> /\ row.dest \in {NoQueue, procs[p].to}
    BY <1>2, PassLocals DEF LocalFaithful
  <2> QED
    BY <1>1, <1>2, <2>1, HeadFaithful
<1>5. CASE row.dest = asked[t].dest
  BY <1>3, <1>4, <1>5
<1>6. CASE row.dest # asked[t].dest
  <2>1. asked[t].dest \in Queues /\ asked[t].created[asked[t].dest] < created[asked[t].dest]
    BY <1>4, <1>6 DEF Faithful
  <2>2. asked[t] \in Start /\ created \in [Queues -> Nat]
    BY <1>4, MoveTables DEF PassInv, MoveTypeOK
  <2>3. asked[t].created[asked[t].dest] \in Nat /\ created[asked[t].dest] \in Nat
    BY <2>1, <2>2 DEF Start
  <2> QED
    BY <2>1, <2>3
<1> QED
  BY <1>5, <1>6

\* A task with a destination moves messages there or nowhere, until its
\* destination is created anew, whatever copies of its row passes still hold.
THEOREM MovesGoWhereAsked == MSpec => MovesWhereAsked
<1>1. PassInv /\ [MNext]_mvars =>
        [\A t \in DOMAIN moves :
           moves'[t] # moves[t] =>
             \A r \in DOMAIN messages :
               messages'[r] # messages[r] =>
                 \/ asked[t].dest \in {NoQueue, messages'[r].queue}
                 \/ created[asked[t].dest] # asked[t].created[asked[t].dest]]_mvars
  BY MovesWhereAskedStep
<1> QED
  BY PassAlways, <1>1, PTL DEF MSpec, MovesWhereAsked

-----------------------------------------------------------------------------
(* One handler at a time.  The rows a pass listed are then still in the      *)
(* table as they were, and what it is about to move was not deleted since.   *)

OneAtATime == \A p, q \in Procs : p = q

LocalCurrent(s, ts, rs, ack) ==
  /\ Passes(s) \/ Moving(s) =>
       /\ \A i \in DOMAIN s.todo :
            ts[s.todo[i].id] = s.todo[i].row /\ s.todo[i].row.status = "RUNNING"
       /\ \A i, j \in DOMAIN s.todo : s.todo[i].id = s.todo[j].id => i = j
  /\ Moving(s) => s.rows \cap ack = {}
  /\ s.pc = "write" =>
       /\ s.row \notin ack
       /\ \A h \in DOMAIN rs : rs[h].message = s.row => ~rs[h].active
  /\ s.pc = "create" =>
       \A t \in DOMAIN ts : ts[t].status = "RUNNING" => ts[t].source # s.req.task.source
  /\ s.pc = "cancel" => ts[s.id] = s.row /\ s.row.status # "REMOVED"

LocalsCurrent == \A p \in Procs : LocalCurrent(procs[p], tasks, receipts, acked)

Final ==
  /\ ReceiptInPlace
  /\ AckedNotMoved
  /\ OneTaskPerSource
  /\ \A t \in cancelled : tasks[t].status \in {"CANCELLED", "REMOVED"}

SerialInv == PassInv /\ Final /\ LocalsCurrent

\* No message changes queue or comes back.
MessagesStay ==
  \A o \in DOMAIN messages : /\ messages'[o].queue = messages[o].queue
                             /\ messages[o].deleted => messages'[o].deleted

\* No receipt is issued, moved or made active again.
ReceiptsFade ==
  /\ DOMAIN receipts' = DOMAIN receipts
  /\ \A h \in DOMAIN receipts : /\ receipts'[h].message = receipts[h].message
                                /\ receipts'[h].queue = receipts[h].queue
                                /\ receipts'[h].active => receipts[h].active

\* No task starts to run, and none that was cancelled is rewritten.
TasksFade ==
  /\ DOMAIN tasks' = DOMAIN tasks
  /\ \A t \in DOMAIN tasks :
       /\ tasks'[t].source = tasks[t].source
       /\ tasks'[t].status = "RUNNING" => tasks[t].status = "RUNNING"
       /\ t \in cancelled' => tasks'[t].status \in {"CANCELLED", "REMOVED"}

LEMMA InPlaceKept ==
  ASSUME PassInv, ReceiptInPlace, MessagesStay, ReceiptsFade
  PROVE  ReceiptInPlace'
  BY DEF PassInv, MoveRefer, ReceiptInPlace, MessagesStay, ReceiptsFade

LEMMA AckedKept ==
  ASSUME PassInv, AckedNotMoved, MessagesStay, acked' = acked
  PROVE  AckedNotMoved'
  BY DEF PassInv, MoveTypeOK, AckedNotMoved, MessagesStay

LEMMA TasksKept ==
  ASSUME PassInv, PassInv', Final, TasksFade
  PROVE  OneTaskPerSource' /\ \A t \in cancelled' : tasks'[t].status \in {"CANCELLED", "REMOVED"}
<1>1. cancelled' \subseteq DOMAIN tasks'
  BY DEF PassInv, MoveTypeOK
<1> QED
  BY <1>1 DEF Final, OneTaskPerSource, Running, TasksFade

LEMMA SameStay ==
  /\ messages' = messages => MessagesStay
  /\ receipts' = receipts => ReceiptsFade
  BY DEF MessagesStay, ReceiptsFade

LEMMA SameTasksFade ==
  ASSUME Final, UNCHANGED <<tasks, cancelled>>
  PROVE  TasksFade
  BY DEF Final, TasksFade

LEMMA FinalKept ==
  ASSUME PassInv, PassInv', Final, MessagesStay, ReceiptsFade, TasksFade, acked' = acked
  PROVE  Final'
  BY InPlaceKept, AckedKept, TasksKept DEF Final

LEMMA FinalSame ==
  ASSUME PassInv, PassInv', Final, UNCHANGED <<messages, receipts, tasks, history>>
  PROVE  Final'
  BY SameStay, SameTasksFade, FinalKept DEF history

LEMMA IdleCurrent ==
  ASSUME NEW ts, NEW rs, NEW ack
  PROVE  LocalCurrent(Idle, ts, rs, ack)
  BY DEF LocalCurrent, Idle, Passes, Moving

LEMMA ReturnCurrent ==
  ASSUME PassInv, NEW p \in Procs, Return(p)
  PROVE  LocalCurrent(procs'[p], tasks', receipts', acked')
  BY ReturnGoes, IdleCurrent DEF GoesTo, PassInv

\* A listing is current: it is read from the table.
LEMMA ListingCurrent ==
  ASSUME MoveTypeOK, NEW req, NEW s \in RunningMoveTasks
  PROVE  LocalCurrent([pc |-> "pass", req |-> req, todo |-> s], tasks, receipts, acked)
  BY ListedTasks DEF LocalCurrent, Passes, Moving, Running

\* The task at hand is running and as it was listed; the others of the list are
\* other tasks.
LEMMA HeadCurrent ==
  ASSUME SerialInv, NEW p \in Procs, Passes(procs[p]) \/ Moving(procs[p]),
         procs[p].todo # << >>
  PROVE  LET t == Head(procs[p].todo)
         IN  /\ t.row \in Task /\ t.id \in DOMAIN tasks
             /\ t.row = tasks[t.id] /\ t.row.status = "RUNNING" /\ t.id \notin cancelled
             /\ \A i \in DOMAIN Tail(procs[p].todo) :
                  /\ Tail(procs[p].todo)[i].id # t.id
                  /\ Tail(procs[p].todo)[i].row = tasks[Tail(procs[p].todo)[i].id]
                  /\ Tail(procs[p].todo)[i].row.status = "RUNNING"
             /\ \A i, j \in DOMAIN Tail(procs[p].todo) :
                  Tail(procs[p].todo)[i].id = Tail(procs[p].todo)[j].id => i = j
<1> DEFINE todo == procs[p].todo
<1>1. /\ PassInv /\ Final /\ LocalCurrent(procs[p], tasks, receipts, acked)
      /\ todo \in Seq(Listed)
  BY PassLocals DEF SerialInv, LocalsCurrent
<1>2. /\ \A i \in DOMAIN todo : tasks[todo[i].id] = todo[i].row /\ todo[i].row.status = "RUNNING"
      /\ \A i, j \in DOMAIN todo : todo[i].id = todo[j].id => i = j
  BY <1>1 DEF LocalCurrent
<1> HIDE DEF todo
<1>3. /\ DOMAIN todo = 1 .. Len(todo) /\ Len(todo) \in Nat
      /\ DOMAIN Tail(todo) = 1 .. (Len(todo) - 1)
      /\ \A i \in DOMAIN Tail(todo) : i + 1 \in DOMAIN todo /\ Tail(todo)[i] = todo[i + 1]
      /\ 1 \in DOMAIN todo /\ Head(todo) = todo[1]
  BY <1>1, ListedTail DEF todo
<1>4. /\ Head(todo).row \in Task /\ Head(todo).id \in DOMAIN tasks
  BY <1>1, HeadFaithful DEF todo
<1>5. Head(todo).row = tasks[Head(todo).id] /\ Head(todo).row.status = "RUNNING"
  BY <1>2, <1>3
<1>6. Head(todo).id \notin cancelled
  BY <1>1, <1>5 DEF Final
<1>7. ASSUME NEW i \in DOMAIN Tail(todo)
      PROVE  /\ Tail(todo)[i].id # Head(todo).id
             /\ Tail(todo)[i].row = tasks[Tail(todo)[i].id]
             /\ Tail(todo)[i].row.status = "RUNNING"
  <2>1. i + 1 # 1 /\ i + 1 \in DOMAIN todo /\ Tail(todo)[i] = todo[i + 1]
    BY <1>3
  <2> QED
    BY <1>2, <1>3, <2>1
<1>8. ASSUME NEW i \in DOMAIN Tail(todo), NEW j \in DOMAIN Tail(todo),
             Tail(todo)[i].id = Tail(todo)[j].id
      PROVE  i = j
  <2>1. /\ i + 1 \in DOMAIN todo /\ Tail(todo)[i] = todo[i + 1]
        /\ j + 1 \in DOMAIN todo /\ Tail(todo)[j] = todo[j + 1]
    BY <1>3
  <2>2. i + 1 = j + 1
    BY <1>2, <1>8, <2>1
  <2> QED
    BY <1>3, <2>2
<1> QED
  BY <1>4, <1>5, <1>6, <1>7, <1>8 DEF todo

-----------------------------------------------------------------------------
(* The steps of a single handler.                                            *)

\* A step that changes nothing but the local variables of p.
LEMMA QuietCurrent ==
  ASSUME SerialInv, PassInv', NEW p \in Procs, NEW s, procs' = [procs EXCEPT ![p] = s],
         UNCHANGED <<messages, receipts, gone, created, tasks, failures, history>>,
         LocalCurrent(s, tasks, receipts, acked)
  PROVE  Final' /\ LocalCurrent(procs'[p], tasks', receipts', acked')
<1>1. procs'[p] = s
  BY DEF SerialInv, PassInv, MoveTypeOK
<1>2. UNCHANGED <<messages, receipts, tasks, history>> /\ acked' = acked
  BY DEF history
<1>3. Final'
  BY <1>2, FinalSame DEF SerialInv
<1> QED
  BY <1>1, <1>2, <1>3

\* Which rows a pass still has to move, and that the next one has no usable
\* receipt, is all that becomes of its local variables.
LEMMA MoverCurrent ==
  ASSUME SerialInv, NEW p \in Procs, Passes(procs[p]) \/ Moving(procs[p]), NEW s, NEW rs,
         s.pc \in {"move", "write"}, s.todo = procs[p].todo,
         s.rows \cap acked = {},
         s.pc = "write" => /\ s.row \notin acked
                           /\ \A h \in DOMAIN rs : rs[h].message = s.row => ~rs[h].active
  PROVE  LocalCurrent(s, tasks, rs, acked)
<1>1. LocalCurrent(procs[p], tasks, receipts, acked)
  BY DEF SerialInv, LocalsCurrent
<1> QED
  BY <1>1 DEF LocalCurrent, Passes, Moving

LEMMA LoadSourceSerial ==
  ASSUME SerialInv, PassInv', NEW p \in Procs, LoadSource(p)
  PROVE  Final' /\ LocalCurrent(procs'[p], tasks', receipts', acked')
<1> DEFINE t == Head(procs[p].todo)
           rows == Movable(t.row.source)
           s == [pc |-> "move", req |-> procs[p].req, todo |-> procs[p].todo, rows |-> rows,
                 row |-> 0, to |-> NoQueue, limit |-> MoveLimit(t.row, Cardinality(rows)),
                 moved |-> 0, remaining |-> 0]
<1>1. /\ Passes(procs[p]) /\ procs' = [procs EXCEPT ![p] = s]
      /\ UNCHANGED <<messages, receipts, gone, created, tasks, failures, history>>
  BY DEF LoadSource, Passes
<1>2. s.pc = "move" /\ s.todo = procs[p].todo /\ s.rows = rows
  OBVIOUS
<1>3. rows \cap acked = {}
  BY DEF SerialInv, Final, AckedNotMoved, Movable
<1> HIDE DEF s, rows
<1>4. LocalCurrent(s, tasks, receipts, acked)
  BY <1>1, <1>2, <1>3, MoverCurrent
<1> QED
  BY <1>1, <1>4, QuietCurrent

LEMMA LeaveMessageSerial ==
  ASSUME SerialInv, PassInv', NEW p \in Procs, LeaveMessage(p)
  PROVE  Final' /\ LocalCurrent(procs'[p], tasks', receipts', acked')
<1>1. PICK r : procs' = [procs EXCEPT ![p].rows = @ \ {r}, ![p].remaining = @ + 1]
  BY DEF LeaveMessage
<1>2. /\ Moving(procs[p]) /\ procs[p].pc = "move"
      /\ UNCHANGED <<messages, receipts, gone, created, tasks, failures, history>>
  BY DEF LeaveMessage, Moving
<1>3. procs[p] \in Mover /\ LocalCurrent(procs[p], tasks, receipts, acked)
  BY <1>2, PassLocals DEF SerialInv, LocalsCurrent
<1> DEFINE s == [procs[p] EXCEPT !.rows = @ \ {r}, !.remaining = @ + 1]
<1>4. s.pc = "move" /\ s.todo = procs[p].todo /\ s.rows = procs[p].rows \ {r}
  BY <1>2, <1>3 DEF Mover
<1>5. procs' = [procs EXCEPT ![p] = s]
  BY <1>1 DEF SerialInv, PassInv, MoveTypeOK
<1>6. s.rows \cap acked = {}
  BY <1>2, <1>3, <1>4 DEF LocalCurrent
<1> HIDE DEF s
<1>7. LocalCurrent(s, tasks, receipts, acked)
  BY <1>2, <1>4, <1>6, MoverCurrent
<1> QED
  BY <1>2, <1>5, <1>7, QuietCurrent

\* The requests that only read.
LEMMA ReadingSerial ==
  ASSUME SerialInv, PassInv', NEW p \in Procs,
         \/ \E req \in Requests : maintain(p, req)
         \/ processMoveTasks(p)
         \/ OtherRequest(p)
         \/ StartMessageMoveTask(p)
         \/ CancelMessageMoveTask(p)
  PROVE  Final' /\ LocalCurrent(procs'[p], tasks', receipts', acked')
<1>1. UNCHANGED <<messages, receipts, gone, created, tasks, failures, history>>
  BY DEF maintain, processMoveTasks, OtherRequest, StartMessageMoveTask, CancelMessageMoveTask
<1>2. ASSUME NEW req, NEW s \in RunningMoveTasks,
             procs' = [procs EXCEPT ![p] = [pc |-> "pass", req |-> req, todo |-> s]]
      PROVE  Final' /\ LocalCurrent(procs'[p], tasks', receipts', acked')
  <2> DEFINE local == [pc |-> "pass", req |-> req, todo |-> s]
  <2>1. LocalCurrent(local, tasks, receipts, acked)
    BY ListingCurrent DEF SerialInv, PassInv
  <2>2. procs' = [procs EXCEPT ![p] = local]
    BY <1>2
  <2> HIDE DEF local
  <2> QED
    BY <1>1, <2>1, <2>2, QuietCurrent
<1>3. CASE \E req \in Requests : maintain(p, req)
  BY <1>2, <1>3 DEF maintain
<1>4. CASE processMoveTasks(p)
  BY <1>2, <1>4 DEF processMoveTasks
<1>5. CASE Return(p)
  <2>1. procs' = [procs EXCEPT ![p] = Idle]
    BY <1>5 DEF Return
  <2> QED
    BY <1>1, <2>1, IdleCurrent, QuietCurrent
<1>6. CASE StartMessageMoveTask(p) /\ ~Return(p)
  <2> DEFINE s == [pc |-> "create", req |-> procs[p].req]
  <2>1. /\ procs' = [procs EXCEPT ![p] = s]
        /\ \A t \in Running : tasks[t].source # procs[p].req.task.source
    BY <1>6 DEF StartMessageMoveTask
  <2>2. LocalCurrent(s, tasks, receipts, acked)
    BY <2>1 DEF LocalCurrent, Passes, Moving, Running
  <2> HIDE DEF s
  <2> QED
    BY <1>1, <2>1, <2>2, QuietCurrent
<1>7. CASE CancelMessageMoveTask(p) /\ ~Return(p)
  <2> DEFINE id == procs[p].req.task
             s == [pc |-> "cancel", id |-> id, row |-> tasks[id]]
  <2>1. procs' = [procs EXCEPT ![p] = s] /\ tasks[id].status # "REMOVED"
    BY <1>7 DEF CancelMessageMoveTask
  <2>2. LocalCurrent(s, tasks, receipts, acked)
    BY <2>1 DEF LocalCurrent, Passes, Moving
  <2> HIDE DEF s
  <2> QED
    BY <1>1, <2>1, <2>2, QuietCurrent
<1> QED
  BY <1>3, <1>4, <1>5, <1>6, <1>7 DEF OtherRequest

\* The task at hand is written back: it stays what it is or ends.
LEMMA HeadWritten ==
  ASSUME SerialInv, PassInv', NEW p \in Procs, Passes(procs[p]) \/ Moving(procs[p]),
         procs[p].todo # << >>, NEW row \in Task,
         row.source = Head(procs[p].todo).row.source,
         UpdateMoveTask(Head(procs[p].todo).id, row), NextTask(p),
         UNCHANGED <<messages, receipts, history>>
  PROVE  Final' /\ LocalCurrent(procs'[p], tasks', receipts', acked')
<1> DEFINE id == Head(procs[p].todo).id
           rest == Tail(procs[p].todo)
           s == [pc |-> "pass", req |-> procs[p].req, todo |-> rest]
<1>1. /\ id \in DOMAIN tasks /\ Head(procs[p].todo).row = tasks[id]
      /\ tasks[id].status = "RUNNING" /\ id \notin cancelled
      /\ \A i \in DOMAIN rest : /\ rest[i].id # id
                                /\ rest[i].row = tasks[rest[i].id]
                                /\ rest[i].row.status = "RUNNING"
      /\ \A i, j \in DOMAIN rest : rest[i].id = rest[j].id => i = j
  BY HeadCurrent
<1>2. /\ MoveTypeOK /\ PassInv /\ Final
      /\ UNCHANGED <<messages, receipts, acked, cancelled>>
  BY DEF SerialInv, PassInv, history
<1>3. procs'[p] = s
  BY <1>2 DEF NextTask, MoveTypeOK
<1>4. row.source = tasks[id].source
  BY <1>1
<1> HIDE DEF s, rest, id
<1>5. tasks' = [tasks EXCEPT ![id] = row]
  BY DEF UpdateMoveTask, id
<1>6. DOMAIN tasks' = DOMAIN tasks /\ tasks'[id] = row /\ \A t : t # id => tasks'[t] = tasks[t]
  BY <1>1, <1>5
<1>7. TasksFade
  BY <1>1, <1>2, <1>4, <1>6 DEF TasksFade, Final
<1>8. Final'
  BY <1>2, <1>7, SameStay, FinalKept
<1>9. LocalCurrent(s, tasks', receipts', acked')
  BY <1>1, <1>6 DEF s, LocalCurrent, Passes, Moving
<1> QED
  BY <1>3, <1>8, <1>9

LEMMA FailTaskSerial ==
  ASSUME SerialInv, PassInv', NEW p \in Procs, FailTask(p)
  PROVE  Final' /\ LocalCurrent(procs'[p], tasks', receipts', acked')
<1> DEFINE t == Head(procs[p].todo)
           row == [t.row EXCEPT !.status = "FAILED"]
<1>1. /\ Passes(procs[p]) /\ procs[p].todo # << >> /\ UpdateMoveTask(t.id, row) /\ NextTask(p)
      /\ UNCHANGED <<messages, receipts, history>>
  BY DEF FailTask, Passes
<1>2. t.row \in Task
  BY <1>1, HeadCurrent
<1>3. row \in Task /\ row.source = t.row.source
  BY <1>2 DEF Task
<1> HIDE DEF row
<1> QED
  BY <1>1, <1>3, HeadWritten

LEMMA FinishPassSerial ==
  ASSUME SerialInv, PassInv', NEW p \in Procs, FinishPass(p)
  PROVE  Final' /\ LocalCurrent(procs'[p], tasks', receipts', acked')
<1> DEFINE t == Head(procs[p].todo)
           row == [t.row EXCEPT !.moved = @ + procs[p].moved,
                                !.toMove = procs[p].remaining,
                                !.status = IF procs[p].remaining = 0 THEN "COMPLETED" ELSE @]
<1>1. /\ Moving(procs[p]) /\ UpdateMoveTask(t.id, row) /\ NextTask(p)
      /\ UNCHANGED <<messages, receipts, history>>
  BY DEF FinishPass, Moving
<1>2. procs[p] \in Mover /\ procs[p].todo # << >>
  BY <1>1, PassLocals DEF SerialInv
<1>3. t.row \in Task
  BY <1>1, <1>2, HeadCurrent
<1>4. row \in Task /\ row.source = t.row.source
  <2>1. t.row.moved + procs[p].moved \in Nat /\ procs[p].remaining \in Nat
    BY <1>2, <1>3 DEF Mover, Task
  <2> QED
    BY <1>3, <2>1 DEF Task
<1> HIDE DEF row
<1> QED
  BY <1>1, <1>2, <1>4, HeadWritten

LEMMA WriteCancellationSerial ==
  ASSUME SerialInv, PassInv', NEW p \in Procs, WriteCancellation(p)
  PROVE  Final' /\ LocalCurrent(procs'[p], tasks', receipts', acked')
<1> DEFINE id == procs[p].id
           row == CancelledRow(procs[p].row)
<1>1. /\ Cancels(procs[p]) /\ procs[p].pc = "cancel" /\ UpdateMoveTask(id, row) /\ Return(p)
      /\ cancelled' = cancelled \cup {id}
      /\ UNCHANGED <<messages, receipts, acked>>
  BY DEF WriteCancellation, Cancels
<1>2. /\ PassInv /\ MoveTypeOK /\ Final /\ procs[p] \in Proc
      /\ LocalFaithful(procs[p], DOMAIN receipts, moves, asked, created)
      /\ LocalCurrent(procs[p], tasks, receipts, acked)
  BY DEF SerialInv, LocalsCurrent, PassInv, MoveTypeOK, LocalsFaithful
<1>3. id \in DOMAIN tasks /\ procs[p].row = tasks[id]
  BY <1>1, <1>2, MoveTables DEF LocalFaithful, Faithful, LocalCurrent
<1>4. row.source = tasks[id].source /\ row.status = "CANCELLED"
  <2>1. tasks[id] \in Task
    BY <1>2, <1>3, MoveTables
  <2> QED
    BY <1>3, <2>1 DEF CancelledRow, Task
<1> HIDE DEF row, id
<1>5. DOMAIN tasks' = DOMAIN tasks /\ tasks'[id] = row /\ \A t : t # id => tasks'[t] = tasks[t]
  BY <1>1, <1>3 DEF UpdateMoveTask
<1>6. TasksFade
  BY <1>1, <1>2, <1>4, <1>5 DEF TasksFade, Final
<1>7. Final'
  BY <1>1, <1>2, <1>6, SameStay, FinalKept
<1> QED
  BY <1>1, <1>2, <1>7, ReturnCurrent

LEMMA TakeMessageSerial ==
  ASSUME SerialInv, PassInv', NEW p \in Procs, TakeMessage(p)
  PROVE  Final' /\ LocalCurrent(procs'[p], tasks', receipts', acked')
<1> DEFINE to(r) == resolveMoveDestination(Head(procs[p].todo).row, r)
<1>1. Moving(procs[p]) /\ UNCHANGED <<messages, tasks, acked, cancelled>>
  BY DEF TakeMessage, Moving, history
<1>2. PICK r \in procs[p].rows :
         /\ receipts' = Deactivated(r)
         /\ procs' = [procs EXCEPT ![p].pc = "write", ![p].row = r, ![p].to = to(r)]
  BY DEF TakeMessage, DeactivateReceiptsByMessage
<1>3. /\ PassInv /\ MoveTypeOK /\ Final /\ procs[p] \in Mover
      /\ LocalCurrent(procs[p], tasks, receipts, acked)
  BY <1>1, PassLocals DEF SerialInv, LocalsCurrent
<1> HIDE DEF to
<1> DEFINE s == [procs[p] EXCEPT !.pc = "write", !.row = r, !.to = to(r)]
<1>4. procs'[p] = s
  BY <1>2, <1>3 DEF MoveTypeOK
<1>5. s.pc = "write" /\ s.todo = procs[p].todo /\ s.rows = procs[p].rows /\ s.row = r
  BY <1>3 DEF Mover
<1>6. procs[p].rows \cap acked = {}
  BY <1>1, <1>3 DEF LocalCurrent
<1>7. /\ DOMAIN receipts' = DOMAIN receipts
      /\ \A h \in DOMAIN receipts :
           /\ receipts'[h].message = receipts[h].message
           /\ receipts'[h].queue = receipts[h].queue
           /\ receipts'[h].active => receipts[h].active /\ receipts[h].message # r
  BY <1>2, <1>3, DeactivatedTyped
<1>8. \A h \in DOMAIN receipts' : receipts'[h].message = r => ~receipts'[h].active
  BY <1>7
<1> HIDE DEF s
<1>9. s.row \notin acked
  BY <1>2, <1>5, <1>6
<1>10. LocalCurrent(s, tasks, receipts', acked)
  BY <1>1, <1>5, <1>6, <1>8, <1>9, MoverCurrent
<1>11. ReceiptsFade
  BY <1>7 DEF ReceiptsFade
<1>12. Final'
  BY <1>1, <1>3, <1>11, SameStay, SameTasksFade, FinalKept
<1> QED
  BY <1>1, <1>4, <1>10, <1>12

\* The row that moves has no usable receipt and was not deleted: no other
\* handler ran since the pass loaded it.
LEMMA WriteMessageSerial ==
  ASSUME SerialInv, PassInv', NEW p \in Procs, WriteMessage(p)
  PROVE  Final' /\ LocalCurrent(procs'[p], tasks', receipts', acked')
<1>1. /\ Moving(procs[p]) /\ procs[p].pc = "write"
      /\ UNCHANGED <<receipts, tasks, acked, cancelled>>
  BY DEF WriteMessage, Moving
<1>2. /\ PassInv /\ MoveTypeOK /\ Final /\ procs[p] \in Mover
      /\ LocalCurrent(procs[p], tasks, receipts, acked)
  BY <1>1, PassLocals DEF SerialInv, LocalsCurrent
<1>3. /\ procs[p].row \notin acked /\ procs[p].rows \cap acked = {}
      /\ \A h \in DOMAIN receipts : receipts[h].message = procs[p].row => ~receipts[h].active
  BY <1>1, <1>2 DEF LocalCurrent
<1>4. /\ DOMAIN messages' = DOMAIN messages
      /\ \A o \in DOMAIN messages : o # procs[p].row => messages'[o] = messages[o]
  BY <1>2, MessageWritten
<1>5. ReceiptInPlace'
  <2>1. \A h \in DOMAIN receipts : receipts[h].message \in DOMAIN messages
    BY <1>2 DEF PassInv, MoveRefer
  <2> QED
    BY <1>1, <1>2, <1>3, <1>4, <2>1 DEF ReceiptInPlace, Final
<1>6. AckedNotMoved'
  <2>1. acked \subseteq DOMAIN messages
    BY <1>2 DEF MoveTypeOK
  <2> QED
    BY <1>1, <1>2, <1>3, <1>4, <2>1 DEF AckedNotMoved, Final
<1>7. OneTaskPerSource' /\ \A t \in cancelled' : tasks'[t].status \in {"CANCELLED", "REMOVED"}
  BY <1>1, <1>2, SameTasksFade, TasksKept
<1>8. Final'
  BY <1>5, <1>6, <1>7 DEF Final
<1> DEFINE s == [procs[p] EXCEPT !.pc = "move", !.rows = @ \ {procs[p].row}, !.moved = @ + 1]
<1>9. procs'[p] = s
  BY <1>2 DEF WriteMessage, MoveTypeOK
<1>10. s.pc = "move" /\ s.todo = procs[p].todo /\ s.rows = procs[p].rows \ {procs[p].row}
  BY <1>2 DEF Mover
<1> HIDE DEF s
<1>11. s.rows \cap acked = {}
  BY <1>3, <1>10
<1>12. LocalCurrent(s, tasks, receipts, acked)
  BY <1>1, <1>10, <1>11, MoverCurrent
<1> QED
  BY <1>1, <1>8, <1>9, <1>12

LEMMA InsertMoveTaskSerial ==
  ASSUME SerialInv, PassInv', NEW p \in Procs, InsertMoveTask(p)
  PROVE  Final' /\ LocalCurrent(procs'[p], tasks', receipts', acked')
<1> DEFINE n == Len(tasks) + 1
           source == procs[p].req.task.source
<1>1. /\ procs[p].pc = "create" /\ UNCHANGED <<messages, receipts, acked, cancelled>>
  BY DEF InsertMoveTask
<1>2. /\ PassInv /\ MoveTypeOK /\ Final
      /\ LocalCurrent(procs[p], tasks, receipts, acked)
  BY DEF SerialInv, LocalsCurrent, PassInv
<1>3. \A t \in DOMAIN tasks : tasks[t].status = "RUNNING" => tasks[t].source # source
  BY <1>1, <1>2 DEF LocalCurrent
<1>4. /\ procs[p] \in Creator
      /\ DOMAIN tasks' = DOMAIN tasks \cup {n} /\ n \notin DOMAIN tasks
      /\ \A t \in DOMAIN tasks : tasks'[t] = tasks[t]
      /\ tasks'[n].source = source
  BY <1>2, TaskInserted
<1> HIDE DEF n, source
<1>5. OneTaskPerSource'
  <2> SUFFICES ASSUME NEW t \in Running', NEW u \in Running', tasks'[t].source = tasks'[u].source
               PROVE  t = u
    BY DEF OneTaskPerSource
  <2>1. /\ t \in DOMAIN tasks' /\ tasks'[t].status = "RUNNING"
        /\ u \in DOMAIN tasks' /\ tasks'[u].status = "RUNNING"
    BY DEF Running
  <2>2. CASE t \in DOMAIN tasks /\ u \in DOMAIN tasks
    BY <1>2, <1>4, <2>1, <2>2 DEF Final, OneTaskPerSource, Running
  <2>3. CASE t \notin DOMAIN tasks \/ u \notin DOMAIN tasks
    BY <1>3, <1>4, <2>1, <2>3
  <2> QED
    BY <2>2, <2>3
<1>6. \A t \in cancelled' : tasks'[t].status \in {"CANCELLED", "REMOVED"}
  <2>1. cancelled \subseteq DOMAIN tasks
    BY <1>2 DEF MoveTypeOK
  <2> QED
    BY <1>1, <1>2, <1>4, <2>1 DEF Final
<1>7. ReceiptInPlace' /\ AckedNotMoved'
  BY <1>1, <1>2, SameStay, InPlaceKept, AckedKept DEF Final
<1>8. Final'
  BY <1>5, <1>6, <1>7 DEF Final
<1> DEFINE s == [procs[p] EXCEPT !.pc = "created"]
<1>9. procs'[p] = s
  BY <1>2 DEF InsertMoveTask, MoveTypeOK
<1>10. s.pc = "created"
  BY <1>4 DEF Creator
<1> HIDE DEF s
<1>11. LocalCurrent(s, tasks', receipts', acked')
  BY <1>10 DEF LocalCurrent, Passes, Moving
<1> QED
  BY <1>8, <1>9, <1>11

LEMMA SendMessageSerial ==
  ASSUME SerialInv, PassInv', NEW p \in Procs, SendMessage(p)
  PROVE  Final' /\ LocalCurrent(procs'[p], tasks', receipts', acked')
<1>1. /\ Return(p) /\ UNCHANGED <<receipts, tasks, acked, cancelled>>
      /\ messages' = messages \/ \E new : messages' = Append(messages, new)
  BY DEF SendMessage, history
<1>2. PassInv /\ Final /\ messages \in Seq(Message)
  BY DEF SerialInv, PassInv, MoveTypeOK
<1>3. MessagesStay
  <2>1. ASSUME NEW new, messages' = Append(messages, new)
        PROVE  \A o \in DOMAIN messages : messages'[o] = messages[o]
    BY <1>2, <2>1
  <2> QED
    BY <1>1, <2>1 DEF MessagesStay
<1>4. Final'
  BY <1>1, <1>2, <1>3, SameStay, SameTasksFade, FinalKept
<1> QED
  BY <1>1, <1>2, <1>4, ReturnCurrent

LEMMA ReceiveMessageSerial ==
  ASSUME SerialInv, PassInv', NEW p \in Procs, ReceiveMessage(p)
  PROVE  Final' /\ LocalCurrent(procs'[p], tasks', receipts', acked')
<1>1. PassInv /\ Final
  BY DEF SerialInv
<1>2. Return(p) /\ UNCHANGED <<tasks, acked, cancelled>>
  BY <1>1, MessageReceived
<1>3. CASE UNCHANGED <<messages, receipts>>
  <2>1. Final'
    BY <1>1, <1>2, <1>3, SameStay, SameTasksFade, FinalKept
  <2> QED
    BY <1>1, <1>2, <2>1, ReturnCurrent
<1>4. CASE ~UNCHANGED <<messages, receipts>>
  <2> DEFINE h == Len(receipts) + 1
  <2>1. PICK r \in DOMAIN messages :
           /\ \A o \in DOMAIN messages : /\ messages'[o].queue = messages[o].queue
                                         /\ messages'[o].deleted = messages[o].deleted
           /\ DOMAIN receipts' = DOMAIN receipts \cup {h}
           /\ receipts'[h].message = r /\ receipts'[h].queue = messages[r].queue
           /\ \A g \in DOMAIN receipts :
                /\ receipts'[g].message = receipts[g].message
                /\ receipts'[g].queue = receipts[g].queue
                /\ receipts'[g].active => receipts[g].active
    BY <1>1, <1>4, MessageReceived
  <2> HIDE DEF h
  <2>2. MessagesStay
    BY <2>1 DEF MessagesStay
  <2>3. ReceiptInPlace'
    <3>1. ASSUME NEW g \in DOMAIN receipts', receipts'[g].active
          PROVE  messages'[receipts'[g].message].queue = receipts'[g].queue
      <4>1. CASE g = h
        BY <2>1, <4>1
      <4>2. CASE g # h
        <5>1. g \in DOMAIN receipts /\ receipts[g].active
          BY <2>1, <3>1, <4>2
        <5>2. /\ receipts[g].message \in DOMAIN messages
              /\ messages[receipts[g].message].queue = receipts[g].queue
          BY <1>1, <5>1 DEF Final, ReceiptInPlace, PassInv, MoveRefer
        <5> QED
          BY <2>1, <5>1, <5>2
      <4> QED
        BY <4>1, <4>2
    <3> QED
      BY <3>1 DEF ReceiptInPlace
  <2>4. AckedNotMoved'
    BY <1>1, <1>2, <2>2, AckedKept DEF Final
  <2>5. OneTaskPerSource' /\ \A t \in cancelled' : tasks'[t].status \in {"CANCELLED", "REMOVED"}
    BY <1>1, <1>2, SameTasksFade, TasksKept
  <2>6. Final'
    BY <2>3, <2>4, <2>5 DEF Final
  <2> QED
    BY <1>1, <1>2, <2>6, ReturnCurrent
<1> QED
  BY <1>3, <1>4

LEMMA DeleteMessageSerial ==
  ASSUME SerialInv, PassInv', NEW p \in Procs, DeleteMessage(p)
  PROVE  Final' /\ LocalCurrent(procs'[p], tasks', receipts', acked')
<1>1. PassInv /\ Final
  BY DEF SerialInv
<1>2. Return(p) /\ UNCHANGED <<tasks, cancelled>>
  BY <1>1, MessageDeleted
<1>3. CASE UNCHANGED <<messages, receipts, acked>>
  <2>1. Final'
    BY <1>1, <1>2, <1>3, SameStay, SameTasksFade, FinalKept
  <2> QED
    BY <1>1, <1>2, <2>1, ReturnCurrent
<1>4. CASE ~UNCHANGED <<messages, receipts, acked>>
  <2>1. PICK r \in DOMAIN messages :
           /\ messages'[r].deleted
           /\ \A o \in DOMAIN messages : /\ messages'[o].queue = messages[o].queue
                                         /\ messages[o].deleted => messages'[o].deleted
           /\ DOMAIN receipts' = DOMAIN receipts
           /\ \A g \in DOMAIN receipts :
                /\ receipts'[g].message = receipts[g].message
                /\ receipts'[g].queue = receipts[g].queue
                /\ receipts'[g].active => receipts[g].active
           /\ acked' = acked \cup {r}
    BY <1>1, <1>4, MessageDeleted
  <2>2. MessagesStay /\ ReceiptsFade
    BY <2>1 DEF MessagesStay, ReceiptsFade
  <2>3. ReceiptInPlace'
    BY <1>1, <2>2, InPlaceKept DEF Final
  <2>4. AckedNotMoved'
    <3>1. acked \subseteq DOMAIN messages /\ AckedNotMoved
      BY <1>1 DEF PassInv, MoveTypeOK, Final
    <3> QED
      BY <2>1, <3>1 DEF AckedNotMoved
  <2>5. OneTaskPerSource' /\ \A t \in cancelled' : tasks'[t].status \in {"CANCELLED", "REMOVED"}
    BY <1>1, <1>2, SameTasksFade, TasksKept
  <2>6. Final'
    BY <2>3, <2>4, <2>5 DEF Final
  <2> QED
    BY <1>1, <1>2, <2>6, ReturnCurrent
<1> QED
  BY <1>3, <1>4

\* What happens outside the requests.
LEMMA OutsideSerial ==
  ASSUME SerialInv, PassInv',
         \/ \E r \in DOMAIN messages : Lapse(r)
         \/ \E p \in Procs, q \in Queues : DeleteQueue(p, q)
         \/ UNCHANGED mvars
  PROVE  SerialInv'
<1>1. PassInv /\ MoveTypeOK /\ Final
  BY DEF SerialInv, PassInv
<1>2. MessagesStay /\ UNCHANGED <<receipts, tasks, procs, acked, cancelled>>
  <2>1. ASSUME NEW r \in DOMAIN messages, Lapse(r)
        PROVE  MessagesStay /\ UNCHANGED <<receipts, tasks, procs, acked, cancelled>>
    BY <1>1, <2>1, Lapsed DEF MessagesStay
  <2>2. ASSUME UNCHANGED <<messages, receipts, tasks, procs, acked, cancelled>>
        PROVE  MessagesStay /\ UNCHANGED <<receipts, tasks, procs, acked, cancelled>>
    BY <2>2, SameStay
  <2> QED
    BY <2>1, <2>2 DEF DeleteQueue, mvars, history
<1>3. Final'
  BY <1>1, <1>2, SameStay, SameTasksFade, FinalKept
<1>4. LocalsCurrent'
  BY <1>2 DEF SerialInv, LocalsCurrent
<1> QED
  BY <1>3, <1>4 DEF SerialInv

LEMMA CreateQueueSerial ==
  ASSUME SerialInv, PassInv', NEW p \in Procs, NEW q \in Queues, CreateQueue(p, q)
  PROVE  SerialInv'
<1>1. PassInv /\ Final
  BY DEF SerialInv
<1>2. /\ \A o \in DOMAIN messages : /\ messages'[o].queue = messages[o].queue
                                    /\ messages[o].deleted => messages'[o].deleted
      /\ DOMAIN receipts' = DOMAIN receipts
      /\ \A g \in DOMAIN receipts : /\ receipts'[g].message = receipts[g].message
                                    /\ receipts'[g].queue = receipts[g].queue
                                    /\ receipts'[g].active => receipts[g].active
      /\ DOMAIN tasks' = DOMAIN tasks
      /\ \A t \in DOMAIN tasks : /\ tasks'[t].source = tasks[t].source
                                 /\ tasks'[t].status \in {tasks[t].status, "REMOVED"}
      /\ UNCHANGED <<procs, acked, cancelled>>
  BY <1>1, QueueCreated
<1>3. MessagesStay /\ ReceiptsFade
  BY <1>2 DEF MessagesStay, ReceiptsFade
<1>4. TasksFade
  BY <1>1, <1>2 DEF TasksFade, Final
<1>5. Final'
  BY <1>1, <1>2, <1>3, <1>4, FinalKept
<1>6. \A o \in Procs : procs'[o] = Idle
  BY <1>2 DEF CreateQueue
<1>7. LocalsCurrent'
  BY <1>6, IdleCurrent DEF LocalsCurrent
<1> QED
  BY <1>5, <1>7 DEF SerialInv

LEMMA ProceedSerial ==
  ASSUME SerialInv, PassInv', NEW p \in Procs,
         Proceed(p) \/ (\E req \in Requests : maintain(p, req)) \/ Abort(p)
  PROVE  Final' /\ LocalCurrent(procs'[p], tasks', receipts', acked')
<1>1. ASSUME Proceed(p)
      PROVE  Final' /\ LocalCurrent(procs'[p], tasks', receipts', acked')
  BY <1>1, FailTaskSerial, LoadSourceSerial, LeaveMessageSerial, TakeMessageSerial,
     WriteMessageSerial, FinishPassSerial, ReadingSerial, InsertMoveTaskSerial,
     WriteCancellationSerial, SendMessageSerial, ReceiveMessageSerial,
     DeleteMessageSerial DEF Proceed
<1>2. ASSUME Abort(p)
      PROVE  Final' /\ LocalCurrent(procs'[p], tasks', receipts', acked')
  <2>1. Return(p) /\ UNCHANGED <<messages, receipts, tasks, history>> /\ PassInv /\ Final
    BY <1>2 DEF Abort, SerialInv
  <2> QED
    BY <2>1, FinalSame, ReturnCurrent
<1> QED
  BY <1>1, <1>2, ReadingSerial

LEMMA SerialStep ==
  ASSUME OneAtATime, SerialInv, [MNext]_mvars
  PROVE  SerialInv'
<1>1. PassInv'
  BY PassStep DEF SerialInv
<1>2. ASSUME NEW p \in Procs,
             Proceed(p) \/ (\E req \in Requests : maintain(p, req)) \/ Abort(p)
      PROVE  SerialInv'
  <2>1. Final' /\ LocalCurrent(procs'[p], tasks', receipts', acked')
    BY <1>1, <1>2, ProceedSerial
  <2>2. \A o \in Procs : o = p
    BY DEF OneAtATime
  <2>3. LocalsCurrent'
    BY <2>1, <2>2 DEF LocalsCurrent
  <2> QED
    BY <1>1, <2>1, <2>3 DEF SerialInv
<1> QED
  BY <1>1, <1>2, OutsideSerial, CreateQueueSerial DEF MNext

LEMMA SerialInit == MInit => SerialInv
<1> SUFFICES ASSUME MInit PROVE SerialInv
  OBVIOUS
<1>1. PassInv
  BY PassInit
<1>2. Final
  BY DEF MInit, Final, ReceiptInPlace, AckedNotMoved, OneTaskPerSource, Running
<1>3. LocalsCurrent
  BY IdleCurrent DEF MInit, LocalsCurrent
<1> QED
  BY <1>1, <1>2, <1>3 DEF SerialInv

LEMMA SerialAlways == ASSUME OneAtATime PROVE MSpec => []SerialInv
<1>1. SerialInv /\ [MNext]_mvars => SerialInv'
  BY SerialStep
<1> QED
  BY SerialInit, <1>1, PTL DEF MSpec

\* A usable receipt names the queue its message is in, wherever a pass was cut
\* off, with one handler at a time.
THEOREM ReceiptsInPlace == ASSUME OneAtATime PROVE MSpec => []ReceiptInPlace
<1>1. SerialInv => ReceiptInPlace
  BY DEF SerialInv, Final
<1> QED
  BY SerialAlways, <1>1, PTL

\* No task brings back a message whose delete was acknowledged, with one handler
\* at a time: what a pass loaded is not stale when it writes.
THEOREM DeletesFinal == ASSUME OneAtATime PROVE MSpec => []AckedNotMoved
<1>1. SerialInv => AckedNotMoved
  BY DEF SerialInv, Final
<1> QED
  BY SerialAlways, <1>1, PTL

\* A source has one running task at a time, with one handler at a time: between
\* FindRunningMoveTask and InsertMoveTask no other start comes through.
THEOREM OneTask == ASSUME OneAtATime PROVE MSpec => []OneTaskPerSource
<1>1. SerialInv => OneTaskPerSource
  BY DEF SerialInv, Final
<1> QED
  BY SerialAlways, <1>1, PTL

LEMMA CancelStep ==
  ASSUME SerialInv, SerialInv', [MNext]_mvars, NEW t \in cancelled
  PROVE  tasks'[t].status \in {"CANCELLED", "REMOVED"} /\ moves'[t] = moves[t]
<1>1. t \in DOMAIN moves /\ tasks[t].status \in {"CANCELLED", "REMOVED"}
  BY DEF SerialInv, PassInv, MoveTypeOK, Final
<1>2. t \in cancelled'
  BY DEF MNext, mvars, Proceed, FailTask, LoadSource, LeaveMessage, TakeMessage, WriteMessage,
         FinishPass, OtherRequest, StartMessageMoveTask, InsertMoveTask, processMoveTasks,
         CancelMessageMoveTask, WriteCancellation, SendMessage, ReceiveMessage, DeleteMessage,
         maintain, DeleteQueue, CreateQueue, Abort, Lapse, history
<1>3. moves'[t] = moves[t]
  <2> SUFFICES ASSUME moves'[t] # moves[t] PROVE FALSE
    OBVIOUS
  <2>1. PICK p \in Procs : WriteMessage(p) /\ t = Head(procs[p].todo).id
    BY <1>1, MovesOneRow DEF SerialInv
  <2>2. Moving(procs[p]) /\ procs[p].todo # << >>
    BY <2>1, MessageWritten, PassLocals DEF SerialInv
  <2>3. t \notin cancelled
    BY <2>1, <2>2, HeadCurrent
  <2> QED
    BY <2>3
<1> QED
  BY <1>2, <1>3 DEF SerialInv, Final

\* A cancelled task stays cancelled and moves nothing any more, with one handler
\* at a time: a pass works from rows that are as it listed them.
THEOREM CancelsFinal == ASSUME OneAtATime PROVE MSpec => CancelIsFinal
<1>1. SerialInv /\ SerialInv' /\ [MNext]_mvars =>
        [\A t \in cancelled : /\ tasks'[t].status \in {"CANCELLED", "REMOVED"}
                              /\ moves'[t] = moves[t]]_mvars
  BY CancelStep
<1> QED
  BY SerialAlways, <1>1, PTL DEF MSpec, CancelIsFinal
=============================================================================
