---------------------------- MODULE QueueRegistry ----------------------------
(***************************************************************************)
(* The control plane of the emulator: CreateQueue, DeleteQueue,             *)
(* SetQueueAttributes with delayed propagation, AddPermission,              *)
(* RemovePermission, TagQueue, UntagQueue, PurgeQueue and the parts of the  *)
(* maintenance pass that write queue rows (src/internal/service/sqs.go over *)
(* the queues, pending_queue_attributes and queue_tags tables of            *)
(* src/internal/storage/sqlite/store.go).                                   *)
(*                                                                          *)
(* A handler first reads a queue row and later writes the WHOLE row back    *)
(* from that copy (UpdateQueue), so that every operation is a read step and *)
(* one or two write steps, and handlers interleave between them.  Messages  *)
(* are left to MessagePlane; last_modified_at is left out.                  *)
(***************************************************************************)
EXTENDS Naturals, Sequences, FiniteSets

CONSTANTS
  Names,             \* queue names (of one account and region)
  FifoNames,         \* the names that end in .fifo
  Keys,              \* attribute names other than FifoQueue and Policy
  Retention,         \* MessageRetentionPeriod
  Values,            \* attribute values
  BadValues,         \* values outside the range validateQueueAttributes allows
  Default,           \* the default value of an attribute
  FifoKey,           \* the FifoQueue attribute; its values are TRUE and FALSE
  Labels,            \* permission labels: the Sids of the Policy attribute
  TagKeys,           \* tag keys
  Creates,           \* the attribute maps clients give to CreateQueue
  Patches,           \* the attribute maps clients give to SetQueueAttributes
  Procs,             \* handlers that may run concurrently
  CreatePropagation, DeleteCooldown, PurgeCooldown,
  AttributePropagation, RetentionPropagation,
  Second,            \* clock ticks per second: queue rows store whole seconds
  MaxClock, MaxRows, MaxPatches

\* An attribute map: a partial function on the attribute names.
IsPatch(a) ==
  /\ DOMAIN a \subseteq Keys \cup {FifoKey}
  /\ \A k \in DOMAIN a : a[k] \in (IF k = FifoKey THEN BOOLEAN ELSE Values)

ASSUME RegistryAssumption ==
  /\ FifoNames \subseteq Names
  /\ Retention \in Keys
  /\ FifoKey \notin Keys
  /\ BadValues \subseteq Values
  /\ Default \in Values \ BadValues
  /\ \A a \in Creates : IsPatch(a)
  /\ \A a \in Patches : IsPatch(a) /\ DOMAIN a # {}
  /\ Second \in Nat \ {0}
  /\ {CreatePropagation, DeleteCooldown, PurgeCooldown, AttributePropagation,
      RetentionPropagation, MaxClock, MaxRows, MaxPatches} \subseteq Nat

VARIABLES
  clock,
  queues,    \* the queues table: row id -> row
  pending,   \* the pending_queue_attributes table
  tags,      \* the queue_tags table: row id -> tag keys
  procs,     \* handler -> its local variables
  patches,   \* number of patches ever saved, the last id of the pending table
  wanted,    \* history: row id -> the attributes clients last asked for
  deletes,   \* history: name -> time of its last DeleteQueue, 0 for none
  purges     \* history: row id -> times of the accepted purges

rvars == <<clock, queues, pending, tags, procs, patches, wanted, deletes,
           purges>>

history == <<wanted, deletes, purges>>

-----------------------------------------------------------------------------
(* Rows and local states.                                                    *)

Attributes == {a \in [Keys \cup {FifoKey} -> Values \cup BOOLEAN] : IsPatch(a)}

Row == [name : Names, fifo : BOOLEAN, attrs : Attributes,
        policy : SUBSET Labels, availableAt : Nat,
        deletedAt : Nat, reuseBlockedTill : Nat, purgeExpiresAt : Nat,
        present : BOOLEAN]

Pending == [id : Nat, queue : Nat, patch : Patches, effectiveAt : Nat]

Idle == [op |-> "idle"]

\* `row' is the copy of the queue row that the handler read.
Proc ==
  {Idle}
    \cup [op : {"clear", "insert"}, id : Nat, name : Names, attrs : Attributes, now : Nat]
    \cup [op : {"delete", "purge", "reap"}, id : Nat, row : Row]
    \cup [op : {"set"}, id : Nat, row : Row, patch : Patches]
    \cup [op : {"save"}, id : Nat, patch : Patches, now : Nat]
    \cup [op : {"allow", "revoke"}, id : Nat, row : Row, label : Labels]
    \cup [op : {"tag"}, id : Nat, tags : SUBSET TagKeys]

RegistryTypeOK ==
  /\ clock \in Nat
  /\ queues \in Seq(Row)
  /\ pending \subseteq Pending
  /\ tags \in Seq(SUBSET TagKeys)
  /\ procs \in [Procs -> Proc]
  /\ patches \in Nat
  /\ wanted \in Seq(Attributes)
  /\ deletes \in [Names -> Nat]
  /\ purges \in Seq(SUBSET Nat)

-----------------------------------------------------------------------------
(* Store calls.                                                              *)

\* time.Unix(): queue rows and pending patches keep whole seconds.
Unix(t) == t - (t % Second)

\* a overridden by b, as maps.Copy does.
Merged(a, b) == [k \in DOMAIN a |-> IF k \in DOMAIN b THEN b[k] ELSE a[k]]

Precedes(u, v) ==
  \/ u.effectiveAt < v.effectiveAt
  \/ u.effectiveAt = v.effectiveAt /\ u.id < v.id

Latest(U) == CHOOSE u \in U : \A v \in U \ {u} : Precedes(v, u)

Due(now) == {u \in pending : u.effectiveAt <= Unix(now)}

Touching(U, i, k) == {u \in U : u.queue = i /\ k \in DOMAIN u.patch}

\* Faulty variant: of several due patches the first one counts.
Patched_FirstWins(now) ==
  [i \in DOMAIN queues |-> [queues[i] EXCEPT !.attrs =
     [k \in DOMAIN @ |->
        LET U == Touching(Due(now), i, k)
        IN  IF U = {} THEN @[k]
            ELSE (CHOOSE u \in U : \A v \in U \ {u} : Precedes(u, v)).patch[k]]]]

\* The rows after the due patches are applied in the order (effective_at, id).
Patched(now) ==
  [i \in DOMAIN queues |-> [queues[i] EXCEPT !.attrs =
     [k \in DOMAIN @ |->
        LET U == Touching(Due(now), i, k)
        IN  IF U = {} THEN @[k] ELSE Latest(U).patch[k]]]]

\* One transaction; the tombstoned queues are patched too.
ApplyDueQueueMutations(now) ==
  /\ queues' = Patched(now)
  /\ pending' = pending \ Due(now)

\* UpdateQueue writes every column of the row; a row that is gone stays gone.
UpdateQueue(i, row) ==
  queues' = [queues EXCEPT ![i] = IF @.present THEN row ELSE @]

Live(i) == queues[i].present /\ queues[i].deletedAt = 0

QueueByName(n) == {i \in DOMAIN queues : queues[i].present /\ queues[i].name = n}

-----------------------------------------------------------------------------
(* Control.                                                                  *)

Enter(p, local) ==
  /\ procs[p] = Idle
  /\ procs' = [procs EXCEPT ![p] = local]

Done(p) == procs' = [procs EXCEPT ![p] = Idle]

-----------------------------------------------------------------------------
(* CreateQueue.                                                              *)

defaultQueueAttributes ==
  [k \in Keys \cup {FifoKey} |-> IF k = FifoKey THEN FALSE ELSE Default]

\* Faulty variant: the queue type is not compared with the name.
validateQueueAttributes_AnyType(n, attrs) ==
  \A k \in Keys : attrs[k] \notin BadValues

validateQueueAttributes(n, attrs) ==
  /\ attrs[FifoKey] <=> n \in FifoNames
  /\ \A k \in Keys : attrs[k] \notin BadValues

\* Faulty variant: a tombstone never blocks its name.
ReuseBlocked_Never(row, now) == FALSE

ReuseBlocked(row, now) ==
  row.deletedAt # 0 /\ row.reuseBlockedTill # 0 /\ now < row.reuseBlockedTill

\* Up to the lookup by name: only an expired tombstone or a free name goes on.
\* A live queue of that name is left alone, whether its attributes are
\* equivalent (its URL is returned) or not (QueueNameExists).
CreateQueue(p, n, given) ==
  LET attrs == Merged(defaultQueueAttributes, given) IN
  /\ procs[p] = Idle
  /\ Len(queues) < MaxRows
  /\ ApplyDueQueueMutations(clock)
  /\ LET found == QueueByName(n)
         go(op, i) == procs' = [procs EXCEPT ![p] =
           [op |-> op, id |-> i, name |-> n, attrs |-> attrs, now |-> clock]]
     IN  \/ /\ validateQueueAttributes(n, attrs)
            /\ \/ found = {} /\ go("insert", 0)
               \/ \E i \in found : /\ queues[i].deletedAt # 0
                                   /\ ~ReuseBlocked(queues[i], clock)
                                   /\ go("clear", i)
         \/ /\ \/ ~validateQueueAttributes(n, attrs)
               \/ \E i \in found : \/ queues[i].deletedAt = 0
                                   \/ ReuseBlocked(queues[i], clock)
            /\ UNCHANGED procs
  /\ UNCHANGED <<clock, tags, patches, history>>

\* DeleteQueueRow: the patches and the tags go with the row.
DeleteQueueRow(p) ==
  /\ procs[p].op = "clear"
  /\ LET i == procs[p].id IN
     /\ queues' = [queues EXCEPT ![i].present = FALSE]
     /\ pending' = {u \in pending : u.queue # i}
     /\ tags' = [tags EXCEPT ![i] = {}]
  /\ procs' = [procs EXCEPT ![p].op = "insert"]
  /\ UNCHANGED <<clock, patches, history>>

\* Faulty variant: the policy starts with a statement that has no Sid.
NewRow_EmptyStatement(n, attrs, now) ==
  [name |-> n, fifo |-> attrs[FifoKey], attrs |-> attrs, policy |-> {""},
   availableAt |-> Unix(now + CreatePropagation), deletedAt |-> 0,
   reuseBlockedTill |-> 0, purgeExpiresAt |-> 0, present |-> TRUE]

NewRow(n, attrs, now) ==
  [name |-> n, fifo |-> attrs[FifoKey], attrs |-> attrs, policy |-> {},
   availableAt |-> Unix(now + CreatePropagation), deletedAt |-> 0,
   reuseBlockedTill |-> 0, purgeExpiresAt |-> 0, present |-> TRUE]

\* InsertQueue: the UNIQUE constraint on the name refuses a second row.
InsertQueue(p) ==
  /\ procs[p].op = "insert"
  /\ LET n == procs[p].name
         row == NewRow(n, procs[p].attrs, procs[p].now)
     IN  \/ /\ QueueByName(n) = {}
            /\ queues' = Append(queues, row)
            /\ tags' = Append(tags, {})
            /\ wanted' = Append(wanted, row.attrs)
            /\ purges' = Append(purges, {})
         \/ QueueByName(n) # {} /\ UNCHANGED <<queues, tags, wanted, purges>>
  /\ Done(p)
  /\ UNCHANGED <<clock, pending, patches, deletes>>

-----------------------------------------------------------------------------
(* DeleteQueue, PurgeQueue and the end of the purge window.                  *)

DeleteQueue(p, i) ==
  /\ Live(i)
  /\ Enter(p, [op |-> "delete", id |-> i, row |-> queues[i]])
  /\ UNCHANGED <<clock, queues, pending, tags, patches, history>>

WriteTombstone(p) ==
  /\ procs[p].op = "delete"
  /\ UpdateQueue(procs[p].id, [procs[p].row EXCEPT
       !.deletedAt = Unix(clock), !.reuseBlockedTill = Unix(clock + DeleteCooldown)])
  /\ deletes' = [deletes EXCEPT ![procs[p].row.name] = clock]
  /\ Done(p)
  /\ UNCHANGED <<clock, pending, tags, patches, wanted, purges>>

PurgeQueue(p, i) ==
  /\ Live(i)
  /\ Enter(p, [op |-> "purge", id |-> i, row |-> queues[i]])
  /\ UNCHANGED <<clock, queues, pending, tags, patches, history>>

\* The window of the copy is checked, then the row is written.
OpenPurgeWindow(p) ==
  /\ procs[p].op = "purge"
  /\ LET expires == procs[p].row.purgeExpiresAt IN
     \/ /\ expires = 0 \/ clock >= expires
        /\ UpdateQueue(procs[p].id,
             [procs[p].row EXCEPT !.purgeExpiresAt = Unix(clock + PurgeCooldown)])
        /\ purges' = [purges EXCEPT ![procs[p].id] = @ \cup {clock}]
     \/ expires # 0 /\ clock < expires /\ UNCHANGED <<queues, purges>>
  /\ Done(p)
  /\ UNCHANGED <<clock, pending, tags, patches, wanted, deletes>>

\* Faulty variant: the window is closed by the next request, whatever its end.
maintain_ClosesEarly(p, i) ==
  /\ Live(i)
  /\ queues[i].purgeExpiresAt # 0
  /\ ApplyDueQueueMutations(clock)
  /\ Enter(p, [op |-> "reap", id |-> i, row |-> Patched(clock)[i]])
  /\ UNCHANGED <<clock, tags, patches, history>>

\* maintain applies the due patches and lists the queues; reapQueue has found
\* a purge window of row i that is over.  The pass is taken row by row.
maintain(p, i) ==
  /\ Live(i)
  /\ queues[i].purgeExpiresAt # 0
  /\ queues[i].purgeExpiresAt <= clock
  /\ ApplyDueQueueMutations(clock)
  /\ Enter(p, [op |-> "reap", id |-> i, row |-> Patched(clock)[i]])
  /\ UNCHANGED <<clock, tags, patches, history>>

reapQueue(p) ==
  /\ procs[p].op = "reap"
  /\ UpdateQueue(procs[p].id, [procs[p].row EXCEPT !.purgeExpiresAt = 0])
  /\ Done(p)
  /\ UNCHANGED <<clock, pending, tags, patches, history>>

\* Any request whose maintenance pass finds no purge window to close, and
\* ListQueues and GetQueueAttributes.
Refresh(p) ==
  /\ procs[p] = Idle
  /\ ApplyDueQueueMutations(clock)
  /\ UNCHANGED <<clock, tags, procs, patches, history>>

-----------------------------------------------------------------------------
(* SetQueueAttributes.                                                       *)

SetQueueAttributes(p, i, patch) ==
  /\ Live(i)
  /\ patches < MaxPatches
  /\ validateQueueAttributes(queues[i].name, Merged(queues[i].attrs, patch))
  /\ Enter(p, [op |-> "set", id |-> i, row |-> queues[i], patch |-> patch])
  /\ UNCHANGED <<clock, queues, pending, tags, patches, history>>

\* The row is written back (with its new modification time) ...
TouchQueue(p) ==
  /\ procs[p].op = "set"
  /\ UpdateQueue(procs[p].id, procs[p].row)
  /\ procs' = [procs EXCEPT ![p] = [op |-> "save", id |-> @.id, patch |-> @.patch,
                                    now |-> clock]]
  /\ UNCHANGED <<clock, pending, tags, patches, history>>

onlyRetention(patch) == DOMAIN patch = {Retention}

Propagation(patch) ==
  IF onlyRetention(patch) THEN RetentionPropagation ELSE AttributePropagation

\* ... and the patch is saved; the foreign key refuses a row that is gone.
SavePendingAttributes(p) ==
  /\ procs[p].op = "save"
  /\ LET i == procs[p].id
         patch == procs[p].patch
     IN  \/ /\ queues[i].present
            /\ pending' = pending \cup
                 {[id |-> patches + 1, queue |-> i, patch |-> patch,
                   effectiveAt |-> Unix(procs[p].now + Propagation(patch))]}
            /\ patches' = patches + 1
            /\ wanted' = [wanted EXCEPT ![i] = Merged(@, patch)]
         \/ ~queues[i].present /\ UNCHANGED <<pending, patches, wanted>>
  /\ Done(p)
  /\ UNCHANGED <<clock, queues, tags, deletes, purges>>

-----------------------------------------------------------------------------
(* Permissions and tags.                                                     *)

AddPermission(p, i, label) ==
  /\ Live(i)
  /\ Enter(p, [op |-> "allow", id |-> i, row |-> queues[i], label |-> label])
  /\ UNCHANGED <<clock, queues, pending, tags, patches, history>>

WritePermission(p) ==
  /\ procs[p].op = "allow"
  /\ UpdateQueue(procs[p].id, [procs[p].row EXCEPT
       !.policy = @ \cup {procs[p].label}])
  /\ Done(p)
  /\ UNCHANGED <<clock, pending, tags, patches, history>>

RemovePermission(p, i, label) ==
  /\ Live(i)
  /\ Enter(p, [op |-> "revoke", id |-> i, row |-> queues[i], label |-> label])
  /\ UNCHANGED <<clock, queues, pending, tags, patches, history>>

WriteRevocation(p) ==
  /\ procs[p].op = "revoke"
  /\ UpdateQueue(procs[p].id, [procs[p].row EXCEPT
       !.policy = @ \ {procs[p].label}])
  /\ Done(p)
  /\ UNCHANGED <<clock, pending, tags, patches, history>>

\* ListTags and the merge ...
TagQueue(p, i, T) ==
  /\ Live(i)
  /\ Enter(p, [op |-> "tag", id |-> i, tags |-> tags[i] \cup T])
  /\ UNCHANGED <<clock, queues, pending, tags, patches, history>>

\* ... and ReplaceTags, which the foreign key refuses on a row that is gone.
ReplaceTags(p) ==
  /\ procs[p].op = "tag"
  /\ tags' = [tags EXCEPT ![procs[p].id] =
                IF queues[procs[p].id].present THEN procs[p].tags ELSE @]
  /\ Done(p)
  /\ UNCHANGED <<clock, queues, pending, patches, history>>

UntagQueue(p, i, T) ==
  /\ procs[p] = Idle
  /\ Live(i)
  /\ tags' = [tags EXCEPT ![i] = @ \ T]
  /\ UNCHANGED <<clock, queues, pending, procs, patches, history>>

-----------------------------------------------------------------------------
(* Failures, time and the specification.                                     *)

\* The client goes away or the server restarts between two store calls.
Abort(p) ==
  /\ procs[p] # Idle
  /\ Done(p)
  /\ UNCHANGED <<clock, queues, pending, tags, patches, history>>

Tick ==
  /\ clock < MaxClock
  /\ clock' = clock + 1
  /\ UNCHANGED <<queues, pending, tags, procs, patches, history>>

RInit ==
  /\ clock = Second
  /\ queues = << >>
  /\ pending = {}
  /\ tags = << >>
  /\ procs = [p \in Procs |-> Idle]
  /\ patches = 0
  /\ wanted = << >>
  /\ deletes = [n \in Names |-> 0]
  /\ purges = << >>

Start(p) ==
  \/ Refresh(p)
  \/ \E n \in Names, given \in Creates : CreateQueue(p, n, given)
  \/ \E i \in DOMAIN queues :
       \/ DeleteQueue(p, i)
       \/ PurgeQueue(p, i)
       \/ maintain(p, i)
       \/ \E patch \in Patches : SetQueueAttributes(p, i, patch)
       \/ \E label \in Labels : AddPermission(p, i, label) \/ RemovePermission(p, i, label)
       \/ \E T \in SUBSET TagKeys : T # {} /\ (TagQueue(p, i, T) \/ UntagQueue(p, i, T))

Proceed(p) ==
  \/ DeleteQueueRow(p)
  \/ InsertQueue(p)
  \/ WriteTombstone(p)
  \/ OpenPurgeWindow(p)
  \/ reapQueue(p)
  \/ TouchQueue(p)
  \/ SavePendingAttributes(p)
  \/ WritePermission(p)
  \/ WriteRevocation(p)
  \/ ReplaceTags(p)

RNext ==
  \/ Tick
  \/ \E p \in Procs : Start(p) \/ Proceed(p) \/ Abort(p)

RSpec == RInit /\ [][RNext]_rvars

-----------------------------------------------------------------------------
(* Properties.                                                               *)

\* Every stored row is one that CreateQueue would accept under its name: the
\* fifo column, the FifoQueue attribute and the .fifo suffix agree and no
\* attribute is out of range, although patches are validated against a copy
\* read long before they take effect.
RowsValid ==
  \A i \in DOMAIN queues :
    /\ queues[i].fifo <=> queues[i].name \in FifoNames
    /\ queues[i].fifo <=> queues[i].attrs[FifoKey]
    /\ \A k \in Keys : queues[i].attrs[k] \notin BadValues

\* SetQueueAttributes converges: the value in effect, or the one that the
\* pending patches will leave, is the one the last acknowledged request asked
\* for, through delays, restarts, recreation and purge windows.
AttributesConverge ==
  \A i \in DOMAIN queues : \A k \in Keys \cup {FifoKey} :
    queues[i].present =>
      LET U == Touching(pending, i, k)
      IN  wanted[i][k] = IF U = {} THEN queues[i].attrs[k] ELSE Latest(U).patch[k]

\* While the cool-down of an acknowledged DeleteQueue runs, no queue of that name is
\* there: none is created, and what other requests write from copies they read
\* before does not bring the old one back.  (ErrQueueDeletedRecently, UpdateQueue)
DeletedStaysBlocked ==
  \A i \in DOMAIN queues :
    LET deleted == deletes[queues[i].name]
    IN  Live(i) /\ deleted # 0 => clock >= deleted + DeleteCooldown

\* Two accepted purges of a queue are a purge cool-down apart, although any
\* request may close the window in its maintenance pass and every handler
\* writes the whole row (ErrPurgeQueueInProgress).
PurgesSpaced ==
  \A i \in DOMAIN purges : \A s, t \in purges[i] : s < t => t >= s + PurgeCooldown
=============================================================================
