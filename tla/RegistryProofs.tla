---------------------------- MODULE RegistryProofs ----------------------------
(***************************************************************************)
(* Theorems about QueueRegistry.  The types and that every row is one that  *)
(* CreateQueue would accept hold for every set of handlers, although all of *)
(* them write whole rows back from old copies.  That purges are spaced,     *)
(* that a deleted name stays blocked and that attributes converge holds     *)
(* when handlers run one at a time, wherever they are cut off.              *)
(***************************************************************************)
EXTENDS QueueRegistry, SequenceTheorems, FiniteSetTheorems, TLAPS

-----------------------------------------------------------------------------
(* The local states of a handler.                                            *)

Creator == [op : {"clear", "insert"}, id : Nat, name : Names, attrs : Attributes, now : Nat]

Rewriter == [op : {"delete", "purge", "reap"}, id : Nat, row : Row]

Setter == [op : {"set"}, id : Nat, row : Row, patch : Patches]

Saver == [op : {"save"}, id : Nat, patch : Patches, now : Nat]

Permitter == [op : {"allow", "revoke"}, id : Nat, row : Row, label : Labels]

Tagger == [op : {"tag"}, id : Nat, tags : SUBSET TagKeys]

\* The operation of a handler tells which local variables it has.
LEMMA Operations ==
  ASSUME NEW s \in Proc
  PROVE  /\ s.op \in {"clear", "insert"} => s \in Creator
         /\ s.op \in {"delete", "purge", "reap"} => s \in Rewriter
         /\ s.op = "set" => s \in Setter
         /\ s.op = "save" => s \in Saver
         /\ s.op \in {"allow", "revoke"} => s \in Permitter
         /\ s.op = "tag" => s \in Tagger
<1>1. \/ s = Idle \/ s \in Creator \/ s \in Rewriter \/ s \in Setter \/ s \in Saver
      \/ s \in Permitter \/ s \in Tagger
  BY DEF Proc, Creator, Rewriter, Setter, Saver, Permitter, Tagger
<1>2. /\ s = Idle => s.op = "idle"
      /\ s \in Creator => s.op \in {"clear", "insert"}
      /\ s \in Rewriter => s.op \in {"delete", "purge", "reap"}
      /\ s \in Setter => s.op = "set"
      /\ s \in Saver => s.op = "save"
      /\ s \in Permitter => s.op \in {"allow", "revoke"}
      /\ s \in Tagger => s.op = "tag"
  BY DEF Idle, Creator, Rewriter, Setter, Saver, Permitter, Tagger
<1> QED
  BY <1>1, <1>2

LEMMA LocalStates ==
  /\ Idle \in Proc /\ Creator \subseteq Proc /\ Rewriter \subseteq Proc /\ Setter \subseteq Proc
  /\ Saver \subseteq Proc /\ Permitter \subseteq Proc /\ Tagger \subseteq Proc
  BY DEF Proc, Creator, Rewriter, Setter, Saver, Permitter, Tagger

-----------------------------------------------------------------------------
(* The invariant for every set of handlers: what is in the tables and what   *)
(* handlers remember of them was validated for the name of its row, which    *)
(* never changes.                                                            *)

RowOK(row) ==
  /\ row.fifo <=> row.name \in FifoNames
  /\ row.fifo <=> row.attrs[FifoKey]
  /\ \A k \in Keys : row.attrs[k] \notin BadValues

PatchOK(name, patch) ==
  /\ FifoKey \in DOMAIN patch => (patch[FifoKey] <=> name \in FifoNames)
  /\ \A k \in Keys \cap DOMAIN patch : patch[k] \notin BadValues

\* The operations that write a row back from their copy of it.
Writers == {"delete", "purge", "reap", "set", "allow", "revoke"}

LocalOK(s, qs) ==
  /\ s.op \in Writers =>
       /\ s.id \in DOMAIN qs /\ s.row.name = qs[s.id].name /\ s.row.present /\ RowOK(s.row)
  /\ s.op = "clear" => s.id \in DOMAIN qs
  /\ s.op \in {"clear", "insert"} => validateQueueAttributes(s.name, s.attrs)
  /\ s.op = "set" => PatchOK(s.row.name, s.patch)
  /\ s.op = "save" => s.id \in DOMAIN qs /\ PatchOK(qs[s.id].name, s.patch)
  /\ s.op = "tag" => s.id \in DOMAIN qs

LocalsOK == \A p \in Procs : LocalOK(procs[p], queues)

TablesMatch ==
  Len(tags) = Len(queues) /\ Len(wanted) = Len(queues) /\ Len(purges) = Len(queues)

PendingOK ==
  /\ IsFiniteSet(pending)
  /\ \A u \in pending : /\ u.id <= patches
                        /\ u.queue \in DOMAIN queues
                        /\ PatchOK(queues[u.queue].name, u.patch)
  /\ \A u, v \in pending : u.id = v.id => u = v

\* The UNIQUE constraint on the name.
NamesUnique ==
  \A i, j \in DOMAIN queues :
    queues[i].present /\ queues[j].present /\ queues[i].name = queues[j].name => i = j

RegistryInv ==
  RegistryTypeOK /\ TablesMatch /\ RowsValid /\ PendingOK /\ NamesUnique /\ LocalsOK

LEMMA RegistryTables ==
  ASSUME RegistryInv
  PROVE  /\ RegistryTypeOK /\ Len(queues) \in Nat /\ DOMAIN queues = 1 .. Len(queues)
         /\ \A i \in DOMAIN queues : i \in Nat /\ queues[i] \in Row /\ RowOK(queues[i])
         /\ DOMAIN tags = DOMAIN queues /\ \A i \in DOMAIN queues : tags[i] \in SUBSET TagKeys
         /\ DOMAIN wanted = DOMAIN queues /\ \A i \in DOMAIN queues : wanted[i] \in Attributes
         /\ DOMAIN purges = DOMAIN queues /\ \A i \in DOMAIN queues : purges[i] \in SUBSET Nat
<1>1. RegistryTypeOK /\ TablesMatch /\ RowsValid
  BY DEF RegistryInv
<1>2. /\ Len(queues) \in Nat /\ DOMAIN queues = 1 .. Len(queues)
      /\ \A i \in DOMAIN queues : i \in Nat /\ queues[i] \in Row
  BY <1>1 DEF RegistryTypeOK
<1>3. \A i \in DOMAIN queues : RowOK(queues[i])
  BY <1>1 DEF RowsValid, RowOK
<1>4. DOMAIN tags = DOMAIN queues /\ \A i \in DOMAIN queues : tags[i] \in SUBSET TagKeys
  BY <1>1 DEF RegistryTypeOK, TablesMatch
<1>5. DOMAIN wanted = DOMAIN queues /\ \A i \in DOMAIN queues : wanted[i] \in Attributes
  BY <1>1 DEF RegistryTypeOK, TablesMatch
<1>6. DOMAIN purges = DOMAIN queues /\ \A i \in DOMAIN queues : purges[i] \in SUBSET Nat
  BY <1>1 DEF RegistryTypeOK, TablesMatch
<1> QED
  BY <1>1, <1>2, <1>3, <1>4, <1>5, <1>6

-----------------------------------------------------------------------------
(* Attribute maps.                                                           *)

LEMMA AttributesOf ==
  ASSUME NEW a \in Attributes
  PROVE  /\ a = [k \in Keys \cup {FifoKey} |-> a[k]] /\ DOMAIN a = Keys \cup {FifoKey}
         /\ a[FifoKey] \in BOOLEAN /\ \A k \in Keys : a[k] \in Values
  BY RegistryAssumption DEF Attributes, IsPatch

LEMMA AreAttributes ==
  ASSUME NEW a, a = [k \in Keys \cup {FifoKey} |-> a[k]], a[FifoKey] \in BOOLEAN,
         \A k \in Keys : a[k] \in Values
  PROVE  a \in Attributes
<1>1. a \in [Keys \cup {FifoKey} -> Values \cup BOOLEAN]
  OBVIOUS
<1>2. IsPatch(a)
  BY RegistryAssumption, <1>1 DEF IsPatch
<1> QED
  BY <1>1, <1>2 DEF Attributes

LEMMA PatchValues ==
  ASSUME NEW a, a \in Patches \/ a \in Creates
  PROVE  /\ FifoKey \in DOMAIN a => a[FifoKey] \in BOOLEAN
         /\ \A k \in Keys : k \in DOMAIN a => a[k] \in Values
  BY RegistryAssumption DEF IsPatch

\* maps.Copy of a patch or of given attributes.
LEMMA MergedTyped ==
  ASSUME NEW a \in Attributes, NEW b, b \in Patches \/ b \in Creates
  PROVE  /\ Merged(a, b) \in Attributes
         /\ \A k \in Keys \cup {FifoKey} :
              Merged(a, b)[k] = IF k \in DOMAIN b THEN b[k] ELSE a[k]
<1> DEFINE m == Merged(a, b)
<1>1. /\ m = [k \in Keys \cup {FifoKey} |-> m[k]]
      /\ \A k \in Keys \cup {FifoKey} : m[k] = IF k \in DOMAIN b THEN b[k] ELSE a[k]
  BY AttributesOf DEF Merged
<1> HIDE DEF m
<1>2. m[FifoKey] \in BOOLEAN /\ \A k \in Keys : m[k] \in Values
  BY <1>1, AttributesOf, PatchValues
<1> QED
  BY <1>1, <1>2, AreAttributes DEF m

LEMMA DefaultsTyped == defaultQueueAttributes \in Attributes
<1> DEFINE d == defaultQueueAttributes
<1>1. /\ d = [k \in Keys \cup {FifoKey} |-> d[k]]
      /\ d[FifoKey] \in BOOLEAN /\ \A k \in Keys : d[k] \in Values
  BY RegistryAssumption DEF defaultQueueAttributes
<1> HIDE DEF d
<1> QED
  BY <1>1, AreAttributes DEF d

\* What SetQueueAttributes validates says that the patch alone is fine.
LEMMA PatchValidated ==
  ASSUME NEW name, NEW a \in Attributes, NEW patch \in Patches,
         validateQueueAttributes(name, Merged(a, patch))
  PROVE  PatchOK(name, patch)
<1>1. \A k \in Keys \cup {FifoKey} :
        Merged(a, patch)[k] = IF k \in DOMAIN patch THEN patch[k] ELSE a[k]
  BY MergedTyped
<1> QED
  BY <1>1 DEF validateQueueAttributes, PatchOK

-----------------------------------------------------------------------------
(* Pending patches.                                                          *)

LEMMA PendingTyped ==
  ASSUME RegistryInv, NEW u \in pending
  PROVE  /\ u.id \in Nat /\ u.queue \in DOMAIN queues /\ u.patch \in Patches /\ u.effectiveAt \in Nat
         /\ PatchOK(queues[u.queue].name, u.patch)
<1>1. u \in Pending /\ PendingOK
  BY DEF RegistryInv, RegistryTypeOK
<1> QED
  BY <1>1 DEF Pending, PendingOK

\* Patches are applied in a total order, so that of several there is a last one.
LEMMA LatestExists ==
  ASSUME RegistryInv, NEW U, U \subseteq pending, U # {}
  PROVE  Latest(U) \in U /\ \A v \in U \ {Latest(U)} : Precedes(v, Latest(U))
<1>1. /\ \A u \in U : u.id \in Nat /\ u.effectiveAt \in Nat
      /\ \A u, v \in U : u.id = v.id => u = v
      /\ IsFiniteSet(pending)
  BY PendingTyped DEF RegistryInv, PendingOK
<1>2. \A u, v, w \in U : Precedes(u, v) /\ Precedes(v, w) => Precedes(u, w)
  BY <1>1 DEF Precedes
<1>3. \A u \in U : ~Precedes(u, u)
  BY <1>1 DEF Precedes
<1>4. \A u, v \in U : u # v => Precedes(u, v) \/ Precedes(v, u)
  BY <1>1 DEF Precedes
<1> DEFINE Later(u) == {v \in U : Precedes(u, v)}
           T == {Later(u) : u \in U}
           R == StrictSubsetOrdering(U)
           S == FiniteSubsetsOf(U)
<1>5. IsFiniteSet(U)
  <2>1. U \in SUBSET pending
    OBVIOUS
  <2> QED
    BY <1>1, <2>1, FS_Subset
<1>6. S = SUBSET U
  BY <1>5, FS_FiniteSubsetsOfFinite
<1>7. T \subseteq S /\ T # {}
  <2>1. \A u \in U : Later(u) \in SUBSET U
    OBVIOUS
  <2> HIDE DEF Later
  <2>2. T \subseteq SUBSET U /\ T # {}
    BY <2>1
  <2> HIDE DEF S, T
  <2> QED
    BY <1>6, <2>2
<1>8. IsWellFoundedOn(R, S)
  BY FS_StrictSubsetOrderingWellFounded
<1> HIDE DEF S, R, T
<1>9. PICK x \in T : \A y \in T : ~(<<y, x>> \in R)
  BY <1>7, <1>8, WFMin
<1>10. PICK m \in U : x = Later(m)
  BY <1>9 DEF T
<1>11. ASSUME NEW v \in U, Precedes(m, v) PROVE FALSE
  <2>1. Later(v) \subseteq Later(m)
    BY <1>2, <1>11
  <2>2. v \in Later(m) /\ v \notin Later(v)
    BY <1>3, <1>11
  <2>3. <<Later(v), Later(m)>> \in R
    BY <2>1, <2>2 DEF R, StrictSubsetOrdering
  <2>4. Later(v) \in T
    BY DEF T
  <2> QED
    BY <1>9, <1>10, <2>3, <2>4
<1>12. \A v \in U \ {m} : Precedes(v, m)
  BY <1>4, <1>11
<1> QED
  BY <1>12 DEF Latest

\* There is only one last one.
LEMMA LatestUnique ==
  ASSUME NEW U, NEW u \in U, \A v \in U : v.id \in Nat /\ v.effectiveAt \in Nat,
         \A v \in U \ {u} : Precedes(v, u)
  PROVE  Latest(U) = u
<1>1. Latest(U) \in U /\ \A v \in U \ {Latest(U)} : Precedes(v, Latest(U))
  BY DEF Latest
<1>2. ASSUME Latest(U) # u PROVE FALSE
  <2>1. Precedes(u, Latest(U)) /\ Precedes(Latest(U), u)
    BY <1>1, <1>2
  <2> QED
    BY <1>1, <2>1 DEF Precedes
<1> QED
  BY <1>2

-----------------------------------------------------------------------------
(* What a step may do to the rows.                                           *)

\* No row appears, changes its name or comes back, and all are valid.
RowsFade ==
  /\ queues' \in Seq(Row) /\ Len(queues') = Len(queues)
  /\ \A i \in DOMAIN queues : /\ queues'[i].name = queues[i].name
                              /\ queues'[i].present => queues[i].present
                              /\ RowOK(queues'[i])

\* The other tables keep their types and lengths.
TablesStay ==
  /\ tags' \in Seq(SUBSET TagKeys) /\ Len(tags') = Len(tags)
  /\ wanted' \in Seq(Attributes) /\ Len(wanted') = Len(wanted)
  /\ purges' \in Seq(SUBSET Nat) /\ Len(purges') = Len(purges)
  /\ clock' \in Nat /\ patches' \in Nat /\ deletes' \in [Names -> Nat]

\* Handler p goes to state s.
GoesTo(p, s) ==
  /\ DOMAIN procs' = Procs /\ procs' = [q \in Procs |-> procs'[q]]
  /\ \A q \in Procs : q # p => procs'[q] = procs[q]
  /\ procs'[p] = s /\ s \in Proc

LEMMA LocalKept ==
  ASSUME NEW qs, NEW rs, NEW s, DOMAIN qs \subseteq DOMAIN rs,
         \A i \in DOMAIN qs : rs[i].name = qs[i].name, LocalOK(s, qs)
  PROVE  LocalOK(s, rs)
  BY DEF LocalOK

LEMMA RowsDomain ==
  ASSUME RegistryInv, RowsFade
  PROVE  DOMAIN queues' = DOMAIN queues
  BY RegistryTables DEF RowsFade

LEMMA RegistryKept ==
  ASSUME RegistryInv, RowsFade, TablesStay, PendingOK', pending' \subseteq Pending,
         NEW p \in Procs, NEW s, GoesTo(p, s), LocalOK(s, queues')
  PROVE  RegistryInv'
<1>1. DOMAIN queues' = DOMAIN queues
  BY RowsDomain
<1>2. ASSUME NEW q \in Procs PROVE procs'[q] \in Proc /\ LocalOK(procs'[q], queues')
  <2>1. CASE q = p
    BY <2>1 DEF GoesTo
  <2>2. CASE q # p
    <3>1. procs'[q] = procs[q] /\ procs[q] \in Proc /\ LocalOK(procs[q], queues)
      BY <2>2 DEF GoesTo, RegistryInv, RegistryTypeOK, LocalsOK
    <3> QED
      BY <1>1, <3>1, LocalKept DEF RowsFade
  <2> QED
    BY <2>1, <2>2
<1>3. procs' \in [Procs -> Proc]
  BY <1>2 DEF GoesTo
<1>4. RegistryTypeOK' /\ TablesMatch'
  BY <1>3 DEF RegistryInv, RegistryTypeOK, TablesMatch, RowsFade, TablesStay
<1>5. RowsValid'
  BY <1>1 DEF RowsValid, RowsFade, RowOK
<1>6. NamesUnique'
  BY <1>1 DEF RegistryInv, NamesUnique, RowsFade
<1> QED
  BY <1>2, <1>4, <1>5, <1>6 DEF RegistryInv, LocalsOK

LEMMA RowsSame ==
  ASSUME RegistryInv, queues' = queues
  PROVE  RowsFade
  BY RegistryTables DEF RowsFade, RegistryTypeOK

LEMMA TablesSame ==
  ASSUME RegistryInv, UNCHANGED <<tags, patches, history>>, clock' \in Nat
  PROVE  TablesStay
  BY DEF RegistryInv, RegistryTypeOK, TablesStay, history

LEMMA PendingShrinks ==
  ASSUME RegistryInv, RowsFade, pending' \subseteq pending, patches' = patches
  PROVE  PendingOK' /\ pending' \subseteq Pending
<1>1. DOMAIN queues' = DOMAIN queues /\ \A i \in DOMAIN queues : queues'[i].name = queues[i].name
  BY RowsDomain DEF RowsFade
<1>2. PendingOK /\ pending \subseteq Pending
  BY DEF RegistryInv, RegistryTypeOK
<1>3. IsFiniteSet(pending')
  <2>1. pending' \in SUBSET pending /\ IsFiniteSet(pending)
    BY <1>2 DEF PendingOK
  <2> QED
    BY <2>1, FS_Subset
<1>4. PendingOK'
  BY <1>1, <1>2, <1>3 DEF PendingOK
<1> QED
  BY <1>2, <1>4

LEMMA IdleOK == \A qs : LocalOK(Idle, qs)
  BY DEF LocalOK, Idle, Writers

LEMMA DoneGoes ==
  ASSUME RegistryInv, NEW p \in Procs, Done(p)
  PROVE  GoesTo(p, Idle)
  BY LocalStates DEF RegistryInv, RegistryTypeOK, Done, GoesTo

LEMMA EntersGoes ==
  ASSUME RegistryInv, NEW p \in Procs, NEW s \in Proc, procs' = [procs EXCEPT ![p] = s]
  PROVE  GoesTo(p, s)
  BY DEF RegistryInv, RegistryTypeOK, GoesTo

\* The row that UpdateQueue leaves.
LEMMA RowUpdated ==
  ASSUME RegistryInv, NEW i \in DOMAIN queues, NEW row \in Row,
         row.name = queues[i].name, RowOK(row), UpdateQueue(i, row)
  PROVE  /\ RowsFade
         /\ \A j \in DOMAIN queues : j # i => queues'[j] = queues[j]
         /\ queues[i].present => queues'[i] = row
         /\ ~queues[i].present => queues'[i] = queues[i]
<1> DEFINE new == IF queues[i].present THEN row ELSE queues[i]
<1>1. /\ queues \in Seq(Row) /\ DOMAIN queues = 1 .. Len(queues)
      /\ \A j \in DOMAIN queues : queues[j] \in Row /\ RowOK(queues[j])
  BY RegistryTables DEF RegistryTypeOK
<1>2. queues' = [queues EXCEPT ![i] = new]
  BY DEF UpdateQueue
<1>3. /\ new \in Row /\ new.name = queues[i].name /\ RowOK(new)
      /\ new.present => queues[i].present
      /\ queues[i].present => new = row
      /\ ~queues[i].present => new = queues[i]
  BY <1>1
<1> HIDE DEF new
<1>4. /\ queues' \in Seq(Row) /\ Len(queues') = Len(queues) /\ queues'[i] = new
      /\ \A j \in DOMAIN queues : j # i => queues'[j] = queues[j]
  BY <1>1, <1>2, <1>3
<1> QED
  BY <1>1, <1>3, <1>4 DEF RowsFade

\* The rows after due patches: the last patch of an attribute counts.
LEMMA PatchedRows ==
  ASSUME RegistryInv, NEW now
  PROVE  /\ Patched(now) \in Seq(Row) /\ Len(Patched(now)) = Len(queues)
         /\ DOMAIN Patched(now) = DOMAIN queues
         /\ \A i \in DOMAIN queues :
              LET old == queues[i]
                  new == Patched(now)[i]
              IN  /\ new \in Row /\ RowOK(new)
                  /\ new.name = old.name /\ new.fifo = old.fifo /\ new.present = old.present
                  /\ new.deletedAt = old.deletedAt
                  /\ new.reuseBlockedTill = old.reuseBlockedTill
                  /\ new.purgeExpiresAt = old.purgeExpiresAt
                  /\ \A k \in Keys \cup {FifoKey} :
                       LET U == Touching(Due(now), i, k)
                       IN  new.attrs[k] = IF U = {} THEN old.attrs[k] ELSE Latest(U).patch[k]
<1> DEFINE attrs(i) == [k \in DOMAIN queues[i].attrs |->
                          LET U == Touching(Due(now), i, k)
                          IN  IF U = {} THEN queues[i].attrs[k] ELSE Latest(U).patch[k]]
<1>1. /\ Len(queues) \in Nat /\ DOMAIN queues = 1 .. Len(queues)
      /\ \A i \in DOMAIN queues : queues[i] \in Row /\ RowOK(queues[i])
  BY RegistryTables
<1>2. Patched(now) = [i \in DOMAIN queues |-> [queues[i] EXCEPT !.attrs = attrs(i)]]
  BY DEF Patched
<1> HIDE DEF attrs
<1>3. ASSUME NEW i \in DOMAIN queues
      PROVE  /\ \A k \in Keys \cup {FifoKey} :
                  LET U == Touching(Due(now), i, k)
                  IN  attrs(i)[k] = IF U = {} THEN queues[i].attrs[k] ELSE Latest(U).patch[k]
             /\ attrs(i) \in Attributes
             /\ attrs(i)[FifoKey] <=> queues[i].fifo
             /\ \A k \in Keys : attrs(i)[k] \notin BadValues
  <2>1. queues[i].attrs \in Attributes
    BY <1>1 DEF Row
  <2> DEFINE a == attrs(i)
             U(k) == Touching(Due(now), i, k)
  <2>2. /\ a = [k \in Keys \cup {FifoKey} |-> a[k]]
        /\ \A k \in Keys \cup {FifoKey} :
             a[k] = IF U(k) = {} THEN queues[i].attrs[k] ELSE Latest(U(k)).patch[k]
    BY <2>1, AttributesOf DEF attrs
  <2>3. ASSUME NEW k \in Keys \cup {FifoKey}, U(k) # {}
        PROVE  /\ Latest(U(k)).patch \in Patches /\ k \in DOMAIN Latest(U(k)).patch
               /\ PatchOK(queues[i].name, Latest(U(k)).patch)
    <3>1. U(k) \subseteq pending
      BY DEF Touching, Due
    <3>2. Latest(U(k)) \in U(k)
      BY <2>3, <3>1, LatestExists
    <3>3. /\ Latest(U(k)) \in pending /\ Latest(U(k)).queue = i
          /\ k \in DOMAIN Latest(U(k)).patch
      BY <3>1, <3>2 DEF Touching
    <3> QED
      BY <3>3, PendingTyped
  <2> HIDE DEF a, U
  <2>4. a[FifoKey] \in BOOLEAN /\ (a[FifoKey] <=> queues[i].fifo)
    <3>1. CASE U(FifoKey) = {}
      BY <1>1, <2>1, <2>2, <3>1, AttributesOf DEF RowOK
    <3>2. CASE U(FifoKey) # {}
      <4>1. a[FifoKey] = Latest(U(FifoKey)).patch[FifoKey]
        BY <2>2, <3>2
      <4>2. Latest(U(FifoKey)).patch[FifoKey] \in BOOLEAN
        BY <2>3, <3>2, PatchValues
      <4>3. Latest(U(FifoKey)).patch[FifoKey] <=> queues[i].name \in FifoNames
        BY <2>3, <3>2 DEF PatchOK
      <4> QED
        BY <1>1, <4>1, <4>2, <4>3 DEF RowOK
    <3> QED
      BY <3>1, <3>2
  <2>5. \A k \in Keys : a[k] \in Values /\ a[k] \notin BadValues
    <3> SUFFICES ASSUME NEW k \in Keys PROVE a[k] \in Values /\ a[k] \notin BadValues
      OBVIOUS
    <3>1. CASE U(k) = {}
      BY <1>1, <2>1, <2>2, <3>1, AttributesOf DEF RowOK
    <3>2. CASE U(k) # {}
      BY <2>2, <2>3, <3>2, PatchValues DEF PatchOK
    <3> QED
      BY <3>1, <3>2
  <2>6. a \in Attributes
    BY <2>2, <2>4, <2>5, AreAttributes
  <2>7. \A k \in Keys \cup {FifoKey} :
          LET V == Touching(Due(now), i, k)
          IN  attrs(i)[k] = IF V = {} THEN queues[i].attrs[k] ELSE Latest(V).patch[k]
    BY <2>2 DEF a, U
  <2>8. attrs(i)[FifoKey] <=> queues[i].fifo
    BY <2>4 DEF a
  <2>9. attrs(i) \in Attributes /\ \A k \in Keys : attrs(i)[k] \notin BadValues
    BY <2>5, <2>6 DEF a
  <2> QED
    BY <2>7, <2>8, <2>9
<1>4. ASSUME NEW i \in DOMAIN queues
      PROVE  LET old == queues[i]
                 new == Patched(now)[i]
             IN  /\ new \in Row /\ RowOK(new) /\ new.attrs = attrs(i)
                 /\ new.name = old.name /\ new.fifo = old.fifo /\ new.present = old.present
                 /\ new.deletedAt = old.deletedAt
                 /\ new.reuseBlockedTill = old.reuseBlockedTill
                 /\ new.purgeExpiresAt = old.purgeExpiresAt
  <2> DEFINE new == Patched(now)[i]
  <2>1. new = [queues[i] EXCEPT !.attrs = attrs(i)]
    BY <1>2
  <2>2. queues[i] \in Row /\ RowOK(queues[i]) /\ attrs(i) \in Attributes
    BY <1>1, <1>3
  <2> HIDE DEF new
  <2>3. /\ new \in Row /\ new.attrs = attrs(i)
        /\ new.name = queues[i].name /\ new.fifo = queues[i].fifo
        /\ new.present = queues[i].present
        /\ new.deletedAt = queues[i].deletedAt
        /\ new.reuseBlockedTill = queues[i].reuseBlockedTill
        /\ new.purgeExpiresAt = queues[i].purgeExpiresAt
    BY <2>1, <2>2 DEF Row
  <2>4. RowOK(new)
    BY <1>3, <2>2, <2>3 DEF RowOK
  <2> QED
    BY <2>3, <2>4 DEF new
<1>5. Patched(now) = [i \in 1 .. Len(queues) |-> Patched(now)[i]]
  BY <1>1, <1>2
<1>6. Patched(now) \in [1 .. Len(queues) -> Row]
  BY <1>1, <1>4, <1>5
<1>7. Patched(now) \in Seq(Row)
  BY <1>1, <1>6, SeqDef
<1>8. DOMAIN Patched(now) = DOMAIN queues /\ Len(Patched(now)) = Len(queues)
  BY <1>1, <1>5, <1>7, LenProperties
<1> QED
  BY <1>3, <1>4, <1>7, <1>8

-----------------------------------------------------------------------------
(* The steps that read.                                                      *)

\* A step that changes nothing but the local variables of p.
LEMMA ReadStep ==
  ASSUME RegistryInv, NEW p \in Procs, NEW s \in Proc, LocalOK(s, queues),
         procs' = [procs EXCEPT ![p] = s],
         UNCHANGED <<clock, queues, pending, tags, patches, history>>
  PROVE  RegistryInv'
<1>1. clock' \in Nat /\ pending' \subseteq pending
  BY DEF RegistryInv, RegistryTypeOK
<1>2. RowsFade /\ TablesStay
  BY <1>1, RowsSame, TablesSame
<1>3. PendingOK' /\ pending' \subseteq Pending
  BY <1>1, <1>2, PendingShrinks
<1>4. GoesTo(p, s)
  BY EntersGoes
<1> QED
  BY <1>2, <1>3, <1>4, RegistryKept

LEMMA DeletePurgeReads ==
  ASSUME RegistryInv, NEW p \in Procs, NEW i \in DOMAIN queues,
         DeleteQueue(p, i) \/ PurgeQueue(p, i)
  PROVE  RegistryInv'
<1>1. UNCHANGED <<clock, queues, pending, tags, patches, history>> /\ Live(i)
  BY DEF DeleteQueue, PurgeQueue
<1>2. PICK op \in {"delete", "purge"} :
         procs' = [procs EXCEPT ![p] = [op |-> op, id |-> i, row |-> queues[i]]]
  BY DEF DeleteQueue, PurgeQueue, Enter
<1> DEFINE s == [op |-> op, id |-> i, row |-> queues[i]]
<1>3. queues[i] \in Row /\ RowOK(queues[i]) /\ i \in Nat
  BY RegistryTables
<1>4. s \in Rewriter
  BY <1>3 DEF Rewriter
<1>5. LocalOK(s, queues)
  BY <1>1, <1>3 DEF LocalOK, Live
<1>6. procs' = [procs EXCEPT ![p] = s]
  BY <1>2
<1> HIDE DEF s
<1> QED
  BY <1>1, <1>4, <1>5, <1>6, LocalStates, ReadStep

LEMMA PermissionReads ==
  ASSUME RegistryInv, NEW p \in Procs, NEW i \in DOMAIN queues, NEW label \in Labels,
         AddPermission(p, i, label) \/ RemovePermission(p, i, label)
  PROVE  RegistryInv'
<1>1. UNCHANGED <<clock, queues, pending, tags, patches, history>> /\ Live(i)
  BY DEF AddPermission, RemovePermission
<1>2. PICK op \in {"allow", "revoke"} :
         procs' = [procs EXCEPT ![p] =
                     [op |-> op, id |-> i, row |-> queues[i], label |-> label]]
  BY DEF AddPermission, RemovePermission, Enter
<1> DEFINE s == [op |-> op, id |-> i, row |-> queues[i], label |-> label]
<1>3. queues[i] \in Row /\ RowOK(queues[i]) /\ i \in Nat
  BY RegistryTables
<1>4. s \in Permitter
  BY <1>3 DEF Permitter
<1>5. LocalOK(s, queues)
  BY <1>1, <1>3 DEF LocalOK, Live
<1>6. procs' = [procs EXCEPT ![p] = s]
  BY <1>2
<1> HIDE DEF s
<1> QED
  BY <1>1, <1>4, <1>5, <1>6, LocalStates, ReadStep

\* The patch that is validated against the copy is fine for the name alone.
LEMMA SetReads ==
  ASSUME RegistryInv, NEW p \in Procs, NEW i \in DOMAIN queues, NEW patch \in Patches,
         SetQueueAttributes(p, i, patch)
  PROVE  RegistryInv'
<1> DEFINE s == [op |-> "set", id |-> i, row |-> queues[i], patch |-> patch]
<1>1. /\ UNCHANGED <<clock, queues, pending, tags, patches, history>> /\ Live(i)
      /\ procs' = [procs EXCEPT ![p] = s]
      /\ validateQueueAttributes(queues[i].name, Merged(queues[i].attrs, patch))
  BY DEF SetQueueAttributes, Enter
<1>2. queues[i] \in Row /\ RowOK(queues[i]) /\ i \in Nat
  BY RegistryTables
<1>3. queues[i].attrs \in Attributes
  BY <1>2 DEF Row
<1>4. PatchOK(queues[i].name, patch)
  BY <1>1, <1>3, PatchValidated
<1>5. s \in Setter
  BY <1>2 DEF Setter
<1>6. LocalOK(s, queues)
  BY <1>1, <1>2, <1>4 DEF LocalOK, Live
<1> HIDE DEF s
<1> QED
  BY <1>1, <1>5, <1>6, LocalStates, ReadStep

LEMMA TagReads ==
  ASSUME RegistryInv, NEW p \in Procs, NEW i \in DOMAIN queues, NEW T \in SUBSET TagKeys,
         TagQueue(p, i, T)
  PROVE  RegistryInv'
<1> DEFINE s == [op |-> "tag", id |-> i, tags |-> tags[i] \cup T]
<1>1. /\ UNCHANGED <<clock, queues, pending, tags, patches, history>>
      /\ procs' = [procs EXCEPT ![p] = s]
  BY DEF TagQueue, Enter
<1>2. tags[i] \in SUBSET TagKeys /\ i \in Nat
  BY RegistryTables
<1>3. s \in Tagger
  BY <1>2 DEF Tagger
<1>4. LocalOK(s, queues)
  BY DEF LocalOK, Writers
<1> HIDE DEF s
<1> QED
  BY <1>1, <1>3, <1>4, LocalStates, ReadStep

\* A handler that returns, cut off or not, having changed nothing else.
LEMMA AbortStep ==
  ASSUME RegistryInv, NEW p \in Procs, Abort(p)
  PROVE  RegistryInv'
  BY LocalStates, IdleOK, ReadStep DEF Abort, Done

LEMMA TickStep ==
  ASSUME RegistryInv, Tick
  PROVE  RegistryInv'
<1>1. clock' = clock + 1 /\ UNCHANGED <<queues, pending, tags, procs, patches, history>>
  BY DEF Tick
<1>2. RegistryTypeOK'
  BY <1>1 DEF RegistryInv, RegistryTypeOK, history
<1> QED
  BY <1>1, <1>2 DEF RegistryInv, TablesMatch, RowsValid, PendingOK, NamesUnique, LocalsOK, history

-----------------------------------------------------------------------------
(* The steps that apply due patches.                                         *)

LEMMA PatchesApplied ==
  ASSUME RegistryInv, NEW now, ApplyDueQueueMutations(now), patches' = patches
  PROVE  RowsFade /\ PendingOK' /\ pending' \subseteq Pending
<1>1. queues' = Patched(now) /\ pending' \subseteq pending
  BY DEF ApplyDueQueueMutations
<1>2. RowsFade
  BY <1>1, PatchedRows DEF RowsFade
<1> QED
  BY <1>1, <1>2, PendingShrinks

LEMMA RefreshStep ==
  ASSUME RegistryInv, NEW p \in Procs, Refresh(p)
  PROVE  RegistryInv'
<1>1. /\ ApplyDueQueueMutations(clock) /\ procs[p] = Idle
      /\ UNCHANGED <<clock, tags, procs, patches, history>>
  BY DEF Refresh
<1>2. clock' \in Nat /\ procs \in [Procs -> Proc]
  BY <1>1 DEF RegistryInv, RegistryTypeOK
<1>3. TablesStay /\ RowsFade /\ PendingOK' /\ pending' \subseteq Pending
  BY <1>1, <1>2, TablesSame, PatchesApplied
<1>4. GoesTo(p, Idle)
  BY <1>1, <1>2, LocalStates DEF GoesTo
<1> QED
  BY <1>3, <1>4, IdleOK, RegistryKept

LEMMA CreateStep ==
  ASSUME RegistryInv, NEW p \in Procs, NEW n \in Names, NEW given \in Creates,
         CreateQueue(p, n, given)
  PROVE  RegistryInv'
<1> DEFINE attrs == Merged(defaultQueueAttributes, given)
           local(op, i) == [op |-> op, id |-> i, name |-> n, attrs |-> attrs, now |-> clock]
<1>1. /\ ApplyDueQueueMutations(clock) /\ procs[p] = Idle
      /\ UNCHANGED <<clock, tags, patches, history>>
  BY DEF CreateQueue
<1>2. clock \in Nat /\ procs \in [Procs -> Proc] /\ clock' = clock
  BY <1>1 DEF RegistryInv, RegistryTypeOK
<1>3. TablesStay /\ RowsFade /\ PendingOK' /\ pending' \subseteq Pending
  BY <1>1, <1>2, TablesSame, PatchesApplied
<1>4. attrs \in Attributes
  BY DefaultsTyped, MergedTyped
<1>5. CASE UNCHANGED procs
  <2>1. GoesTo(p, Idle)
    BY <1>1, <1>2, <1>5, LocalStates DEF GoesTo
  <2> QED
    BY <1>3, <2>1, IdleOK, RegistryKept
<1>6. CASE ~UNCHANGED procs
  <2>1. PICK op \in {"clear", "insert"}, i \in DOMAIN queues \cup {0} :
           /\ procs' = [procs EXCEPT ![p] = local(op, i)]
           /\ op = "clear" => i \in DOMAIN queues
           /\ validateQueueAttributes(n, attrs)
    BY <1>6 DEF CreateQueue, QueueByName
  <2>2. i \in Nat
    BY <2>1, RegistryTables
  <2>3. local(op, i) \in Creator
    <3> HIDE DEF attrs
    <3> QED
      BY <1>2, <1>4, <2>2 DEF Creator
  <2>4. LocalOK(local(op, i), queues')
    <3>1. DOMAIN queues' = DOMAIN queues
      BY <1>3, RowsDomain
    <3> HIDE DEF attrs
    <3> QED
      BY <2>1, <3>1 DEF LocalOK, Writers
  <2> HIDE DEF local
  <2>5. GoesTo(p, local(op, i))
    BY <2>1, <2>3, LocalStates, EntersGoes
  <2> DEFINE s == local(op, i)
  <2>6. GoesTo(p, s) /\ LocalOK(s, queues')
    BY <2>4, <2>5
  <2> HIDE DEF s
  <2> QED
    BY <1>3, <2>6, RegistryKept
<1> QED
  BY <1>5, <1>6

LEMMA MaintainStep ==
  ASSUME RegistryInv, NEW p \in Procs, NEW i \in DOMAIN queues, maintain(p, i)
  PROVE  RegistryInv'
<1> DEFINE s == [op |-> "reap", id |-> i, row |-> Patched(clock)[i]]
<1>1. /\ ApplyDueQueueMutations(clock) /\ Live(i) /\ procs' = [procs EXCEPT ![p] = s]
      /\ UNCHANGED <<clock, tags, patches, history>>
  BY DEF maintain, Enter
<1>2. clock' \in Nat
  BY <1>1 DEF RegistryInv, RegistryTypeOK
<1>3. TablesStay /\ RowsFade /\ PendingOK' /\ pending' \subseteq Pending
  BY <1>1, <1>2, TablesSame, PatchesApplied
<1>4. /\ Patched(clock)[i] \in Row /\ RowOK(Patched(clock)[i])
      /\ Patched(clock)[i].name = queues[i].name /\ Patched(clock)[i].present /\ i \in Nat
  BY <1>1, PatchedRows, RegistryTables DEF Live
<1>5. queues'[i].name = queues[i].name /\ i \in DOMAIN queues'
  BY <1>3, RowsDomain DEF RowsFade
<1>6. s \in Rewriter
  BY <1>4 DEF Rewriter
<1>7. LocalOK(s, queues')
  BY <1>4, <1>5 DEF LocalOK
<1> HIDE DEF s
<1>8. GoesTo(p, s)
  BY <1>1, <1>6, LocalStates, EntersGoes
<1> QED
  BY <1>3, <1>7, <1>8, RegistryKept

-----------------------------------------------------------------------------
(* Whole seconds.                                                            *)

LEMMA UnixBounds ==
  ASSUME NEW t \in Nat
  PROVE  Unix(t) \in Nat /\ Unix(t) <= t /\ t < Unix(t) + Second
  BY RegistryAssumption DEF Unix

LEMMA Constants ==
  /\ CreatePropagation \in Nat /\ DeleteCooldown \in Nat /\ PurgeCooldown \in Nat
  /\ AttributePropagation \in Nat /\ RetentionPropagation \in Nat /\ Second \in Nat /\ Second > 0
  BY RegistryAssumption

-----------------------------------------------------------------------------
(* The steps that write rows.                                                *)

LEMMA WriterLocals ==
  ASSUME RegistryInv, NEW p \in Procs, procs[p].op \in Writers
  PROVE  /\ procs[p].id \in DOMAIN queues /\ procs[p].row \in Row
         /\ procs[p].row.name = queues[procs[p].id].name
         /\ procs[p].row.present /\ RowOK(procs[p].row)
         /\ procs[p] \in Proc /\ LocalOK(procs[p], queues)
<1>1. procs[p] \in Proc /\ LocalOK(procs[p], queues)
  BY DEF RegistryInv, RegistryTypeOK, LocalsOK
<1>2. procs[p] \in Rewriter \/ procs[p] \in Setter \/ procs[p] \in Permitter
  BY <1>1, Operations DEF Writers
<1>3. procs[p].row \in Row
  BY <1>2 DEF Rewriter, Setter, Permitter
<1> QED
  BY <1>1, <1>3 DEF LocalOK

LEMMA WriterStep ==
  ASSUME RegistryInv, NEW p \in Procs, procs[p].op \in Writers, NEW row \in Row,
         row.name = procs[p].row.name, RowOK(row), UpdateQueue(procs[p].id, row),
         TablesStay, UNCHANGED <<pending, patches>>, Done(p)
  PROVE  RegistryInv'
<1>1. procs[p].id \in DOMAIN queues /\ row.name = queues[procs[p].id].name
  BY WriterLocals
<1>2. RowsFade
  BY <1>1, RowUpdated
<1>3. PendingOK' /\ pending' \subseteq Pending
  BY <1>2, PendingShrinks
<1> QED
  BY <1>2, <1>3, DoneGoes, IdleOK, RegistryKept

\* The columns that are not part of the validation may change.
LEMMA ColumnsOK ==
  ASSUME NEW old \in Row, RowOK(old), NEW row,
         row.fifo = old.fifo, row.name = old.name, row.attrs = old.attrs
  PROVE  RowOK(row)
  BY DEF RowOK

LEMMA TombstoneStep ==
  ASSUME RegistryInv, NEW p \in Procs, WriteTombstone(p)
  PROVE  RegistryInv'
<1> DEFINE row == [procs[p].row EXCEPT !.deletedAt = Unix(clock),
                                       !.reuseBlockedTill = Unix(clock + DeleteCooldown)]
<1>1. /\ procs[p].op \in Writers /\ UpdateQueue(procs[p].id, row) /\ Done(p)
      /\ UNCHANGED <<clock, pending, tags, patches, wanted, purges>>
      /\ deletes' = [deletes EXCEPT ![procs[p].row.name] = clock]
  BY DEF WriteTombstone, Writers
<1>2. procs[p].row \in Row /\ RowOK(procs[p].row)
  BY <1>1, WriterLocals
<1>3. clock \in Nat /\ deletes \in [Names -> Nat]
  BY DEF RegistryInv, RegistryTypeOK
<1>4. Unix(clock) \in Nat /\ Unix(clock + DeleteCooldown) \in Nat
  BY <1>3, UnixBounds, Constants
<1>5. /\ row \in Row /\ row.fifo = procs[p].row.fifo /\ row.name = procs[p].row.name
      /\ row.attrs = procs[p].row.attrs
  BY <1>2, <1>4 DEF Row
<1>6. deletes' \in [Names -> Nat]
  BY <1>1, <1>3
<1>7. TablesStay
  BY <1>1, <1>3, <1>6 DEF TablesStay, RegistryInv, RegistryTypeOK
<1> HIDE DEF row
<1> QED
  BY <1>1, <1>2, <1>5, <1>7, ColumnsOK, WriterStep

LEMMA PurgeStep ==
  ASSUME RegistryInv, NEW p \in Procs, OpenPurgeWindow(p)
  PROVE  RegistryInv'
<1> DEFINE row == [procs[p].row EXCEPT !.purgeExpiresAt = Unix(clock + PurgeCooldown)]
           i == procs[p].id
<1>1. /\ procs[p].op \in Writers /\ Done(p)
      /\ UNCHANGED <<clock, pending, tags, patches, wanted, deletes>>
  BY DEF OpenPurgeWindow, Writers
<1>2. procs[p].row \in Row /\ RowOK(procs[p].row) /\ i \in DOMAIN queues
  BY <1>1, WriterLocals
<1>3. clock \in Nat /\ purges \in Seq(SUBSET Nat) /\ i \in DOMAIN purges
  BY <1>2, RegistryTables DEF RegistryTypeOK
<1>4. CASE UpdateQueue(i, row) /\ purges' = [purges EXCEPT ![i] = @ \cup {clock}]
  <2>1. Unix(clock + PurgeCooldown) \in Nat
    <3>1. clock + PurgeCooldown \in Nat
      BY <1>3, Constants
    <3> QED
      BY <3>1, UnixBounds
  <2>2. /\ row \in Row /\ row.fifo = procs[p].row.fifo /\ row.name = procs[p].row.name
        /\ row.attrs = procs[p].row.attrs
    BY <1>2, <2>1 DEF Row
  <2>3. purges' \in Seq(SUBSET Nat) /\ Len(purges') = Len(purges)
    <3> DEFINE new == purges[i] \cup {clock}
    <3>1. new \in SUBSET Nat
      BY <1>3
    <3>2. purges' = [purges EXCEPT ![i] = new]
      BY <1>4
    <3> HIDE DEF new
    <3> QED
      BY <1>3, <3>1, <3>2
  <2>4. TablesStay
    BY <1>1, <1>3, <2>3 DEF TablesStay, RegistryInv, RegistryTypeOK
  <2> HIDE DEF row
  <2> QED
    BY <1>1, <1>2, <1>4, <2>2, <2>4, ColumnsOK, WriterStep
<1>5. CASE UNCHANGED <<queues, purges>>
  <2>1. TablesStay /\ RowsFade
    BY <1>1, <1>3, <1>5, RowsSame DEF TablesStay, RegistryInv, RegistryTypeOK
  <2>2. PendingOK' /\ pending' \subseteq Pending
    BY <1>1, <2>1, PendingShrinks
  <2> QED
    BY <1>1, <2>1, <2>2, DoneGoes, IdleOK, RegistryKept
<1> QED
  BY <1>4, <1>5 DEF OpenPurgeWindow

LEMMA RewriteStep ==
  ASSUME RegistryInv, NEW p \in Procs, reapQueue(p) \/ WritePermission(p) \/ WriteRevocation(p)
  PROVE  RegistryInv'
<1> DEFINE reaped == [procs[p].row EXCEPT !.purgeExpiresAt = 0]
           allowed == [procs[p].row EXCEPT !.policy = @ \cup {procs[p].label}]
           revoked == [procs[p].row EXCEPT !.policy = @ \ {procs[p].label}]
<1>1. /\ procs[p].op \in Writers /\ Done(p)
      /\ UNCHANGED <<clock, pending, tags, patches, history>>
  BY DEF reapQueue, WritePermission, WriteRevocation, Writers
<1>2. procs[p].row \in Row /\ RowOK(procs[p].row) /\ procs[p] \in Proc
  BY <1>1, WriterLocals
<1>3. clock' \in Nat
  BY <1>1 DEF RegistryInv, RegistryTypeOK
<1>4. TablesStay
  BY <1>1, <1>3, TablesSame
<1>5. ASSUME NEW row \in Row, UpdateQueue(procs[p].id, row), row.fifo = procs[p].row.fifo,
             row.name = procs[p].row.name, row.attrs = procs[p].row.attrs
      PROVE  RegistryInv'
  BY <1>1, <1>2, <1>4, <1>5, ColumnsOK, WriterStep
<1>6. CASE reapQueue(p)
  <2>1. /\ reaped \in Row /\ reaped.fifo = procs[p].row.fifo /\ reaped.name = procs[p].row.name
        /\ reaped.attrs = procs[p].row.attrs
    BY <1>2 DEF Row
  <2>2. UpdateQueue(procs[p].id, reaped)
    BY <1>6 DEF reapQueue
  <2> HIDE DEF reaped
  <2> QED
    BY <1>5, <2>1, <2>2
<1>7. CASE WritePermission(p)
  <2>1. procs[p].label \in Labels
    BY <1>2, <1>7, Operations DEF WritePermission, Permitter
  <2>2. procs[p].row.policy \cup {procs[p].label} \in SUBSET Labels
    BY <1>2, <2>1 DEF Row
  <2>3. /\ allowed \in Row /\ allowed.fifo = procs[p].row.fifo /\ allowed.name = procs[p].row.name
        /\ allowed.attrs = procs[p].row.attrs
    BY <1>2, <2>2 DEF Row
  <2>4. UpdateQueue(procs[p].id, allowed)
    BY <1>7 DEF WritePermission
  <2> HIDE DEF allowed
  <2> QED
    BY <1>5, <2>3, <2>4
<1>8. CASE WriteRevocation(p)
  <2>1. procs[p].row.policy \ {procs[p].label} \in SUBSET Labels
    BY <1>2 DEF Row
  <2>2. /\ revoked \in Row /\ revoked.fifo = procs[p].row.fifo /\ revoked.name = procs[p].row.name
        /\ revoked.attrs = procs[p].row.attrs
    BY <1>2, <2>1 DEF Row
  <2>3. UpdateQueue(procs[p].id, revoked)
    BY <1>8 DEF WriteRevocation
  <2> HIDE DEF revoked
  <2> QED
    BY <1>5, <2>2, <2>3
<1> QED
  BY <1>6, <1>7, <1>8

LEMMA TouchStep ==
  ASSUME RegistryInv, NEW p \in Procs, TouchQueue(p)
  PROVE  RegistryInv'
<1> DEFINE s == [op |-> "save", id |-> procs[p].id, patch |-> procs[p].patch, now |-> clock]
           i == procs[p].id
<1>1. /\ procs[p].op \in Writers /\ procs[p].op = "set" /\ UpdateQueue(i, procs[p].row)
      /\ UNCHANGED <<clock, pending, tags, patches, history>>
  BY DEF TouchQueue, Writers
<1>2. /\ procs[p].row \in Row /\ RowOK(procs[p].row) /\ i \in DOMAIN queues
      /\ procs[p].row.name = queues[i].name
      /\ procs[p] \in Proc /\ LocalOK(procs[p], queues)
  BY <1>1, WriterLocals
<1>3. procs[p] \in Setter /\ PatchOK(queues[i].name, procs[p].patch)
  BY <1>1, <1>2, Operations DEF LocalOK
<1>4. RowsFade
  BY <1>1, <1>2, RowUpdated
<1>5. clock \in Nat /\ clock' \in Nat /\ procs \in [Procs -> Proc]
  BY <1>1 DEF RegistryInv, RegistryTypeOK
<1>6. TablesStay /\ PendingOK' /\ pending' \subseteq Pending
  BY <1>1, <1>4, <1>5, TablesSame, PendingShrinks
<1>7. procs' = [procs EXCEPT ![p] = s]
  BY <1>5 DEF TouchQueue
<1>8. s \in Saver
  BY <1>3, <1>5 DEF Saver, Setter
<1>9. LocalOK(s, queues')
  <2>1. i \in DOMAIN queues' /\ queues'[i].name = queues[i].name
    BY <1>2, <1>4, RowsDomain DEF RowsFade
  <2> QED
    BY <1>3, <2>1 DEF LocalOK, Writers
<1> HIDE DEF s
<1>10. GoesTo(p, s)
  BY <1>7, <1>8, LocalStates, EntersGoes
<1> QED
  BY <1>4, <1>6, <1>9, <1>10, RegistryKept

-----------------------------------------------------------------------------
(* Tags, patches and the two steps that end the creation of a queue.         *)

LEMMA TagsStep ==
  ASSUME RegistryInv, NEW p \in Procs, NEW i \in DOMAIN queues, NEW T \in SUBSET TagKeys,
         tags' = [tags EXCEPT ![i] = T], GoesTo(p, Idle),
         UNCHANGED <<clock, queues, pending, patches, history>>
  PROVE  RegistryInv'
<1>1. /\ tags \in Seq(SUBSET TagKeys) /\ i \in DOMAIN tags /\ clock' \in Nat
      /\ pending' \subseteq pending
  BY RegistryTables DEF RegistryTypeOK
<1>2. tags' \in Seq(SUBSET TagKeys) /\ Len(tags') = Len(tags)
  BY <1>1
<1>3. TablesStay
  BY <1>1, <1>2 DEF TablesStay, RegistryInv, RegistryTypeOK, history
<1>4. RowsFade
  BY RowsSame
<1>5. PendingOK' /\ pending' \subseteq Pending
  BY <1>1, <1>4, PendingShrinks
<1> QED
  BY <1>3, <1>4, <1>5, IdleOK, RegistryKept

LEMMA UntagStep ==
  ASSUME RegistryInv, NEW p \in Procs, NEW i \in DOMAIN queues, NEW T \in SUBSET TagKeys,
         UntagQueue(p, i, T)
  PROVE  RegistryInv'
<1> DEFINE left == tags[i] \ T
<1>1. /\ tags' = [tags EXCEPT ![i] = left] /\ procs[p] = Idle
      /\ UNCHANGED <<clock, queues, pending, procs, patches, history>>
  BY DEF UntagQueue
<1>2. left \in SUBSET TagKeys
  BY RegistryTables
<1>3. procs \in [Procs -> Proc]
  BY DEF RegistryInv, RegistryTypeOK
<1>4. GoesTo(p, Idle)
  BY <1>1, <1>3, LocalStates DEF GoesTo
<1> HIDE DEF left
<1> QED
  BY <1>1, <1>2, <1>4, TagsStep

LEMMA ReplaceTagsStep ==
  ASSUME RegistryInv, NEW p \in Procs, ReplaceTags(p)
  PROVE  RegistryInv'
<1> DEFINE i == procs[p].id
           new == IF queues[i].present THEN procs[p].tags ELSE tags[i]
<1>1. /\ tags' = [tags EXCEPT ![i] = new] /\ procs[p].op = "tag" /\ Done(p)
      /\ UNCHANGED <<clock, queues, pending, patches, history>>
  BY DEF ReplaceTags
<1>2. procs[p] \in Proc /\ i \in DOMAIN queues
  BY <1>1 DEF RegistryInv, RegistryTypeOK, LocalsOK, LocalOK
<1>3. procs[p].tags \in SUBSET TagKeys
  BY <1>1, <1>2, Operations DEF Tagger
<1>4. new \in SUBSET TagKeys
  BY <1>2, <1>3, RegistryTables
<1> HIDE DEF i, new
<1> QED
  BY <1>1, <1>2, <1>4, DoneGoes, TagsStep

\* A step that replaces one row by a valid one of the same name.
LEMMA RowReplaced ==
  ASSUME RegistryInv, NEW i \in DOMAIN queues, NEW row \in Row,
         queues' = [queues EXCEPT ![i] = row], row.name = queues[i].name, RowOK(row),
         row.present => queues[i].present
  PROVE  /\ RowsFade
         /\ queues'[i] = row /\ \A j \in DOMAIN queues : j # i => queues'[j] = queues[j]
<1>1. /\ queues \in Seq(Row) /\ DOMAIN queues = 1 .. Len(queues)
      /\ \A j \in DOMAIN queues : queues[j] \in Row /\ RowOK(queues[j])
  BY RegistryTables DEF RegistryTypeOK
<1>2. /\ queues' \in Seq(Row) /\ Len(queues') = Len(queues) /\ queues'[i] = row
      /\ \A j \in DOMAIN queues : j # i => queues'[j] = queues[j]
  BY <1>1
<1> QED
  BY <1>1, <1>2 DEF RowsFade

\* DeleteQueueRow only makes a row disappear.
LEMMA RowCleared ==
  ASSUME RegistryInv, NEW i \in DOMAIN queues, queues' = [queues EXCEPT ![i].present = FALSE]
  PROVE  /\ RowsFade
         /\ \A j \in DOMAIN queues : j # i => queues'[j] = queues[j]
         /\ ~queues'[i].present
<1> DEFINE new == [queues[i] EXCEPT !.present = FALSE]
<1>1. queues[i] \in Row /\ RowOK(queues[i])
  BY RegistryTables
<1>2. queues' = [queues EXCEPT ![i] = new]
  OBVIOUS
<1>3. /\ new \in Row /\ new.name = queues[i].name /\ new.fifo = queues[i].fifo
      /\ new.attrs = queues[i].attrs /\ new.present = FALSE
  BY <1>1 DEF Row
<1>4. RowOK(new)
  BY <1>1, <1>3, ColumnsOK
<1> HIDE DEF new
<1> QED
  BY <1>2, <1>3, <1>4, RowReplaced

LEMMA CreatorLocals ==
  ASSUME RegistryInv, NEW p \in Procs, procs[p].op \in {"clear", "insert"}
  PROVE  /\ procs[p].id \in Nat /\ procs[p].name \in Names /\ procs[p].attrs \in Attributes
         /\ procs[p].now \in Nat /\ procs[p] \in Creator
         /\ validateQueueAttributes(procs[p].name, procs[p].attrs)
         /\ procs[p].op = "clear" => procs[p].id \in DOMAIN queues
<1>1. procs[p] \in Proc /\ LocalOK(procs[p], queues)
  BY DEF RegistryInv, RegistryTypeOK, LocalsOK
<1>2. procs[p] \in Creator
  BY <1>1, Operations
<1> QED
  BY <1>1, <1>2 DEF Creator, LocalOK

LEMMA ClearStep ==
  ASSUME RegistryInv, NEW p \in Procs, DeleteQueueRow(p)
  PROVE  RegistryInv'
<1> DEFINE i == procs[p].id
           s == [procs[p] EXCEPT !.op = "insert"]
<1>1. /\ procs[p].op = "clear" /\ queues' = [queues EXCEPT ![i].present = FALSE]
      /\ pending' \subseteq pending /\ tags' = [tags EXCEPT ![i] = {}]
      /\ procs' = [procs EXCEPT ![p] = s]
      /\ UNCHANGED <<clock, patches, history>>
  BY DEF DeleteQueueRow
<1>2. /\ procs[p] \in Creator /\ i \in DOMAIN queues
      /\ validateQueueAttributes(procs[p].name, procs[p].attrs)
  BY <1>1, CreatorLocals
<1>3. RowsFade
  BY <1>1, <1>2, RowCleared
<1>4. PendingOK' /\ pending' \subseteq Pending
  BY <1>1, <1>3, PendingShrinks
<1>5. tags' \in Seq(SUBSET TagKeys) /\ Len(tags') = Len(tags)
  <2>1. tags \in Seq(SUBSET TagKeys) /\ i \in DOMAIN tags /\ {} \in SUBSET TagKeys
    BY <1>2, RegistryTables DEF RegistryTypeOK
  <2> QED
    BY <1>1, <2>1
<1>6. TablesStay
  BY <1>1, <1>5 DEF TablesStay, RegistryInv, RegistryTypeOK, history
<1>7. s \in Creator /\ s.op = "insert" /\ s.name = procs[p].name /\ s.attrs = procs[p].attrs
  BY <1>2 DEF Creator
<1> HIDE DEF s
<1>8. LocalOK(s, queues')
  BY <1>2, <1>7 DEF LocalOK, Writers
<1>9. GoesTo(p, s)
  BY <1>1, <1>7, LocalStates, EntersGoes
<1> QED
  BY <1>3, <1>4, <1>6, <1>8, <1>9, RegistryKept

LEMMA SaverLocals ==
  ASSUME RegistryInv, NEW p \in Procs, procs[p].op = "save"
  PROVE  /\ procs[p].id \in DOMAIN queues /\ procs[p].patch \in Patches /\ procs[p].now \in Nat
         /\ PatchOK(queues[procs[p].id].name, procs[p].patch)
<1>1. procs[p] \in Proc /\ LocalOK(procs[p], queues)
  BY DEF RegistryInv, RegistryTypeOK, LocalsOK
<1>2. procs[p] \in Saver
  BY <1>1, Operations
<1> QED
  BY <1>1, <1>2 DEF Saver, LocalOK

LEMMA SaveStep ==
  ASSUME RegistryInv, NEW p \in Procs, SavePendingAttributes(p)
  PROVE  RegistryInv'
<1> DEFINE i == procs[p].id
           patch == procs[p].patch
           u == [id |-> patches + 1, queue |-> i, patch |-> patch,
                 effectiveAt |-> Unix(procs[p].now + Propagation(patch))]
<1>1. procs[p].op = "save" /\ Done(p) /\ UNCHANGED <<clock, queues, tags, deletes, purges>>
  BY DEF SavePendingAttributes
<1>2. i \in DOMAIN queues /\ patch \in Patches /\ procs[p].now \in Nat
      /\ PatchOK(queues[i].name, patch) /\ i \in Nat
  BY <1>1, SaverLocals, RegistryTables
<1>3. RowsFade
  BY <1>1, RowsSame
<1>4. CASE ~queues[i].present /\ UNCHANGED <<pending, patches, wanted>>
  <2>1. clock' \in Nat /\ UNCHANGED <<tags, patches, history>> /\ pending' \subseteq pending
    BY <1>1, <1>4 DEF RegistryInv, RegistryTypeOK, history
  <2>2. TablesStay /\ PendingOK' /\ pending' \subseteq Pending
    BY <1>3, <1>4, <2>1, TablesSame, PendingShrinks
  <2> QED
    BY <1>1, <1>3, <2>2, DoneGoes, IdleOK, RegistryKept
<1>5. CASE /\ pending' = pending \cup {u} /\ patches' = patches + 1
           /\ wanted' = [wanted EXCEPT ![i] = Merged(@, patch)]
  <2>1. patches \in Nat /\ pending \subseteq Pending /\ PendingOK
    BY DEF RegistryInv, RegistryTypeOK
  <2>2. Unix(procs[p].now + Propagation(patch)) \in Nat
    BY <1>2, UnixBounds, Constants DEF Propagation
  <2>3. u \in Pending /\ u.id = patches + 1 /\ u.queue = i /\ u.patch = patch
    <3> HIDE DEF i, patch
    <3> QED
      BY <1>2, <2>1, <2>2 DEF Pending
  <2> HIDE DEF u
  <2>4. IsFiniteSet(pending')
    BY <1>5, <2>1, FS_AddElement DEF PendingOK
  <2>5. \A v \in pending : v.id \in Nat /\ v.id <= patches /\ v # u
    BY <2>1, <2>3 DEF PendingOK, Pending
  <2>6. PendingOK'
    BY <1>1, <1>2, <1>5, <2>1, <2>3, <2>4, <2>5 DEF PendingOK
  <2>7. wanted' \in Seq(Attributes) /\ Len(wanted') = Len(wanted)
    <3> DEFINE new == Merged(wanted[i], patch)
    <3>1. wanted \in Seq(Attributes) /\ i \in DOMAIN wanted /\ wanted[i] \in Attributes
      BY <1>2, RegistryTables DEF RegistryTypeOK
    <3>2. new \in Attributes
      BY <1>2, <3>1, MergedTyped
    <3>3. wanted' = [wanted EXCEPT ![i] = new]
      BY <1>5
    <3> HIDE DEF new
    <3> QED
      BY <3>1, <3>2, <3>3
  <2>8. TablesStay
    BY <1>1, <1>5, <2>1, <2>7 DEF TablesStay, RegistryInv, RegistryTypeOK
  <2>9. pending' \subseteq Pending
    BY <1>5, <2>1, <2>3
  <2> QED
    BY <1>1, <1>3, <2>6, <2>8, <2>9, DoneGoes, IdleOK, RegistryKept
<1> QED
  BY <1>4, <1>5 DEF SavePendingAttributes

\* The row of a validated name and attributes is valid.
LEMMA NewRowOK ==
  ASSUME NEW n \in Names, NEW attrs \in Attributes, NEW now \in Nat,
         validateQueueAttributes(n, attrs)
  PROVE  LET row == NewRow(n, attrs, now)
         IN  /\ row \in Row /\ RowOK(row) /\ row.name = n /\ row.attrs = attrs
             /\ row.present /\ row.deletedAt = 0 /\ row.purgeExpiresAt = 0
<1>1. Unix(now + CreatePropagation) \in Nat
  BY UnixBounds, Constants
<1>2. attrs[FifoKey] \in BOOLEAN
  BY AttributesOf
<1> DEFINE row == NewRow(n, attrs, now)
<1>3. /\ row \in Row /\ row.name = n /\ row.fifo = attrs[FifoKey] /\ row.attrs = attrs
      /\ row.present /\ row.deletedAt = 0 /\ row.purgeExpiresAt = 0
  BY <1>1, <1>2 DEF NewRow, Row
<1> HIDE DEF row
<1>4. RowOK(row)
  BY <1>3 DEF RowOK, validateQueueAttributes
<1> QED
  BY <1>3, <1>4 DEF row

LEMMA InsertStep ==
  ASSUME RegistryInv, NEW p \in Procs, InsertQueue(p)
  PROVE  RegistryInv'
<1> DEFINE n == procs[p].name
           row == NewRow(n, procs[p].attrs, procs[p].now)
<1>1. procs[p].op = "insert" /\ Done(p) /\ UNCHANGED <<clock, pending, patches, deletes>>
  BY DEF InsertQueue
<1>2. /\ row \in Row /\ RowOK(row) /\ row.name = n /\ row.attrs \in Attributes
  BY <1>1, CreatorLocals, NewRowOK
<1>3. CASE UNCHANGED <<queues, tags, wanted, purges>>
  <2>1. /\ UNCHANGED <<tags, patches, history>> /\ queues' = queues /\ pending' \subseteq pending
        /\ clock' \in Nat
    BY <1>1, <1>3 DEF history, RegistryInv, RegistryTypeOK
  <2>2. RowsFade /\ TablesStay
    BY <2>1, RowsSame, TablesSame
  <2>3. PendingOK' /\ pending' \subseteq Pending
    BY <1>1, <2>1, <2>2, PendingShrinks
  <2> QED
    BY <1>1, <2>2, <2>3, DoneGoes, IdleOK, RegistryKept
<1>4. CASE /\ QueueByName(n) = {} /\ queues' = Append(queues, row)
           /\ tags' = Append(tags, {}) /\ wanted' = Append(wanted, row.attrs)
           /\ purges' = Append(purges, {})
  <2> HIDE DEF row
  <2>1. /\ RegistryTypeOK /\ TablesMatch /\ DOMAIN queues = 1 .. Len(queues) /\ Len(queues) \in Nat
        /\ \A i \in DOMAIN queues : queues[i] \in Row /\ RowOK(queues[i])
    BY RegistryTables DEF RegistryInv
  <2>2. /\ queues' \in Seq(Row) /\ Len(queues') = Len(queues) + 1
        /\ DOMAIN queues' = 1 .. Len(queues) + 1 /\ queues'[Len(queues) + 1] = row
        /\ \A i \in DOMAIN queues : queues'[i] = queues[i]
    BY <1>2, <1>4, <2>1 DEF RegistryTypeOK
  <2>3. tags' \in Seq(SUBSET TagKeys) /\ Len(tags') = Len(tags) + 1
    BY <1>4, <2>1 DEF RegistryTypeOK
  <2>4. wanted' \in Seq(Attributes) /\ Len(wanted') = Len(wanted) + 1
    BY <1>2, <1>4, <2>1 DEF RegistryTypeOK
  <2>5. purges' \in Seq(SUBSET Nat) /\ Len(purges') = Len(purges) + 1
    BY <1>4, <2>1 DEF RegistryTypeOK
  <2>6. GoesTo(p, Idle)
    BY <1>1, DoneGoes
  <2>7. ASSUME NEW q \in Procs PROVE procs'[q] \in Proc /\ LocalOK(procs'[q], queues')
    <3>1. CASE q = p
      BY <2>6, <3>1, IdleOK DEF GoesTo
    <3>2. CASE q # p
      <4>1. procs'[q] = procs[q] /\ procs[q] \in Proc /\ LocalOK(procs[q], queues)
        BY <2>6, <3>2 DEF GoesTo, RegistryInv, RegistryTypeOK, LocalsOK
      <4>2. DOMAIN queues \subseteq DOMAIN queues'
        BY <2>1, <2>2
      <4> QED
        BY <2>2, <4>1, <4>2, LocalKept
    <3> QED
      BY <3>1, <3>2
  <2>8. procs' \in [Procs -> Proc]
    BY <2>6, <2>7 DEF GoesTo
  <2>9. RegistryTypeOK'
    BY <1>1, <2>1, <2>2, <2>3, <2>4, <2>5, <2>8 DEF RegistryTypeOK
  <2>10. TablesMatch'
    BY <2>1, <2>2, <2>3, <2>4, <2>5 DEF TablesMatch
  <2>11. \A i \in DOMAIN queues' : i \in DOMAIN queues \/ i = Len(queues) + 1
    BY <2>1, <2>2
  <2>12. RowsValid'
    BY <1>2, <2>1, <2>2, <2>11 DEF RowsValid, RowOK
  <2>13. PendingOK'
    <3>1. \A u \in pending : u.queue \in DOMAIN queues' /\ queues'[u.queue] = queues[u.queue]
      BY <2>1, <2>2, PendingTyped
    <3> QED
      BY <1>1, <3>1 DEF RegistryInv, PendingOK
  <2>14. NamesUnique'
    <3>1. \A i \in DOMAIN queues : ~(queues[i].present /\ queues[i].name = n)
      BY <1>4 DEF QueueByName
    <3> SUFFICES ASSUME NEW i \in DOMAIN queues', NEW j \in DOMAIN queues',
                        queues'[i].present, queues'[j].present, queues'[i].name = queues'[j].name
                 PROVE  i = j
      BY DEF NamesUnique
    <3>2. CASE i \in DOMAIN queues /\ j \in DOMAIN queues
      BY <2>2, <3>2 DEF RegistryInv, NamesUnique
    <3>3. CASE i = Len(queues) + 1 /\ j = Len(queues) + 1
      BY <3>3
    <3>4. CASE i \in DOMAIN queues /\ j = Len(queues) + 1
      BY <1>2, <2>2, <3>1, <3>4
    <3>5. CASE i = Len(queues) + 1 /\ j \in DOMAIN queues
      BY <1>2, <2>2, <3>1, <3>5
    <3> QED
      BY <2>11, <3>2, <3>3, <3>4, <3>5
  <2> QED
    BY <2>7, <2>9, <2>10, <2>12, <2>13, <2>14 DEF RegistryInv, LocalsOK
<1> QED
  BY <1>3, <1>4 DEF InsertQueue

-----------------------------------------------------------------------------
(* Every step, and the theorems for every set of handlers.                   *)

LEMMA StartStep ==
  ASSUME RegistryInv, NEW p \in Procs, Start(p)
  PROVE  RegistryInv'
<1>1. CASE Refresh(p)
  BY <1>1, RefreshStep
<1>2. CASE \E n \in Names, given \in Creates : CreateQueue(p, n, given)
  BY <1>2, CreateStep
<1>3. ASSUME NEW i \in DOMAIN queues, DeleteQueue(p, i) \/ PurgeQueue(p, i) PROVE RegistryInv'
  BY <1>3, DeletePurgeReads
<1>4. ASSUME NEW i \in DOMAIN queues, maintain(p, i) PROVE RegistryInv'
  BY <1>4, MaintainStep
<1>5. ASSUME NEW i \in DOMAIN queues, NEW patch \in Patches, SetQueueAttributes(p, i, patch)
      PROVE  RegistryInv'
  BY <1>5, SetReads
<1>6. ASSUME NEW i \in DOMAIN queues, NEW label \in Labels,
             AddPermission(p, i, label) \/ RemovePermission(p, i, label)
      PROVE  RegistryInv'
  BY <1>6, PermissionReads
<1>7. ASSUME NEW i \in DOMAIN queues, NEW T \in SUBSET TagKeys,
             TagQueue(p, i, T) \/ UntagQueue(p, i, T)
      PROVE  RegistryInv'
  BY <1>7, TagReads, UntagStep
<1> QED
  BY <1>1, <1>2, <1>3, <1>4, <1>5, <1>6, <1>7 DEF Start

LEMMA ProceedStep ==
  ASSUME RegistryInv, NEW p \in Procs, Proceed(p)
  PROVE  RegistryInv'
  BY ClearStep, InsertStep, TombstoneStep, PurgeStep, RewriteStep, TouchStep, SaveStep,
     ReplaceTagsStep DEF Proceed

LEMMA RegistryStep == RegistryInv /\ [RNext]_rvars => RegistryInv'
<1> SUFFICES ASSUME RegistryInv, [RNext]_rvars PROVE RegistryInv'
  OBVIOUS
<1>1. CASE Tick
  BY <1>1, TickStep
<1>2. ASSUME NEW p \in Procs, Start(p) \/ Proceed(p) \/ Abort(p) PROVE RegistryInv'
  BY <1>2, StartStep, ProceedStep, AbortStep
<1>3. CASE UNCHANGED rvars
  BY <1>3 DEF RegistryInv, RegistryTypeOK, TablesMatch, RowsValid, PendingOK, NamesUnique,
     LocalsOK, rvars
<1> QED
  BY <1>1, <1>2, <1>3 DEF RNext

LEMMA RegistryInit == RInit => RegistryInv
<1> SUFFICES ASSUME RInit PROVE RegistryInv
  OBVIOUS
<1>1. RegistryTypeOK
  BY RegistryAssumption, LocalStates DEF RInit, RegistryTypeOK
<1>2. DOMAIN queues = {} /\ pending = {} /\ IsFiniteSet(pending)
  BY FS_EmptySet DEF RInit
<1>3. TablesMatch /\ RowsValid /\ PendingOK /\ NamesUnique
  BY <1>2 DEF RInit, TablesMatch, RowsValid, PendingOK, NamesUnique
<1>4. LocalsOK
  BY IdleOK DEF RInit, LocalsOK
<1> QED
  BY <1>1, <1>3, <1>4 DEF RegistryInv

LEMMA RegistryAlways == RSpec => []RegistryInv
  BY RegistryInit, RegistryStep, PTL DEF RSpec

\* The tables and what handlers remember of them keep their types, however
\* handlers interleave and wherever they are cut off.  (sqs.go, store.go)
THEOREM RegistryTyped == RSpec => []RegistryTypeOK
<1>1. RegistryInv => RegistryTypeOK
  BY DEF RegistryInv
<1> QED
  BY <1>1, RegistryAlways, PTL

\* Every stored row stays one that CreateQueue would accept under its name,
\* although handlers write whole rows back from old copies and patches are
\* validated against a copy read long before they take effect.
\* (validateQueueAttributes, UpdateQueue, ApplyDueQueueMutations)
THEOREM RowsStayValid == RSpec => []RowsValid
<1>1. RegistryInv => RowsValid
  BY DEF RegistryInv
<1> QED
  BY <1>1, RegistryAlways, PTL

-----------------------------------------------------------------------------
(* One handler at a time: the copy of a handler is the row.  Nobody changes  *)
(* what it read until it is done; it may be cut off anywhere, and time may   *)
(* pass between any two of its steps.                                        *)

OneAtATime == \A p, q \in Procs : p = q

LocalCurrent(s, qs, pd, c) ==
  /\ s.op \in Writers => s.row = qs[s.id] /\ s.row.deletedAt = 0
  /\ s.op = "reap" => s.row.purgeExpiresAt <= c
  /\ s.op = "clear" => /\ qs[s.id].present /\ qs[s.id].deletedAt # 0
                       /\ qs[s.id].name = s.name /\ qs[s.id].reuseBlockedTill <= c
  /\ s.op = "save" => /\ s.now <= c
                      /\ \A u \in pd : u.effectiveAt <= Unix(s.now + Propagation(u.patch))

LocalsCurrent == \A p \in Procs : LocalCurrent(procs[p], queues, pending, clock)

\* No patch waits longer than its delay.
Delayed == \A u \in pending : u.effectiveAt <= Unix(clock + Propagation(u.patch))

CurrentInv == RegistryInv /\ LocalsCurrent /\ Delayed /\ clock >= Second

LEMMA UnixMonotone ==
  ASSUME NEW s \in Nat, NEW t \in Nat, s <= t
  PROVE  Unix(s) <= Unix(t)
<1> DEFINE qs == s \div Second
           qt == t \div Second
<1>1. s % Second \in 0 .. Second - 1 /\ t % Second \in 0 .. Second - 1
  BY RegistryAssumption
<1>2. /\ s = Second * qs + (s % Second) /\ t = Second * qt + (t % Second)
      /\ qs \in Nat /\ qt \in Nat
  BY RegistryAssumption
<1> HIDE DEF qs, qt
<1>3. Unix(s) = Second * qs /\ Unix(t) = Second * qt
  BY <1>1, <1>2, RegistryAssumption DEF Unix
<1>4. qs <= qt
  <2> SUFFICES ASSUME qt + 1 <= qs PROVE FALSE
    BY <1>2
  <2>1. Second * (qt + 1) <= Second * qs
    BY <1>2, RegistryAssumption
  <2>2. Second * (qt + 1) = Second * qt + Second
    BY <1>2, RegistryAssumption
  <2> QED
    BY <1>1, <1>2, <2>1, <2>2, RegistryAssumption
<1> QED
  BY <1>2, <1>3, <1>4, RegistryAssumption

LEMMA UnixPositive ==
  ASSUME NEW t \in Nat, t >= Second
  PROVE  Unix(t) # 0
<1>1. Unix(Second) = Second
  BY RegistryAssumption DEF Unix
<1>2. Unix(Second) <= Unix(t)
  BY UnixMonotone, Constants
<1> QED
  BY <1>1, <1>2, Constants, UnixBounds

LEMMA PropagationTyped ==
  ASSUME NEW patch
  PROVE  Propagation(patch) \in Nat
  BY Constants DEF Propagation

LEMMA IdleCurrent == \A qs, pd, c : LocalCurrent(Idle, qs, pd, c)
  BY DEF LocalCurrent, Idle, Writers

\* What the only handler knows is what the handlers know.
LEMMA OnlyHandler ==
  ASSUME OneAtATime, NEW p \in Procs, LocalCurrent(procs'[p], queues', pending', clock')
  PROVE  LocalsCurrent'
  BY DEF OneAtATime, LocalsCurrent

LEMMA DelaysKept ==
  ASSUME RegistryInv, Delayed, pending' \subseteq pending, clock' \in Nat, clock' >= clock
  PROVE  Delayed'
<1>1. clock \in Nat
  BY DEF RegistryInv, RegistryTypeOK
<1> SUFFICES ASSUME NEW u \in pending' PROVE u.effectiveAt <= Unix(clock' + Propagation(u.patch))
  BY DEF Delayed
<1>2. u \in pending /\ u.effectiveAt \in Nat /\ Propagation(u.patch) \in Nat
  BY PendingTyped, PropagationTyped
<1>3. clock + Propagation(u.patch) \in Nat /\ clock' + Propagation(u.patch) \in Nat
      /\ clock + Propagation(u.patch) <= clock' + Propagation(u.patch)
  BY <1>1, <1>2
<1>4. Unix(clock + Propagation(u.patch)) <= Unix(clock' + Propagation(u.patch))
  BY <1>3, UnixMonotone
<1> QED
  BY <1>2, <1>3, <1>4, UnixBounds DEF Delayed

LEMMA TickCurrent ==
  ASSUME CurrentInv, Tick
  PROVE  CurrentInv'
<1>1. /\ RegistryInv' /\ clock \in Nat /\ clock' = clock + 1 /\ pending' = pending
      /\ queues' = queues /\ procs' = procs
  BY TickStep DEF CurrentInv, Tick, RegistryInv, RegistryTypeOK
<1>2. Delayed'
  BY <1>1, DelaysKept DEF CurrentInv
<1>3. ASSUME NEW p \in Procs PROVE LocalCurrent(procs[p], queues, pending, clock + 1)
  <2>1. LocalCurrent(procs[p], queues, pending, clock) /\ procs[p] \in Proc
    BY DEF CurrentInv, LocalsCurrent, RegistryInv, RegistryTypeOK
  <2>2. procs[p].op = "reap" => procs[p].row.purgeExpiresAt <= clock + 1
    <3> SUFFICES ASSUME procs[p].op = "reap" PROVE procs[p].row.purgeExpiresAt <= clock + 1
      OBVIOUS
    <3>1. procs[p].row \in Row
      BY <2>1, Operations DEF Rewriter
    <3>2. procs[p].row.purgeExpiresAt \in Nat
      BY <3>1 DEF Row
    <3> QED
      BY <1>1, <2>1, <3>2 DEF LocalCurrent
  <2>3. procs[p].op = "clear" => queues[procs[p].id].reuseBlockedTill <= clock + 1
    <3> SUFFICES ASSUME procs[p].op = "clear" PROVE queues[procs[p].id].reuseBlockedTill <= clock + 1
      OBVIOUS
    <3>1. queues[procs[p].id] \in Row
      BY CreatorLocals, RegistryTables DEF CurrentInv
    <3>2. queues[procs[p].id].reuseBlockedTill \in Nat
      BY <3>1 DEF Row
    <3> QED
      BY <1>1, <2>1, <3>2 DEF LocalCurrent
  <2>4. procs[p].op = "save" => procs[p].now <= clock + 1
    <3> SUFFICES ASSUME procs[p].op = "save" PROVE procs[p].now <= clock + 1
      OBVIOUS
    <3>1. procs[p].now \in Nat
      BY SaverLocals DEF CurrentInv
    <3> QED
      BY <1>1, <2>1, <3>1 DEF LocalCurrent
  <2> QED
    BY <2>1, <2>2, <2>3, <2>4 DEF LocalCurrent
<1>4. LocalsCurrent'
  BY <1>1, <1>3 DEF LocalsCurrent
<1> QED
  BY <1>1, <1>2, <1>4, Constants DEF CurrentInv

LEMMA CurrentKept ==
  ASSUME OneAtATime, CurrentInv, RegistryInv', pending' \subseteq pending, clock' = clock,
         NEW p \in Procs, LocalCurrent(procs'[p], queues', pending', clock')
  PROVE  CurrentInv'
<1>1. clock' \in Nat /\ clock' >= clock /\ clock' >= Second
  BY Constants DEF CurrentInv, RegistryInv, RegistryTypeOK
<1>2. Delayed'
  BY <1>1, DelaysKept DEF CurrentInv
<1> QED
  BY <1>1, <1>2, OnlyHandler DEF CurrentInv

\* A handler that is done, or has not started, knows nothing.
LEMMA DoneCurrent ==
  ASSUME OneAtATime, CurrentInv, RegistryInv', pending' \subseteq pending, clock' = clock,
         NEW p \in Procs, procs'[p] = Idle
  PROVE  CurrentInv'
  BY IdleCurrent, CurrentKept

LEMMA DoneIdle ==
  ASSUME RegistryInv, NEW p \in Procs, Done(p)
  PROVE  procs'[p] = Idle
  BY DoneGoes DEF GoesTo

\* The steps that read a row, and those that write one from a current copy.
LEMMA ReadCurrent ==
  ASSUME OneAtATime, CurrentInv, RegistryInv', NEW p \in Procs, NEW i \in DOMAIN queues,
         \/ DeleteQueue(p, i) \/ PurgeQueue(p, i)
         \/ \E patch \in Patches : SetQueueAttributes(p, i, patch)
         \/ \E label \in Labels : AddPermission(p, i, label) \/ RemovePermission(p, i, label)
  PROVE  CurrentInv'
<1>1. procs \in [Procs -> Proc]
  BY DEF CurrentInv, RegistryInv, RegistryTypeOK
<1>2. /\ UNCHANGED <<clock, queues, pending, tags, patches, history>> /\ Live(i)
      /\ procs'[p].row = queues[i] /\ procs'[p].id = i
      /\ procs'[p].op \notin {"reap", "clear", "save"}
  BY <1>1 DEF DeleteQueue, PurgeQueue, SetQueueAttributes, AddPermission, RemovePermission, Enter
<1>3. LocalCurrent(procs'[p], queues', pending', clock')
  BY <1>2 DEF LocalCurrent, Live
<1> QED
  BY <1>2, <1>3, CurrentKept

LEMMA TagCurrent ==
  ASSUME OneAtATime, CurrentInv, RegistryInv', NEW p \in Procs, NEW i \in DOMAIN queues,
         NEW T, TagQueue(p, i, T) \/ UntagQueue(p, i, T)
  PROVE  CurrentInv'
<1>1. procs \in [Procs -> Proc]
  BY DEF CurrentInv, RegistryInv, RegistryTypeOK
<1>2. UNCHANGED <<clock, pending>> /\ (procs'[p] = Idle \/ procs'[p].op = "tag")
  BY <1>1 DEF TagQueue, UntagQueue, Enter
<1>3. LocalCurrent(procs'[p], queues', pending', clock')
  BY <1>2, IdleCurrent DEF LocalCurrent, Writers
<1> QED
  BY <1>2, <1>3, CurrentKept

LEMMA RefreshCurrent ==
  ASSUME OneAtATime, CurrentInv, RegistryInv', NEW p \in Procs, Refresh(p)
  PROVE  CurrentInv'
  BY DoneCurrent DEF Refresh, ApplyDueQueueMutations

LEMMA MaintainCurrent ==
  ASSUME OneAtATime, CurrentInv, RegistryInv', NEW p \in Procs, NEW i \in DOMAIN queues,
         maintain(p, i)
  PROVE  CurrentInv'
<1> DEFINE s == [op |-> "reap", id |-> i, row |-> Patched(clock)[i]]
<1>1. procs \in [Procs -> Proc] /\ RegistryInv
  BY DEF CurrentInv, RegistryInv, RegistryTypeOK
<1>2. /\ procs'[p] = s /\ queues' = Patched(clock) /\ pending' \subseteq pending
      /\ clock' = clock /\ Live(i) /\ queues[i].purgeExpiresAt <= clock
  BY <1>1 DEF maintain, Enter, ApplyDueQueueMutations
<1>3. /\ Patched(clock)[i].deletedAt = 0
      /\ Patched(clock)[i].purgeExpiresAt <= clock
  BY <1>1, <1>2, PatchedRows DEF Live
<1>4. LocalCurrent(procs'[p], queues', pending', clock')
  BY <1>2, <1>3 DEF LocalCurrent
<1> HIDE DEF s
<1> QED
  BY <1>2, <1>4, CurrentKept

LEMMA CreateCurrent ==
  ASSUME OneAtATime, CurrentInv, RegistryInv', NEW p \in Procs, NEW n \in Names,
         NEW given \in Creates, CreateQueue(p, n, given)
  PROVE  CurrentInv'
<1>1. procs \in [Procs -> Proc] /\ RegistryInv /\ clock \in Nat
  BY DEF CurrentInv, RegistryInv, RegistryTypeOK
<1>2. /\ queues' = Patched(clock) /\ pending' \subseteq pending /\ clock' = clock
      /\ procs[p] = Idle
  BY DEF CreateQueue, ApplyDueQueueMutations
<1>3. CASE procs' = procs
  BY <1>2, <1>3, DoneCurrent
<1>4. CASE procs' # procs
  <2> DEFINE attrs == Merged(defaultQueueAttributes, given)
  <2>1. PICK op \in {"clear", "insert"}, i \in DOMAIN queues \cup {0} :
          /\ procs' = [procs EXCEPT ![p] = [op |-> op, id |-> i, name |-> n,
                                           attrs |-> attrs, now |-> clock]]
          /\ op = "clear" => /\ i \in QueueByName(n) /\ queues[i].deletedAt # 0
                             /\ ~ReuseBlocked(queues[i], clock)
    BY <1>4 DEF CreateQueue, QueueByName
  <2>2. procs'[p].op = op /\ procs'[p].id = i /\ procs'[p].name = n
    <3> HIDE DEF attrs
    <3> QED
      BY <1>1, <2>1
  <2>3. ASSUME op = "clear"
        PROVE  /\ queues'[i].present /\ queues'[i].deletedAt # 0
               /\ queues'[i].name = n /\ queues'[i].reuseBlockedTill <= clock
    <3>1. /\ i \in DOMAIN queues /\ queues[i].present /\ queues[i].name = n
          /\ queues[i].deletedAt # 0 /\ ~ReuseBlocked(queues[i], clock)
      BY <2>1, <2>3 DEF QueueByName
    <3>2. queues[i] \in Row
      BY <1>1, <3>1, RegistryTables
    <3>3. queues[i].reuseBlockedTill \in Nat
      BY <3>2 DEF Row
    <3>4. queues[i].reuseBlockedTill <= clock
      BY <1>1, <3>1, <3>3 DEF ReuseBlocked
    <3> QED
      BY <1>1, <1>2, <3>1, <3>4, PatchedRows
  <2>4. LocalCurrent(procs'[p], queues', pending', clock')
    BY <1>2, <2>2, <2>3 DEF LocalCurrent, Writers
  <2> QED
    BY <1>2, <2>4, CurrentKept
<1> QED
  BY <1>3, <1>4

LEMMA TouchCurrent ==
  ASSUME OneAtATime, CurrentInv, RegistryInv', NEW p \in Procs, TouchQueue(p)
  PROVE  CurrentInv'
<1>1. procs \in [Procs -> Proc] /\ clock \in Nat
  BY DEF CurrentInv, RegistryInv, RegistryTypeOK
<1>2. /\ procs'[p].op = "save" /\ procs'[p].now = clock
      /\ UNCHANGED <<clock, pending>>
  BY <1>1 DEF TouchQueue
<1>3. LocalCurrent(procs'[p], queues', pending', clock')
  BY <1>1, <1>2 DEF LocalCurrent, Writers, CurrentInv, Delayed
<1> QED
  BY <1>2, <1>3, CurrentKept

LEMMA ClearCurrent ==
  ASSUME OneAtATime, CurrentInv, RegistryInv', NEW p \in Procs, DeleteQueueRow(p)
  PROVE  CurrentInv'
<1>1. procs \in [Procs -> Proc] /\ RegistryInv
  BY DEF CurrentInv, RegistryInv, RegistryTypeOK
<1>2. /\ procs'[p] = [procs[p] EXCEPT !.op = "insert"] /\ procs[p].op = "clear"
      /\ clock' = clock /\ pending' \subseteq pending
  BY <1>1 DEF DeleteQueueRow
<1>3. procs'[p].op = "insert"
  BY <1>1, <1>2, CreatorLocals DEF Creator
<1>4. LocalCurrent(procs'[p], queues', pending', clock')
  BY <1>3 DEF LocalCurrent, Writers
<1> QED
  BY <1>2, <1>4, CurrentKept

LEMMA WrittenCurrent ==
  ASSUME OneAtATime, CurrentInv, RegistryInv', NEW p \in Procs,
         \/ InsertQueue(p) \/ WriteTombstone(p) \/ OpenPurgeWindow(p) \/ reapQueue(p)
         \/ WritePermission(p) \/ WriteRevocation(p) \/ ReplaceTags(p) \/ Abort(p)
  PROVE  CurrentInv'
<1>1. Done(p) /\ UNCHANGED <<clock, pending>>
  BY DEF InsertQueue, WriteTombstone, OpenPurgeWindow, reapQueue, WritePermission,
     WriteRevocation, ReplaceTags, Abort
<1> QED
  BY <1>1, DoneIdle, DoneCurrent DEF CurrentInv

\* A saved patch waits for its delay from the time the handler read.
LEMMA SaveCurrent ==
  ASSUME OneAtATime, CurrentInv, RegistryInv', NEW p \in Procs, SavePendingAttributes(p)
  PROVE  CurrentInv'
<1>1. RegistryInv /\ clock \in Nat
  BY DEF CurrentInv, RegistryInv, RegistryTypeOK
<1>2. procs[p].op = "save" /\ Done(p) /\ clock' = clock
  BY DEF SavePendingAttributes
<1>3. procs'[p] = Idle
  BY <1>1, <1>2, DoneIdle
<1>4. CASE pending' = pending
  BY <1>2, <1>3, <1>4, DoneCurrent
<1>5. CASE pending' = pending \cup
             {[id |-> patches + 1, queue |-> procs[p].id, patch |-> procs[p].patch,
               effectiveAt |-> Unix(procs[p].now + Propagation(procs[p].patch))]}
  <2>1. procs[p].now \in Nat /\ procs[p].now <= clock
    BY <1>1, <1>2, SaverLocals DEF CurrentInv, LocalsCurrent, LocalCurrent
  <2>2. Propagation(procs[p].patch) \in Nat
    BY PropagationTyped
  <2> DEFINE d == Propagation(procs[p].patch)
             now == procs[p].now
  <2>3. now + d \in Nat /\ clock + d \in Nat /\ now + d <= clock + d
    BY <1>1, <2>1, <2>2
  <2> HIDE DEF d, now
  <2>4. Unix(now + d) <= Unix(clock + d)
    BY <2>3, UnixMonotone
  <2>5. Delayed'
    BY <1>2, <1>5, <2>4 DEF Delayed, CurrentInv, now, d
  <2>6. LocalsCurrent'
    BY <1>3, IdleCurrent, OnlyHandler
  <2> QED
    BY <1>2, <2>5, <2>6 DEF CurrentInv
<1> QED
  BY <1>4, <1>5 DEF SavePendingAttributes

LEMMA CurrentStep == OneAtATime /\ CurrentInv /\ [RNext]_rvars => CurrentInv'
<1> SUFFICES ASSUME OneAtATime, CurrentInv, [RNext]_rvars PROVE CurrentInv'
  OBVIOUS
<1>1. RegistryInv'
  BY RegistryStep DEF CurrentInv
<1>2. CASE Tick
  BY <1>2, TickCurrent
<1>3. ASSUME NEW p \in Procs, Start(p) PROVE CurrentInv'
  BY <1>1, <1>3, RefreshCurrent, CreateCurrent, ReadCurrent, MaintainCurrent, TagCurrent
     DEF Start
<1>4. ASSUME NEW p \in Procs, Proceed(p) \/ Abort(p) PROVE CurrentInv'
  BY <1>1, <1>4, ClearCurrent, WrittenCurrent, TouchCurrent, SaveCurrent DEF Proceed
<1>5. CASE UNCHANGED rvars
  BY <1>1, <1>5 DEF CurrentInv, LocalsCurrent, Delayed, rvars
<1> QED
  BY <1>2, <1>3, <1>4, <1>5 DEF RNext

LEMMA CurrentInit == RInit => CurrentInv
<1> SUFFICES ASSUME RInit PROVE CurrentInv
  OBVIOUS
<1>1. RegistryInv
  BY RegistryInit
<1>2. LocalsCurrent
  BY IdleCurrent DEF RInit, LocalsCurrent
<1> QED
  BY <1>1, <1>2, Constants DEF RInit, CurrentInv, Delayed

\* The copy of the handler is the row, which is live.
LEMMA CurrentCopy ==
  ASSUME CurrentInv, NEW p \in Procs, procs[p].op \in Writers
  PROVE  LET i == procs[p].id
         IN  /\ i \in DOMAIN queues /\ procs[p].row = queues[i] /\ queues[i] \in Row
             /\ queues[i].present /\ queues[i].deletedAt = 0 /\ RowOK(queues[i])
             /\ procs[p].op = "reap" => queues[i].purgeExpiresAt <= clock
<1>1. RegistryInv
  BY DEF CurrentInv
<1>2. LocalCurrent(procs[p], queues, pending, clock)
  BY DEF CurrentInv, LocalsCurrent
<1> QED
  BY <1>1, <1>2, WriterLocals DEF LocalCurrent

\* What an update of one column from that copy leaves.
LEMMA CurrentWrite ==
  ASSUME CurrentInv, NEW p \in Procs, procs[p].op \in Writers, NEW row \in Row,
         UpdateQueue(procs[p].id, row), row.name = procs[p].row.name,
         row.fifo = procs[p].row.fifo, row.attrs = procs[p].row.attrs
  PROVE  LET i == procs[p].id
         IN  /\ i \in DOMAIN queues /\ queues'[i] = row /\ DOMAIN queues' = DOMAIN queues
             /\ queues'[i].name = queues[i].name /\ queues'[i].attrs = queues[i].attrs
             /\ \A j \in DOMAIN queues : j # i => queues'[j] = queues[j]
<1>1. RegistryInv
  BY DEF CurrentInv
<1> DEFINE i == procs[p].id
<1>2. /\ i \in DOMAIN queues /\ procs[p].row = queues[i] /\ queues[i] \in Row
      /\ queues[i].present /\ RowOK(queues[i])
  BY CurrentCopy
<1>3. RowOK(row) /\ row.name = queues[i].name
  BY <1>2, ColumnsOK
<1>4. /\ RowsFade /\ queues'[i] = row
      /\ \A j \in DOMAIN queues : j # i => queues'[j] = queues[j]
  BY <1>1, <1>2, <1>3, RowUpdated
<1> QED
  BY <1>1, <1>2, <1>3, <1>4, RowsDomain

-----------------------------------------------------------------------------
(* Windows and tombstones: the invariants.                                   *)

\* A purge window lasts from the purge that opened it, or is over.
WindowsHold ==
  \A i \in DOMAIN purges : \A s \in purges[i] :
    /\ s <= clock
    /\ Unix(s + PurgeCooldown) <= clock \/ Unix(s + PurgeCooldown) <= queues[i].purgeExpiresAt

\* Up to the second that queue rows keep.
PurgesApart ==
  \A i \in DOMAIN purges : \A s, t \in purges[i] : s < t => t >= Unix(s + PurgeCooldown)

Over(n) == Unix(deletes[n] + DeleteCooldown) <= clock

\* Row i is the tombstone that blocks name n for its cool-down.
Blocks(i, n) ==
  /\ queues[i].present /\ queues[i].name = n /\ queues[i].deletedAt # 0
  /\ Unix(deletes[n] + DeleteCooldown) <= queues[i].reuseBlockedTill

\* The cool-down of a deleted name is over or its tombstone is there.
NamesBlocked ==
  \A n \in Names : deletes[n] = 0 \/ Over(n) \/ \E i \in DOMAIN queues : Blocks(i, n)

SerialInv == CurrentInv /\ WindowsHold /\ PurgesApart /\ NamesBlocked

\* What every step but the writing of a tombstone or a purge window does to a
\* row: windows and tombstones stay until they are over.
RowStays(i) ==
  /\ queues'[i].purgeExpiresAt = queues[i].purgeExpiresAt \/ queues[i].purgeExpiresAt <= clock
  /\ queues[i].present /\ queues[i].deletedAt # 0 =>
       \/ queues[i].reuseBlockedTill <= clock
       \/ /\ queues'[i].present /\ queues'[i].name = queues[i].name
          /\ queues'[i].deletedAt = queues[i].deletedAt
          /\ queues'[i].reuseBlockedTill = queues[i].reuseBlockedTill

RowsStay ==
  /\ clock' \in Nat /\ clock' >= clock /\ deletes' = deletes
  /\ \A i \in DOMAIN queues : i \in DOMAIN queues' /\ RowStays(i)
  /\ \A i \in DOMAIN purges' : purges'[i] # {} => i \in DOMAIN purges /\ purges'[i] = purges[i]

LEMMA RowsUntouched ==
  ASSUME queues' = queues
  PROVE  \A i \in DOMAIN queues : i \in DOMAIN queues' /\ RowStays(i)
  BY DEF RowStays

LEMMA RowsPatched ==
  ASSUME RegistryInv, queues' = Patched(clock)
  PROVE  \A i \in DOMAIN queues : i \in DOMAIN queues' /\ RowStays(i)
<1>1. DOMAIN queues' = DOMAIN queues
  BY PatchedRows
<1> SUFFICES ASSUME NEW i \in DOMAIN queues PROVE RowStays(i)
  BY <1>1
<1>2. LET old == queues[i]
          new == queues'[i]
      IN  /\ new.name = old.name /\ new.present = old.present
          /\ new.deletedAt = old.deletedAt
          /\ new.reuseBlockedTill = old.reuseBlockedTill
          /\ new.purgeExpiresAt = old.purgeExpiresAt
  BY PatchedRows
<1> QED
  BY <1>2 DEF RowStays

\* A live row whose window stays or is over.
LEMMA RowsRewritten ==
  ASSUME CurrentInv, NEW p \in Procs, procs[p].op \in Writers, NEW row \in Row,
         UpdateQueue(procs[p].id, row), row.name = procs[p].row.name,
         row.fifo = procs[p].row.fifo, row.attrs = procs[p].row.attrs,
         \/ row.purgeExpiresAt = procs[p].row.purgeExpiresAt
         \/ procs[p].row.purgeExpiresAt <= clock
  PROVE  \A i \in DOMAIN queues : i \in DOMAIN queues' /\ RowStays(i)
<1> DEFINE i == procs[p].id
<1>1. /\ i \in DOMAIN queues /\ queues'[i] = row /\ DOMAIN queues' = DOMAIN queues
      /\ \A j \in DOMAIN queues : j # i => queues'[j] = queues[j]
  BY CurrentWrite
<1>2. procs[p].row = queues[i] /\ queues[i].deletedAt = 0
  BY CurrentCopy
<1> QED
  BY <1>1, <1>2 DEF RowStays

LEMMA StartStays ==
  ASSUME CurrentInv, NEW p \in Procs, Start(p)
  PROVE  RowsStay
<1>1. clock \in Nat /\ RegistryInv
  BY DEF CurrentInv, RegistryInv, RegistryTypeOK
<1>2. UNCHANGED <<clock, history>> /\ (queues' = queues \/ queues' = Patched(clock))
  BY DEF Start, Refresh, CreateQueue, DeleteQueue, PurgeQueue, maintain, SetQueueAttributes,
     AddPermission, RemovePermission, TagQueue, UntagQueue, ApplyDueQueueMutations
<1>3. \A i \in DOMAIN queues : i \in DOMAIN queues' /\ RowStays(i)
  BY <1>1, <1>2, RowsUntouched, RowsPatched
<1> QED
  BY <1>1, <1>2, <1>3 DEF RowsStay, history

LEMMA ClearStays ==
  ASSUME CurrentInv, NEW p \in Procs, DeleteQueueRow(p)
  PROVE  RowsStay
<1> DEFINE i == procs[p].id
<1>1. clock \in Nat /\ RegistryInv
  BY DEF CurrentInv, RegistryInv, RegistryTypeOK
<1>2. /\ procs[p].op = "clear" /\ queues' = [queues EXCEPT ![i].present = FALSE]
      /\ UNCHANGED <<clock, history>>
  BY DEF DeleteQueueRow
<1>3. i \in DOMAIN queues /\ queues[i].reuseBlockedTill <= clock
  BY <1>1, <1>2, CreatorLocals DEF CurrentInv, LocalsCurrent, LocalCurrent
<1>4. /\ \A j \in DOMAIN queues : j # i => queues'[j] = queues[j]
      /\ DOMAIN queues' = DOMAIN queues
  BY <1>1, <1>2, <1>3, RowCleared, RowsDomain
<1>5. queues'[i].purgeExpiresAt = queues[i].purgeExpiresAt
  <2>1. queues[i] \in Row
    BY <1>1, <1>3, RegistryTables
  <2>2. queues'[i] = [queues[i] EXCEPT !.present = FALSE]
    BY <1>1, <1>2, <1>3
  <2> QED
    BY <2>1, <2>2 DEF Row
<1> QED
  BY <1>1, <1>2, <1>3, <1>4, <1>5 DEF RowsStay, RowStays, history

LEMMA InsertStays ==
  ASSUME CurrentInv, NEW p \in Procs, InsertQueue(p)
  PROVE  RowsStay
<1>1. clock \in Nat /\ RegistryInv /\ UNCHANGED <<clock, deletes>>
  BY DEF CurrentInv, RegistryInv, RegistryTypeOK, InsertQueue
<1>2. CASE UNCHANGED <<queues, purges>>
  BY <1>1, <1>2, RowsUntouched DEF RowsStay
<1>3. CASE ~UNCHANGED <<queues, purges>>
  <2> DEFINE row == NewRow(procs[p].name, procs[p].attrs, procs[p].now)
  <2>1. queues' = Append(queues, row) /\ purges' = Append(purges, {})
    BY <1>3 DEF InsertQueue
  <2> HIDE DEF row
  <2>2. /\ queues \in Seq(Row) /\ purges \in Seq(SUBSET Nat)
        /\ Len(queues) \in Nat /\ DOMAIN queues = 1 .. Len(queues)
    BY <1>1, RegistryTables DEF RegistryTypeOK
  <2>3. \A i \in DOMAIN queues : i \in DOMAIN queues' /\ queues'[i] = queues[i]
    BY <2>1, <2>2
  <2>4. \A i \in DOMAIN purges' : purges'[i] # {} => i \in DOMAIN purges /\ purges'[i] = purges[i]
    BY <2>1, <2>2
  <2> QED
    BY <1>1, <2>3, <2>4 DEF RowsStay, RowStays
<1> QED
  BY <1>2, <1>3

LEMMA RewriteStays ==
  ASSUME CurrentInv, NEW p \in Procs,
         TouchQueue(p) \/ reapQueue(p) \/ WritePermission(p) \/ WriteRevocation(p)
  PROVE  RowsStay
<1> DEFINE old == procs[p].row
           reaped == [procs[p].row EXCEPT !.purgeExpiresAt = 0]
           allowed == [procs[p].row EXCEPT !.policy = @ \cup {procs[p].label}]
           revoked == [procs[p].row EXCEPT !.policy = @ \ {procs[p].label}]
<1>1. clock \in Nat /\ RegistryInv
  BY DEF CurrentInv, RegistryInv, RegistryTypeOK
<1>2. procs[p].op \in Writers /\ UNCHANGED <<clock, history>>
  BY DEF TouchQueue, reapQueue, WritePermission, WriteRevocation, Writers
<1>3. old \in Row /\ procs[p] \in Proc /\ (procs[p].op = "reap" => old.purgeExpiresAt <= clock)
  BY <1>1, <1>2, WriterLocals, CurrentCopy
<1>4. ASSUME NEW row \in Row, UpdateQueue(procs[p].id, row), row.name = old.name,
             row.fifo = old.fifo, row.attrs = old.attrs,
             row.purgeExpiresAt = old.purgeExpiresAt \/ old.purgeExpiresAt <= clock
      PROVE  RowsStay
  <2>1. \A i \in DOMAIN queues : i \in DOMAIN queues' /\ RowStays(i)
    BY <1>2, <1>4, RowsRewritten
  <2> QED
    BY <1>1, <1>2, <2>1 DEF RowsStay, history
<1>5. CASE TouchQueue(p)
  <2>1. UpdateQueue(procs[p].id, old)
    BY <1>5 DEF TouchQueue
  <2> HIDE DEF old
  <2> QED
    BY <1>3, <1>4, <2>1
<1>6. CASE reapQueue(p)
  <2>1. UpdateQueue(procs[p].id, reaped) /\ old.purgeExpiresAt <= clock
    BY <1>3, <1>6 DEF reapQueue
  <2>2. /\ reaped \in Row /\ reaped.name = old.name /\ reaped.fifo = old.fifo
        /\ reaped.attrs = old.attrs
    BY <1>3 DEF Row
  <2> HIDE DEF reaped, old
  <2> QED
    BY <1>4, <2>1, <2>2
<1>7. CASE WritePermission(p)
  <2>1. procs[p].label \in Labels
    BY <1>3, <1>7, Operations DEF WritePermission, Permitter
  <2>2. old.policy \cup {procs[p].label} \in SUBSET Labels
    BY <1>3, <2>1 DEF Row
  <2>3. /\ allowed \in Row /\ allowed.name = old.name /\ allowed.fifo = old.fifo
        /\ allowed.attrs = old.attrs /\ allowed.purgeExpiresAt = old.purgeExpiresAt
    BY <1>3, <2>2 DEF Row
  <2>4. UpdateQueue(procs[p].id, allowed)
    BY <1>7 DEF WritePermission
  <2> HIDE DEF allowed, old
  <2> QED
    BY <1>4, <2>3, <2>4
<1>8. CASE WriteRevocation(p)
  <2>1. old.policy \ {procs[p].label} \in SUBSET Labels
    BY <1>3 DEF Row
  <2>2. /\ revoked \in Row /\ revoked.name = old.name /\ revoked.fifo = old.fifo
        /\ revoked.attrs = old.attrs /\ revoked.purgeExpiresAt = old.purgeExpiresAt
    BY <1>3, <2>1 DEF Row
  <2>3. UpdateQueue(procs[p].id, revoked)
    BY <1>8 DEF WriteRevocation
  <2> HIDE DEF revoked, old
  <2> QED
    BY <1>4, <2>2, <2>3
<1> QED
  BY <1>5, <1>6, <1>7, <1>8

LEMMA StepStays ==
  ASSUME CurrentInv, [RNext]_rvars,
         \A p \in Procs : ~OpenPurgeWindow(p) /\ ~WriteTombstone(p)
  PROVE  RowsStay
<1>1. clock \in Nat
  BY DEF CurrentInv, RegistryInv, RegistryTypeOK
<1>2. ASSUME UNCHANGED <<queues, history>>, clock' \in Nat, clock' >= clock PROVE RowsStay
  BY <1>2, RowsUntouched DEF RowsStay, history
<1>3. CASE Tick \/ UNCHANGED rvars
  BY <1>1, <1>2, <1>3 DEF Tick, rvars, history
<1>4. ASSUME NEW p \in Procs, ReplaceTags(p) \/ Abort(p) PROVE RowsStay
  BY <1>1, <1>2, <1>4 DEF ReplaceTags, Abort
<1>5. ASSUME NEW p \in Procs, SavePendingAttributes(p) PROVE RowsStay
  <2>1. UNCHANGED <<clock, queues, deletes, purges>>
    BY <1>5 DEF SavePendingAttributes
  <2> QED
    BY <1>1, <2>1, RowsUntouched DEF RowsStay
<1> QED
  BY <1>3, <1>4, <1>5, StartStays, ClearStays, InsertStays, RewriteStays DEF RNext, Proceed

-----------------------------------------------------------------------------
(* Windows and tombstones: the steps.                                        *)

LEMMA WindowsKept ==
  ASSUME CurrentInv, RowsStay, WindowsHold, PurgesApart
  PROVE  (WindowsHold /\ PurgesApart)'
<1>1. clock \in Nat /\ RegistryInv /\ purges \in Seq(SUBSET Nat)
  BY DEF CurrentInv, RegistryInv, RegistryTypeOK
<1>2. ASSUME NEW i \in DOMAIN purges', NEW s \in purges'[i]
      PROVE  i \in DOMAIN purges /\ purges'[i] = purges[i] /\ s \in purges[i]
  BY <1>2 DEF RowsStay
<1>3. PurgesApart'
  BY <1>2 DEF PurgesApart
<1>4. ASSUME NEW i \in DOMAIN purges, NEW s \in purges[i]
      PROVE  /\ s <= clock'
             /\ \/ Unix(s + PurgeCooldown) <= clock'
                \/ Unix(s + PurgeCooldown) <= queues'[i].purgeExpiresAt
  <2>1. i \in DOMAIN queues /\ s \in Nat /\ queues[i] \in Row
    BY <1>1, RegistryTables
  <2>2. queues[i].purgeExpiresAt \in Nat /\ Unix(s + PurgeCooldown) \in Nat
    BY <2>1, UnixBounds, Constants DEF Row
  <2>3. RowStays(i) /\ clock' \in Nat /\ clock' >= clock
    BY <2>1 DEF RowsStay
  <2>4. /\ s <= clock
        /\ \/ Unix(s + PurgeCooldown) <= clock
           \/ Unix(s + PurgeCooldown) <= queues[i].purgeExpiresAt
    BY DEF WindowsHold
  <2> QED
    BY <1>1, <2>1, <2>2, <2>3, <2>4 DEF RowStays
<1>5. WindowsHold'
  BY <1>2, <1>4 DEF WindowsHold
<1> QED
  BY <1>3, <1>5

LEMMA NamesKept ==
  ASSUME CurrentInv, RowsStay, NamesBlocked
  PROVE  NamesBlocked'
<1>1. clock \in Nat /\ RegistryInv /\ deletes \in [Names -> Nat]
  BY DEF CurrentInv, RegistryInv, RegistryTypeOK
<1>2. deletes' = deletes /\ clock' \in Nat /\ clock' >= clock
  BY DEF RowsStay
<1> SUFFICES ASSUME NEW n \in Names, deletes[n] # 0, ~Over(n)'
             PROVE  \E i \in DOMAIN queues' : Blocks(i, n)'
  BY <1>2 DEF NamesBlocked
<1>3. Unix(deletes[n] + DeleteCooldown) \in Nat
  BY <1>1, UnixBounds, Constants
<1>4. ~Over(n)
  BY <1>1, <1>2, <1>3 DEF Over
<1>5. PICK i \in DOMAIN queues : Blocks(i, n)
  BY <1>4 DEF NamesBlocked
<1>6. queues[i] \in Row
  BY <1>1, RegistryTables
<1>7. queues[i].reuseBlockedTill \in Nat
  BY <1>6 DEF Row
<1>8. ~(queues[i].reuseBlockedTill <= clock)
  BY <1>1, <1>3, <1>4, <1>5, <1>7 DEF Blocks, Over
<1>9. i \in DOMAIN queues' /\ RowStays(i)
  BY DEF RowsStay
<1> QED
  BY <1>2, <1>5, <1>8, <1>9 DEF Blocks, RowStays

LEMMA PurgeSerial ==
  ASSUME CurrentInv, WindowsHold, PurgesApart, NamesBlocked, NEW p \in Procs, OpenPurgeWindow(p)
  PROVE  (WindowsHold /\ PurgesApart /\ NamesBlocked)'
<1> DEFINE i == procs[p].id
           row == [procs[p].row EXCEPT !.purgeExpiresAt = Unix(clock + PurgeCooldown)]
<1>1. clock \in Nat /\ RegistryInv /\ purges \in Seq(SUBSET Nat)
  BY DEF CurrentInv, RegistryInv, RegistryTypeOK
<1>2. procs[p].op \in Writers /\ UNCHANGED <<clock, deletes>>
  BY DEF OpenPurgeWindow, Writers
<1>3. /\ i \in DOMAIN queues /\ procs[p].row = queues[i] /\ queues[i] \in Row
      /\ queues[i].deletedAt = 0 /\ DOMAIN purges = DOMAIN queues
  BY <1>1, <1>2, CurrentCopy, RegistryTables
<1>4. CASE UNCHANGED <<queues, purges>>
  <2>1. RowsStay
    BY <1>1, <1>2, <1>4, RowsUntouched DEF RowsStay
  <2> QED
    BY <2>1, WindowsKept, NamesKept
<1>5. CASE ~UNCHANGED <<queues, purges>>
  <2>1. /\ queues[i].purgeExpiresAt = 0 \/ clock >= queues[i].purgeExpiresAt
        /\ UpdateQueue(i, row) /\ purges' = [purges EXCEPT ![i] = @ \cup {clock}]
    BY <1>3, <1>5 DEF OpenPurgeWindow
  <2>2. Unix(clock + PurgeCooldown) \in Nat /\ queues[i].purgeExpiresAt \in Nat
    <3>1. clock + PurgeCooldown \in Nat
      BY <1>1, Constants
    <3>2. queues[i].purgeExpiresAt \in Nat
      BY <1>3 DEF Row
    <3> QED
      BY <3>1, <3>2, UnixBounds
  <2>3. /\ row \in Row /\ row.name = procs[p].row.name /\ row.fifo = procs[p].row.fifo
        /\ row.attrs = procs[p].row.attrs
        /\ row.purgeExpiresAt = Unix(clock + PurgeCooldown)
    BY <1>3, <2>2 DEF Row
  <2> HIDE DEF row
  <2>4. /\ queues'[i] = row /\ DOMAIN queues' = DOMAIN queues
        /\ \A j \in DOMAIN queues : j # i => queues'[j] = queues[j]
    BY <1>2, <2>1, <2>3, CurrentWrite
  <2>5. /\ DOMAIN purges' = DOMAIN purges /\ purges'[i] = purges[i] \cup {clock}
        /\ \A j \in DOMAIN purges : j # i => purges'[j] = purges[j]
    BY <1>1, <1>3, <2>1
  <2>6. \A j \in DOMAIN purges : purges[j] \subseteq Nat
    BY <1>1, RegistryTables
  <2>7. ASSUME NEW s \in purges[i] PROVE s <= clock /\ Unix(s + PurgeCooldown) <= clock
    <3>1. s \in Nat /\ Unix(s + PurgeCooldown) \in Nat
      BY <1>3, <2>6, UnixBounds, Constants
    <3>2. /\ s <= clock
          /\ \/ Unix(s + PurgeCooldown) <= clock
             \/ Unix(s + PurgeCooldown) <= queues[i].purgeExpiresAt
      BY <1>3 DEF WindowsHold
    <3> QED
      BY <1>1, <2>1, <2>2, <3>1, <3>2
  <2>8. WindowsHold'
    <3> SUFFICES ASSUME NEW j \in DOMAIN purges, NEW s \in purges'[j]
                 PROVE  /\ s <= clock
                        /\ \/ Unix(s + PurgeCooldown) <= clock
                           \/ Unix(s + PurgeCooldown) <= queues'[j].purgeExpiresAt
      BY <1>2, <2>5 DEF WindowsHold
    <3>1. CASE j # i
      BY <1>3, <2>4, <2>5, <3>1 DEF WindowsHold
    <3>2. CASE j = i /\ s \in purges[i]
      BY <2>7, <3>2
    <3>3. CASE j = i /\ s = clock
      BY <1>1, <2>2, <2>3, <2>4, <3>3
    <3> QED
      BY <2>5, <3>1, <3>2, <3>3
  <2>9. PurgesApart'
    <3> SUFFICES ASSUME NEW j \in DOMAIN purges, NEW s \in purges'[j], NEW t \in purges'[j], s < t
                 PROVE  t >= Unix(s + PurgeCooldown)
      BY <2>5 DEF PurgesApart
    <3>1. CASE j # i
      BY <2>5, <3>1 DEF PurgesApart
    <3>2. CASE j = i /\ s \in purges[i] /\ t \in purges[i]
      BY <1>3, <3>2 DEF PurgesApart
    <3>3. CASE j = i /\ s \in purges[i] /\ t = clock
      <4>1. s \in Nat /\ Unix(s + PurgeCooldown) \in Nat
        BY <1>3, <2>6, <3>3, UnixBounds, Constants
      <4> QED
        BY <1>1, <2>7, <3>3, <4>1
    <3>4. CASE j = i /\ s = clock
      <4>1. t \in Nat /\ t <= clock
        BY <1>1, <1>3, <2>5, <2>6, <2>7, <3>4
      <4> QED
        BY <1>1, <3>4, <4>1
    <3> QED
      BY <2>5, <3>1, <3>2, <3>3, <3>4
  <2>10. NamesBlocked'
    <3> SUFFICES ASSUME NEW n \in Names, deletes[n] # 0, ~Over(n)
                 PROVE  \E j \in DOMAIN queues' : Blocks(j, n)'
      BY <1>2 DEF NamesBlocked, Over
    <3>1. PICK j \in DOMAIN queues : Blocks(j, n)
      BY DEF NamesBlocked
    <3>2. queues'[j] = queues[j]
      BY <1>3, <2>4, <3>1 DEF Blocks
    <3> QED
      BY <1>2, <2>4, <3>1, <3>2 DEF Blocks
  <2> QED
    BY <2>8, <2>9, <2>10
<1> QED
  BY <1>4, <1>5

LEMMA TombstoneSerial ==
  ASSUME CurrentInv, WindowsHold, PurgesApart, NamesBlocked, NEW p \in Procs, WriteTombstone(p)
  PROVE  (WindowsHold /\ PurgesApart /\ NamesBlocked)'
<1> DEFINE i == procs[p].id
           old == procs[p].row
           row == [procs[p].row EXCEPT !.deletedAt = Unix(clock),
                                       !.reuseBlockedTill = Unix(clock + DeleteCooldown)]
<1>1. clock \in Nat /\ clock >= Second /\ RegistryInv /\ deletes \in [Names -> Nat]
  BY DEF CurrentInv, RegistryInv, RegistryTypeOK
<1>2. /\ procs[p].op \in Writers /\ UNCHANGED <<clock, purges>> /\ UpdateQueue(i, row)
      /\ deletes' = [deletes EXCEPT ![old.name] = clock]
  BY DEF WriteTombstone, Writers
<1>3. /\ i \in DOMAIN queues /\ old = queues[i] /\ queues[i] \in Row /\ old.name \in Names
      /\ queues[i].deletedAt = 0 /\ queues[i].present /\ DOMAIN purges = DOMAIN queues
  BY <1>1, <1>2, CurrentCopy, RegistryTables DEF Row
<1>4. Unix(clock) \in Nat /\ Unix(clock) # 0 /\ Unix(clock + DeleteCooldown) \in Nat
  <2>1. clock + DeleteCooldown \in Nat
    BY <1>1, Constants
  <2> QED
    BY <1>1, <2>1, UnixBounds, UnixPositive
<1>5. /\ row \in Row /\ row.name = old.name /\ row.fifo = old.fifo /\ row.attrs = old.attrs
      /\ row.purgeExpiresAt = old.purgeExpiresAt /\ row.present = old.present
      /\ row.deletedAt = Unix(clock) /\ row.reuseBlockedTill = Unix(clock + DeleteCooldown)
  BY <1>3, <1>4 DEF Row
<1> HIDE DEF row
<1>6. /\ queues'[i] = row /\ DOMAIN queues' = DOMAIN queues
      /\ \A j \in DOMAIN queues : j # i => queues'[j] = queues[j]
  BY <1>2, <1>5, CurrentWrite
<1>7. \A j \in DOMAIN queues : queues'[j].purgeExpiresAt = queues[j].purgeExpiresAt
  BY <1>3, <1>5, <1>6
<1>8. WindowsHold' /\ PurgesApart'
  BY <1>2, <1>3, <1>7 DEF WindowsHold, PurgesApart
<1>9. /\ deletes'[old.name] = clock
      /\ \A n \in Names : n # old.name => deletes'[n] = deletes[n]
  BY <1>1, <1>2, <1>3
<1>10. PICK tomb \in DOMAIN queues, gone \in Names : tomb = i /\ gone = old.name
  BY <1>3
<1>11. Blocks(tomb, gone)'
  BY <1>3, <1>4, <1>5, <1>6, <1>9, <1>10 DEF Blocks
<1>12. ASSUME NEW n \in Names, n # gone, deletes[n] # 0, ~Over(n)
       PROVE  \E j \in DOMAIN queues' : Blocks(j, n)'
  <2>1. PICK j \in DOMAIN queues : Blocks(j, n)
    BY <1>12 DEF NamesBlocked
  <2>2. queues'[j] = queues[j]
    BY <1>3, <1>6, <1>10, <1>12, <2>1 DEF Blocks
  <2> QED
    BY <1>6, <1>9, <1>10, <1>12, <2>1, <2>2 DEF Blocks
<1>13. NamesBlocked'
  <2> SUFFICES ASSUME NEW n \in Names
               PROVE  deletes'[n] = 0 \/ Over(n)' \/ \E j \in DOMAIN queues' : Blocks(j, n)'
    BY DEF NamesBlocked
  <2>1. CASE n = gone
    BY <1>6, <1>11, <2>1
  <2>2. CASE n # gone
    BY <1>2, <1>9, <1>10, <1>12, <2>2 DEF Over
  <2> QED
    BY <2>1, <2>2
<1> QED
  BY <1>8, <1>13

LEMMA SerialStep == OneAtATime /\ SerialInv /\ [RNext]_rvars => SerialInv'
<1> SUFFICES ASSUME OneAtATime, SerialInv, [RNext]_rvars PROVE SerialInv'
  OBVIOUS
<1>1. CurrentInv'
  BY CurrentStep DEF SerialInv
<1>2. CASE \E p \in Procs : OpenPurgeWindow(p)
  BY <1>1, <1>2, PurgeSerial DEF SerialInv
<1>3. CASE \E p \in Procs : WriteTombstone(p)
  BY <1>1, <1>3, TombstoneSerial DEF SerialInv
<1>4. CASE \A p \in Procs : ~OpenPurgeWindow(p) /\ ~WriteTombstone(p)
  <2>1. RowsStay
    BY <1>4, StepStays DEF SerialInv
  <2> QED
    BY <1>1, <2>1, WindowsKept, NamesKept DEF SerialInv
<1> QED
  BY <1>2, <1>3, <1>4

LEMMA SerialInit == RInit => SerialInv
<1> SUFFICES ASSUME RInit PROVE SerialInv
  OBVIOUS
<1>1. DOMAIN purges = {} /\ \A n \in Names : deletes[n] = 0
  BY DEF RInit
<1> QED
  BY <1>1, CurrentInit DEF SerialInv, WindowsHold, PurgesApart, NamesBlocked

LEMMA SerialAlways ==
  ASSUME OneAtATime
  PROVE  RSpec => []SerialInv
<1>1. SerialInv /\ [RNext]_rvars => SerialInv'
  BY SerialStep
<1> QED
  BY <1>1, SerialInit, PTL DEF RSpec

\* Two accepted purges of a queue are a cool-down apart up to the fraction of a
\* second that the queue row drops.
PurgesNearlySpaced ==
  \A i \in DOMAIN purges : \A s, t \in purges[i] : s < t => t + Second > s + PurgeCooldown

\* No queue of a deleted name is there while its cool-down runs, up to the
\* fraction of a second that the tombstone drops.
DeletedStaysNearlyBlocked ==
  \A i \in DOMAIN queues :
    LET deleted == deletes[queues[i].name]
    IN  Live(i) /\ deleted # 0 => clock + Second > deleted + DeleteCooldown

LEMMA PurgesUnix ==
  ASSUME RegistryInv, NEW i \in DOMAIN purges, NEW s \in purges[i]
  PROVE  s \in Nat /\ s + PurgeCooldown \in Nat
<1>1. s \in Nat
  BY RegistryTables
<1> QED
  BY <1>1, Constants

LEMMA PurgesNear ==
  ASSUME SerialInv
  PROVE  /\ PurgesNearlySpaced
         /\ Second = 1 => PurgesSpaced
<1> SUFFICES ASSUME NEW i \in DOMAIN purges, NEW s \in purges[i], NEW t \in purges[i], s < t
             PROVE  /\ t + Second > s + PurgeCooldown
                    /\ Second = 1 => t >= s + PurgeCooldown
  BY DEF PurgesNearlySpaced, PurgesSpaced
<1>1. s \in Nat /\ t \in Nat /\ s + PurgeCooldown \in Nat
  BY PurgesUnix DEF SerialInv, CurrentInv
<1>2. t >= Unix(s + PurgeCooldown)
  BY DEF SerialInv, PurgesApart
<1>3. LET u == Unix(s + PurgeCooldown)
      IN  u \in Nat /\ s + PurgeCooldown < u + Second
  BY <1>1, UnixBounds
<1> DEFINE u == Unix(s + PurgeCooldown)
           e == s + PurgeCooldown
<1>4. u \in Nat /\ e \in Nat /\ e < u + Second /\ t >= u
  BY <1>1, <1>2, <1>3
<1> HIDE DEF u, e
<1>5. t + Second > e /\ (Second = 1 => t >= e)
  BY <1>1, <1>4, Constants
<1> QED
  BY <1>5 DEF e

\* The tombstone of a name is the only row of that name.
LEMMA BlockedNear ==
  ASSUME SerialInv
  PROVE  /\ DeletedStaysNearlyBlocked
         /\ Second = 1 => DeletedStaysBlocked
<1>1. clock \in Nat /\ RegistryInv /\ deletes \in [Names -> Nat]
  BY DEF SerialInv, CurrentInv, RegistryInv, RegistryTypeOK
<1> SUFFICES ASSUME NEW i \in DOMAIN queues, Live(i), deletes[queues[i].name] # 0
             PROVE  /\ clock + Second > deletes[queues[i].name] + DeleteCooldown
                    /\ Second = 1 => clock >= deletes[queues[i].name] + DeleteCooldown
  BY DEF DeletedStaysNearlyBlocked, DeletedStaysBlocked
<1> DEFINE n == queues[i].name
           e == deletes[n] + DeleteCooldown
           u == Unix(e)
<1>2. queues[i] \in Row
  BY <1>1, RegistryTables
<1>3. n \in Names
  BY <1>2 DEF Row
<1>4. Over(n)
  <2> SUFFICES ASSUME ~Over(n) PROVE FALSE
    OBVIOUS
  <2>1. PICK j \in DOMAIN queues : Blocks(j, n)
    BY <1>3 DEF SerialInv, NamesBlocked
  <2>2. j = i
    BY <1>1, <2>1 DEF Blocks, Live, RegistryInv, NamesUnique
  <2> QED
    BY <2>1, <2>2 DEF Blocks, Live
<1>5. e \in Nat
  BY <1>1, <1>3, Constants
<1>6. u \in Nat /\ e < u + Second /\ u <= clock
  BY <1>4, <1>5, UnixBounds DEF Over
<1> HIDE DEF u, e
<1>7. clock + Second > e /\ (Second = 1 => clock >= e)
  BY <1>1, <1>5, <1>6, Constants
<1> QED
  BY <1>7 DEF e

\* Purges are spaced and deleted names stay blocked up to the resolution of the
\* queue rows, when handlers run one at a time and wherever they are cut off.
\* (PurgeQueue, reapQueue, DeleteQueue, CreateQueue)
THEOREM CooldownsNearlyHold ==
  ASSUME OneAtATime
  PROVE  RSpec => [](PurgesNearlySpaced /\ DeletedStaysNearlyBlocked)
<1>1. SerialInv => PurgesNearlySpaced /\ DeletedStaysNearlyBlocked
  BY PurgesNear, BlockedNear
<1> QED
  BY <1>1, SerialAlways, PTL

\* With a clock that ticks in seconds the whole cool-down is between two
\* accepted purges of a queue.  (PurgeQueue, reapQueue, ErrPurgeQueueInProgress)
THEOREM PurgesStaySpaced ==
  ASSUME OneAtATime, Second = 1
  PROVE  RSpec => []PurgesSpaced
<1>1. SerialInv => PurgesSpaced
  BY PurgesNear
<1> QED
  BY <1>1, SerialAlways, PTL

\* With a clock that ticks in seconds no queue of a deleted name is there
\* before its cool-down is over.  (DeleteQueue, CreateQueue, UpdateQueue,
\* ErrQueueDeletedRecently)
THEOREM NamesStayBlocked ==
  ASSUME OneAtATime, Second = 1
  PROVE  RSpec => []DeletedStaysBlocked
<1>1. SerialInv => DeletedStaysBlocked
  BY BlockedNear
<1> QED
  BY <1>1, SerialAlways, PTL

-----------------------------------------------------------------------------
(* Attributes converge when each is always set with the same delay.  With    *)
(* two delays a later request may take effect before an earlier one, which   *)
(* then overrides it.                                                        *)

UniformDelays ==
  \A a, b \in Patches : DOMAIN a \cap DOMAIN b # {} => Propagation(a) = Propagation(b)

ConvergeInv == CurrentInv /\ AttributesConverge

\* What the patches pd leave of attribute k of row i.
Outcome(pd, row, i, k) ==
  LET U == Touching(pd, i, k) IN IF U = {} THEN row.attrs[k] ELSE Latest(U).patch[k]

LEMMA ConvergeOutcome ==
  AttributesConverge <=>
    \A i \in DOMAIN queues : \A k \in Keys \cup {FifoKey} :
      queues[i].present => wanted[i][k] = Outcome(pending, queues[i], i, k)
  BY DEF AttributesConverge, Outcome

\* A step that leaves what was asked for and what the patches will leave.
LEMMA ConvergeKept ==
  ASSUME AttributesConverge, DOMAIN queues' = DOMAIN queues, wanted' = wanted,
         \A i \in DOMAIN queues : queues'[i].present =>
           /\ queues[i].present
           /\ \A k \in Keys \cup {FifoKey} :
                Outcome(pending', queues'[i], i, k) = Outcome(pending, queues[i], i, k)
  PROVE  AttributesConverge'
<1>1. \A i \in DOMAIN queues : \A k \in Keys \cup {FifoKey} :
        queues[i].present => wanted[i][k] = Outcome(pending, queues[i], i, k)
  BY ConvergeOutcome
<1>2. \A i \in DOMAIN queues' : \A k \in Keys \cup {FifoKey} :
        queues'[i].present => wanted'[i][k] = Outcome(pending', queues'[i], i, k)
  BY <1>1
<1> QED
  BY <1>2 DEF AttributesConverge, Outcome

\* Applying the due patches does not change what all of them will leave.
LEMMA PatchesSettle ==
  ASSUME RegistryInv, NEW i \in DOMAIN queues, NEW k \in Keys \cup {FifoKey}
  PROVE  Outcome(pending \ Due(clock), Patched(clock)[i], i, k)
           = Outcome(pending, queues[i], i, k)
<1> DEFINE U == Touching(pending, i, k)
           D == Touching(Due(clock), i, k)
           W == Touching(pending \ Due(clock), i, k)
           now == Unix(clock)
<1>1. U = D \cup W /\ U \subseteq pending
  BY DEF Touching, Due
<1>2. /\ \A v \in D : v.effectiveAt <= now
      /\ \A w \in W : ~(w.effectiveAt <= now)
  BY DEF Touching, Due
<1>3. \A v \in U : v.id \in Nat /\ v.effectiveAt \in Nat
  BY <1>1, PendingTyped
<1>4. now \in Nat
  BY UnixBounds DEF RegistryInv, RegistryTypeOK
<1>5. Patched(clock)[i].attrs[k] = IF D = {} THEN queues[i].attrs[k] ELSE Latest(D).patch[k]
  BY PatchedRows
<1> HIDE DEF now
<1>6. CASE W = {}
  <2>1. U = D
    BY <1>1, <1>6
  <2> QED
    BY <1>5, <1>6, <2>1 DEF Outcome
<1>7. CASE W # {}
  <2>1. Latest(W) \in W /\ \A w \in W \ {Latest(W)} : Precedes(w, Latest(W))
    <3> HIDE DEF W
    <3> QED
      BY <1>1, <1>7, LatestExists
  <2> DEFINE u == Latest(W)
  <2>2. u \in U /\ u \in W
    BY <1>1, <2>1
  <2>3. \A v \in U \ {u} : Precedes(v, u)
    <3> HIDE DEF u, U, D, W
    <3> SUFFICES ASSUME NEW v \in U \ {u} PROVE Precedes(v, u)
      OBVIOUS
    <3>1. CASE v \in W
      BY <2>1, <3>1 DEF u
    <3>2. CASE v \in D
      BY <1>2, <1>3, <1>4, <2>2, <3>2 DEF Precedes
    <3> QED
      BY <1>1, <3>1, <3>2
  <2>4. Latest(U) = u
    <3> HIDE DEF u, U
    <3> QED
      BY <1>3, <2>2, <2>3, LatestUnique
  <2> QED
    BY <1>7, <2>2, <2>4 DEF Outcome
<1> QED
  BY <1>6, <1>7

LEMMA StartConverge ==
  ASSUME ConvergeInv, NEW p \in Procs, Start(p)
  PROVE  AttributesConverge'
<1>1. RegistryInv /\ AttributesConverge
  BY DEF ConvergeInv, CurrentInv
<1>2. /\ wanted' = wanted
      /\ \/ queues' = queues /\ pending' = pending
         \/ queues' = Patched(clock) /\ pending' = pending \ Due(clock)
  BY DEF Start, Refresh, CreateQueue, DeleteQueue, PurgeQueue, maintain, SetQueueAttributes,
     AddPermission, RemovePermission, TagQueue, UntagQueue, ApplyDueQueueMutations, history
<1>3. CASE queues' = queues /\ pending' = pending
  BY <1>1, <1>2, <1>3, ConvergeKept
<1>4. CASE queues' = Patched(clock) /\ pending' = pending \ Due(clock)
  <2>1. DOMAIN queues' = DOMAIN queues /\ \A i \in DOMAIN queues : queues'[i].present = queues[i].present
    BY <1>1, <1>4, PatchedRows
  <2>2. \A i \in DOMAIN queues : \A k \in Keys \cup {FifoKey} :
          Outcome(pending', queues'[i], i, k) = Outcome(pending, queues[i], i, k)
    BY <1>1, <1>4, PatchesSettle
  <2> QED
    BY <1>1, <1>2, <2>1, <2>2, ConvergeKept
<1> QED
  BY <1>2, <1>3, <1>4

LEMMA ClearConverge ==
  ASSUME ConvergeInv, NEW p \in Procs, DeleteQueueRow(p)
  PROVE  AttributesConverge'
<1> DEFINE i == procs[p].id
<1>1. RegistryInv /\ AttributesConverge
  BY DEF ConvergeInv, CurrentInv
<1>2. /\ queues' = [queues EXCEPT ![i].present = FALSE] /\ wanted' = wanted
      /\ pending' = {u \in pending : u.queue # i} /\ procs[p].op = "clear"
  BY DEF DeleteQueueRow, history
<1>3. i \in DOMAIN queues
  BY <1>1, <1>2, CreatorLocals
<1>4. /\ \A j \in DOMAIN queues : j # i => queues'[j] = queues[j]
      /\ DOMAIN queues' = DOMAIN queues /\ ~queues'[i].present
  BY <1>1, <1>2, <1>3, RowCleared, RowsDomain
<1>5. ASSUME NEW j \in DOMAIN queues, j # i, NEW k \in Keys \cup {FifoKey}
      PROVE  Outcome(pending', queues'[j], j, k) = Outcome(pending, queues[j], j, k)
  <2>1. Touching(pending', j, k) = Touching(pending, j, k)
    BY <1>2, <1>5 DEF Touching
  <2> QED
    BY <1>4, <1>5, <2>1 DEF Outcome
<1> QED
  BY <1>1, <1>2, <1>4, <1>5, ConvergeKept

\* No patch waits for a row that is not there yet.
LEMMA InsertConverge ==
  ASSUME ConvergeInv, NEW p \in Procs, InsertQueue(p)
  PROVE  AttributesConverge'
<1> DEFINE row == NewRow(procs[p].name, procs[p].attrs, procs[p].now)
<1>1. RegistryInv /\ AttributesConverge /\ pending' = pending
  BY DEF ConvergeInv, CurrentInv, InsertQueue
<1>2. CASE UNCHANGED <<queues, wanted>>
  BY <1>1, <1>2, ConvergeKept
<1>3. CASE queues' = Append(queues, row) /\ wanted' = Append(wanted, row.attrs)
  <2> HIDE DEF row
  <2>1. /\ queues \in Seq(Row) /\ wanted \in Seq(Attributes) /\ Len(wanted) = Len(queues)
        /\ Len(queues) \in Nat /\ DOMAIN queues = 1 .. Len(queues)
    BY <1>1, RegistryTables DEF RegistryTypeOK, RegistryInv, TablesMatch
  <2> DEFINE new == Len(queues) + 1
  <2>2. /\ \A i \in DOMAIN queues : queues'[i] = queues[i] /\ wanted'[i] = wanted[i]
        /\ queues'[new] = row /\ wanted'[new] = row.attrs
        /\ \A i \in DOMAIN queues' : i \in DOMAIN queues \/ i = new
        /\ new \notin DOMAIN queues
    BY <1>3, <2>1
  <2>3. \A k : Touching(pending, new, k) = {}
    BY <1>1, <2>2, PendingTyped DEF Touching
  <2> HIDE DEF new
  <2>4. \A k \in Keys \cup {FifoKey} : wanted'[new][k] = Outcome(pending', queues'[new], new, k)
    BY <1>1, <2>2, <2>3 DEF Outcome
  <2>5. ASSUME NEW i \in DOMAIN queues', NEW k \in Keys \cup {FifoKey}, queues'[i].present
        PROVE  wanted'[i][k] = Outcome(pending', queues'[i], i, k)
    <3>1. CASE i = new
      BY <2>4, <3>1
    <3>2. CASE i \in DOMAIN queues
      BY <1>1, <2>2, <2>5, <3>2, ConvergeOutcome
    <3> QED
      BY <2>2, <3>1, <3>2
  <2> QED
    BY <2>5 DEF AttributesConverge, Outcome
<1> QED
  BY <1>2, <1>3 DEF InsertQueue

\* A row is written back with the attributes it has.
LEMMA WritersConverge ==
  ASSUME ConvergeInv, NEW p \in Procs,
         \/ WriteTombstone(p) \/ OpenPurgeWindow(p) \/ reapQueue(p) \/ TouchQueue(p)
         \/ WritePermission(p) \/ WriteRevocation(p)
  PROVE  AttributesConverge'
<1> DEFINE i == procs[p].id
           old == procs[p].row
<1>1. RegistryInv /\ CurrentInv /\ AttributesConverge
  BY DEF ConvergeInv, CurrentInv
<1>2. procs[p].op \in Writers /\ pending' = pending /\ wanted' = wanted
  BY DEF WriteTombstone, OpenPurgeWindow, reapQueue, TouchQueue, WritePermission,
     WriteRevocation, Writers, history
<1>3. i \in DOMAIN queues /\ old = queues[i] /\ old \in Row /\ queues[i].present
  BY <1>1, <1>2, CurrentCopy
<1>4. CASE queues' = queues
  BY <1>1, <1>2, <1>4, ConvergeKept
<1>5. ASSUME NEW row, UpdateQueue(i, row), row.attrs = old.attrs
      PROVE  AttributesConverge'
  <2>1. /\ DOMAIN queues' = DOMAIN queues /\ queues'[i] = row
        /\ \A j \in DOMAIN queues : j # i => queues'[j] = queues[j]
    <3>1. queues' = [queues EXCEPT ![i] = row]
      BY <1>3, <1>5 DEF UpdateQueue
    <3> HIDE DEF i
    <3> QED
      BY <1>3, <3>1
  <2>2. \A j \in DOMAIN queues : \A k \in Keys \cup {FifoKey} :
          Outcome(pending', queues'[j], j, k) = Outcome(pending, queues[j], j, k)
    BY <1>2, <1>3, <1>5, <2>1 DEF Outcome
  <2>3. \A j \in DOMAIN queues : queues'[j].present => queues[j].present
    BY <1>3, <2>1
  <2> QED
    BY <1>1, <1>2, <2>1, <2>2, <2>3, ConvergeKept
<1>6. CASE WriteTombstone(p)
  <2> DEFINE row == [old EXCEPT !.deletedAt = Unix(clock),
                                !.reuseBlockedTill = Unix(clock + DeleteCooldown)]
  <2>1. UpdateQueue(i, row) /\ row.attrs = old.attrs
    BY <1>3, <1>6 DEF WriteTombstone, Row
  <2> HIDE DEF row
  <2> QED
    BY <1>5, <2>1
<1>7. CASE OpenPurgeWindow(p)
  <2> DEFINE row == [old EXCEPT !.purgeExpiresAt = Unix(clock + PurgeCooldown)]
  <2>1. row.attrs = old.attrs
    BY <1>3 DEF Row
  <2>2. UpdateQueue(i, row) \/ queues' = queues
    BY <1>7 DEF OpenPurgeWindow
  <2> HIDE DEF row
  <2> QED
    BY <1>4, <1>5, <2>1, <2>2
<1>8. CASE reapQueue(p)
  <2> DEFINE row == [old EXCEPT !.purgeExpiresAt = 0]
  <2>1. UpdateQueue(i, row) /\ row.attrs = old.attrs
    BY <1>3, <1>8 DEF reapQueue, Row
  <2> HIDE DEF row
  <2> QED
    BY <1>5, <2>1
<1>9. CASE TouchQueue(p)
  <2>1. UpdateQueue(i, old)
    BY <1>9 DEF TouchQueue
  <2> HIDE DEF old
  <2> QED
    BY <1>5, <2>1
<1>10. CASE WritePermission(p)
  <2> DEFINE row == [old EXCEPT !.policy = @ \cup {procs[p].label}]
  <2>1. UpdateQueue(i, row) /\ row.attrs = old.attrs
    BY <1>3, <1>10 DEF WritePermission, Row
  <2> HIDE DEF row
  <2> QED
    BY <1>5, <2>1
<1>11. CASE WriteRevocation(p)
  <2> DEFINE row == [old EXCEPT !.policy = @ \ {procs[p].label}]
  <2>1. UpdateQueue(i, row) /\ row.attrs = old.attrs
    BY <1>3, <1>11 DEF WriteRevocation, Row
  <2> HIDE DEF row
  <2> QED
    BY <1>5, <2>1
<1> QED
  BY <1>6, <1>7, <1>8, <1>9, <1>10, <1>11

\* The patch saved last is the last one to take effect.
LEMMA SaveConverge ==
  ASSUME UniformDelays, ConvergeInv, NEW p \in Procs, SavePendingAttributes(p)
  PROVE  AttributesConverge'
<1> DEFINE i == procs[p].id
           patch == procs[p].patch
           now == procs[p].now
           u == [id |-> patches + 1, queue |-> procs[p].id, patch |-> procs[p].patch,
                 effectiveAt |-> Unix(procs[p].now + Propagation(procs[p].patch))]
<1>1. RegistryInv /\ CurrentInv /\ AttributesConverge
  BY DEF ConvergeInv, CurrentInv
<1>2. procs[p].op = "save" /\ queues' = queues
  BY DEF SavePendingAttributes
<1>3. CASE UNCHANGED <<pending, wanted>>
  BY <1>1, <1>2, <1>3, ConvergeKept
<1>4. CASE /\ pending' = pending \cup {u} /\ wanted' = [wanted EXCEPT ![i] = Merged(@, patch)]
  <2>1. i \in DOMAIN queues /\ patch \in Patches /\ now \in Nat
    BY <1>1, <1>2, SaverLocals
  <2>2. \A v \in pending : v.effectiveAt <= Unix(now + Propagation(v.patch))
    BY <1>1, <1>2 DEF CurrentInv, LocalsCurrent, LocalCurrent
  <2>3. now + Propagation(patch) \in Nat
    BY <2>1, PropagationTyped
  <2>4. patches \in Nat /\ \A v \in pending : v.id \in Nat /\ v.id <= patches
    BY <1>1, PendingTyped DEF RegistryInv, RegistryTypeOK, PendingOK
  <2>5. /\ u.id = patches + 1 /\ u.queue = i /\ u.patch = patch
        /\ u.effectiveAt = Unix(now + Propagation(patch)) /\ u.effectiveAt \in Nat /\ u.id \in Nat
    BY <2>3, <2>4, UnixBounds
  <2> DEFINE merged == Merged(wanted[i], patch)
  <2>6. DOMAIN wanted = DOMAIN queues /\ wanted[i] \in Attributes
    BY <1>1, <2>1, RegistryTables
  <2>7. \A k \in Keys \cup {FifoKey} : merged[k] = IF k \in DOMAIN patch THEN patch[k] ELSE wanted[i][k]
    <3> HIDE DEF patch, i
    <3> QED
      BY <2>1, <2>6, MergedTyped
  <2>8. wanted'[i] = merged /\ \A j \in DOMAIN wanted : j # i => wanted'[j] = wanted[j]
    BY <1>4, <2>1, <2>6
  <2> HIDE DEF u, merged, i, patch, now
  <2>9. ASSUME NEW j \in DOMAIN queues, NEW k \in Keys \cup {FifoKey}, queues[j].present,
               ~(j = i /\ k \in DOMAIN patch)
        PROVE  wanted'[j][k] = Outcome(pending', queues[j], j, k)
    <3>1. Touching(pending', j, k) = Touching(pending, j, k)
      BY <1>4, <2>5, <2>9 DEF Touching
    <3>2. wanted'[j][k] = wanted[j][k]
      BY <2>6, <2>7, <2>8, <2>9
    <3>3. wanted[j][k] = Outcome(pending, queues[j], j, k)
      BY <1>1, <2>9, ConvergeOutcome
    <3> QED
      BY <3>1, <3>2, <3>3 DEF Outcome
  <2>10. ASSUME NEW k \in Keys \cup {FifoKey}, k \in DOMAIN patch
         PROVE  wanted'[i][k] = Outcome(pending', queues[i], i, k)
    <3> DEFINE U == Touching(pending', i, k)
    <3>1. u \in U /\ \A v \in U : v = u \/ (v \in pending /\ k \in DOMAIN v.patch)
      BY <1>4, <2>5, <2>10 DEF Touching
    <3>2. ASSUME NEW v \in U, v # u PROVE Precedes(v, u)
      <4>1. v \in pending /\ k \in DOMAIN v.patch
        BY <3>1, <3>2
      <4>2. v.patch \in Patches /\ v.effectiveAt \in Nat /\ v.id \in Nat
        BY <1>1, <4>1, PendingTyped
      <4>3. Propagation(v.patch) = Propagation(patch)
        BY <2>1, <2>10, <4>1, <4>2 DEF UniformDelays
      <4>4. v.effectiveAt <= u.effectiveAt
        BY <2>2, <2>5, <4>1, <4>3
      <4>5. v.id < u.id
        BY <2>4, <2>5, <4>1
      <4> QED
        BY <2>5, <4>2, <4>4, <4>5 DEF Precedes
    <3>3. \A v \in U : v.id \in Nat /\ v.effectiveAt \in Nat
      BY <1>1, <2>5, <3>1, PendingTyped
    <3>4. Latest(U) = u
      <4> HIDE DEF U
      <4> QED
        BY <3>1, <3>2, <3>3, LatestUnique
    <3>5. wanted'[i][k] = patch[k]
      BY <2>7, <2>8, <2>10
    <3> QED
      BY <2>5, <3>1, <3>4, <3>5 DEF Outcome
  <2>11. ASSUME NEW j \in DOMAIN queues', NEW k \in Keys \cup {FifoKey}, queues'[j].present
         PROVE  wanted'[j][k] = Outcome(pending', queues'[j], j, k)
    BY <1>2, <2>9, <2>10, <2>11
  <2> QED
    BY <2>11 DEF AttributesConverge, Outcome
<1> QED
  BY <1>3, <1>4 DEF SavePendingAttributes

LEMMA ConvergeStep ==
  OneAtATime /\ UniformDelays /\ ConvergeInv /\ [RNext]_rvars => ConvergeInv'
<1> SUFFICES ASSUME OneAtATime, UniformDelays, ConvergeInv, [RNext]_rvars PROVE ConvergeInv'
  OBVIOUS
<1>1. CurrentInv'
  BY CurrentStep DEF ConvergeInv
<1> SUFFICES AttributesConverge'
  BY <1>1 DEF ConvergeInv
<1>2. CASE UNCHANGED <<queues, pending, wanted>>
  BY <1>2, ConvergeKept DEF ConvergeInv
<1>3. CASE Tick \/ UNCHANGED rvars \/ \E p \in Procs : ReplaceTags(p) \/ Abort(p)
  BY <1>2, <1>3 DEF Tick, rvars, history, ReplaceTags, Abort
<1> QED
  BY <1>3, StartConverge, ClearConverge, InsertConverge, WritersConverge, SaveConverge
     DEF RNext, Proceed

\* The value in effect, or the one that the pending patches will leave, is the
\* one the last acknowledged request asked for, when each attribute is always
\* set with the same delay.  (SetQueueAttributes, SavePendingAttributes,
\* ApplyDueQueueMutations, UpdateQueue)
THEOREM AttributesSettle ==
  ASSUME OneAtATime, UniformDelays
  PROVE  RSpec => []AttributesConverge
<1>1. RInit => ConvergeInv
  <2>1. RInit => DOMAIN queues = {}
    BY DEF RInit
  <2> QED
    BY <2>1, CurrentInit DEF ConvergeInv, AttributesConverge
<1>2. ConvergeInv /\ [RNext]_rvars => ConvergeInv'
  BY ConvergeStep
<1>3. ConvergeInv => AttributesConverge
  BY DEF ConvergeInv
<1> QED
  BY <1>1, <1>2, <1>3, PTL DEF RSpec
=============================================================================
