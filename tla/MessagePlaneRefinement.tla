----------------------- MODULE MessagePlaneRefinement -----------------------
(***************************************************************************)
(* MessagePlane implements LeaseQueue: the message row gives the place and  *)
(* the end of the lease, the active row of the receipts table is the token. *)
(***************************************************************************)
EXTENDS MessagePlane

\* Where a deleted message is.
CONSTANT Gone

ASSUME GoneAssumption == Gone \notin Queues

\* The handles that hold row r.
ActiveHandles(r) ==
  {h \in DOMAIN receipts : receipts[h].active /\ receipts[h].message = r}

placeBar ==
  [r \in DOMAIN messages |-> IF messages[r].deleted THEN Gone ELSE messages[r].queue]

holderBar ==
  [r \in DOMAIN messages |->
     IF messages[r].deleted \/ ActiveHandles(r) = {}
       THEN 0
       ELSE CHOOSE h \in ActiveHandles(r) : TRUE]

untilBar ==
  [r \in DOMAIN messages |->
     IF messages[r].deleted THEN 0 ELSE messages[r].visibilityDeadline]

Leases == INSTANCE LeaseQueue
  WITH place <- placeBar, holder <- holderBar, until <- untilBar,
       issued <- Len(receipts)

\* As long as the sections of handlers do not overlap, the tables, handlers and
\* maintenance of the message plane together behave as the abstract lease queue:
\* grants only of free messages under fresh tokens, renewal only of held ones,
\* redrive only of free ones with the old token voided, no return from Gone.
RefinesLeaseQueue == Leases!LSpec
=============================================================================
