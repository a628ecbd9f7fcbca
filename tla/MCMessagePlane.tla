--------------------------- MODULE MCMessagePlane ---------------------------
(***************************************************************************)
(* Instances of PlaneStatements, and with it of MessagePlane, for TLC.  std *)
(* is a standard queue, fifo a FIFO queue and dlq the dead-letter queue of  *)
(* either; each run has those it needs.                                     *)
(***************************************************************************)
EXTENDS MessagePlaneRefinement, PlaneStatements, TLC

CONSTANTS std, dlq, fifo, g1, d1, d2, a1, r1, r2

\* Function-valued constants, for whichever queues the instance has.
ToDlq == [q \in Queues |-> IF q = dlq THEN NoQueue ELSE dlq]
NoRedrive == [q \in Queues |-> NoQueue]
ReceiveOnce == [q \in Queues |-> 1]
LongRetention == [q \in Queues |-> 100]
ShortRetention == [q \in Queues |-> 2]
NoQueueDelay == [q \in Queues |-> 0]

\* Send entries.
Plain == [ok |-> TRUE, body |-> d1, delay |-> NoDelay, group |-> NoGroup, dedup |-> NoDedup]
Delayed == [Plain EXCEPT !.delay = 1]
Grouped(g, d) == [Plain EXCEPT !.group = g, !.dedup = d]
ByContent(g, digest) == [Plain EXCEPT !.group = g, !.body = digest]

DelayedSends == {<<Plain>>, <<Delayed>>}
OneSend == {<<Plain>>}

\* Receive parameters.
Receive(max, vis, wait, attempt) ==
  [max |-> max, vis |-> vis, wait |-> wait, attempt |-> attempt]

RequestSymmetry == Permutations(Requests)

OneReceive == {Receive(1, 1, 0, NoAttempt)}
FifoReceives == {Receive(1, 2, 0, NoAttempt), Receive(2, 2, 0, a1)}
BothReceives == {Receive(1, 1, 0, NoAttempt), Receive(2, 1, 0, a1)}
PollReceives == {Receive(1, 1, 2, NoAttempt)}

PairSend == {<<Grouped(g1, d1), Grouped(g1, d2)>>}
ContentSend == {<<Grouped(g1, d1), ByContent(g1, d2)>>}
=============================================================================
