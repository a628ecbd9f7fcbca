---------------------------- MODULE MCMoveTasks ----------------------------
(***************************************************************************)
(* Instances of MoveTasks for TLC: dlq is a dead-letter queue, src a queue  *)
(* that feeds it, aux a queue for the messages nobody wants back.           *)
(***************************************************************************)
EXTENDS MoveTasks, TLC

CONSTANTS src, dlq, aux, p1

\* Back to where the messages came from, or one at a time to aux.
TaskInputs == {[source |-> dlq, dest |-> NoQueue, limit |-> 0],
               [source |-> dlq, dest |-> aux, limit |-> 1]}

\* A dead-lettered message, and one that was sent to the dead-letter queue.
DlqArrivals == {[queue |-> dlq, dlSource |-> src], [queue |-> dlq, dlSource |-> NoQueue]}
=============================================================================
