-------------------------- MODULE MCQueueRegistry --------------------------
(***************************************************************************)
(* Instances of QueueRegistry for TLC: plain is a standard queue name, fifo *)
(* one that ends in .fifo; the attributes are the retention period and the  *)
(* visibility timeout.                                                      *)
(***************************************************************************)
EXTENDS QueueRegistry, TLC

CONSTANTS plain, fifo, ret, vis, type, low, high, bad, l1, l2, t1, t2, p1, p2

NoAttributes == [k \in {} |-> low]

\* Every attribute is always set with the same propagation delay; one patch is
\* out of range and one would turn the FIFO queue into a standard one.
SinglePatches == {ret :> low, ret :> high, vis :> high, vis :> bad, type :> FALSE}

TypedCreates == {type :> TRUE, NoAttributes}
=============================================================================
