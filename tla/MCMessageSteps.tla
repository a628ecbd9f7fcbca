--------------------------- MODULE MCMessageSteps ---------------------------
(* Instances of MessageSteps for TLC.                                        *)
EXTENDS MessageSteps

CONSTANTS p1, p2, d1
=============================================================================
