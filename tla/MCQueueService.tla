--------------------------- MODULE MCQueueService ---------------------------
(***************************************************************************)
(* Finite instances of QueueService.                                       *)
(***************************************************************************)
EXTENDS QueueService

CONSTANTS g1, g2, e1, e2, e3, e4, w1, w2, w3, w4

Assigned == [e \in Episodes |-> IF e = e4 THEN g2 ELSE g1]
=============================================================================
