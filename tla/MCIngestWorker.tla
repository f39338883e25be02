--------------------------- MODULE MCIngestWorker ---------------------------
(***************************************************************************)
(* Finite instances of IngestWorker.                                       *)
(***************************************************************************)
EXTENDS IngestWorker

CONSTANTS r1, r2, r3

Sizes == [r \in Requests |-> IF r = r1 THEN 1 ELSE 2]
=============================================================================
