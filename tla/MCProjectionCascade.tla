------------------------- MODULE MCProjectionCascade -------------------------
(***************************************************************************)
(* A finite instance of ProjectionCascade: parallel edges between two      *)
(* nodes.                                                                  *)
(***************************************************************************)
EXTENDS ProjectionCascade

CONSTANTS a, b

Between == [u \in Uuids |-> {a, b}]
=============================================================================
