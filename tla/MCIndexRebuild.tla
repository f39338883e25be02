---------------------------- MODULE MCIndexRebuild ----------------------------
(***************************************************************************)
(* A finite instance of IndexRebuild.                                      *)
(***************************************************************************)
EXTENDS IndexRebuild

CONSTANTS c1, r1, e1, e2, g1
=============================================================================
