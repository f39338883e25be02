------------------------- MODULE MCVectorProjection -------------------------
(***************************************************************************)
(* Finite instances of VectorProjection.                                   *)
(***************************************************************************)
EXTENDS VectorProjection, TLC

CONSTANTS c1, c2, r1, r2, e1, e2, g1, g2

(* Clients are interchangeable where they project alike, and so are        *)
(* tenants: neither is ever compared but for equality.                     *)
ClientSymmetry == Permutations({c1, c2})
GroupSymmetry == Permutations({g1, g2})
Symmetry == ClientSymmetry \cup GroupSymmetry
=============================================================================
