---------------------------- MODULE MCGroupScope ----------------------------
(***************************************************************************)
(* A finite instance of GroupScope.                                        *)
(***************************************************************************)
EXTENDS GroupScope

CONSTANTS c1, c2, c3, base, g1, g2, t1, t2, t3
=============================================================================
