------------------------- MODULE MCEpisodeRetirement -------------------------
(***************************************************************************)
(* Finite instances of EpisodeRetirement.                                  *)
(***************************************************************************)
EXTENDS EpisodeRetirement, TLC

CONSTANTS opr, other, u1, u2, x1, x2, q1, q2, t1, t2, w1, w2

(* Identities, request ids and tasks are interchangeable.                  *)
Symmetry ==
    Permutations({u1, u2}) \cup Permutations({x1, x2}) \cup Permutations({q1, q2})
        \cup Permutations({t1, t2}) \cup Permutations({w1, w2})
=============================================================================
