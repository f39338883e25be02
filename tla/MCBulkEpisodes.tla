---------------------------- MODULE MCBulkEpisodes ----------------------------
(***************************************************************************)
(* A finite instance of BulkEpisodes: three names in the batch, one of     *)
(* which resembles the two others and names a stored entity, and a stored  *)
(* entity of another name.                                                 *)
(***************************************************************************)
EXTENDS BulkEpisodes, TLC

CONSTANTS ann, anne, annie, carl, s1, s2, said, told

Alike == {<<ann, anne>>, <<anne, ann>>, <<anne, annie>>, <<annie, anne>>}
Known == [s \in Stored |-> IF s = s1 THEN anne ELSE carl]

(* Wordings are only compared, and the outer two names are alike in        *)
(* everything.                                                             *)
Symmetry == Permutations({said, told}) \cup Permutations({ann, annie})
=============================================================================
