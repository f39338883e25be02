-------------------------- MODULE MCTemporalFacts --------------------------
(***************************************************************************)
(* A finite instance of TemporalFacts: one claim worded in one way, and    *)
(* its opposite worded in two.                                             *)
(***************************************************************************)
EXTENDS TemporalFacts, TLC

CONSTANTS lives, left, gone

Meaning == [t \in Texts |-> IF t = lives THEN "yes" ELSE "no"]
Opposites == {<<"yes", "no">>, <<"no", "yes">>}
Wordings == Permutations({left, gone})
=============================================================================
