------------------------------ MODULE MCSagas ------------------------------
(***************************************************************************)
(* A finite instance of Sagas.                                             *)
(***************************************************************************)
EXTENDS Sagas
=============================================================================
