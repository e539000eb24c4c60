---------------------------- MODULE MCPickWinner ----------------------------
(* Races between two addresses. *)
EXTENDS PickWinner

=============================================================================
