------------------------------ MODULE MCRelay -------------------------------
(* Client and server together: constants are given by the configurations. *)
EXTENDS Relay
=============================================================================
