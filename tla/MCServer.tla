------------------------------ MODULE MCServer ------------------------------
(* The server alone, against clients that write requests with fresh IDs:   *)
(* constants are given by the configuration.                               *)
EXTENDS Server
=============================================================================
