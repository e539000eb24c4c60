---------------------------- MODULE MCIcmpPing ----------------------------
(* A probe with three whole windows and one cut short by the deadline. *)
EXTENDS IcmpPing
===========================================================================
