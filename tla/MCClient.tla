------------------------------ MODULE MCClient ------------------------------
(* The client alone, against any server that answers what is on dns:req.   *)
EXTENDS Client, TLC

(* One answer per key: the client tells answers apart by their resolved_at. *)
KeyWires == [key : Keys]

Symmetry == Permutations(Queries) \cup Permutations(Keys)
=============================================================================
