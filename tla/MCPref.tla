------------------------------- MODULE MCPref -------------------------------
(* Concurrent resolutions of one name over one preferred-IP entry.         *)
EXTENDS Pref, TLC

Symmetry == Permutations(Resolvers) \cup Permutations(IPs)
=============================================================================
