---------------------------- MODULE MCPrefetch ----------------------------
(* One name has long-lived answers, with a record of TTL 0 in them, and    *)
(* now and then an NXDOMAIN with a SOA whose Minttl is 0; the other has    *)
(* only the latter.                                                        *)
EXTENDS Prefetch, TLC

CONSTANTS n1, n2

Long == [nx |-> FALSE, answer |-> {12, 0, 10}, ns |-> {}]
Short == [nx |-> TRUE, answer |-> {}, ns |-> {1, 0}]

MCAnswers == (n1 :> {Long, Short}) @@ (n2 :> {Short})
===========================================================================
