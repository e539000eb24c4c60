------------------------------ MODULE Service -------------------------------
(***************************************************************************)
(* What the client promises a LAN host (internal/client/client.go, handle  *)
(* and resolveQuery): a query is replied to at most once, the reply is     *)
(* final, and if it is an answer it answers the name that was asked.       *)
(* Nothing is said of caches, flights, streams or timers.                  *)
(*                                                                         *)
(* One step may bring several queries forward: the end of a flight settles *)
(* its leader and all its followers.                                       *)
(***************************************************************************)
CONSTANTS Queries, Keys, Wires, Stamps, None

VARIABLES asked,  \* [Queries -> the key asked for, None before]
          reply   \* [Queries -> the reply, None before]

vars == <<asked, reply>>

Failure(kind) == [kind |-> kind, wire |-> None, resolvedAt |-> None]

(* The replies a query for k may get. *)
Replies(k) ==
  [kind : {"answer"}, wire : {w \in Wires : w.key = k}, resolvedAt : Stamps]
    \cup {Failure("servfail")}

Init ==
  /\ asked = [q \in Queries |-> None]
  /\ reply = [q \in Queries |-> None]

(* The query arrives; a cached answer is the reply at once. *)
Ask(q, k) ==
  /\ asked[q] = None /\ reply[q] = None
  /\ asked'[q] = k
  /\ reply'[q] \in Replies(k) \cup {None}

(* The message is no query for one name. *)
Refuse(q) ==
  /\ asked[q] = None /\ reply[q] = None
  /\ asked'[q] = None
  /\ reply'[q] = Failure("formerr")

Answer(q) ==
  /\ asked[q] # None /\ reply[q] = None
  /\ asked'[q] = asked[q]
  /\ reply'[q] \in Replies(asked[q])

Wait(q) == asked'[q] = asked[q] /\ reply'[q] = reply[q]

Next ==
  /\ asked' = [q \in Queries |-> asked'[q]]
  /\ reply' = [q \in Queries |-> reply'[q]]
  /\ \A q \in Queries :
       (\E k \in Keys : Ask(q, k)) \/ Refuse(q) \/ Answer(q) \/ Wait(q)

Spec == Init /\ [][Next]_vars
=============================================================================
