-------------------------------- MODULE Relay --------------------------------
(***************************************************************************)
(* The whole relay: one client (module Client) and the server (module      *)
(* Server) over one Redis.  They share the request stream, the response    *)
(* stream and the update channel and nothing else.  Every step is a step   *)
(* of one of them; the environment actions of both modules are gone, each  *)
(* now plays the other's environment.                                      *)
(*                                                                         *)
(* The environment that module Client assumes is an abstraction of the     *)
(* server; ClientSpec below is the claim that it is a sound one.           *)
(***************************************************************************)
EXTENDS Naturals, Sequences

CONSTANTS Queries, Keys, ClientReadCount, ServerReadCount, MaxSends, RespMax,
          Refreshed, MaxReqs, MaxClock, MaxPushes, MaxFaults, None

ASSUME RelayAssumption ==
  /\ ClientReadCount \in Nat \ {0} /\ ServerReadCount \in Nat \ {0} /\ RespMax \in Nat \ {0}
  /\ MaxSends \in Nat \ {0}
  /\ Refreshed \subseteq Keys
  /\ MaxReqs \in Nat /\ MaxClock \in Nat /\ MaxPushes \in Nat /\ MaxFaults \in Nat
  /\ None \notin Queries \cup Keys \cup Nat
  /\ None \notin [key : Keys, at : Nat]

VARIABLES pc, key, result, local, sf, waits, chan, xadd, sent, dpc, lastID, cur, upto,
          reqs, resps, trimmed, pushes,
          lost, group, pel, up, hpc, hwire, hat, outbox, ppc, pwire, store, clock, faults, resends

Stamp == 1..MaxClock
Answers == [key : Keys, at : Stamp]

(* Every response of this server goes to this client.  A request that was  *)
(* written once is answered at most once, and there are no more responses  *)
(* than requests and re-sent responses.                                    *)
C == INSTANCE Client WITH
       Foreign <- {}, Wires <- Answers, Stamps <- Stamp, ReadCount <- ClientReadCount,
       UniqueResp <- (MaxSends = 1), MaxResps <- MaxReqs + MaxSends - 1

S == INSTANCE Server WITH ReqIDs <- Queries, ReadCount <- ServerReadCount,
                            MaxResends <- MaxSends - 1

clientVars == <<pc, key, result, local, sf, waits, chan, xadd, sent, dpc, lastID, cur, upto>>
serverVars == <<lost, group, pel, up, hpc, hwire, hat, outbox, ppc, pwire, store, clock, faults, resends>>
vars == <<clientVars, serverVars, reqs, resps, trimmed, pushes>>

Init == C!Init /\ S!Init

(* Requests are bounded: a query is sent MaxSends times at most. *)
ClientStep ==
  /\ C!ClientNext
  /\ Len(reqs') <= MaxReqs
  /\ UNCHANGED serverVars

ServerStep == S!ServerNext /\ UNCHANGED clientVars

Next == ClientStep \/ ServerStep

Spec == Init /\ [][Next]_vars

-----------------------------------------------------------------------------

(* The server behaves as the client's module assumes: the relay implements *)
(* the client against its abstract environment, so what is shown of the    *)
(* client there holds here.                                                *)
ClientSpec == C!Spec

(* End to end, through both caches, coalescing and pushes: a query is      *)
(* answered with data for the key it asked, obtained from upstream before  *)
(* the time stamped on it.                                                 *)
AnswerSound ==
  /\ C!AnswersQuestion
  /\ \A q \in Queries : result[q].kind = "answer" => result[q].wire.at <= result[q].resolvedAt

(* Versioning, taken at its word: while a key is cached by the client, an  *)
(* older answer of upstream never replaces a newer one.                    *)
FresherStays ==
  [][\A k \in Keys : local[k] # None /\ local'[k] # None
        => local'[k].wire.at >= local[k].wire.at]_vars

=============================================================================
