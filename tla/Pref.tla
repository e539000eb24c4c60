-------------------------------- MODULE Pref --------------------------------
(***************************************************************************)
(* The preferred-IP cache of the resolver (internal/resolver/pref.go,      *)
(* pref_redis.go) as applyRace (race.go) uses it: concurrent resolutions   *)
(* of one name and type share one Redis hash.  The server runs one         *)
(* goroutine per request and a prefetch loop, so nothing orders them.      *)
(*                                                                         *)
(* Keys are independent: one hash is modelled.  An entry holds the winner  *)
(* ("" or no ip field at all reads as a negative entry), the hit counter,  *)
(* whether it is older than recheckAge, and whether Redis will expire it.  *)
(* The race itself (module PickWinner) is a choice of a winner or none.    *)
(*                                                                         *)
(* The client of redisx.go keeps go-redis's default retries: a command     *)
(* whose reply is lost is sent again, and Redis may carry out both copies. *)
(***************************************************************************)
EXTENDS Naturals, FiniteSets

CONSTANTS Resolvers,    \* goroutines resolving this name
          IPs,          \* addresses upstream may answer with
          RecheckHits,  \* hits after which a fresh race is due
          Failures,     \* TRUE: Redis operations may fail
          MaxResends,   \* bound: HINCRBYs that are sent again
          None          \* no value: nil IP, no entry

ASSUME PrefAssumption ==
  /\ IsFiniteSet(Resolvers)
  /\ RecheckHits \in Nat \ {0}
  /\ Failures \in BOOLEAN
  /\ MaxResends \in Nat
  /\ None \notin IPs

VARIABLES
  rpc,     \* [Resolvers -> where the goroutine is]
  answer,  \* [Resolvers -> addresses in the upstream answer]
  pick,    \* [Resolvers -> the address it settled on, if any]
  out,     \* [Resolvers -> addresses in the message it returned]
  entry,   \* the hash dns:pref:<name>:<type>
  resends, \* HINCRBYs that were sent again so far
  late     \* of their first copies, those Redis has yet to carry out

retryVars == <<resends, late>>
vars == <<rpc, answer, pick, out, entry, retryVars>>

Entry == [ip : IPs \cup {None}, hits : Nat, aged : BOOLEAN, ttl : BOOLEAN]

Init ==
  /\ rpc = [r \in Resolvers |-> "idle"]
  /\ answer = [r \in Resolvers |-> {}]
  /\ pick = [r \in Resolvers |-> None]
  /\ out = [r \in Resolvers |-> {}]
  /\ entry = None
  /\ resends = 0 /\ late = 0

Goto(r, l) == rpc' = [rpc EXCEPT ![r] = l]

(* narrow: the address records that are not the winner's are dropped. *)
Narrow(ips, ip) == {x \in ips : x = ip}

Return(r, ips) ==
  /\ Goto(r, "idle")
  /\ out' = [out EXCEPT ![r] = ips]

(* applyRace: with fewer than two addresses the answer is left alone. *)
Upstream(r, ips) ==
  /\ rpc[r] = "idle"
  /\ answer' = [answer EXCEPT ![r] = ips]
  /\ IF Cardinality(ips) < 2 THEN Return(r, ips) ELSE Goto(r, "load") /\ UNCHANGED out
  /\ UNCHANGED <<pick, entry, retryVars>>

(* applyPref's tests of a positive entry: a fresh race is due, or the      *)
(* remembered address is no longer in the answer.                          *)
NeverDue == FALSE

Due == entry.hits >= RecheckHits \/ entry.aged

AnyAddress(r) == TRUE

StillAnswered(r) == entry.ip \in answer[r]

(* LoadPref and what applyPref decides on it.  The race runs when there is *)
(* no entry, when the load fails (error or timeout), or when a positive    *)
(* entry does not apply.                                                   *)
LoadMiss(r) ==
  /\ rpc[r] = "load"
  /\ \/ Failures
     \/ entry = None
     \/ entry # None /\ entry.ip # None /\ (Due \/ ~StillAnswered(r))
  /\ Goto(r, "race")
  /\ UNCHANGED <<answer, pick, out, entry, retryVars>>

LoadNegative(r) ==
  /\ rpc[r] = "load"
  /\ entry # None /\ entry.ip = None
  /\ Return(r, answer[r])
  /\ UNCHANGED <<answer, pick, entry, retryVars>>

LoadHit(r) ==
  /\ rpc[r] = "load"
  /\ entry # None /\ entry.ip # None
  /\ ~Due
  /\ StillAnswered(r)
  /\ pick' = [pick EXCEPT ![r] = entry.ip]
  /\ Goto(r, "bump")
  /\ UNCHANGED <<answer, out, entry, retryVars>>

(* BumpPref: HINCRBY hits 1.  Redis creates the hash when it is gone; the  *)
(* error of a failed bump is ignored.                                      *)
BareHash == IF entry # None THEN [entry EXCEPT !.hits = @ + 1] ELSE [hits |-> 1]

Bumped ==
  IF entry # None
  THEN [entry EXCEPT !.hits = @ + 1]
  ELSE [ip |-> None, hits |-> 1, aged |-> TRUE, ttl |-> FALSE]

Bump(r) ==
  /\ rpc[r] = "bump"
  /\ entry' = Bumped \/ (Failures /\ UNCHANGED entry)
  /\ Return(r, Narrow(answer[r], pick[r]))
  /\ UNCHANGED <<answer, pick, retryVars>>

(* The reply to the HINCRBY is lost and go-redis sends it again.  Redis    *)
(* carries out the first copy now, later or, when that was lost, never.    *)
BumpAgain(r) ==
  /\ rpc[r] = "bump"
  /\ resends < MaxResends
  /\ resends' = resends + 1
  /\ late' = late + 1
  /\ UNCHANGED <<rpc, answer, pick, out, entry>>

BumpLate ==
  /\ late > 0
  /\ late' = late - 1
  /\ entry' = Bumped
  /\ UNCHANGED <<rpc, answer, pick, out, resends>>

(* pickWinner: some address of the answer, or nobody in the budget. *)
Race(r) ==
  /\ rpc[r] = "race"
  /\ \E ip \in answer[r] \cup {None} : pick' = [pick EXCEPT ![r] = ip]
  /\ Goto(r, "hset")
  /\ UNCHANGED <<answer, out, entry, retryVars>>

(* StorePref is a pipeline, not a transaction: HSET (which keeps a TTL the *)
(* key may have), then EXPIRE.  The pipeline may fail as a whole or after  *)
(* its first command; either way the answer is returned.                   *)
Result(r) == IF pick[r] = None THEN answer[r] ELSE Narrow(answer[r], pick[r])

StoreHSet(r) ==
  /\ rpc[r] = "hset"
  /\ entry' = [ip |-> pick[r], hits |-> 1, aged |-> FALSE,
               ttl |-> (entry # None /\ entry.ttl)]
  /\ Goto(r, "expire")
  /\ UNCHANGED <<answer, pick, out, retryVars>>

StoreExpire(r) ==
  /\ rpc[r] = "expire"
  /\ entry' = IF entry = None THEN None ELSE [entry EXCEPT !.ttl = TRUE]
  /\ Return(r, Result(r))
  /\ UNCHANGED <<answer, pick, retryVars>>

(* The pipeline is sent again, from its beginning. *)
StoreAgain(r) ==
  /\ Failures
  /\ rpc[r] = "expire"
  /\ Goto(r, "hset")
  /\ UNCHANGED <<answer, pick, out, entry, retryVars>>

StoreFail(r) ==
  /\ Failures
  /\ rpc[r] \in {"hset", "expire"}
  /\ Return(r, Result(r))
  /\ UNCHANGED <<answer, pick, entry, retryVars>>

(* Time: the entry passes recheckAge, or its TTL runs out. *)
Age ==
  /\ entry # None /\ ~entry.aged
  /\ entry' = [entry EXCEPT !.aged = TRUE]
  /\ UNCHANGED <<rpc, answer, pick, out, retryVars>>

Expire ==
  /\ entry # None /\ entry.ttl
  /\ entry' = None
  /\ UNCHANGED <<rpc, answer, pick, out, retryVars>>

Load(r) == LoadMiss(r) \/ LoadNegative(r) \/ LoadHit(r)
Store(r) == StoreHSet(r) \/ StoreExpire(r) \/ StoreAgain(r) \/ StoreFail(r)

Next ==
  \/ \E r \in Resolvers :
       \/ \E ips \in SUBSET IPs : Upstream(r, ips)
       \/ Load(r) \/ Bump(r) \/ BumpAgain(r) \/ Race(r) \/ Store(r)
  \/ BumpLate
  \/ Age
  \/ Expire

Spec == Init /\ [][Next]_vars

-----------------------------------------------------------------------------

(* Every variable keeps its shape; the hash, when it exists, reads as an   *)
(* entry whoever created it.                                               *)
TypeOK ==
  /\ rpc \in [Resolvers -> {"idle", "load", "bump", "race", "hset", "expire"}]
  /\ answer \in [Resolvers -> SUBSET IPs]
  /\ pick \in [Resolvers -> IPs \cup {None}]
  /\ out \in [Resolvers -> SUBSET IPs]
  /\ entry \in Entry \cup {None}
  /\ resends \in 0..MaxResends /\ late \in 0..resends

(* Racing may narrow an answer, never break one: what a resolution returns *)
(* is a non-empty part of what upstream answered to it, whatever entry     *)
(* other resolutions left behind.                                          *)
NeverBroken ==
  \A r \in Resolvers : rpc[r] = "idle" =>
     out[r] \subseteq answer[r] /\ (answer[r] # {} => out[r] # {})

(* The hit counter throttles revalidation: resolutions that loaded the     *)
(* entry before it was due may overshoot recheckHits, but by no more than  *)
(* one hit for each goroutine and one for each HINCRBY that was sent       *)
(* again, in whatever order Redis carries the copies out.                  *)
HitsBounded ==
  entry # None => entry.hits <= RecheckHits - 1 + Cardinality(Resolvers) + resends

(* A negative entry is trusted for a bounded time: Redis will expire it,   *)
(* or the goroutine that wrote it is about to set its TTL.                 *)
NegativeBounded ==
  entry # None /\ entry.ip = None =>
     entry.ttl \/ \E r \in Resolvers : rpc[r] = "expire"

=============================================================================
