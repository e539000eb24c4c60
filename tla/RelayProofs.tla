---------------------------- MODULE RelayProofs -----------------------------
(***************************************************************************)
(* Proofs about module Relay, for any number of queries, keys, requests,   *)
(* refreshes, faults and re-sent commands: the server keeps to what module *)
(* Client assumes of its environment, so the theorems about the client     *)
(* hold of the client with this server; and what a query is answered was   *)
(* obtained before the time stamped on it.                                 *)
(***************************************************************************)
EXTENDS Relay, FiniteSetTheorems, TLAPS

(* The modules of the two parts, with their theorems. *)
CP == INSTANCE ClientProofs WITH
        Foreign <- {}, Wires <- Answers, Stamps <- Stamp, ReadCount <- ClientReadCount,
        UniqueResp <- (MaxSends = 1), MaxResps <- MaxReqs + MaxSends - 1

SP == INSTANCE ServerProofs WITH ReqIDs <- Queries, ReadCount <- ServerReadCount,
                                 MaxResends <- MaxSends - 1

(* Positions of the request stream that still have a response coming to    *)
(* them: their handler has not given it, or is giving it.                  *)
Due == {i \in SP!Position : hpc[i] \in SP!Unanswered \/ SP!Owes(i)}

(* A handler hands over its response, if at all, when it is through. *)
HandOver ==
  \A i \in SP!Position : hpc[i] \in SP!Unanswered \cup {"hitsend"} => outbox[i] = None

(* Responses, given and to come, never outnumber the positions there are,  *)
(* up to those that were written once more.                                *)
CountInv == Len(resps) + Cardinality(Due) <= MaxReqs + resends

(* When no command is re-sent, a request that has a response coming has    *)
(* none yet: there is one position for each ID.                            *)
UniqueInv ==
  MaxSends = 1 =>
    /\ \A i, j \in 1..Len(reqs) : reqs[i].id = reqs[j].id => i = j
    /\ \A i \in 1..Len(reqs) : sent[reqs[i].id] >= 1
    /\ \A i \in 1..Len(reqs) : i \in Due => \A j \in 1..Len(resps) : resps[j].id # reqs[i].id

(* The answer in x was there when x was stamped. *)
Sound(x) == x.wire # None => x.wire.at <= x.resolvedAt

(* No answer the server holds is newer than its clock, and a stamp is      *)
(* never older than the answer it goes with.                               *)
HeldAt(i) ==
  /\ hwire[i] # None => hwire[i].at <= clock
  /\ hpc[i] \in {"hitsend", "cache", "publish"} => hwire[i].at <= hat[i]
  /\ outbox[i] # None => Sound(outbox[i])

HeldSound ==
  /\ \A k \in Keys : store[k] # None => store[k].at <= clock
  /\ pwire # None => pwire.at <= clock
  /\ \A i \in SP!Position : HeldAt(i)

StreamsSound ==
  /\ \A j \in 1..Len(resps) : Sound(resps[j])
  /\ \A j \in 1..Len(pushes) : Sound(pushes[j])

(* So it stays in the client. *)
ClientSound ==
  /\ \A q \in Queries : chan[q] # None => Sound(chan[q])
  /\ \A q \in Queries : result[q].kind = "answer" => Sound(result[q])
  /\ \A k \in Keys : local[k] # None => Sound(local[k])

(* The inductive invariants: of the composition, and of the stamps. *)
RelayInv ==
  /\ CP!TypeInv /\ SP!TypeInv /\ SP!GroupInv /\ SP!MatchInv
  /\ HandOver /\ CountInv /\ UniqueInv

StampInv == HeldSound /\ StreamsSound /\ ClientSound

-----------------------------------------------------------------------------
(* The parts: their assumptions hold, and the instances of Client and      *)
(* ClientProofs, of Server and ServerProofs, are the same specifications.  *)

(* What the two modules assume of their constants holds of the relay's. *)
LEMMA PartAssumptions == CP!ClientAssumption /\ SP!ServerAssumption
<1>1. CP!ClientAssumption
  BY RelayAssumption DEF CP!ClientAssumption, Stamp, Answers
<1>2. SP!ServerAssumption
  BY RelayAssumption DEF SP!ServerAssumption
<1> QED BY <1>1, <1>2

(* The initial states are the same. *)
LEMMA SameInit == (C!Init <=> CP!Init) /\ (S!Init <=> SP!Init)
BY DEF C!Init, CP!Init, C!Plain, CP!Plain, S!Init, SP!Init, S!Position, SP!Position

(* So are the steps of the client. *)
LEMMA SameClient == C!ClientNext <=> CP!ClientNext
<1> USE DEF C!queryVars, C!routeVars, C!sendVars, C!dispVars, C!respVars,
        CP!queryVars, CP!routeVars, CP!sendVars, CP!dispVars, CP!respVars,
        C!Plain, C!Answer, C!LocalSet, C!Stale, C!Selecting,
        CP!Plain, CP!Answer, CP!LocalSet, CP!Stale, CP!Selecting
<1>1. ASSUME NEW q \in Queries
      PROVE  C!HandleFormErr(q) <=> CP!HandleFormErr(q)
  BY DEF C!HandleFormErr, CP!HandleFormErr
<1>2. ASSUME NEW q \in Queries, NEW k \in Keys
      PROVE  C!LocalGet(q, k) <=> CP!LocalGet(q, k)
  BY DEF C!LocalGet, CP!LocalGet
<1>3. ASSUME NEW q \in Queries
      PROVE  C!Handle(q) <=> CP!Handle(q)
  BY DEF C!Handle, C!LocalDelete, C!SfLead, C!SfJoin, C!ResolveReturn, C!QuerySet, C!Flight,
     CP!Handle, CP!LocalDelete, CP!SfLead, CP!SfJoin, CP!ResolveReturn, CP!QuerySet, CP!Flight
<1>4. ASSUME NEW q \in Queries
      PROVE  C!Select(q) <=> CP!Select(q)
  BY DEF C!Select, C!SelectResponse, C!SelectXAdd, C!SelectTimeout, C!Timed, C!FromResponse,
     CP!Select, CP!SelectResponse, CP!SelectXAdd, CP!SelectTimeout, CP!Timed, CP!FromResponse
<1>5. ASSUME NEW q \in Queries
      PROVE  C!Sender(q) <=> CP!Sender(q)
  BY DEF C!Sender, C!XAddWrite, C!XAddReport, CP!Sender, CP!XAddWrite, CP!XAddReport
<1>6. ASSUME NEW k \in Keys
      PROVE  C!Expire(k) <=> CP!Expire(k)
  BY Zenon DEF C!Expire, CP!Expire
<1>7. C!Dispatcher <=> CP!Dispatcher
  BY DEF C!Dispatcher, C!DispatcherCall, C!DispatcherRead, C!DispatcherFail, C!DispatcherRoute,
     C!DispatcherSend, C!DeliverTo, C!AfterResponse, C!HasWaiter, C!Room, C!Larger,
     CP!Dispatcher, CP!DispatcherCall, CP!DispatcherRead, CP!DispatcherFail, CP!DispatcherRoute,
     CP!DispatcherSend, CP!DeliverTo, CP!AfterResponse, CP!HasWaiter, CP!Room, CP!Larger
<1>8. C!Subscriber <=> CP!Subscriber
  BY DEF C!Subscriber, C!SubscriberReceive, C!SubscriberLost,
     CP!Subscriber, CP!SubscriberReceive, CP!SubscriberLost
<1> QED
  BY <1>1, <1>2, <1>3, <1>4, <1>5, <1>6, <1>7, <1>8 DEF C!ClientNext, CP!ClientNext

(* Those of its environment. *)
LEMMA SameEnvironment == C!EnvNext <=> CP!EnvNext
BY DEF C!EnvNext, C!EnvRespond, C!EnvLose, C!EnvPush, C!Response, C!Update, C!respVars, C!clientVars,
   CP!EnvNext, CP!EnvRespond, CP!EnvLose, CP!EnvPush, CP!Response, CP!Update, CP!respVars, CP!clientVars

(* And those of the server. *)
LEMMA SameServer == S!ServerNext <=> SP!ServerNext
<1> USE DEF S!streamVars, S!groupVars, S!handleVars, S!loopVars, S!faultVars,
        SP!streamVars, SP!groupVars, SP!handleVars, SP!loopVars, SP!faultVars,
        S!Position, S!Goto, S!Gone, S!Tick, S!Fault, S!Reply, S!XAddResponse,
        SP!Position, SP!Goto, SP!Gone, SP!Tick, SP!Fault, SP!Reply, SP!XAddResponse
<1>1. ASSUME NEW i \in S!Position
      PROVE  S!Handler(i) <=> SP!Handler(i)
  <2>1. /\ S!HandleMalformed(i) <=> SP!HandleMalformed(i)
        /\ S!CacheGet(i) <=> SP!CacheGet(i)
        /\ S!HitStamp(i) <=> SP!HitStamp(i)
        /\ S!HitSend(i) <=> SP!HitSend(i)
    BY DEF S!HandleMalformed, S!CacheGet, S!Hit, S!HitStamp, S!HitSend, S!AfterHit,
       SP!HandleMalformed, SP!CacheGet, SP!Hit, SP!HitStamp, SP!HitSend, SP!AfterHit
  <2>2. /\ S!Resolve(i) <=> SP!Resolve(i)
        /\ S!HandleCache(i) <=> SP!HandleCache(i)
        /\ S!HandlePublish(i) <=> SP!HandlePublish(i)
        /\ S!Ack(i) <=> SP!Ack(i)
    BY DEF S!Resolve, S!NewWire, S!ErrReply, S!HandleCache, S!CacheSet, S!HandlePublish, S!Publish, S!Ack,
       SP!Resolve, SP!NewWire, SP!ErrReply, SP!HandleCache, SP!CacheSet, SP!HandlePublish, SP!Publish, SP!Ack
  <2> QED BY <2>1, <2>2 DEF S!Handler, SP!Handler
<1>2. ASSUME NEW i \in S!Position
      PROVE  /\ S!AsyncXAdd(i) <=> SP!AsyncXAdd(i)
             /\ S!XAddAgain(i) <=> SP!XAddAgain(i)
             /\ S!AckFails(i) <=> SP!AckFails(i)
  BY DEF S!AsyncXAdd, S!XAddAgain, S!AckFails, SP!AsyncXAdd, SP!XAddAgain, SP!AckFails
<1>3. (S!Start <=> SP!Start) /\ (S!Worker <=> SP!Worker) /\ (S!ReplyLost <=> SP!ReplyLost)
  BY DEF S!Start, S!EnsureGroup, S!Worker, S!XReadGroup, S!NoGroup, S!ReplyLost,
     SP!Start, SP!EnsureGroup, SP!Worker, SP!XReadGroup, SP!NoGroup, SP!ReplyLost
<1>4. S!Prefetch <=> SP!Prefetch
  <2>1. S!Cardinality(S!Unstamped) = SP!Cardinality(SP!Unstamped)
    BY DEF S!Cardinality, SP!Cardinality, S!Unstamped, SP!Unstamped
  <2>2. ASSUME NEW k \in Refreshed
        PROVE  S!PrefetchResolve(k) <=> SP!PrefetchResolve(k)
    BY <2>1 DEF S!PrefetchResolve, S!NewWire, SP!PrefetchResolve, SP!NewWire
  <2>3. (S!PrefetchCache <=> SP!PrefetchCache) /\ (S!PrefetchPublish <=> SP!PrefetchPublish)
    BY DEF S!PrefetchCache, S!PrefetchPublish, S!CacheSet, S!Publish,
       SP!PrefetchCache, SP!PrefetchPublish, SP!CacheSet, SP!Publish
  <2> QED BY <2>2, <2>3 DEF S!Prefetch, SP!Prefetch
<1>5. (S!Crash <=> SP!Crash) /\ (S!RedisRestart <=> SP!RedisRestart)
  BY DEF S!Crash, S!Running, S!HandlerPc, S!RedisRestart,
     SP!Crash, SP!Running, SP!HandlerPc, SP!RedisRestart
<1>6. ASSUME NEW k \in Keys
      PROVE  S!StoreExpire(k) <=> SP!StoreExpire(k)
  BY DEF S!StoreExpire, SP!StoreExpire
<1>7. S!Position = SP!Position
  OBVIOUS
<1> QED
  BY <1>1, <1>2, <1>3, <1>4, <1>5, <1>6, <1>7 DEF S!ServerNext, SP!ServerNext

-----------------------------------------------------------------------------
(* What a step of the server does to what the client shares with it, and   *)
(* to the responses that are due.                                          *)

(* Nothing of either but that a response may be dropped. *)
Silent ==
  /\ UNCHANGED <<resps, trimmed, pushes>>
  /\ Due' \subseteq Due /\ resends' = resends

(* A response is written, for the last time or as one of a command that is *)
(* sent again.                                                             *)
Responds(i, r) ==
  /\ SP!XAddResponse(r) /\ UNCHANGED pushes
  /\ i \in Due /\ i <= Len(reqs)
  /\ r \in SP!Response /\ SP!Fits(r, i)
  /\ \/ Due' \subseteq Due \ {i} /\ resends' = resends
     \/ Due' \subseteq Due /\ resends < MaxSends - 1 /\ resends' = resends + 1

(* An update is published. *)
Publishes(w, at) ==
  /\ SP!Publish(w, at) /\ UNCHANGED <<resps, trimmed>>
  /\ Due' \subseteq Due /\ resends' = resends

(* Redis loses the stream. *)
Loses ==
  /\ trimmed' = Len(resps) /\ UNCHANGED <<resps, pushes>>
  /\ Due' \subseteq Due /\ resends' = resends

ServerMove ==
  \/ Silent
  \/ \E i \in SP!Position, r \in SP!Response : Responds(i, r)
  \/ \E w \in SP!Wire, at \in 1..MaxClock : Publishes(w, at)
  \/ Loses

(* Where a handler stands decides whether its response is due. *)
LEMMA DueKept ==
  ASSUME \A i \in SP!Position :
           \/ hpc'[i] = hpc[i] /\ outbox'[i] = outbox[i]
           \/ i \in Due
           \/ hpc'[i] \notin SP!Unanswered \cup {"hitsend"} /\ outbox'[i] = None
  PROVE  Due' \subseteq Due
BY DEF Due, SP!Owes

(* A step of a handler or of its XADD goroutine. *)
LEMMA HandlerMove ==
  ASSUME SP!TypeInv, SP!MatchInv, HandOver, NEW i \in SP!Position,
         SP!Handler(i) \/ SP!AsyncXAdd(i) \/ SP!XAddAgain(i) \/ SP!AckFails(i)
  PROVE  ServerMove /\ HandOver' /\ UNCHANGED reqs
<1> USE PartAssumptions DEF SP!streamVars, SP!handleVars, SP!faultVars, SP!Goto, SP!Gone
<1>1. /\ hpc \in [SP!Position -> SP!HandlerPc]
      /\ outbox \in [SP!Position -> SP!Response \cup {None}]
      /\ resps \in Seq(SP!Response) /\ pushes \in Seq(SP!Update)
  BY DEF SP!TypeInv, SP!TypeOK
<1>2. /\ hpc[i] # "off" \/ outbox[i] # None => i <= Len(reqs)
      /\ hpc[i] \in {"hit", "hitsend", "cache", "publish"} => hwire[i] \in SP!Wire
      /\ hpc[i] \in {"hitsend", "cache", "publish"} => hat[i] \in 1..MaxClock
  BY DEF SP!TypeInv, SP!HandlerShape
<1>3. i \in Due <=> hpc[i] \in SP!Unanswered \cup {"hitsend"} \/ outbox[i] # None
  BY DEF Due, SP!Owes
<1>4. \A p \in SP!Position \ {i} : hpc'[p] = hpc[p] /\ outbox'[p] = outbox[p]
  BY <1>1 DEF SP!Handler, SP!HandleMalformed, SP!CacheGet, SP!HitStamp, SP!HitSend, SP!Resolve,
     SP!HandleCache, SP!HandlePublish, SP!Ack, SP!AsyncXAdd, SP!XAddAgain, SP!AckFails
<1>5. ASSUME hpc'[i] \in SP!Unanswered \cup {"hitsend"} => outbox'[i] = None
      PROVE  HandOver'
  BY <1>4, <1>5 DEF HandOver
<1>6. CASE SP!HandleMalformed(i) \/ SP!CacheGet(i) \/ SP!HitStamp(i) \/ SP!HandleCache(i)
  <2>1. /\ UNCHANGED <<reqs, resps, trimmed, pushes, outbox, resends>>
        /\ hpc[i] \in {"get", "hit", "cache"}
        /\ hpc' = [hpc EXCEPT ![i] = hpc'[i]]
    BY <1>1, <1>6 DEF SP!HandleMalformed, SP!CacheGet, SP!HitStamp, SP!HandleCache
  <2>2. i \in Due /\ outbox[i] = None
    BY <1>3, <2>1 DEF HandOver, SP!Unanswered
  <2>3. Due' \subseteq Due
    BY <1>4, <2>2, DueKept
  <2> QED BY <1>5, <2>1, <2>2, <2>3 DEF ServerMove, Silent
<1>7. CASE SP!HitSend(i)
  <2>1. /\ UNCHANGED <<reqs, pushes, outbox, resends>>
        /\ hpc[i] = "hitsend" /\ hpc'[i] = "ack"
        /\ SP!XAddResponse(SP!Reply(i)) \/ UNCHANGED <<resps, trimmed>>
    BY <1>1, <1>7 DEF SP!HitSend, SP!AfterHit
  <2>2. i \in Due /\ outbox[i] = None /\ i <= Len(reqs)
    BY <1>2, <1>3, <2>1 DEF HandOver
  <2>3. Due' \subseteq Due /\ i \notin Due'
    BY <1>4, <2>1, <2>2, DueKept DEF Due, SP!Owes, SP!Unanswered
  <2>4. SP!Reply(i) \in SP!Response /\ SP!Fits(SP!Reply(i), i)
    BY <1>2, <2>1, <2>2, SP!ReplyType, SP!ReplyFits DEF SP!TypeInv, SP!MatchInv
  <2>5. CASE SP!XAddResponse(SP!Reply(i))
    <3>1. Responds(i, SP!Reply(i))
      BY <2>1, <2>2, <2>3, <2>4, <2>5 DEF Responds
    <3> QED BY <1>5, <2>1, <2>2, <2>4, <3>1 DEF ServerMove
  <2>6. CASE UNCHANGED <<resps, trimmed>>
    BY <1>5, <2>1, <2>2, <2>3, <2>6 DEF ServerMove, Silent
  <2> QED BY <2>1, <2>5, <2>6
<1>8. CASE SP!Resolve(i)
  <2>1. /\ UNCHANGED <<reqs, resps, trimmed, pushes, resends>>
        /\ hpc[i] = "resolve"
        /\ hpc'[i] = "ack" \/ (hpc'[i] = "cache" /\ outbox' = outbox)
    BY <1>1, <1>8 DEF SP!Resolve
  <2>2. i \in Due /\ outbox[i] = None
    BY <1>3, <2>1 DEF HandOver, SP!Unanswered
  <2>3. Due' \subseteq Due
    BY <1>4, <2>2, DueKept
  <2> QED BY <1>5, <2>1, <2>2, <2>3 DEF ServerMove, Silent, SP!Unanswered
<1>9. CASE SP!HandlePublish(i)
  <2>1. /\ UNCHANGED <<reqs, resps, trimmed, resends>>
        /\ hpc[i] = "publish" /\ hpc'[i] = "ack"
        /\ SP!Publish(hwire[i], hat[i])
    BY <1>1, <1>9 DEF SP!HandlePublish
  <2>2. i \in Due
    BY <1>3, <2>1 DEF SP!Unanswered
  <2>3. Due' \subseteq Due
    BY <1>4, <2>2, DueKept
  <2>4. Publishes(hwire[i], hat[i]) /\ hwire[i] \in SP!Wire /\ hat[i] \in 1..MaxClock
    BY <1>2, <2>1, <2>3 DEF Publishes
  <2> QED BY <1>5, <2>1, <2>4 DEF ServerMove, SP!Unanswered
<1>10. CASE SP!Ack(i) \/ SP!AckFails(i)
  <2>1. /\ UNCHANGED <<reqs, resps, trimmed, pushes, outbox, resends>>
        /\ hpc'[i] \in {"done", "dead"} /\ hpc[i] = "ack"
    BY <1>1, <1>10 DEF SP!Ack, SP!AckFails, SP!Fault
  <2>2. hpc'[i] \notin SP!Unanswered \cup {"hitsend"}
    BY <2>1 DEF SP!Unanswered
  <2>3. Due' \subseteq Due
    BY <1>3, <1>4, <2>1, <2>2, DueKept
  <2> QED BY <1>5, <2>1, <2>2, <2>3 DEF ServerMove, Silent
<1>11. CASE SP!AsyncXAdd(i)
  <2>1. /\ UNCHANGED <<reqs, pushes, hpc, resends>>
        /\ outbox[i] # None /\ outbox'[i] = None
        /\ SP!XAddResponse(outbox[i]) \/ UNCHANGED <<resps, trimmed>>
    BY <1>1, <1>11 DEF SP!AsyncXAdd
  <2>2. i \in Due /\ i <= Len(reqs) /\ hpc'[i] \notin SP!Unanswered \cup {"hitsend"}
    BY <1>2, <1>3, <2>1 DEF HandOver
  <2>3. Due' \subseteq Due /\ i \notin Due'
    BY <1>4, <2>1, <2>2, DueKept DEF Due, SP!Owes
  <2>4. outbox[i] \in SP!Response /\ SP!Fits(outbox[i], i)
    BY <1>1, <2>1 DEF SP!MatchInv, SP!HandlersMatch
  <2>5. CASE SP!XAddResponse(outbox[i])
    <3>1. Responds(i, outbox[i])
      BY <2>1, <2>2, <2>3, <2>4, <2>5 DEF Responds
    <3> QED BY <1>5, <2>1, <2>4, <3>1 DEF ServerMove
  <2>6. CASE UNCHANGED <<resps, trimmed>>
    BY <1>5, <2>1, <2>3, <2>6 DEF ServerMove, Silent
  <2> QED BY <2>1, <2>5, <2>6
<1>12. CASE SP!XAddAgain(i)
  <2>1. /\ UNCHANGED <<reqs, pushes, hpc, outbox>>
        /\ resends < MaxSends - 1 /\ resends' = resends + 1
        /\ \/ hpc[i] = "hitsend" /\ SP!XAddResponse(SP!Reply(i))
           \/ outbox[i] # None /\ SP!XAddResponse(outbox[i])
    BY <1>12 DEF SP!XAddAgain
  <2>2. i \in Due /\ i <= Len(reqs)
    BY <1>2, <1>3, <2>1
  <2>3. Due' = Due
    BY <2>1 DEF Due, SP!Owes
  <2>4. hpc[i] = "hitsend" => SP!Reply(i) \in SP!Response /\ SP!Fits(SP!Reply(i), i)
    BY <1>2, <2>2, SP!ReplyType, SP!ReplyFits DEF SP!TypeInv, SP!MatchInv
  <2>5. outbox[i] # None => outbox[i] \in SP!Response /\ SP!Fits(outbox[i], i)
    BY <1>1 DEF SP!MatchInv, SP!HandlersMatch
  <2>6. PICK r \in SP!Response : SP!XAddResponse(r) /\ SP!Fits(r, i)
    BY <2>1, <2>4, <2>5
  <2>7. Responds(i, r)
    BY <2>1, <2>2, <2>3, <2>6 DEF Responds
  <2>8. HandOver'
    BY <2>1 DEF HandOver
  <2> QED BY <2>1, <2>7, <2>8 DEF ServerMove
<1> QED
  BY <1>6, <1>7, <1>8, <1>9, <1>10, <1>11, <1>12 DEF SP!Handler

(* Any other step of the server. *)
LEMMA OtherMove ==
  ASSUME SP!TypeInv, SP!GroupInv, HandOver,
         \/ SP!Start \/ SP!Worker \/ SP!Prefetch \/ SP!Crash \/ SP!ReplyLost \/ SP!RedisRestart
         \/ \E k \in Keys : SP!StoreExpire(k)
  PROVE  ServerMove /\ HandOver' /\ UNCHANGED reqs
<1> USE PartAssumptions DEF SP!streamVars, SP!handleVars, SP!faultVars
<1>1. /\ hpc \in [SP!Position -> SP!HandlerPc]
      /\ outbox \in [SP!Position -> SP!Response \cup {None}]
  BY DEF SP!TypeInv, SP!TypeOK
<1>2. ASSUME UNCHANGED <<hpc, outbox>>
      PROVE  Due' = Due /\ HandOver'
  BY <1>2 DEF Due, HandOver, SP!Owes
<1>3. CASE \/ SP!Start \/ SP!NoGroup \/ SP!PrefetchCache \/ (\E k \in Refreshed : SP!PrefetchResolve(k))
           \/ \E k \in Keys : SP!StoreExpire(k)
  <2>1. UNCHANGED <<reqs, resps, trimmed, pushes, hpc, outbox, resends>>
    BY <1>3 DEF SP!Start, SP!NoGroup, SP!PrefetchCache, SP!PrefetchResolve, SP!StoreExpire
  <2> QED BY <1>2, <2>1 DEF ServerMove, Silent
<1>4. CASE SP!PrefetchPublish
  <2>1. /\ UNCHANGED <<reqs, resps, trimmed, hpc, outbox, resends>>
        /\ SP!Publish(pwire, clock + 1)
    BY <1>4 DEF SP!PrefetchPublish
  <2>2. pwire \in SP!Wire
    BY <1>4 DEF SP!PrefetchPublish, SP!TypeInv, SP!LoopShape
  <2>3. clock + 1 \in 1..MaxClock
    <3>1. clock < MaxClock
      BY <1>4 DEF SP!PrefetchPublish, SP!Tick
    <3>2. clock \in 0..MaxClock
      BY DEF SP!TypeInv, SP!TypeOK
    <3> QED BY <3>1, <3>2, RelayAssumption
  <2>4. Publishes(pwire, clock + 1)
    BY <1>2, <2>1 DEF Publishes
  <2> QED BY <1>2, <2>1, <2>2, <2>3, <2>4 DEF ServerMove
<1>5. CASE SP!XReadGroup \/ SP!ReplyLost
  <2>1. /\ UNCHANGED <<reqs, resps, trimmed, pushes, outbox, resends>>
        /\ \A i \in SP!Position : hpc'[i] = hpc[i] \/ (hpc[i] = "off" /\ hpc'[i] \in {"get", "dead"})
    BY <1>5, SP!GroupBatch DEF SP!XReadGroup, SP!ReplyLost, SP!Fault
  <2>2. Due' \subseteq Due
    BY <2>1, DueKept DEF Due, SP!Unanswered
  <2>3. HandOver'
    BY <2>1 DEF HandOver, SP!Unanswered
  <2> QED BY <2>1, <2>2, <2>3 DEF ServerMove, Silent
<1>6. CASE SP!Crash
  <2>1. /\ UNCHANGED <<reqs, resps, trimmed, pushes, resends>>
        /\ \A i \in SP!Position : outbox'[i] = None
    BY <1>6 DEF SP!Crash, SP!Fault
  <2>2. \A i \in SP!Position : hpc'[i] \in {"off", "done", "dead"} /\ (hpc'[i] = "off" => hpc[i] = "off")
    BY <1>1, <1>6 DEF SP!Crash, SP!Running, SP!HandlerPc
  <2>3. Due' \subseteq Due
    BY <2>1, <2>2, DueKept DEF Due, SP!Unanswered
  <2>4. HandOver'
    BY <2>1 DEF HandOver
  <2> QED BY <2>1, <2>3, <2>4 DEF ServerMove, Silent
<1>7. CASE SP!RedisRestart
  <2>1. UNCHANGED <<reqs, resps, pushes, hpc, outbox, resends>> /\ trimmed' = Len(resps)
    BY <1>7 DEF SP!RedisRestart, SP!Fault
  <2> QED BY <1>2, <2>1 DEF ServerMove, Loses
<1> QED
  BY <1>3, <1>4, <1>5, <1>6, <1>7 DEF SP!Worker, SP!Prefetch

-----------------------------------------------------------------------------
(* The server keeps to the environment of module Client.                   *)

(* The responses that are due can be counted. *)
LEMMA DueFinite ==
  /\ IsFiniteSet(Due) /\ Cardinality(Due) \in Nat /\ Cardinality(Due) <= MaxReqs
  /\ \A i \in Due : Cardinality(Due \ {i}) = Cardinality(Due) - 1
<1>1. IsFiniteSet(1..MaxReqs) /\ Cardinality(1..MaxReqs) = MaxReqs
  <2>1. MaxReqs \in Nat /\ 1 \in Int /\ MaxReqs \in Int
    BY RelayAssumption
  <2>2. IsFiniteSet(1..MaxReqs) /\ Cardinality(1..MaxReqs) = IF 1 > MaxReqs THEN 0 ELSE MaxReqs - 1 + 1
    BY <2>1, FS_Interval, Zenon
  <2> QED BY <2>1, <2>2
<1>2. Due \in SUBSET (1..MaxReqs)
  BY DEF Due, SP!Position
<1>3. IsFiniteSet(Due) /\ Cardinality(Due) <= MaxReqs
  BY <1>1, <1>2, FS_Subset
<1> QED BY <1>3, FS_CardinalityType, FS_RemoveElement

(* A smaller set of them counts no more. *)
LEMMA DueFewer ==
  ASSUME NEW D, D \subseteq Due
  PROVE  Cardinality(D) \in Nat /\ Cardinality(D) <= Cardinality(Due)
<1>1. D \in SUBSET Due
  OBVIOUS
<1> QED BY <1>1, DueFinite, FS_Subset, FS_CardinalityType

(* XADD appends its response. *)
LEMMA XAddAppends ==
  ASSUME SP!TypeInv, NEW r \in SP!Response, SP!XAddResponse(r)
  PROVE  /\ Len(resps) \in Nat /\ Len(resps') = Len(resps) + 1 /\ resps'[Len(resps) + 1] = r
         /\ \A j \in 1..Len(resps) : resps'[j] = resps[j]
         /\ resps' = Append(resps, r)
         /\ trimmed' \in trimmed..Len(resps)
<1>1. resps \in Seq(SP!Response) /\ trimmed \in 0..Len(resps)
  BY DEF SP!TypeInv, SP!TypeOK
<1>2. resps' = Append(resps, r) /\ trimmed' \in trimmed..Len(resps)
  BY DEF SP!XAddResponse
<1> QED BY <1>1, <1>2

(* What is due was counted, and is counted still. *)
LEMMA CountMove ==
  ASSUME SP!TypeInv, CountInv, ServerMove
  PROVE  CountInv'
<1>1. Len(resps) \in Nat /\ resends \in Nat
  BY RelayAssumption DEF SP!TypeInv, SP!TypeOK
<1>2. ASSUME Due' \subseteq Due
      PROVE  Cardinality(Due') \in Nat /\ Cardinality(Due') <= Cardinality(Due)
  BY <1>2, DueFewer
<1>3. CASE Silent \/ Loses \/ \E w \in SP!Wire, at \in 1..MaxClock : Publishes(w, at)
  <2>1. resps' = resps /\ resends' = resends /\ Due' \subseteq Due
    BY <1>3 DEF Silent, Loses, Publishes
  <2> QED BY <1>1, <1>2, <2>1, DueFinite, RelayAssumption DEF CountInv
<1>4. ASSUME NEW i \in SP!Position, NEW r \in SP!Response, Responds(i, r)
      PROVE  CountInv'
  <2>1. Len(resps') = Len(resps) + 1
    BY <1>4, XAddAppends DEF Responds
  <2>2. CASE Due' \subseteq Due \ {i} /\ resends' = resends
    <3>1. Due \ {i} \subseteq Due /\ IsFiniteSet(Due) /\ Due' \in SUBSET (Due \ {i})
      BY <2>2, DueFinite
    <3>2. IsFiniteSet(Due \ {i})
      BY <3>1, FS_Subset
    <3>3. Cardinality(Due') \in Nat /\ Cardinality(Due') <= Cardinality(Due \ {i})
      BY <3>1, <3>2, FS_Subset, FS_CardinalityType
    <3>4. Cardinality(Due \ {i}) = Cardinality(Due) - 1
      BY <1>4, DueFinite DEF Responds
    <3> QED BY <1>1, <2>1, <2>2, <3>3, <3>4, DueFinite, RelayAssumption DEF CountInv
  <2>3. CASE Due' \subseteq Due /\ resends' = resends + 1
    BY <1>1, <1>2, <2>1, <2>3, DueFinite, RelayAssumption DEF CountInv
  <2> QED BY <1>4, <2>2, <2>3 DEF Responds
<1> QED BY <1>3, <1>4 DEF ServerMove

(* An ID that has been answered is not due an answer, when there is one    *)
(* request for it and no command is re-sent.                               *)
LEMMA UniqueMove ==
  ASSUME SP!TypeInv, UniqueInv, ServerMove, UNCHANGED <<reqs, sent>>
  PROVE  UniqueInv'
<1> SUFFICES ASSUME MaxSends = 1
             PROVE  \A i \in 1..Len(reqs) : i \in Due' =>
                      \A j \in 1..Len(resps') : resps'[j].id # reqs[i].id
  BY DEF UniqueInv
<1>1. resends = 0
  BY RelayAssumption DEF SP!TypeInv, SP!TypeOK
<1>2. CASE resps' = resps /\ Due' \subseteq Due
  BY <1>2 DEF UniqueInv
<1>3. ASSUME NEW i \in SP!Position, NEW r \in SP!Response, Responds(i, r),
             NEW p \in 1..Len(reqs), p \in Due', NEW j \in 1..Len(resps')
      PROVE  resps'[j].id # reqs[p].id
  <2>1. Due' \subseteq Due \ {i} /\ r.id = reqs[i].id /\ i \in 1..Len(reqs)
    BY <1>1, <1>3, RelayAssumption DEF Responds, SP!Fits, SP!Position, SP!TypeInv, SP!TypeOK
  <2>2. /\ Len(resps) \in Nat /\ Len(resps') = Len(resps) + 1 /\ resps'[Len(resps) + 1] = r
        /\ \A m \in 1..Len(resps) : resps'[m] = resps[m]
    BY <1>3, XAddAppends DEF Responds
  <2>3. p # i /\ p \in Due
    BY <1>3, <2>1
  <2>4. reqs[p].id # reqs[i].id
    BY <2>1, <2>3 DEF UniqueInv
  <2>5. j \in 1..Len(resps) \/ j = Len(resps) + 1
    BY <2>2
  <2> QED BY <2>1, <2>2, <2>3, <2>4, <2>5 DEF UniqueInv
<1> QED BY <1>2, <1>3 DEF ServerMove, Silent, Loses, Publishes

(* The messages of the server are the ones the client knows. *)
LEMMA SameMessages ==
  SP!Wire = Answers /\ SP!Response = CP!Response /\ SP!Update = CP!Update
BY DEF SP!Wire, SP!Response, SP!Update, CP!Response, CP!Update, Answers, Stamp

(* What the server does is what the client expects of the rest of the      *)
(* system, or nothing to it.                                               *)
LEMMA MoveIsEnvironment ==
  ASSUME SP!TypeInv, CountInv, UniqueInv, ServerMove, UNCHANGED <<clientVars, reqs>>
  PROVE  [CP!EnvNext]_(CP!vars)
<1>1. /\ Len(resps) \in Nat /\ resends \in 0..(MaxSends - 1) /\ MaxSends \in Nat \ {0}
      /\ trimmed \in 0..Len(resps) /\ Len(reqs) \in Nat
  BY RelayAssumption DEF SP!TypeInv, SP!TypeOK
<1>2. UNCHANGED CP!clientVars
  BY DEF clientVars, CP!clientVars
<1>3. CASE Silent
  BY <1>2, <1>3 DEF Silent, CP!vars
<1>4. ASSUME NEW i \in SP!Position, NEW r \in SP!Response, Responds(i, r)
      PROVE  CP!EnvNext
  <2>1. Len(resps) < MaxReqs + MaxSends - 1
    <3>1. Cardinality(Due \ {i}) = Cardinality(Due) - 1 /\ Cardinality(Due \ {i}) \in Nat
          /\ Cardinality(Due) \in Nat
      BY <1>4, DueFinite, DueFewer DEF Responds
    <3> QED BY <1>1, <3>1, RelayAssumption DEF CountInv
  <2>2. /\ resps' = Append(resps, r) /\ trimmed' \in trimmed..Len(resps)
        /\ trimmed' \in 0..Len(resps) /\ UNCHANGED pushes
    BY <1>1, <1>4, XAddAppends DEF Responds
  <2>3. /\ i \in 1..Len(reqs) /\ i \in Due /\ r.id = reqs[i].id
        /\ r.wire # None => reqs[i].key = r.wire.key
    BY <1>1, <1>4, RelayAssumption DEF Responds, SP!Fits, SP!Position
  <2>4. MaxSends = 1 => \A j \in 1..Len(resps) : resps[j].id # r.id
    BY <2>3 DEF UniqueInv
  <2>5. CP!EnvRespond(r, trimmed')
    BY <1>2, <2>1, <2>2, <2>3, <2>4 DEF CP!EnvRespond
  <2> QED BY <2>2, <2>5, SameMessages DEF CP!EnvNext
<1>5. ASSUME NEW w \in SP!Wire, NEW at \in 1..MaxClock, Publishes(w, at)
      PROVE  [CP!EnvNext]_(CP!vars)
  <2> DEFINE u == [key |-> w.key, wire |-> w, resolvedAt |-> at]
  <2>1. CASE UNCHANGED pushes
    BY <1>2, <1>5, <2>1 DEF Publishes, CP!vars
  <2>2. CASE Len(pushes) < MaxPushes /\ pushes' = Append(pushes, u)
    <3>1. u \in CP!Update /\ u.wire.key = u.key
      BY SameMessages DEF SP!Update, SP!Wire
    <3>2. CP!EnvPush(u)
      BY <1>2, <1>5, <2>2, <3>1 DEF Publishes, CP!EnvPush, CP!respVars
    <3> QED BY <3>1, <3>2 DEF CP!EnvNext
  <2> QED BY <1>5, <2>1, <2>2 DEF Publishes, SP!Publish
<1>6. CASE Loses
  <2>1. CASE trimmed = Len(resps)
    BY <1>2, <1>6, <2>1 DEF Loses, CP!vars
  <2>2. CASE trimmed < Len(resps)
    BY <1>2, <1>6, <2>2 DEF Loses, CP!EnvLose, CP!EnvNext
  <2> QED BY <1>1, <2>1, <2>2
<1> QED BY <1>3, <1>4, <1>5, <1>6 DEF ServerMove

-----------------------------------------------------------------------------
(* What a step of the client does to what the server shares with it.       *)

(* The request of q is written. *)
Requests(q) ==
  /\ reqs' = Append(reqs, [id |-> q, key |-> key[q]])
  /\ key[q] \in Keys /\ sent[q] < MaxSends
  /\ sent' = [sent EXCEPT ![q] = @ + 1]
  /\ UNCHANGED pushes

(* Updates are taken from the channel, or lost with it. *)
Listens ==
  /\ pushes # <<>> /\ (pushes' = Tail(pushes) \/ pushes' = <<>>)
  /\ UNCHANGED <<reqs, sent>>

(* A step of the client is one of these, or leaves all that alone. *)
LEMMA ClientMove ==
  ASSUME CP!TypeInv, CP!ClientNext
  PROVE  /\ UNCHANGED <<resps, trimmed>>
         /\ (\E q \in Queries : Requests(q)) \/ Listens \/ UNCHANGED <<reqs, sent, pushes>>
<1> USE DEF CP!sendVars, CP!respVars
<1>1. ASSUME NEW q \in Queries, CP!XAddWrite(q)
      PROVE  UNCHANGED <<resps, trimmed>> /\ Requests(q)
  BY <1>1 DEF CP!XAddWrite, Requests, CP!TypeInv, CP!QueryShape
<1>2. ASSUME NEW q \in Queries,
             \/ CP!HandleFormErr(q) \/ (\E k \in Keys : CP!LocalGet(q, k))
             \/ CP!Handle(q) \/ CP!Select(q) \/ CP!XAddReport(q)
      PROVE  UNCHANGED <<resps, trimmed, reqs, sent, pushes>>
  BY <1>2 DEF CP!HandleFormErr, CP!LocalGet, CP!Handle, CP!LocalDelete, CP!SfLead, CP!SfJoin,
     CP!ResolveReturn, CP!QuerySet, CP!Select, CP!SelectResponse, CP!SelectXAdd, CP!SelectTimeout, CP!XAddReport
<1>3. CASE CP!Dispatcher \/ \E k \in Keys : CP!Expire(k)
  <2>1. UNCHANGED <<resps, trimmed, reqs, sent, pushes>>
    BY <1>3 DEF CP!Dispatcher, CP!DispatcherCall, CP!DispatcherRead, CP!DispatcherFail, CP!DispatcherRoute,
       CP!DispatcherSend, CP!DeliverTo, CP!Expire
  <2> QED BY <2>1
<1>4. CASE CP!Subscriber
  BY <1>4 DEF CP!Subscriber, CP!SubscriberReceive, CP!SubscriberLost, Listens
<1> QED
  BY <1>1, <1>2, <1>3, <1>4 DEF CP!ClientNext, CP!Sender

(* The client leaves the server as it is, and at most adds a request to    *)
(* the stream.                                                             *)
LEMMA ServerUntouched ==
  ASSUME SP!TypeInv, SP!GroupInv, HandOver, CountInv, UNCHANGED <<serverVars, resps, trimmed>>,
         reqs' \in Seq(SP!Request), Len(reqs) <= Len(reqs'), Len(reqs') <= MaxReqs,
         \A i \in 1..Len(reqs) : reqs'[i] = reqs[i],
         pushes' \in Seq(SP!Update)
  PROVE  SP!TypeInv' /\ SP!GroupInv' /\ HandOver' /\ CountInv' /\ Due' = Due
<1>1. /\ lost' = lost /\ group' = group /\ pel' = pel /\ up' = up
      /\ hpc' = hpc /\ hwire' = hwire /\ hat' = hat /\ outbox' = outbox
      /\ ppc' = ppc /\ pwire' = pwire /\ store' = store
      /\ clock' = clock /\ faults' = faults /\ resends' = resends
      /\ resps' = resps /\ trimmed' = trimmed
  BY DEF serverVars
<1>2. Len(reqs) \in Nat /\ Len(reqs') \in Nat
  BY DEF SP!TypeInv, SP!TypeOK
<1>3. SP!TypeOK'
  <2>1. lost \in 0..Len(reqs') /\ group \in 0..Len(reqs') \cup {None} /\ pel \subseteq 1..Len(reqs')
    BY <1>2 DEF SP!TypeInv, SP!TypeOK
  <2> QED BY <1>1, <2>1 DEF SP!TypeInv, SP!TypeOK
<1>4. SP!HandlerShape'
  <2>1. \A i \in SP!Position : i <= Len(reqs) => i <= Len(reqs') /\ reqs'[i] = reqs[i]
    BY <1>2, RelayAssumption DEF SP!Position
  <2> QED BY <1>1, <2>1 DEF SP!TypeInv, SP!HandlerShape
<1>5. SP!LoopShape'
  BY <1>1 DEF SP!TypeInv, SP!LoopShape
<1>6. SP!GroupInv'
  BY <1>1 DEF SP!GroupInv, SP!DeliveryInv, SP!PendingExact
<1>7. Due' = Due
  BY <1>1 DEF Due, SP!Owes
<1>8. HandOver' /\ CountInv'
  BY <1>1, <1>7 DEF HandOver, CountInv
<1> QED BY <1>3, <1>4, <1>5, <1>6, <1>7, <1>8 DEF SP!TypeInv

(* A request is written. *)
LEMMA RequestStep ==
  ASSUME CP!TypeInv, SP!TypeInv, SP!GroupInv, SP!MatchInv, HandOver, CountInv, UniqueInv,
         UNCHANGED <<serverVars, resps, trimmed>>, NEW q \in Queries, Requests(q), Len(reqs') <= MaxReqs
  PROVE  SP!TypeInv' /\ SP!GroupInv' /\ SP!MatchInv' /\ HandOver' /\ CountInv' /\ UniqueInv'
<1> DEFINE r == [id |-> q, key |-> key[q]]
<1>1. r \in SP!Request /\ reqs \in Seq(SP!Request) /\ r.id = q
  BY DEF Requests, SP!Request, SP!TypeInv, SP!TypeOK
<1>2. reqs' = Append(reqs, r) /\ UNCHANGED pushes
  BY DEF Requests
<1> HIDE DEF r
<1>3. /\ Len(reqs) \in Nat /\ Len(reqs') = Len(reqs) + 1 /\ reqs'[Len(reqs) + 1] = r
      /\ \A i \in 1..Len(reqs) : reqs'[i] = reqs[i]
      /\ reqs' \in Seq(SP!Request)
  BY <1>1, <1>2
<1>4. SP!TypeInv' /\ SP!GroupInv' /\ HandOver' /\ CountInv' /\ Due' = Due
  BY <1>2, <1>3, ServerUntouched DEF SP!TypeInv, SP!TypeOK
<1>5. SP!RespsMatch'
  <2>1. ASSUME NEW j \in 1..Len(resps)
        PROVE  \E i \in 1..Len(reqs') : SP!Fits(resps[j], i)'
    <3>1. PICK i \in 1..Len(reqs) : SP!Fits(resps[j], i)
      BY DEF SP!MatchInv, SP!RespsMatch
    <3>2. i \in 1..Len(reqs') /\ SP!Fits(resps[j], i)'
      BY <1>3, <3>1 DEF SP!Fits
    <3> QED BY <3>2
  <2> QED BY <2>1 DEF SP!RespsMatch
<1>6. SP!HandlersMatch'
  BY <1>3, RelayAssumption DEF SP!MatchInv, SP!HandlersMatch, SP!Fits, SP!TypeInv, SP!HandlerShape, SP!Position, serverVars
<1>7. SP!MatchInv'
  BY <1>2, <1>5, <1>6 DEF SP!MatchInv, SP!PushesMatch, SP!StoreMatches, serverVars
<1>8. UniqueInv'
  <2> SUFFICES ASSUME MaxSends = 1 PROVE UniqueInv'
    BY DEF UniqueInv
  <2>1. sent \in [Queries -> Nat] /\ sent[q] = 0 /\ sent' = [sent EXCEPT ![q] = 1]
    <3>1. sent \in [Queries -> Nat]
      BY DEF CP!TypeInv, CP!TypeOK
    <3>2. sent[q] < 1 /\ sent' = [sent EXCEPT ![q] = sent[q] + 1]
      BY DEF Requests
    <3>3. sent[q] = 0
      BY <3>1, <3>2
    <3> QED BY <3>1, <3>2, <3>3
  <2>2. \A i \in 1..Len(reqs) : reqs[i].id \in Queries /\ reqs[i].id # q /\ sent[reqs[i].id] >= 1
    <3>1. \A i \in 1..Len(reqs) : reqs[i] \in SP!Request
      BY <1>1
    <3>2. \A i \in 1..Len(reqs) : reqs[i].id \in Queries
      BY <3>1 DEF SP!Request
    <3>3. \A i \in 1..Len(reqs) : sent[reqs[i].id] >= 1
      BY DEF UniqueInv
    <3> QED BY <2>1, <3>2, <3>3
  <2>3. \A j \in 1..Len(resps) : resps[j].id # q
    BY <1>3, <2>2 DEF SP!MatchInv, SP!RespsMatch, SP!Fits
  <2>4. \A i, j \in 1..Len(reqs') : reqs'[i].id = reqs'[j].id => i = j
    BY <1>1, <1>3, <2>2 DEF UniqueInv
  <2>5. \A i \in 1..Len(reqs') : sent'[reqs'[i].id] >= 1
    BY <1>1, <1>3, <2>1, <2>2
  <2>6. \A i \in 1..Len(reqs') : i \in Due => \A j \in 1..Len(resps) : resps[j].id # reqs'[i].id
    BY <1>1, <1>3, <2>3 DEF UniqueInv
  <2> QED BY <1>4, <2>4, <2>5, <2>6 DEF UniqueInv
<1> QED BY <1>4, <1>7, <1>8

(* The updates left on the channel were there before. *)
LEMMA TailAppears ==
  ASSUME NEW U, NEW s \in Seq(U), s # <<>>
  PROVE  /\ Tail(s) \in Seq(U) /\ Head(s) \in U /\ 1 \in 1..Len(s) /\ Head(s) = s[1]
         /\ \A j \in 1..Len(Tail(s)) : j + 1 \in 1..Len(s) /\ Tail(s)[j] = s[j + 1]
OBVIOUS

(* The client does anything else. *)
LEMMA ListenStep ==
  ASSUME SP!TypeInv, SP!GroupInv, SP!MatchInv, HandOver, CountInv, UniqueInv,
         UNCHANGED <<serverVars, resps, trimmed, reqs, sent>>, Listens \/ UNCHANGED pushes
  PROVE  SP!TypeInv' /\ SP!GroupInv' /\ SP!MatchInv' /\ HandOver' /\ CountInv' /\ UniqueInv'
<1>1. /\ pushes \in Seq(SP!Update) /\ \A j \in 1..Len(pushes) : pushes[j].wire.key = pushes[j].key
      /\ reqs \in Seq(SP!Request) /\ Len(reqs) <= MaxReqs /\ Len(reqs) \in Nat
  BY DEF SP!TypeInv, SP!TypeOK, SP!MatchInv, SP!PushesMatch
<1>2. pushes' \in Seq(SP!Update) /\ \A j \in 1..Len(pushes') : pushes'[j].wire.key = pushes'[j].key
  <2>1. CASE UNCHANGED pushes
    BY <1>1, <2>1
  <2>2. CASE pushes' = <<>>
    BY <2>2
  <2>3. CASE pushes # <<>> /\ pushes' = Tail(pushes)
    BY <1>1, <2>3, TailAppears
  <2> QED BY <2>1, <2>2, <2>3 DEF Listens
<1>3. SP!TypeInv' /\ SP!GroupInv' /\ HandOver' /\ CountInv' /\ Due' = Due
  BY <1>1, <1>2, ServerUntouched
<1>4. SP!MatchInv'
  BY <1>2 DEF SP!MatchInv, SP!RespsMatch, SP!PushesMatch, SP!StoreMatches, SP!HandlersMatch, SP!Fits, serverVars
<1>5. UniqueInv'
  BY <1>3 DEF UniqueInv
<1> QED BY <1>3, <1>4, <1>5

-----------------------------------------------------------------------------
(* The composition: the invariant, and the refinement it gives.            *)

(* The initial state satisfies it. *)
LEMMA RelayInit == Init => RelayInv
<1> SUFFICES ASSUME Init PROVE RelayInv
  OBVIOUS
<1> USE PartAssumptions
<1>1. CP!Init /\ SP!Init
  BY SameInit DEF Init
<1>2. CP!TypeInv /\ SP!TypeInv
  BY <1>1, CP!TypeInit, SP!TypeInit
<1>3. SP!GroupInv
  BY <1>1 DEF SP!Init, SP!GroupInv, SP!DeliveryInv, SP!PendingExact, SP!Running, SP!HandlerPc
<1>4. SP!MatchInv
  BY <1>1 DEF SP!Init, SP!MatchInv, SP!RespsMatch, SP!PushesMatch, SP!StoreMatches, SP!HandlersMatch
<1>5. HandOver
  BY <1>1 DEF SP!Init, HandOver
<1>6. Len(resps) = 0 /\ resends = 0 /\ Len(reqs) = 0
  BY <1>1 DEF SP!Init
<1>7. CountInv
  BY <1>6, DueFinite, RelayAssumption DEF CountInv
<1>8. UniqueInv
  BY <1>6 DEF UniqueInv
<1> QED BY <1>2, <1>3, <1>4, <1>5, <1>7, <1>8 DEF RelayInv

(* A step of the server keeps it, and is one of the client's environment.  *)
LEMMA RelayServerStep ==
  ASSUME RelayInv, ServerStep
  PROVE  RelayInv' /\ [CP!EnvNext]_(CP!vars)
<1> USE PartAssumptions DEF RelayInv
<1>1. SP!ServerNext /\ UNCHANGED clientVars
  BY SameServer DEF ServerStep
<1>2. /\ SP!TypeInv' /\ SP!GroupInv' /\ SP!MatchInv'
      /\ ServerMove /\ HandOver' /\ UNCHANGED reqs
  <2>1. CASE \E i \in SP!Position : SP!Handler(i) \/ SP!AsyncXAdd(i) \/ SP!XAddAgain(i) \/ SP!AckFails(i)
    BY <2>1, HandlerMove, SP!TypeHandlerStep, SP!GroupHandlerStep, SP!MatchHandlerStep
  <2>2. CASE \/ SP!Start \/ SP!Worker \/ SP!Prefetch \/ SP!Crash \/ SP!ReplyLost \/ SP!RedisRestart
             \/ \E k \in Keys : SP!StoreExpire(k)
    BY <2>2, OtherMove, SP!TypeOtherStep, SP!GroupOtherStep, SP!MatchOtherStep
  <2> QED BY <1>1, <2>1, <2>2 DEF SP!ServerNext
<1>3. UNCHANGED sent
  BY <1>1 DEF clientVars
<1>4. CountInv' /\ UniqueInv'
  BY <1>2, <1>3, CountMove, UniqueMove
<1>5. [CP!EnvNext]_(CP!vars)
  BY <1>1, <1>2, MoveIsEnvironment
<1>6. CP!TypeInv'
  BY <1>5, CP!TypeStep DEF CP!Next
<1> QED BY <1>2, <1>4, <1>5, <1>6

(* A step of the client keeps it. *)
LEMMA RelayClientStep ==
  ASSUME RelayInv, ClientStep
  PROVE  RelayInv' /\ CP!ClientNext
<1> USE PartAssumptions DEF RelayInv
<1>1. CP!ClientNext /\ Len(reqs') <= MaxReqs /\ UNCHANGED serverVars
  BY SameClient DEF ClientStep
<1>2. CP!TypeInv'
  BY <1>1, CP!TypeStep DEF CP!Next
<1>3. /\ UNCHANGED <<resps, trimmed>>
      /\ (\E q \in Queries : Requests(q)) \/ Listens \/ UNCHANGED <<reqs, sent, pushes>>
  BY <1>1, ClientMove
<1>4. CASE \E q \in Queries : Requests(q)
  BY <1>1, <1>2, <1>3, <1>4, RequestStep
<1>5. CASE Listens \/ UNCHANGED <<reqs, sent, pushes>>
  <2>1. UNCHANGED <<serverVars, resps, trimmed, reqs, sent>> /\ (Listens \/ UNCHANGED pushes)
    BY <1>1, <1>3, <1>5 DEF Listens
  <2> QED BY <1>1, <1>2, <2>1, ListenStep
<1> QED BY <1>3, <1>4, <1>5

(* So does a step in which nothing happens. *)
LEMMA RelayStutter ==
  ASSUME RelayInv, UNCHANGED vars
  PROVE  RelayInv' /\ UNCHANGED CP!vars
<1> USE PartAssumptions DEF RelayInv
<1>1. UNCHANGED CP!vars
  BY DEF vars, clientVars, CP!vars, CP!clientVars
<1>2. CP!TypeInv'
  BY <1>1, CP!TypeStep
<1>3. UNCHANGED <<serverVars, resps, trimmed, reqs, sent>> /\ UNCHANGED pushes
  BY DEF vars, clientVars
<1>4. SP!TypeInv' /\ SP!GroupInv' /\ SP!MatchInv' /\ HandOver' /\ CountInv' /\ UniqueInv'
  BY <1>3, ListenStep
<1> QED BY <1>1, <1>2, <1>4

(* Every step of the relay keeps the invariant and is, to the client, a    *)
(* step of its own specification or none.                                  *)
LEMMA RelayStep == RelayInv /\ [Next]_vars => RelayInv' /\ [C!Next]_(C!vars)
<1>1. ASSUME RelayInv, [Next]_vars
      PROVE  RelayInv' /\ ([CP!EnvNext]_(CP!vars) \/ CP!ClientNext)
  BY <1>1, RelayServerStep, RelayClientStep, RelayStutter DEF Next
<1>2. ASSUME [CP!EnvNext]_(CP!vars) \/ CP!ClientNext
      PROVE  [C!Next]_(C!vars)
  BY <1>2, SameClient, SameEnvironment DEF C!Next, C!vars, C!clientVars, CP!vars, CP!clientVars
<1> QED BY <1>1, <1>2

(* The invariant of the composition holds in every reachable state. *)
THEOREM RelayInvariant == Spec => []RelayInv
BY RelayInit, RelayStep, PTL DEF Spec

(* The relay implements the client against its abstract environment: the   *)
(* server with its handlers, its XADD goroutines, its prefetch loop and    *)
(* its failures does to the shared streams only what module Client allows  *)
(* the rest of the system; in particular it answers a request that was     *)
(* written once at most once, with an answer for the key in it.            *)
THEOREM RelayImplementsClient == Spec => ClientSpec
<1>1. Init => C!Init
  BY DEF Init
<1>2. RelayInv /\ [Next]_vars => [C!Next]_(C!vars)
  BY RelayStep
<1> QED BY <1>1, <1>2, RelayInvariant, PTL DEF Spec, ClientSpec, C!Spec

-----------------------------------------------------------------------------
(* Stamps: an answer was obtained before the time it carries.              *)

(* The answers in the server's hands have the time they were obtained. *)
LEMMA WireAt ==
  ASSUME NEW w \in SP!Wire
  PROVE  w # None /\ w.at \in Nat
BY RelayAssumption DEF SP!Wire

(* A sound response may be written. *)
LEMMA XAddSound ==
  ASSUME SP!TypeInv, StreamsSound, NEW r \in SP!Response, Sound(r), SP!XAddResponse(r), UNCHANGED pushes
  PROVE  StreamsSound'
<1>1. /\ Len(resps) \in Nat /\ Len(resps') = Len(resps) + 1 /\ resps'[Len(resps) + 1] = r
      /\ \A j \in 1..Len(resps) : resps'[j] = resps[j]
  BY XAddAppends
<1>2. \A j \in 1..Len(resps') : Sound(resps'[j])
  BY <1>1 DEF StreamsSound
<1> QED BY <1>2 DEF StreamsSound, Sound

(* An answer may be published with a stamp it is not newer than. *)
LEMMA PublishSound ==
  ASSUME SP!TypeInv, StreamsSound, NEW w \in SP!Wire, NEW at \in Nat, w.at <= at,
         SP!Publish(w, at), UNCHANGED resps
  PROVE  StreamsSound'
<1> DEFINE u == [key |-> w.key, wire |-> w, resolvedAt |-> at]
<1>1. Sound(u)
  BY DEF Sound
<1>2. pushes \in Seq(SP!Update) /\ (pushes' = Append(pushes, u) \/ pushes' = pushes)
  BY DEF SP!TypeInv, SP!TypeOK, SP!Publish
<1> HIDE DEF u
<1>3. CASE pushes' = Append(pushes, u)
  <2>1. /\ Len(pushes) \in Nat /\ Len(pushes') = Len(pushes) + 1
        /\ pushes'[Len(pushes) + 1] = u
        /\ \A j \in 1..Len(pushes) : pushes'[j] = pushes[j]
    BY <1>2, <1>3
  <2>2. \A j \in 1..Len(pushes') : Sound(pushes'[j])
    BY <1>1, <2>1 DEF StreamsSound
  <2> QED BY <2>2 DEF StreamsSound, Sound
<1> QED BY <1>2, <1>3 DEF StreamsSound, Sound

(* The answers in the cache and the prefetch loop stay older than the      *)
(* clock when it moves on.                                                 *)
LEMMA HeldKept ==
  ASSUME SP!TypeInv, HeldSound, clock' \in Nat, clock <= clock',
         \A k \in Keys : store'[k] # None => store'[k] = store[k] \/ store'[k].at <= clock',
         pwire' # None => pwire' = pwire \/ pwire'.at <= clock',
         \A i \in SP!Position :
           \/ HeldAt(i)'
           \/ hpc'[i] = hpc[i] /\ hwire'[i] = hwire[i] /\ hat'[i] = hat[i] /\ outbox'[i] = outbox[i]
  PROVE  HeldSound'
<1>1. /\ store \in [Keys -> SP!Wire \cup {None}] /\ pwire \in SP!Wire \cup {None}
      /\ hwire \in [SP!Position -> SP!Wire \cup {None}] /\ clock \in Nat
  BY RelayAssumption DEF SP!TypeInv, SP!TypeOK
<1>2. ASSUME NEW k \in Keys, store'[k] # None
      PROVE  store'[k].at <= clock'
  <2>1. CASE store'[k] = store[k]
    <3>1. store[k] \in SP!Wire /\ store[k].at <= clock
      BY <1>1, <1>2, <2>1 DEF HeldSound
    <3>2. store[k].at \in Nat
      BY <3>1, WireAt
    <3> QED BY <1>1, <2>1, <3>1, <3>2
  <2> QED BY <1>2, <2>1
<1>3. ASSUME pwire' # None
      PROVE  pwire'.at <= clock'
  <2>1. CASE pwire' = pwire
    <3>1. pwire \in SP!Wire /\ pwire.at <= clock
      BY <1>1, <1>3, <2>1 DEF HeldSound
    <3>2. pwire.at \in Nat
      BY <3>1, WireAt
    <3> QED BY <1>1, <2>1, <3>1, <3>2
  <2> QED BY <1>3, <2>1
<1>4. ASSUME NEW i \in SP!Position
      PROVE  HeldAt(i)'
  <2>1. CASE hpc'[i] = hpc[i] /\ hwire'[i] = hwire[i] /\ hat'[i] = hat[i] /\ outbox'[i] = outbox[i]
    <3>1. HeldAt(i)
      BY DEF HeldSound
    <3>2. hwire[i] # None => hwire[i].at \in Nat
      BY <1>1, WireAt
    <3>3. hwire[i] # None => hwire[i].at <= clock'
      BY <1>1, <3>1, <3>2 DEF HeldAt
    <3> QED BY <2>1, <3>1, <3>3 DEF HeldAt, Sound
  <2> QED BY <2>1
<1> QED BY <1>2, <1>3, <1>4 DEF HeldSound

(* One step of a handler or of its XADD goroutine. *)
LEMMA StampHandlerStep ==
  ASSUME SP!TypeInv, HeldSound, StreamsSound, NEW i \in SP!Position,
         SP!Handler(i) \/ SP!AsyncXAdd(i) \/ SP!XAddAgain(i) \/ SP!AckFails(i)
  PROVE  HeldSound' /\ StreamsSound'
<1> USE DEF SP!streamVars, SP!handleVars, SP!loopVars, SP!Goto, SP!Gone
<1>1. /\ hpc \in [SP!Position -> SP!HandlerPc]
      /\ hwire \in [SP!Position -> SP!Wire \cup {None}]
      /\ hat \in [SP!Position -> 1..MaxClock \cup {None}]
      /\ outbox \in [SP!Position -> SP!Response \cup {None}]
      /\ store \in [Keys -> SP!Wire \cup {None}] /\ clock \in Nat
  BY RelayAssumption DEF SP!TypeInv, SP!TypeOK
<1>2. /\ hpc[i] # "off" \/ outbox[i] # None => i <= Len(reqs)
      /\ hpc[i] \in {"hit", "hitsend", "resolve", "cache", "publish"} => reqs[i].key \in Keys
      /\ hpc[i] \in {"hit", "hitsend", "cache", "publish"} => hwire[i] \in SP!Wire
      /\ hpc[i] \in {"hitsend", "cache", "publish"} => hat[i] \in 1..MaxClock
  BY DEF SP!TypeInv, SP!HandlerShape
<1>3. HeldAt(i)
  BY DEF HeldSound
<1>4. ASSUME UNCHANGED <<resps, pushes>>
      PROVE  StreamsSound'
  BY <1>4 DEF StreamsSound, Sound
<1>5. ASSUME NEW r, r.wire = hwire[i], r.resolvedAt = hat[i], hpc[i] \in {"hitsend", "publish"}
      PROVE  Sound(r)
  BY <1>3, <1>5 DEF HeldAt, Sound
<1>6. hpc[i] \in {"hitsend", "publish"} => SP!Reply(i) \in SP!Response /\ Sound(SP!Reply(i))
  BY <1>2, <1>5, SP!ReplyType, PartAssumptions DEF SP!Reply, SP!TypeInv
<1>7. CASE SP!HandleMalformed(i)
  <2>1. /\ UNCHANGED <<resps, pushes, store, pwire, clock, hwire, hat, outbox>>
        /\ hpc' = [hpc EXCEPT ![i] = "ack"]
    BY <1>7 DEF SP!HandleMalformed
  <2>2. HeldAt(i)'
    BY <1>1, <1>3, <2>1 DEF HeldAt, Sound
  <2> QED BY <1>1, <1>4, <2>1, <2>2, HeldKept
<1>8. CASE SP!CacheGet(i)
  <2>1. UNCHANGED <<resps, pushes, store, pwire, clock, hat, outbox>>
    BY <1>8 DEF SP!CacheGet
  <2>2. CASE SP!Hit(i) /\ hwire' = [hwire EXCEPT ![i] = store[reqs[i].key]] /\ SP!Goto(i, "hit")
    <3>1. reqs[i].key \in Keys
      BY <1>2, <1>8, SP!RequestAt, PartAssumptions DEF SP!CacheGet, SP!TypeInv
    <3>2. store[reqs[i].key].at <= clock
      BY <2>2, <3>1 DEF SP!Hit, HeldSound
    <3>3. HeldAt(i)'
      BY <1>1, <1>3, <2>1, <2>2, <3>2 DEF HeldAt, Sound
    <3> QED BY <1>1, <1>4, <2>1, <2>2, <3>3, HeldKept
  <2>3. CASE SP!Goto(i, "resolve") /\ UNCHANGED hwire
    <3>1. HeldAt(i)'
      BY <1>1, <1>3, <2>1, <2>3 DEF HeldAt, Sound
    <3> QED BY <1>1, <1>4, <2>1, <2>3, <3>1, HeldKept
  <2> QED BY <1>8, <2>2, <2>3 DEF SP!CacheGet
<1>9. CASE SP!HitStamp(i)
  <2>1. /\ UNCHANGED <<resps, pushes, store, pwire, hwire, outbox>>
        /\ hpc' = [hpc EXCEPT ![i] = "hitsend"] /\ hat' = [hat EXCEPT ![i] = clock + 1]
        /\ clock' = clock + 1
    BY <1>9 DEF SP!HitStamp, SP!Tick
  <2>2. hwire[i] \in SP!Wire /\ hwire[i] # None /\ hwire[i].at \in Nat /\ hwire[i].at <= clock
    BY <1>2, <1>3, <1>9, WireAt DEF SP!HitStamp, HeldAt
  <2>3. HeldAt(i)'
    BY <1>1, <1>3, <2>1, <2>2 DEF HeldAt, Sound
  <2> QED BY <1>1, <1>4, <2>1, <2>3, HeldKept
<1>10. CASE SP!HitSend(i)
  <2>1. /\ UNCHANGED <<pushes, store, pwire, clock, hwire, hat, outbox>>
        /\ hpc[i] = "hitsend" /\ hpc' = [hpc EXCEPT ![i] = "ack"]
        /\ SP!XAddResponse(SP!Reply(i)) \/ UNCHANGED resps
    BY <1>10 DEF SP!HitSend, SP!AfterHit
  <2>2. HeldAt(i)'
    BY <1>1, <1>3, <2>1 DEF HeldAt, Sound
  <2>3. HeldSound'
    BY <1>1, <2>1, <2>2, HeldKept
  <2> QED BY <1>4, <1>6, <2>1, <2>3, XAddSound
<1>11. CASE SP!Resolve(i)
  <2>1. UNCHANGED <<resps, pushes, store, pwire>>
    BY <1>11 DEF SP!Resolve
  <2>2. CASE /\ SP!Tick /\ SP!Goto(i, "cache") /\ UNCHANGED outbox
             /\ hwire' = [hwire EXCEPT ![i] = SP!NewWire(reqs[i].key)]
             /\ hat' = [hat EXCEPT ![i] = clock + 1]
    <3>1. clock' = clock + 1 /\ SP!NewWire(reqs[i].key).at = clock + 1
      BY <2>2 DEF SP!Tick, SP!NewWire
    <3>2. HeldAt(i)'
      BY <1>1, <1>3, <2>2, <3>1 DEF HeldAt, Sound
    <3> QED BY <1>1, <1>4, <2>1, <2>2, <3>1, <3>2, HeldKept
  <2>3. CASE /\ outbox' = [outbox EXCEPT ![i] = SP!ErrReply(i)]
             /\ SP!Goto(i, "ack") /\ UNCHANGED <<hwire, hat, clock>>
    <3>1. Sound(SP!ErrReply(i))
      BY DEF Sound, SP!ErrReply
    <3>2. HeldAt(i)'
      BY <1>1, <1>3, <2>3, <3>1 DEF HeldAt, Sound
    <3> QED BY <1>1, <1>4, <2>1, <2>3, <3>2, HeldKept
  <2> QED BY <1>11, <2>2, <2>3 DEF SP!Resolve
<1>12. CASE SP!HandleCache(i)
  <2>1. /\ UNCHANGED <<resps, pushes, pwire, clock, hwire, hat, outbox>>
        /\ hpc[i] = "cache" /\ hpc' = [hpc EXCEPT ![i] = "publish"]
        /\ store' = store \/ store' = [store EXCEPT ![hwire[i].key] = hwire[i]]
    BY <1>12 DEF SP!HandleCache, SP!CacheSet
  <2>2. hwire[i] # None /\ hwire[i].at <= clock /\ hwire[i].key \in Keys
    BY <1>2, <1>3, <2>1, WireAt DEF HeldAt, SP!Wire
  <2>3. \A k \in Keys : store'[k] = store[k] \/ store'[k].at <= clock'
    BY <1>1, <2>1, <2>2
  <2>4. HeldAt(i)'
    BY <1>1, <1>3, <2>1 DEF HeldAt, Sound
  <2> QED BY <1>1, <1>4, <2>1, <2>3, <2>4, HeldKept
<1>13. CASE SP!HandlePublish(i)
  <2>1. /\ UNCHANGED <<resps, store, pwire, clock, hwire, hat>>
        /\ hpc[i] = "publish" /\ hpc' = [hpc EXCEPT ![i] = "ack"]
        /\ outbox' = [outbox EXCEPT ![i] = SP!Reply(i)]
        /\ SP!Publish(hwire[i], hat[i])
    BY <1>13 DEF SP!HandlePublish
  <2>2. hwire[i] \in SP!Wire /\ hat[i] \in Nat /\ hwire[i].at <= hat[i]
    BY <1>2, <1>3, <2>1, RelayAssumption DEF HeldAt
  <2>3. StreamsSound'
    BY <2>1, <2>2, PublishSound
  <2>4. outbox'[i] = SP!Reply(i) /\ Sound(outbox'[i])
    BY <1>1, <1>6, <2>1
  <2>5. HeldAt(i)'
    BY <1>1, <1>3, <2>1, <2>4 DEF HeldAt, Sound
  <2> QED BY <1>1, <2>1, <2>3, <2>5, HeldKept
<1>14. CASE SP!Ack(i) \/ SP!AckFails(i)
  <2>1. /\ UNCHANGED <<resps, pushes, store, pwire, clock, outbox>>
        /\ hwire' = [hwire EXCEPT ![i] = None] /\ hat' = [hat EXCEPT ![i] = None]
        /\ \E l \in {"done", "dead"} : hpc' = [hpc EXCEPT ![i] = l]
    BY <1>14 DEF SP!Ack, SP!AckFails
  <2>2. HeldAt(i)'
    BY <1>1, <1>3, <2>1 DEF HeldAt, Sound
  <2> QED BY <1>1, <1>4, <2>1, <2>2, HeldKept
<1>15. CASE SP!AsyncXAdd(i)
  <2>1. /\ UNCHANGED <<pushes, store, pwire, clock, hpc, hwire, hat>>
        /\ outbox[i] # None /\ outbox' = [outbox EXCEPT ![i] = None]
        /\ SP!XAddResponse(outbox[i]) \/ UNCHANGED resps
    BY <1>15 DEF SP!AsyncXAdd
  <2>2. HeldAt(i)'
    BY <1>1, <1>3, <2>1 DEF HeldAt, Sound
  <2>3. HeldSound'
    BY <1>1, <2>1, <2>2, HeldKept
  <2>4. outbox[i] \in SP!Response /\ Sound(outbox[i])
    BY <1>1, <1>3, <2>1 DEF HeldAt
  <2> QED BY <1>4, <2>1, <2>3, <2>4, XAddSound
<1>16. CASE SP!XAddAgain(i)
  <2>1. /\ UNCHANGED <<pushes, store, pwire, clock, hpc, hwire, hat, outbox>>
        /\ \/ hpc[i] = "hitsend" /\ SP!XAddResponse(SP!Reply(i))
           \/ outbox[i] # None /\ SP!XAddResponse(outbox[i])
    BY <1>16 DEF SP!XAddAgain
  <2>2. HeldSound'
    BY <1>1, <2>1, HeldKept
  <2>3. outbox[i] # None => outbox[i] \in SP!Response /\ Sound(outbox[i])
    BY <1>1, <1>3 DEF HeldAt
  <2> QED BY <1>6, <2>1, <2>2, <2>3, XAddSound
<1> QED
  BY <1>7, <1>8, <1>9, <1>10, <1>11, <1>12, <1>13, <1>14, <1>15, <1>16 DEF SP!Handler

(* Any other step of the server. *)
LEMMA StampOtherStep ==
  ASSUME SP!TypeInv, HeldSound, StreamsSound,
         \/ SP!Start \/ SP!Worker \/ SP!Prefetch \/ SP!Crash \/ SP!ReplyLost \/ SP!RedisRestart
         \/ \E k \in Keys : SP!StoreExpire(k)
  PROVE  HeldSound' /\ StreamsSound'
<1> USE DEF SP!streamVars, SP!handleVars, SP!loopVars
<1>1. /\ hpc \in [SP!Position -> SP!HandlerPc]
      /\ store \in [Keys -> SP!Wire \cup {None}] /\ clock \in Nat
      /\ ppc # "wait" => pwire \in SP!Wire
  BY RelayAssumption DEF SP!TypeInv, SP!TypeOK, SP!LoopShape
<1>2. ASSUME UNCHANGED <<resps, pushes>>
      PROVE  StreamsSound'
  BY <1>2 DEF StreamsSound, Sound
<1>3. CASE SP!Start \/ SP!NoGroup
  BY <1>1, <1>2, <1>3, HeldKept DEF SP!Start, SP!NoGroup
<1>4. CASE SP!XReadGroup \/ SP!ReplyLost
  <2>1. /\ UNCHANGED <<resps, pushes, store, pwire, clock, hwire, hat, outbox>>
        /\ \A i \in SP!Position : hpc'[i] = hpc[i] \/ hpc'[i] \in {"get", "dead"}
    BY <1>4 DEF SP!XReadGroup, SP!ReplyLost
  <2>2. ASSUME NEW i \in SP!Position, hpc'[i] \in {"get", "dead"}
        PROVE  HeldAt(i)'
    BY <2>1, <2>2 DEF HeldSound, HeldAt, Sound
  <2> QED BY <1>1, <1>2, <2>1, <2>2, HeldKept
<1>5. ASSUME NEW k \in Refreshed, SP!PrefetchResolve(k)
      PROVE  HeldSound' /\ StreamsSound'
  <2>1. /\ UNCHANGED <<resps, pushes, store, hpc, hwire, hat, outbox>>
        /\ clock' = clock + 1 /\ pwire'.at = clock'
    BY <1>5 DEF SP!PrefetchResolve, SP!Tick, SP!NewWire
  <2> QED BY <1>1, <1>2, <2>1, HeldKept
<1>6. CASE SP!PrefetchCache
  <2>1. /\ UNCHANGED <<resps, pushes, pwire, clock, hpc, hwire, hat, outbox>> /\ ppc = "cache"
        /\ store' = store \/ store' = [store EXCEPT ![pwire.key] = pwire]
    BY <1>6 DEF SP!PrefetchCache, SP!CacheSet
  <2>2. pwire # None /\ pwire.at <= clock /\ pwire.key \in Keys
    BY <1>1, <2>1, WireAt DEF HeldSound, SP!Wire
  <2>3. \A k \in Keys : store'[k] = store[k] \/ store'[k].at <= clock'
    BY <1>1, <2>1, <2>2
  <2> QED BY <1>1, <1>2, <2>1, <2>3, HeldKept
<1>7. CASE SP!PrefetchPublish
  <2>1. /\ UNCHANGED <<resps, store, hpc, hwire, hat, outbox>> /\ ppc = "publish"
        /\ clock' = clock + 1 /\ pwire' = None /\ SP!Publish(pwire, clock + 1)
    BY <1>7 DEF SP!PrefetchPublish, SP!Tick
  <2>2. pwire \in SP!Wire /\ pwire.at <= clock + 1 /\ clock + 1 \in Nat
    BY <1>1, <2>1, WireAt DEF HeldSound
  <2>3. StreamsSound'
    BY <2>1, <2>2, PublishSound
  <2> QED BY <1>1, <2>1, <2>3, HeldKept
<1>8. CASE SP!Crash
  <2>1. /\ UNCHANGED <<resps, pushes, store, clock>> /\ pwire' = None
        /\ \A i \in SP!Position : hwire'[i] = None /\ outbox'[i] = None
    BY <1>8 DEF SP!Crash
  <2>2. \A i \in SP!Position : hpc'[i] \in {"off", "done", "dead"}
    BY <1>1, <1>8 DEF SP!Crash, SP!Running, SP!HandlerPc
  <2>3. ASSUME NEW i \in SP!Position
        PROVE  HeldAt(i)'
    BY <2>1, <2>2 DEF HeldAt
  <2> QED BY <1>1, <1>2, <2>1, <2>3, HeldKept
<1>9. CASE SP!RedisRestart \/ \E k \in Keys : SP!StoreExpire(k)
  <2>1. /\ UNCHANGED <<resps, pushes, pwire, clock, hpc, hwire, hat, outbox>>
        /\ \A k \in Keys : store'[k] # None => store'[k] = store[k]
    BY <1>1, <1>9 DEF SP!RedisRestart, SP!StoreExpire
  <2> QED BY <1>1, <1>2, <2>1, HeldKept
<1> QED
  BY <1>3, <1>4, <1>5, <1>6, <1>7, <1>8, <1>9 DEF SP!Worker, SP!Prefetch

(* localSet with a sound answer keeps the local cache sound. *)
LEMMA LocalSetSound ==
  ASSUME CP!TypeInv, ClientSound, NEW k \in Keys, NEW w, NEW at, w # None => w.at <= at,
         local' = CP!LocalSet(k, w, at)
  PROVE  \A j \in Keys : local'[j] # None => Sound(local'[j])
<1> DEFINE e == [wire |-> w, resolvedAt |-> at, expired |-> FALSE]
<1>1. local \in [Keys -> CP!Entry \cup {None}] /\ Sound(e)
  BY DEF CP!TypeInv, CP!TypeOK, Sound
<1>2. local' = local \/ local' = [local EXCEPT ![k] = e]
  BY DEF CP!LocalSet
<1> HIDE DEF e
<1>3. \A j \in Keys : local'[j] = local[j] \/ local'[j] = e
  BY <1>1, <1>2
<1> QED BY <1>1, <1>3 DEF ClientSound

(* A step of the client passes on what it was given. *)
LEMMA StampClientStep ==
  ASSUME CP!TypeInv, StreamsSound, ClientSound, CP!ClientNext
  PROVE  ClientSound'
<1> USE DEF CP!queryVars, CP!routeVars
<1>1. /\ result \in [Queries -> CP!Outcome] /\ local \in [Keys -> CP!Entry \cup {None}]
      /\ chan \in [Queries -> CP!Response \cup {None}] /\ key \in [Queries -> Keys \cup {None}]
  BY DEF CP!TypeInv, CP!TypeOK
<1>2. ASSUME \A p \in Queries : chan'[p] # None => chan'[p] = chan[p] \/ Sound(chan'[p]),
             \A p \in Queries : result'[p].kind = "answer" =>
               Sound(result'[p]) \/ \E q \in Queries : result[q].kind = "answer" /\ result'[p] = result[q],
             \A k \in Keys : local'[k] # None => local'[k] = local[k] \/ Sound(local'[k])
      PROVE  ClientSound'
  <2>1. \A p \in Queries : chan'[p] # None => Sound(chan'[p])
    BY <1>2 DEF ClientSound
  <2>2. \A p \in Queries : result'[p].kind = "answer" => Sound(result'[p])
    BY <1>2 DEF ClientSound
  <2>3. \A k \in Keys : local'[k] # None => Sound(local'[k])
    BY <1>2 DEF ClientSound
  <2> QED BY <2>1, <2>2, <2>3 DEF ClientSound, Sound
<1>3. ASSUME NEW q \in Queries, CP!HandleFormErr(q) \/ CP!SelectXAdd(q) \/ CP!SelectTimeout(q)
      PROVE  ClientSound'
  <2>1. /\ UNCHANGED <<chan, local>>
        /\ \/ result' = result
           \/ \E kind \in {"formerr", "servfail"} : result' = [result EXCEPT ![q] = CP!Plain(kind)]
    BY <1>3 DEF CP!HandleFormErr, CP!SelectXAdd, CP!SelectTimeout
  <2>2. \A p \in Queries : result'[p].kind = "answer" => result'[p] = result[p]
    BY <1>1, <2>1 DEF CP!Plain
  <2> QED BY <1>2, <2>1, <2>2
<1>4. ASSUME NEW q \in Queries, NEW k \in Keys, CP!LocalGet(q, k)
      PROVE  ClientSound'
  <2>1. /\ UNCHANGED <<chan, local>>
        /\ \/ result' = result
           \/ local[k] # None /\ result' = [result EXCEPT ![q] = CP!Answer(local[k].wire, local[k].resolvedAt)]
    BY <1>4 DEF CP!LocalGet
  <2>2. local[k] # None => Sound(CP!Answer(local[k].wire, local[k].resolvedAt))
    BY DEF ClientSound, Sound, CP!Answer
  <2>3. \A p \in Queries : result'[p] = result[p] \/ Sound(result'[p])
    BY <1>1, <2>1, <2>2
  <2> QED BY <1>2, <2>1, <2>3
<1>5. ASSUME NEW q \in Queries, \/ CP!LocalDelete(q) \/ CP!SfLead(q) \/ CP!SfJoin(q) \/ CP!Sender(q)
      PROVE  ClientSound'
  <2>1. /\ UNCHANGED <<chan, result>>
        /\ local' = local \/ local' = [local EXCEPT ![key[q]] = None]
    BY <1>5 DEF CP!LocalDelete, CP!SfLead, CP!SfJoin, CP!Sender, CP!XAddWrite, CP!XAddReport
  <2>2. \A k \in Keys : local'[k] # None => local'[k] = local[k]
    BY <1>1, <2>1
  <2> QED BY <1>2, <2>1, <2>2
<1>6. ASSUME NEW q \in Queries, CP!ResolveReturn(q)
      PROVE  ClientSound'
  <2>1. /\ UNCHANGED <<chan, local>>
        /\ \A p \in Queries : result'[p] = result[p] \/ result'[p] = result[q]
    BY <1>6 DEF CP!ResolveReturn
  <2> QED BY <1>2, <2>1
<1>7. ASSUME NEW q \in Queries, CP!QuerySet(q)
      PROVE  ClientSound'
  <2>1. /\ UNCHANGED <<chan, result>> /\ pc[q] = "set"
        /\ local' = CP!LocalSet(key[q], result[q].wire, result[q].resolvedAt)
    BY <1>7 DEF CP!QuerySet
  <2>2. key[q] \in Keys /\ result[q].kind = "answer"
    BY <2>1 DEF CP!TypeInv, CP!QueryShape
  <2>3. result[q].wire # None => result[q].wire.at <= result[q].resolvedAt
    BY <2>2 DEF ClientSound, Sound
  <2>4. \A j \in Keys : local'[j] # None => Sound(local'[j])
    BY <2>1, <2>2, <2>3, LocalSetSound
  <2> QED BY <1>2, <2>1, <2>4
<1>8. ASSUME NEW q \in Queries, CP!SelectResponse(q)
      PROVE  ClientSound'
  <2>1. /\ UNCHANGED local /\ chan[q] # None
        /\ chan' = [chan EXCEPT ![q] = None]
        /\ result' = [result EXCEPT ![q] = CP!FromResponse(chan[q])]
    BY <1>8 DEF CP!SelectResponse
  <2>2. Sound(CP!FromResponse(chan[q]))
    BY <2>1 DEF ClientSound, Sound, CP!FromResponse, CP!Answer, CP!Plain
  <2>3. \A p \in Queries : result'[p] = result[p] \/ Sound(result'[p])
    BY <1>1, <2>1, <2>2
  <2>4. \A p \in Queries : chan'[p] # None => chan'[p] = chan[p]
    BY <1>1, <2>1
  <2> QED BY <1>2, <2>1, <2>3, <2>4
<1>9. ASSUME NEW k \in Keys, CP!Expire(k)
      PROVE  ClientSound'
  <2>1. /\ UNCHANGED <<chan, result>> /\ local[k] # None
        /\ local' = [local EXCEPT ![k].expired = TRUE]
    BY <1>9 DEF CP!Expire
  <2>2. Sound([local[k] EXCEPT !.expired = TRUE])
    <3>1. local[k] \in CP!Entry /\ Sound(local[k])
      BY <1>1, <2>1 DEF ClientSound
    <3> QED BY <3>1 DEF Sound, CP!Entry
  <2>3. \A j \in Keys : local'[j] = local[j] \/ Sound(local'[j])
    BY <1>1, <2>1, <2>2
  <2> QED BY <1>2, <2>1, <2>3
<1>10. CASE CP!DispatcherSend
  <2>1. UNCHANGED <<local, result>> /\ dpc = "send" /\ chan' = [chan EXCEPT ![resps[cur].id] = resps[cur]]
    BY <1>10 DEF CP!DispatcherSend, CP!DeliverTo
  <2>2. cur \in 1..Len(resps)
    BY <2>1 DEF CP!TypeInv, CP!TypeOK, CP!DispatcherPosition
  <2>3. Sound(resps[cur])
    BY <2>2 DEF StreamsSound
  <2>4. \A p \in Queries : chan'[p] = chan[p] \/ Sound(chan'[p])
    BY <1>1, <2>1, <2>3
  <2> QED BY <1>2, <2>1, <2>4
<1>11. CASE CP!DispatcherCall \/ CP!DispatcherRead \/ CP!DispatcherFail \/ CP!DispatcherRoute \/ CP!SubscriberLost
  <2>1. UNCHANGED <<chan, result, local>>
    BY <1>11 DEF CP!DispatcherCall, CP!DispatcherRead, CP!DispatcherFail, CP!DispatcherRoute, CP!SubscriberLost
  <2> QED BY <1>2, <2>1
<1>12. CASE CP!SubscriberReceive
  <2>1. /\ UNCHANGED <<chan, result>> /\ pushes # <<>>
        /\ local' = CP!LocalSet(Head(pushes).key, Head(pushes).wire, Head(pushes).resolvedAt)
    BY <1>12 DEF CP!SubscriberReceive
  <2>2. pushes \in Seq(CP!Update)
    BY DEF CP!TypeInv, CP!TypeOK
  <2>3. Head(pushes) \in CP!Update /\ Head(pushes) = pushes[1] /\ 1 \in 1..Len(pushes)
    BY <2>1, <2>2, TailAppears
  <2>4. Head(pushes).key \in Keys
    BY <2>3 DEF CP!Update
  <2>5. Head(pushes).wire # None => Head(pushes).wire.at <= Head(pushes).resolvedAt
    BY <2>3 DEF StreamsSound, Sound
  <2>6. \A j \in Keys : local'[j] # None => Sound(local'[j])
    BY <2>1, <2>4, <2>5, LocalSetSound
  <2> QED BY <1>2, <2>1, <2>6
<1> QED
  BY <1>3, <1>4, <1>5, <1>6, <1>7, <1>8, <1>9, <1>10, <1>11, <1>12
     DEF CP!ClientNext, CP!Handle, CP!Select, CP!Dispatcher, CP!Subscriber

(* The stamps are sound in every reachable state. *)
THEOREM StampInvariant == Spec => []StampInv
<1> USE DEF RelayInv
<1>1. Init => StampInv
  <2> SUFFICES ASSUME Init PROVE StampInv
    OBVIOUS
  <2>1. CP!Init /\ SP!Init
    BY SameInit DEF Init
  <2>2. HeldSound
    BY <2>1 DEF SP!Init, HeldSound, HeldAt
  <2>3. StreamsSound
    BY <2>1 DEF SP!Init, StreamsSound
  <2>4. ClientSound
    BY <2>1 DEF CP!Init, CP!Plain, ClientSound
  <2> QED BY <2>2, <2>3, <2>4 DEF StampInv
<1>2. ASSUME RelayInv, StampInv, ServerStep
      PROVE  StampInv'
  <2>1. SP!ServerNext /\ UNCHANGED clientVars
    BY <1>2, SameServer DEF ServerStep
  <2>2. HeldSound' /\ StreamsSound'
    BY <1>2, <2>1, StampHandlerStep, StampOtherStep DEF StampInv, SP!ServerNext
  <2>3. ClientSound'
    BY <1>2, <2>1 DEF StampInv, ClientSound, Sound, clientVars
  <2> QED BY <2>2, <2>3 DEF StampInv
<1>3. ASSUME RelayInv, StampInv, ClientStep
      PROVE  StampInv'
  <2>1. CP!ClientNext /\ UNCHANGED serverVars
    BY <1>3, SameClient DEF ClientStep
  <2>2. ClientSound'
    BY <1>3, <2>1, StampClientStep DEF StampInv
  <2>3. HeldSound'
    BY <1>3, <2>1 DEF StampInv, HeldSound, HeldAt, Sound, serverVars
  <2>4. StreamsSound'
    <3>1. resps' = resps /\ (Listens \/ UNCHANGED pushes)
      BY <1>3, <2>1, ClientMove DEF Requests
    <3>2. pushes \in Seq(SP!Update)
      BY <1>3 DEF SP!TypeInv, SP!TypeOK
    <3>3. \A j \in 1..Len(pushes') : Sound(pushes'[j])
      <4>1. CASE UNCHANGED pushes
        BY <1>3, <4>1 DEF StampInv, StreamsSound
      <4>2. CASE pushes' = <<>>
        BY <4>2
      <4>3. CASE pushes # <<>> /\ pushes' = Tail(pushes)
        BY <1>3, <3>2, <4>3, TailAppears DEF StampInv, StreamsSound
      <4> QED BY <3>1, <4>1, <4>2, <4>3 DEF Listens
    <3> QED BY <1>3, <3>1, <3>3 DEF StampInv, StreamsSound, Sound
  <2> QED BY <2>2, <2>3, <2>4 DEF StampInv
<1>4. ASSUME RelayInv, StampInv, UNCHANGED vars
      PROVE  StampInv'
  BY <1>4 DEF StampInv, HeldSound, HeldAt, StreamsSound, ClientSound, Sound, vars, serverVars, clientVars
<1>5. RelayInv /\ StampInv /\ [Next]_vars => StampInv'
  BY <1>2, <1>3, <1>4 DEF Next
<1> QED BY <1>1, <1>5, RelayInvariant, PTL DEF Spec

(* The theorems about module Client hold of the client in the relay. *)
LEMMA ClientOfRelay == Spec => CP!Spec
<1>1. Init => CP!Init
  BY SameInit DEF Init
<1>2. RelayInv /\ [Next]_vars => [CP!Next]_(CP!vars)
  <2>1. ASSUME RelayInv, [Next]_vars
        PROVE  [CP!Next]_(CP!vars)
    BY <2>1, RelayServerStep, RelayClientStep, RelayStutter DEF Next, CP!Next
  <2> QED BY <2>1
<1> QED BY <1>1, <1>2, RelayInvariant, PTL DEF Spec, CP!Spec

(* End to end, through both caches, coalescing, pushes and the failures of *)
(* the server and of Redis: a query is answered with data for the key it   *)
(* asked, obtained from upstream before the time stamped on it.            *)
THEOREM AnswersAreSound == Spec => []AnswerSound
<1>1. Spec => []CP!AnswersQuestion
  BY PartAssumptions, ClientOfRelay, CP!QuestionsAnswered, PTL
<1>2. RelayInv /\ StampInv /\ CP!AnswersQuestion => AnswerSound
  <2> SUFFICES ASSUME RelayInv, StampInv, CP!AnswersQuestion PROVE AnswerSound
    OBVIOUS
  <2>1. C!AnswersQuestion
    BY DEF C!AnswersQuestion, CP!AnswersQuestion
  <2>2. ASSUME NEW q \in Queries, result[q].kind = "answer"
        PROVE  result[q].wire.at <= result[q].resolvedAt
    <3>1. result[q] \in CP!Outcome /\ Sound(result[q])
      BY <2>2 DEF RelayInv, CP!TypeInv, CP!TypeOK, StampInv, ClientSound
    <3>2. result[q].wire \in Answers
      BY <2>2, <3>1 DEF CP!Outcome
    <3>3. result[q].wire # None
      BY <3>2, RelayAssumption DEF Answers, Stamp
    <3> QED BY <3>1, <3>3 DEF Sound
  <2> QED BY <2>1, <2>2 DEF AnswerSound
<1> QED BY <1>1, <1>2, RelayInvariant, StampInvariant, PTL

(* With no command re-sent, the client's dispatcher is never stuck on a    *)
(* full channel: this server answers a request once.                       *)
THEOREM DispatcherFreeInRelay == Spec => [](MaxSends = 1 => C!DispatcherNeverStuck)
<1>1. C!DispatcherNeverStuck <=> CP!DispatcherNeverStuck
  BY DEF C!DispatcherNeverStuck, C!Room, C!Selecting, CP!DispatcherNeverStuck, CP!Room, CP!Selecting
<1> QED BY <1>1, PartAssumptions, ClientOfRelay, CP!DispatcherFree, PTL

(* What a LAN host sees of the relay is module Service: one reply per      *)
(* query, final, and for the name it asked, whatever the server, Redis and *)
(* the timers do.                                                          *)
THEOREM RelayImplementsService == Spec => CP!ServiceSpec
BY PartAssumptions, ClientOfRelay, CP!ClientImplementsService, PTL

=============================================================================
