---------------------------- MODULE ServerProofs ----------------------------
(***************************************************************************)
(* Proofs about module Server, for any number of requests, keys, faults    *)
(* and re-sent commands, and every batch size.                             *)
(***************************************************************************)
EXTENDS Server, FiniteSetTheorems, TLAPS

(* What handle relies on from its own earlier steps: its message is on the *)
(* stream, and it has the answer and the stamp it is about to write.       *)
HandlerShape ==
  \A i \in Position :
    /\ hpc[i] # "off" \/ outbox[i] # None => i <= Len(reqs)
    /\ hpc[i] \in {"hit", "hitsend", "resolve", "cache", "publish"} => reqs[i].key \in Keys
    /\ hpc[i] \in {"hit", "hitsend", "cache", "publish"} => hwire[i] \in Wire
    /\ hpc[i] \in {"hitsend", "cache", "publish"} => hat[i] \in 1..MaxClock

(* So does the prefetch loop. *)
LoopShape == ppc # "wait" => pwire \in Wire

(* The inductive invariant behind type correctness. *)
TypeInv == TypeOK /\ HandlerShape /\ LoopShape

-----------------------------------------------------------------------------

(* The initial state satisfies the inductive invariant. *)
LEMMA TypeInit == Init => TypeInv
<1> SUFFICES ASSUME Init PROVE TypeInv
  OBVIOUS
<1> USE ServerAssumption DEF Init
<1>1. reqs \in Seq(Request) /\ resps \in Seq(Response) /\ pushes \in Seq(Update)
  OBVIOUS
<1>2. Len(reqs) = 0 /\ Len(resps) = 0
  OBVIOUS
<1>3. up \in BOOLEAN
  OBVIOUS
<1>4. TypeOK
  BY <1>1, <1>2, <1>3 DEF TypeOK, HandlerPc
<1>5. HandlerShape /\ LoopShape
  BY DEF HandlerShape, LoopShape
<1> QED BY <1>4, <1>5 DEF TypeInv

(* A delivered message is a request. *)
LEMMA RequestAt ==
  ASSUME TypeOK, NEW i \in Position, i <= Len(reqs)
  PROVE  reqs[i] \in Request /\ reqs[i].id \in ReqIDs /\ reqs[i].key \in Keys \cup {None}
<1>1. reqs[i] \in Request
  BY ServerAssumption DEF TypeOK, Position
<1> QED BY <1>1 DEF Request

(* The response of a handler that has its answer and its stamp. *)
LEMMA ReplyType ==
  ASSUME TypeOK, NEW i \in Position, i <= Len(reqs), hwire[i] \in Wire, hat[i] \in 1..MaxClock
  PROVE  Reply(i) \in Response
BY RequestAt DEF Reply, Response

(* XADD keeps the response stream and its trimming in shape. *)
LEMMA XAddType ==
  ASSUME TypeOK, NEW r \in Response, XAddResponse(r)
  PROVE  resps' \in Seq(Response) /\ trimmed' \in 0..Len(resps')
BY DEF TypeOK, XAddResponse

(* SET keeps the cache a function from keys to answers. *)
LEMMA CacheSetType ==
  ASSUME TypeOK, NEW w \in Wire, CacheSet(w)
  PROVE  store' \in [Keys -> Wire \cup {None}]
BY DEF TypeOK, CacheSet, Wire

(* PUBLISH queues an update or does nothing. *)
LEMMA PublishType ==
  ASSUME TypeOK, NEW w \in Wire, NEW at \in 1..MaxClock, Publish(w, at)
  PROVE  pushes' \in Seq(Update)
<1> DEFINE u == [key |-> w.key, wire |-> w, resolvedAt |-> at]
<1>1. u \in Update
  BY DEF Update, Wire
<1>2. pushes \in Seq(Update) /\ (pushes' = Append(pushes, u) \/ pushes' = pushes)
  BY DEF TypeOK, Publish
<1> HIDE DEF u
<1> QED BY <1>1, <1>2

(* A new answer has its key and a tick within the bound. *)
LEMMA NewWireType ==
  ASSUME TypeOK, Tick, NEW k \in Keys
  PROVE  NewWire(k) \in Wire /\ clock + 1 \in 1..MaxClock /\ clock' = clock + 1
BY ServerAssumption DEF TypeOK, Tick, NewWire, Wire

(* One step of a handler or of its XADD goroutine keeps the invariant. *)
LEMMA TypeHandlerStep ==
  ASSUME TypeInv, NEW i \in Position,
         Handler(i) \/ AsyncXAdd(i) \/ XAddAgain(i) \/ AckFails(i)
  PROVE  TypeInv'
<1> USE ServerAssumption DEF TypeInv, TypeOK, HandlerShape, LoopShape, HandlerPc,
        streamVars, groupVars, loopVars, faultVars, handleVars, Goto
<1>1. CASE HandleMalformed(i)
  BY <1>1 DEF HandleMalformed
<1>2. CASE CacheGet(i)
  <2>1. reqs[i] \in Request /\ reqs[i].key \in Keys
    BY <1>2, RequestAt DEF CacheGet
  <2>2. Hit(i) => store[reqs[i].key] \in Wire
    BY <2>1 DEF Hit
  <2>3. CASE Hit(i) /\ hwire' = [hwire EXCEPT ![i] = store[reqs[i].key]] /\ Goto(i, "hit")
    BY <1>2, <2>1, <2>2, <2>3 DEF CacheGet
  <2>4. CASE Goto(i, "resolve") /\ UNCHANGED hwire
    BY <1>2, <2>1, <2>4 DEF CacheGet
  <2> QED BY <1>2, <2>3, <2>4 DEF CacheGet
<1>3. CASE HitStamp(i)
  <2>1. clock + 1 \in 1..MaxClock /\ clock' = clock + 1
    BY <1>3 DEF HitStamp, Tick
  <2> QED BY <1>3, <2>1 DEF HitStamp
<1>4. CASE HitSend(i)
  <2>1. Reply(i) \in Response
    BY <1>4, ReplyType DEF HitSend
  <2>2. resps' \in Seq(Response) /\ trimmed' \in 0..Len(resps')
    BY <1>4, <2>1, XAddType DEF HitSend
  <2> QED BY <1>4, <2>2 DEF HitSend, AfterHit
<1>5. CASE Resolve(i)
  <2>1. reqs[i] \in Request /\ reqs[i].key \in Keys /\ reqs[i].id \in ReqIDs
    BY <1>5, RequestAt DEF Resolve
  <2>2. CASE /\ Tick /\ Goto(i, "cache") /\ UNCHANGED outbox
             /\ hwire' = [hwire EXCEPT ![i] = NewWire(reqs[i].key)]
             /\ hat' = [hat EXCEPT ![i] = clock + 1]
    <3>1. NewWire(reqs[i].key) \in Wire /\ clock + 1 \in 1..MaxClock /\ clock' = clock + 1
      BY <2>1, <2>2, NewWireType
    <3> QED BY <1>5, <2>1, <2>2, <3>1 DEF Resolve
  <2>3. CASE /\ outbox' = [outbox EXCEPT ![i] = ErrReply(i)]
             /\ Goto(i, "ack") /\ UNCHANGED <<hwire, hat, clock>>
    <3>1. ErrReply(i) \in Response
      BY <2>1 DEF ErrReply, Response
    <3> QED BY <1>5, <2>3, <3>1 DEF Resolve
  <2> QED BY <1>5, <2>2, <2>3 DEF Resolve
<1>6. CASE HandleCache(i)
  <2>1. store' \in [Keys -> Wire \cup {None}]
    BY <1>6, CacheSetType DEF HandleCache
  <2> QED BY <1>6, <2>1 DEF HandleCache
<1>7. CASE HandlePublish(i)
  <2>1. pushes' \in Seq(Update)
    BY <1>7, PublishType DEF HandlePublish
  <2>2. Reply(i) \in Response
    BY <1>7, ReplyType DEF HandlePublish
  <2> QED BY <1>7, <2>1, <2>2 DEF HandlePublish
<1>8. CASE Ack(i)
  BY <1>8 DEF Ack, Gone
<1>9. CASE AsyncXAdd(i)
  <2>1. resps' \in Seq(Response) /\ trimmed' \in 0..Len(resps')
    BY <1>9, XAddType DEF AsyncXAdd
  <2> QED BY <1>9, <2>1 DEF AsyncXAdd
<1>10. CASE XAddAgain(i)
  <2>1. hpc[i] = "hitsend" => Reply(i) \in Response
    BY ReplyType
  <2>2. resps' \in Seq(Response) /\ trimmed' \in 0..Len(resps')
    BY <1>10, <2>1, XAddType DEF XAddAgain
  <2> QED BY <1>10, <2>2 DEF XAddAgain
<1>11. CASE AckFails(i)
  BY <1>11 DEF AckFails, Gone, Fault
<1> QED
  BY <1>1, <1>2, <1>3, <1>4, <1>5, <1>6, <1>7, <1>8, <1>9, <1>10, <1>11 DEF Handler

(* So does every other step. *)
LEMMA TypeOtherStep ==
  ASSUME TypeInv,
         \/ Start \/ Worker \/ Prefetch \/ Crash \/ ReplyLost \/ RedisRestart
         \/ (\E k \in Keys : StoreExpire(k)) \/ (\E r \in Request : EnvRequest(r))
         \/ UNCHANGED vars
  PROVE  TypeInv'
<1> USE ServerAssumption DEF TypeInv, TypeOK, HandlerShape, LoopShape, HandlerPc,
        streamVars, groupVars, loopVars, faultVars, handleVars, serverVars
<1>1. CASE Start \/ NoGroup
  BY <1>1 DEF Start, NoGroup, EnsureGroup
<1>2. CASE XReadGroup
  BY <1>2 DEF XReadGroup, Position
<1>3. ASSUME NEW k \in Refreshed, PrefetchResolve(k) PROVE TypeInv'
  <2>1. NewWire(k) \in Wire /\ clock + 1 \in 1..MaxClock /\ clock' = clock + 1
    BY <1>3, NewWireType DEF PrefetchResolve
  <2> QED BY <1>3, <2>1 DEF PrefetchResolve
<1>4. CASE PrefetchCache
  <2>1. store' \in [Keys -> Wire \cup {None}]
    BY <1>4, CacheSetType DEF PrefetchCache
  <2> QED BY <1>4, <2>1 DEF PrefetchCache
<1>5. CASE PrefetchPublish
  <2>1. clock + 1 \in 1..MaxClock /\ clock' = clock + 1
    BY <1>5 DEF PrefetchPublish, Tick
  <2>2. pushes' \in Seq(Update)
    BY <1>5, <2>1, PublishType DEF PrefetchPublish
  <2> QED BY <1>5, <2>1, <2>2 DEF PrefetchPublish
<1>6. CASE Crash
  <2>1. /\ hpc' \in [Position -> HandlerPc]
        /\ \A i \in Position : hpc'[i] = hpc[i] \/ (hpc'[i] = "dead" /\ hpc[i] # "off")
    BY <1>6 DEF Crash, Running
  <2>2. /\ hwire' \in [Position -> Wire \cup {None}]
        /\ hat' \in [Position -> 1..MaxClock \cup {None}]
        /\ outbox' \in [Position -> Response \cup {None}]
        /\ \A i \in Position : outbox'[i] = None
    BY <1>6 DEF Crash
  <2>3. \A i \in Position : hpc'[i] \in {"off", "done", "dead"}
    BY <1>6 DEF Crash, Running
  <2>4. TypeOK'
    <3>1. up' \in BOOLEAN /\ ppc' \in {"wait", "cache", "publish"} /\ pwire' \in Wire \cup {None}
      BY <1>6 DEF Crash
    <3>2. faults' \in 0..MaxFaults /\ resends' \in 0..MaxResends
      BY <1>6 DEF Crash, Fault
    <3>3. UNCHANGED <<reqs, streamVars, pushes, groupVars, store, clock>>
      BY <1>6 DEF Crash
    <3> QED BY <2>1, <2>2, <3>1, <3>2, <3>3
  <2>5. HandlerShape'
    BY <1>6, <2>1, <2>2, <2>3 DEF Crash
  <2>6. LoopShape'
    BY <1>6 DEF Crash
  <2> QED BY <2>4, <2>5, <2>6
<1>7. CASE ReplyLost
  BY <1>7 DEF ReplyLost, Fault, Position
<1>8. CASE RedisRestart
  BY <1>8 DEF RedisRestart, Fault
<1>9. ASSUME NEW k \in Keys, StoreExpire(k) PROVE TypeInv'
  BY <1>9 DEF StoreExpire
<1>10. ASSUME NEW r \in Request, EnvRequest(r) PROVE TypeInv'
  <2>1. /\ reqs' \in Seq(Request) /\ Len(reqs') = Len(reqs) + 1 /\ Len(reqs') <= MaxReqs
        /\ \A i \in 1..Len(reqs) : reqs'[i] = reqs[i]
    BY <1>10 DEF EnvRequest
  <2>2. TypeOK'
    BY <1>10, <2>1 DEF EnvRequest
  <2>3. HandlerShape' /\ LoopShape'
    BY <1>10, <2>1 DEF EnvRequest, Position
  <2> QED BY <2>2, <2>3
<1>11. CASE UNCHANGED vars
  BY <1>11 DEF vars
<1> QED
  BY <1>1, <1>2, <1>3, <1>4, <1>5, <1>6, <1>7, <1>8, <1>9, <1>10, <1>11 DEF Worker, Prefetch

(* The inductive invariant holds in every reachable state. *)
THEOREM TypeInvariant == Spec => []TypeInv
<1>1. TypeInv /\ [Next]_vars => TypeInv'
  BY TypeHandlerStep, TypeOtherStep DEF Next, ServerNext
<1> QED BY TypeInit, <1>1, PTL DEF Spec

(* Type correctness of the server: streams, group, cache, handlers and     *)
(* prefetch loop.                                                          *)
THEOREM ServerTypeCorrect == Spec => []TypeOK
<1>1. TypeInv => TypeOK
  BY DEF TypeInv
<1> QED BY <1>1, TypeInvariant, PTL

-----------------------------------------------------------------------------
(* The consumer group.                                                     *)

Open == Running \cup {"dead"}

(* Of the requests Redis still has, exactly those up to the group's cursor *)
(* have been given a handler.                                              *)
DeliveryInv ==
  /\ group # None => lost <= group
  /\ \A i \in Position : i > lost => (hpc[i] # "off" <=> group # None /\ i <= group)

GroupInv == DeliveryInv /\ PendingExact

(* A step that leaves the group alone and neither starts nor ends a        *)
(* handler keeps the invariant.                                            *)
LEMMA GroupKept ==
  ASSUME GroupInv, UNCHANGED groupVars,
         \A i \in Position : /\ hpc'[i] = "off" <=> hpc[i] = "off"
                             /\ hpc'[i] \in Open <=> hpc[i] \in Open
  PROVE  GroupInv'
BY DEF GroupInv, DeliveryInv, PendingExact, groupVars, Open

(* A batch is delivered: its messages are new, and pending. *)
LEMMA GroupBatch ==
  ASSUME TypeInv, GroupInv, group # None, NEW n \in (group + 1)..Len(reqs), NEW l \in {"get", "dead"},
         group' = n, pel' = pel \cup (group + 1)..n, lost' = lost,
         hpc' = [i \in Position |-> IF i \in (group + 1)..n THEN l ELSE hpc[i]]
  PROVE  GroupInv' /\ \A i \in Position : i \in (group + 1)..n => hpc[i] = "off"
<1> USE ServerAssumption DEF TypeInv, TypeOK, GroupInv, DeliveryInv, PendingExact, Position, Running, HandlerPc
<1>1. group \in Nat /\ n \in Nat /\ lost \in Nat /\ lost <= group /\ n # None
  OBVIOUS
<1>2. \A i \in Position : i \in (group + 1)..n => hpc[i] = "off"
  BY <1>1
<1>3. l \in Running \cup {"dead"} /\ l # "off"
  OBVIOUS
<1>4. DeliveryInv'
  BY <1>1, <1>3
<1>5. PendingExact'
  BY <1>1, <1>3
<1> QED BY <1>2, <1>4, <1>5

(* One step of a handler keeps the invariant: only Ack takes a message off *)
(* the pending list, and it ends the handler.                              *)
LEMMA GroupHandlerStep ==
  ASSUME TypeInv, GroupInv, NEW i \in Position,
         Handler(i) \/ AsyncXAdd(i) \/ XAddAgain(i) \/ AckFails(i)
  PROVE  GroupInv'
<1> USE DEF TypeInv, TypeOK, Goto, Gone, handleVars, Open, Running, HandlerPc
<1>1. CASE HandleMalformed(i) \/ CacheGet(i) \/ HitStamp(i) \/ HitSend(i)
  BY <1>1, GroupKept DEF HandleMalformed, CacheGet, HitStamp, HitSend, AfterHit
<1>2. CASE Resolve(i) \/ HandleCache(i) \/ HandlePublish(i) \/ AckFails(i)
  BY <1>2, GroupKept DEF Resolve, HandleCache, HandlePublish, AckFails
<1>3. CASE AsyncXAdd(i) \/ XAddAgain(i)
  BY <1>3, GroupKept DEF AsyncXAdd, XAddAgain
<1>4. CASE Ack(i)
  <2>1. \A j \in Position : hpc'[j] = IF j = i THEN "done" ELSE hpc[j]
    BY <1>4 DEF Ack
  <2>2. pel' = pel \ {i} /\ lost' = lost /\ group' = group /\ hpc[i] = "ack"
    BY <1>4 DEF Ack
  <2> QED BY <2>1, <2>2 DEF GroupInv, DeliveryInv, PendingExact
<1> QED
  BY <1>1, <1>2, <1>3, <1>4 DEF Handler

(* So does every other step; in particular a Redis restart, after which    *)
(* there is nothing to deliver, and the new group, which starts there.     *)
LEMMA GroupOtherStep ==
  ASSUME TypeInv, GroupInv,
         \/ Start \/ Worker \/ Prefetch \/ Crash \/ ReplyLost \/ RedisRestart
         \/ (\E k \in Keys : StoreExpire(k)) \/ (\E r \in Request : EnvRequest(r))
         \/ UNCHANGED vars
  PROVE  GroupInv'
<1> USE DEF handleVars, serverVars
<1>1. CASE Start \/ NoGroup
  BY <1>1, ServerAssumption DEF Start, NoGroup, EnsureGroup, GroupInv, DeliveryInv, PendingExact,
     TypeInv, TypeOK, Position
<1>2. CASE XReadGroup
  BY <1>2, GroupBatch DEF XReadGroup
<1>3. CASE ReplyLost
  BY <1>3, GroupBatch DEF ReplyLost
<1>4. CASE Crash
  BY <1>4, GroupKept DEF Crash, Open, Running, TypeInv, TypeOK
<1>5. CASE RedisRestart
  BY <1>5, ServerAssumption DEF RedisRestart, GroupInv, DeliveryInv, PendingExact, TypeInv, TypeOK,
     HandlerShape, Running, Position
<1>6. CASE Prefetch
  BY <1>6, GroupKept DEF Prefetch, PrefetchResolve, PrefetchCache, PrefetchPublish
<1>7. CASE \/ (\E k \in Keys : StoreExpire(k)) \/ (\E r \in Request : EnvRequest(r))
           \/ UNCHANGED vars
  BY <1>7, GroupKept DEF StoreExpire, EnvRequest, vars
<1> QED
  BY <1>1, <1>2, <1>3, <1>4, <1>5, <1>6, <1>7 DEF Worker

(* The group's invariant holds in every reachable state. *)
THEOREM GroupInvariant == Spec => []GroupInv
<1>1. Init => GroupInv
  BY DEF Init, GroupInv, DeliveryInv, PendingExact, Running, HandlerPc
<1>2. TypeInv /\ GroupInv /\ [Next]_vars => GroupInv'
  BY GroupHandlerStep, GroupOtherStep DEF Next, ServerNext
<1> QED BY <1>1, <1>2, TypeInvariant, PTL DEF Spec

(* The pending list is exactly the delivered requests that are not through *)
(* with handle, or whose XACK failed.                                      *)
THEOREM PendingListExact == Spec => []PendingExact
<1>1. GroupInv => PendingExact
  BY DEF GroupInv
<1> QED BY <1>1, GroupInvariant, PTL

(* No message is handed to a second handler, through restarts of server    *)
(* and Redis.                                                              *)
THEOREM HandledOnce == Spec => DeliveredOnce
<1>1. ASSUME TypeInv, GroupInv, [Next]_vars, NEW i \in Position, hpc'[i] = "get"
      PROVE  hpc[i] \in {"off", "get"}
  <2> USE DEF TypeInv, TypeOK, handleVars, serverVars, Goto, Gone
  <2>1. CASE XReadGroup
    BY <1>1, <2>1, GroupBatch DEF XReadGroup
  <2>2. CASE Start \/ NoGroup \/ Prefetch \/ RedisRestart \/ UNCHANGED vars
    BY <1>1, <2>2 DEF Start, NoGroup, Prefetch, PrefetchResolve, PrefetchCache, PrefetchPublish,
       RedisRestart, vars
  <2>3. CASE Crash \/ ReplyLost
    BY <1>1, <2>3 DEF Crash, ReplyLost
  <2>4. CASE (\E k \in Keys : StoreExpire(k)) \/ (\E r \in Request : EnvRequest(r))
    BY <1>1, <2>4 DEF StoreExpire, EnvRequest
  <2>5. ASSUME NEW j \in Position, Handler(j) PROVE hpc'[i] = hpc[i]
    BY <1>1, <2>5 DEF Handler, HandleMalformed, CacheGet, HitStamp, HitSend, AfterHit, Resolve,
       HandleCache, HandlePublish, Ack
  <2>6. ASSUME NEW j \in Position, AsyncXAdd(j) \/ XAddAgain(j) \/ AckFails(j)
        PROVE  hpc'[i] = hpc[i]
    BY <1>1, <2>6 DEF AsyncXAdd, XAddAgain, AckFails
  <2> QED
    BY <1>1, <2>1, <2>2, <2>3, <2>4, <2>5, <2>6 DEF Next, ServerNext, Worker
<1>2. TypeInv /\ GroupInv /\ [Next]_vars
        => [\A i \in Position : hpc'[i] = "get" => hpc[i] \in {"off", "get"}]_vars
  BY <1>1
<1> QED BY <1>2, TypeInvariant, GroupInvariant, PTL DEF Spec, DeliveredOnce

-----------------------------------------------------------------------------
(* Answers fit the request they are sent for.                              *)

(* r may be sent for the request at position i. *)
Fits(r, i) ==
  /\ r.id = reqs[i].id
  /\ r.wire # None => r.wire.key = reqs[i].key

(* The three parts of AnswerMatchesRequest. *)
RespsMatch == \A j \in 1..Len(resps) : \E i \in 1..Len(reqs) : Fits(resps[j], i)
PushesMatch == \A j \in 1..Len(pushes) : pushes[j].wire.key = pushes[j].key
StoreMatches == \A k \in Keys : store[k] # None => store[k].key = k

(* What a handler holds, and what it gave its XADD goroutine, answers its  *)
(* own request.                                                            *)
HandlersMatch ==
  \A i \in Position :
    /\ hwire[i] # None => i <= Len(reqs) /\ hwire[i].key = reqs[i].key
    /\ outbox[i] # None => Fits(outbox[i], i)

MatchInv == RespsMatch /\ PushesMatch /\ StoreMatches /\ HandlersMatch

(* A response that fits a request may be added to the stream. *)
LEMMA XAddMatches ==
  ASSUME TypeInv, RespsMatch, NEW r, NEW i \in Position, i <= Len(reqs), Fits(r, i),
         XAddResponse(r), UNCHANGED reqs
  PROVE  RespsMatch'
<1>1. /\ Len(resps') = Len(resps) + 1 /\ resps'[Len(resps) + 1] = r
      /\ \A j \in 1..Len(resps) : resps'[j] = resps[j]
  BY DEF XAddResponse, TypeInv, TypeOK
<1>2. i \in 1..Len(reqs) /\ Len(resps) \in Nat
  BY ServerAssumption DEF Position, TypeInv, TypeOK
<1>3. ASSUME NEW j \in 1..Len(resps')
      PROVE  \E p \in 1..Len(reqs) : Fits(resps'[j], p)
  <2>1. CASE j = Len(resps) + 1
    BY <1>1, <1>2, <2>1
  <2>2. CASE j \in 1..Len(resps)
    BY <1>1, <2>2 DEF RespsMatch
  <2> QED BY <1>1, <1>2, <2>1, <2>2
<1> QED BY <1>3 DEF RespsMatch, Fits

(* The response a handler makes of its answer fits its request. *)
LEMMA ReplyFits ==
  ASSUME HandlersMatch, NEW i \in Position
  PROVE  Fits(Reply(i), i) /\ Fits(ErrReply(i), i)
BY DEF HandlersMatch, Fits, Reply, ErrReply

(* SET files an answer under its own key. *)
LEMMA CacheSetMatches ==
  ASSUME TypeInv, StoreMatches, NEW w \in Wire, CacheSet(w)
  PROVE  StoreMatches'
BY DEF TypeInv, TypeOK, StoreMatches, CacheSet, Wire

(* So does PUBLISH. *)
LEMMA PublishMatches ==
  ASSUME TypeInv, PushesMatch, NEW w, NEW at, Publish(w, at)
  PROVE  PushesMatch'
<1> DEFINE u == [key |-> w.key, wire |-> w, resolvedAt |-> at]
<1>1. u.wire.key = u.key
  OBVIOUS
<1>2. pushes \in Seq(Update) /\ (pushes' = Append(pushes, u) \/ pushes' = pushes)
  BY DEF TypeInv, TypeOK, Publish
<1> HIDE DEF u
<1>3. CASE pushes' = Append(pushes, u)
  <2>1. /\ Len(pushes) \in Nat /\ Len(pushes') = Len(pushes) + 1
        /\ pushes'[Len(pushes) + 1] = u
        /\ \A j \in 1..Len(pushes) : pushes'[j] = pushes[j]
    BY <1>2, <1>3
  <2> QED BY <1>1, <2>1 DEF PushesMatch
<1> QED BY <1>2, <1>3 DEF PushesMatch

(* One step of a handler or of its XADD goroutine keeps the match. *)
LEMMA MatchHandlerStep ==
  ASSUME TypeInv, MatchInv, NEW i \in Position,
         Handler(i) \/ AsyncXAdd(i) \/ XAddAgain(i) \/ AckFails(i)
  PROVE  MatchInv'
<1> USE ServerAssumption DEF MatchInv, streamVars, handleVars, Goto, Gone
<1>1. UNCHANGED reqs
  BY DEF Handler, HandleMalformed, CacheGet, HitStamp, HitSend, Resolve, HandleCache, HandlePublish,
     Ack, AsyncXAdd, XAddAgain, AckFails
<1>2. \A p \in Position : hpc[p] # "off" \/ outbox[p] # None => p <= Len(reqs)
  BY DEF TypeInv, HandlerShape
<1>3. CASE HandleMalformed(i) \/ HitStamp(i)
  <2>1. UNCHANGED <<reqs, resps, pushes, store, hwire, outbox>>
    BY <1>3 DEF HandleMalformed, HitStamp
  <2> QED BY <2>1 DEF RespsMatch, PushesMatch, StoreMatches, HandlersMatch, Fits
<1>4. CASE Ack(i) \/ AckFails(i)
  <2>1. UNCHANGED <<reqs, resps, pushes, store, outbox>> /\ hwire' = [hwire EXCEPT ![i] = None]
    BY <1>4 DEF Ack, AckFails
  <2>2. HandlersMatch'
    BY <2>1 DEF HandlersMatch, Fits, TypeInv, TypeOK
  <2> QED BY <2>1, <2>2 DEF RespsMatch, PushesMatch, StoreMatches, Fits
<1>5. CASE CacheGet(i)
  <2>1. UNCHANGED <<reqs, resps, pushes, store, outbox>>
    BY <1>5 DEF CacheGet
  <2>2. reqs[i].key \in Keys /\ i <= Len(reqs)
    BY <1>2, <1>5, RequestAt DEF CacheGet, TypeInv
  <2>3. Hit(i) => store[reqs[i].key].key = reqs[i].key
    BY <2>2 DEF Hit, StoreMatches
  <2>4. HandlersMatch'
    BY <1>5, <2>1, <2>2, <2>3 DEF CacheGet, HandlersMatch, Fits, TypeInv, TypeOK
  <2> QED BY <2>1, <2>4 DEF RespsMatch, PushesMatch, StoreMatches, Fits
<1>6. CASE HitSend(i)
  <2>1. UNCHANGED <<reqs, pushes, store, hwire, outbox>> /\ i <= Len(reqs)
    BY <1>2, <1>6 DEF HitSend
  <2>2. RespsMatch'
    BY <1>6, <2>1, XAddMatches, ReplyFits DEF HitSend, RespsMatch, Fits
  <2> QED BY <2>1, <2>2 DEF PushesMatch, StoreMatches, HandlersMatch, Fits
<1>7. CASE Resolve(i)
  <2>1. UNCHANGED <<reqs, resps, pushes, store>> /\ i <= Len(reqs)
    BY <1>2, <1>7 DEF Resolve
  <2>2. NewWire(reqs[i].key).key = reqs[i].key
    BY DEF NewWire
  <2>3. HandlersMatch'
    BY <1>7, <2>1, <2>2, ReplyFits DEF Resolve, HandlersMatch, Fits, TypeInv, TypeOK
  <2> QED BY <2>1, <2>3 DEF RespsMatch, PushesMatch, StoreMatches, Fits
<1>8. CASE HandleCache(i)
  <2>1. UNCHANGED <<reqs, resps, pushes, hwire, outbox>> /\ hwire[i] \in Wire
    BY <1>8 DEF HandleCache, TypeInv, HandlerShape
  <2>2. StoreMatches'
    BY <1>8, <2>1, CacheSetMatches DEF HandleCache
  <2> QED BY <2>1, <2>2 DEF RespsMatch, PushesMatch, HandlersMatch, Fits
<1>9. CASE HandlePublish(i)
  <2>1. UNCHANGED <<reqs, resps, store, hwire>> /\ outbox' = [outbox EXCEPT ![i] = Reply(i)]
    BY <1>9 DEF HandlePublish
  <2>2. PushesMatch'
    BY <1>9, PublishMatches DEF HandlePublish
  <2>3. HandlersMatch'
    BY <2>1, ReplyFits DEF HandlersMatch, Fits, TypeInv, TypeOK
  <2> QED BY <2>1, <2>2, <2>3 DEF RespsMatch, StoreMatches, Fits
<1>10. CASE AsyncXAdd(i)
  <2>1. /\ UNCHANGED <<reqs, pushes, store, hwire>> /\ outbox' = [outbox EXCEPT ![i] = None]
        /\ i <= Len(reqs) /\ Fits(outbox[i], i)
    BY <1>2, <1>10 DEF AsyncXAdd, HandlersMatch
  <2>2. RespsMatch'
    BY <1>10, <2>1, XAddMatches DEF AsyncXAdd, RespsMatch, Fits
  <2> QED BY <2>1, <2>2 DEF PushesMatch, StoreMatches, HandlersMatch, Fits, TypeInv, TypeOK
<1>11. CASE XAddAgain(i)
  <2>1. UNCHANGED <<reqs, pushes, store, hwire, outbox>> /\ i <= Len(reqs)
    BY <1>2, <1>11 DEF XAddAgain
  <2>2. outbox[i] # None => Fits(outbox[i], i)
    BY DEF HandlersMatch
  <2>3. RespsMatch'
    BY <1>11, <2>1, <2>2, XAddMatches, ReplyFits DEF XAddAgain
  <2> QED BY <2>1, <2>3 DEF PushesMatch, StoreMatches, HandlersMatch, Fits
<1> QED
  BY <1>3, <1>4, <1>5, <1>6, <1>7, <1>8, <1>9, <1>10, <1>11 DEF Handler

(* So does every other step. *)
LEMMA MatchOtherStep ==
  ASSUME TypeInv, MatchInv,
         \/ Start \/ Worker \/ Prefetch \/ Crash \/ ReplyLost \/ RedisRestart
         \/ (\E k \in Keys : StoreExpire(k)) \/ (\E r \in Request : EnvRequest(r))
         \/ UNCHANGED vars
  PROVE  MatchInv'
<1> USE ServerAssumption DEF MatchInv, streamVars, handleVars, serverVars
<1>1. CASE Start \/ Worker \/ ReplyLost \/ UNCHANGED vars
  <2>1. UNCHANGED <<reqs, resps, pushes, store, hwire, outbox>>
    BY <1>1 DEF Start, Worker, XReadGroup, NoGroup, ReplyLost, vars
  <2> QED BY <2>1 DEF RespsMatch, PushesMatch, StoreMatches, HandlersMatch, Fits
<1>2. CASE RedisRestart \/ \E k \in Keys : StoreExpire(k)
  <2>1. UNCHANGED <<reqs, resps, pushes, hwire, outbox>>
    BY <1>2 DEF RedisRestart, StoreExpire
  <2>2. StoreMatches'
    BY <1>2 DEF RedisRestart, StoreExpire, StoreMatches, TypeInv, TypeOK
  <2> QED BY <2>1, <2>2 DEF RespsMatch, PushesMatch, HandlersMatch, Fits
<1>3. CASE Crash
  <2>1. UNCHANGED <<reqs, resps, pushes, store>> /\ \A i \in Position : hwire'[i] = None /\ outbox'[i] = None
    BY <1>3 DEF Crash
  <2> QED BY <2>1 DEF RespsMatch, PushesMatch, StoreMatches, HandlersMatch, Fits
<1>4. CASE Prefetch
  <2>1. UNCHANGED <<reqs, resps, hwire, outbox>>
    BY <1>4 DEF Prefetch, PrefetchResolve, PrefetchCache, PrefetchPublish
  <2>2. StoreMatches'
    BY <1>4, CacheSetMatches DEF Prefetch, PrefetchResolve, PrefetchCache, PrefetchPublish,
       StoreMatches, TypeInv, LoopShape
  <2>3. PushesMatch'
    BY <1>4, PublishMatches DEF Prefetch, PrefetchResolve, PrefetchCache, PrefetchPublish, PushesMatch
  <2> QED BY <2>1, <2>2, <2>3 DEF RespsMatch, HandlersMatch, Fits
<1>5. ASSUME NEW r \in Request, EnvRequest(r) PROVE MatchInv'
  <2>1. /\ Len(reqs) \in Nat /\ Len(reqs') = Len(reqs) + 1
        /\ \A i \in 1..Len(reqs) : reqs'[i] = reqs[i]
    BY <1>5 DEF EnvRequest, TypeInv, TypeOK
  <2>2. UNCHANGED <<resps, pushes, store, hwire, outbox>>
    BY <1>5 DEF EnvRequest
  <2>3. RespsMatch'
    <3>1. ASSUME NEW j \in 1..Len(resps)
          PROVE  \E i \in 1..Len(reqs') : Fits(resps[j], i)'
      <4>1. PICK i \in 1..Len(reqs) : Fits(resps[j], i)
        BY DEF RespsMatch
      <4>2. i \in 1..Len(reqs') /\ Fits(resps[j], i)'
        BY <2>1, <2>2, <4>1 DEF Fits
      <4> QED BY <4>2
    <3> QED BY <2>2, <3>1 DEF RespsMatch
  <2>4. HandlersMatch'
    BY <2>1, <2>2 DEF HandlersMatch, Fits, TypeInv, HandlerShape, Position
  <2> QED BY <2>2, <2>3, <2>4 DEF PushesMatch, StoreMatches
<1> QED BY <1>1, <1>2, <1>3, <1>4, <1>5

(* The match holds in every reachable state. *)
THEOREM MatchInvariant == Spec => []MatchInv
<1>1. Init => MatchInv
  BY DEF Init, MatchInv, RespsMatch, PushesMatch, StoreMatches, HandlersMatch
<1>2. TypeInv /\ MatchInv /\ [Next]_vars => MatchInv'
  BY MatchHandlerStep, MatchOtherStep DEF Next, ServerNext
<1> QED BY <1>1, <1>2, TypeInvariant, PTL DEF Spec

(* Responses, updates and cache entries answer what they are filed under,  *)
(* for any number of handlers at once.                                     *)
THEOREM AnswersMatch == Spec => []AnswerMatchesRequest
<1>1. MatchInv => AnswerMatchesRequest
  BY DEF MatchInv, RespsMatch, PushesMatch, StoreMatches, Fits, AnswerMatchesRequest
<1> QED BY <1>1, MatchInvariant, PTL

-----------------------------------------------------------------------------
(* One response per request.                                               *)

(* The IDs that have been answered. *)
Ids == {resps[j].id : j \in 1..Len(resps)}

(* A handler that has yet to give its response, and one that is giving it. *)
Unanswered == {"off", "get", "hit", "resolve", "cache", "publish"}
Owes(i) == hpc[i] = "hitsend" \/ outbox[i] # None

(* The requests whose response is written and will, for all the program    *)
(* knows, be written once more.                                            *)
Twice == {i \in Position : Owes(i) /\ reqs[i].id \in Ids}

(* Every second response, written or to come, has a re-sent XADD to its    *)
(* account; nobody is answered before his handler is ready to.             *)
OnceInv ==
  /\ IsFiniteSet(Ids)
  /\ Len(resps) + Cardinality(Twice) <= Cardinality(Ids) + resends
  /\ \A i \in 1..Len(reqs) : hpc[i] \in Unanswered => reqs[i].id \notin Ids
  /\ \A i \in Position : hpc[i] \in Unanswered \cup {"hitsend"} => outbox[i] = None
  /\ \A i, j \in 1..Len(reqs) : reqs[i].id = reqs[j].id => i = j

(* The sets that are counted are finite. *)
LEMMA TwiceFinite ==
  ASSUME OnceInv
  PROVE  /\ IsFiniteSet(Twice) /\ Cardinality(Twice) \in Nat
         /\ IsFiniteSet(Ids) /\ Cardinality(Ids) \in Nat
<1>1. IsFiniteSet(Position)
  <2>1. Position \in SUBSET Nat /\ MaxReqs \in Nat /\ \A i \in Position : i <= MaxReqs
    BY ServerAssumption DEF Position
  <2> QED BY <2>1, FS_BoundedSetOfNaturals
<1>2. Twice \in SUBSET Position
  BY DEF Twice
<1>3. IsFiniteSet(Twice)
  BY <1>1, <1>2, FS_Subset
<1> QED BY <1>3, FS_CardinalityType DEF OnceInv

(* XADD adds the ID of its response. *)
LEMMA IdsAdd ==
  ASSUME TypeInv, NEW r, XAddResponse(r)
  PROVE  Ids' = Ids \cup {r.id} /\ Len(resps') = Len(resps) + 1 /\ Len(resps) \in Nat
<1>1. /\ Len(resps) \in Nat
      /\ Len(resps') = Len(resps) + 1 /\ resps'[Len(resps) + 1] = r
      /\ \A j \in 1..Len(resps) : resps'[j] = resps[j]
  BY DEF XAddResponse, TypeInv, TypeOK
<1> QED BY <1>1 DEF Ids

(* A step that writes no response, and lets a handler give one only once.  *)
LEMMA OnceKept ==
  ASSUME TypeInv, OnceInv, UNCHANGED <<reqs, resps, resends>>,
         \A i \in Position : /\ Owes(i)' => Owes(i) \/ (hpc[i] \in Unanswered /\ i <= Len(reqs))
                             /\ hpc'[i] \in Unanswered => hpc[i] \in Unanswered
                             /\ hpc'[i] \in Unanswered \cup {"hitsend"} => outbox'[i] = None
  PROVE  OnceInv'
<1>1. Ids' = Ids
  BY DEF Ids
<1>2. 1..Len(reqs) \subseteq Position /\ Len(reqs) \in Nat
  BY ServerAssumption DEF TypeInv, TypeOK, Position
<1>3. Twice' \in SUBSET Twice
  BY <1>1, <1>2, ServerAssumption DEF Twice, OnceInv, Position
<1>4. Cardinality(Twice') <= Cardinality(Twice) /\ Cardinality(Twice') \in Nat
  BY <1>3, TwiceFinite, FS_Subset, FS_CardinalityType
<1>5. Len(resps) \in Nat /\ resends \in Nat
  BY ServerAssumption DEF TypeInv, TypeOK
<1>6. Len(resps') + Cardinality(Twice') <= Cardinality(Ids') + resends'
  BY <1>1, <1>4, <1>5, TwiceFinite DEF OnceInv
<1> QED BY <1>1, <1>2, <1>6 DEF OnceInv

(* A step that writes the response a handler owes: for the last time, or   *)
(* as a re-sent command.                                                   *)
LEMMA OnceWrite ==
  ASSUME TypeInv, OnceInv, NEW i \in Position, i <= Len(reqs), Owes(i),
         NEW r, r.id = reqs[i].id, XAddResponse(r), UNCHANGED reqs,
         \A p \in Position \ {i} : hpc'[p] = hpc[p] /\ outbox'[p] = outbox[p],
         hpc'[i] \notin Unanswered, hpc'[i] = "hitsend" => outbox'[i] = None,
         (resends' = resends /\ ~Owes(i)') \/ resends' = resends + 1
  PROVE  OnceInv'
<1>1. /\ Ids' = Ids \cup {reqs[i].id} /\ Len(resps') = Len(resps) + 1 /\ Len(resps) \in Nat
      /\ resends \in Nat
  BY IdsAdd, ServerAssumption DEF TypeInv, TypeOK
<1>2. /\ IsFiniteSet(Ids')
      /\ Cardinality(Ids') = IF reqs[i].id \in Ids THEN Cardinality(Ids) ELSE Cardinality(Ids) + 1
  BY <1>1, TwiceFinite, FS_AddElement
<1>3. i \in 1..Len(reqs) /\ 1..Len(reqs) \subseteq Position /\ Len(reqs) \in Nat
  BY ServerAssumption DEF TypeInv, TypeOK, Position
<1>4. \A p \in Position : Owes(p) => p \in 1..Len(reqs)
  BY ServerAssumption, <1>3 DEF Owes, TypeInv, HandlerShape, Position
<1>5. \A p \in Position \ {i} : p \in Twice' <=> p \in Twice
  BY <1>1, <1>3, <1>4 DEF Twice, Owes, OnceInv
<1>6. i \in Twice <=> reqs[i].id \in Ids
  BY DEF Twice
<1>7. Len(resps) + Cardinality(Twice) <= Cardinality(Ids) + resends
  BY DEF OnceInv
<1>8. Len(resps') + Cardinality(Twice') <= Cardinality(Ids') + resends'
  <2>1. CASE resends' = resends /\ ~Owes(i)'
    <3>1. Twice' = Twice \ {i}
      BY <1>5, <2>1 DEF Twice
    <3>2. Cardinality(Twice') = IF i \in Twice THEN Cardinality(Twice) - 1 ELSE Cardinality(Twice)
      BY <3>1, TwiceFinite, FS_RemoveElement
    <3> QED BY <1>1, <1>2, <1>6, <1>7, <2>1, <3>2, TwiceFinite
  <2>2. CASE resends' = resends + 1
    <3>1. Twice' \in SUBSET (Twice \cup {i})
      BY <1>5 DEF Twice
    <3>2. /\ IsFiniteSet(Twice \cup {i})
          /\ Cardinality(Twice \cup {i})
               = IF i \in Twice THEN Cardinality(Twice) ELSE Cardinality(Twice) + 1
      BY TwiceFinite, FS_AddElement
    <3>3. IsFiniteSet(Twice') /\ Cardinality(Twice') <= Cardinality(Twice \cup {i})
      BY <3>1, <3>2, FS_Subset
    <3>4. Cardinality(Twice') \in Nat
      BY <3>3, FS_CardinalityType
    <3> QED BY <1>1, <1>2, <1>6, <1>7, <2>2, <3>2, <3>3, <3>4, TwiceFinite
  <2> QED BY <2>1, <2>2
<1>9. \A p \in 1..Len(reqs) : hpc'[p] \in Unanswered => reqs[p].id \notin Ids'
  BY <1>1, <1>3 DEF OnceInv
<1>10. \A p \in Position : hpc'[p] \in Unanswered \cup {"hitsend"} => outbox'[p] = None
  BY DEF OnceInv
<1> QED BY <1>2, <1>8, <1>9, <1>10 DEF OnceInv

(* One step of a handler or of its XADD goroutine keeps the invariant. *)
LEMMA OnceHandlerStep ==
  ASSUME TypeInv, MatchInv, OnceInv, NEW i \in Position,
         Handler(i) \/ AsyncXAdd(i) \/ XAddAgain(i) \/ AckFails(i)
  PROVE  OnceInv'
<1> USE DEF streamVars, faultVars, handleVars, Goto, Gone
<1>1. /\ hpc \in [Position -> HandlerPc] /\ outbox \in [Position -> Response \cup {None}]
      /\ (hpc[i] # "off" \/ outbox[i] # None => i <= Len(reqs))
  BY DEF TypeInv, TypeOK, HandlerShape
<1>2. \A p \in Position : hpc[p] \in Unanswered \cup {"hitsend"} => outbox[p] = None
  BY DEF OnceInv
<1>3. CASE HandleMalformed(i) \/ CacheGet(i) \/ HandleCache(i) \/ Ack(i) \/ AckFails(i)
  <2>1. /\ UNCHANGED <<reqs, resps, resends, outbox>>
        /\ \E l \in {"ack", "hit", "resolve", "publish", "done", "dead"} : hpc' = [hpc EXCEPT ![i] = l]
        /\ hpc[i] \in {"get", "cache"} \/ hpc'[i] \in {"done", "dead"}
    BY <1>1, <1>3 DEF HandleMalformed, CacheGet, HandleCache, Ack, AckFails, Fault
  <2> QED BY <1>1, <1>2, <2>1, OnceKept DEF Owes, Unanswered
<1>4. CASE HitStamp(i)
  <2>1. UNCHANGED <<reqs, resps, resends, outbox>> /\ hpc' = [hpc EXCEPT ![i] = "hitsend"] /\ hpc[i] = "hit"
    BY <1>4 DEF HitStamp
  <2> QED BY <1>1, <1>2, <2>1, OnceKept DEF Owes, Unanswered
<1>5. CASE Resolve(i) \/ HandlePublish(i)
  <2>1. /\ UNCHANGED <<reqs, resps, resends>> /\ hpc[i] \in {"resolve", "publish"}
        /\ \/ hpc' = [hpc EXCEPT ![i] = "cache"] /\ UNCHANGED outbox
           \/ hpc' = [hpc EXCEPT ![i] = "ack"] /\ \E r : outbox' = [outbox EXCEPT ![i] = r]
    BY <1>5 DEF Resolve, HandlePublish
  <2> QED BY <1>1, <1>2, <2>1, OnceKept DEF Owes, Unanswered
<1>6. CASE HitSend(i)
  <2>1. /\ UNCHANGED <<reqs, resends, outbox>> /\ hpc[i] = "hitsend"
        /\ hpc' = [hpc EXCEPT ![i] = "ack"]
        /\ XAddResponse(Reply(i)) \/ UNCHANGED resps
    BY <1>6 DEF HitSend, AfterHit
  <2>2. Owes(i) /\ ~Owes(i)' /\ Reply(i).id = reqs[i].id
    BY <1>1, <1>2, <2>1 DEF Owes, Reply
  <2>3. CASE XAddResponse(Reply(i))
    BY <1>1, <2>1, <2>2, <2>3, OnceWrite DEF Unanswered
  <2>4. CASE UNCHANGED resps
    BY <1>1, <1>2, <2>1, <2>4, OnceKept DEF Owes, Unanswered
  <2> QED BY <2>1, <2>3, <2>4
<1>7. CASE AsyncXAdd(i)
  <2>1. /\ UNCHANGED <<reqs, resends, hpc>> /\ outbox[i] # None
        /\ outbox' = [outbox EXCEPT ![i] = None]
        /\ XAddResponse(outbox[i]) \/ UNCHANGED resps
    BY <1>7 DEF AsyncXAdd
  <2>2. Owes(i) /\ ~Owes(i)' /\ outbox[i].id = reqs[i].id /\ hpc[i] \notin Unanswered
    BY <1>1, <1>2, <2>1 DEF Owes, MatchInv, HandlersMatch, Fits
  <2>3. CASE XAddResponse(outbox[i])
    BY <1>1, <2>1, <2>2, <2>3, OnceWrite
  <2>4. CASE UNCHANGED resps
    BY <1>1, <1>2, <2>1, <2>4, OnceKept DEF Owes, Unanswered
  <2> QED BY <2>1, <2>3, <2>4
<1>8. CASE XAddAgain(i)
  <2>1. UNCHANGED <<reqs, hpc, outbox>> /\ resends' = resends + 1
    BY <1>8 DEF XAddAgain
  <2>2. Owes(i) /\ hpc[i] \notin Unanswered
    BY <1>2, <1>8 DEF XAddAgain, Owes, Unanswered
  <2>3. PICK r : XAddResponse(r) /\ r.id = reqs[i].id
    BY <1>8 DEF XAddAgain, Reply, MatchInv, HandlersMatch, Fits
  <2> QED BY <1>1, <1>2, <2>1, <2>2, <2>3, OnceWrite DEF Owes
<1> QED
  BY <1>3, <1>4, <1>5, <1>6, <1>7, <1>8 DEF Handler

(* So does every other step; a new request has an ID nobody has answered.  *)
LEMMA OnceOtherStep ==
  ASSUME TypeInv, GroupInv, MatchInv, OnceInv,
         \/ Start \/ Worker \/ Prefetch \/ Crash \/ ReplyLost \/ RedisRestart
         \/ (\E k \in Keys : StoreExpire(k)) \/ (\E r \in Request : EnvRequest(r))
         \/ UNCHANGED vars
  PROVE  OnceInv'
<1> USE DEF streamVars, faultVars, handleVars, serverVars
<1>1. \A i \in Position : hpc[i] \in Unanswered \cup {"hitsend"} => outbox[i] = None
  BY DEF OnceInv
<1>2. CASE \/ Start \/ NoGroup \/ Prefetch \/ RedisRestart \/ UNCHANGED vars
           \/ \E k \in Keys : StoreExpire(k)
  <2>1. UNCHANGED <<reqs, resps, resends, hpc, outbox>>
    BY <1>2 DEF Start, NoGroup, Prefetch, PrefetchResolve, PrefetchCache, PrefetchPublish,
       RedisRestart, Fault, StoreExpire, vars
  <2> QED BY <1>1, <2>1, OnceKept DEF Owes
<1>3. CASE XReadGroup \/ ReplyLost
  <2>1. /\ UNCHANGED <<reqs, resps, resends, outbox>>
        /\ \A i \in Position : hpc'[i] = hpc[i] \/ (hpc[i] = "off" /\ hpc'[i] \in {"get", "dead"})
    BY <1>3, GroupBatch DEF XReadGroup, ReplyLost, Fault
  <2> QED BY <1>1, <2>1, OnceKept DEF Owes, Unanswered
<1>4. CASE Crash
  <2>1. /\ UNCHANGED <<reqs, resps, resends>>
        /\ \A i \in Position : /\ outbox'[i] = None
                               /\ hpc'[i] \in {"off", "done", "dead"}
                               /\ hpc'[i] = "off" => hpc[i] = "off"
    BY <1>4 DEF Crash, Fault, Running, TypeInv, TypeOK
  <2> QED BY <2>1, OnceKept DEF Owes, Unanswered
<1>5. ASSUME NEW r \in Request, EnvRequest(r) PROVE OnceInv'
  <2>1. /\ Len(reqs) \in Nat /\ Len(reqs') = Len(reqs) + 1 /\ reqs'[Len(reqs) + 1] = r
        /\ \A i \in 1..Len(reqs) : reqs'[i] = reqs[i] /\ reqs[i].id # r.id
    BY <1>5 DEF EnvRequest, TypeInv, TypeOK
  <2>2. UNCHANGED <<resps, resends, hpc, outbox>> /\ Ids' = Ids
    BY <1>5 DEF EnvRequest, Ids
  <2>3. r.id \notin Ids
    BY <2>1 DEF Ids, MatchInv, RespsMatch, Fits
  <2>4. \A i \in Position : Owes(i) => i \in 1..Len(reqs)
    BY <2>1, ServerAssumption DEF Owes, TypeInv, HandlerShape, Position
  <2>5. Twice' = Twice
    BY <2>1, <2>2, <2>4 DEF Twice, Owes
  <2>6. \A i \in 1..Len(reqs') : hpc'[i] \in Unanswered => reqs'[i].id \notin Ids'
    BY <2>1, <2>2, <2>3 DEF OnceInv
  <2>7. \A i, j \in 1..Len(reqs') : reqs'[i].id = reqs'[j].id => i = j
    BY <2>1 DEF OnceInv
  <2> QED BY <2>2, <2>5, <2>6, <2>7 DEF OnceInv
<1> QED
  BY <1>2, <1>3, <1>4, <1>5 DEF Worker

(* A request is answered at most once, but for commands that were re-sent: *)
(* through hits, errors, crashes and restarts of Redis.                    *)
THEOREM AnsweredOnce == Spec => []OneResponse
<1>1. Init => OnceInv
  <2> SUFFICES ASSUME Init PROVE OnceInv
    OBVIOUS
  <2>1. Ids = {} /\ Twice = {} /\ Len(resps) = 0 /\ Len(reqs) = 0 /\ resends = 0
    BY DEF Init, Ids, Twice
  <2>2. IsFiniteSet({}) /\ Cardinality({}) = 0
    BY FS_EmptySet
  <2> QED BY <2>1, <2>2 DEF Init, OnceInv
<1>2. TypeInv /\ GroupInv /\ MatchInv /\ OnceInv /\ [Next]_vars => OnceInv'
  BY OnceHandlerStep, OnceOtherStep DEF Next, ServerNext
<1>3. TypeInv /\ OnceInv => OneResponse
  <2> SUFFICES ASSUME TypeInv, OnceInv PROVE OneResponse
    OBVIOUS
  <2>1. Len(resps) <= Cardinality(Ids) + resends
    BY TwiceFinite, ServerAssumption DEF OnceInv, TypeInv, TypeOK
  <2> QED BY <2>1 DEF OneResponse, Ids
<1> QED BY <1>1, <1>2, <1>3, TypeInvariant, GroupInvariant, MatchInvariant, PTL DEF Spec

=============================================================================
