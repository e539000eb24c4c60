---------------------------- MODULE ClientProofs ----------------------------
(***************************************************************************)
(* Proofs about module Client, for any number of queries, keys, responses, *)
(* pushes and timestamps.                                                  *)
(***************************************************************************)
EXTENDS Client, TLAPS

(* What a goroutine relies on from its own earlier steps: a query past     *)
(* localGet has its key, one about to write the cache has an answer.       *)
QueryShape ==
  \A q \in Queries :
    /\ pc[q] \notin {"idle", "done"} \/ xadd[q] # "idle" => key[q] \in Keys
    /\ pc[q] = "set" => result[q].kind = "answer"

(* Where the dispatcher is in the response stream.  Between two batches    *)
(* nothing lies between lastID and the position it reads from, except what *)
(* Redis has dropped.                                                      *)
DispatcherPosition ==
  /\ cur <= Len(resps)
  /\ upto <= Len(resps)
  /\ lastID # None => lastID <= Len(resps)
  /\ dpc = "blocked" /\ lastID # None => cur = lastID
  /\ dpc = "route" => cur < upto
  /\ dpc = "route" /\ lastID # None => lastID <= cur /\ (lastID < cur => cur <= trimmed)
  /\ dpc = "send" => 1 <= cur /\ cur <= upto /\ lastID = cur /\ resps[cur].id \in Queries

(* The inductive invariant behind type correctness. *)
TypeInv == TypeOK /\ QueryShape /\ DispatcherPosition

-----------------------------------------------------------------------------

(* What resolve() makes of a response is an outcome a query may have. *)
LEMMA FromResponseType ==
  ASSUME NEW r \in Response
  PROVE  FromResponse(r) \in Outcome
BY ClientAssumption DEF FromResponse, Response, Outcome, Answer, Plain

(* localSet keeps the cache a function from keys to entries. *)
LEMMA LocalSetType ==
  ASSUME TypeOK, NEW k \in Keys, NEW w \in Wires, NEW at \in Stamps
  PROVE  LocalSet(k, w, at) \in [Keys -> Entry \cup {None}]
BY DEF TypeOK, LocalSet, Entry

(* The initial state satisfies the inductive invariant. *)
LEMMA TypeInit == Init => TypeInv
BY ClientAssumption DEF Init, TypeInv, TypeOK, QueryShape, DispatcherPosition, Outcome, Plain, Pc

(* One step of a query goroutine or of its sender keeps the invariant. *)
LEMMA TypeQueryStep ==
  ASSUME TypeInv, NEW q \in Queries,
         \/ HandleFormErr(q) \/ (\E k \in Keys : LocalGet(q, k))
         \/ Handle(q) \/ Select(q) \/ Sender(q)
  PROVE  TypeInv'
<1> USE ClientAssumption DEF TypeInv, TypeOK, QueryShape, DispatcherPosition,
        queryVars, routeVars, sendVars, dispVars, respVars, Pc
<1>1. CASE HandleFormErr(q)
  BY <1>1 DEF HandleFormErr, Plain, Outcome
<1>2. CASE LocalDelete(q)
  BY <1>2 DEF LocalDelete
<1>3. CASE SfLead(q)
  <2>1. key[q] \in Keys /\ pc[q] = "miss"
    BY <1>3 DEF SfLead
  <2>2. TypeOK'
    BY <1>3, <2>1 DEF SfLead
  <2>3. QueryShape'
    BY <1>3, <2>1 DEF SfLead
  <2>4. DispatcherPosition'
    BY <1>3 DEF SfLead
  <2> QED  BY <2>2, <2>3, <2>4
<1>4. CASE SfJoin(q)
  BY <1>4 DEF SfJoin
<1>5. CASE XAddWrite(q)
  BY <1>5 DEF XAddWrite, Request
<1>6. CASE XAddReport(q)
  <2>1. \/ xadd' = [xadd EXCEPT ![q] = "ok"]
        \/ xadd' = [xadd EXCEPT ![q] = "err"]
    BY <1>6 DEF XAddReport
  <2>2. xadd[q] = "inflight" /\ xadd' \in [Queries -> {"idle", "inflight", "ok", "err"}]
    BY <1>6, <2>1 DEF XAddReport
  <2> QED  BY <1>6, <2>1, <2>2 DEF XAddReport
<1>7. CASE SelectResponse(q)
  BY FromResponseType, <1>7 DEF SelectResponse, Selecting
<1>8. CASE SelectXAdd(q)
  <2>1. Plain("servfail") \in Outcome
    BY DEF Plain, Outcome
  <2>2. CASE pc' = [pc EXCEPT ![q] = "acked"] /\ UNCHANGED result
    BY <1>8, <2>2 DEF SelectXAdd
  <2>3. CASE /\ pc' = [pc EXCEPT ![q] = "leaving"]
             /\ result' = [result EXCEPT ![q] = Plain("servfail")]
    BY <1>8, <2>1, <2>3 DEF SelectXAdd
  <2> QED  BY <1>8, <2>2, <2>3 DEF SelectXAdd
<1>9. CASE SelectTimeout(q)
  BY <1>9 DEF SelectTimeout, Plain, Timed, Selecting, Outcome
<1>10. CASE ResolveReturn(q)
  BY <1>10 DEF ResolveReturn, Flight
<1>11. CASE QuerySet(q)
  <2>1. key[q] \in Keys /\ result[q].wire \in Wires /\ result[q].resolvedAt \in Stamps
    BY <1>11 DEF QuerySet, Outcome
  <2>2. local' \in [Keys -> Entry \cup {None}]
    BY <1>11, <2>1, LocalSetType DEF QuerySet
  <2> QED  BY <1>11, <2>2 DEF QuerySet
<1>12. ASSUME NEW k \in Keys, LocalGet(q, k)
       PROVE  TypeInv'
  <2>1. local[k] # None => Answer(local[k].wire, local[k].resolvedAt) \in Outcome
    BY DEF Answer, Outcome, Entry
  <2>2. key' \in [Queries -> Keys \cup {None}] /\ key'[q] \in Keys
    BY <1>12 DEF LocalGet
  <2>3. CASE /\ pc' = [pc EXCEPT ![q] = "done"] /\ local[k] # None
             /\ result' = [result EXCEPT ![q] = Answer(local[k].wire, local[k].resolvedAt)]
    BY <1>12, <2>1, <2>2, <2>3 DEF LocalGet
  <2>4. CASE /\ pc' = [pc EXCEPT ![q] = "evict"] \/ pc' = [pc EXCEPT ![q] = "miss"]
             /\ UNCHANGED result
    <3>1. pc' \in [Queries -> Pc] /\ pc'[q] # "set"
      BY <2>4
    <3>2. \A p \in Queries \ {q} : pc'[p] = pc[p] /\ key'[p] = key[p]
      BY <1>12, <2>4 DEF LocalGet
    <3> QED  BY <1>12, <2>2, <2>4, <3>1, <3>2 DEF LocalGet
  <2> QED  BY <1>12, <2>3, <2>4 DEF LocalGet
<1> QED
  BY <1>1, <1>2, <1>3, <1>4, <1>5, <1>6, <1>7, <1>8, <1>9, <1>10, <1>11, <1>12 DEF Handle, Select, Sender

(* One step of the dispatcher keeps the invariant: it stays inside its     *)
(* batch, and the batch inside the stream.                                 *)
LEMMA TypeDispatcherStep ==
  ASSUME TypeInv, Dispatcher
  PROVE  TypeInv'
<1> USE ClientAssumption DEF TypeInv, TypeOK, QueryShape, DispatcherPosition,
        queryVars, routeVars, sendVars, dispVars, respVars
<1>1. CASE DispatcherCall
  BY <1>1 DEF DispatcherCall
<1>2. CASE DispatcherRead
  BY <1>2 DEF DispatcherRead, Larger
<1>3. CASE DispatcherFail
  BY <1>3 DEF DispatcherFail
<1>4. CASE DispatcherRoute
  BY <1>4 DEF DispatcherRoute, HasWaiter, AfterResponse
<1>5. CASE DispatcherSend
  BY <1>5 DEF DispatcherSend, DeliverTo, AfterResponse
<1> QED
  BY <1>1, <1>2, <1>3, <1>4, <1>5 DEF Dispatcher

(* So does a step of the subscriber, of time, or of the rest of the system.*)
LEMMA TypeOtherStep ==
  ASSUME TypeInv,
         (\E k \in Keys : Expire(k)) \/ Subscriber \/ EnvNext
  PROVE  TypeInv'
<1> USE ClientAssumption DEF TypeInv, TypeOK, QueryShape, DispatcherPosition,
        queryVars, routeVars, sendVars, dispVars, respVars, clientVars
<1>1. ASSUME NEW k \in Keys, Expire(k)
      PROVE  TypeInv'
  <2>1. local' \in [Keys -> Entry \cup {None}]
    <3>1. local' = [local EXCEPT ![k].expired = TRUE] /\ local[k] \in Entry
      BY <1>1 DEF Expire
    <3>2. [local[k] EXCEPT !.expired = TRUE] \in Entry
      BY <3>1 DEF Entry
    <3> QED  BY <3>1, <3>2
  <2>2. UNCHANGED <<queryVars, routeVars, sendVars, dispVars, pushes, reqs, respVars>>
    BY <1>1 DEF Expire
  <2> QED  BY <2>1, <2>2
<1>2. CASE SubscriberReceive
  <2>1. Head(pushes) \in Update /\ pushes' \in Seq(Update)
    BY <1>2 DEF SubscriberReceive
  <2>2. local' \in [Keys -> Entry \cup {None}]
    BY <1>2, <2>1, LocalSetType DEF SubscriberReceive, Update
  <2> QED  BY <1>2, <2>1, <2>2 DEF SubscriberReceive
<1>3. CASE SubscriberLost
  BY <1>3 DEF SubscriberLost
<1>4. ASSUME NEW r \in Response, NEW n \in 0..Len(resps), EnvRespond(r, n)
      PROVE  TypeInv'
  BY <1>4 DEF EnvRespond
<1>5. CASE EnvLose
  BY <1>5 DEF EnvLose
<1>6. ASSUME NEW u \in Update, EnvPush(u)
      PROVE  TypeInv'
  BY <1>6 DEF EnvPush
<1> QED
  BY <1>1, <1>2, <1>3, <1>4, <1>5, <1>6 DEF Subscriber, EnvNext

(* Every step keeps the invariant. *)
LEMMA TypeStep == TypeInv /\ [Next]_vars => TypeInv'
<1> SUFFICES ASSUME TypeInv, [Next]_vars PROVE TypeInv'
  OBVIOUS
<1>1. CASE Next
  BY <1>1, TypeQueryStep, TypeDispatcherStep, TypeOtherStep DEF Next, ClientNext
<1>2. CASE UNCHANGED vars
  BY <1>2 DEF vars, clientVars, TypeInv, TypeOK, QueryShape, DispatcherPosition
<1> QED
  BY <1>1, <1>2

(* The inductive invariant holds in every reachable state. *)
THEOREM TypeInvariant == Spec => []TypeInv
BY TypeInit, TypeStep, PTL DEF Spec

(* Type correctness of the client (Client's maps, channels and positions). *)
THEOREM TypeCorrect == Spec => []TypeOK
<1>1. TypeInv => TypeOK
  BY DEF TypeInv
<1> QED
  BY <1>1, TypeInvariant, PTL

-----------------------------------------------------------------------------
(* The dispatcher skips nothing.                                           *)

(* Every step keeps lastID, except DispatcherRoute, which moves it to the  *)
(* next response of the batch.                                             *)
LEMMA LastIDStep ==
  ASSUME TypeInv, [Next]_vars
  PROVE  lastID' = lastID \/ DispatcherRoute
<1> USE DEF queryVars, routeVars, sendVars, dispVars, respVars, clientVars
<1>1. CASE Dispatcher
  BY <1>1 DEF Dispatcher, DispatcherCall, DispatcherRead, DispatcherFail, DispatcherSend, DeliverTo
<1>2. CASE EnvNext \/ Subscriber \/ UNCHANGED vars \/ \E k \in Keys : Expire(k)
  BY <1>2 DEF EnvNext, EnvRespond, EnvLose, EnvPush, Subscriber, SubscriberReceive,
     SubscriberLost, Expire, vars
<1>3. ASSUME NEW q \in Queries,
             \/ HandleFormErr(q) \/ (\E k \in Keys : LocalGet(q, k))
             \/ Handle(q) \/ Select(q) \/ Sender(q)
      PROVE  lastID' = lastID
  BY <1>3 DEF HandleFormErr, LocalGet, Handle, LocalDelete, SfLead, SfJoin, ResolveReturn,
     QuerySet, Select, SelectResponse, SelectXAdd, SelectTimeout, Sender, XAddWrite, XAddReport
<1> QED
  BY <1>1, <1>2, <1>3 DEF Next, ClientNext

(* Once the dispatcher has taken a first response it takes every later one *)
(* that Redis still has, in order, through XREAD errors and reconnects.    *)
THEOREM DispatcherSkipsNothing == Spec => NoResponseSkipped
<1>1. ASSUME TypeInv, [Next]_vars, lastID # None
      PROVE  /\ lastID' # None
             /\ lastID' >= lastID
             /\ \A i \in (lastID + 1)..(lastID' - 1) : i <= trimmed
  <2>1. CASE lastID' = lastID
    BY <1>1, <2>1 DEF TypeInv, TypeOK
  <2>2. CASE DispatcherRoute
    BY <1>1, <2>2, ClientAssumption DEF TypeInv, TypeOK, DispatcherPosition, DispatcherRoute
  <2> QED  BY <1>1, <2>1, <2>2, LastIDStep
<1> QED
  BY <1>1, TypeInvariant, PTL DEF Spec, NoResponseSkipped

-----------------------------------------------------------------------------
(* Versioning of the local cache.                                          *)

(* localSet never replaces an entry by one with an older timestamp. *)
LEMMA LocalSetOrdered ==
  ASSUME TypeOK, NEW k \in Keys, NEW w \in Wires, NEW at \in Stamps,
         NEW j \in Keys, local[j] # None
  PROVE  LocalSet(k, w, at)[j].resolvedAt >= local[j].resolvedAt
<1>1. local[j].resolvedAt \in Nat /\ at \in Nat
  BY ClientAssumption DEF TypeOK, Entry
<1> QED
  BY <1>1 DEF LocalSet, Stale, TypeOK

(* While a key stays cached its resolved_at never goes back, in whichever  *)
(* order responses and pushes arrive.                                      *)
THEOREM CacheVersioned == Spec => LocalVersionOrdered
<1>1. ASSUME TypeInv, [Next]_vars, NEW k \in Keys, local[k] # None, local'[k] # None
      PROVE  local'[k].resolvedAt >= local[k].resolvedAt
  <2> USE DEF queryVars, routeVars, sendVars, dispVars, respVars, clientVars
  <2>1. local[k].resolvedAt \in Nat
    BY <1>1, ClientAssumption DEF TypeInv, TypeOK, Entry
  <2>2. CASE Dispatcher \/ EnvNext \/ SubscriberLost \/ UNCHANGED vars
    BY <2>1, <2>2 DEF Dispatcher, DispatcherCall, DispatcherRead, DispatcherFail,
       DispatcherRoute, DispatcherSend, DeliverTo, EnvNext, EnvRespond, EnvLose, EnvPush,
       SubscriberLost, vars
  <2>3. ASSUME NEW j \in Keys, Expire(j)
        PROVE  local'[k].resolvedAt >= local[k].resolvedAt
    BY <1>1, <2>1, <2>3 DEF Expire, TypeInv, TypeOK, Entry
  <2>4. CASE SubscriberReceive
    <3>1. Head(pushes) \in Update
      BY <1>1, <2>4 DEF SubscriberReceive, TypeInv, TypeOK
    <3> QED
      BY <1>1, <2>4, <3>1, LocalSetOrdered DEF SubscriberReceive, Update, TypeInv
  <2>5. ASSUME NEW q \in Queries, QuerySet(q)
        PROVE  local'[k].resolvedAt >= local[k].resolvedAt
    <3>1. key[q] \in Keys /\ result[q].wire \in Wires /\ result[q].resolvedAt \in Stamps
      BY <1>1, <2>5 DEF QuerySet, Outcome, TypeInv, TypeOK, QueryShape
    <3> QED
      BY <1>1, <2>5, <3>1, LocalSetOrdered DEF QuerySet, TypeInv
  <2>6. ASSUME NEW q \in Queries, LocalDelete(q)
        PROVE  local'[k].resolvedAt >= local[k].resolvedAt
    BY <1>1, <2>1, <2>6 DEF LocalDelete, TypeInv, TypeOK
  <2>7. ASSUME NEW q \in Queries,
               \/ HandleFormErr(q) \/ (\E j \in Keys : LocalGet(q, j))
               \/ SfLead(q) \/ SfJoin(q) \/ ResolveReturn(q) \/ Select(q) \/ Sender(q)
        PROVE  local'[k].resolvedAt >= local[k].resolvedAt
    BY <2>1, <2>7 DEF HandleFormErr, LocalGet, SfLead, SfJoin, ResolveReturn, Select,
       SelectResponse, SelectXAdd, SelectTimeout, Sender, XAddWrite, XAddReport
  <2> QED
    BY <1>1, <2>2, <2>3, <2>4, <2>5, <2>6, <2>7 DEF Next, ClientNext, Handle, Subscriber
<1>2. TypeInv /\ [Next]_vars
        => [\A k \in Keys : local[k] # None /\ local'[k] # None
              => local'[k].resolvedAt >= local[k].resolvedAt]_vars
  BY <1>1
<1> QED
  BY <1>2, TypeInvariant, PTL DEF Spec, LocalVersionOrdered

-----------------------------------------------------------------------------
(* Coalescing.                                                             *)

(* Steps that touch neither the queries' places nor singleflight nor the   *)
(* pending table. *)
LEMMA FlightKept ==
  ASSUME FlightDiscipline, UNCHANGED <<pc, key, sf, waits>>
  PROVE  FlightDiscipline'
BY DEF FlightDiscipline

(* A step of one query goroutine keeps singleflight, the pending table and *)
(* the goroutines in agreement.                                            *)
LEMMA FlightQueryStep ==
  ASSUME TypeInv, FlightDiscipline, NEW q \in Queries,
         \/ HandleFormErr(q) \/ (\E k \in Keys : LocalGet(q, k))
         \/ Handle(q) \/ Select(q)
  PROVE  FlightDiscipline'
<1> USE ClientAssumption DEF TypeInv, TypeOK, QueryShape, FlightDiscipline,
        routeVars, Pc, Leading
<1>1. CASE HandleFormErr(q)
  BY <1>1 DEF HandleFormErr
<1>2. ASSUME NEW k \in Keys, LocalGet(q, k)
      PROVE  FlightDiscipline'
  <2>1. PICK l \in {"done", "evict", "miss"} : pc' = [pc EXCEPT ![q] = l]
    BY <1>2 DEF LocalGet
  <2> QED  BY <1>2, <2>1 DEF LocalGet
<1>3. CASE LocalDelete(q)
  BY <1>3 DEF LocalDelete
<1>4. CASE SfLead(q)
  <2>1. /\ key[q] \in Keys /\ sf[key[q]] = None /\ pc[q] = "miss"
        /\ pc' = [pc EXCEPT ![q] = "sending"] /\ key' = key
        /\ sf' = [sf EXCEPT ![key[q]] = q] /\ waits' = waits \cup {q}
    BY <1>4 DEF SfLead
  <2>2. waits' = {p \in Queries : pc'[p] \in Leading}
    BY <2>1
  <2>3. \A k \in Keys : sf'[k] # None => pc'[sf'[k]] \in Leading /\ key'[sf'[k]] = k
    BY <2>1
  <2>4. ASSUME NEW p \in Queries, pc'[p] \in Leading
        PROVE  sf'[key'[p]] = p
    BY <2>1, <2>4
  <2>5. \A p \in Queries : pc'[p] = "follow" => sf'[key'[p]] # None
    BY <2>1
  <2> QED  BY <2>2, <2>3, <2>4, <2>5
<1>5. CASE SfJoin(q)
  BY <1>5 DEF SfJoin
<1>6. CASE ResolveReturn(q)
  <2>1. /\ sf[key[q]] = q /\ key[q] \in Keys
        /\ \A p \in Flight(q) : pc'[p] \in {"set", "done"} /\ (p # q => pc[p] = "follow")
        /\ \A p \in Queries \ Flight(q) : pc'[p] = pc[p] /\ p # q
        /\ Flight(q) \subseteq Queries
    <3>1. sf[key[q]] = q /\ key[q] \in Keys
      BY <1>6 DEF ResolveReturn
    <3>2. /\ \A p \in Flight(q) : p \in Queries /\ (p # q => pc[p] = "follow")
          /\ q \in Flight(q)
      BY DEF Flight
    <3> QED  BY <1>6, <3>1, <3>2 DEF ResolveReturn
  <2>2. waits' = {p \in Queries : pc'[p] \in Leading}
    BY <1>6, <2>1 DEF ResolveReturn
  <2>3. ASSUME NEW k \in Keys, sf'[k] # None
        PROVE  pc'[sf'[k]] \in Leading /\ key'[sf'[k]] = k
    <3>1. k # key[q] /\ sf'[k] = sf[k] /\ key' = key
      BY <1>6, <2>1, <2>3 DEF ResolveReturn
    <3>2. sf[k] \in Queries /\ pc[sf[k]] \in Leading /\ key[sf[k]] = k
      BY <2>3, <3>1
    <3>3. sf[k] \notin Flight(q)
      BY <2>1, <3>1, <3>2
    <3> QED  BY <2>1, <3>1, <3>2, <3>3
  <2>4. ASSUME NEW p \in Queries, pc'[p] \in Leading
        PROVE  sf'[key'[p]] = p
    BY <1>6, <2>1, <2>4 DEF ResolveReturn
  <2>5. ASSUME NEW p \in Queries, pc'[p] = "follow"
        PROVE  sf'[key'[p]] # None
    <3>1. p \in Queries \ Flight(q) /\ pc[p] = "follow" /\ key[p] # key[q]
      <4>1. p \notin Flight(q)
        BY ONLY <2>1, <2>5
      <4>2. pc[p] = "follow"
        BY ONLY <2>1, <2>5, <4>1
      <4> QED  BY ONLY <2>5, <4>1, <4>2 DEF Flight
    <3> QED  BY <1>6, <2>1, <3>1 DEF ResolveReturn
  <2> QED  BY <2>2, <2>3, <2>4, <2>5
<1>7. CASE QuerySet(q)
  BY <1>7 DEF QuerySet
<1>8. CASE SelectResponse(q)
  BY <1>8 DEF SelectResponse, Selecting
<1>9. CASE SelectXAdd(q)
  <2>1. PICK l \in {"acked", "leaving"} : pc' = [pc EXCEPT ![q] = l]
    BY <1>9 DEF SelectXAdd
  <2> QED  BY <1>9, <2>1 DEF SelectXAdd
<1>10. CASE SelectTimeout(q)
  BY <1>10 DEF SelectTimeout, Timed, Selecting
<1> QED
  BY <1>1, <1>2, <1>3, <1>4, <1>5, <1>6, <1>7, <1>8, <1>9, <1>10 DEF Handle, Select

(* singleflight, the pending table and the goroutines always agree: one    *)
(* request per key at a time, and no follower waits for a call that is     *)
(* gone.                                                                   *)
THEOREM FlightsDisciplined == Spec => []FlightDiscipline
<1>1. Init => FlightDiscipline
  BY ClientAssumption DEF Init, FlightDiscipline, Leading
<1>2. TypeInv /\ FlightDiscipline /\ [Next]_vars => FlightDiscipline'
  <2> SUFFICES ASSUME TypeInv, FlightDiscipline, [Next]_vars PROVE FlightDiscipline'
    OBVIOUS
  <2> USE DEF queryVars, routeVars, sendVars, dispVars, respVars, clientVars
  <2>1. CASE \/ Dispatcher \/ Subscriber \/ EnvNext \/ UNCHANGED vars
             \/ \E k \in Keys : Expire(k)
    <3>1. UNCHANGED <<pc, key, sf, waits>>
      BY <2>1 DEF Dispatcher, DispatcherCall, DispatcherRead, DispatcherFail,
         DispatcherRoute, DispatcherSend, DeliverTo, Subscriber, SubscriberReceive,
         SubscriberLost, EnvNext, EnvRespond, EnvLose, EnvPush, Expire, vars
    <3> QED  BY <3>1, FlightKept
  <2>2. ASSUME NEW q \in Queries, Sender(q)
        PROVE  FlightDiscipline'
    <3>1. UNCHANGED <<pc, key, sf, waits>>
      BY <2>2 DEF Sender, XAddWrite, XAddReport
    <3> QED  BY <3>1, FlightKept
  <2> QED
    BY <2>1, <2>2, FlightQueryStep DEF Next, ClientNext
<1> QED
  BY <1>1, <1>2, TypeInvariant, PTL DEF Spec

-----------------------------------------------------------------------------
(* The dispatcher never gets stuck, when request IDs are answered once.    *)

(* A response in a channel came from a position the dispatcher has passed  *)
(* and is not the one it is about to send.                                 *)
ChannelOrigin ==
  \A q \in Queries : chan[q] # None =>
     /\ lastID # None
     /\ \E i \in 1..lastID : resps[i].id = q /\ ~(dpc = "send" /\ i = cur)

(* No query was answered twice. *)
ResponsesUnique ==
  \A i, j \in 1..Len(resps) :
     resps[i].id \in Queries /\ resps[i].id = resps[j].id => i = j

(* The inductive invariant behind a dispatcher that never gets stuck. *)
StuckInv == UniqueResp => ChannelOrigin /\ ResponsesUnique

(* Steps of queries, the subscriber and time only empty channels. *)
LEMMA ChannelKept ==
  ASSUME TypeInv, StuckInv, UNCHANGED <<dispVars, resps>>,
         \A q \in Queries : chan'[q] # None => chan[q] # None
  PROVE  StuckInv'
BY DEF StuckInv, ChannelOrigin, ResponsesUnique, dispVars

(* A dispatcher step keeps StuckInv: the response it delivers is behind it *)
(* by the time the channel holds it.                                       *)
LEMMA StuckDispatcherStep ==
  ASSUME TypeInv, StuckInv, Dispatcher
  PROVE  StuckInv'
<1> USE ClientAssumption DEF TypeInv, TypeOK, DispatcherPosition, StuckInv, ChannelOrigin,
        ResponsesUnique, queryVars, routeVars, sendVars, dispVars, respVars
<1>1. CASE DispatcherCall
  BY <1>1 DEF DispatcherCall
<1>2. CASE DispatcherRead
  BY <1>2 DEF DispatcherRead
<1>3. CASE DispatcherFail
  BY <1>3 DEF DispatcherFail
<1>4. CASE DispatcherRoute
  BY <1>4 DEF DispatcherRoute, AfterResponse
<1>5. CASE DispatcherSend
  BY <1>5 DEF DispatcherSend, DeliverTo, AfterResponse
<1> QED
  BY <1>1, <1>2, <1>3, <1>4, <1>5 DEF Dispatcher

(* A step of the rest of the system keeps it: IDs are answered once. *)
LEMMA StuckEnvStep ==
  ASSUME TypeInv, StuckInv, EnvNext
  PROVE  StuckInv'
<1> USE ClientAssumption DEF TypeInv, TypeOK, DispatcherPosition, StuckInv, ChannelOrigin,
        ResponsesUnique, clientVars, dispVars, respVars
<1>1. ASSUME NEW r \in Response, NEW n \in 0..Len(resps), EnvRespond(r, n)
      PROVE  StuckInv'
  <2>1. /\ Len(resps') = Len(resps) + 1 /\ resps'[Len(resps) + 1] = r
        /\ \A i \in 1..Len(resps) : resps'[i] = resps[i]
        /\ UNCHANGED <<chan, dpc, lastID, cur>>
    BY <1>1 DEF EnvRespond
  <2>2. ASSUME UniqueResp, NEW q \in Queries, chan'[q] # None
        PROVE  lastID' # None /\ \E i \in 1..lastID' :
                  resps'[i].id = q /\ ~(dpc' = "send" /\ i = cur')
    <3>1. PICK i \in 1..lastID : resps[i].id = q /\ ~(dpc = "send" /\ i = cur)
      BY <2>1, <2>2
    <3>2. lastID # None /\ i \in 1..Len(resps)
      BY <2>1, <2>2
    <3> QED  BY <2>1, <3>1, <3>2
  <2>3. ASSUME UniqueResp, NEW i \in 1..Len(resps'), NEW j \in 1..Len(resps'),
               resps'[i].id \in Queries, resps'[i].id = resps'[j].id
        PROVE  i = j
    <3>1. \A m \in 1..Len(resps) : r.id \in Queries => resps[m].id # r.id
      BY <1>1, <2>3 DEF EnvRespond
    <3>2. /\ i \in 1..Len(resps) \/ i = Len(resps) + 1
          /\ j \in 1..Len(resps) \/ j = Len(resps) + 1
      BY <2>1, SMTT(30)
    <3>3. CASE i \in 1..Len(resps) /\ j \in 1..Len(resps)
      <4>1. resps[i].id \in Queries /\ resps[i].id = resps[j].id
        BY <2>1, <2>3, <3>3
      <4> QED  BY <2>3, <3>3, <4>1
    <3>4. CASE i = Len(resps) + 1 /\ j \in 1..Len(resps)
      BY <2>1, <2>3, <3>1, <3>4
    <3>5. CASE i \in 1..Len(resps) /\ j = Len(resps) + 1
      BY <2>1, <2>3, <3>1, <3>5
    <3> QED  BY ONLY <3>2, <3>3, <3>4, <3>5
  <2>4. UniqueResp => ChannelOrigin' /\ ResponsesUnique'
    BY <2>2, <2>3
  <2> QED  BY <2>4
<1>2. CASE EnvLose
  BY <1>2 DEF EnvLose
<1>3. ASSUME NEW u \in Update, EnvPush(u)
      PROVE  StuckInv'
  BY <1>3 DEF EnvPush
<1> QED
  BY <1>1, <1>2, <1>3 DEF EnvNext

(* Whatever times out and whenever: as long as a request ID is answered at *)
(* most once, the dispatcher never blocks forever in ch <- resp.           *)
THEOREM DispatcherFree == Spec => [](UniqueResp => DispatcherNeverStuck)
<1>1. Init => StuckInv
  BY ClientAssumption DEF Init, StuckInv, ChannelOrigin, ResponsesUnique
<1>2. TypeInv /\ StuckInv /\ [Next]_vars => StuckInv'
  <2> SUFFICES ASSUME TypeInv, StuckInv, [Next]_vars PROVE StuckInv'
    OBVIOUS
  <2> USE DEF queryVars, routeVars, sendVars, dispVars, respVars, clientVars
  <2>1. CASE Subscriber \/ UNCHANGED vars \/ \E k \in Keys : Expire(k)
    BY <2>1, ChannelKept DEF Subscriber, SubscriberReceive, SubscriberLost, Expire, vars
  <2>2. ASSUME NEW q \in Queries, SelectResponse(q)
        PROVE  StuckInv'
    BY <2>2, ChannelKept DEF SelectResponse, TypeInv, TypeOK
  <2>3. ASSUME NEW q \in Queries,
               \/ HandleFormErr(q) \/ (\E k \in Keys : LocalGet(q, k))
               \/ Handle(q) \/ SelectXAdd(q) \/ SelectTimeout(q) \/ Sender(q)
        PROVE  StuckInv'
    BY <2>3, ChannelKept DEF HandleFormErr, LocalGet, Handle, LocalDelete, SfLead, SfJoin,
       ResolveReturn, QuerySet, SelectXAdd, SelectTimeout, Sender, XAddWrite, XAddReport
  <2> QED
    BY <2>1, <2>2, <2>3, StuckDispatcherStep, StuckEnvStep DEF Next, ClientNext, Select
<1>3. ASSUME TypeInv, StuckInv, UniqueResp, dpc = "send"
      PROVE  Room(resps[cur].id)
  <2>1. cur \in 1..Len(resps) /\ lastID = cur /\ resps[cur].id \in Queries
    BY <1>3 DEF TypeInv, TypeOK, DispatcherPosition
  <2>2. ASSUME NEW i \in 1..cur, resps[i].id = resps[cur].id
        PROVE  i = cur
    BY <1>3, <2>1, <2>2 DEF StuckInv, ResponsesUnique
  <2>3. chan[resps[cur].id] # None =>
          \E i \in 1..cur : resps[i].id = resps[cur].id /\ i # cur
    BY <1>3, <2>1 DEF StuckInv, ChannelOrigin
  <2> QED  BY <2>2, <2>3 DEF Room
<1>4. TypeInv /\ StuckInv => (UniqueResp => DispatcherNeverStuck)
  BY <1>3 DEF DispatcherNeverStuck
<1> QED
  BY <1>1, <1>2, <1>4, TypeInvariant, PTL DEF Spec

-----------------------------------------------------------------------------
(* Every answer is for the key that was asked.                             *)

(* All that is under way answers the key its query asked: the requests and *)
(* responses on the streams, what is in a channel, what is pushed.  A      *)
(* query is past localGet, so its key is fixed, before any of it exists.   *)
StreamsMatch ==
  /\ \A i \in 1..Len(reqs) : pc[reqs[i].id] # "idle" /\ reqs[i].key = key[reqs[i].id]
  /\ \A i \in 1..Len(resps) : resps[i].wire # None =>
       pc[resps[i].id] # "idle" /\ resps[i].wire.key = key[resps[i].id]
  /\ \A q \in Queries : chan[q] # None /\ chan[q].wire # None =>
       pc[q] # "idle" /\ chan[q].wire.key = key[q]
  /\ \A i \in 1..Len(pushes) : pushes[i].wire.key = pushes[i].key

(* A query that has not begun has no answer and no request under way. *)
BusyNotIdle ==
  \A q \in Queries : pc[q] = "idle" => result[q].kind # "answer" /\ xadd[q] = "idle"

(* The inductive invariant behind answers that fit their question. *)
MatchInv == StreamsMatch /\ BusyNotIdle /\ AnswersQuestion

(* A step that leaves the streams alone, only empties channels and moves   *)
(* no query that has started keeps StreamsMatch.                           *)
LEMMA StreamsKept ==
  ASSUME TypeInv, StreamsMatch, UNCHANGED <<reqs, resps, pushes>>,
         \A q \in Queries : chan'[q] # None => chan'[q] = chan[q],
         \A q \in Queries : pc[q] # "idle" => pc'[q] # "idle" /\ key'[q] = key[q]
  PROVE  StreamsMatch'
<1> USE DEF TypeInv, TypeOK, StreamsMatch
<1>1. \A i \in 1..Len(reqs) : reqs[i] \in Request
  OBVIOUS
<1>2. \A i \in 1..Len(resps) : resps[i].wire # None => resps[i].id \in Queries
  BY DEF Response
<1>3. \A i \in 1..Len(reqs) : reqs[i].id \in Queries
  BY <1>1 DEF Request
<1>4. \A i \in 1..Len(reqs) : pc'[reqs[i].id] # "idle" /\ reqs[i].key = key'[reqs[i].id]
  BY <1>3
<1>5. \A i \in 1..Len(resps) : resps[i].wire # None =>
        pc'[resps[i].id] # "idle" /\ resps[i].wire.key = key'[resps[i].id]
  BY <1>2
<1>6. \A q \in Queries : chan'[q] # None /\ chan'[q].wire # None =>
        pc'[q] # "idle" /\ chan'[q].wire.key = key'[q]
  OBVIOUS
<1> QED
  BY <1>4, <1>5, <1>6

(* localSet with an answer for its key keeps the cache right. *)
LEMMA LocalSetMatches ==
  ASSUME TypeOK, AnswersQuestion, NEW k \in Keys, NEW w \in Wires, NEW at \in Stamps,
         w.key = k, local' = LocalSet(k, w, at)
  PROVE  \A j \in Keys : local'[j] # None => local'[j].wire.key = j
BY DEF TypeOK, AnswersQuestion, LocalSet

(* A step of a query goroutine keeps the match between questions and       *)
(* answers.                                                                *)
LEMMA MatchQueryStep ==
  ASSUME TypeInv, MatchInv, NEW q \in Queries,
         \/ HandleFormErr(q) \/ (\E k \in Keys : LocalGet(q, k))
         \/ Handle(q) \/ Select(q) \/ Sender(q)
  PROVE  MatchInv'
<1> USE ClientAssumption DEF TypeInv, TypeOK, QueryShape, MatchInv, BusyNotIdle,
        AnswersQuestion, queryVars, routeVars, sendVars, respVars, Pc
<1>1. CASE HandleFormErr(q)
  BY <1>1, StreamsKept DEF HandleFormErr, Plain
<1>2. ASSUME NEW k \in Keys, LocalGet(q, k)
      PROVE  MatchInv'
  <2>1. PICK l \in {"done", "evict", "miss"} : pc' = [pc EXCEPT ![q] = l]
    BY <1>2 DEF LocalGet
  <2>2. StreamsMatch'
    BY <1>2, <2>1, StreamsKept DEF LocalGet
  <2>3. \/ result' = result
        \/ /\ local[k] # None
           /\ result' = [result EXCEPT ![q] = Answer(local[k].wire, local[k].resolvedAt)]
    BY <1>2 DEF LocalGet
  <2>4. \A p \in Queries : result'[p].kind = "answer" => result'[p].wire.key = key'[p]
    BY <1>2, <2>3 DEF LocalGet, Answer
  <2> QED  BY <1>2, <2>1, <2>2, <2>4 DEF LocalGet
<1>3. CASE LocalDelete(q)
  BY <1>3, StreamsKept DEF LocalDelete
<1>4. CASE SfLead(q)
  BY <1>4, StreamsKept DEF SfLead
<1>5. CASE SfJoin(q)
  BY <1>5, StreamsKept DEF SfJoin
<1>6. CASE ResolveReturn(q)
  <2>1. /\ \A p \in Queries : p \in Flight(q) => pc'[p] \in {"set", "done"} /\ key[p] = key[q]
        /\ \A p \in Queries : p \notin Flight(q) => pc'[p] = pc[p]
        /\ \A p \in Queries : p \in Flight(q) => pc[p] # "idle"
    BY <1>6 DEF ResolveReturn, Flight
  <2>2. StreamsMatch'
    BY <1>6, <2>1, StreamsKept DEF ResolveReturn
  <2>3. \A p \in Queries : result'[p].kind = "answer" => result'[p].wire.key = key'[p]
    BY <1>6, <2>1 DEF ResolveReturn
  <2> QED  BY <1>6, <2>1, <2>2, <2>3 DEF ResolveReturn
<1>7. CASE QuerySet(q)
  <2>1. key[q] \in Keys /\ result[q].wire \in Wires /\ result[q].resolvedAt \in Stamps
    BY <1>7 DEF QuerySet, Outcome
  <2>2. /\ result[q].wire.key = key[q]
        /\ local' = LocalSet(key[q], result[q].wire, result[q].resolvedAt)
    BY <1>7 DEF QuerySet
  <2>3. \A j \in Keys : local'[j] # None => local'[j].wire.key = j
    <3> HIDE DEF TypeOK, AnswersQuestion
    <3> QED  BY <2>1, <2>2, LocalSetMatches
  <2> QED  BY <1>7, <2>3, StreamsKept DEF QuerySet
<1>8. CASE SelectResponse(q)
  <2>1. StreamsMatch'
    BY <1>8, StreamsKept DEF SelectResponse
  <2>2. result'[q].kind = "answer" => result'[q].wire.key = key[q]
    BY <1>8 DEF SelectResponse, FromResponse, Answer, Plain, StreamsMatch
  <2> QED  BY <1>8, <2>1, <2>2 DEF SelectResponse, Selecting
<1>9. CASE SelectXAdd(q)
  <2>1. PICK l \in {"acked", "leaving"} : pc' = [pc EXCEPT ![q] = l]
    BY <1>9 DEF SelectXAdd
  <2>2. result' = result \/ result' = [result EXCEPT ![q] = Plain("servfail")]
    BY <1>9 DEF SelectXAdd
  <2>3. \A p \in Queries : result'[p].kind = "answer" => result'[p] = result[p]
    BY <2>2 DEF Plain
  <2> QED  BY <1>9, <2>1, <2>3, StreamsKept DEF SelectXAdd
<1>10. CASE SelectTimeout(q)
  BY <1>10, StreamsKept DEF SelectTimeout, Timed, Selecting, Plain
<1>11. CASE XAddWrite(q)
  <2>1. /\ Len(reqs') = Len(reqs) + 1 /\ reqs'[Len(reqs) + 1] = [id |-> q, key |-> key[q]]
        /\ \A i \in 1..Len(reqs) : reqs'[i] = reqs[i]
    BY <1>11 DEF XAddWrite
  <2>2. StreamsMatch'
    BY <1>11, <2>1 DEF XAddWrite, StreamsMatch
  <2> QED  BY <1>11, <2>2 DEF XAddWrite
<1>12. CASE XAddReport(q)
  <2>1. PICK l \in {"ok", "err"} : xadd' = [xadd EXCEPT ![q] = l]
    BY <1>12 DEF XAddReport
  <2> QED  BY <1>12, <2>1, StreamsKept DEF XAddReport
<1> QED
  BY <1>1, <1>2, <1>3, <1>4, <1>5, <1>6, <1>7, <1>8, <1>9, <1>10, <1>11, <1>12
     DEF Handle, Select, Sender

(* So does a step of the dispatcher, the subscriber, time or the rest of   *)
(* the system.                                                             *)
LEMMA MatchOtherStep ==
  ASSUME TypeInv, MatchInv,
         Dispatcher \/ Subscriber \/ EnvNext \/ \E k \in Keys : Expire(k)
  PROVE  MatchInv'
<1> USE ClientAssumption DEF TypeInv, TypeOK, DispatcherPosition, MatchInv, BusyNotIdle,
        AnswersQuestion, queryVars, routeVars, sendVars, dispVars, respVars, clientVars
<1>1. CASE DispatcherCall \/ DispatcherRead \/ DispatcherFail \/ DispatcherRoute \/ EnvLose
  BY <1>1, StreamsKept DEF DispatcherCall, DispatcherRead, DispatcherFail, DispatcherRoute, EnvLose
<1>2. CASE DispatcherSend
  <2>1. /\ cur \in 1..Len(resps) /\ resps[cur].id \in Queries
        /\ chan' = [chan EXCEPT ![resps[cur].id] = resps[cur]]
        /\ UNCHANGED <<reqs, resps, pushes, pc, key>>
    BY <1>2 DEF DispatcherSend, DeliverTo
  <2>2. StreamsMatch'
    BY <2>1 DEF StreamsMatch
  <2> QED  BY <1>2, <2>2 DEF DispatcherSend, DeliverTo
<1>3. CASE SubscriberReceive
  <2>1. /\ Head(pushes) \in Update /\ Head(pushes).wire.key = Head(pushes).key
        /\ Len(pushes') = Len(pushes) - 1
        /\ \A i \in 1..Len(pushes') : pushes'[i] = pushes[i + 1]
    BY <1>3 DEF SubscriberReceive, StreamsMatch
  <2>2. PICK u \in Update : u.wire.key = u.key /\ local' = LocalSet(u.key, u.wire, u.resolvedAt)
    BY <1>3, <2>1 DEF SubscriberReceive
  <2>3. u.key \in Keys /\ u.wire \in Wires /\ u.resolvedAt \in Stamps
    BY DEF Update
  <2>4. \A j \in Keys : local'[j] # None => local'[j].wire.key = j
    <3> HIDE DEF TypeOK, AnswersQuestion
    <3> QED  BY <2>2, <2>3, LocalSetMatches
  <2>5. \A i \in 1..Len(pushes') : pushes'[i].wire.key = pushes'[i].key
    <3> SUFFICES ASSUME NEW i \in 1..Len(pushes') PROVE pushes'[i].wire.key = pushes'[i].key
      OBVIOUS
    <3>1. i + 1 \in 1..Len(pushes)
      BY <2>1
    <3>2. pushes[i + 1].wire.key = pushes[i + 1].key
      BY ONLY <3>1, StreamsMatch DEF StreamsMatch
    <3>3. pushes'[i] = pushes[i + 1]
      BY ONLY <2>1, i \in 1..Len(pushes')
    <3> QED  BY ONLY <3>2, <3>3
  <2>6. StreamsMatch'
    BY <1>3, <2>5 DEF SubscriberReceive, StreamsMatch
  <2> QED  BY <1>3, <2>4, <2>6 DEF SubscriberReceive
<1>4. CASE SubscriberLost
  BY <1>4 DEF SubscriberLost, StreamsMatch
<1>5. ASSUME NEW k \in Keys, Expire(k)
      PROVE  MatchInv'
  <2>1. \A j \in Keys : local'[j] # None => local'[j].wire.key = j
    BY <1>5 DEF Expire, Entry
  <2> QED  BY <1>5, <2>1, StreamsKept DEF Expire
<1>6. ASSUME NEW r \in Response, NEW n \in 0..Len(resps), EnvRespond(r, n)
      PROVE  MatchInv'
  <2>1. /\ Len(resps') = Len(resps) + 1 /\ resps'[Len(resps) + 1] = r
        /\ \A i \in 1..Len(resps) : resps'[i] = resps[i]
    BY <1>6 DEF EnvRespond
  <2>2. r.wire # None => r.id \in Queries
    BY DEF Response
  <2>3. r.wire # None => pc[r.id] # "idle" /\ r.wire.key = key[r.id]
    BY <1>6, <2>2 DEF EnvRespond, StreamsMatch
  <2>4. StreamsMatch'
    BY <1>6, <2>1, <2>3 DEF EnvRespond, StreamsMatch
  <2> QED  BY <1>6, <2>4 DEF EnvRespond
<1>7. ASSUME NEW u \in Update, EnvPush(u)
      PROVE  MatchInv'
  <2>1. /\ Len(pushes') = Len(pushes) + 1 /\ pushes'[Len(pushes) + 1] = u
        /\ \A i \in 1..Len(pushes) : pushes'[i] = pushes[i]
    BY <1>7 DEF EnvPush
  <2>2. StreamsMatch'
    BY <1>7, <2>1, SMTT(30) DEF EnvPush, StreamsMatch
  <2> QED  BY <1>7, <2>2 DEF EnvPush
<1> QED
  BY <1>1, <1>2, <1>3, <1>4, <1>5, <1>6, <1>7 DEF Dispatcher, Subscriber, EnvNext

(* Whatever way it took, an answer is for the key its query asked, and the *)
(* cache holds under a key only answers for it.                            *)
THEOREM QuestionsAnswered == Spec => []AnswersQuestion
<1>1. Init => MatchInv
  BY ClientAssumption DEF Init, MatchInv, StreamsMatch, BusyNotIdle, AnswersQuestion, Plain
<1>2. TypeInv /\ MatchInv /\ [Next]_vars => MatchInv'
  <2> SUFFICES ASSUME TypeInv, MatchInv, [Next]_vars PROVE MatchInv'
    OBVIOUS
  <2>1. CASE UNCHANGED vars
    BY <2>1, StreamsKept DEF vars, clientVars, MatchInv, BusyNotIdle, AnswersQuestion
  <2> QED
    BY <2>1, MatchQueryStep, MatchOtherStep DEF Next, ClientNext
<1>3. MatchInv => AnswersQuestion
  BY DEF MatchInv
<1> QED
  BY <1>1, <1>2, <1>3, TypeInvariant, PTL DEF Spec

-----------------------------------------------------------------------------
(* The client implements module Service, for any number of queries, keys,  *)
(* responses, pushes and timestamps.  Service sees a query through its key *)
(* and, once it is done, its result; so it is enough to follow what a step *)
(* of the client does to pc, key and result of each query (Move).          *)

(* A query has no key before it starts, and resolve() has an outcome when  *)
(* it returns.                                                             *)
ReplyInv ==
  \A q \in Queries :
    /\ pc[q] = "idle" => key[q] = None
    /\ pc[q] = "leaving" => result[q].kind \in {"answer", "servfail"}

(* What one step may do to a query: nothing that shows, start it, refuse   *)
(* it, or reply to it.                                                     *)
Stay(q) ==
  /\ key'[q] = key[q]
  /\ (pc'[q] = "done") <=> (pc[q] = "done")
  /\ pc[q] = "done" => result'[q] = result[q]

Started(q) ==
  /\ pc[q] = "idle"
  /\ key'[q] \in Keys
  /\ pc'[q] = "done" => result'[q] \in LAN!Replies(key'[q])

Refused(q) ==
  /\ pc[q] = "idle"
  /\ key'[q] = key[q]
  /\ pc'[q] = "done" /\ result'[q] = Plain("formerr")

Replied(q) ==
  /\ pc[q] \notin {"idle", "done"}
  /\ key'[q] = key[q]
  /\ pc'[q] = "done" /\ result'[q] \in LAN!Replies(key[q])

Move(q) == Stay(q) \/ Started(q) \/ Refused(q) \/ Replied(q)

-----------------------------------------------------------------------------

(* Steps of the dispatcher, the subscriber, the senders, the environment   *)
(* and time do not touch the queries.                                      *)
LEMMA QueriesUntouched ==
  ASSUME \/ Dispatcher \/ Subscriber \/ EnvNext \/ UNCHANGED vars
         \/ (\E k \in Keys : Expire(k)) \/ (\E q \in Queries : Sender(q))
  PROVE  UNCHANGED <<pc, key, result>>
<1> USE DEF queryVars, clientVars, vars
<1>1. CASE Dispatcher
  BY <1>1 DEF Dispatcher, DispatcherCall, DispatcherRead, DispatcherFail, DispatcherRoute,
     DispatcherSend, DeliverTo
<1>2. CASE Subscriber
  BY <1>2 DEF Subscriber, SubscriberReceive, SubscriberLost
<1>3. CASE EnvNext
  BY <1>3 DEF EnvNext, EnvRespond, EnvLose, EnvPush
<1>4. CASE UNCHANGED vars
  BY <1>4
<1>5. CASE (\E k \in Keys : Expire(k)) \/ (\E q \in Queries : Sender(q))
  BY <1>5 DEF Expire, Sender, XAddWrite, XAddReport
<1> QED BY <1>1, <1>2, <1>3, <1>4, <1>5

(* An outcome that fits the key of its query is a reply Service allows. *)
LEMMA ReplyFits ==
  ASSUME NEW k \in Keys, NEW r \in Outcome, r.kind \in {"answer", "servfail"},
         r.kind = "answer" => r.wire.key = k
  PROVE  r \in LAN!Replies(k)
BY DEF Outcome, LAN!Replies, LAN!Failure

(* No query changes its key, no reply is taken back, and nobody leaves     *)
(* resolve() without an outcome.                                           *)
LEMMA ReplyStep == TypeInv /\ ReplyInv /\ [Next]_vars => ReplyInv'
<1> SUFFICES ASSUME TypeInv, ReplyInv, [Next]_vars PROVE ReplyInv'
  OBVIOUS
<1> USE DEF TypeInv, TypeOK, QueryShape, ReplyInv, Pc
<1>1. CASE UNCHANGED <<pc, key, result>>
  BY <1>1
<1>2. ASSUME NEW q \in Queries, HandleFormErr(q) PROVE ReplyInv'
  BY <1>2 DEF HandleFormErr
<1>3. ASSUME NEW q \in Queries, NEW k \in Keys, LocalGet(q, k) PROVE ReplyInv'
  BY <1>3 DEF LocalGet
<1>4. ASSUME NEW q \in Queries, LocalDelete(q) \/ SfLead(q) \/ SfJoin(q) \/ QuerySet(q)
      PROVE  ReplyInv'
  BY <1>4 DEF LocalDelete, SfLead, SfJoin, QuerySet
<1>5. ASSUME NEW q \in Queries, ResolveReturn(q) PROVE ReplyInv'
  <2>1. \A p \in Queries : pc'[p] \in {pc[p], "set", "done"} /\ key'[p] = key[p]
    BY <1>5 DEF ResolveReturn
  <2>2. \A p \in Queries : pc'[p] = "leaving" => result'[p] = result[p]
    BY <1>5 DEF ResolveReturn
  <2> QED BY <2>1, <2>2
<1>6. ASSUME NEW q \in Queries, Select(q) PROVE ReplyInv'
  <2>1. Plain("servfail").kind = "servfail"
    BY DEF Plain
  <2>2. ASSUME NEW r PROVE FromResponse(r).kind \in {"answer", "servfail"}
    BY DEF FromResponse, Answer, Plain
  <2>3. CASE SelectResponse(q)
    BY <2>2, <2>3 DEF SelectResponse
  <2>4. CASE SelectXAdd(q)
    BY <2>1, <2>4 DEF SelectXAdd
  <2>5. CASE SelectTimeout(q)
    BY <2>1, <2>5 DEF SelectTimeout
  <2> QED BY <1>6, <2>3, <2>4, <2>5 DEF Select
<1> QED
  BY <1>1, <1>2, <1>3, <1>4, <1>5, <1>6, QueriesUntouched DEF Next, ClientNext, Handle

(* Every step of the client is a move of every query. *)
LEMMA MoveStep ==
  ASSUME TypeInv, AnswersQuestion, ReplyInv, [Next]_vars, NEW p \in Queries
  PROVE  Move(p)
<1> USE DEF TypeInv, TypeOK, QueryShape
<1>1. CASE UNCHANGED <<pc, key, result>>
  BY <1>1 DEF Move, Stay
<1>2. ASSUME NEW q \in Queries, HandleFormErr(q) PROVE Move(p)
  <2>1. CASE p = q
    BY <1>2, <2>1 DEF HandleFormErr, Move, Refused
  <2>2. CASE p # q
    BY <1>2, <2>2 DEF HandleFormErr, Move, Stay
  <2> QED BY <2>1, <2>2
<1>3. ASSUME NEW q \in Queries, NEW k \in Keys, LocalGet(q, k) PROVE Move(p)
  <2>1. CASE p # q
    BY <1>3, <2>1 DEF LocalGet, Move, Stay
  <2>2. CASE p = q
    <3>1. pc[p] = "idle" /\ key'[p] = k
      BY <1>3, <2>2 DEF LocalGet
    <3>2. ASSUME pc'[p] = "done" PROVE result'[p] \in LAN!Replies(k)
      <4>1. local[k] # None /\ result'[p] = Answer(local[k].wire, local[k].resolvedAt)
        BY <1>3, <2>2, <3>2 DEF LocalGet
      <4>2. /\ Answer(local[k].wire, local[k].resolvedAt) \in Outcome
            /\ Answer(local[k].wire, local[k].resolvedAt).kind = "answer"
            /\ Answer(local[k].wire, local[k].resolvedAt).wire.key = k
        BY <4>1 DEF Answer, Outcome, Entry, AnswersQuestion
      <4> QED BY <4>1, <4>2, ReplyFits
    <3> QED BY <3>1, <3>2 DEF Move, Started
  <2> QED BY <2>1, <2>2
<1>4. ASSUME NEW q \in Queries, LocalDelete(q) \/ SfLead(q) \/ SfJoin(q) PROVE Move(p)
  BY <1>4 DEF LocalDelete, SfLead, SfJoin, Move, Stay
<1>5. ASSUME NEW q \in Queries, Select(q) PROVE Move(p)
  BY <1>5 DEF Select, SelectResponse, SelectXAdd, SelectTimeout, Selecting, Timed, Move, Stay
<1>6. ASSUME NEW q \in Queries, QuerySet(q) PROVE Move(p)
  <2>1. CASE p # q
    BY <1>6, <2>1 DEF QuerySet, Move, Stay
  <2>2. CASE p = q
    <3>1. result[p] \in LAN!Replies(key[p])
      BY <1>6, <2>2, ReplyFits DEF QuerySet, AnswersQuestion
    <3> QED BY <1>6, <2>2, <3>1 DEF QuerySet, Move, Replied
  <2> QED BY <2>1, <2>2
<1>7. ASSUME NEW q \in Queries, ResolveReturn(q) PROVE Move(p)
  <2>1. CASE p \notin Flight(q)
    BY <1>7, <2>1 DEF ResolveReturn, Move, Stay
  <2>2. CASE p \in Flight(q)
    <3>1. /\ pc[q] = "leaving" /\ pc[p] \in {"leaving", "follow"}
          /\ key'[p] = key[p] /\ key[p] = key[q] /\ result'[p] = result[q]
          /\ pc'[p] = IF result[q].kind = "answer" THEN "set" ELSE "done"
      BY <1>7, <2>2 DEF ResolveReturn, Flight
    <3>2. CASE result[q].kind = "answer"
      BY <3>1, <3>2 DEF Move, Stay
    <3>3. CASE result[q].kind # "answer"
      <4>1. result[q] \in LAN!Replies(key[q])
        BY <3>1, <3>3, ReplyFits DEF ReplyInv
      <4> QED BY <3>1, <3>3, <4>1 DEF Move, Replied
    <3> QED BY <3>2, <3>3
  <2> QED BY <2>1, <2>2
<1> QED
  BY <1>1, <1>2, <1>3, <1>4, <1>5, <1>6, <1>7, QueriesUntouched DEF Next, ClientNext, Handle

(* Moves of all queries are a step of Service. *)
LEMMA MoveMaps ==
  ASSUME TypeInv, TypeInv', ReplyInv, \A q \in Queries : Move(q)
  PROVE  LAN!Next
<1>1. key' = [q \in Queries |-> key'[q]]
  BY DEF TypeInv, TypeOK
<1>2. ASSUME NEW q \in Queries
      PROVE  (\E k \in Keys : LAN!Ask(q, k)) \/ LAN!Refuse(q) \/ LAN!Answer(q) \/ LAN!Wait(q)
  <2>1. CASE Stay(q)
    <3>1. LAN!Wait(q)
      BY <2>1 DEF Stay, LAN!Wait
    <3> QED BY <3>1
  <2>2. CASE Started(q)
    <3>1. PICK k \in Keys : k = key'[q]
      BY <2>2 DEF Started
    <3>2. LAN!Ask(q, k)
      BY <2>2, <3>1 DEF Started, ReplyInv, LAN!Ask
    <3> QED BY <3>2
  <2>3. CASE Refused(q)
    <3>1. LAN!Refuse(q)
      BY <2>3 DEF Refused, ReplyInv, Plain, LAN!Refuse, LAN!Failure
    <3> QED BY <3>1
  <2>4. CASE Replied(q)
    <3>1. key[q] # None
      BY <2>4, ClientAssumption DEF Replied, TypeInv, QueryShape
    <3>2. LAN!Answer(q)
      BY <2>4, <3>1 DEF Replied, LAN!Answer
    <3> QED BY <3>2
  <2>5. Move(q)
    OBVIOUS
  <2> QED BY <2>1, <2>2, <2>3, <2>4, <2>5 DEF Move
<1> QED BY <1>1, <1>2 DEF LAN!Next

-----------------------------------------------------------------------------

(* The client implements Service: every query is replied to at most once,  *)
(* finally and for the name it asked, through caches, flights, pushes and  *)
(* timers.                                                                 *)
THEOREM ClientImplementsService == Spec => ServiceSpec
<1>1. Init => LAN!Init
  BY DEF Init, LAN!Init
<1>2. Init => ReplyInv
  BY DEF Init, ReplyInv
<1>3. TypeInv /\ TypeInv' /\ AnswersQuestion /\ ReplyInv /\ [Next]_vars => [LAN!Next]_(LAN!vars)
  BY MoveStep, MoveMaps
<1> QED
  BY <1>1, <1>2, <1>3, ReplyStep, TypeInvariant, QuestionsAnswered, PTL DEF Spec, ServiceSpec, LAN!Spec

=============================================================================
