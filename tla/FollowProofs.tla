---------------------------- MODULE FollowProofs ----------------------------
(***************************************************************************)
(* Proofs about module Follow, for any keys, backends, clocks and number   *)
(* of switches, and any setting of the timers.                             *)
(***************************************************************************)
EXTENDS Follow, TLAPS

(* What a query has while it waits, and has given back when it is idle.    *)
QueryShape ==
  \A k \in Keys :
    /\ qpc[k] \in Waiting => xpool[k] # None
    /\ qpc[k] = "idle" => xpool[k] = None /\ ~written[k] /\ respID[k] = None /\ chan[k] = None

(* The inductive invariant behind type correctness. *)
TypeInv == TypeOK /\ QueryShape

(* No timer is overslept: the first is set when the query is asked, the    *)
(* second while the first still runs.                                      *)
TimerInv ==
  \A k \in Keys :
    /\ qpc[k] = "sending" => timer[k] = askedAt[k] + Block
    /\ qpc[k] = "acked" => timer[k] <= askedAt[k] + 2 * Block
    /\ qpc[k] \in Waiting => now <= timer[k]

(* Time does not pass the closing of a replaced pool, and waits for the    *)
(* responses that came through it and for the reader it leaves behind.     *)
GraceInv ==
  /\ \A p \in 1..(rdb - 1) : p \notin closed => now <= ReplacedAt(p) + Grace
  /\ \A k \in Keys : chan[k] # None /\ chan[k] # rdb => now <= ReplacedAt(chan[k]) + Grace
  /\ dpool # None /\ dpool # rdb => now <= ReplacedAt(dpool) + Grace

(* Pools are replaced in order. *)
SwapOrder == \A p \in 1..rdb : madeAt[p] <= SwappedAt

(* The IDs of a stream come from the clock of its node, in order. *)
StreamInv ==
  /\ \A a \in Addrs : TimeOf(last[a]) <= ClockOf(a)
  /\ \A k \in Keys : respID[k] # None => respID[k] <= last[addr[xpool[k]]]

(* An ID the dispatcher reads after is one of the stream it is to read, or *)
(* was given out by another node's clock before the old pool was closed.   *)
Foreseen(id) ==
  \/ id <= last[addr[rdb]]
  \/ \E a \in Addrs : TimeOf(id) <= SwappedAt + Grace + Skew[a]

(* The ID is no later than some node's clock. *)
Given(id) == \E a \in Addrs : TimeOf(id) <= ClockOf(a)

PositionInv ==
  /\ lastID # None => Given(lastID) /\ Foreseen(lastID)
  /\ dpool # None => Given(after) /\ Foreseen(after)
  /\ dwake <= SwappedAt + Grace + MaxBackoff
  /\ dpool = None /\ lastID = None => now <= SwappedAt + Grace + MaxBackoff

(* A response to a query that waits for the backend in use. *)
Pending(k) ==
  qpc[k] \in Waiting /\ xpool[k] = rdb /\ respID[k] # None /\ chan[k] = None

Early(k) == WroteAt(k) <= SwappedAt + Settling

(* The dispatcher has passed over a pending response only if it was        *)
(* written soon after the switch; any other one it will find now.          *)
HeardInv ==
  \A k \in Keys : Pending(k) =>
    /\ Early(k) \/ WroteAt(k) = now
    /\ lastID # None /\ respID[k] <= lastID => Early(k)
    /\ dpool # None /\ respID[k] <= after => Early(k)

-----------------------------------------------------------------------------
(* Type correctness.                                                       *)

(* Doubling stops before twice the limit. *)
LEMMA BackoffType ==
  ASSUME backoff \in Pause..MaxBackoff
  PROVE  BackoffNext \in Pause..MaxBackoff /\ Pause \in Pause..MaxBackoff
BY FollowAssumption DEF BackoffNext, MaxBackoff

(* IDs are numbers, and so are the times in them. *)
LEMMA NextIDType ==
  ASSUME TypeOK, NEW a \in Addrs
  PROVE  NextID(a) \in Nat /\ last[a] < NextID(a)
BY FollowAssumption DEF TypeOK, NextID, ClockOf

(* The initial state is of the right shape. *)
LEMMA TypeInit == Init => TypeInv
<1> SUFFICES ASSUME Init PROVE TypeInv
  OBVIOUS
<1>1. PICK a \in Addrs : addr = <<a>>
  BY DEF Init
<1>2. addr \in Seq(Addrs) /\ rdb = 1
  BY <1>1 DEF rdb
<1>3. madeAt \in Seq(0..now) /\ Len(madeAt) = rdb
  BY <1>2 DEF Init
<1>4. backoff \in Pause..MaxBackoff
  BY FollowAssumption DEF Init, MaxBackoff
<1>5. TypeOK
  BY <1>2, <1>3, <1>4, FollowAssumption DEF Init, TypeOK, Waiting
<1>6. QueryShape
  BY DEF Init, QueryShape, Waiting
<1> QED
  BY <1>5, <1>6 DEF TypeInv

(* A switch and the closing of the old pool. *)
LEMMA TypeSwitch ==
  ASSUME TypeInv, NEW a \in Addrs, SwapRedis(a)
  PROVE  TypeInv'
<1> USE FollowAssumption
<1>1. addr' \in Seq(Addrs) /\ rdb' = rdb + 1 /\ rdb' \in 1..MaxPools
  BY DEF SwapRedis, Moved, TypeInv, TypeOK, rdb
<1>2. madeAt' \in Seq(0..now') /\ Len(madeAt') = rdb'
  BY <1>1 DEF SwapRedis, TypeInv, TypeOK
<1>3. UNCHANGED <<now, closed, queryVars, streamVars, dispVars, subVars>>
  BY DEF SwapRedis
<1>4. local' = [k \in Keys |-> None]
  BY DEF SwapRedis
<1>5. TypeOK'
  <2>a. rdb \in Nat
    BY DEF TypeInv, TypeOK
  <2>1. 1..rdb \subseteq 1..rdb' /\ 1..(rdb - 1) \subseteq 1..(rdb' - 1)
    BY <1>1, <2>a
  <2>2. closed' \subseteq 1..(rdb' - 1)
    BY <1>3, <2>1 DEF TypeInv, TypeOK
  <2>3. /\ xpool' \in [Keys -> 1..rdb' \cup {None}]
        /\ chan' \in [Keys -> 1..rdb' \cup {None}]
    BY <1>3, <2>1 DEF TypeInv, TypeOK, queryVars
  <2>4. /\ dpool' \in 1..rdb' \cup {None}
        /\ spool' \in 1..rdb' \cup {None}
    BY <1>3, <2>1 DEF TypeInv, TypeOK, dispVars, subVars
  <2>5. local' \in [Keys -> [pool : 1..rdb', at : 0..now'] \cup {None}]
    BY <1>4
  <2> QED
    BY <1>1, <1>2, <1>3, <2>2, <2>3, <2>4, <2>5
    DEF TypeInv, TypeOK, queryVars, streamVars, dispVars, subVars
<1>6. QueryShape'
  BY <1>3 DEF TypeInv, QueryShape, queryVars
<1> QED
  BY <1>5, <1>6 DEF TypeInv

(* The closing of a replaced pool. *)
LEMMA TypeClose ==
  ASSUME TypeInv, NEW p \in 1..rdb, CloseOld(p)
  PROVE  TypeInv'
<1> USE FollowAssumption DEF TypeInv
<1>1. p \in 1..(rdb - 1)
  BY DEF CloseOld, CloseDue, TypeOK
<1>2. TypeOK'
  BY <1>1 DEF CloseOld, TypeOK, rdb, queryVars, streamVars, dispVars, subVars
<1>3. QueryShape'
  BY DEF CloseOld, QueryShape, queryVars
<1> QED
  BY <1>2, <1>3

(* What the return of resolve() leaves behind. *)
LEMMA TypeSettle ==
  ASSUME TypeInv, NEW k \in Keys, Settle(k),
         local' \in [Keys -> [pool : 1..rdb, at : 0..now] \cup {None}]
  PROVE  TypeInv'
<1> USE FollowAssumption DEF TypeInv
<1>1. UNCHANGED <<now, addr, madeAt, closed, last, resps, dpool, after, lastID, dwake, backoff,
                  spool, swake, rdb>>
  BY DEF Settle, poolVars, streamVars, dispVars, subVars, rdb
<1>2. /\ qpc' \in [Keys -> Waiting \cup {"idle"}]
      /\ askedAt' \in [Keys -> 0..now]
      /\ timer' \in [Keys -> Nat]
      /\ xpool' \in [Keys -> 1..rdb \cup {None}]
  BY DEF Settle, TypeOK
<1>3. /\ written' \in [Keys -> BOOLEAN]
      /\ respID' \in [Keys -> Nat \cup {None}]
      /\ chan' \in [Keys -> 1..rdb \cup {None}]
  BY DEF Settle, TypeOK
<1>4. TypeOK'
  BY <1>1, <1>2, <1>3 DEF TypeOK
<1>5. QueryShape'
  BY DEF Settle, QueryShape, TypeOK, Waiting
<1> QED
  BY <1>4, <1>5

(* localSet keeps the cache a function from keys to entries. *)
LEMMA LocalSetType ==
  ASSUME TypeOK, NEW k \in Keys, NEW p \in 1..rdb, LocalSet(k, p)
  PROVE  local' \in [Keys -> [pool : 1..rdb, at : 0..now] \cup {None}]
<1>1. now \in 0..now
  BY FollowAssumption DEF TypeOK
<1>2. [pool |-> p, at |-> now] \in [pool : 1..rdb, at : 0..now]
  BY <1>1
<1> QED
  BY <1>2 DEF LocalSet, TypeOK

(* A step of resolve(). *)
LEMMA TypeResolve ==
  ASSUME TypeInv, NEW k \in Keys, Resolve(k)
  PROVE  TypeInv'
<1> USE FollowAssumption DEF TypeInv
<1>1. CASE Ask(k)
  <2>a. UNCHANGED <<now, addr, madeAt, closed, written, respID, chan, last, resps, dpool, after,
                    lastID, dwake, backoff, spool, swake, rdb>>
    BY <1>1 DEF Ask, poolVars, streamVars, dispVars, subVars, rdb
  <2>b. rdb \in 1..rdb /\ now \in 0..now /\ now + Block \in Nat
    BY DEF TypeOK
  <2>c. /\ qpc' \in [Keys -> Waiting \cup {"idle"}]
        /\ askedAt' \in [Keys -> 0..now]
        /\ timer' \in [Keys -> Nat]
        /\ xpool' \in [Keys -> 1..rdb \cup {None}]
    BY <1>1, <2>b DEF Ask, TypeOK, Waiting
  <2>d. local' \in [Keys -> [pool : 1..rdb, at : 0..now] \cup {None}]
    BY <1>1 DEF Ask, TypeOK
  <2>1. TypeOK'
    BY <2>a, <2>c, <2>d DEF TypeOK
  <2>2. QueryShape'
    BY <1>1 DEF Ask, QueryShape, TypeOK
  <2> QED
    BY <2>1, <2>2
<1>2. CASE XAddWrite(k)
  <2>1. TypeOK'
    BY <1>2 DEF XAddWrite, TypeOK, rdb, poolVars, streamVars, dispVars, subVars
  <2>2. QueryShape'
    BY <1>2 DEF XAddWrite, QueryShape, TypeOK
  <2> QED
    BY <2>1, <2>2
<1>3. CASE SelectAck(k)
  <2>a. UNCHANGED <<now, addr, madeAt, closed, askedAt, xpool, written, respID, chan, last, resps,
                    dpool, after, lastID, dwake, backoff, spool, swake, local, rdb>>
    BY <1>3 DEF SelectAck, poolVars, streamVars, dispVars, subVars, rdb
  <2>b. /\ qpc' \in [Keys -> Waiting \cup {"idle"}]
        /\ timer' \in [Keys -> Nat]
    BY <1>3 DEF SelectAck, TypeOK, Waiting
  <2>1. TypeOK'
    BY <2>a, <2>b DEF TypeOK
  <2>2. QueryShape'
    BY <1>3 DEF SelectAck, QueryShape, TypeOK, Waiting
  <2> QED
    BY <2>1, <2>2
<1>4. CASE SelectXAddFail(k)
  BY <1>4, TypeSettle DEF SelectXAddFail, TypeOK
<1>5. CASE SelectResponse(k)
  <2>1. chan[k] \in 1..rdb
    BY <1>5 DEF SelectResponse, TypeOK
  <2> QED
    BY <1>5, <2>1, LocalSetType, TypeSettle DEF SelectResponse
<1>6. CASE SelectTimeout(k)
  BY <1>6, TypeSettle DEF SelectTimeout, TypeOK
<1> QED
  BY <1>1, <1>2, <1>3, <1>4, <1>5, <1>6 DEF Resolve

(* A response on a stream, to this client or to another. *)
LEMMA TypeRespond ==
  ASSUME TypeInv, \/ \E k \in Keys : Respond(k)
                  \/ \E a \in Addrs : RespondForeign(a)
  PROVE  TypeInv'
<1> USE FollowAssumption DEF TypeInv
<1>1. ASSUME NEW k \in Keys, Respond(k)
      PROVE  TypeInv'
  <2>1. xpool[k] \in 1..rdb
    BY <1>1 DEF Respond, TypeOK, QueryShape
  <2>2. addr[xpool[k]] \in Addrs
    BY <2>1 DEF TypeOK, rdb
  <2>3. NextID(addr[xpool[k]]) \in Nat
    BY <2>2, NextIDType
  <2>a. UNCHANGED <<now, addr, madeAt, closed, qpc, askedAt, timer, xpool, written, chan,
                    dpool, after, lastID, dwake, backoff, spool, swake, local, rdb>>
    BY <1>1 DEF Respond, poolVars, dispVars, subVars, rdb
  <2>b. /\ respID' \in [Keys -> Nat \cup {None}]
        /\ last' \in [Addrs -> Nat]
        /\ resps' \in 0..MaxResps
    <3>1. respID' \in [Keys -> Nat \cup {None}]
      BY <1>1, <2>3 DEF Respond, TypeOK
    <3>2. last' \in [Addrs -> Nat]
      BY <1>1, <2>3 DEF Respond, XAddResponse, TypeOK
    <3>3. resps' \in 0..MaxResps
      BY <1>1 DEF Respond, XAddResponse, TypeOK
    <3> QED
      BY <3>1, <3>2, <3>3
  <2>4. TypeOK'
    BY <2>a, <2>b DEF TypeOK
  <2>5. QueryShape'
    BY <1>1, <2>1 DEF Respond, QueryShape, TypeOK
  <2> QED
    BY <2>4, <2>5
<1>2. ASSUME NEW a \in Addrs, RespondForeign(a)
      PROVE  TypeInv'
  <2>1. NextID(a) \in Nat
    BY NextIDType
  <2>a. UNCHANGED <<now, addr, madeAt, closed, qpc, askedAt, timer, xpool, written, respID, chan,
                    dpool, after, lastID, dwake, backoff, spool, swake, local, rdb>>
    BY <1>2 DEF RespondForeign, poolVars, queryVars, dispVars, subVars, rdb
  <2>b. /\ last' \in [Addrs -> Nat]
        /\ resps' \in 0..MaxResps
    BY <1>2, <2>1 DEF RespondForeign, XAddResponse, TypeOK
  <2>2. TypeOK'
    BY <2>a, <2>b DEF TypeOK
  <2>3. QueryShape'
    BY <1>2 DEF RespondForeign, QueryShape, queryVars
  <2> QED
    BY <2>2, <2>3
<1> QED
  BY <1>1, <1>2

(* A step of the dispatcher. *)
LEMMA TypeDispatcher ==
  ASSUME TypeInv, DispatcherCall \/ DispatcherRead \/ DispatcherFail
  PROVE  TypeInv'
<1> USE FollowAssumption DEF TypeInv
<1>1. CASE DispatcherCall
  <2>1. rdb \in 1..rdb /\ addr[rdb] \in Addrs
    BY DEF TypeOK, rdb
  <2>2. after' \in Nat
    BY <1>1, <2>1 DEF DispatcherCall, TypeOK
  <2>3. TypeOK'
    BY <1>1, <2>1, <2>2 DEF DispatcherCall, TypeOK, rdb, poolVars, queryVars, streamVars,
                            subVars
  <2>4. QueryShape'
    BY <1>1 DEF DispatcherCall, QueryShape, queryVars
  <2> QED
    BY <2>3, <2>4
<1>2. CASE DispatcherRead
  <2>1. dpool \in 1..rdb /\ addr[dpool] \in Addrs
    BY <1>2 DEF DispatcherRead, Blocked, TypeOK, rdb
  <2>2. lastID' \in Nat
    BY <1>2, <2>1 DEF DispatcherRead, TypeOK
  <2>3. chan' \in [Keys -> 1..rdb \cup {None}]
    BY <1>2, <2>1 DEF DispatcherRead, TypeOK
  <2>4. backoff' \in Pause..MaxBackoff
    BY <1>2, BackoffType DEF DispatcherRead, TypeOK
  <2>5. TypeOK'
    BY <1>2, <2>2, <2>3, <2>4 DEF DispatcherRead, TypeOK, rdb, poolVars, streamVars, subVars
  <2>6. QueryShape'
    BY <1>2 DEF DispatcherRead, QueryShape, Waiting
  <2> QED
    BY <2>5, <2>6
<1>3. CASE DispatcherFail
  <2>1. backoff' \in Pause..MaxBackoff
    BY <1>3, BackoffType DEF DispatcherFail, TypeOK
  <2>2. dwake' \in Nat
    BY <1>3 DEF DispatcherFail, TypeOK
  <2>3. TypeOK'
    BY <1>3, <2>1, <2>2 DEF DispatcherFail, TypeOK, rdb, poolVars, queryVars, streamVars,
                            subVars
  <2>4. QueryShape'
    BY <1>3 DEF DispatcherFail, QueryShape, queryVars
  <2> QED
    BY <2>3, <2>4
<1> QED
  BY <1>1, <1>2, <1>3

(* A step of the subscriber. *)
LEMMA TypeSubscriber ==
  ASSUME TypeInv, Subscribe \/ SubscriberLost \/ \E k \in Keys : SubscriberReceive(k)
  PROVE  TypeInv'
<1> USE FollowAssumption DEF TypeInv
<1>1. CASE Subscribe
  <2>a. UNCHANGED <<now, addr, madeAt, closed, qpc, askedAt, timer, xpool, written, respID, chan,
                    last, resps, dpool, after, lastID, dwake, backoff, local, rdb>>
    BY <1>1 DEF Subscribe, poolVars, queryVars, streamVars, dispVars, rdb
  <2>b. spool' \in 1..rdb \cup {None} /\ swake' \in Nat
    BY <1>1 DEF Subscribe, TypeOK
  <2>1. TypeOK'
    BY <2>a, <2>b DEF TypeOK
  <2>2. QueryShape'
    BY <1>1 DEF Subscribe, QueryShape, queryVars
  <2> QED
    BY <2>1, <2>2
<1>2. CASE SubscriberLost
  <2>a. UNCHANGED <<now, addr, madeAt, closed, qpc, askedAt, timer, xpool, written, respID, chan,
                    last, resps, dpool, after, lastID, dwake, backoff, local, rdb>>
    BY <1>2 DEF SubscriberLost, poolVars, queryVars, streamVars, dispVars, rdb
  <2>b. spool' \in 1..rdb \cup {None} /\ swake' \in Nat
    BY <1>2 DEF SubscriberLost, TypeOK
  <2>1. TypeOK'
    BY <2>a, <2>b DEF TypeOK
  <2>2. QueryShape'
    BY <1>2 DEF SubscriberLost, QueryShape, queryVars
  <2> QED
    BY <2>1, <2>2
<1>3. ASSUME NEW k \in Keys, SubscriberReceive(k)
      PROVE  TypeInv'
  <2>1. spool \in 1..rdb
    BY <1>3 DEF SubscriberReceive, TypeOK
  <2>2. local' \in [Keys -> [pool : 1..rdb, at : 0..now] \cup {None}]
    BY <1>3, <2>1, LocalSetType DEF SubscriberReceive
  <2>3. TypeOK'
    BY <1>3, <2>2 DEF SubscriberReceive, TypeOK, rdb, poolVars, queryVars, streamVars, dispVars,
                      subVars
  <2>4. QueryShape'
    BY <1>3 DEF SubscriberReceive, QueryShape, queryVars
  <2> QED
    BY <2>3, <2>4
<1> QED
  BY <1>1, <1>2, <1>3

(* Time passes. *)
LEMMA TypeTick ==
  ASSUME TypeInv, Tick
  PROVE  TypeInv'
<1> USE FollowAssumption DEF TypeInv
<1>1. now' \in 0..MaxNow /\ now <= now'
  BY DEF Tick, TypeOK
<1>2. UNCHANGED <<poolVars, queryVars, streamVars, dispVars, subVars, local>>
  BY DEF Tick
<1>3. madeAt' \in Seq(0..now')
  BY <1>1, <1>2 DEF TypeOK, poolVars
<1>4. askedAt' \in [Keys -> 0..now']
  BY <1>1, <1>2 DEF TypeOK, queryVars
<1>5. local' \in [Keys -> [pool : 1..rdb, at : 0..now'] \cup {None}]
  BY <1>1, <1>2 DEF TypeOK
<1>6. TypeOK'
  BY <1>1, <1>2, <1>3, <1>4, <1>5
  DEF TypeOK, rdb, poolVars, queryVars, streamVars, dispVars, subVars
<1>7. QueryShape'
  BY <1>2 DEF QueryShape, queryVars
<1> QED
  BY <1>6, <1>7

(* Every step keeps the inductive invariant. *)
LEMMA TypeStep == TypeInv /\ [Next]_vars => TypeInv'
<1> SUFFICES ASSUME TypeInv, [Next]_vars PROVE TypeInv'
  OBVIOUS
<1>1. CASE UNCHANGED vars
  BY <1>1 DEF TypeInv, TypeOK, QueryShape, vars, rdb, poolVars, queryVars, streamVars, dispVars,
              subVars
<1> QED
  BY <1>1, TypeSwitch, TypeClose, TypeResolve, TypeRespond, TypeDispatcher, TypeSubscriber,
     TypeTick DEF Next

(* Type correctness of the model of RunFollow, SwapRedis and what a switch *)
(* meets: only pools that were replaced are closed, and the dispatcher's   *)
(* backoff stays below twice its limit.                                    *)
THEOREM TypeCorrect == Spec => []TypeOK
<1>1. TypeInv => TypeOK
  BY DEF TypeInv
<1> QED
  BY <1>1, TypeInit, TypeStep, PTL DEF Spec

-----------------------------------------------------------------------------
(* Arithmetic of stream IDs.                                               *)

(* A stream ID lies within the tick it was given out in. *)
LEMMA TimeOfBounds ==
  ASSUME NEW id \in Nat
  PROVE  /\ TimeOf(id) \in Nat
         /\ PerTick * TimeOf(id) <= id /\ id < PerTick * (TimeOf(id) + 1)
BY FollowAssumption DEF TimeOf

(* The order of IDs is the order of their times. *)
LEMMA TimeOfMonotone ==
  ASSUME NEW i \in Nat, NEW j \in Nat, i <= j
  PROVE  TimeOf(i) <= TimeOf(j)
<1> DEFINE s == TimeOf(i)
           t == TimeOf(j)
<1>1. /\ s \in Nat /\ PerTick * s <= i
      /\ t \in Nat /\ j < PerTick * (t + 1)
  BY TimeOfBounds
<1>2. PerTick * s < PerTick * (t + 1)
  BY <1>1, FollowAssumption
<1> HIDE DEF s, t
<1>3. s < t + 1
  BY <1>1, <1>2, FollowAssumption
<1> QED
  BY <1>1, <1>3 DEF s, t

-----------------------------------------------------------------------------
(* A query waits no longer than two block timers.                          *)

(* Time waits for every timer that is due. *)
LEMMA TimerStep == TypeInv /\ TimerInv /\ [Next]_vars => TimerInv'
<1> SUFFICES ASSUME TypeInv, TimerInv, [Next]_vars PROVE TimerInv'
  OBVIOUS
<1> USE FollowAssumption DEF TypeInv
<1>1. ASSUME UNCHANGED <<now, qpc, askedAt, timer>>
      PROVE  TimerInv'
  BY <1>1 DEF TimerInv
<1>2. ASSUME NEW k \in Keys, Settle(k)
      PROVE  TimerInv'
  BY <1>2 DEF Settle, TimerInv, TypeOK, Waiting
<1>3. ASSUME NEW k \in Keys, Ask(k)
      PROVE  TimerInv'
  BY <1>3 DEF Ask, TimerInv, TypeOK, Waiting
<1>4. ASSUME NEW k \in Keys, SelectAck(k)
      PROVE  TimerInv'
  BY <1>4 DEF SelectAck, TimerInv, TypeOK, Waiting
<1>5. CASE Tick
  <2>1. UNCHANGED <<qpc, askedAt, timer>> /\ now' \in {now, now + 1}
    BY <1>5 DEF Tick, queryVars
  <2>2. ASSUME NEW k \in Keys, qpc[k] \in Waiting
        PROVE  now < timer[k]
    BY <1>5, <2>2 DEF Tick, Ready, TimerFired, Timed, TypeOK
  <2> QED
    BY <2>1, <2>2 DEF TimerInv, TypeOK
<1>6. ASSUME NEW k \in Keys, Resolve(k)
      PROVE  TimerInv'
  BY <1>1, <1>2, <1>3, <1>4, <1>6
  DEF Resolve, XAddWrite, SelectXAddFail, SelectResponse, SelectTimeout
<1>7. CASE UNCHANGED vars
  BY <1>1, <1>7 DEF vars, queryVars
<1>8. ASSUME NEW a \in Addrs, SwapRedis(a) \/ RespondForeign(a)
      PROVE  TimerInv'
  BY <1>1, <1>8 DEF SwapRedis, RespondForeign, queryVars
<1>9. ASSUME NEW p \in 1..rdb, CloseOld(p)
      PROVE  TimerInv'
  BY <1>1, <1>9 DEF CloseOld, queryVars
<1>10. ASSUME NEW k \in Keys, Respond(k) \/ SubscriberReceive(k)
       PROVE  TimerInv'
  BY <1>1, <1>10 DEF Respond, SubscriberReceive, queryVars
<1>11. CASE DispatcherCall \/ DispatcherRead \/ DispatcherFail \/ Subscribe \/ SubscriberLost
  BY <1>1, <1>11
  DEF DispatcherCall, DispatcherRead, DispatcherFail, Subscribe, SubscriberLost, queryVars
<1> QED
  BY <1>5, <1>6, <1>7, <1>8, <1>9, <1>10, <1>11 DEF Next

(* Whatever happens to its backend, a query that waits in resolve() is     *)
(* settled within the block time unless its XADD is confirmed, and within  *)
(* twice the block time if it is: the second timer is started while the    *)
(* first one runs, and neither is started again.                           *)
THEOREM WaitIsBounded == Spec => []WaitBounded
<1>1. Init => TimerInv
  BY DEF Init, TimerInv, Waiting
<1>2. TypeInv /\ TimerInv => WaitBounded
  <2> SUFFICES ASSUME TypeInv, TimerInv, NEW k \in Keys
               PROVE  /\ qpc[k] = "sending" => now <= askedAt[k] + Block
                      /\ qpc[k] = "acked" => now <= askedAt[k] + 2 * Block
    BY DEF WaitBounded
  <2>1. now \in Nat /\ askedAt[k] \in Nat /\ timer[k] \in Nat /\ Block \in Nat
    BY FollowAssumption DEF TypeInv, TypeOK
  <2>2. /\ qpc[k] = "sending" => timer[k] = askedAt[k] + Block /\ now <= timer[k]
        /\ qpc[k] = "acked" => timer[k] <= askedAt[k] + 2 * Block /\ now <= timer[k]
    BY DEF TimerInv, Waiting
  <2> QED
    BY <2>1, <2>2
<1> QED
  BY <1>1, <1>2, TypeInit, TypeStep, TimerStep, PTL DEF Spec

-----------------------------------------------------------------------------
(* The old backend falls silent with the closing of its pool.              *)

(* What is known of the pools after a switch. *)
SwitchInv == GraceInv /\ SwapOrder /\ OldAnswersBounded

(* Nothing has been replaced at first. *)
LEMMA SwitchInit == Init => SwitchInv
<1> SUFFICES ASSUME Init PROVE SwitchInv
  OBVIOUS
<1>1. rdb = 1 /\ madeAt = <<0>>
  BY DEF Init, rdb
<1>2. SwapOrder
  BY <1>1 DEF SwapOrder, SwappedAt
<1>3. GraceInv
  BY <1>1 DEF Init, GraceInv
<1>4. OldAnswersBounded
  BY DEF Init, OldAnswersBounded
<1> QED
  BY <1>2, <1>3, <1>4 DEF SwitchInv

(* The times of switches are times that have been. *)
LEMMA SwapTimes ==
  ASSUME TypeOK
  PROVE  /\ now \in Nat /\ SwappedAt \in Nat /\ SwappedAt <= now
         /\ \A p \in 1..rdb : madeAt[p] \in 0..now
         /\ \A p \in 1..(rdb - 1) : ReplacedAt(p) \in Nat
<1>1. Len(madeAt) = rdb /\ rdb \in Nat \ {0}
  BY FollowAssumption DEF TypeOK
<1>2. \A p \in 1..rdb : madeAt[p] \in 0..now
  BY <1>1 DEF TypeOK
<1>a. now \in Nat
  BY FollowAssumption DEF TypeOK
<1>3. \A p \in 1..(rdb - 1) : p + 1 \in 1..rdb
  BY <1>1
<1> QED
  BY <1>1, <1>2, <1>3, <1>a DEF SwappedAt, ReplacedAt

(* Steps that leave the pools and the time alone keep what is known of     *)
(* them; what is left is to look at the responses, the dispatcher and the  *)
(* cache.                                                                  *)
LEMMA SwitchKept ==
  ASSUME SwitchInv, UNCHANGED <<now, addr, madeAt, closed>>,
         \A k \in Keys : chan'[k] # None /\ chan'[k] # rdb => now <= ReplacedAt(chan'[k]) + Grace,
         dpool' # None /\ dpool' # rdb => now <= ReplacedAt(dpool') + Grace,
         \A k \in Keys : local'[k] # None /\ local'[k].pool # rdb =>
            /\ local'[k].at >= SwappedAt
            /\ local'[k].at <= ReplacedAt(local'[k].pool) + Grace
  PROVE  SwitchInv'
<1>1. rdb' = rdb /\ SwappedAt' = SwappedAt
  BY DEF rdb, SwappedAt
<1>2. GraceInv'
  BY <1>1 DEF SwitchInv, GraceInv, ReplacedAt
<1>3. SwapOrder'
  BY <1>1 DEF SwitchInv, SwapOrder
<1>4. OldAnswersBounded'
  BY <1>1 DEF OldAnswersBounded, ReplacedAt
<1> QED
  BY <1>2, <1>3, <1>4 DEF SwitchInv

(* An entry is written from a pool that is not closed yet.                 *)
LEMMA SwitchLocalSet ==
  ASSUME TypeInv, SwitchInv, NEW k \in Keys, NEW p \in 1..rdb, LocalSet(k, p),
         p # rdb => now <= ReplacedAt(p) + Grace,
         NEW j \in Keys, local'[j] # None, local'[j].pool # rdb
  PROVE  /\ local'[j].at >= SwappedAt
         /\ local'[j].at <= ReplacedAt(local'[j].pool) + Grace
<1>1. CASE UNCHANGED local \/ j # k
  <2>1. local'[j] = local[j]
    BY <1>1 DEF LocalSet, TypeInv, TypeOK
  <2> QED
    BY <2>1 DEF SwitchInv, OldAnswersBounded
<1>2. CASE j = k /\ local' = [local EXCEPT ![k] = [pool |-> p, at |-> now]]
  <2>1. local'[j] = [pool |-> p, at |-> now]
    BY <1>2 DEF TypeInv, TypeOK
  <2>2. now >= SwappedAt
    BY SwapTimes DEF TypeInv
  <2> QED
    BY <2>1, <2>2
<1> QED
  BY <1>1, <1>2 DEF LocalSet

(* Every step keeps the old backend within its grace. *)
LEMMA SwitchStep == TypeInv /\ SwitchInv /\ [Next]_vars => SwitchInv'
<1> SUFFICES ASSUME TypeInv, SwitchInv, [Next]_vars PROVE SwitchInv'
  OBVIOUS
<1> USE FollowAssumption DEF TypeInv, SwitchInv
<1>1. ASSUME UNCHANGED <<now, addr, madeAt, closed, chan, dpool, local>>
      PROVE  SwitchInv'
  BY <1>1, SwitchKept DEF GraceInv, OldAnswersBounded
<1>2. ASSUME NEW k \in Keys, Resolve(k)
      PROVE  SwitchInv'
  <2>1. CASE Ask(k)
    <3>1. UNCHANGED <<now, addr, madeAt, closed, chan, dpool>>
      BY <2>1 DEF Ask, poolVars, dispVars
    <3>2. \A j \in Keys : local'[j] # None => local'[j] = local[j]
      BY <2>1 DEF Ask, TypeOK
    <3> QED
      BY <3>1, <3>2, SwitchKept DEF GraceInv, OldAnswersBounded
  <2>2. CASE XAddWrite(k) \/ SelectAck(k)
    BY <1>1, <2>2 DEF XAddWrite, SelectAck, poolVars, dispVars
  <2>3. ASSUME Settle(k)
        PROVE  /\ UNCHANGED <<now, addr, madeAt, closed, dpool>>
               /\ \A j \in Keys : chan'[j] # None => chan'[j] = chan[j]
    BY <2>3 DEF Settle, poolVars, dispVars, TypeOK
  <2>4. CASE SelectXAddFail(k) \/ SelectTimeout(k)
    BY <2>3, <2>4, SwitchKept DEF SelectXAddFail, SelectTimeout, GraceInv, OldAnswersBounded
  <2>5. CASE SelectResponse(k)
    <3>1. chan[k] \in 1..rdb /\ LocalSet(k, chan[k]) /\ Settle(k)
      BY <2>5 DEF SelectResponse, TypeOK
    <3>2. chan[k] # rdb => now <= ReplacedAt(chan[k]) + Grace
      BY <2>5 DEF SelectResponse, GraceInv
    <3>3. \A j \in Keys : local'[j] # None /\ local'[j].pool # rdb =>
            /\ local'[j].at >= SwappedAt
            /\ local'[j].at <= ReplacedAt(local'[j].pool) + Grace
      BY <3>1, <3>2, SwitchLocalSet
    <3> QED
      BY <2>3, <3>1, <3>3, SwitchKept DEF GraceInv
  <2> QED
    BY <1>2, <2>1, <2>2, <2>4, <2>5 DEF Resolve
<1>3. ASSUME NEW k \in Keys, Respond(k)
      PROVE  SwitchInv'
  BY <1>1, <1>3 DEF Respond, poolVars, dispVars
<1>4. ASSUME NEW k \in Keys, SubscriberReceive(k)
      PROVE  SwitchInv'
  <2>1. spool \in 1..rdb /\ spool \notin closed /\ LocalSet(k, spool)
    BY <1>4 DEF SubscriberReceive, TypeOK
  <2>2. spool # rdb => now <= ReplacedAt(spool) + Grace
    BY <2>1 DEF GraceInv, TypeOK
  <2>3. UNCHANGED <<now, addr, madeAt, closed, chan, dpool>>
    BY <1>4 DEF SubscriberReceive, poolVars, queryVars, dispVars
  <2>4. \A j \in Keys : local'[j] # None /\ local'[j].pool # rdb =>
          /\ local'[j].at >= SwappedAt
          /\ local'[j].at <= ReplacedAt(local'[j].pool) + Grace
    BY <2>1, <2>2, SwitchLocalSet
  <2> QED
    BY <2>3, <2>4, SwitchKept DEF GraceInv
<1>5. CASE DispatcherCall \/ DispatcherFail
  <2>1. UNCHANGED <<now, addr, madeAt, closed, chan, local>> /\ dpool' \in {rdb, None}
    BY <1>5 DEF DispatcherCall, DispatcherFail, poolVars, queryVars
  <2> QED
    BY <2>1, SwitchKept DEF GraceInv, OldAnswersBounded
<1>6. CASE DispatcherRead
  <2>1. UNCHANGED <<now, addr, madeAt, closed, local>> /\ dpool' = None
    BY <1>6 DEF DispatcherRead, poolVars
  <2>2. dpool # rdb => now <= ReplacedAt(dpool) + Grace
    BY <1>6 DEF DispatcherRead, Blocked, GraceInv
  <2>3. \A k \in Keys : chan'[k] \in {chan[k], dpool}
    BY <1>6 DEF DispatcherRead
  <2> QED
    BY <2>1, <2>2, <2>3, SwitchKept DEF GraceInv, OldAnswersBounded
<1>7. CASE Subscribe \/ SubscriberLost \/ UNCHANGED vars
  BY <1>1, <1>7 DEF Subscribe, SubscriberLost, vars, poolVars, queryVars, dispVars
<1>8. ASSUME NEW a \in Addrs, RespondForeign(a)
      PROVE  SwitchInv'
  BY <1>1, <1>8 DEF RespondForeign, poolVars, queryVars, dispVars
<1>9. ASSUME NEW p \in 1..rdb, CloseOld(p)
      PROVE  SwitchInv'
  <2>1. /\ UNCHANGED <<now, addr, madeAt, chan, dpool, local>>
        /\ closed' = closed \cup {p}
    BY <1>9 DEF CloseOld, queryVars, dispVars
  <2>2. rdb' = rdb /\ SwappedAt' = SwappedAt
    BY <2>1 DEF rdb, SwappedAt
  <2> QED
    BY <2>1, <2>2 DEF GraceInv, SwapOrder, OldAnswersBounded, ReplacedAt
<1>10. ASSUME NEW a \in Addrs, SwapRedis(a)
       PROVE  SwitchInv'
  <2>1. /\ UNCHANGED <<now, closed, chan, dpool>>
        /\ local' = [k \in Keys |-> None]
    BY <1>10 DEF SwapRedis, queryVars, dispVars
  <2>2. rdb \in Nat \ {0} /\ rdb' = rdb + 1 /\ Len(madeAt) = rdb /\ madeAt \in Seq(0..now)
    BY <1>10 DEF SwapRedis, TypeOK, rdb
  <2>3. /\ \A p \in 1..rdb : madeAt'[p] = madeAt[p]
        /\ madeAt'[rdb + 1] = now
    BY <1>10, <2>2 DEF SwapRedis
  <2>4. \A p \in 1..(rdb - 1) : ReplacedAt(p)' = ReplacedAt(p)
    BY <2>2, <2>3 DEF ReplacedAt
  <2>5. SwappedAt' = now
    BY <2>2, <2>3 DEF SwappedAt
  <2>6. GraceInv'
    <3>1. \A p \in 1..rdb : (p # rdb => now <= ReplacedAt(p) + Grace)
                              => now' <= ReplacedAt(p)' + Grace
      BY <2>1, <2>2, <2>3, <2>4 DEF ReplacedAt, TypeOK
    <3>2. \A p \in 1..(rdb' - 1) : p \notin closed' => now' <= ReplacedAt(p)' + Grace
      BY <2>1, <2>2, <3>1 DEF GraceInv
    <3>3. \A k \in Keys : chan'[k] # None => now' <= ReplacedAt(chan[k])' + Grace
      <4> SUFFICES ASSUME NEW k \in Keys, chan[k] # None
                   PROVE  now' <= madeAt'[chan[k] + 1] + Grace
        BY <2>1 DEF ReplacedAt
      <4>1. chan[k] \in 1..rdb
        BY DEF TypeOK
      <4> QED
        BY <3>1, <4>1 DEF GraceInv, ReplacedAt
    <3>4. dpool' # None => now' <= ReplacedAt(dpool)' + Grace
      <4> SUFFICES ASSUME dpool # None
                   PROVE  now' <= madeAt'[dpool + 1] + Grace
        BY <2>1 DEF ReplacedAt
      <4>1. dpool \in 1..rdb
        BY DEF TypeOK
      <4> QED
        BY <3>1, <4>1 DEF GraceInv, ReplacedAt
    <3> QED
      BY <3>2, <3>3, <3>4 DEF GraceInv
  <2>7. SwapOrder'
    <3>1. now \in Nat /\ \A p \in 1..rdb : madeAt[p] \in 0..now
      BY SwapTimes
    <3>2. \A p \in 1..(rdb + 1) : madeAt'[p] <= now
      BY <2>2, <2>3, <3>1
    <3> QED
      BY <2>2, <2>5, <3>2 DEF SwapOrder
  <2>8. OldAnswersBounded'
    BY <2>1 DEF OldAnswersBounded
  <2> QED
    BY <2>6, <2>7, <2>8
<1>11. CASE Tick
  <2>1. UNCHANGED <<addr, madeAt, closed, chan, dpool, local>> /\ now' \in {now, now + 1}
    BY <1>11 DEF Tick, poolVars, queryVars, dispVars
  <2>2. rdb' = rdb /\ SwappedAt' = SwappedAt
    BY <2>1 DEF rdb, SwappedAt
  <2>3. \A k \in Keys : chan[k] = None
    BY <1>11 DEF Tick, Ready
  <2>4. dpool = None \/ dpool \notin closed
    BY <1>11 DEF Tick, Ready, Blocked
  <2>5. ASSUME NEW p \in 1..(rdb - 1), p \notin closed
        PROVE  now' <= ReplacedAt(p) + Grace
    <3>1. p \in 1..rdb /\ p < rdb /\ p + 1 \in 1..rdb
      BY DEF TypeOK
    <3>2. ReplacedAt(p) \in Nat
      BY <3>1 DEF TypeOK, ReplacedAt
    <3>3. ~ (now >= ReplacedAt(p) + Grace)
      BY <1>11, <2>5, <3>1 DEF Tick, Ready, CloseDue
    <3> QED
      BY <2>1, <3>2, <3>3 DEF TypeOK
  <2>6. GraceInv'
    BY <2>1, <2>2, <2>3, <2>4, <2>5 DEF GraceInv, ReplacedAt, TypeOK
  <2>7. SwapOrder' /\ OldAnswersBounded'
    BY <2>1, <2>2 DEF SwapOrder, OldAnswersBounded, ReplacedAt
  <2> QED
    BY <2>6, <2>7
<1> QED
  BY <1>2, <1>3, <1>4, <1>5, <1>6, <1>7, <1>8, <1>9, <1>10, <1>11 DEF Next

(* SwapRedis empties the cache, and what of the old backend is still       *)
(* cached after that, by a response in flight or by a push, comes before   *)
(* the AfterFunc has closed the old pool.                                  *)
THEOREM OldAnswersAreBounded == Spec => []OldAnswersBounded
<1>1. SwitchInv => OldAnswersBounded
  BY DEF SwitchInv
<1> QED
  BY <1>1, TypeInit, TypeStep, SwitchInit, SwitchStep, PTL DEF Spec

-----------------------------------------------------------------------------
(* The dispatcher hears the new backend again.                             *)

DispInv == StreamInv /\ PositionInv /\ HeardInv

(* The times that Settling is made of. *)
LEMMA SettlingBounds ==
  /\ Settling \in Nat /\ MaxBackoff \in Nat
  /\ Settling >= Grace + Ahead /\ Settling >= Grace + MaxBackoff
BY FollowAssumption DEF Settling, MaxBackoff

(* Every pool has an address. *)
LEMMA PoolAddrs ==
  ASSUME TypeOK
  PROVE  /\ rdb \in 1..rdb /\ rdb \in Nat \ {0}
         /\ \A p \in 1..rdb : addr[p] \in Addrs
BY FollowAssumption DEF TypeOK, rdb

(* A response that was written has a pool. *)
LEMMA RespondedPool ==
  ASSUME TypeInv, NEW k \in Keys, respID[k] # None
  PROVE  /\ respID[k] \in Nat /\ xpool[k] \in 1..rdb
         /\ addr[xpool[k]] \in Addrs /\ qpc[k] \in Waiting
<1>1. respID[k] \in Nat /\ qpc[k] # "idle" /\ qpc[k] \in Waiting
  BY DEF TypeInv, TypeOK, QueryShape
<1>2. xpool[k] \in 1..rdb
  BY <1>1 DEF TypeInv, TypeOK, QueryShape
<1> QED
  BY <1>1, <1>2, PoolAddrs DEF TypeInv

(* An ID that another node's clock gave out before the old pool was closed *)
(* hides no response but those written soon after the switch.              *)
LEMMA EarlyByClock ==
  ASSUME TypeInv, NEW k \in Keys, respID[k] # None, xpool[k] = rdb,
         NEW id \in Nat, respID[k] <= id,
         NEW b \in Addrs, TimeOf(id) <= SwappedAt + Grace + Skew[b]
  PROVE  Early(k)
<1> DEFINE a == addr[rdb]
<1>1. respID[k] \in Nat /\ a \in Addrs
  BY RespondedPool
<1>2. /\ TimeOf(respID[k]) <= TimeOf(id)
      /\ TimeOf(respID[k]) \in Nat /\ TimeOf(id) \in Nat
  BY <1>1, TimeOfMonotone, TimeOfBounds
<1>3. Skew[a] \in Nat /\ Skew[b] \in Nat /\ Skew[b] <= Skew[a] + Ahead
  BY <1>1, FollowAssumption
<1>4. SwappedAt \in Nat
  BY SwapTimes DEF TypeInv
<1>5. WroteAt(k) = TimeOf(respID[k]) - Skew[a]
  BY DEF WroteAt
<1> HIDE DEF a
<1> QED
  BY <1>2, <1>3, <1>4, <1>5, SettlingBounds, FollowAssumption DEF Early

(* While the dispatcher is on its way to the new backend, every response   *)
(* is an early one.                                                        *)
LEMMA EarlyByTime ==
  ASSUME TypeInv, StreamInv, NEW k \in Keys, respID[k] # None, xpool[k] = rdb,
         now <= SwappedAt + Settling
  PROVE  Early(k)
<1> DEFINE a == addr[rdb]
<1>1. respID[k] \in Nat /\ a \in Addrs /\ last[a] \in Nat
  BY RespondedPool DEF TypeInv, TypeOK
<1>2. respID[k] <= last[a] /\ TimeOf(last[a]) <= now + Skew[a]
  BY <1>1 DEF StreamInv, ClockOf
<1>3. TimeOf(respID[k]) <= TimeOf(last[a])
  BY <1>1, <1>2, TimeOfMonotone
<1>4. TimeOf(respID[k]) \in Nat /\ TimeOf(last[a]) \in Nat /\ Skew[a] \in Nat
  BY <1>1, TimeOfBounds, FollowAssumption
<1>5. SwappedAt \in Nat /\ now \in Nat
  BY SwapTimes DEF TypeInv
<1>6. WroteAt(k) = TimeOf(respID[k]) - Skew[a]
  BY DEF WroteAt
<1> HIDE DEF a
<1> QED
  BY <1>2, <1>3, <1>4, <1>5, <1>6, SettlingBounds DEF Early

(* The initial state. *)
LEMMA DispInit == Init => DispInv
<1> SUFFICES ASSUME Init PROVE DispInv
  OBVIOUS
<1>1. rdb = 1 /\ SwappedAt = 0
  BY DEF Init, rdb, SwappedAt
<1>2. TimeOf(0) = 0
  BY FollowAssumption DEF TimeOf
<1>3. StreamInv
  BY <1>2, FollowAssumption DEF Init, StreamInv, ClockOf
<1>4. PositionInv
  BY <1>1, SettlingBounds, FollowAssumption DEF Init, PositionInv
<1>5. HeardInv
  BY DEF Init, HeardInv, Pending
<1> QED
  BY <1>3, <1>4, <1>5 DEF DispInv

(* Steps that touch neither the clock, the pools, the streams nor the      *)
(* dispatcher, and write no response.                                      *)
LEMMA DispKept ==
  ASSUME DispInv,
         UNCHANGED <<now, addr, madeAt, last, lastID, after, dpool, dwake>>,
         \A k \in Keys : respID'[k] # None => respID'[k] = respID[k] /\ xpool'[k] = xpool[k],
         \A k \in Keys : Pending(k)' => Pending(k)
  PROVE  DispInv'
<1>1. rdb' = rdb /\ SwappedAt' = SwappedAt
  BY DEF rdb, SwappedAt
<1>2. StreamInv'
  BY DEF DispInv, StreamInv, ClockOf
<1>3. PositionInv'
  BY <1>1 DEF DispInv, PositionInv, Given, Foreseen, ClockOf
<1>4. ASSUME NEW k \in Keys, Pending(k)'
      PROVE  respID'[k] = respID[k] /\ WroteAt(k)' = WroteAt(k) /\ Early(k)' = Early(k) /\ Pending(k)
  BY <1>1, <1>4 DEF Pending, WroteAt, Early
<1>5. HeardInv'
  BY <1>4 DEF DispInv, HeardInv
<1> QED
  BY <1>2, <1>3, <1>5 DEF DispInv

(* A response is written: it comes after every ID of its stream, so the    *)
(* dispatcher has passed it over only with an ID of another clock.         *)
LEMMA DispRespond ==
  ASSUME TypeInv, DispInv, NEW a \in Addrs, XAddResponse(a),
         UNCHANGED <<now, addr, madeAt, lastID, after, dpool, dwake, qpc, xpool, chan>>,
         \A k \in Keys : \/ respID'[k] = respID[k]
                         \/ xpool[k] \in 1..rdb /\ a = addr[xpool[k]] /\ respID'[k] = NextID(a),
         TypeInv'
  PROVE  DispInv'
<1>1. rdb' = rdb /\ SwappedAt' = SwappedAt
  BY DEF rdb, SwappedAt
<1>2. /\ NextID(a) \in Nat /\ last[a] < NextID(a) /\ TimeOf(NextID(a)) = now + Skew[a]
      /\ last' = [last EXCEPT ![a] = NextID(a)]
  BY NextIDType DEF XAddResponse, ClockOf, TypeInv
<1>3. \A b \in Addrs : last[b] \in Nat /\ last[b] <= last'[b]
  BY <1>2 DEF TypeInv, TypeOK
<1>4. last'[a] = NextID(a)
  BY <1>2 DEF TypeInv, TypeOK
<1>5. StreamInv'
  <2>1. \A b \in Addrs : TimeOf(last'[b]) <= now + Skew[b]
    <3> SUFFICES ASSUME NEW b \in Addrs PROVE TimeOf(last'[b]) <= now + Skew[b]
      OBVIOUS
    <3>1. CASE b = a
      <4>1. now + Skew[a] \in Nat
        BY SwapTimes, FollowAssumption DEF TypeInv
      <4> QED
        BY <1>2, <1>4, <3>1, <4>1
    <3>2. CASE b # a
      <4>1. last'[b] = last[b]
        BY <1>2, <3>2 DEF TypeInv, TypeOK
      <4> QED
        BY <4>1 DEF DispInv, StreamInv, ClockOf
    <3> QED
      BY <3>1, <3>2
  <2>2. ASSUME NEW k \in Keys, respID'[k] # None
        PROVE  respID'[k] <= last'[addr[xpool[k]]]
    <3>1. CASE respID'[k] = respID[k]
      <4>1. respID[k] \in Nat /\ addr[xpool[k]] \in Addrs
        BY <2>2, <3>1, RespondedPool
      <4>2. respID[k] <= last[addr[xpool[k]]]
        BY <2>2, <3>1 DEF DispInv, StreamInv
      <4>3. /\ last[addr[xpool[k]]] \in Nat /\ last'[addr[xpool[k]]] \in Nat
            /\ last[addr[xpool[k]]] <= last'[addr[xpool[k]]]
        BY <1>3, <4>1 DEF TypeInv, TypeOK
      <4> QED
        BY <3>1, <4>1, <4>2, <4>3
    <3>2. CASE a = addr[xpool[k]] /\ respID'[k] = NextID(a)
      BY <1>2, <1>4, <3>2
    <3> QED
      BY <3>1, <3>2
  <2> QED
    BY <2>1, <2>2 DEF StreamInv, ClockOf
<1>6. PositionInv'
  <2>1. \A id \in Nat : Given(id) => Given(id)'
    BY DEF Given, ClockOf
  <2>2. addr[rdb] \in Addrs /\ last'[addr[rdb]] \in Nat
    BY <1>1, PoolAddrs DEF TypeInv, TypeOK
  <2>3. \A id \in Nat : Foreseen(id) => Foreseen(id)'
    BY <1>1, <1>3, <2>2 DEF Foreseen
  <2>4. after \in Nat /\ (lastID # None => lastID \in Nat)
    BY DEF TypeInv, TypeOK
  <2>5. lastID' # None => Given(lastID)' /\ Foreseen(lastID)'
    BY <2>1, <2>3, <2>4 DEF DispInv, PositionInv
  <2>6. dpool' # None => Given(after)' /\ Foreseen(after)'
    BY <2>1, <2>3, <2>4 DEF DispInv, PositionInv
  <2> QED
    BY <1>1, <2>5, <2>6 DEF DispInv, PositionInv
<1>7. HeardInv'
  <2> SUFFICES ASSUME NEW k \in Keys, Pending(k)'
               PROVE  /\ Early(k)' \/ WroteAt(k)' = now
                      /\ lastID # None /\ respID'[k] <= lastID => Early(k)'
                      /\ dpool # None /\ respID'[k] <= after => Early(k)'
    BY DEF HeardInv
  <2>1. CASE respID'[k] = respID[k]
    <3>1. Pending(k) /\ WroteAt(k)' = WroteAt(k) /\ Early(k)' = Early(k)
      BY <1>1, <2>1 DEF Pending, WroteAt, Early
    <3> QED
      BY <2>1, <3>1 DEF DispInv, HeardInv
  <2>2. CASE a = addr[xpool[k]] /\ respID'[k] = NextID(a)
    <3>1. xpool'[k] = rdb' /\ xpool[k] = rdb /\ respID'[k] # None
      BY <1>1 DEF Pending
    <3>2. WroteAt(k)' = now
      <4>1. WroteAt(k)' = TimeOf(NextID(a)) - Skew[a]
        BY <2>2 DEF WroteAt, TimeOf
      <4>2. now \in Nat /\ Skew[a] \in Nat
        BY SwapTimes, FollowAssumption DEF TypeInv
      <4> QED
        BY <1>2, <4>1, <4>2
    <3>3. \A id \in Nat : NextID(a) <= id /\ Foreseen(id) => Early(k)'
      <4> SUFFICES ASSUME NEW id \in Nat, NextID(a) <= id, Foreseen(id)
                   PROVE  Early(k)'
        OBVIOUS
      <4>1. PICK b \in Addrs : TimeOf(id) <= SwappedAt + Grace + Skew[b]
        <5>1. ~ (id <= last[addr[rdb]])
          BY <1>2, <1>3, <2>2, <3>1
        <5> QED
          BY <5>1 DEF Foreseen
      <4>2. /\ SwappedAt \in Nat /\ now \in Nat /\ Skew[a] \in Nat /\ Skew[b] \in Nat
            /\ Skew[b] <= Skew[a] + Ahead
        BY SwapTimes, FollowAssumption DEF TypeInv
      <4>3. TimeOf(NextID(a)) <= TimeOf(id) /\ TimeOf(id) \in Nat
        BY <1>2, TimeOfMonotone, TimeOfBounds
      <4>4. now <= SwappedAt + Grace + Ahead
        BY <1>2, <4>1, <4>2, <4>3, FollowAssumption
      <4> QED
        BY <1>1, <3>2, <4>2, <4>4, SettlingBounds, FollowAssumption DEF Early
    <3>4. after \in Nat /\ (lastID # None => lastID \in Nat)
      BY DEF TypeInv, TypeOK
    <3>5. lastID # None /\ respID'[k] <= lastID => Early(k)'
      BY <2>2, <3>3, <3>4 DEF DispInv, PositionInv
    <3>6. dpool # None /\ respID'[k] <= after => Early(k)'
      BY <2>2, <3>3, <3>4 DEF DispInv, PositionInv
    <3> QED
      BY <3>2, <3>5, <3>6
  <2> QED
    BY <2>1, <2>2
<1> QED
  BY <1>5, <1>6, <1>7 DEF DispInv

(* A switch: no query waits for the new backend yet.                       *)
LEMMA DispSwap ==
  ASSUME TypeInv, SwitchInv, DispInv, NEW a \in Addrs, SwapRedis(a)
  PROVE  DispInv'
<1>1. UNCHANGED <<now, qpc, xpool, respID, chan, last, lastID, after, dpool, dwake>>
  BY DEF SwapRedis, queryVars, streamVars, dispVars
<1>2. rdb \in Nat \ {0} /\ rdb' = rdb + 1 /\ addr \in Seq(Addrs) /\ addr' = Append(addr, a)
  BY FollowAssumption DEF SwapRedis, TypeInv, TypeOK, rdb
<1>3. \A p \in 1..rdb : addr'[p] = addr[p]
  BY <1>2 DEF rdb
<1>4. SwappedAt' = now
  BY <1>2 DEF SwapRedis, SwappedAt, TypeInv, TypeOK
<1>5. now \in Nat /\ SwappedAt \in Nat /\ SwappedAt <= now
  BY SwapTimes DEF TypeInv
<1>6. StreamInv'
  <2>1. ASSUME NEW k \in Keys, respID[k] # None
        PROVE  respID[k] <= last[addr'[xpool[k]]]
    BY <1>3, <2>1, RespondedPool DEF DispInv, StreamInv
  <2> QED
    BY <1>1, <2>1 DEF DispInv, StreamInv, ClockOf
<1>7. PositionInv'
  <2>1. ASSUME NEW id \in Nat, Given(id)
        PROVE  Given(id)' /\ Foreseen(id)'
    <3>1. PICK b \in Addrs : TimeOf(id) <= now + Skew[b]
      BY <2>1 DEF Given, ClockOf
    <3>2. TimeOf(id) <= now + Grace + Skew[b]
      BY <1>5, <3>1, TimeOfBounds, FollowAssumption
    <3> QED
      BY <1>1, <1>4, <3>1, <3>2 DEF Given, Foreseen, ClockOf
  <2>2. after \in Nat /\ (lastID # None => lastID \in Nat) /\ dwake \in Nat
    BY DEF TypeInv, TypeOK
  <2>3. lastID # None => Given(lastID)' /\ Foreseen(lastID)'
    BY <1>1, <2>1, <2>2 DEF DispInv, PositionInv
  <2>4. dpool # None => Given(after)' /\ Foreseen(after)'
    BY <1>1, <2>1, <2>2 DEF DispInv, PositionInv
  <2>5. dwake <= now + Grace + MaxBackoff
    BY <1>5, <2>2, SettlingBounds, FollowAssumption DEF DispInv, PositionInv
  <2> QED
    BY <1>1, <1>4, <1>5, <2>3, <2>4, <2>5, SettlingBounds, FollowAssumption DEF PositionInv
<1>8. HeardInv'
  <2>1. \A k \in Keys : ~ Pending(k)'
    BY <1>1, <1>2, FollowAssumption DEF Pending, TypeInv, TypeOK
  <2> QED
    BY <2>1 DEF HeardInv
<1> QED
  BY <1>6, <1>7, <1>8 DEF DispInv

(* The dispatcher issues XREAD.  With "$" it passes over what is in the    *)
(* stream, which happens only on its way to the new backend.               *)
LEMMA DispCall ==
  ASSUME TypeInv, SwitchInv, DispInv, DispatcherCall
  PROVE  DispInv'
<1>1. /\ UNCHANGED <<now, addr, madeAt, qpc, xpool, respID, chan, last, lastID, rdb, SwappedAt>>
      /\ dpool = None /\ dpool' = rdb /\ dwake' = 0
      /\ after' = IF lastID = None THEN last[addr[rdb]] ELSE lastID
  BY DEF DispatcherCall, DispatcherIdle, poolVars, queryVars, streamVars, rdb, SwappedAt
<1>2. rdb # None /\ addr[rdb] \in Addrs /\ last[addr[rdb]] \in Nat
  <2>1. rdb \in Nat /\ addr[rdb] \in Addrs
    BY PoolAddrs DEF TypeInv
  <2>2. rdb # None
    BY <2>1, FollowAssumption
  <2>3. last \in [Addrs -> Nat]
    BY DEF TypeInv, TypeOK
  <2> QED
    BY <2>1, <2>2, <2>3
<1>3. StreamInv'
  BY <1>1 DEF DispInv, StreamInv, ClockOf
<1>4. PositionInv'
  <2>2. Given(last[addr[rdb]]) /\ Foreseen(last[addr[rdb]])
    BY <1>2 DEF DispInv, StreamInv, Given, Foreseen
  <2>3. Given(after') /\ Foreseen(after')
    BY <1>1, <2>2 DEF DispInv, PositionInv
  <2>4. Given(after)' /\ Foreseen(after)'
    BY <1>1, <2>3 DEF Given, Foreseen, ClockOf
  <2>5. lastID' # None => Given(lastID)' /\ Foreseen(lastID)'
    BY <1>1 DEF DispInv, PositionInv, Given, Foreseen, ClockOf
  <2>6. dwake' <= SwappedAt + Grace + MaxBackoff
    BY <1>1, SwapTimes, SettlingBounds, FollowAssumption DEF TypeInv
  <2> QED
    BY <1>1, <1>2, <2>4, <2>5, <2>6 DEF PositionInv
<1>5. HeardInv'
  <2> SUFFICES ASSUME NEW k \in Keys, Pending(k)
               PROVE  /\ Early(k) \/ WroteAt(k) = now
                      /\ lastID # None /\ respID[k] <= lastID => Early(k)
                      /\ respID[k] <= after' => Early(k)
    BY <1>1 DEF HeardInv, Pending, Early, WroteAt
  <2>1. CASE lastID # None
    BY <1>1, <2>1 DEF DispInv, HeardInv
  <2>2. CASE lastID = None
    <3>1. now <= SwappedAt + Settling
      BY <1>1, <2>2, SwapTimes, SettlingBounds, FollowAssumption DEF DispInv, PositionInv, TypeInv
    <3>2. Early(k)
      BY <3>1, EarlyByTime DEF DispInv, Pending
    <3> QED
      BY <2>2, <3>2
  <2> QED
    BY <2>1, <2>2
<1> QED
  BY <1>3, <1>4, <1>5 DEF DispInv

(* XREAD fails: the pool was closed no longer ago than it was due. *)
LEMMA DispFail ==
  ASSUME TypeInv, SwitchInv, DispInv, DispatcherFail
  PROVE  DispInv'
<1>1. /\ UNCHANGED <<now, addr, madeAt, qpc, xpool, respID, chan, last, lastID, rdb, SwappedAt>>
      /\ dpool # None /\ dpool \in closed /\ dpool' = None /\ dwake' = now + backoff
  BY DEF DispatcherFail, Blocked, poolVars, queryVars, streamVars, rdb, SwappedAt
<1>2. now <= SwappedAt + Grace
  <2>1. rdb \in Nat \ {0} /\ dpool \in 1..(rdb - 1)
    BY <1>1, PoolAddrs DEF TypeInv, TypeOK
  <2>2. now <= madeAt[dpool + 1] + Grace
    BY <1>1, <2>1 DEF SwitchInv, GraceInv, ReplacedAt
  <2>3. dpool + 1 \in 1..rdb
    BY <2>1
  <2>4. madeAt[dpool + 1] <= SwappedAt
    BY <2>3 DEF SwitchInv, SwapOrder
  <2>5. now \in Nat /\ SwappedAt \in Nat /\ madeAt[dpool + 1] \in Nat
    BY <2>3, SwapTimes DEF TypeInv
  <2> QED
    BY <2>2, <2>4, <2>5, FollowAssumption
<1>3. StreamInv'
  BY <1>1 DEF DispInv, StreamInv, ClockOf
<1>4. PositionInv'
  <2>1. now + backoff <= SwappedAt + Grace + MaxBackoff /\ now <= SwappedAt + Grace + MaxBackoff
    <3>1. backoff \in Nat /\ backoff <= MaxBackoff
      BY SettlingBounds, FollowAssumption DEF TypeInv, TypeOK
    <3>2. now \in Nat /\ SwappedAt \in Nat
      BY SwapTimes DEF TypeInv
    <3> QED
      BY <1>2, <3>1, <3>2, SettlingBounds, FollowAssumption
  <2>2. lastID' # None => Given(lastID)' /\ Foreseen(lastID)'
    BY <1>1 DEF DispInv, PositionInv, Given, Foreseen, ClockOf
  <2> QED
    BY <1>1, <2>1, <2>2 DEF PositionInv
<1>5. HeardInv'
  BY <1>1 DEF DispInv, HeardInv, Pending, Early, WroteAt
<1> QED
  BY <1>3, <1>4, <1>5 DEF DispInv

(* XREAD returns: what it passes over it has routed, or it came through an *)
(* old pool.                                                               *)
LEMMA DispRead ==
  ASSUME TypeInv, SwitchInv, DispInv, DispatcherRead
  PROVE  DispInv'
<1> DEFINE id == last[addr[dpool]]
<1>1. /\ UNCHANGED <<now, addr, madeAt, qpc, xpool, respID, last, rdb, SwappedAt, dwake>>
      /\ dpool # None /\ dpool \notin closed /\ dpool' = None /\ lastID' = id
  BY DEF DispatcherRead, Blocked, Unread, poolVars, streamVars, rdb, SwappedAt
<1>2. dpool \in 1..rdb /\ addr[dpool] \in Addrs /\ id \in Nat /\ id # None
  BY <1>1, PoolAddrs, FollowAssumption DEF TypeInv, TypeOK
<1>3. TimeOf(id) <= now + Skew[addr[dpool]]
  BY <1>2 DEF DispInv, StreamInv, ClockOf
<1>4. dpool # rdb => TimeOf(id) <= SwappedAt + Grace + Skew[addr[dpool]]
  <2> SUFFICES ASSUME dpool # rdb PROVE TimeOf(id) <= SwappedAt + Grace + Skew[addr[dpool]]
    OBVIOUS
  <2>1. rdb \in Nat \ {0} /\ dpool + 1 \in 1..rdb
    BY <1>2, PoolAddrs DEF TypeInv
  <2>2. now <= madeAt[dpool + 1] + Grace
    BY <1>1 DEF SwitchInv, GraceInv, ReplacedAt
  <2>3. madeAt[dpool + 1] <= SwappedAt
    BY <2>1 DEF SwitchInv, SwapOrder
  <2>4. now \in Nat /\ SwappedAt \in Nat /\ madeAt[dpool + 1] \in Nat
    BY <2>1, SwapTimes DEF TypeInv
  <2>5. TimeOf(id) \in Nat /\ Skew[addr[dpool]] \in Nat
    BY <1>2, TimeOfBounds, FollowAssumption
  <2> HIDE DEF id
  <2> QED
    BY <1>3, <2>2, <2>3, <2>4, <2>5, FollowAssumption
<1>5. StreamInv'
  BY <1>1 DEF DispInv, StreamInv, ClockOf
<1>6. PositionInv'
  <2>1. Given(id) /\ Foreseen(id)
    BY <1>2, <1>3, <1>4 DEF Given, Foreseen, ClockOf
  <2>2. Given(lastID)' /\ Foreseen(lastID)'
    BY <1>1, <2>1 DEF Given, Foreseen, ClockOf
  <2>3. dwake' <= SwappedAt + Grace + MaxBackoff
    BY <1>1 DEF DispInv, PositionInv
  <2> QED
    BY <1>1, <1>2, <2>2, <2>3 DEF PositionInv
<1>7. HeardInv'
  <2> SUFFICES ASSUME NEW k \in Keys, Pending(k)'
               PROVE  /\ Early(k) \/ WroteAt(k) = now
                      /\ respID[k] <= id => Early(k)
    BY <1>1 DEF HeardInv, Early, WroteAt
  <2>1. /\ qpc[k] \in Waiting /\ xpool[k] = rdb /\ respID[k] # None
        /\ chan'[k] = None
    BY <1>1 DEF Pending
  <2>2. /\ chan[k] = None
        /\ ~ (addr[rdb] = addr[dpool] /\ respID[k] > after)
    BY <1>1, <2>1 DEF DispatcherRead
  <2>3. Pending(k)
    BY <2>1, <2>2 DEF Pending
  <2>4. Early(k) \/ WroteAt(k) = now
    BY <2>3 DEF DispInv, HeardInv
  <2>5. CASE addr[rdb] = addr[dpool]
    <3>1. respID[k] \in Nat /\ after \in Nat
      BY <2>1, RespondedPool DEF TypeInv, TypeOK
    <3>2. respID[k] <= after
      BY <2>2, <2>5, <3>1
    <3> QED
      BY <1>1, <2>3, <3>2 DEF DispInv, HeardInv
  <2>6. CASE addr[rdb] # addr[dpool]
    BY <1>2, <1>4, <2>1, <2>4, <2>6, EarlyByClock
  <2> QED
    BY <2>4, <2>5, <2>6
<1> QED
  BY <1>5, <1>6, <1>7 DEF DispInv

(* Time passes: the dispatcher is asleep, or blocked on an open pool whose *)
(* stream has nothing for it.                                              *)
LEMMA DispTick ==
  ASSUME TypeInv, SwitchInv, SwitchInv', DispInv, Tick
  PROVE  DispInv'
<1>1. /\ UNCHANGED <<addr, madeAt, closed, qpc, xpool, respID, chan, last, lastID, after, dpool,
                     dwake, rdb, SwappedAt>>
      /\ now' \in {now, now + 1}
  BY DEF Tick, poolVars, queryVars, streamVars, dispVars, rdb, SwappedAt
<1>2. now \in Nat /\ SwappedAt \in Nat /\ dwake \in Nat
  BY SwapTimes DEF TypeInv, TypeOK
<1>3. StreamInv'
  <2>1. \A a \in Addrs : TimeOf(last[a]) <= now' + Skew[a]
    <3> SUFFICES ASSUME NEW a \in Addrs PROVE TimeOf(last[a]) <= now' + Skew[a]
      OBVIOUS
    <3>1. TimeOf(last[a]) <= now + Skew[a]
      BY DEF DispInv, StreamInv, ClockOf
    <3>2. TimeOf(last[a]) \in Nat /\ Skew[a] \in Nat
      BY TimeOfBounds, FollowAssumption DEF TypeInv, TypeOK
    <3> QED
      BY <1>1, <1>2, <3>1, <3>2
  <2> QED
    BY <1>1, <2>1 DEF DispInv, StreamInv, ClockOf, TimeOf
<1>4. dpool = None => now < dwake
  BY <1>2 DEF Tick, Ready, DispatcherIdle
<1>5. PositionInv'
  <2>1. \A id \in Nat : Given(id) => Given(id)'
    <3> SUFFICES ASSUME NEW id \in Nat, Given(id) PROVE Given(id)'
      OBVIOUS
    <3>1. PICK a \in Addrs : TimeOf(id) <= now + Skew[a]
      BY DEF Given, ClockOf
    <3>2. TimeOf(id) <= now' + Skew[a]
      BY <1>1, <1>2, <3>1, TimeOfBounds, FollowAssumption
    <3> QED
      BY <3>2 DEF Given, ClockOf, TimeOf
  <2>2. after \in Nat /\ (lastID # None => lastID \in Nat)
    BY DEF TypeInv, TypeOK
  <2>3. lastID # None => Given(lastID)' /\ Foreseen(lastID)'
    BY <1>1, <2>1, <2>2 DEF DispInv, PositionInv, Foreseen
  <2>4. dpool # None => Given(after)' /\ Foreseen(after)'
    BY <1>1, <2>1, <2>2 DEF DispInv, PositionInv, Foreseen
  <2>5. dpool = None => now' <= SwappedAt + Grace + MaxBackoff
    BY <1>1, <1>2, <1>4, SettlingBounds, FollowAssumption DEF DispInv, PositionInv
  <2>6. dwake <= SwappedAt + Grace + MaxBackoff
    BY DEF DispInv, PositionInv
  <2> QED
    BY <1>1, <2>3, <2>4, <2>5, <2>6 DEF PositionInv
<1>6. HeardInv'
  <2> SUFFICES ASSUME NEW k \in Keys, Pending(k)
               PROVE  /\ Early(k)
                      /\ lastID # None /\ respID[k] <= lastID => Early(k)
                      /\ dpool # None /\ respID[k] <= after => Early(k)
    BY <1>1 DEF HeardInv, Pending, Early, WroteAt, TimeOf
  <2>1. respID[k] # None /\ xpool[k] = rdb /\ respID[k] \in Nat /\ addr[rdb] \in Addrs
    BY RespondedPool DEF Pending
  <2>2. CASE dpool = None
    <3>1. now <= SwappedAt + Settling
      BY <1>2, <1>4, <2>2, SettlingBounds, FollowAssumption DEF DispInv, PositionInv
    <3> QED
      BY <2>1, <3>1, EarlyByTime DEF DispInv
  <2>3. CASE dpool # None /\ dpool # rdb
    <3>1. dpool \in 1..rdb /\ rdb \in Nat \ {0} /\ dpool + 1 \in 1..rdb
      BY <2>3, PoolAddrs DEF TypeInv, TypeOK
    <3>2. now <= madeAt[dpool + 1] + Grace
      BY <2>3 DEF SwitchInv, GraceInv, ReplacedAt
    <3>3. madeAt[dpool + 1] <= SwappedAt /\ madeAt[dpool + 1] \in Nat
      BY <1>2, <3>1, SwapTimes DEF SwitchInv, SwapOrder, TypeInv
    <3>4. now <= SwappedAt + Settling
      BY <1>2, <3>2, <3>3, SettlingBounds, FollowAssumption
    <3> QED
      BY <2>1, <3>4, EarlyByTime DEF DispInv
  <2>4. CASE dpool # None /\ dpool = rdb
    <3>1. last[addr[rdb]] <= after /\ last[addr[rdb]] \in Nat /\ after \in Nat
      <4>1. rdb \notin closed
        BY PoolAddrs DEF TypeInv, TypeOK
      <4>2. ~ (last[addr[rdb]] > after)
        BY <2>4, <4>1 DEF Tick, Ready, Blocked, Unread
      <4> QED
        BY <2>1, <4>2 DEF TypeInv, TypeOK
    <3>2. respID[k] <= last[addr[rdb]]
      BY <2>1 DEF DispInv, StreamInv
    <3>3. respID[k] <= after
      BY <2>1, <3>1, <3>2
    <3> QED
      BY <2>4, <3>3 DEF DispInv, HeardInv
  <2> QED
    BY <2>2, <2>3, <2>4
<1> QED
  BY <1>3, <1>5, <1>6 DEF DispInv

(* Every step keeps what is known of the dispatcher's position. *)
LEMMA DispStep == TypeInv /\ TypeInv' /\ SwitchInv /\ SwitchInv' /\ DispInv /\ [Next]_vars => DispInv'
<1> SUFFICES ASSUME TypeInv, TypeInv', SwitchInv, SwitchInv', DispInv, [Next]_vars
             PROVE  DispInv'
  OBVIOUS
<1>1. ASSUME UNCHANGED <<now, addr, madeAt, last, lastID, after, dpool, dwake, qpc, xpool, respID, chan>>
      PROVE  DispInv'
  <2>1. rdb' = rdb
    BY <1>1 DEF rdb
  <2>2. \A k \in Keys : Pending(k)' => Pending(k)
    BY <1>1, <2>1 DEF Pending
  <2> QED
    BY <1>1, <2>2, DispKept
<1>2. ASSUME NEW k \in Keys, Resolve(k)
      PROVE  DispInv'
  <2>a. UNCHANGED <<now, addr, madeAt, last, lastID, after, dpool, dwake, rdb>>
    BY <1>2 DEF Resolve, Ask, XAddWrite, SelectAck, SelectXAddFail, SelectResponse, SelectTimeout,
                Settle, poolVars, streamVars, dispVars, rdb
  <2>b. \A j \in Keys \ {k} : qpc'[j] = qpc[j] /\ xpool'[j] = xpool[j]
    BY <1>2 DEF Resolve, Ask, XAddWrite, SelectAck, SelectXAddFail, SelectResponse, SelectTimeout,
                Settle, TypeInv, TypeOK
  <2>c. \A j \in Keys \ {k} : respID'[j] = respID[j] /\ chan'[j] = chan[j]
    BY <1>2 DEF Resolve, Ask, XAddWrite, SelectAck, SelectXAddFail, SelectResponse, SelectTimeout,
                Settle, TypeInv, TypeOK
  <2>1. /\ UNCHANGED <<now, addr, madeAt, last, lastID, after, dpool, dwake, rdb>>
        /\ \A j \in Keys \ {k} : /\ qpc'[j] = qpc[j] /\ xpool'[j] = xpool[j]
                                 /\ respID'[j] = respID[j] /\ chan'[j] = chan[j]
    BY <2>a, <2>b, <2>c
  <2>2. CASE Ask(k)
    <3>1. respID'[k] = None
      BY <2>2 DEF Ask, TypeInv, QueryShape
    <3> QED
      BY <2>1, <3>1, DispKept DEF Pending
  <2>3. CASE XAddWrite(k)
    BY <1>1, <2>3 DEF XAddWrite, poolVars, streamVars, dispVars
  <2>4. CASE SelectAck(k)
    <3>1. qpc[k] \in Waiting /\ UNCHANGED <<xpool, respID, chan>>
      BY <2>4 DEF SelectAck, Waiting
    <3> QED
      BY <2>1, <3>1, DispKept DEF Pending
  <2>5. ASSUME Settle(k)
        PROVE  DispInv'
    <3>1. respID'[k] = None
      BY <2>5 DEF Settle, TypeInv, TypeOK
    <3> QED
      BY <2>1, <3>1, DispKept DEF Pending
  <2> QED
    BY <1>2, <2>2, <2>3, <2>4, <2>5 DEF Resolve, SelectXAddFail, SelectResponse, SelectTimeout
<1>3. ASSUME NEW k \in Keys, Respond(k)
      PROVE  DispInv'
  <2> DEFINE a == addr[xpool[k]]
  <2>1. xpool[k] \in 1..rdb
    BY <1>3, FollowAssumption DEF Respond, TypeInv, TypeOK, QueryShape
  <2>2. a \in Addrs
    BY <2>1, PoolAddrs DEF TypeInv
  <2>3. /\ XAddResponse(a)
        /\ respID' = [respID EXCEPT ![k] = NextID(a)]
        /\ UNCHANGED <<now, addr, madeAt, lastID, after, dpool, dwake, qpc, xpool, chan>>
    BY <1>3 DEF Respond, poolVars, dispVars
  <2>4. \A j \in Keys : \/ respID'[j] = respID[j]
                        \/ xpool[j] \in 1..rdb /\ a = addr[xpool[j]] /\ respID'[j] = NextID(a)
    <3>1. \A j \in Keys \ {k} : respID'[j] = respID[j]
      BY <2>3 DEF TypeInv, TypeOK
    <3>2. respID'[k] = NextID(a)
      BY <2>3 DEF TypeInv, TypeOK
    <3> QED
      BY <2>1, <3>1, <3>2
  <2> HIDE DEF a
  <2> QED
    BY <2>2, <2>3, <2>4, DispRespond
<1>4. ASSUME NEW a \in Addrs, RespondForeign(a)
      PROVE  DispInv'
  <2>1. /\ XAddResponse(a)
        /\ UNCHANGED <<now, addr, madeAt, lastID, after, dpool, dwake, qpc, xpool, chan, respID>>
    BY <1>4 DEF RespondForeign, poolVars, queryVars, dispVars
  <2>2. \A k \in Keys : \/ respID'[k] = respID[k]
                        \/ xpool[k] \in 1..rdb /\ a = addr[xpool[k]] /\ respID'[k] = NextID(a)
    BY <2>1
  <2>3. TypeInv /\ TypeInv' /\ DispInv
    OBVIOUS
  <2> QED
    BY <2>1, <2>2, <2>3, DispRespond
<1>5. ASSUME NEW p \in 1..rdb, CloseOld(p)
      PROVE  DispInv'
  BY <1>1, <1>5 DEF CloseOld, queryVars, streamVars, dispVars
<1>6. ASSUME NEW k \in Keys, SubscriberReceive(k)
      PROVE  DispInv'
  BY <1>1, <1>6 DEF SubscriberReceive, poolVars, queryVars, streamVars, dispVars
<1>7. CASE Subscribe \/ SubscriberLost \/ UNCHANGED vars
  BY <1>1, <1>7 DEF Subscribe, SubscriberLost, vars, poolVars, queryVars, streamVars, dispVars
<1> QED
  BY <1>2, <1>3, <1>4, <1>5, <1>6, <1>7, DispSwap, DispCall, DispRead, DispFail, DispTick DEF Next

(* After a switch the dispatcher is deaf to the new backend while it sits  *)
(* on the old pool, sleeps its backoff, and asks for IDs above one of      *)
(* another node's clock.  From then on it passes over no response: no      *)
(* query times out on one that was written in time, later than the grace   *)
(* and the longer of backoff and clock difference after the switch.        *)
THEOREM HeardAgain == Spec => Heard
<1>1. ASSUME TypeInv, DispInv, [Next]_vars, NEW k \in Keys,
             qpc[k] \in Waiting, chan[k] = None, xpool[k] = rdb, respID[k] # None,
             WroteAt(k) < now
      PROVE  WroteAt(k) <= SwappedAt + Settling
  <2>1. Early(k) \/ WroteAt(k) = now
    BY <1>1 DEF DispInv, HeardInv, Pending
  <2>2. now \in Nat
    BY <1>1, SwapTimes DEF TypeInv
  <2> QED
    BY <1>1, <2>1, <2>2 DEF Early
<1>2. TypeInv /\ DispInv /\ [Next]_vars =>
        [\A k \in Keys :
           /\ qpc[k] \in Waiting /\ qpc'[k] = "idle" /\ chan[k] = None
           /\ xpool[k] = rdb /\ respID[k] # None
           /\ WroteAt(k) < now
           => WroteAt(k) <= SwappedAt + Settling]_vars
  BY <1>1
<1> QED
  BY <1>2, TypeInit, TypeStep, SwitchInit, SwitchStep, DispInit, DispStep, PTL DEF Spec, Heard

=============================================================================
