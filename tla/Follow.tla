------------------------------- MODULE Follow -------------------------------
(***************************************************************************)
(* Switching the client's Redis backend while it runs: RunFollow           *)
(* (internal/client/follow.go) and SwapRedis, with what a switch meets in  *)
(* internal/client/client.go: requests in flight with their block timers,  *)
(* the dispatcher and the subscriber blocked on the old backend, and the   *)
(* local cache.                                                            *)
(*                                                                         *)
(* A redis.Client is a pool of connections to one address; every switch    *)
(* makes a new pool, numbered in order.  Each address has a response       *)
(* stream of its own whose IDs come from the clock of its node.            *)
(*                                                                         *)
(* This model is timed.  Timers are exact, and what is ready to run runs   *)
(* before the next tick; a server takes as long as it likes.  Redis        *)
(* answers; module Client has its failures, the trimming of streams, and   *)
(* the coalescing of queries: here a key stands for its one flight.        *)
(***************************************************************************)
EXTENDS Integers, Sequences

CONSTANTS Keys,          \* keys asked for
          Addrs,         \* backend addresses
          Skew,          \* [Addrs -> how far the clock of the node is ahead]
          Ahead,         \* the most it is ahead of another node's
          Block,         \* Client.block
          Grace,         \* delay before the old pool is closed (1 s)
          Pause,         \* first backoff, and the subscriber's pause (1 s)
          BackoffLimit,  \* the backoff doubles while below this (5 s)
          Interval,      \* pause of RunFollow between two polls
          PerTick,       \* bound: entries of a stream with the same time
          MaxResps,      \* bound: responses written, to other clients too
          MaxPools,      \* bound: pools
          MaxNow,        \* bound: time
          None           \* no value; lastID "$"

ASSUME FollowAssumption ==
  /\ Skew \in [Addrs -> Nat]
  /\ Ahead \in Nat /\ \A a, b \in Addrs : Skew[a] <= Skew[b] + Ahead
  /\ Block \in Nat \ {0} /\ Grace \in Nat \ {0} /\ Interval \in Nat \ {0}
  /\ Pause \in Nat \ {0} /\ BackoffLimit \in Nat
  /\ PerTick \in Nat \ {0} /\ MaxResps \in Nat /\ MaxPools \in Nat \ {0} /\ MaxNow \in Nat
  /\ None \notin Addrs \cup Int

VARIABLES
  now,       \* the time
  addr,      \* <<address of every pool made so far>>; the last is Client.rdb
  madeAt,    \* <<when each became Client.rdb>>
  closed,    \* pools that have been closed
  qpc,       \* [Keys -> where resolve() is]
  askedAt,   \* [Keys -> when resolve() began]
  timer,     \* [Keys -> when its running block timer fires]
  xpool,     \* [Keys -> pool its XADD goroutine took from rdbGet()]
  written,   \* [Keys -> the request is in the stream]
  respID,    \* [Keys -> stream ID of its response]
  chan,      \* [Keys -> pool the delivered response came through]
  last,      \* [Addrs -> last ID of that backend's dns:resp]
  resps,     \* number of responses written so far
  dpool,     \* pool on which the dispatcher is blocked, None when it is not
  after,     \* the ID its XREAD names
  lastID,    \* runDispatcher's lastID
  dwake,     \* when it goes on
  backoff,   \* runDispatcher's backoff
  spool,     \* pool on which the subscriber is blocked, None when it is not
  swake,     \* when it goes on
  local      \* [Keys -> cached entry: its pool, and when it was set]

poolVars  == <<addr, madeAt, closed>>
queryVars == <<qpc, askedAt, timer, xpool, written, respID, chan>>
dispVars  == <<dpool, after, lastID, dwake, backoff>>
subVars   == <<spool, swake>>
streamVars == <<last, resps>>
vars == <<now, poolVars, queryVars, streamVars, dispVars, subVars, local>>

-----------------------------------------------------------------------------

rdb == Len(addr)
SwappedAt == madeAt[rdb]
ReplacedAt(p) == madeAt[p + 1]

(* A stream ID <ms>-<seq>: the node's clock, then a sequence number.       *)
ClockOf(a) == now + Skew[a]
NextID(a) == IF last[a] >= PerTick * ClockOf(a) THEN last[a] + 1 ELSE PerTick * ClockOf(a)
TimeOf(id) == id \div PerTick
(* The time, by this model's clock, at which the response was written.     *)
WroteAt(k) == TimeOf(respID[k]) - Skew[addr[xpool[k]]]

Waiting == {"sending", "acked"}

(* The selects of resolve() in which a block timer runs. *)
OuterTimerOnly == {"sending"}

Timed == Waiting

Init ==
  /\ now = 0
  /\ \E a \in Addrs : addr = <<a>>
  /\ madeAt = <<0>>
  /\ closed = {}
  /\ qpc = [k \in Keys |-> "idle"]
  /\ askedAt = [k \in Keys |-> 0]
  /\ timer = [k \in Keys |-> 0]
  /\ xpool = [k \in Keys |-> None]
  /\ written = [k \in Keys |-> FALSE]
  /\ respID = [k \in Keys |-> None]
  /\ chan = [k \in Keys |-> None]
  /\ last = [a \in Addrs |-> 0]
  /\ resps = 0
  /\ dpool = None /\ after = 0 /\ lastID = None /\ dwake = 0 /\ backoff = Pause
  /\ spool = None /\ swake = 0
  /\ local = [k \in Keys |-> None]

-----------------------------------------------------------------------------
(* RunFollow and SwapRedis.                                                *)

(* A poll finds a node whose backend is not the current one, and the new   *)
(* pool answers a ping.  Any other poll changes nothing: an unknown node,  *)
(* the same address, or a failed ping, after which the pool is closed.     *)
(* current is empty at first, so the first poll switches even when it      *)
(* finds the address that is in use.                                       *)
Moved(a) ==
  /\ rdb < MaxPools
  /\ rdb = 1 \/ (addr[rdb] # a /\ now >= SwappedAt + Interval)

SwapKeepsLocal(a) ==
  /\ Moved(a)
  /\ addr' = Append(addr, a)
  /\ madeAt' = Append(madeAt, now)
  /\ UNCHANGED <<now, closed, queryVars, streamVars, dispVars, subVars, local>>

SwapRedis(a) ==
  /\ Moved(a)
  /\ addr' = Append(addr, a)
  /\ madeAt' = Append(madeAt, now)
  /\ local' = [k \in Keys |-> None]
  /\ UNCHANGED <<now, closed, queryVars, streamVars, dispVars, subVars>>

(* The AfterFunc of SwapRedis. *)
CloseDue(p) == p < rdb /\ p \notin closed /\ now >= ReplacedAt(p) + Grace

CloseOld(p) ==
  /\ CloseDue(p)
  /\ closed' = closed \cup {p}
  /\ UNCHANGED <<now, addr, madeAt, queryVars, streamVars, dispVars, subVars, local>>

-----------------------------------------------------------------------------
(* resolve(), from the registration of the request to its return.          *)

(* localGet finds no entry, or an expired one which it deletes; resolve()  *)
(* starts its timer and the XADD goroutine, which takes the pool that is   *)
(* active when it runs.                                                    *)
Ask(k) ==
  /\ qpc[k] = "idle"
  /\ local' = [local EXCEPT ![k] = None]
  /\ qpc' = [qpc EXCEPT ![k] = "sending"]
  /\ askedAt' = [askedAt EXCEPT ![k] = now]
  /\ timer' = [timer EXCEPT ![k] = now + Block]
  /\ xpool' = [xpool EXCEPT ![k] = rdb]
  /\ UNCHANGED <<now, poolVars, written, respID, chan, streamVars, dispVars, subVars>>

XAddWrite(k) ==
  /\ xpool[k] # None /\ xpool[k] \notin closed
  /\ ~written[k]
  /\ written' = [written EXCEPT ![k] = TRUE]
  /\ UNCHANGED <<now, poolVars, qpc, askedAt, timer, xpool, respID, chan, streamVars,
                 dispVars, subVars, local>>

(* The confirmation: the wait goes on with a new timer. *)
SelectAck(k) ==
  /\ qpc[k] = "sending"
  /\ written[k] /\ xpool[k] \notin closed
  /\ qpc' = [qpc EXCEPT ![k] = "acked"]
  /\ timer' = [timer EXCEPT ![k] = now + Block]
  /\ UNCHANGED <<now, poolVars, askedAt, xpool, written, respID, chan, streamVars,
                 dispVars, subVars, local>>

(* resolve() returns.  What its request still brings about is foreign      *)
(* traffic from then on.                                                   *)
Settle(k) ==
  /\ qpc' = [qpc EXCEPT ![k] = "idle"]
  /\ askedAt' = [askedAt EXCEPT ![k] = 0]
  /\ timer' = [timer EXCEPT ![k] = 0]
  /\ xpool' = [xpool EXCEPT ![k] = None]
  /\ written' = [written EXCEPT ![k] = FALSE]
  /\ respID' = [respID EXCEPT ![k] = None]
  /\ chan' = [chan EXCEPT ![k] = None]
  /\ UNCHANGED <<now, poolVars, streamVars, dispVars, subVars>>

(* The XADD fails because its pool was closed under it. *)
XAddBroken(k) == qpc[k] = "sending" /\ xpool[k] \in closed

SelectXAddFail(k) == XAddBroken(k) /\ Settle(k) /\ UNCHANGED local

(* localSet: the entry is replaced unless it has the newer resolved_at.    *)
(* Stamps of two nodes' clocks compare either way.                         *)
LocalSet(k, pool) ==
  \/ local' = [local EXCEPT ![k] = [pool |-> pool, at |-> now]]
  \/ local[k] # None /\ UNCHANGED local

(* The response is received and the answer cached. *)
SelectResponse(k) ==
  /\ qpc[k] \in Waiting /\ chan[k] # None
  /\ LocalSet(k, chan[k])
  /\ Settle(k)

TimerFired(k) == qpc[k] \in Timed /\ now >= timer[k]

SelectTimeout(k) == TimerFired(k) /\ Settle(k) /\ UNCHANGED local

-----------------------------------------------------------------------------
(* The nodes: a server answers, sooner or later or never; other clients    *)
(* get their responses on the same stream.                                 *)

XAddResponse(a) ==
  /\ resps < MaxResps
  /\ TimeOf(NextID(a)) = ClockOf(a)
  /\ resps' = resps + 1
  /\ last' = [last EXCEPT ![a] = NextID(a)]

Respond(k) ==
  /\ written[k] /\ respID[k] = None
  /\ XAddResponse(addr[xpool[k]])
  /\ respID' = [respID EXCEPT ![k] = NextID(addr[xpool[k]])]
  /\ UNCHANGED <<now, poolVars, qpc, askedAt, timer, xpool, written, chan,
                 dispVars, subVars, local>>

RespondForeign(a) ==
  /\ XAddResponse(a)
  /\ UNCHANGED <<now, poolVars, queryVars, dispVars, subVars, local>>

-----------------------------------------------------------------------------
(* The dispatcher.  "$" is the end of the stream when XREAD is issued; a   *)
(* concrete lastID is kept from whichever backend it came.                 *)

DispatcherIdle == dpool = None /\ now >= dwake

DispatcherPinned ==
  /\ DispatcherIdle
  /\ dpool' = 1
  /\ after' = IF lastID = None THEN last[addr[1]] ELSE lastID
  /\ dwake' = 0
  /\ UNCHANGED <<now, poolVars, queryVars, streamVars, lastID, backoff, subVars, local>>

DispatcherCall ==
  /\ DispatcherIdle
  /\ dpool' = rdb
  /\ after' = IF lastID = None THEN last[addr[rdb]] ELSE lastID
  /\ dwake' = 0
  /\ UNCHANGED <<now, poolVars, queryVars, streamVars, lastID, backoff, subVars, local>>

Blocked == dpool # None
Unread == dpool \notin closed /\ last[addr[dpool]] > after

(* The whole batch is routed to the requests that wait. *)
DispatcherRead ==
  /\ Blocked /\ Unread
  /\ chan' = [k \in Keys |->
                IF /\ qpc[k] \in Waiting /\ respID[k] # None
                   /\ addr[xpool[k]] = addr[dpool] /\ respID[k] > after
                THEN dpool ELSE chan[k]]
  /\ lastID' = last[addr[dpool]]
  /\ backoff' = Pause
  /\ dpool' = None /\ after' = 0
  /\ UNCHANGED <<now, poolVars, qpc, askedAt, timer, xpool, written, respID, streamVars, dwake,
                 subVars, local>>

(* XREAD fails because its pool was closed. *)
MaxBackoff == IF Pause < BackoffLimit THEN 2 * BackoffLimit - 1 ELSE Pause

BackoffUncapped == 2 * backoff

BackoffNext == IF backoff < BackoffLimit THEN 2 * backoff ELSE backoff

DispatcherFail ==
  /\ Blocked /\ dpool \in closed
  /\ dpool' = None /\ after' = 0
  /\ dwake' = now + backoff
  /\ backoff' = BackoffNext
  /\ UNCHANGED <<now, poolVars, queryVars, streamVars, lastID, subVars, local>>

-----------------------------------------------------------------------------
(* The subscriber; its channel is closed together with the pool.           *)

SubscriberIdle == spool = None /\ now >= swake

Subscribe ==
  /\ SubscriberIdle
  /\ spool' = rdb
  /\ swake' = 0
  /\ UNCHANGED <<now, poolVars, queryVars, streamVars, dispVars, local>>

SubscriberReceive(k) ==
  /\ spool # None /\ spool \notin closed
  /\ LocalSet(k, spool)
  /\ UNCHANGED <<now, poolVars, queryVars, streamVars, dispVars, subVars>>

SubscriberLost ==
  /\ spool # None /\ spool \in closed
  /\ spool' = None
  /\ swake' = now + Pause
  /\ UNCHANGED <<now, poolVars, queryVars, streamVars, dispVars, local>>

-----------------------------------------------------------------------------
(* Time passes when nothing is ready to run.                               *)

Ready ==
  \/ \E p \in 1..rdb : CloseDue(p)
  \/ \E k \in Keys : XAddBroken(k) \/ chan[k] # None \/ TimerFired(k)
  \/ DispatcherIdle \/ SubscriberIdle
  \/ Blocked /\ (dpool \in closed \/ Unread)
  \/ spool \in closed

Tick ==
  /\ ~Ready
  /\ now' = IF now < MaxNow THEN now + 1 ELSE now
  /\ UNCHANGED <<poolVars, queryVars, streamVars, dispVars, subVars, local>>

Resolve(k) ==
  \/ Ask(k) \/ XAddWrite(k) \/ SelectAck(k) \/ SelectXAddFail(k)
  \/ SelectResponse(k) \/ SelectTimeout(k)

Next ==
  \/ \E a \in Addrs : SwapRedis(a) \/ RespondForeign(a)
  \/ \E p \in 1..rdb : CloseOld(p)
  \/ \E k \in Keys : Resolve(k) \/ Respond(k) \/ SubscriberReceive(k)
  \/ DispatcherCall \/ DispatcherRead \/ DispatcherFail
  \/ Subscribe \/ SubscriberLost
  \/ Tick

Spec == Init /\ [][Next]_vars

-----------------------------------------------------------------------------

(* Every variable keeps its shape; the backoff stays within twice its      *)
(* limit, and only pools that were replaced are ever closed.               *)
TypeOK ==
  /\ now \in 0..MaxNow
  /\ addr \in Seq(Addrs) /\ rdb \in 1..MaxPools
  /\ madeAt \in Seq(0..now) /\ Len(madeAt) = rdb
  /\ closed \subseteq 1..(rdb - 1)
  /\ qpc \in [Keys -> Waiting \cup {"idle"}]
  /\ askedAt \in [Keys -> 0..now]
  /\ timer \in [Keys -> Nat]
  /\ xpool \in [Keys -> 1..rdb \cup {None}]
  /\ written \in [Keys -> BOOLEAN]
  /\ respID \in [Keys -> Nat \cup {None}]
  /\ chan \in [Keys -> 1..rdb \cup {None}]
  /\ last \in [Addrs -> Nat] /\ resps \in 0..MaxResps
  /\ dpool \in 1..rdb \cup {None} /\ after \in Nat /\ lastID \in Nat \cup {None}
  /\ dwake \in Nat /\ backoff \in Pause..MaxBackoff
  /\ spool \in 1..rdb \cup {None} /\ swake \in Nat
  /\ local \in [Keys -> [pool : 1..rdb, at : 0..now] \cup {None}]

(* How long a query waits, whatever switches and lost responses it meets:  *)
(* the block time while its XADD is not confirmed.  The confirmation       *)
(* starts a second timer (client.go:307), and then it is up to twice the   *)
(* block time.  block_time is documented as the whole wait (config.go:22,  *)
(* config.client.example.yaml:10), which holds for the first part only.    *)
WaitBounded ==
  \A k \in Keys :
    /\ qpc[k] = "sending" => now <= askedAt[k] + Block
    /\ qpc[k] = "acked" => now <= askedAt[k] + 2 * Block

(* SwapRedis clears the local cache, but answers of the old backend that   *)
(* were in flight, and its last pushes, are cached after that.  They come  *)
(* no later than the closing of the old pool: nothing cached before the    *)
(* switch stays, and nothing of the old backend enters after the grace.    *)
OldAnswersBounded ==
  \A k \in Keys : local[k] # None /\ local[k].pool # rdb =>
     /\ local[k].at >= SwappedAt
     /\ local[k].at <= ReplacedAt(local[k].pool) + Grace

(* The grace, then the longer of the backoff and the difference of clocks. *)
Settling == Grace + IF Ahead > MaxBackoff THEN Ahead ELSE MaxBackoff

(* After a switch the client is deaf to the new backend for a while: the   *)
(* dispatcher sits on the old pool until it is closed, sleeps its backoff, *)
(* and then asks for IDs above one that another node's clock gave out.     *)
(* The while is bounded: a query never times out on a response written to  *)
(* the backend in use, in time, later than Settling after the switch.      *)
Heard ==
  [][\A k \in Keys :
       /\ qpc[k] \in Waiting /\ qpc'[k] = "idle" /\ chan[k] = None
       /\ xpool[k] = rdb /\ respID[k] # None
       /\ WroteAt(k) < now
       => WroteAt(k) <= SwappedAt + Settling]_vars

=============================================================================
