------------------------------- MODULE Client -------------------------------
(***************************************************************************)
(* The LAN-side client of redis-dns (internal/client/client.go): the       *)
(* expiry-aware local cache, the coalescing of identical queries with      *)
(* singleflight, the pending-request table that routes responses by        *)
(* request ID, the single dispatcher goroutine that reads the response     *)
(* stream, and the subscriber that warms the cache from pushed updates.    *)
(*                                                                         *)
(* Goroutines: one per LAN query (pc[q]), one XADD sender per leading      *)
(* query (xadd[q]), the dispatcher (dpc) and the subscriber.  Every action *)
(* is what one goroutine does between two points where another one can     *)
(* observe or change shared state.  A query that leads a flight uses its   *)
(* own name as the request ID: newID() draws 128 random bits, so IDs are   *)
(* unique.  Time is abstracted: a timer may fire at any moment, a cache    *)
(* entry may pass its expiry at any moment.                                *)
(*                                                                         *)
(* The rest of the world (server, other clients, Redis) appears here only  *)
(* through the Env actions on the two streams and the push channel; module *)
(* Relay puts the real server in their place.                              *)
(***************************************************************************)
EXTENDS Naturals, Sequences

CONSTANTS Queries,    \* LAN queries; also the request IDs of this client
          Keys,       \* cache keys dns:cache:<name>:<type>
          Foreign,    \* IDs on the response stream no query of this client has:
                      \* those of other clients, and of unparsable entries
          Wires,      \* packed answers; w.key is the key w answers
          Stamps,     \* resolved_at timestamps (server wall clock, ns)
          ReadCount,  \* XREAD COUNT (100 in the code)
          MaxSends,   \* bound: times one request may be written to dns:req
                      \* (1 = go-redis never re-sends an XADD)
          UniqueResp, \* TRUE: at most one response per request ID
          MaxResps,   \* bound: length of the response stream
          MaxPushes,  \* bound: updates queued for the subscriber
          None        \* no value: Go's nil / missing map key / lastID "$"

ASSUME ClientAssumption ==
  /\ Stamps \subseteq Nat
  /\ ReadCount \in Nat \ {0}
  /\ MaxSends \in Nat \ {0}
  /\ UniqueResp \in BOOLEAN
  /\ MaxResps \in Nat
  /\ MaxPushes \in Nat
  /\ Queries \cap Foreign = {}
  /\ \A w \in Wires : w.key \in Keys
  /\ None \notin Queries \cup Keys \cup Foreign \cup Wires \cup Nat

VARIABLES
  pc,       \* [Queries -> where the query goroutine is]
  key,      \* [Queries -> the key it asks for]
  result,   \* [Queries -> the outcome it has obtained, if any]
  local,    \* Client.local: the local cache
  sf,       \* Client.sf: the query leading the flight for a key
  waits,    \* Client.waits: registered request IDs
  chan,     \* the one-slot channel of every request ID
  xadd,     \* [Queries -> state of the goroutine that XADDs the request]
  sent,     \* [Queries -> times the request was written to dns:req]
  reqs,     \* stream dns:req, as its whole history
  resps,    \* stream dns:resp, as its whole history
  trimmed,  \* number of responses MAXLEN has already dropped
  dpc,      \* where the dispatcher goroutine is
  lastID,   \* its lastID: None is "$", else a stream position
  cur,      \* position of the last response of its batch already taken
  upto,     \* position of the last response of its batch
  pushes    \* updates on their way to the subscriber

queryVars == <<pc, key, result, sf>>
routeVars == <<waits, chan>>
sendVars  == <<xadd, sent>>
dispVars  == <<dpc, lastID, cur, upto>>
respVars  == <<resps, trimmed>>
clientVars == <<pc, key, result, local, sf, waits, chan, xadd, sent,
                dpc, lastID, cur, upto>>
vars == <<clientVars, reqs, resps, trimmed, pushes>>

-----------------------------------------------------------------------------
(* Data.  An error response and an empty one (no wire) are treated alike.  *)

Entry == [wire : Wires, resolvedAt : Stamps, expired : BOOLEAN]
Request == [id : Queries, key : Keys]
Response == [id : Queries, wire : Wires, resolvedAt : Stamps]
              \cup [id : Queries \cup Foreign, wire : {None}, resolvedAt : {None}]
Update == [key : Keys, wire : Wires, resolvedAt : Stamps]

Outcome == [kind : {"answer"}, wire : Wires, resolvedAt : Stamps]
             \cup [kind : {"none", "servfail", "formerr"}, wire : {None}, resolvedAt : {None}]
Plain(kind) == [kind |-> kind, wire |-> None, resolvedAt |-> None]
Answer(wire, at) == [kind |-> "answer", wire |-> wire, resolvedAt |-> at]

(* What resolve() makes of a delivered response: an error response or an   *)
(* empty wire fails the query, anything else is the answer.                *)
UncheckedResponse(r) == Answer(r.wire, r.resolvedAt)

FromResponse(r) ==
  IF r.wire # None THEN Answer(r.wire, r.resolvedAt) ELSE Plain("servfail")

Pc == {"idle", "evict", "miss", "sending", "acked", "leaving", "follow",
       "set", "done"}
Leading == {"sending", "acked", "leaving"}   \* inside resolve()
Selecting == {"sending", "acked"}            \* blocked in a select of resolve()

Larger(a, b) == IF a > b THEN a ELSE b

-----------------------------------------------------------------------------
(* The local cache.                                                        *)

(* localSet under Client.mu: a write older than the entry is dropped, even *)
(* when that entry has expired but was not evicted yet.                    *)
NeverStale(k, at) == FALSE

Stale(k, at) == local[k] # None /\ local[k].resolvedAt > at

LocalSet(k, wire, at) ==
  IF Stale(k, at)
  THEN local
  ELSE [local EXCEPT ![k] = [wire |-> wire, resolvedAt |-> at, expired |-> FALSE]]

(* Time passes the entry's expire. *)
Expire(k) ==
  /\ local[k] # None
  /\ ~local[k].expired
  /\ local' = [local EXCEPT ![k].expired = TRUE]
  /\ UNCHANGED <<queryVars, routeVars, sendVars, dispVars, pushes, reqs, respVars>>

-----------------------------------------------------------------------------
(* One LAN query: handle / resolveQuery.                                   *)

Init ==
  /\ pc = [q \in Queries |-> "idle"]
  /\ key = [q \in Queries |-> None]
  /\ result = [q \in Queries |-> Plain("none")]
  /\ local = [k \in Keys |-> None]
  /\ sf = [k \in Keys |-> None]
  /\ waits = {}
  /\ chan = [q \in Queries |-> None]
  /\ xadd = [q \in Queries |-> "idle"]
  /\ sent = [q \in Queries |-> 0]
  /\ reqs = <<>>
  /\ resps = <<>>
  /\ trimmed = 0
  /\ dpc = "call"
  /\ lastID = None
  /\ cur = 0
  /\ upto = 0
  /\ pushes = <<>>

(* A message without exactly one question is refused at once. *)
HandleFormErr(q) ==
  /\ pc[q] = "idle"
  /\ pc' = [pc EXCEPT ![q] = "done"]
  /\ result' = [result EXCEPT ![q] = Plain("formerr")]
  /\ UNCHANGED <<key, local, sf, routeVars, sendVars, dispVars, pushes, reqs, respVars>>

(* resolveQuery up to localGet's read under RLock: a live entry is the     *)
(* answer, an expired one must be evicted, no entry is a miss.             *)
LocalGet(q, k) ==
  /\ pc[q] = "idle"
  /\ key' = [key EXCEPT ![q] = k]
  /\ \/ /\ local[k] # None /\ ~local[k].expired
        /\ pc' = [pc EXCEPT ![q] = "done"]
        /\ result' = [result EXCEPT ![q] = Answer(local[k].wire, local[k].resolvedAt)]
     \/ /\ local[k] # None /\ local[k].expired
        /\ pc' = [pc EXCEPT ![q] = "evict"]
        /\ UNCHANGED result
     \/ /\ local[k] = None
        /\ pc' = [pc EXCEPT ![q] = "miss"]
        /\ UNCHANGED result
  /\ UNCHANGED <<local, sf, routeVars, sendVars, dispVars, pushes, reqs, respVars>>

(* localGet's delete under Lock.  The lock was released after the read, so *)
(* the entry it deletes need not be the expired one it saw.                *)
LocalDelete(q) ==
  /\ pc[q] = "evict"
  /\ local' = [local EXCEPT ![key[q]] = None]
  /\ pc' = [pc EXCEPT ![q] = "miss"]
  /\ UNCHANGED <<key, result, sf, routeVars, sendVars, dispVars, pushes, reqs, respVars>>

(* sf.Do finds no call for the key: the query leads.  resolve() registers  *)
(* the request and starts the XADD goroutine.                              *)
SfLead(q) ==
  /\ pc[q] = "miss"
  /\ sf[key[q]] = None
  /\ sf' = [sf EXCEPT ![key[q]] = q]
  /\ waits' = waits \cup {q}
  /\ xadd' = [xadd EXCEPT ![q] = "inflight"]
  /\ pc' = [pc EXCEPT ![q] = "sending"]
  /\ UNCHANGED <<key, result, local, chan, sent, dispVars, pushes, reqs, respVars>>

(* sf.Do finds a call in flight for the key: the query waits for it. *)
SfJoin(q) ==
  /\ pc[q] = "miss"
  /\ sf[key[q]] # None
  /\ pc' = [pc EXCEPT ![q] = "follow"]
  /\ UNCHANGED <<key, result, local, sf, routeVars, sendVars, dispVars, pushes, reqs, respVars>>

-----------------------------------------------------------------------------
(* The goroutine that XADDs the request.  It outlives resolve().  go-redis *)
(* re-sends a command whose reply was lost, so the request may be written  *)
(* more than once, and may have been written when an error is reported.    *)

XAddWrite(q) ==
  /\ xadd[q] = "inflight"
  /\ sent[q] < MaxSends
  /\ sent' = [sent EXCEPT ![q] = @ + 1]
  /\ reqs' = Append(reqs, [id |-> q, key |-> key[q]])
  /\ UNCHANGED <<queryVars, local, routeVars, xadd, dispVars, pushes, respVars>>

XAddReport(q) ==
  /\ xadd[q] = "inflight"
  /\ \/ sent[q] > 0 /\ xadd' = [xadd EXCEPT ![q] = "ok"]
     \/ xadd' = [xadd EXCEPT ![q] = "err"]
  /\ UNCHANGED <<queryVars, local, routeVars, sent, dispVars, pushes, reqs, respVars>>

-----------------------------------------------------------------------------
(* The selects of resolve().  The outer one ("sending") also listens to    *)
(* the XADD's outcome; the inner one ("acked") only to the channel and to  *)
(* a new timer.  When several cases are ready Go picks any of them.        *)

SelectResponse(q) ==
  /\ pc[q] \in Selecting
  /\ chan[q] # None
  /\ chan' = [chan EXCEPT ![q] = None]
  /\ result' = [result EXCEPT ![q] = FromResponse(chan[q])]
  /\ pc' = [pc EXCEPT ![q] = "leaving"]
  /\ UNCHANGED <<key, local, sf, waits, sendVars, dispVars, pushes, reqs, respVars>>

SelectXAdd(q) ==
  /\ pc[q] = "sending"
  /\ \/ /\ xadd[q] = "ok"
        /\ pc' = [pc EXCEPT ![q] = "acked"]
        /\ UNCHANGED result
     \/ /\ xadd[q] = "err"
        /\ pc' = [pc EXCEPT ![q] = "leaving"]
        /\ result' = [result EXCEPT ![q] = Plain("servfail")]
  /\ UNCHANGED <<key, local, sf, routeVars, sendVars, dispVars, pushes, reqs, respVars>>

(* The selects in which the block timer runs. *)
OuterTimerOnly == {"sending"}

Timed == Selecting

SelectTimeout(q) ==
  /\ pc[q] \in Timed
  /\ pc' = [pc EXCEPT ![q] = "leaving"]
  /\ result' = [result EXCEPT ![q] = Plain("servfail")]
  /\ UNCHANGED <<key, local, sf, routeVars, sendVars, dispVars, pushes, reqs, respVars>>

(* resolve() returns: the deferred unregister, then singleflight forgets   *)
(* the call and hands its result to the leader and to every follower.      *)
LeaderOnly(q) == {q}

EveryAsker(q) == {q} \cup {p \in Queries : pc[p] \in {"follow", "done"} /\ key[p] = key[q]}

Flight(q) == {q} \cup {p \in Queries : pc[p] = "follow" /\ key[p] = key[q]}

ResolveReturn(q) ==
  /\ pc[q] = "leaving"
  /\ waits' = waits \ {q}
  /\ sf' = [sf EXCEPT ![key[q]] = None]
  /\ pc' = [p \in Queries |->
              IF p \notin Flight(q) THEN pc[p]
              ELSE IF result[q].kind = "answer" THEN "set" ELSE "done"]
  /\ result' = [p \in Queries |-> IF p \in Flight(q) THEN result[q] ELSE result[p]]
  /\ UNCHANGED <<key, local, chan, sendVars, dispVars, pushes, reqs, respVars>>

(* Every query of the flight writes the answer to the local cache itself,  *)
(* then replies with it.                                                   *)
QuerySet(q) ==
  /\ pc[q] = "set"
  /\ local' = LocalSet(key[q], result[q].wire, result[q].resolvedAt)
  /\ pc' = [pc EXCEPT ![q] = "done"]
  /\ UNCHANGED <<key, result, sf, routeVars, sendVars, dispVars, pushes, reqs, respVars>>

-----------------------------------------------------------------------------
(* The dispatcher: runDispatcher and dispatch.                             *)

(* XREAD is issued.  "$" means the end of the stream at this very moment,  *)
(* and lastID stays "$" until a first response has been taken.             *)
DispatcherCall ==
  /\ dpc = "call"
  /\ dpc' = "blocked"
  /\ cur' = IF lastID = None THEN Len(resps) ELSE lastID
  /\ UNCHANGED <<lastID, upto, queryVars, local, routeVars, sendVars, pushes, reqs, respVars>>

(* XREAD returns up to COUNT responses after that position which MAXLEN    *)
(* has not dropped.                                                        *)
DispatcherRead ==
  /\ dpc = "blocked"
  /\ LET first == Larger(cur, trimmed) IN
       \E last \in (first + 1)..Len(resps) :
          /\ last - first <= ReadCount
          /\ cur' = first
          /\ upto' = last
  /\ dpc' = "route"
  /\ UNCHANGED <<lastID, queryVars, local, routeVars, sendVars, pushes, reqs, respVars>>

(* XREAD fails; after the backoff it is issued again. *)
DispatcherFailForgets ==
  /\ dpc = "blocked"
  /\ dpc' = "call"
  /\ lastID' = None
  /\ UNCHANGED <<cur, upto, queryVars, local, routeVars, sendVars, pushes, reqs, respVars>>

DispatcherFail ==
  /\ dpc = "blocked"
  /\ dpc' = "call"
  /\ UNCHANGED <<lastID, cur, upto, queryVars, local, routeVars, sendVars, pushes, reqs, respVars>>

AfterResponse(pos) == IF pos = upto THEN "call" ELSE "route"

(* dispatch's lookup under wmu. *)
HasWaiter(r) == r.id \in waits

(* The next response of the batch: lastID moves, then the response is      *)
(* either dropped (malformed, or nobody waits on its ID) or about to be    *)
(* sent on the channel found in waits.                                     *)
DispatcherRoute ==
  /\ dpc = "route"
  /\ lastID' = cur + 1
  /\ cur' = cur + 1
  /\ dpc' = IF HasWaiter(resps[cur + 1]) THEN "send" ELSE AfterResponse(cur + 1)
  /\ UNCHANGED <<upto, queryVars, local, routeVars, sendVars, pushes, reqs, respVars>>

(* ch <- resp outside the lock.  The channel has one slot (make(chan       *)
(* proto.Response, 1)): the send blocks while the slot is taken.           *)
Unbuffered(q) == chan[q] = None /\ pc[q] \in Selecting

Room(q) == chan[q] = None

DeliverTo(q) ==
  /\ dpc = "send"
  /\ Room(q)
  /\ chan' = [chan EXCEPT ![q] = resps[cur]]
  /\ dpc' = AfterResponse(cur)
  /\ UNCHANGED <<lastID, cur, upto, queryVars, local, waits, sendVars, pushes, reqs, respVars>>

DispatcherSendAny == \E q \in waits : DeliverTo(q)

DispatcherSend == DeliverTo(resps[cur].id)

-----------------------------------------------------------------------------
(* The subscriber: runSubscriber.                                          *)

SubscriberReceive ==
  /\ pushes # <<>>
  /\ pushes' = Tail(pushes)
  /\ LET u == Head(pushes) IN local' = LocalSet(u.key, u.wire, u.resolvedAt)
  /\ UNCHANGED <<queryVars, routeVars, sendVars, dispVars, reqs, respVars>>

(* The connection is lost, with whatever was on its way. *)
SubscriberLost ==
  /\ pushes # <<>>
  /\ pushes' = <<>>
  /\ UNCHANGED <<queryVars, local, routeVars, sendVars, dispVars, reqs, respVars>>

-----------------------------------------------------------------------------
(* What the rest of the system may do to the streams and the channel.      *)

(* A response is added: one this client does not wait for, or an answer,   *)
(* for the key that was asked, to a request that is on the stream.  The    *)
(* same XADD drops the oldest entries when the stream exceeds MAXLEN.      *)
EnvRespond(r, n) ==
  /\ Len(resps) < MaxResps
  /\ r.id \in Queries =>
       /\ \E i \in 1..Len(reqs) :
            reqs[i].id = r.id /\ (r.wire # None => reqs[i].key = r.wire.key)
       /\ UniqueResp => \A i \in 1..Len(resps) : resps[i].id # r.id
  /\ resps' = Append(resps, r)
  /\ n \in trimmed..Len(resps)
  /\ trimmed' = n
  /\ UNCHANGED <<clientVars, reqs, pushes>>

(* Redis restarts without persistence: the stream is gone. *)
EnvLose ==
  /\ trimmed < Len(resps)
  /\ trimmed' = Len(resps)
  /\ UNCHANGED <<clientVars, reqs, resps, pushes>>

(* An update is published while the subscriber is connected. *)
EnvPush(u) ==
  /\ Len(pushes) < MaxPushes
  /\ u.wire.key = u.key
  /\ pushes' = Append(pushes, u)
  /\ UNCHANGED <<clientVars, reqs, respVars>>

-----------------------------------------------------------------------------

Select(q) == SelectResponse(q) \/ SelectXAdd(q) \/ SelectTimeout(q)
Handle(q) == LocalDelete(q) \/ SfLead(q) \/ SfJoin(q) \/ ResolveReturn(q) \/ QuerySet(q)
Sender(q) == XAddWrite(q) \/ XAddReport(q)
Dispatcher == DispatcherCall \/ DispatcherRead \/ DispatcherFail \/ DispatcherRoute \/ DispatcherSend
Subscriber == SubscriberReceive \/ SubscriberLost

ClientNext ==
  \/ \E q \in Queries :
       \/ HandleFormErr(q)
       \/ \E k \in Keys : LocalGet(q, k)
       \/ Handle(q)
       \/ Select(q)
       \/ Sender(q)
  \/ \E k \in Keys : Expire(k)
  \/ Dispatcher
  \/ Subscriber

EnvNext ==
  \/ \E r \in Response, n \in 0..Len(resps) : EnvRespond(r, n)
  \/ EnvLose
  \/ \E u \in Update : EnvPush(u)

Next == ClientNext \/ EnvNext

Spec == Init /\ [][Next]_vars

(* A runnable goroutine is eventually scheduled, and a timer that was      *)
(* started eventually fires.  Nothing is assumed of Redis, of the network, *)
(* of the dispatcher or of the server.                                     *)
QueryFairness == \A q \in Queries : WF_vars(Handle(q)) /\ WF_vars(Select(q))

FairSpec == Spec /\ QueryFairness

-----------------------------------------------------------------------------

(* Every variable keeps its shape; in particular MAXLEN never drops more    *)
(* responses than were written.                                            *)
TypeOK ==
  /\ pc \in [Queries -> Pc]
  /\ key \in [Queries -> Keys \cup {None}]
  /\ result \in [Queries -> Outcome]
  /\ local \in [Keys -> Entry \cup {None}]
  /\ sf \in [Keys -> Queries \cup {None}]
  /\ waits \in SUBSET Queries
  /\ chan \in [Queries -> Response \cup {None}]
  /\ xadd \in [Queries -> {"idle", "inflight", "ok", "err"}]
  /\ sent \in [Queries -> Nat]
  /\ reqs \in Seq(Request)
  /\ resps \in Seq(Response)
  /\ trimmed \in 0..Len(resps)
  /\ dpc \in {"call", "blocked", "route", "send"}
  /\ lastID \in Nat \cup {None}
  /\ cur \in Nat
  /\ upto \in Nat
  /\ pushes \in Seq(Update)

(* singleflight and the pending table agree with the goroutines: a key has *)
(* a call in flight exactly while one query is inside resolve() for it,    *)
(* that query and no other is registered in waits, and nobody follows a    *)
(* call that is gone (such a follower would wait forever).                 *)
FlightDiscipline ==
  /\ waits = {q \in Queries : pc[q] \in Leading}
  /\ \A k \in Keys : sf[k] # None => pc[sf[k]] \in Leading /\ key[sf[k]] = k
  /\ \A q \in Queries : pc[q] \in Leading => sf[key[q]] = q
  /\ \A q \in Queries : pc[q] = "follow" => sf[key[q]] # None

(* Whatever way an answer took (local hit, own response, shared flight,    *)
(* pushed update), it answers the key that was asked, and the cache holds  *)
(* under a key only answers for that key: responses are matched by request *)
(* ID alone, the client never looks at the name they carry.                *)
AnswersQuestion ==
  /\ \A q \in Queries : result[q].kind = "answer" => result[q].wire.key = key[q]
  /\ \A k \in Keys : local[k] # None => local[k].wire.key = k

(* What a LAN host sees: the key it asked and, once replied, the reply.    *)
LAN == INSTANCE Service WITH
         asked <- key,
         reply <- [q \in Queries |-> IF pc[q] = "done" THEN result[q] ELSE None]

(* The client implements module Service: every query is replied to at most *)
(* once, finally, and for the name it asked, whichever of the caches, the  *)
(* flights, the pushes and the timers decided it.                          *)
ServiceSpec == LAN!Spec

(* The one dispatcher goroutine is never parked on a channel whose slot is *)
(* taken and whose reader has left its select: it would stay there forever *)
(* and no later query of the whole client would get its response.          *)
DispatcherNeverStuck ==
  dpc = "send" => Room(resps[cur].id) \/ pc[resps[cur].id] \in Selecting

(* The versioning of the local cache: while a key stays cached, its        *)
(* resolved_at never goes back, whichever of responses and pushes arrive   *)
(* in whichever order (localSet drops the older write).                    *)
LocalVersionOrdered ==
  [][\A k \in Keys : local[k] # None /\ local'[k] # None
        => local'[k].resolvedAt >= local[k].resolvedAt]_vars

(* Once the dispatcher holds a concrete lastID it never jumps over a       *)
(* response that is still on the stream, through errors and reconnects,    *)
(* and never goes back to one it has already handled.                      *)
NoResponseSkipped ==
  [][lastID # None =>
       /\ lastID' # None
       /\ lastID' >= lastID
       /\ \A i \in (lastID + 1)..(lastID' - 1) : i <= trimmed]_vars

(* Every query is eventually replied to, whatever Redis, the server and    *)
(* the dispatcher do: lost requests and responses end in the timer.        *)
QueryAnswered ==
  \A q \in Queries : pc[q] # "idle" ~> pc[q] = "done"

=============================================================================
