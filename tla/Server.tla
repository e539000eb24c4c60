------------------------------- MODULE Server -------------------------------
(***************************************************************************)
(* The server of redis-dns (internal/server/server.go): workers that read  *)
(* dns:req through a consumer group, one handler goroutine per message     *)
(* that answers from the shared Redis cache or from upstream, the          *)
(* fire-and-forget goroutine that XADDs the response, and the prefetch     *)
(* loop that refreshes names nobody asked for just now.  Redis itself is   *)
(* here as far as the server uses it: the request stream with its group    *)
(* cursor and pending list, the answer cache, the capped response stream   *)
(* and the update channel.                                                 *)
(*                                                                         *)
(* A handler is named by the position of its message in dns:req: XREADGROUP*)
(* with ">" hands a message out once per life of the group.                *)
(* Every clock reading is a tick of clock.  An answer carries the tick at  *)
(* which its resolution ended (wire.at), which tells apart old and new     *)
(* data; the code sees only resolved_at, the tick at which a goroutine     *)
(* stamped the answer.                                                     *)
(*                                                                         *)
(* countQuery, the non-blocking hand-over to the query counter, changes no *)
(* state that anything here reads and is left out.                         *)
(***************************************************************************)
EXTENDS Naturals, Sequences, FiniteSets

CONSTANTS ReqIDs,     \* request IDs clients use
          Keys,       \* cache keys dns:cache:<name>:<type>
          ReadCount,  \* XREADGROUP COUNT (16 in the code)
          RespMax,    \* MAXLEN of dns:resp
          Refreshed,  \* keys the prefetch loop refreshes
          MaxReqs,    \* bound: length of the request stream
          MaxClock,   \* bound: readings of the clock
          MaxPushes,  \* bound: updates queued for the subscriber
          MaxFaults,  \* bound: crashes, Redis restarts and lost replies
          MaxResends, \* bound: XADDs go-redis re-sends after a lost reply
          None        \* no value: Go's nil, a missing key, no group

ASSUME ServerAssumption ==
  /\ ReadCount \in Nat \ {0}
  /\ RespMax \in Nat \ {0}
  /\ Refreshed \subseteq Keys
  /\ MaxReqs \in Nat /\ MaxClock \in Nat /\ MaxPushes \in Nat
  /\ MaxFaults \in Nat /\ MaxResends \in Nat
  /\ None \notin ReqIDs \cup Keys \cup Nat
  /\ None \notin [key : Keys, at : Nat]

VARIABLES
  reqs,     \* stream dns:req, as its whole history
  resps,    \* stream dns:resp, as its whole history
  trimmed,  \* number of responses Redis no longer has
  pushes,   \* updates on their way to the subscriber
  lost,     \* number of requests Redis no longer has
  group,    \* last position delivered to the group; None: no such group
  pel,      \* positions delivered and not acknowledged
  up,       \* the server process runs
  hpc,      \* [position -> where its handler goroutine is]
  hwire,    \* [position -> the answer the handler holds]
  hat,      \* [position -> the ResolvedAt it has set]
  outbox,   \* [position -> response its XADD goroutine is to write]
  ppc,      \* where the prefetch loop is
  pwire,    \* the answer it holds
  store,    \* the Redis answer cache
  clock,    \* the server's clock
  faults,   \* failures so far
  resends   \* responses written once more so far

streamVars == <<resps, trimmed>>
groupVars  == <<lost, group, pel>>
handleVars == <<hpc, hwire, hat, outbox>>
loopVars   == <<ppc, pwire>>
faultVars  == <<faults, resends>>
serverVars == <<groupVars, up, handleVars, loopVars, store, clock, faultVars>>
vars == <<reqs, streamVars, pushes, serverVars>>

-----------------------------------------------------------------------------

Position == 1..MaxReqs
Wire == [key : Keys, at : 1..MaxClock]
(* A request whose payload does not parse has no key. *)
Request == [id : ReqIDs, key : Keys \cup {None}]
Response == [id : ReqIDs, wire : Wire, resolvedAt : 1..MaxClock]
              \cup [id : ReqIDs, wire : {None}, resolvedAt : {None}]
Update == [key : Keys, wire : Wire, resolvedAt : 1..MaxClock]

(* "dead": the goroutine is gone and its message was never acknowledged.   *)
HandlerPc == {"off", "get", "hit", "hitsend", "resolve", "cache",
              "publish", "ack", "done", "dead"}
Running == HandlerPc \ {"off", "done", "dead"}

CapturedReply(i) == [id |-> reqs[Len(reqs)].id, wire |-> hwire[i], resolvedAt |-> hat[i]]

Reply(i) == [id |-> reqs[i].id, wire |-> hwire[i], resolvedAt |-> hat[i]]
ErrReply(i) == [id |-> reqs[i].id, wire |-> None, resolvedAt |-> None]
NewWire(k) == [key |-> k, at |-> clock + 1]

(* time.Now(): readings of one clock do not go back. *)
Tick == clock < MaxClock /\ clock' = clock + 1

(* The next of a bounded number of failures. *)
Fault == faults < MaxFaults /\ faults' = faults + 1 /\ UNCHANGED resends

Goto(i, l) == hpc' = [hpc EXCEPT ![i] = l]

(* The goroutine ends, and its locals with it. *)
Gone(i, l) ==
  /\ Goto(i, l)
  /\ hwire' = [hwire EXCEPT ![i] = None]
  /\ hat' = [hat EXCEPT ![i] = None]

Init ==
  /\ reqs = <<>>
  /\ resps = <<>>
  /\ trimmed = 0
  /\ pushes = <<>>
  /\ lost = 0
  /\ group = None
  /\ pel = {}
  /\ up = FALSE
  /\ hpc = [i \in Position |-> "off"]
  /\ hwire = [i \in Position |-> None]
  /\ hat = [i \in Position |-> None]
  /\ outbox = [i \in Position |-> None]
  /\ ppc = "wait"
  /\ pwire = None
  /\ store = [k \in Keys |-> None]
  /\ clock = 0
  /\ faults = 0
  /\ resends = 0

-----------------------------------------------------------------------------
(* The process and its workers.                                            *)

(* XGROUP CREATE dns:req <group> 0 MKSTREAM: the whole stream is new to a  *)
(* group that did not exist; BUSYGROUP leaves an existing one alone.       *)
EnsureGroupReset == group' = lost

EnsureGroup == group' = IF group = None THEN lost ELSE group

Start ==
  /\ ~up
  /\ up' = TRUE
  /\ EnsureGroup
  /\ UNCHANGED <<reqs, streamVars, pushes, lost, pel, handleVars, loopVars, store, clock, faultVars>>

(* XREADGROUP ">" delivers a batch; every message gets its own goroutine.  *)
XReadGroup ==
  /\ up
  /\ group # None
  /\ \E n \in (group + 1)..Len(reqs) :
       /\ n - group <= ReadCount
       /\ group' = n
       /\ pel' = pel \cup (group + 1)..n
       /\ hpc' = [i \in Position |-> IF i \in (group + 1)..n THEN "get" ELSE hpc[i]]
  /\ UNCHANGED <<reqs, streamVars, pushes, lost, up, hwire, hat, outbox, loopVars,
                 store, clock, faultVars>>

(* The group vanished (NOGROUP): the worker recreates it and reads on. *)
NoGroupSpin ==
  /\ up
  /\ group = None
  /\ UNCHANGED vars

NoGroup ==
  /\ up
  /\ group = None
  /\ EnsureGroup
  /\ UNCHANGED <<reqs, streamVars, pushes, lost, pel, up, handleVars, loopVars,
                 store, clock, faultVars>>

-----------------------------------------------------------------------------
(* handle, one goroutine per message.                                      *)

(* A payload that does not parse: nothing but the acknowledgement. *)
MalformedUnacked(i) ==
  /\ hpc[i] = "get"
  /\ reqs[i].key = None
  /\ Goto(i, "done")
  /\ UNCHANGED <<reqs, streamVars, pushes, groupVars, up, hwire, hat, outbox, loopVars,
                 store, clock, faultVars>>

HandleMalformed(i) ==
  /\ hpc[i] = "get"
  /\ reqs[i].key = None
  /\ Goto(i, "ack")
  /\ UNCHANGED <<reqs, streamVars, pushes, groupVars, up, hwire, hat, outbox, loopVars,
                 store, clock, faultVars>>

(* err == nil && len(wire) > 0 *)
AnyGet(i) == TRUE

Hit(i) == store[reqs[i].key] # None

(* GET on the shared cache: a hit, or (missing, expired, or an error) a    *)
(* miss.                                                                   *)
CacheGet(i) ==
  /\ hpc[i] = "get"
  /\ reqs[i].key # None
  /\ \/ /\ Hit(i)
        /\ hwire' = [hwire EXCEPT ![i] = store[reqs[i].key]]
        /\ Goto(i, "hit")
     \/ /\ Goto(i, "resolve")
        /\ UNCHANGED hwire
  /\ UNCHANGED <<reqs, streamVars, pushes, groupVars, up, hat, outbox, loopVars,
                 store, clock, faultVars>>

(* ResolvedAt of a cache hit is the time of the hit. *)
HitStampStart(i) ==
  /\ hpc[i] = "hit"
  /\ Tick
  /\ \E t \in 1..(clock + 1) : hat' = [hat EXCEPT ![i] = t]
  /\ Goto(i, "hitsend")
  /\ UNCHANGED <<reqs, streamVars, pushes, groupVars, up, hwire, outbox, loopVars,
                 store, faultVars>>

HitStamp(i) ==
  /\ hpc[i] = "hit"
  /\ Tick
  /\ hat' = [hat EXCEPT ![i] = clock + 1]
  /\ Goto(i, "hitsend")
  /\ UNCHANGED <<reqs, streamVars, pushes, groupVars, up, hwire, outbox, loopVars,
                 store, faultVars>>

(* XADD dns:resp MAXLEN ~ respMax: Redis drops oldest entries, never so    *)
(* many that fewer than respMax stay.                                      *)
XAddResponse(r) ==
  /\ resps' = Append(resps, r)
  /\ \E n \in trimmed..Len(resps) :
       /\ n = trimmed \/ Len(resps) + 1 - n >= RespMax
       /\ trimmed' = n

(* The hit is answered from the handler itself; its error is not looked at.*)
NoReturn == "resolve"

AfterHit == "ack"

HitSend(i) ==
  /\ hpc[i] = "hitsend"
  /\ XAddResponse(Reply(i)) \/ UNCHANGED streamVars
  /\ Goto(i, AfterHit)
  /\ UNCHANGED <<reqs, pushes, groupVars, up, hwire, hat, outbox, loopVars,
                 store, clock, faultVars>>

(* The resolver returns an answer, which is stamped at once, or an error:  *)
(* then only an error response is sent, by a goroutine of its own.         *)
Resolve(i) ==
  /\ hpc[i] = "resolve"
  /\ \/ /\ Tick
        /\ hwire' = [hwire EXCEPT ![i] = NewWire(reqs[i].key)]
        /\ hat' = [hat EXCEPT ![i] = clock + 1]
        /\ Goto(i, "cache")
        /\ UNCHANGED outbox
     \/ /\ outbox' = [outbox EXCEPT ![i] = ErrReply(i)]
        /\ Goto(i, "ack")
        /\ UNCHANGED <<hwire, hat, clock>>
  /\ UNCHANGED <<reqs, streamVars, pushes, groupVars, up, loopVars, store, faultVars>>

(* cache: SET with a TTL, skipped when the TTL is not positive, its error  *)
(* only logged.                                                            *)
CacheSet(wire) ==
  \/ store' = [store EXCEPT ![wire.key] = wire]
  \/ UNCHANGED store

HandleCache(i) ==
  /\ hpc[i] = "cache"
  /\ CacheSet(hwire[i])
  /\ Goto(i, "publish")
  /\ UNCHANGED <<reqs, streamVars, pushes, groupVars, up, hwire, hat, outbox, loopVars,
                 clock, faultVars>>

(* publish: the update reaches the subscriber or, when nobody listens or   *)
(* PUBLISH fails, it does not.                                             *)
Publish(wire, at) ==
  \/ /\ Len(pushes) < MaxPushes
     /\ pushes' = Append(pushes, [key |-> wire.key, wire |-> wire, resolvedAt |-> at])
  \/ UNCHANGED pushes

(* After publish the response is handed to its XADD goroutine. *)
HandlePublish(i) ==
  /\ hpc[i] = "publish"
  /\ Publish(hwire[i], hat[i])
  /\ outbox' = [outbox EXCEPT ![i] = Reply(i)]
  /\ Goto(i, "ack")
  /\ UNCHANGED <<reqs, streamVars, groupVars, up, hwire, hat, loopVars, store, clock, faultVars>>

(* The XADD goroutine, running beside the acknowledgement: it succeeds or  *)
(* its error is logged and the response is gone.                           *)
AsyncXAdd(i) ==
  /\ outbox[i] # None
  /\ XAddResponse(outbox[i]) \/ UNCHANGED streamVars
  /\ outbox' = [outbox EXCEPT ![i] = None]
  /\ UNCHANGED <<reqs, pushes, groupVars, up, hpc, hwire, hat, loopVars, store, clock, faultVars>>

(* The response was written but the reply to the XADD is lost: go-redis    *)
(* goes on to send the same command again.                                 *)
XAddAgain(i) ==
  /\ resends < MaxResends
  /\ resends' = resends + 1
  /\ \/ hpc[i] = "hitsend" /\ XAddResponse(Reply(i))
     \/ outbox[i] # None /\ XAddResponse(outbox[i])
  /\ UNCHANGED <<reqs, pushes, groupVars, up, handleVars, loopVars, store, clock, faults>>

(* XACK, whatever handle did; nobody looks at its error. *)
AckFails(i) ==
  /\ hpc[i] = "ack"
  /\ Fault
  /\ Gone(i, "dead")
  /\ UNCHANGED <<reqs, streamVars, pushes, groupVars, up, outbox, loopVars, store, clock>>

Ack(i) ==
  /\ hpc[i] = "ack"
  /\ pel' = pel \ {i}
  /\ Gone(i, "done")
  /\ UNCHANGED <<reqs, streamVars, pushes, lost, group, up, outbox, loopVars,
                 store, clock, faultVars>>

-----------------------------------------------------------------------------
(* The prefetch loop: fixed and ranked names alike are resolved, cached,   *)
(* and only then stamped and published.  A name that does not resolve is   *)
(* passed over.                                                            *)

(* Requests whose handler has yet to read the clock, once at most.  The    *)
(* bound on the clock is kept off them: prefetching must leave a reading   *)
(* for each, and takes two itself.                                         *)
Unstamped == {i \in Position : hpc[i] \in {"off", "get", "hit", "resolve"}}

PrefetchResolve(k) ==
  /\ up
  /\ ppc = "wait"
  /\ clock + 2 + Cardinality(Unstamped) <= MaxClock
  /\ Tick
  /\ pwire' = NewWire(k)
  /\ ppc' = "cache"
  /\ UNCHANGED <<reqs, streamVars, pushes, groupVars, up, handleVars, store, faultVars>>

PrefetchCache ==
  /\ ppc = "cache"
  /\ CacheSet(pwire)
  /\ ppc' = "publish"
  /\ UNCHANGED <<reqs, streamVars, pushes, groupVars, up, handleVars, pwire, clock, faultVars>>

PrefetchPublish ==
  /\ ppc = "publish"
  /\ Tick
  /\ Publish(pwire, clock + 1)
  /\ ppc' = "wait"
  /\ pwire' = None
  /\ UNCHANGED <<reqs, streamVars, groupVars, up, handleVars, store, faultVars>>

Prefetch == (\E k \in Refreshed : PrefetchResolve(k)) \/ PrefetchCache \/ PrefetchPublish

-----------------------------------------------------------------------------
(* Failures and the passage of time.                                       *)

(* The process dies, or is told to stop: Run waits for the workers only,   *)
(* so handlers and XADD goroutines are cut off either way.                 *)
Crash ==
  /\ up
  /\ Fault
  /\ up' = FALSE
  /\ hpc' = [i \in Position |-> IF hpc[i] \in Running THEN "dead" ELSE hpc[i]]
  /\ hwire' = [i \in Position |-> None]
  /\ hat' = [i \in Position |-> None]
  /\ outbox' = [i \in Position |-> None]
  /\ ppc' = "wait"
  /\ pwire' = None
  /\ UNCHANGED <<reqs, streamVars, pushes, groupVars, store, clock>>

(* The reply of XREADGROUP is lost: the messages count as delivered. *)
ReplyLost ==
  /\ up
  /\ group # None
  /\ Fault
  /\ \E n \in (group + 1)..Len(reqs) :
       /\ n - group <= ReadCount
       /\ group' = n
       /\ pel' = pel \cup (group + 1)..n
       /\ hpc' = [i \in Position |-> IF i \in (group + 1)..n THEN "dead" ELSE hpc[i]]
  /\ UNCHANGED <<reqs, streamVars, pushes, lost, up, hwire, hat, outbox, loopVars,
                 store, clock>>

(* Redis restarts without persistence: both streams, the group and the     *)
(* cache are gone; updates already on the wire are not.                    *)
RedisRestart ==
  /\ Fault
  /\ lost' = Len(reqs)
  /\ group' = None
  /\ pel' = {}
  /\ trimmed' = Len(resps)
  /\ store' = [k \in Keys |-> None]
  /\ UNCHANGED <<reqs, resps, pushes, up, handleVars, loopVars, clock>>

StoreExpire(k) ==
  /\ store[k] # None
  /\ store' = [store EXCEPT ![k] = None]
  /\ UNCHANGED <<reqs, streamVars, pushes, groupVars, up, handleVars, loopVars, clock, faultVars>>

-----------------------------------------------------------------------------

Handler(i) ==
  \/ HandleMalformed(i) \/ CacheGet(i) \/ HitStamp(i) \/ HitSend(i)
  \/ Resolve(i) \/ HandleCache(i) \/ HandlePublish(i) \/ Ack(i)

Worker == XReadGroup \/ NoGroup

ServerNext ==
  \/ Start
  \/ Worker
  \/ \E i \in Position : Handler(i) \/ AsyncXAdd(i) \/ XAddAgain(i) \/ AckFails(i)
  \/ Prefetch
  \/ Crash
  \/ ReplyLost
  \/ RedisRestart
  \/ \E k \in Keys : StoreExpire(k)

(* Clients: requests are written with IDs drawn afresh.  The server only   *)
(* copies them, so which of the unused ones it is makes no difference.     *)
FreshID == CHOOSE id \in ReqIDs : \A i \in 1..Len(reqs) : reqs[i].id # id

EnvRequest(r) ==
  /\ Len(reqs) < MaxReqs
  /\ \A i \in 1..Len(reqs) : reqs[i].id # r.id
  /\ r.id = FreshID
  /\ reqs' = Append(reqs, r)
  /\ UNCHANGED <<streamVars, pushes, serverVars>>

Next == ServerNext \/ (\E r \in Request : EnvRequest(r))

Spec == Init /\ [][Next]_vars

(* Runnable goroutines are scheduled, a stopped server is started again    *)
(* (systemd Restart=always), and Redis answers what it is asked.           *)
Fairness ==
  /\ WF_vars(Start)
  /\ WF_vars(Worker)
  /\ \A i \in Position : WF_vars(Handler(i))

FairSpec == Spec /\ Fairness

-----------------------------------------------------------------------------

(* Every variable keeps its shape: stream positions stay within the        *)
(* streams, and no handler or loop holds an answer of another kind.        *)
TypeOK ==
  /\ reqs \in Seq(Request) /\ Len(reqs) <= MaxReqs
  /\ resps \in Seq(Response)
  /\ trimmed \in 0..Len(resps)
  /\ pushes \in Seq(Update)
  /\ lost \in 0..Len(reqs)
  /\ group \in 0..Len(reqs) \cup {None}
  /\ pel \subseteq 1..Len(reqs)
  /\ up \in BOOLEAN
  /\ hpc \in [Position -> HandlerPc]
  /\ hwire \in [Position -> Wire \cup {None}]
  /\ hat \in [Position -> 1..MaxClock \cup {None}]
  /\ outbox \in [Position -> Response \cup {None}]
  /\ ppc \in {"wait", "cache", "publish"}
  /\ pwire \in Wire \cup {None}
  /\ store \in [Keys -> Wire \cup {None}]
  /\ clock \in 0..MaxClock
  /\ faults \in 0..MaxFaults
  /\ resends \in 0..MaxResends

(* A request is answered at most once in the life of its ID, through cache *)
(* hits, upstream errors, crashes, Redis restarts and the recreation of    *)
(* the group from position 0: every duplicate on dns:resp is owed to an    *)
(* XADD that was re-sent.  The client's one-slot channels rely on it.      *)
OneResponse ==
  Len(resps) <= Cardinality({resps[i].id : i \in 1..Len(resps)}) + resends

(* What a response, an update or the shared cache holds is an answer for   *)
(* the key it is filed under, and a response carries the ID of a request   *)
(* for that key, whatever else is handled at the same time: clients match  *)
(* responses by ID and never look at the name in them.                     *)
AnswerMatchesRequest ==
  /\ \A j \in 1..Len(resps) :
       \E i \in 1..Len(reqs) :
          /\ reqs[i].id = resps[j].id
          /\ resps[j].wire # None => resps[j].wire.key = reqs[i].key
  /\ \A j \in 1..Len(pushes) : pushes[j].wire.key = pushes[j].key
  /\ \A k \in Keys : store[k] # None => store[k].key = k

(* The pending list is exactly the delivered requests whose handler has    *)
(* not come to its acknowledgement, or whose XACK failed: nothing is       *)
(* acknowledged before handle is through with it, malformed messages too   *)
(* leave the list.                                                         *)
PendingExact ==
  \A i \in Position : i > lost =>
     (i \in pel <=> hpc[i] \in Running \cup {"dead"})

(* No message is handed to a second handler, whichever of server and Redis *)
(* restart in between (ensureGroup starts a new group at "0").             *)
DeliveredOnce ==
  [][\A i \in Position : hpc'[i] = "get" => hpc[i] \in {"off", "get"}]_vars

(* Every request on the stream is handled to its end, unless Redis lost it *)
(* or a failure cut it short: in particular the workers come back from   *)
(* NOGROUP and no handler waits for another.                               *)
RequestHandled ==
  \A i \in Position :
     Len(reqs) >= i ~> hpc[i] \in {"done", "dead"} \/ i <= lost

=============================================================================
