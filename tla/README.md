# redis-dns: TLA+ models, checks and proofs

redis-dns answers DNS queries of a LAN through Redis: a client on the LAN keeps
an in-memory cache and writes what it does not know as a request to a Redis
stream; a server at the exit consumes the stream, answers from a shared Redis
cache or from an upstream resolver, writes a response to a second stream and
broadcasts what it resolved on a pub/sub channel. This directory models that
program, checks the models with TLC on small instances and proves with TLAPS
all the safety properties that the runs find to hold, of every component and of
client and server together, for every value of the constants.

## Inventory

| Part | Source | State | Operations | Talks to |
|---|---|---|---|---|
| client query path | `internal/client/client.go` | `local` (cache under `mu`), `sf` (singleflight), `waits` (pending table under `wmu`), one channel per request | `handle`, `resolveQuery`, `localGet`, `localSet`, `resolve`, `register`, `unregister` | `dns:req`, dispatcher (channels), subscriber (`local`) |
| client dispatcher | same | `lastID` | `runDispatcher`, `dispatch` | `dns:resp`, `waits`, channels |
| client subscriber | same | none | `runSubscriber` | `dns:updates`, `local` |
| backend switching | same, `follow.go` | `rdb`, `current` | `SwapRedis`, `RunFollow` | every goroutine of the client |
| frontends | same | none | `ListenAndServe`, `dohHandler`, `reply` | query path |
| server request path | `internal/server/server.go` | consumer group and its pending list, `dns:cache:*` | `Run`, `worker`, `ensureGroup`, `handle`, `cache`, `publish` | both streams, the channel, resolver |
| prefetch loop | same, `stats.go` | `next` schedule, `dns:hot:domains`, ranking | `prefetchSweep`, `prefetchDynamic`, `prefetchNextDelay` | cache, channel |
| query counter | `stats.go` | `countCh`, batch, `dns:count:q` | `countQuery`, `runCounter`, `Decay`, `Top` | handlers, prefetch |
| preferred-IP cache | `internal/resolver/pref.go`, `pref_redis.go` | hash `dns:pref:*` | `applyPref`, `storePref`, `LoadPref`, `StorePref`, `BumpPref` | race |
| answer race | `internal/resolver/race.go` | counters and best results of one race | `applyRace`, `pickWinner`, `narrow` | probes, preferred-IP cache |
| ICMP echo | `internal/resolver/icmp.go` | sequence number | `icmpPing` | race |
| upstream, TTLs | `internal/resolver/resolver.go` | none | `Resolve`, `MinTTL` | handlers, prefetch |
| configuration, formats, wiring | `config`, `proto`, `redisx`, `cmd` | none after start | defaults, parsing | all |

What is hard here, and what correctness means for it:

* **Goroutines over shared tables.** Every LAN query, every XADD, the dispatcher
  and the subscriber run concurrently. Identical queries must be merged into one
  flight and all get its result; responses must reach the query they belong to
  although they are matched by a random ID only; one dispatcher serves everybody
  and must not be held up by one query.
* **Timers against late answers.** A query gives up while its response is on the
  stream, with the dispatcher or already in the channel. An XADD may be reported
  as failed although it was written, and may be written twice.
* **Two caches and two paths.** Responses and pushes race to the local cache;
  order is decided by `resolved_at`. The property is that versions do not go back.
* **Failures.** The server is stopped between delivery and acknowledgement; Redis
  restarts without persistence and the group is gone; the response stream is
  trimmed; connections lose what was on its way.
* **Check, then act, over Redis.** The preferred-IP entry is loaded, judged and
  bumped in separate commands; it may expire or be replaced in between.
* **Switching backends.** `SwapRedis` replaces the pool under requests, a
  dispatcher and a subscriber that are blocked on the old one. What came from the
  old backend must die out and the new one must be heard, both in bounded time.
* **Deadlines against schedules.** A hot name is refreshed at 80% of a TTL by a
  loop that may be late; echoes are re-sent every 150 ms against a budget. Whether
  these meet is a matter of times, not of order alone.
* **Select among ready cases.** `pickWinner` collects probes against two timers,
  and `select` takes any ready case.

`PROJECT.json` lists each hazard at its line with the properties aimed at it.

## Modules

| Module | Models | Used by |
|---|---|---|
| `Client` | the client: query path, dispatcher, subscriber, against an abstract environment | `MCClient`, `ClientProofs`, `Relay` |
| `Service` | what a LAN host is promised: one final reply per query, for the name asked | `Client` |
| `Server` | the server: workers, handlers, XADD goroutines, prefetch loop, and the Redis structures it works on | `MCServer`, `ServerProofs`, `Relay` |
| `Relay` | one client and the server over one Redis; no environment left | `MCRelay`, `RelayProofs` |
| `Pref` | concurrent resolutions of a name over one preferred-IP entry | `MCPref`, `PrefProofs` |
| `PickWinner` | one race: probes, timers and the collecting loop | `MCPickWinner`, `PickProofs` |
| `IcmpPing` | one ICMP probe: the timed resend loop | `MCIcmpPing`, `IcmpProofs` |
| `Follow` | switching the client's backend, timed | `MCFollow`, `FollowProofs` |
| `Prefetch` | query counter, ranking, sweep schedule and TTLs, timed | `MCPrefetch`, `PrefetchProofs` |
| `ClientProofs`, `ServerProofs`, `PrefProofs`, `PickProofs`, `IcmpProofs`, `FollowProofs`, `PrefetchProofs` | theorems about the module of that name | tlapm; the first two also `RelayProofs` |
| `RelayProofs` | theorems about `Relay`, from those about its parts | tlapm |

In all of them an operator that stands directly before a definition and is used by
nobody (`NeverStale` before `Stale`) is that definition with a plausible mistake;
`PROJECT.json` pairs them with the property that must catch the mistake.

### Client

An action is what one goroutine does between two points where another can see or
change shared state; a critical section is one action, code outside any lock is
split. The places of a query are

    idle --LocalGet--> done | evict | miss      evict --LocalDelete--> miss
    miss --SfLead--> sending | --SfJoin--> follow
    sending --SelectXAdd--> acked | leaving     sending, acked --SelectResponse, SelectTimeout--> leaving
    leaving --ResolveReturn--> set | done (with all followers)    set --QuerySet--> done

`localGet` is two actions because it releases the read lock before it deletes. The
two nested `select`s of `resolve` are `sending` and `acked`. `ResolveReturn` is the
deferred `unregister` with the completion of the singleflight call. The unlocking
order is the code's: a response taken from the stream is looked up in `waits`
(`DispatcherRoute`) and sent on the channel in a later step (`DispatcherSend`), so
the query may leave in between. A query's own name serves as request ID since
`newID` draws 128 random bits. Streams are their whole history with a count of the
entries Redis has dropped; `lastID` is a position or `None` for `"$"`, which means
the end of the stream at the time of each call. Time appears as "a timer may fire"
and "an entry may pass its expiry". An error response and one without a wire are
the same to the client and to the model.

`EnvRespond`, `EnvLose` and `EnvPush` are all the rest of the world may do: answer
requests that are on the stream with data for the right key, lose entries, push
updates whose wire fits their key. `MaxSends` bounds how often one request is
written; with `UniqueResp` a request is answered once.

`Service` is the client seen from the LAN. `Client` implements it (`ServiceSpec`): `asked` is the key of a
query, `reply` its result once it is `done`. A step of `Service` moves several queries at once because the end of a
flight settles all its followers.

### Server

A handler is named by the position of its message in `dns:req`. Each Redis command
of `handle` is an action (`CacheGet`, `HitSend`, `HandleCache`, `HandlePublish`,
`Ack`), as is each clock reading that ends up in a response (`HitStamp`, `Resolve`,
`PrefetchPublish`). The XADD goroutine of a response lives in `outbox` and runs
beside the acknowledgement. Clock readings are distinct ticks; an answer carries the
tick of its resolution (`at`), which the program does not see, so that properties
can tell old data from a new stamp. Failures are a crash or a stop of the process,
a Redis restart without persistence, a lost XREADGROUP reply and a failed XACK, of which
there are at most `MaxFaults`; and an XADD that go-redis sends again, at most `MaxResends` times.
GET, SET, PUBLISH and XADD errors need no budget: the code ignores them and each is
an alternative of its action. `countQuery` is in `Prefetch`: nothing here reads it.

### Relay

`Relay` instantiates both modules over the same streams and channel. Its property
`ClientSpec` is `Client`'s whole specification: every step of the server must be a
step of the environment `Client` assumes. So the theorems of `ClientProofs`, proved
for that environment, hold against this server. `UniqueResp` is `MaxSends = 1`: a server
that never re-sends an XADD answers a request once. `MaxResps` is what the server can
write at most: a response for each request and one for each re-sent command.

### Pref and PickWinner

`Pref` has one hash, since keys are independent. HSET and EXPIRE of `StorePref` are
two steps (a pipeline is not a transaction); HINCRBY on a missing key creates a hash
that has only `hits`, which `LoadPref` reads as an entry without IP, aged (its
`updated` is missing) and without TTL. go-redis's default retries (`redisx.go:63` sets none of its own) may send an
HINCRBY again after a lost reply (`BumpAgain`, at most `MaxResends` times); Redis carries out the first copy then, at any later
time (`BumpLate`), or never. A pipeline that is sent again starts over at HSET. In `PickWinner` channels are sets, since a report
does not depend on others and every probe reports once; time has the instants that
matter: start, TCP deadline, end of the budget. Whether ICMP is used is a choice of `Init`. `heard` is a
history variable.

### The timed models

`Follow`, `Prefetch` and `IcmpPing` have a clock. In all three an action `Tick` lets time pass only when nothing is
ready to run, which states the assumption of their bounds: a goroutine that can go on does so within a unit of time.
`IcmpPing` relaxes it to a lag of `MaxLag` units; in `Prefetch` a sweep takes up to `MaxSweep`.

* **`Follow`.** Every switch makes a new pool, numbered in order; the last is `Client.rdb`. A pool of an
  address reads that address's stream, whose IDs come from its node's clock, `Skew` ahead of ours. A key stands for its
  one flight (`Client` has the coalescing) and goes `idle - sending - acked - idle` with the timer that runs.
  `Ahead` bounds how far one node's clock is ahead of another's.
  `lastID` survives a switch, as in the code. `RunFollow`'s poll is the guard `Moved`: its `current` is empty at first, so
  its first poll always switches.
* **`Prefetch`.** Times are kept as what is left of them, so no bound on time is needed. `next` has the keys `<name>` and
  `dyn|<name>` of the code as two functions. A score is the whole part of the decayed count, which `ZINCRBY` moves by one
  and a decay by at most one; ranks of equal whole parts are free. A flush is carried out up to some command, and
  when go-redis re-sends it, up to another once more; more sends would only count again what two of them counted too
  often. `asked` and `recounted` are history variables: how often a name was asked for, and which names that were asked
  for just once a re-sent flush counted more often. `Handled` is the cache write of a client request, which may have missed long before. `steady` is a
  history variable: the names for which the claim "never lapses" is made.
* **`IcmpPing`.** The socket's buffer is a set of packets that remember, for the properties only, when they came. Replies
  to any earlier echo may come at any time and again; a raw socket also gets those of other probes. The context may
  end before the budget does, when `pickWinner` returns and cancels it. A read may go on past
  its deadline when the packet was there first. At the deadline the loop may spin until the context's timer has run.

## Runs

| Run | Instance | States | Shows |
|---|---|---|---|
| `client_routing` | 2 queries, 2 keys, 1 foreign ID, 2 responses | 250 000 | `TypeOK`, `FlightDiscipline`, `AnswersQuestion`, `DispatcherNeverStuck`, `NoResponseSkipped`, `ServiceSpec` |
| `client_cache` | 2 queries, 1 key, 2 versions, 1 push queued, fair | 380 000 | `LocalVersionOrdered`, `QueryAnswered` |
| `client_duplicate` | one request may be written twice | | `DispatcherNeverStuck` **violated** |
| `server` | 2 requests, 2 keys, prefetch of one, 1 fault of any kind, 1 response sent twice, fair | 450 000 | `TypeOK`, `OneResponse`, `AnswerMatchesRequest`, `PendingExact`, `DeliveredOnce`, `RequestHandled` |
| `relay` | 1 query, prefetch, 1 fault | 500 000 | `AnswerSound`, `ClientSpec` |
| `relay_stale` | 1 query, prefetch, no fault | | `FresherStays` **violated** |
| `pref` | 2 resolutions, 3 addresses, failing Redis, 1 bump sent again | 2 900 000 | `TypeOK`, `NeverBroken`, `HitsBounded` |
| `pref_negative` | 2 resolutions, Redis without failures | | `NegativeBounded` **violated** |
| `pick_winner` | 2 addresses, 2 ports, with and without ICMP, fair | 830 000 | `TypeOK`, `BestWins`, `NotGivenUp`, `RaceEnds` |
| `follow` | 1 flight, 2 backends, 3 pools, clocks one unit apart, 2 responses, 6 units of time | 5 200 000 | `TypeOK`, `WaitBounded`, `OldAnswersBounded`, `Heard` |
| `prefetch` | 2 names, 1 of them listed, TTLs 10 and 1, sweeps of up to one interval | 880 000 | `TypeOK`, `CacheBounded`, `NeverLapses`, `PrefetchEarned` |
| `icmp` | budget of 10, windows of 3, lag 1, 5 echoes, 3 packets buffered | 190 000 | `TypeOK`, `RealRtt`, `NotDisqualified`, `EndsInTime` |

Bounds, and why they suffice for the questions asked:

* Two queries are enough for a leader and a follower of one key, for two leaders of
  different keys, and for a response of one being offered to the other. Two responses
  fill a batch (`ReadCount` 2) and leave one behind; a foreign ID gives responses
  nobody waits for. Two versions let a stale write meet a fresh one in either order.
* Two requests with `ReadCount` 2 come in one batch or in two. One fault is any of them at any point, beside a response
  sent twice. `MaxClock` bounds the readings of the clock: a request needs one, a refresh two, and a refresh starts
  only when it leaves one for every request to come (`Unstamped`), so the bound never holds up a handler. 3 readings
  let a refresh run beside the second request. `MaxPushes` is 0 in `server`, so what `AnswerMatchesRequest` says of
  updates is not exercised there; `relay` has pushes, and theorem `AnswersMatch` covers them. Neither run of `Relay` trims the
  response stream, for a single request has a single response: trimming is exercised against the client in `client_routing`, and that the
  server's trimming is what `Client` allows is part of theorem `RelayImplementsClient`.
* `relay` has a single query: what several queries do to each other is checked in
  `Client`, and what several requests do to each other in `Server`; here the question
  is whether the two fit together. Four clock readings let a second refresh start after the first was cut off by a crash,
  so that the data a query hits is not the oldest. With one key, the half of `AnswerSound` that is about keys cannot fail here; it
  is checked over two keys in `client_routing` and `server` and proved in `AnswersAreSound`. `relay_stale` needs three clock
  readings: the resolution of a refresh, that of a handler, and the stamp the refresh puts on its update.
* In `pref`, three addresses allow an entry to be in the answer of one resolution and
  not of the other; `RecheckHits` 2 is reached and overshot. One re-sent HINCRBY is enough for a copy that lands on a
  counter that was reset, on an entry that has become negative or on a key that has expired.
* In `pick_winner`, two ports and two addresses give every tier two candidates.
* In `follow`, three pools allow a switch away and back, the second while the first old pool is closing; the
  clocks differ by as much as the backoff. `Block` 2 is longer than `Grace` 1, so a query outlives the pool it was sent to.
  `BackoffLimit` equals `Pause`, so the backoff is constant: pools fail once between two responses, and a backoff that
  grows needs a dispatcher that fails repeatedly. Time stops at 6: a second switch at 2 has settled at 4, and a query then has
  time to wait for a response written after that. Later second switches, a third one and a growing backoff
  are beyond the run; theorem `HeardAgain` covers them.
* In `prefetch`, a sweep may take a whole interval and make the next late by one; 10 is the smallest TTL of which a fifth
  covers that. The second name has short answers, is listed and ranked, and competes for the one rank and the one
  member of the set. Scores up to 2 reach the threshold and are counted twice by one re-sent flush.
* In `icmp`, the budget holds three whole windows and one cut short; one echo more allows one spin at the deadline.

Symmetry is used in safety runs only, over queries, keys, resolvers or addresses, which the
specifications use only for equality. Deadlock checking is off where the system may
really stop: the server's requests, ticks and faults are bounded, and a race ends.

### Fairness

* `Client!QueryFairness`: a query goroutine that can run does, and a timer that was started
  fires. Nothing is assumed of the dispatcher, the XADD goroutine, Redis or the server, so
  `QueryAnswered` rests on the timers of `resolve` alone.
* `Server!Fairness`: handlers and workers run, and a stopped server is started again
  (`deploy/redis-dns-server.service` says `Restart=always`).
* `PickWinner!FairSpec`: the loop is scheduled and time passes; no probe needs to report.

### Disagreements with the documentation

1. `client_duplicate`: when a request is on the stream twice, a query that times out with the first response in
   its channel leaves the dispatcher blocked on the second (`client.go:412`), and no later
   query of that client is answered from the stream.
2. `relay_stale`: the prefetch loop stamps its update when it publishes it (`server.go:315`), not when it resolved the name.
   In the run it resolves at 1; a handler resolves the same name at 2 and pushes; the loop stamps its answer 3, and the client
   replaces the fresher answer by the older one. `README.md:97` of the repository says that "a stale pushed answer can never
   overwrite a fresher one". `LocalVersionOrdered` holds: stamps are ordered, data is not. A cache hit has the same
   weakness, which the run does not show because its way there is longer: a handler that has read an old entry stamps it with the
   time of the hit (`server.go:185`), perhaps after a fresher answer was resolved and pushed.
3. `pref_negative`: a bump of an entry that expired after it was loaded creates a negative entry
   without TTL (`pref_redis.go:68`), which nothing ever removes.

Others, visible in the models and not the subject of a run of their own:

* `block_time` is "how long to wait for a resolution response" (`config.client.example.yaml:10`) and the "wait timeout
  for a resolution response" (`config.go:22`). A query waits that long only while its XADD is not confirmed; the confirmation
  starts a second timer of the same length (`client.go:307`), and the query may wait for up to twice `block_time`.
  `WaitBounded` has both bounds.
* A message delivered just before a crash is neither handled nor acknowledged (`server.go:106` reads only `">"`),
  against "durable work queue" and "reliable" in `README.md`. `RequestHandled` and `PendingExact` therefore except it.
* With ICMP disabled a short TCP deadline still ends the race (`race.go:169`), against the comment at `race.go:173`.
* "New traffic uses the new backend immediately" (`client.go:81`) holds for requests, not for responses: the
  dispatcher hears the new backend only after the grace period and a backoff, and only above an ID the old one gave out.
  `Heard` has the bound, `Settling`.
* "A hot name never lapses while ranked" (`server.go:331`) and "soon enough that the entry never lapses"
  (`stats.go:79`): only if a fifth of the TTL covers the delay of a sweep, and only while nobody else writes the entry.
  A fixed refresh or a client's request may replace it by one with a shorter TTL, which the schedule of the ranked name does not notice.
* "Never outlives the real records" (`server.go:233`): a record of TTL 0 is skipped by `MinTTL`, so an answer with only
  such records is cached for the whole `cacheTTL`.
* "A single one-off query never qualifies" (`stats.go:37`): it does when go-redis re-sends the pipeline that counts it.
  `PrefetchEarned` excepts the names in `recounted`, which are exactly those.
* "A single dropped packet does not disqualify a healthy address" (`icmp.go:21`) holds; but an address whose
  round trip is longer than the read window of 150 ms never answers in time, however large the budget.

`BestWins` states one exception to the header comment of `race.go`: a loop that is not scheduled between
the TCP deadline and the end of the budget may take `ctx.Done` first and then prefers ICMP to a held TCP success.

## Proofs

`ClientProofs` proves, for every set of queries and keys, every batch size and all bounds:

| Theorem | Statement |
|---|---|
| `TypeCorrect` | `Spec => []TypeOK` |
| `FlightsDisciplined` | `Spec => []FlightDiscipline` |
| `QuestionsAnswered` | `Spec => []AnswersQuestion` |
| `DispatcherFree` | `Spec => [](UniqueResp => DispatcherNeverStuck)` |
| `DispatcherSkipsNothing` | `Spec => NoResponseSkipped` |
| `CacheVersioned` | `Spec => LocalVersionOrdered` |
| `ClientImplementsService` | `Spec => ServiceSpec` |

The only assumption is `ClientAssumption`: bounds are naturals, timestamps are naturals, a wire has a
key, IDs of this client and of others differ, and `None` is none of them.

*Types.* `TypeOK` is not inductive: `QuerySet` writes the cache with what the query holds and
`DispatcherRoute` reads the stream at `cur + 1`. `TypeInv` adds `QueryShape` (a query past `localGet`
has its key; one about to write the cache has an answer) and `DispatcherPosition` (where `lastID`, `cur`
and `upto` stand to each other and to the stream, for each place of the dispatcher). The last one also
says that between `lastID` and `cur` there is nothing but dropped entries, from which
`NoResponseSkipped` follows: `LastIDStep` shows that only `DispatcherRoute` moves `lastID`.

*Versions.* Every write of the cache is a `localSet`, an expiry or a deletion; lemma `LocalSetOrdered`
covers the first.

*Flights.* `FlightDiscipline` is inductive together with `TypeInv`. Its delicate step is `ResolveReturn`,
which releases exactly the followers of the key it removes.

*A free dispatcher.* `DispatcherNeverStuck` says nothing about how a slot came to be filled. `StuckInv` adds
`ChannelOrigin`: a response in a channel came from a position the dispatcher has passed, other than the
one it is about to send; and `ResponsesUnique`. Were the slot of the response at hand taken, there would be two responses with one ID. Without
`UniqueResp` the statement is false, as `client_duplicate` shows; `OneResponse` in `server` and `ClientSpec` in `relay` are
why it may be assumed of this server as long as no command is re-sent.

*Matching.* `MatchInv` follows the key of a query through everything under way: requests, responses, channels and
pushes (`StreamsMatch`), and uses that a query which has not begun has none of it (`BusyNotIdle`).

*Refinement.* `Service` sees `pc`, `key` and `result` only, so the proof goes through `Move`, what a step may do to
these of one query: nothing that shows, start it, refuse it, reply to it. `MoveStep` shows that every step is a move of
every query; it needs `AnswersQuestion` for the answers, and `ReplyInv` for the failures: a query that leaves `resolve` has
an outcome, one that has not begun has no key. `MoveMaps` puts the moves of all queries together into a step of `Service`.

`ServerProofs` proves, for every number of requests, keys, faults and re-sent commands and every batch size:

| Theorem | Statement |
|---|---|
| `ServerTypeCorrect` | `Spec => []TypeOK` |
| `PendingListExact` | `Spec => []PendingExact` |
| `HandledOnce` | `Spec => DeliveredOnce` |
| `AnswersMatch` | `Spec => []AnswerMatchesRequest` |
| `AnsweredOnce` | `Spec => []OneResponse` |

It assumes `ServerAssumption`: the bounds are naturals, batch size and MAXLEN are positive, prefetched names are keys, `None` is
no ID, key, number or answer.

*Delivery.* `DeliveryInv` ties the handlers to the group's cursor: of the requests Redis still has, exactly those up to
the cursor have a handler. It survives a Redis restart because everything written before is lost with the group, so
a group that starts at "0" starts behind all of it.

*Matching.* `MatchInv` follows an answer from the cache or the resolver through the handler and its XADD goroutine.

*One response.* `OneResponse` counts, and is not inductive: after a re-sent XADD the goroutine is still to report, and will
append the response again. `OnceInv` counts those too (`Twice`): responses written plus responses to be written a second time
stay within the distinct IDs plus the re-sent commands. It needs that a handler not yet ready to answer has no response
(`Unanswered`), and that request IDs are distinct.

`PrefProofs` proves, for every number of concurrent resolutions and of re-sent commands, every set of addresses and every threshold:

| Theorem | Statement |
|---|---|
| `PrefTypeCorrect` | `Spec => []TypeOK` |
| `AnswersNeverBroken` | `Spec => []NeverBroken` |
| `HitsStayBounded` | `Spec => []HitsBounded` |

It assumes `PrefAssumption`: the resolutions are finitely many, the threshold is positive, `None` is no address.

*Never broken.* An answer is narrowed one or more steps after the address was picked, so `PickAnswered` keeps the
relation in between: a resolution on its way has a non-empty answer, and the address it settled on is in it.

*Hits.* A bump may follow a load that saw a lower count, so `HitsBounded` is not inductive. `HitsInv` counts the bumps
still to come: hits plus `Cardinality(Bumpers)` plus the copies that Redis may yet carry out (`late`) stays within the bound, to
which every re-sent command (`resends`) adds one. A load adds a bumper only while the count is
below the threshold; a bump turns one bumper into one hit, a late copy one of `late` into one hit; a store resets the
count to 1 while its own goroutine is no bumper (`BumpersStrict`).

`PickProofs` proves, for every number of addresses and ports, all round trips and all settings of the timers:

| Theorem | Statement |
|---|---|
| `RaceTypeCorrect` | `Spec => []TypeOK`, which says that the two counters are right |
| `BestAlwaysWins` | `Spec => []BestWins` |
| `NobodyGivenUp` | `Spec => []NotGivenUp` |

It assumes `PickAssumption`: finitely many addresses, at least one port, a positive budget, `None` is no report.

*Counters.* A report is new to its channel because its probe was still running (`ProbesInv`); hence it is counted once.

*Winner.* `BestWins` and `NotGivenUp` speak of the end of a race only. `HeldInv` says what they rest on before: `fallback`
and `bestICMP` are the fastest of what was heard in their tiers, no first port was heard, and once TCP is over (`~tcpLive`)
no fallback is held and TCP is indeed finished or late. The exception of `BestWins` comes from `RecvDone`, where a
fallback may be held only if the deadline was not read.

`IcmpProofs` proves, for every retry interval, budget, lag and buffer size:

| Theorem | Statement |
|---|---|
| `IcmpTypeCorrect` | `Spec => []TypeOK` |
| `RttIsReal` | `Spec => []RealRtt` |
| `NobodyDisqualified` | `Spec => []NotDisqualified` |
| `EndsWithBudget` | `Spec => []EndsInTime` |

It assumes `IcmpAssumption`: the interval and the budget are positive, `None` is no packet.

*Lag.* None of the three says how late the goroutine is now, which is what decides whether a read or its timeout comes first. `InboxInv` says
that no packet has waited longer than the present lag, `BudgetInv` the same of the end of the budget. From the first,
`WindowInv`: when a read times out, a reply more than `MaxLag` before the end of the window cannot be in the buffer.

`FollowProofs` proves, for every set of keys and backends, any clocks, any number of switches and all settings of the timers:

| Theorem | Statement |
|---|---|
| `TypeCorrect` | `Spec => []TypeOK` |
| `WaitIsBounded` | `Spec => []WaitBounded` |
| `OldAnswersAreBounded` | `Spec => []OldAnswersBounded` |
| `HeardAgain` | `Spec => Heard` |

It assumes `FollowAssumption`: the times are positive, no clock is more than `Ahead` ahead of another, `None` is no address or number.

*Waiting.* `TimerInv`: the first timer is set when the query is asked, the second while the first runs, and time waits for both.

*The old backend.* `GraceInv` says that time does not pass the closing of a replaced pool, nor what came through it: a
response in a channel, a reader left on it. With `SwapOrder` (pools are replaced in order, so what is cached after the
last switch is later than any earlier one) `OldAnswersBounded` becomes inductive.

*Hearing the new one.* `Heard` speaks of the moment a query gives up. `HeardInv` speaks of every pending response before that: it is
found within the unit of time in which it was written, unless it was written within `Settling` of the switch, and only such an early one may lie
at or below the ID that the dispatcher reads after. That rests on where this ID came from. `PositionInv`: it is
one of the stream in use, or was given out by some node before the old pool closed, hence by a clock at most `Ahead`
ahead of the new node's; and the dispatcher's last backoff ends `MaxBackoff` after the closing. `StreamInv` ties the IDs of
a stream to its node's clock.

`PrefetchProofs` proves, for every set of names, all answers upstream may give, and every interval, limit and duration of a sweep:

| Theorem | Statement |
|---|---|
| `TypeCorrect` | `Spec => []TypeOK` |
| `CacheIsBounded` | `Spec => []CacheBounded` |
| `RefreshIsEarned` | `Spec => []PrefetchEarned` |
| `SteadyNeverLapses` | `Spec => []NeverLapses` |

It assumes `PrefetchAssumption`: finitely many names, positive intervals and queue sizes, answers are sets of TTLs, and
`MinScore` is at least 2, the value of `minPrefetchScore` (`RefreshIsEarned` is false for 1).

*Counts.* Scores, queue and batch are bounded together (`CountBound`), since a flush moves what is in the batch to the scores. For
the same reason `FewCounts` counts a name in all three: with one query there is one count, unless a re-sent flush made it more. `TodoEarned` carries it from
the ranking to the name that is being refreshed, which may have lost its rank meanwhile.

*Lapsing.* `NeverLapses` is false step by step without knowing the time that is left. `InTime` has it for each place of the loop:
a name not yet due has `Slack` beyond its delay; one that is due and that the running sweep gets to has the rest
of this sweep; one that was passed over before it was due has until the next sweep is through. A fifth of the TTL is what
`prefetchNextDelay` leaves beyond the delay, and `steady` names have at least `Slack` there.

`RelayProofs` proves, for every set of queries and keys and every number of requests, refreshes, faults and re-sent commands:

| Theorem | Statement |
|---|---|
| `RelayImplementsClient` | `Spec => ClientSpec` |
| `AnswersAreSound` | `Spec => []AnswerSound` |
| `DispatcherFreeInRelay` | `Spec => [](MaxSends = 1 => C!DispatcherNeverStuck)` |
| `RelayImplementsService` | `Spec =>` `Client`'s `ServiceSpec` |

It assumes `RelayAssumption`, from which `PartAssumptions` derives those of the two parts.

*Composition.* The module instantiates `ClientProofs` and `ServerProofs` and uses their step lemmas. (`SameClient` and its like say that
these instances and those in `Relay` are the same actions.) `RelayInv` has the parts' invariants and what neither part knows
alone. `Due` are the positions of the request stream that have a response coming. `CountInv` counts them with the responses written:
there is always room for one more in `MaxResps`. `UniqueInv`, for `MaxSends = 1`: an ID has one position, and one that is due has no
response yet. `HandOver` keeps a handler and its XADD goroutine from both giving one. `ServerMove` sums up what a step of the
server can do to the streams and to `Due`; `MoveIsEnvironment` shows each such move to be one of `EnvRespond`, `EnvPush`,
`EnvLose` or nothing, and `ClientMove` does the like for the server's view of the client.

*Stamps.* `StampInv` follows an answer with its stamp from the resolver through the cache, the handlers and the prefetch loop
(`HeldSound`: nothing the server holds is newer than its clock), the stream and the channel (`StreamsSound`) into the client's
channels, results and cache (`ClientSound`). That an answer is for the key asked comes from `QuestionsAnswered` by refinement.

Only model-checked: liveness (`QueryAnswered`, `RequestHandled`, `RaceEnds`), since fairness is beyond the
prover's reach. The three violated properties have counterexamples instead.

## Not modelled

* Socket, HTTP and JSON handling, configuration parsing, logging, keepalive pings, and `main`: no state the
  properties could be about. Names are keys: lower-casing and the question section are not modelled.
* The upstream exchange: one call of the DNS library, a choice of answer or error here.
* The last flush of the query counter when the process stops, and ranking members that do not parse.
* Restarts of Redis that lose only the last moments (the shipped `redis.conf` has AOF with `everysec`): a restart
  in `Server` loses everything.
* In `Pref`, a first copy of a re-sent store pipeline that Redis carries out after the goroutine has gone on.
* In `IcmpPing`, read errors other than the timeout, which also make the loop send its next echo (`icmp.go:78`); the claim of
  `NotDisqualified` is for a socket that works.
* Several clients: they share only the response stream and the update channel; others appear as foreign IDs.
* In `Follow`, failures of Redis other than the closing of a pool; `Client` has them.

## Plan

1. Done: a model, runs and proofs for every component with state: `Client` and `Service`, `Server`, `Relay`, `Pref`,
   `PickWinner`, `IcmpPing`, `Follow`, `Prefetch` and their proof modules. Every invariant and every safety property of a
   passing run is a theorem.
2. Left: what of `Relay` the theorems about `Server` say on their own (`OneResponse` assumes fresh request IDs, which
   the client gives for `MaxSends` 1 only), and several clients on one response stream.
