------------------------------ MODULE Prefetch ------------------------------
(***************************************************************************)
(* What the server keeps warm and for how long: the query counter and the  *)
(* ranking (internal/server/stats.go), the prefetch sweep over fixed and   *)
(* ranked names and the TTL of what it caches (internal/server/server.go,  *)
(* internal/resolver/resolver.go).  Module Server has the effect of a      *)
(* refresh on clients; here are its times.                                 *)
(*                                                                         *)
(* Every time is kept as what is left of it, so the model needs no bound   *)
(* on time.  The unit divides the sweep interval; the counter's 10 ms      *)
(* ticker is faster than the unit, so counts have left queue and batch     *)
(* when time passes.  A score is the whole number of queries in the        *)
(* decayed count; the half-life is so long that a sweep takes at most one  *)
(* off.  Names whose scores differ in the fraction only may rank either    *)
(* way.                                                                    *)
(***************************************************************************)
EXTENDS Integers, Sequences, FiniteSets, SequencesExt

CONSTANTS Names,       \* names asked for, or listed in dns:hot:domains
          Fixed,       \* those listed
          Every,       \* their refresh interval
          Sweep,       \* Server.prefetch, the interval of the ticker
          MaxSweep,    \* a sweep takes at most this long
          Hour,        \* the longest a refresh is put off
          TopN,        \* Server.topN
          MinScore,    \* minPrefetchScore (2.0)
          MaxMembers,  \* maxCountMembers
          QueueSize,   \* countQueueSize
          BatchSize,   \* counts flushed at once (256 in the code)
          CacheTTL,    \* Server.cacheTTL
          NegTTL,      \* Server.negTTL
          Answers,     \* [name -> answers upstream may give], see Values
          MaxScore,    \* bound: score
          None         \* no value

ASSUME PrefetchAssumption ==
  /\ IsFiniteSet(Names) /\ Fixed \subseteq Names
  /\ Every \in Nat \ {0} /\ Sweep \in Nat \ {0} /\ MaxSweep \in Nat
  /\ Hour \in Nat \ {0}
  /\ TopN \in Nat /\ MinScore \in Nat \ {0, 1} /\ MaxMembers \in Nat
  /\ QueueSize \in Nat \ {0} /\ BatchSize \in Nat \ {0}
  /\ CacheTTL \in Nat /\ NegTTL \in Nat /\ MaxScore \in Nat
  /\ Answers \in [Names -> SUBSET [nx : BOOLEAN, answer : SUBSET Nat, ns : SUBSET Nat]]
  /\ None \notin Names /\ None \notin [answer : UNION Range(Answers), left : Nat]

VARIABLES
  queue,     \* countCh
  batch,     \* runCounter's batch
  score,     \* dns:count:q; 0 for no member
  asked,     \* history: how often a name was asked for, 2 standing for more
  recounted, \* history: names asked for just once, which a flush that was
             \* sent again counted more often
  untilTick, \* time left to the next tick of the sweep ticker
  tick,      \* the ticker's channel holds a tick
  phase,     \* "idle", or the part of the sweep that runs: "fixed", "dyn"
  todo,      \* names that part has yet to visit
  job,       \* the name being resolved
  spent,     \* time the sweep has taken so far
  next,      \* [part -> [name -> time left until it is due, 0 for due]]
  store,     \* [name -> answer in the Redis cache and time it has left]
  steady     \* history: names whose last refresh was stored with a long TTL,
             \* and since then not cut short, nor failed or passed over by a
             \* sweep

countVars == <<queue, batch, score, asked, recounted>>
sweepVars == <<phase, todo, job, spent>>
clockVars == <<untilTick, tick>>
vars == <<countVars, sweepVars, clockVars, next, store, steady>>

-----------------------------------------------------------------------------
(* TTLs.  An answer is its rcode and, per section, the TTL values its      *)
(* records contribute: a SOA in the authority section has two, its own TTL *)
(* and Minttl, every other record one.                                     *)

Values(a) == a.answer \cup a.ns

ConsiderAll(ttl) == TRUE

(* consider() skips a TTL of 0. *)
Consider(ttl) == ttl > 0

(* 0 when no TTL could be determined. *)
MinTTL(a) ==
  LET considered == {ttl \in Values(a) : Consider(ttl)} IN
  IF considered = {} THEN 0 ELSE Min(considered)

(* The TTL cache() uses; 0 means that nothing is stored. *)
TTL(a) ==
  LET ttl == IF a.nx THEN NegTTL ELSE CacheTTL IN
  IF ttl > 0 /\ MinTTL(a) > 0 /\ MinTTL(a) < ttl THEN MinTTL(a) ELSE ttl

(* prefetchNextDelay: 80% of the TTL, never less than a sweep, never more  *)
(* than an hour.  It is rounded up: due at the next instant of the model.  *)
WholeTTL(ttl) == Min({Max({ttl, Sweep}), Hour})

NextDelay(ttl) ==
  IF ttl = 0 THEN Sweep ELSE Min({Max({(4 * ttl + 4) \div 5, Sweep}), Hour})

-----------------------------------------------------------------------------

Init ==
  /\ queue = <<>> /\ batch = <<>>
  /\ score = [n \in Names |-> 0]
  /\ asked = [n \in Names |-> 0]
  /\ recounted = {}
  /\ untilTick = Sweep /\ tick = FALSE
  /\ phase = "idle" /\ todo = {} /\ job = None /\ spent = 0
  /\ next = [p \in {"fixed", "dyn"} |-> [n \in Names |-> 0]]
  /\ store = [n \in Names |-> None]
  /\ steady = {}

Times(n, members) == Cardinality({i \in DOMAIN members : members[i] = n})

(* countQuery: a count that finds the queue full is dropped. *)
CountQuery(n) ==
  /\ score[n] + Times(n, queue) + Times(n, batch) < MaxScore
  /\ queue' = IF Len(queue) < QueueSize THEN Append(queue, n) ELSE queue
  /\ asked' = [asked EXCEPT ![n] = IF @ < 2 THEN @ + 1 ELSE @]
  /\ recounted' = IF asked'[n] = 2 THEN recounted \ {n} ELSE recounted
  /\ UNCHANGED <<batch, score, sweepVars, clockVars, next, store, steady>>

(* cache: SET replaces the entry, a TTL of 0 leaves it alone; an error is  *)
(* only logged.                                                            *)
Cached(n, a) ==
  \/ TTL(a) > 0 /\ store' = [store EXCEPT ![n] = [answer |-> a, left |-> TTL(a)]]
  \/ UNCHANGED store

(* A write that cuts an entry short takes its name out of steady.          *)
Lasting == {n \in steady : store'[n] = store[n] \/ store'[n].left >= store[n].left}

(* A request that missed the Redis cache, or could not read it, resolves   *)
(* and caches its answer.  It may have been asked any time before.         *)
Handled(n, a) ==
  /\ asked[n] > 0
  /\ a \in Answers[n]
  /\ Cached(n, a)
  /\ steady' = Lasting
  /\ UNCHANGED <<countVars, sweepVars, clockVars, next>>

(* The pipeline of ZINCRBYs: carried out up to some command, and once more *)
(* up to another when go-redis re-sends it after an error.  (A third and a *)
(* fourth send could only count again what two of them counted twice.)     *)
Counted(members) ==
  score' = [n \in Names |-> score[n] + Times(n, members)]

Pipeline(members) ==
  \E i, j \in 0..Len(members) :
    LET sent == SubSeq(members, 1, i) \o SubSeq(members, 1, j)
        twice == {n \in Names : Times(n, sent) > Times(n, members)} IN
    /\ Counted(sent)
    /\ \A n \in twice : score'[n] + Times(n, queue) <= MaxScore
    /\ recounted' = recounted \cup {n \in twice : asked[n] < 2}

(* Whatever came of it, the batch is empty afterwards. *)
Flush(members) == Pipeline(members) /\ batch' = <<>>

FullLate(members) == Len(members) > BatchSize

Full(members) == Len(members) >= BatchSize

CounterTake ==
  /\ queue # <<>>
  /\ queue' = Tail(queue)
  /\ LET members == Append(batch, Head(queue)) IN
       IF Full(members)
       THEN Flush(members)
       ELSE batch' = members /\ UNCHANGED <<score, recounted>>
  /\ UNCHANGED <<asked, sweepVars, clockVars, next, store, steady>>

CounterTickRetries ==
  /\ batch # <<>>
  /\ \/ Flush(batch)
     \/ /\ \E i \in 0..Len(batch) : Counted(SubSeq(batch, 1, i))
        /\ \A n \in Names : score'[n] + Times(n, queue) + Times(n, batch) <= MaxScore
        /\ UNCHANGED <<batch, recounted>>
  /\ UNCHANGED <<queue, asked, sweepVars, clockVars, next, store, steady>>

CounterTick ==
  /\ batch # <<>>
  /\ Flush(batch)
  /\ UNCHANGED <<queue, asked, sweepVars, clockVars, next, store, steady>>

-----------------------------------------------------------------------------
(* The sweep.                                                              *)

(* The k names of S that rank highest: any choice the scores allow.        *)
Highest(S, k) ==
  {T \in SUBSET S : /\ Cardinality(T) = Min({k, Cardinality(S)})
                    /\ \A n \in T, m \in S \ T : score[n] >= score[m]}

Top == Highest({n \in Names : score[n] > 0 /\ score[n] >= MinScore}, TopN)

(* The ticker fires; when HGETALL fails the whole sweep is given up.       *)
SweepStart ==
  /\ phase = "idle" /\ tick
  /\ tick' = FALSE
  /\ \/ /\ phase' = "fixed" /\ todo' = Fixed
        /\ UNCHANGED steady
     \/ /\ steady' = {}
        /\ UNCHANGED <<phase, todo>>
  /\ UNCHANGED <<countVars, job, spent, untilTick, next, store>>

(* A fixed name is resolved unless it is scheduled for later.              *)
FixedVisit(n) ==
  /\ phase = "fixed" /\ job = None
  /\ n \in todo
  /\ todo' = todo \ {n}
  /\ job' = IF next["fixed"][n] > 0 THEN None ELSE n
  /\ UNCHANGED <<countVars, phase, spent, clockVars, next, store, steady>>

(* dueDynamic. *)
Due(top) == {n \in top : next["dyn"][n] = 0}

(* The ranking and the clock are read once for all ranked names; or the    *)
(* ranking cannot be read.                                                 *)
DynamicStart ==
  /\ phase = "fixed" /\ job = None /\ todo = {}
  /\ phase' = "dyn"
  /\ \/ \E top \in Top :
          /\ todo' = Due(top)
          /\ steady' = steady \cap top
     \/ /\ UNCHANGED todo
        /\ steady' = {}
  /\ UNCHANGED <<countVars, job, spent, clockVars, next, store>>

DynamicVisit(n) ==
  /\ phase = "dyn" /\ job = None
  /\ n \in todo
  /\ todo' = todo \ {n}
  /\ job' = n
  /\ UNCHANGED <<countVars, phase, spent, clockVars, next, store, steady>>

(* A sweep that starts as late as it can still ends this long after a      *)
(* refresh fell due.                                                       *)
Slack == Max({Sweep, MaxSweep}) + MaxSweep

Delay(a) == IF phase = "fixed" THEN Every ELSE NextDelay(TTL(a))

(* The answer is cached and the name scheduled anew.                       *)
Refresh(a) ==
  /\ job # None
  /\ a \in Answers[job]
  /\ Cached(job, a)
  /\ next' = [next EXCEPT ![phase][job] = Delay(a)]
  /\ steady' = IF phase = "fixed" THEN Lasting
               ELSE IF /\ TTL(a) >= 5 * Slack
                       /\ store'[job] = [answer |-> a, left |-> TTL(a)]
                    THEN steady \cup {job} ELSE steady \ {job}
  /\ job' = None
  /\ UNCHANGED <<countVars, phase, todo, spent, clockVars>>

(* It did not resolve: a fixed name stays due, a ranked one waits a sweep; *)
(* or the answer cannot be packed, and both stay due.                      *)
RefreshFail ==
  /\ job # None
  /\ \/ UNCHANGED next
     \/ phase = "dyn" /\ next' = [next EXCEPT !["dyn"][job] = Sweep]
  /\ steady' = IF phase = "fixed" THEN steady ELSE steady \ {job}
  /\ job' = None
  /\ UNCHANGED <<countVars, phase, todo, spent, clockVars, store>>

(* A panic is recovered from and ends the sweep, without decay.            *)
SweepPanic ==
  /\ job # None
  /\ phase' = "idle" /\ todo' = {} /\ job' = None /\ spent' = 0
  /\ steady' = {}
  /\ UNCHANGED <<countVars, clockVars, next, store>>

(* Decay: scores shrink, the smallest members and those beyond the cap are *)
(* dropped; or it fails.                                                   *)
Decay ==
  \/ \E d \in [Names -> {0, 1}] :
       \E kept \in Highest({n \in Names : score[n] > d[n]}, MaxMembers) :
         score' = [n \in Names |-> IF n \in kept THEN score[n] - d[n] ELSE 0]
  \/ UNCHANGED score

SweepEnd ==
  /\ phase = "dyn" /\ job = None /\ todo = {}
  /\ Decay
  /\ phase' = "idle" /\ spent' = 0
  /\ UNCHANGED <<queue, batch, asked, recounted, todo, job, clockVars, next, store, steady>>

-----------------------------------------------------------------------------
(* Time passes when nothing is ready to run; a resolution takes its time.  *)

Less(t) == IF t > 0 THEN t - 1 ELSE 0

Aged(e) == IF e = None \/ e.left = 1 THEN None ELSE [e EXCEPT !.left = @ - 1]

Tick ==
  /\ queue = <<>> /\ batch = <<>>
  /\ \/ phase = "idle" /\ ~tick /\ UNCHANGED spent
     \/ job # None /\ spent < MaxSweep /\ spent' = spent + 1
  /\ untilTick' = IF untilTick = 1 THEN Sweep ELSE untilTick - 1
  /\ tick' = (tick \/ untilTick = 1)
  /\ next' = [p \in DOMAIN next |-> [n \in Names |-> Less(next[p][n])]]
  /\ store' = [n \in Names |-> Aged(store[n])]
  /\ UNCHANGED <<countVars, phase, todo, job, steady>>

Next ==
  \/ \E n \in Names : CountQuery(n) \/ FixedVisit(n) \/ DynamicVisit(n)
  \/ \E n \in Names : \E a \in Answers[n] : Handled(n, a)
  \/ CounterTake \/ CounterTick
  \/ SweepStart \/ DynamicStart \/ SweepEnd
  \/ \E a \in UNION Range(Answers) : Refresh(a)
  \/ RefreshFail \/ SweepPanic
  \/ Tick

Spec == Init /\ [][Next]_vars

-----------------------------------------------------------------------------
(* Properties.                                                             *)

Entries == [answer : UNION Range(Answers), left : 1..Max({CacheTTL, NegTTL})]

(* Every variable keeps its type; countCh and the batch of runCounter keep *)
(* their bounds, whatever the interleaving of queries, ticks and flushes.  *)
TypeOK ==
  /\ queue \in Seq(Names) /\ Len(queue) <= QueueSize
  /\ batch \in Seq(Names) /\ Len(batch) < BatchSize
  /\ score \in [Names -> 0..MaxScore]
  /\ asked \in [Names -> 0..2] /\ recounted \subseteq Names
  /\ untilTick \in 1..Sweep /\ tick \in BOOLEAN
  /\ phase \in {"idle", "fixed", "dyn"}
  /\ todo \subseteq Names /\ job \in Names \cup {None} /\ spent \in 0..MaxSweep
  /\ next \in [{"fixed", "dyn"} -> [Names -> 0..Max({Every, Hour, Sweep})]]
  /\ store \in [Names -> Entries \cup {None}]
  /\ steady \subseteq Names

(* What cache() stores is never kept longer than any record in it that has *)
(* a TTL, nor than the SOA of a negative answer says, nor than cacheTTL,   *)
(* or negTTL for NXDOMAIN.  A TTL of 0 counts as none.                     *)
CacheBounded ==
  \A n \in Names : store[n] # None =>
    LET e == store[n] IN
    /\ e.left <= IF e.answer.nx THEN NegTTL ELSE CacheTTL
    /\ \A ttl \in Values(e.answer) \ {0} : e.left <= ttl

(* prefetchDynamic refreshes a name in time as long as it stays ranked and *)
(* its refreshes succeed: its answer never lapses from the Redis cache     *)
(* (unless a request or the fixed list replaced it by a shorter one),      *)
(* provided a fifth of its TTL covers how late a sweep can be.  (The       *)
(* comment above prefetchDynamic says so of every TTL; shorter ones do     *)
(* lapse.)                                                                 *)
NeverLapses == \A n \in steady : store[n] # None

(* A name that prefetchDynamic refreshes was asked for more than once, or  *)
(* it owes a count to a flush that was sent again: no single query gets a  *)
(* name refreshed by being counted in the queue, in the batch and in the   *)
(* set, dropped, decayed and ranked.  The exception is real: the comment   *)
(* on minPrefetchScore says that a one-off query never qualifies.          *)
PrefetchEarned == phase = "dyn" /\ job # None => asked[job] = 2 \/ job \in recounted

=============================================================================
