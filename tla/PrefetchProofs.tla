--------------------------- MODULE PrefetchProofs ---------------------------
(***************************************************************************)
(* Proofs about module Prefetch, for any names, answers and TTLs, and any  *)
(* setting of the intervals and limits.                                    *)
(***************************************************************************)
EXTENDS Prefetch, FiniteSetTheorems, WellFoundedInduction, TLAPS

(* Between two sweeps nothing is left over of the last one. *)
SweepShape == phase = "idle" => todo = {} /\ job = None /\ spent = 0

(* No name can be counted beyond the bound, whatever is under way.         *)
CountBound == \A n \in Names : score[n] + Times(n, queue) + Times(n, batch) <= MaxScore

(* The inductive invariant behind type correctness. *)
TypeInv == TypeOK /\ SweepShape /\ CountBound

(* The running sweep gets to the name. *)
InSweep(n) == phase = "fixed" \/ (phase = "dyn" /\ (n \in todo \/ n = job))

(* A steady name that is not due has the slack beyond its delay.  One that *)
(* is due has the rest of the running sweep, if that gets to it, or else   *)
(* the time to the end of the next one: the rest of this sweep or of the   *)
(* ticker's interval, and then a whole sweep.                              *)
InTime(n) ==
  LET left == store[n].left
      delay == next["dyn"][n] IN
  /\ store[n] # None
  /\ delay > 0 => left >= delay + Slack
  /\ delay = 0 /\ InSweep(n) => left > MaxSweep - spent
  /\ delay = 0 /\ ~InSweep(n) =>
       /\ phase = "idle" => left > MaxSweep
       /\ phase = "dyn" => left > (MaxSweep - spent) + MaxSweep
       /\ ~tick => left > untilTick + MaxSweep

SteadyInv == \A n \in steady : InTime(n)

-----------------------------------------------------------------------------
(* Minima and maxima.                                                      *)

(* The order of the numbers is well-founded. *)
LEMMA NatOrder ==
  \E R : IsWellFoundedOn(R, Nat) /\ \A x, y \in Nat : y < x => <<y, x>> \in R
<1> WITNESS OpToRel(<, Nat)
<1>1. IsWellFoundedOn(OpToRel(<, Nat), Nat)
  BY NatLessThanWellFounded
<1>2. \A x, y \in Nat : y < x => <<y, x>> \in OpToRel(<, Nat)
  BY DEF OpToRel
<1> QED
  BY <1>1, <1>2

(* A set of numbers that is not empty has a least one. *)
LEMMA MinNat ==
  ASSUME NEW S \in SUBSET Nat, S # {}
  PROVE  Min(S) \in S /\ \A x \in S : Min(S) <= x
<1>1. PICK R : IsWellFoundedOn(R, Nat) /\ \A x, y \in Nat : y < x => <<y, x>> \in R
  BY NatOrder
<1>2. PICK x \in S : \A y \in S : ~ (<<y, x>> \in R)
  BY <1>1, WFMin
<1>3. ASSUME NEW y \in S
      PROVE  x <= y
  <2>1. x \in Nat /\ y \in Nat
    OBVIOUS
  <2>2. ~ (y < x)
    BY <1>1, <1>2, <2>1
  <2> QED
    BY <2>1, <2>2
<1> QED
  BY <1>3 DEF Min

(* The smaller of two numbers. *)
LEMMA MinTwo ==
  ASSUME NEW x \in Int, NEW y \in Int
  PROVE  Min({x, y}) = IF x <= y THEN x ELSE y
BY DEF Min

(* The larger of two. *)
LEMMA MaxTwo ==
  ASSUME NEW x \in Int, NEW y \in Int
  PROVE  Max({x, y}) = IF x >= y THEN x ELSE y
BY DEF Max

(* The largest of three. *)
LEMMA MaxThree ==
  ASSUME NEW x \in Int, NEW y \in Int, NEW z \in Int
  PROVE  /\ Max({x, y, z}) \in {x, y, z}
         /\ Max({x, y, z}) >= x /\ Max({x, y, z}) >= y /\ Max({x, y, z}) >= z
<1>1. \E m \in {x, y, z} : \A i \in {x, y, z} : m >= i
  OBVIOUS
<1> QED
  BY <1>1 DEF Max

-----------------------------------------------------------------------------
(* How often a name occurs in the queue or the batch.                      *)

(* Where it occurs. *)
Places(n, members) == {i \in DOMAIN members : members[i] = n}

(* They can be counted. *)
LEMMA PlacesFinite ==
  ASSUME NEW members \in Seq(Names), NEW n
  PROVE  /\ IsFiniteSet(Places(n, members))
         /\ Times(n, members) = Cardinality(Places(n, members))
         /\ Times(n, members) \in Nat
<1>1. Len(members) \in Nat /\ DOMAIN members = 1..Len(members)
  OBVIOUS
<1>2. IsFiniteSet(1..Len(members))
  BY <1>1, FS_Interval
<1>3. Places(n, members) \subseteq 1..Len(members)
  BY <1>1 DEF Places
<1>4. IsFiniteSet(Places(n, members))
  BY <1>2, <1>3, FS_Subset
<1> QED
  BY <1>4, FS_CardinalityType DEF Times, Places

(* The empty queue holds no count, and one in which a name does not occur  *)
(* none for that name.                                                     *)
LEMMA TimesNone ==
  ASSUME NEW members \in Seq(Names), NEW n, \A i \in 1..Len(members) : members[i] # n
  PROVE  Times(n, members) = 0
<1>1. {i \in DOMAIN members : members[i] = n} = {}
  OBVIOUS
<1> QED
  BY <1>1, FS_EmptySet DEF Times

(* A count that is queued, or taken into the batch. *)
LEMMA TimesAppend ==
  ASSUME NEW members \in Seq(Names), NEW m \in Names, NEW n
  PROVE  Times(n, Append(members, m)) = Times(n, members) + IF m = n THEN 1 ELSE 0
<1> DEFINE longer == Append(members, m)
           last == Len(members) + 1
<1>1. /\ longer \in Seq(Names) /\ Len(members) \in Nat /\ Len(longer) = last
      /\ longer[last] = m /\ \A i \in 1..Len(members) : longer[i] = members[i]
  OBVIOUS
<1>2. DOMAIN members = 1..Len(members) /\ DOMAIN longer = 1..last
  BY <1>1
<1> HIDE DEF longer
<1>3. CASE m = n
  <2>1. Places(n, longer) = Places(n, members) \cup {last}
    BY <1>1, <1>2, <1>3 DEF Places
  <2>2. last \notin Places(n, members)
    BY <1>1, <1>2 DEF Places
  <2>3. Cardinality(Places(n, longer)) = Cardinality(Places(n, members)) + 1
    BY <2>1, <2>2, PlacesFinite, FS_AddElement
  <2>4. Times(n, longer) = Cardinality(Places(n, longer))
    BY <1>1, PlacesFinite
  <2>5. Times(n, members) = Cardinality(Places(n, members))
    BY PlacesFinite
  <2> QED
    BY <1>3, <2>3, <2>4, <2>5 DEF longer
<1>4. CASE m # n
  <2>1. Places(n, longer) = Places(n, members)
    BY <1>1, <1>2, <1>4 DEF Places
  <2>2. Times(n, longer) = Cardinality(Places(n, longer))
    BY <1>1, PlacesFinite
  <2>3. Times(n, members) = Cardinality(Places(n, members)) /\ Times(n, members) \in Nat
    BY PlacesFinite
  <2> QED
    BY <1>4, <2>1, <2>2, <2>3 DEF longer
<1> QED
  BY <1>3, <1>4

(* A count that leaves the queue. *)
LEMMA TimesTail ==
  ASSUME NEW members \in Seq(Names), members # <<>>, NEW n
  PROVE  Times(n, members) = Times(n, Tail(members)) + IF Head(members) = n THEN 1 ELSE 0
<1> DEFINE rest == Tail(members)
           S == Places(n, rest)
           T == Places(n, members) \ {1}
           f == [i \in S |-> i + 1]
<1>1. /\ rest \in Seq(Names) /\ Len(members) \in Nat \ {0} /\ Len(rest) = Len(members) - 1
      /\ \A i \in 1..Len(rest) : rest[i] = members[i + 1]
      /\ Head(members) = members[1]
  OBVIOUS
<1>2. DOMAIN members = 1..Len(members) /\ DOMAIN rest = 1..(Len(members) - 1)
  BY <1>1
<1> HIDE DEF rest
<1>3. S \subseteq Nat /\ T \subseteq Nat
  BY <1>1, <1>2 DEF Places
<1>4. \A i \in S : i + 1 \in T
  BY <1>1, <1>2 DEF Places
<1>5. \A j \in T : j - 1 \in S /\ (j - 1) + 1 = j
  BY <1>1, <1>2 DEF Places
<1>6. IsFiniteSet(S)
  BY <1>1, PlacesFinite
<1>7. IsFiniteSet(Places(n, members))
  BY PlacesFinite
<1> HIDE DEF S, T
<1>8. f \in Bijection(S, T)
  <2>1. f \in Injection(S, T)
    BY <1>3, <1>4 DEF Injection, IsInjective
  <2>2. f \in Surjection(S, T)
    BY <1>4, <1>5 DEF Surjection
  <2> QED
    BY <2>1, <2>2 DEF Bijection
<1>9. Cardinality(T) = Cardinality(S)
  BY <1>6, <1>8, FS_Bijection DEF ExistsBijection
<1>10. Times(n, rest) = Cardinality(S) /\ Times(n, members) = Cardinality(Places(n, members))
       /\ Cardinality(S) \in Nat
  BY <1>1, PlacesFinite DEF S
<1>11. CASE Head(members) = n
  <2>1. 1 \in Places(n, members)
    BY <1>1, <1>2, <1>11 DEF Places
  <2>2. Cardinality(T) = Cardinality(Places(n, members)) - 1
    BY <1>7, <2>1, FS_RemoveElement DEF T
  <2>3. Cardinality(Places(n, members)) \in Nat
    BY <1>7, FS_CardinalityType
  <2> QED
    BY <1>9, <1>10, <1>11, <2>2, <2>3 DEF rest
<1>12. CASE Head(members) # n
  <2>1. T = Places(n, members)
    BY <1>1, <1>2, <1>12 DEF Places, T
  <2> QED
    BY <1>9, <1>10, <1>12, <2>1 DEF rest
<1> QED
  BY <1>11, <1>12

(* A pipeline that is broken off counts no more than the whole. *)
LEMMA TimesSubSeq ==
  ASSUME NEW members \in Seq(Names), NEW i \in 0..Len(members), NEW n
  PROVE  /\ SubSeq(members, 1, i) \in Seq(Names)
         /\ Times(n, SubSeq(members, 1, i)) \in Nat
         /\ Times(n, SubSeq(members, 1, i)) <= Times(n, members)
<1> DEFINE part == SubSeq(members, 1, i)
<1>1. /\ part \in Seq(Names) /\ Len(part) = i /\ Len(members) \in Nat
      /\ \A j \in 1..i : part[j] = members[j]
  OBVIOUS
<1>2. DOMAIN members = 1..Len(members) /\ DOMAIN part = 1..i
  BY <1>1
<1> HIDE DEF part
<1>3. Places(n, part) \subseteq Places(n, members)
  BY <1>1, <1>2 DEF Places
<1>4. Cardinality(Places(n, part)) <= Cardinality(Places(n, members))
  BY <1>3, PlacesFinite, FS_Subset
<1>5. Times(n, part) \in Nat /\ Times(n, part) <= Times(n, members)
  BY <1>1, <1>4, PlacesFinite
<1> QED
  BY <1>1, <1>5 DEF part

-----------------------------------------------------------------------------
(* TTLs and delays.                                                        *)

Answer == [nx : BOOLEAN, answer : SUBSET Nat, ns : SUBSET Nat]

(* consider() finds the least TTL there is. *)
LEMMA MinTTLBound ==
  ASSUME NEW a \in Answer
  PROVE  /\ MinTTL(a) \in Nat
         /\ \A ttl \in Values(a) \ {0} : 0 < MinTTL(a) /\ MinTTL(a) <= ttl
<1> DEFINE considered == {ttl \in Values(a) : Consider(ttl)}
<1>1. Values(a) \subseteq Nat
  BY DEF Values, Answer
<1>2. considered = Values(a) \ {0}
  BY <1>1 DEF Consider
<1>3. MinTTL(a) = IF considered = {} THEN 0 ELSE Min(considered)
  BY DEF MinTTL
<1> HIDE DEF considered
<1>4. considered # {} => Min(considered) \in considered /\ \A ttl \in considered : Min(considered) <= ttl
  BY <1>1, <1>2, MinNat
<1> QED
  BY <1>1, <1>2, <1>3, <1>4

(* What cache() stores outlives no record that has a TTL, nor the server's *)
(* own limit for an answer of its kind.                                    *)
LEMMA TTLBound ==
  ASSUME NEW a \in Answer
  PROVE  /\ TTL(a) \in Nat
         /\ TTL(a) <= (IF a.nx THEN NegTTL ELSE CacheTTL)
         /\ TTL(a) > 0 => \A ttl \in Values(a) \ {0} : TTL(a) <= ttl
<1> DEFINE limit == IF a.nx THEN NegTTL ELSE CacheTTL
<1>1. limit \in Nat
  BY PrefetchAssumption
<1>2. TTL(a) = IF limit > 0 /\ MinTTL(a) > 0 /\ MinTTL(a) < limit THEN MinTTL(a) ELSE limit
  BY DEF TTL
<1>3. Values(a) \subseteq Nat
  BY DEF Values, Answer
<1> HIDE DEF limit
<1>4. TTL(a) \in Nat /\ TTL(a) <= limit
  BY <1>1, <1>2, MinTTLBound
<1>5. ASSUME TTL(a) > 0, NEW ttl \in Values(a) \ {0}
      PROVE  TTL(a) <= ttl
  <2>1. 0 < MinTTL(a) /\ MinTTL(a) <= ttl /\ MinTTL(a) \in Nat /\ ttl \in Nat
    BY <1>3, MinTTLBound
  <2> QED
    BY <1>1, <1>2, <1>5, <2>1
<1> QED
  BY <1>4, <1>5 DEF limit

(* The longest a name is put off. *)
MaxDelay == Max({Every, Hour, Sweep})

(* It is at least each of the three intervals. *)
LEMMA MaxDelayBound ==
  MaxDelay \in Nat /\ Every <= MaxDelay /\ Hour <= MaxDelay /\ Sweep <= MaxDelay
<1>1. Every \in Nat /\ Hour \in Nat /\ Sweep \in Nat
  BY PrefetchAssumption
<1>2. Every \in Int /\ Hour \in Int /\ Sweep \in Int
  BY <1>1
<1>3. /\ MaxDelay \in {Every, Hour, Sweep}
      /\ MaxDelay >= Every /\ MaxDelay >= Hour /\ MaxDelay >= Sweep
  BY <1>2, MaxThree DEF MaxDelay
<1> QED
  BY <1>1, <1>3

(* The slack covers a sweep that starts late and a sweep that runs over. *)
LEMMA SlackBound ==
  Slack \in Nat /\ Slack >= Sweep + MaxSweep /\ Slack >= 2 * MaxSweep
<1>1. Max({Sweep, MaxSweep}) = IF Sweep >= MaxSweep THEN Sweep ELSE MaxSweep
  BY PrefetchAssumption, MaxTwo
<1> QED
  BY <1>1, PrefetchAssumption DEF Slack

(* prefetchNextDelay is positive and leaves a fifth of a long TTL.         *)
LEMMA NextDelayBound ==
  ASSUME NEW ttl \in Nat
  PROVE  /\ NextDelay(ttl) \in 1..MaxDelay
         /\ ttl >= 5 * Slack => ttl >= NextDelay(ttl) + Slack
<1> DEFINE most == (4 * ttl + 4) \div 5
           least == Max({most, Sweep})
<1>1. most \in Nat /\ 5 * most <= 4 * ttl + 4
  OBVIOUS
<1>2. NextDelay(ttl) = IF ttl = 0 THEN Sweep ELSE Min({least, Hour})
  BY DEF NextDelay
<1> HIDE DEF most
<1>3. least = IF most >= Sweep THEN most ELSE Sweep
  BY <1>1, MaxTwo, PrefetchAssumption
<1>4. least \in Nat \ {0}
  BY <1>1, <1>3, PrefetchAssumption
<1> HIDE DEF least
<1>5. Min({least, Hour}) = IF least <= Hour THEN least ELSE Hour
  BY <1>4, MinTwo, PrefetchAssumption
<1>6. NextDelay(ttl) \in 1..MaxDelay
  BY <1>2, <1>4, <1>5, MaxDelayBound, PrefetchAssumption
<1>7. ASSUME ttl >= 5 * Slack
      PROVE  ttl >= NextDelay(ttl) + Slack
  <2>1. ttl # 0 /\ Slack > 0 /\ Slack >= Sweep
    BY <1>7, SlackBound, PrefetchAssumption
  <2>2. NextDelay(ttl) <= least /\ NextDelay(ttl) \in Nat
    BY <1>2, <1>4, <1>5, <2>1, PrefetchAssumption
  <2>3. least + Slack <= ttl
    BY <1>1, <1>3, <1>7, <2>1, SlackBound, PrefetchAssumption
  <2> QED
    BY <1>4, <2>2, <2>3, SlackBound
<1> QED
  BY <1>6, <1>7

(* Upstream's answers, and what is stored of one. *)
LEMMA AnswerType ==
  ASSUME NEW a \in UNION Range(Answers)
  PROVE  a \in Answer
<1>1. PICK n \in Names : a \in Answers[n]
  BY PrefetchAssumption DEF Range
<1> QED
  BY <1>1, PrefetchAssumption DEF Answer

(* What is cached of an answer is an entry. *)
LEMMA EntryType ==
  ASSUME NEW a \in UNION Range(Answers), TTL(a) > 0
  PROVE  [answer |-> a, left |-> TTL(a)] \in Entries
<1>1. TTL(a) \in Nat /\ TTL(a) <= (IF a.nx THEN NegTTL ELSE CacheTTL)
  BY AnswerType, TTLBound
<1>2. Max({CacheTTL, NegTTL}) = IF CacheTTL >= NegTTL THEN CacheTTL ELSE NegTTL
  BY PrefetchAssumption, MaxTwo
<1>3. TTL(a) \in 1..Max({CacheTTL, NegTTL})
  BY <1>1, <1>2, PrefetchAssumption
<1> QED
  BY <1>3 DEF Entries

(* An entry counts its time down to 1 and then is gone. *)
LEMMA AgedType ==
  ASSUME NEW e \in Entries \cup {None}
  PROVE  /\ Aged(e) \in Entries \cup {None}
         /\ e # None => e.left \in Nat \ {0}
         /\ e # None /\ e.left > 1 =>
              Aged(e) # None /\ Aged(e).left = e.left - 1 /\ Aged(e).answer = e.answer
         /\ Aged(e) # None => e # None /\ e.left > 1
<1>1. CASE e = None
  BY <1>1 DEF Aged
<1>2. CASE e # None
  <2> DEFINE most == Max({CacheTTL, NegTTL})
  <2>1. most \in Nat
    BY PrefetchAssumption, MaxTwo
  <2>2. e \in [answer : UNION Range(Answers), left : 1..most]
    BY <1>2 DEF Entries
  <2> HIDE DEF most
  <2>3. e.left \in 1..most /\ e.answer \in UNION Range(Answers)
    BY <2>2
  <2>4. CASE e.left = 1
    BY <1>2, <2>4 DEF Aged
  <2>5. CASE e.left # 1
    <3>1. Aged(e) = [e EXCEPT !.left = e.left - 1]
      BY <1>2, <2>5 DEF Aged
    <3>2. Aged(e) = [answer |-> e.answer, left |-> e.left - 1]
      BY <2>2, <3>1
    <3>3. e.left - 1 \in 1..most /\ e.left - 1 \in Nat
      BY <2>1, <2>3, <2>5
    <3>4. Aged(e) \in Entries
      BY <2>3, <3>2, <3>3 DEF Entries, most
    <3>5. Aged(e) # None
      BY <2>3, <3>2, <3>3, PrefetchAssumption
    <3> QED
      BY <1>2, <2>1, <2>3, <2>5, <3>2, <3>4, <3>5
  <2> QED
    BY <2>4, <2>5
<1> QED
  BY <1>1, <1>2

-----------------------------------------------------------------------------
(* The counter.                                                            *)

(* The pipeline of ZINCRBYs.  A name gets at most the counts it has there; *)
(* or more, and is known to be counted twice.                              *)
LEMMA PipelineEffect ==
  ASSUME TypeOK, NEW members \in Seq(Names), Pipeline(members)
  PROVE  /\ score' \in [Names -> Nat]
         /\ recounted \subseteq recounted' /\ recounted' \subseteq Names
         /\ \A n \in Names :
              \/ score'[n] <= score[n] + Times(n, members)
              \/ /\ asked[n] = 2 \/ n \in recounted'
                 /\ score'[n] + Times(n, queue) <= MaxScore
<1> DEFINE sent(i, j) == SubSeq(members, 1, i) \o SubSeq(members, 1, j)
           twice(all) == {n \in Names : Times(n, all) > Times(n, members)}
<1>1. PICK i \in 0..Len(members), j \in 0..Len(members) :
        /\ Counted(sent(i, j))
        /\ \A n \in twice(sent(i, j)) : score'[n] + Times(n, queue) <= MaxScore
        /\ recounted' = recounted \cup {n \in twice(sent(i, j)) : asked[n] < 2}
  BY DEF Pipeline
<1>2. sent(i, j) \in Seq(Names)
  OBVIOUS
<1>3. PICK all \in Seq(Names) :
        /\ Counted(all)
        /\ \A n \in twice(all) : score'[n] + Times(n, queue) <= MaxScore
        /\ recounted' = recounted \cup {n \in twice(all) : asked[n] < 2}
  <2> HIDE DEF sent, twice
  <2> QED  BY <1>1, <1>2
<1>4. \A n \in Names : /\ score[n] \in Nat /\ asked[n] \in 0..2
                       /\ Times(n, members) \in Nat /\ Times(n, all) \in Nat
  BY PlacesFinite DEF TypeOK
<1>5. score' = [n \in Names |-> score[n] + Times(n, all)]
  BY <1>3 DEF Counted
<1>6. recounted \subseteq recounted' /\ recounted' \subseteq Names
  BY <1>3 DEF TypeOK
<1>7. ASSUME NEW n \in Names
      PROVE  \/ score'[n] <= score[n] + Times(n, members)
             \/ /\ asked[n] = 2 \/ n \in recounted'
                /\ score'[n] + Times(n, queue) <= MaxScore
  <2>1. CASE Times(n, all) > Times(n, members)
    <3>1. n \in twice(all)
      BY <2>1
    <3>2. asked[n] = 2 \/ asked[n] < 2
      BY <1>4
    <3> HIDE DEF twice
    <3> QED  BY <1>3, <3>1, <3>2
  <2>2. CASE ~(Times(n, all) > Times(n, members))
    BY <1>4, <1>5, <2>2
  <2> QED  BY <2>1, <2>2
<1> QED
  BY <1>4, <1>5, <1>6, <1>7

(* All counts of a name that there are: ranked, queued or in the batch.    *)
Counts(n) == score[n] + Times(n, queue) + Times(n, batch)

(* They are numbers. *)
LEMMA CountsType ==
  ASSUME TypeOK, NEW n \in Names
  PROVE  /\ score[n] \in Nat /\ Times(n, queue) \in Nat /\ Times(n, batch) \in Nat
         /\ Counts(n) \in Nat
BY PlacesFinite DEF TypeOK, Counts

(* A step of runCounter moves counts along, loses some of them, or counts  *)
(* a name twice and knows it.                                              *)
LEMMA CounterEffect ==
  ASSUME TypeOK, CounterTake \/ CounterTick
  PROVE  /\ queue' \in Seq(Names) /\ Len(queue') <= QueueSize
         /\ batch' \in Seq(Names) /\ Len(batch') < BatchSize
         /\ score' \in [Names -> Nat]
         /\ asked' = asked
         /\ recounted \subseteq recounted' /\ recounted' \subseteq Names
         /\ \A n \in Names : \/ Counts(n)' <= Counts(n)
                             \/ (asked[n] = 2 \/ n \in recounted') /\ Counts(n)' <= MaxScore
<1> DEFINE Effect(n) == \/ Counts(n)' <= Counts(n)
                        \/ (asked[n] = 2 \/ n \in recounted') /\ Counts(n)' <= MaxScore
           Grows == recounted \subseteq recounted' /\ recounted' \subseteq Names
<1>0. asked' = asked
  BY DEF CounterTake, CounterTick
<1>1. <<>> \in Seq(Names) /\ Len(<<>>) = 0 /\ \A n : Times(n, <<>>) = 0
  <2>1. <<>> \in Seq(Names) /\ Len(<<>>) = 0
    OBVIOUS
  <2>2. ASSUME NEW n
        PROVE  Times(n, <<>>) = 0
    <3>1. \A i \in 1..Len(<<>>) : <<>>[i] # n
      BY <2>1
    <3> QED
      BY <2>1, <3>1, TimesNone
  <2> QED
    BY <2>1, <2>2
<1>2. CASE CounterTick
  <2>1. Pipeline(batch) /\ batch' = <<>> /\ queue' = queue
    BY <1>2 DEF CounterTick, Flush
  <2>2. batch \in Seq(Names) /\ queue \in Seq(Names) /\ Len(queue) <= QueueSize
    BY DEF TypeOK
  <2>3. ASSUME NEW n \in Names
        PROVE  Effect(n)
    <3>1. Counts(n)' = score'[n] + Times(n, queue) + 0
      BY <1>1, <2>1 DEF Counts, Times
    <3>2. score'[n] \in Nat
      BY <2>1, <2>2, PipelineEffect
    <3>3. \/ score'[n] <= score[n] + Times(n, batch)
          \/ (asked[n] = 2 \/ n \in recounted') /\ score'[n] + Times(n, queue) <= MaxScore
      BY <2>1, <2>2, PipelineEffect
    <3>4. /\ score[n] \in Nat /\ Times(n, queue) \in Nat /\ Times(n, batch) \in Nat
          /\ Counts(n) = score[n] + Times(n, queue) + Times(n, batch)
      BY CountsType DEF Counts
    <3> QED
      BY <3>1, <3>2, <3>3, <3>4
  <2>4. score' \in [Names -> Nat] /\ Grows
    BY <2>1, <2>2, PipelineEffect
  <2>5. Len(batch') < BatchSize
    BY <1>1, <2>1, PrefetchAssumption
  <2> QED
    BY <1>0, <1>1, <2>1, <2>2, <2>3, <2>4, <2>5
<1>3. CASE CounterTake
  <2> DEFINE members == Append(batch, Head(queue))
             rest == Tail(queue)
  <2>1. /\ queue \in Seq(Names) /\ queue # <<>> /\ Len(queue) <= QueueSize
        /\ batch \in Seq(Names) /\ Len(batch) < BatchSize
    BY <1>3 DEF CounterTake, TypeOK
  <2>2. /\ Head(queue) \in Names /\ members \in Seq(Names)
        /\ rest \in Seq(Names) /\ Len(rest) <= QueueSize
    BY <2>1, PrefetchAssumption
  <2>3. ASSUME NEW n \in Names
        PROVE  /\ score[n] \in Nat
               /\ Times(n, rest) \in Nat /\ Times(n, members) \in Nat
               /\ Times(n, rest) <= Times(n, queue) /\ Times(n, queue) \in Nat
               /\ Counts(n) = score[n] + Times(n, rest) + Times(n, members)
    <3>1. Times(n, members) = Times(n, batch) + IF Head(queue) = n THEN 1 ELSE 0
      BY <2>1, <2>2, TimesAppend
    <3>2. Times(n, queue) = Times(n, rest) + IF Head(queue) = n THEN 1 ELSE 0
      BY <2>1, TimesTail
    <3>3. /\ score[n] \in Nat /\ Times(n, queue) \in Nat /\ Times(n, batch) \in Nat
          /\ Times(n, rest) \in Nat
      BY <2>2, CountsType, PlacesFinite
    <3> HIDE DEF members, rest
    <3> QED
      BY <3>1, <3>2, <3>3 DEF Counts
  <2>4. queue' = rest
    BY <1>3 DEF CounterTake
  <2>5. \/ Full(members) /\ Pipeline(members) /\ batch' = <<>>
        \/ ~Full(members) /\ batch' = members /\ UNCHANGED <<score, recounted>>
    BY <1>3 DEF CounterTake, Flush
  <2> HIDE DEF members, rest
  <2>6. CASE Full(members) /\ Pipeline(members) /\ batch' = <<>>
    <3>1. ASSUME NEW n \in Names
          PROVE  Effect(n)
      <4>1. Counts(n)' = score'[n] + Times(n, rest) + 0
        BY <1>1, <2>4, <2>6 DEF Counts, Times
      <4>2. score'[n] \in Nat
        BY <2>2, <2>6, PipelineEffect
      <4>3. \/ score'[n] <= score[n] + Times(n, members)
            \/ (asked[n] = 2 \/ n \in recounted') /\ score'[n] + Times(n, queue) <= MaxScore
        BY <2>2, <2>6, PipelineEffect
      <4> QED
        BY <2>3, <4>1, <4>2, <4>3, PrefetchAssumption
    <3>2. score' \in [Names -> Nat] /\ Grows
      BY <2>2, <2>6, PipelineEffect
    <3>3. Len(batch') < BatchSize
      BY <1>1, <2>6, PrefetchAssumption
    <3> QED
      BY <1>0, <1>1, <2>2, <2>4, <2>6, <3>1, <3>2, <3>3
  <2>7. CASE ~Full(members) /\ batch' = members /\ UNCHANGED <<score, recounted>>
    <3>1. ASSUME NEW n \in Names
          PROVE  Effect(n)
      <4>1. Counts(n)' = score[n] + Times(n, rest) + Times(n, members)
        BY <2>4, <2>7 DEF Counts, Times
      <4> QED
        BY <2>3, <2>7, <4>1
    <3>2. score' \in [Names -> Nat] /\ Grows
      BY <2>7 DEF TypeOK
    <3>3. Len(batch') < BatchSize
      BY <2>2, <2>7, PrefetchAssumption DEF Full
    <3> QED
      BY <1>0, <2>2, <2>4, <2>7, <3>1, <3>2, <3>3
  <2> QED
    BY <2>5, <2>6, <2>7
<1> QED
  BY <1>0, <1>2, <1>3

(* countQuery adds one, or none, and the query is remembered. *)
LEMMA CountQueryEffect ==
  ASSUME TypeOK, NEW m \in Names, CountQuery(m)
  PROVE  /\ queue' \in Seq(Names) /\ Len(queue') <= QueueSize
         /\ asked' \in [Names -> 0..2]
         /\ \A n \in Names : n # m => asked'[n] = asked[n] /\ Counts(n)' <= Counts(n)
         /\ asked'[m] = IF asked[m] < 2 THEN asked[m] + 1 ELSE asked[m]
         /\ Counts(m) < MaxScore /\ Counts(m)' <= Counts(m) + 1
         /\ recounted' \subseteq recounted
         /\ \A n \in recounted : n \in recounted' \/ asked'[n] = 2
<1>1. /\ asked' = [asked EXCEPT ![m] = IF asked[m] < 2 THEN asked[m] + 1 ELSE asked[m]]
      /\ batch' = batch /\ score' = score
      /\ recounted' = (IF asked'[m] = 2 THEN recounted \ {m} ELSE recounted)
      /\ queue' = (IF Len(queue) < QueueSize THEN Append(queue, m) ELSE queue)
      /\ Counts(m) < MaxScore
  BY DEF CountQuery, Counts
<1>2. queue \in Seq(Names) /\ Len(queue) <= QueueSize /\ asked \in [Names -> 0..2]
  BY DEF TypeOK
<1>3. queue' \in Seq(Names) /\ Len(queue') <= QueueSize
  BY <1>1, <1>2, PrefetchAssumption
<1>4. asked' \in [Names -> 0..2]
  BY <1>1, <1>2
<1>5. ASSUME NEW n \in Names
      PROVE  Counts(n)' <= Counts(n) + IF m = n THEN 1 ELSE 0
  <2>1. /\ score[n] \in Nat /\ Times(n, queue) \in Nat /\ Times(n, batch) \in Nat
    BY CountsType
  <2>2. Times(n, queue') <= Times(n, queue) + IF m = n THEN 1 ELSE 0
    BY <1>1, <1>2, <2>1, TimesAppend
  <2>3. Times(n, queue') \in Nat
    BY <1>3, PlacesFinite
  <2>4. Counts(n)' = score[n] + Times(n, queue') + Times(n, batch)
    BY <1>1 DEF Counts, Times
  <2> QED
    BY <2>1, <2>2, <2>3, <2>4 DEF Counts
<1>6. \A n \in Names : Counts(n) \in Nat
  BY CountsType
<1>7. \A n \in Names : n # m => asked'[n] = asked[n]
  BY <1>1, <1>2
<1>8. \A n \in Names : n # m => Counts(n)' <= Counts(n)
  BY <1>5, <1>6
<1>9. asked'[m] = IF asked[m] < 2 THEN asked[m] + 1 ELSE asked[m]
  BY <1>1, <1>2
<1> QED
  BY <1>1, <1>3, <1>4, <1>5, <1>7, <1>8, <1>9

-----------------------------------------------------------------------------
(* Type correctness.                                                       *)

(* cache() keeps the cache a function from names to entries. *)
LEMMA CachedType ==
  ASSUME TypeOK, NEW n \in Names, NEW a \in UNION Range(Answers), Cached(n, a)
  PROVE  store' \in [Names -> Entries \cup {None}]
<1>1. CASE TTL(a) > 0 /\ store' = [store EXCEPT ![n] = [answer |-> a, left |-> TTL(a)]]
  <2>1. [answer |-> a, left |-> TTL(a)] \in Entries \cup {None}
    BY <1>1, EntryType
  <2>2. store \in [Names -> Entries \cup {None}]
    BY DEF TypeOK
  <2> QED
    BY <1>1, <2>1, <2>2
<1>2. CASE UNCHANGED store
  BY <1>2 DEF TypeOK
<1> QED
  BY <1>1, <1>2 DEF Cached

(* The initial state satisfies the inductive invariant. *)
LEMMA TypeInit == Init => TypeInv
<1> SUFFICES ASSUME Init PROVE TypeInv
  OBVIOUS
<1>1. TypeOK
  <2>1. queue \in Seq(Names) /\ Len(queue) <= QueueSize /\ batch \in Seq(Names) /\ Len(batch) < BatchSize
    BY PrefetchAssumption DEF Init
  <2>2. score \in [Names -> 0..MaxScore] /\ asked \in [Names -> 0..2] /\ recounted \subseteq Names
    BY PrefetchAssumption DEF Init
  <2>3. 0 \in 0..MaxDelay
    BY MaxDelayBound
  <2>4. next \in [{"fixed", "dyn"} -> [Names -> 0..MaxDelay]]
    BY <2>3 DEF Init
  <2>5. store \in [Names -> Entries \cup {None}]
    BY DEF Init
  <2>6. untilTick \in 1..Sweep /\ spent \in 0..MaxSweep /\ phase = "idle"
    BY PrefetchAssumption DEF Init
  <2>7. tick \in BOOLEAN /\ todo \subseteq Names /\ job \in Names \cup {None} /\ steady \subseteq Names
    BY DEF Init
  <2> QED
    BY <2>1, <2>2, <2>4, <2>5, <2>6, <2>7 DEF TypeOK, MaxDelay
<1>2. SweepShape
  BY DEF Init, SweepShape
<1>3. ASSUME NEW n \in Names
      PROVE  score[n] + Times(n, queue) + Times(n, batch) = 0
  <2>1. queue \in Seq(Names) /\ Len(queue) = 0 /\ batch = queue /\ score[n] = 0
    BY DEF Init
  <2>2. \A i \in 1..Len(queue) : queue[i] # n
    BY <2>1
  <2>3. Times(n, queue) = 0
    BY <2>1, <2>2, TimesNone
  <2> QED
    BY <2>1, <2>3
<1>4. CountBound
  BY <1>3, PrefetchAssumption DEF CountBound
<1> QED
  BY <1>1, <1>2, <1>4 DEF TypeInv

(* Steps that leave the counts alone. *)
LEMMA CountKept ==
  ASSUME CountBound, UNCHANGED countVars
  PROVE  CountBound'
BY DEF CountBound, countVars, Times

(* A query, and the counter. *)
LEMMA TypeCount ==
  ASSUME TypeInv, (\E m \in Names : CountQuery(m)) \/ CounterTake \/ CounterTick
  PROVE  TypeInv'
<1>1. UNCHANGED <<sweepVars, clockVars, next, store, steady>>
  BY DEF CountQuery, CounterTake, CounterTick
<1>2. /\ queue' \in Seq(Names) /\ Len(queue') <= QueueSize
      /\ batch' \in Seq(Names) /\ Len(batch') < BatchSize
      /\ score' \in [Names -> Nat]
      /\ asked' \in [Names -> 0..2] /\ recounted' \subseteq Names
      /\ \A n \in Names : Counts(n)' <= MaxScore
  <2>1. \A n \in Names : Counts(n) <= MaxScore /\ Counts(n) \in Nat
    BY CountsType DEF TypeInv, CountBound, Counts
  <2>2. CASE CounterTake \/ CounterTick
    <3>1. \A n \in Names : Counts(n)' <= Counts(n) \/ Counts(n)' <= MaxScore
      BY <2>2, CounterEffect DEF TypeInv
    <3>2. /\ queue' \in Seq(Names) /\ Len(queue') <= QueueSize
          /\ batch' \in Seq(Names) /\ Len(batch') < BatchSize
          /\ score' \in [Names -> Nat]
          /\ asked' \in [Names -> 0..2] /\ recounted' \subseteq Names
      BY <2>2, CounterEffect DEF TypeInv, TypeOK
    <3>3. ASSUME NEW n \in Names
          PROVE  Counts(n)' <= MaxScore
      <4>1. Counts(n)' \in Nat
        <5>1. score'[n] \in Nat /\ Times(n, queue') \in Nat /\ Times(n, batch') \in Nat
          BY <3>2, PlacesFinite
        <5>2. Counts(n)' = score'[n] + Times(n, queue') + Times(n, batch')
          BY DEF Counts, Times
        <5> QED
          BY <5>1, <5>2
      <4> QED
        BY <2>1, <3>1, <4>1, PrefetchAssumption
    <3> QED
      BY <3>2, <3>3
  <2>3. ASSUME NEW m \in Names, CountQuery(m)
        PROVE  /\ queue' \in Seq(Names) /\ Len(queue') <= QueueSize
               /\ batch' \in Seq(Names) /\ Len(batch') < BatchSize
               /\ score' \in [Names -> Nat]
               /\ asked' \in [Names -> 0..2] /\ recounted' \subseteq Names
               /\ \A n \in Names : Counts(n)' <= MaxScore
    <3>1. batch' = batch /\ score' = score
      BY <2>3 DEF CountQuery
    <3>2. /\ batch' \in Seq(Names) /\ Len(batch') < BatchSize
          /\ score' \in [Names -> Nat]
      BY <3>1 DEF TypeInv, TypeOK
    <3>3. /\ queue' \in Seq(Names) /\ Len(queue') <= QueueSize
          /\ asked' \in [Names -> 0..2] /\ recounted' \subseteq Names
      BY <2>3, CountQueryEffect DEF TypeInv, TypeOK
    <3>4. /\ \A n \in Names : n # m => Counts(n)' <= Counts(n)
          /\ Counts(m) < MaxScore /\ Counts(m)' <= Counts(m) + 1
      BY <2>3, CountQueryEffect DEF TypeInv
    <3>5. ASSUME NEW n \in Names
          PROVE  Counts(n)' <= MaxScore
      <4>1. Counts(n)' \in Nat
        <5>1. score'[n] \in Nat /\ Times(n, queue') \in Nat /\ Times(n, batch') \in Nat
          BY <3>2, <3>3, PlacesFinite
        <5>2. Counts(n)' = score'[n] + Times(n, queue') + Times(n, batch')
          BY DEF Counts, Times
        <5> QED
          BY <5>1, <5>2
      <4> QED
        BY <2>1, <3>4, <4>1, PrefetchAssumption
    <3> QED
      BY <3>2, <3>3, <3>5
  <2> QED
    BY <2>2, <2>3
<1>3. score' \in [Names -> 0..MaxScore]
  <2>1. ASSUME NEW n \in Names
        PROVE  score'[n] \in 0..MaxScore
    <3>1. score'[n] \in Nat /\ Times(n, queue') \in Nat /\ Times(n, batch') \in Nat
      BY <1>2, PlacesFinite
    <3>2. score'[n] + Times(n, queue') + Times(n, batch') <= MaxScore
      BY <1>2 DEF Counts, Times
    <3> QED
      BY <3>1, <3>2, PrefetchAssumption
  <2> QED
    BY <1>2, <2>1
<1>4. TypeOK'
  BY <1>1, <1>2, <1>3 DEF TypeInv, TypeOK, sweepVars, clockVars
<1>5. SweepShape'
  BY <1>1 DEF TypeInv, SweepShape, sweepVars
<1>6. CountBound'
  BY <1>2 DEF CountBound, Counts
<1> QED
  BY <1>4, <1>5, <1>6 DEF TypeInv

(* A request that is resolved and cached. *)
LEMMA TypeHandled ==
  ASSUME TypeInv, NEW n \in Names, NEW a \in Answers[n], Handled(n, a)
  PROVE  TypeInv'
<1>1. UNCHANGED <<countVars, sweepVars, clockVars, next>> /\ steady' \subseteq steady
  BY DEF Handled, Lasting
<1>2. a \in UNION Range(Answers)
  BY PrefetchAssumption DEF Range
<1>3. store' \in [Names -> Entries \cup {None}]
  BY <1>2, CachedType DEF Handled, TypeInv
<1>4. TypeOK'
  BY <1>1, <1>3 DEF TypeInv, TypeOK, countVars, sweepVars, clockVars
<1>5. SweepShape' /\ CountBound'
  BY <1>1, CountKept DEF TypeInv, SweepShape, sweepVars
<1> QED
  BY <1>4, <1>5 DEF TypeInv

(* The sweep visits its names. *)
LEMMA TypeVisit ==
  ASSUME TypeInv,
         \/ SweepStart \/ DynamicStart \/ SweepPanic
         \/ \E n \in Names : FixedVisit(n) \/ DynamicVisit(n)
  PROVE  TypeInv'
<1>1. UNCHANGED <<countVars, untilTick, next, store>>
  BY DEF SweepStart, DynamicStart, SweepPanic, FixedVisit, DynamicVisit, clockVars
<1>2. /\ steady' \subseteq steady /\ tick' \in BOOLEAN
      /\ phase' \in {"idle", "fixed", "dyn"}
  BY DEF SweepStart, DynamicStart, SweepPanic, FixedVisit, DynamicVisit, clockVars, TypeInv, TypeOK
<1>3. job' \in Names \cup {None} /\ spent' \in 0..MaxSweep
  BY PrefetchAssumption
  DEF SweepStart, DynamicStart, SweepPanic, FixedVisit, DynamicVisit, TypeInv, TypeOK
<1>4. todo' \subseteq Names
  <2>1. CASE DynamicStart
    BY <2>1 DEF DynamicStart, Top, Highest, Due, TypeInv, TypeOK
  <2>2. CASE SweepStart \/ SweepPanic \/ \E n \in Names : FixedVisit(n) \/ DynamicVisit(n)
    BY <2>2, PrefetchAssumption DEF SweepStart, SweepPanic, FixedVisit, DynamicVisit, TypeInv, TypeOK
  <2> QED
    BY <2>1, <2>2
<1>5. TypeOK'
  BY <1>1, <1>2, <1>3, <1>4 DEF TypeInv, TypeOK, countVars
<1>6. SweepShape'
  BY DEF SweepStart, DynamicStart, SweepPanic, FixedVisit, DynamicVisit, TypeInv, SweepShape
<1> QED
  BY <1>1, <1>5, <1>6, CountKept DEF TypeInv

(* A name is refreshed, or cannot be. *)
LEMMA TypeRefresh ==
  ASSUME TypeInv, RefreshFail \/ \E a \in UNION Range(Answers) : Refresh(a)
  PROVE  TypeInv'
<1>1. /\ UNCHANGED <<countVars, phase, todo, spent, clockVars>>
      /\ job # None /\ job' = None
  BY DEF Refresh, RefreshFail
<1>2. job \in Names /\ phase \in {"fixed", "dyn"}
  BY <1>1 DEF TypeInv, TypeOK, SweepShape
<1>3. next \in [{"fixed", "dyn"} -> [Names -> 0..MaxDelay]]
  BY DEF TypeInv, TypeOK, MaxDelay
<1>4. steady' \subseteq Names
  BY <1>2 DEF Refresh, RefreshFail, Lasting, TypeInv, TypeOK
<1>5. next' \in [{"fixed", "dyn"} -> [Names -> 0..MaxDelay]]
  <2>1. ASSUME NEW d \in 0..MaxDelay, NEW p \in {"fixed", "dyn"}
        PROVE  [next EXCEPT ![p][job] = d] \in [{"fixed", "dyn"} -> [Names -> 0..MaxDelay]]
    BY <1>2, <1>3
  <2>2. ASSUME NEW a \in UNION Range(Answers), Refresh(a)
        PROVE  next' \in [{"fixed", "dyn"} -> [Names -> 0..MaxDelay]]
    <3>1. TTL(a) \in Nat
      BY AnswerType, TTLBound
    <3>2. Delay(a) \in 0..MaxDelay
      BY <3>1, NextDelayBound, MaxDelayBound, PrefetchAssumption DEF Delay
    <3> QED
      BY <1>2, <2>1, <2>2, <3>2 DEF Refresh
  <2>3. CASE RefreshFail
    <3>1. Sweep \in 0..MaxDelay
      BY MaxDelayBound, PrefetchAssumption
    <3> QED
      BY <1>3, <2>1, <2>3, <3>1 DEF RefreshFail
  <2> QED
    BY <2>2, <2>3
<1>6. store' \in [Names -> Entries \cup {None}]
  <2>1. CASE RefreshFail
    BY <2>1 DEF RefreshFail, TypeInv, TypeOK
  <2>2. ASSUME NEW a \in UNION Range(Answers), Refresh(a)
        PROVE  store' \in [Names -> Entries \cup {None}]
    BY <1>2, <2>2, CachedType DEF Refresh, TypeInv
  <2> QED
    BY <2>1, <2>2
<1>7. TypeOK'
  BY <1>1, <1>4, <1>5, <1>6 DEF TypeInv, TypeOK, countVars, clockVars, MaxDelay
<1>8. SweepShape'
  BY <1>1, <1>2 DEF SweepShape
<1> QED
  BY <1>1, <1>7, <1>8, CountKept DEF TypeInv

(* Decay only lowers scores. *)
LEMMA DecayEffect ==
  ASSUME TypeOK, Decay
  PROVE  /\ score' \in [Names -> Nat]
         /\ \A n \in Names : score'[n] <= score[n]
<1>1. \A n \in Names : score[n] \in Nat
  BY DEF TypeOK
<1>2. ASSUME NEW d \in [Names -> {0, 1}],
             NEW kept \in Highest({n \in Names : score[n] > d[n]}, MaxMembers),
             score' = [n \in Names |-> IF n \in kept THEN score[n] - d[n] ELSE 0]
      PROVE  /\ score' \in [Names -> Nat]
             /\ \A n \in Names : score'[n] <= score[n]
  <2>1. \A n \in kept : n \in Names /\ score[n] > d[n]
    BY DEF Highest
  <2> QED
    BY <1>1, <1>2, <2>1
<1>3. CASE UNCHANGED score
  BY <1>1, <1>3 DEF TypeOK
<1> QED
  BY <1>2, <1>3 DEF Decay

(* The sweep ends. *)
LEMMA TypeSweepEnd ==
  ASSUME TypeInv, SweepEnd
  PROVE  TypeInv'
<1>1. /\ UNCHANGED <<queue, batch, asked, recounted, todo, job, clockVars, next, store, steady>>
      /\ Decay /\ phase' = "idle" /\ spent' = 0 /\ todo = {} /\ job = None
  BY DEF SweepEnd
<1>2. score' \in [Names -> Nat] /\ \A n \in Names : score'[n] <= score[n]
  BY <1>1, DecayEffect DEF TypeInv
<1>3. score' \in [Names -> 0..MaxScore]
  BY <1>2, PrefetchAssumption DEF TypeInv, TypeOK
<1>4. TypeOK'
  <2>1. spent' \in 0..MaxSweep /\ phase' \in {"idle", "fixed", "dyn"}
    BY <1>1, PrefetchAssumption
  <2> QED
    BY <1>1, <1>3, <2>1 DEF TypeInv, TypeOK, clockVars
<1>5. SweepShape'
  BY <1>1 DEF SweepShape
<1>6. CountBound'
  <2> SUFFICES ASSUME NEW n \in Names
               PROVE  score'[n] + Times(n, queue) + Times(n, batch) <= MaxScore
    BY <1>1 DEF CountBound, Times
  <2>1. score[n] \in Nat /\ Times(n, queue) \in Nat /\ Times(n, batch) \in Nat
    BY CountsType DEF TypeInv
  <2>2. score[n] + Times(n, queue) + Times(n, batch) <= MaxScore
    BY DEF TypeInv, CountBound
  <2> QED
    BY <1>2, <2>1, <2>2, PrefetchAssumption
<1> QED
  BY <1>4, <1>5, <1>6 DEF TypeInv

(* Time passes. *)
LEMMA TypeTick ==
  ASSUME TypeInv, Tick
  PROVE  TypeInv'
<1>1. UNCHANGED <<countVars, phase, todo, job, steady>>
  BY DEF Tick
<1>2. untilTick' \in 1..Sweep /\ tick' \in BOOLEAN
  <2>1. untilTick' \in 1..Sweep
    BY PrefetchAssumption DEF Tick, TypeInv, TypeOK
  <2>2. tick' = (tick \/ untilTick = 1)
    BY DEF Tick
  <2> QED
    BY <2>1, <2>2
<1>3. spent' \in 0..MaxSweep
  BY PrefetchAssumption DEF Tick, TypeInv, TypeOK
<1>4. next' \in [{"fixed", "dyn"} -> [Names -> 0..MaxDelay]]
  <2>1. next \in [{"fixed", "dyn"} -> [Names -> 0..MaxDelay]]
    BY DEF TypeInv, TypeOK, MaxDelay
  <2>2. \A t \in 0..MaxDelay : Less(t) \in 0..MaxDelay
    BY MaxDelayBound DEF Less
  <2>3. next' = [p \in {"fixed", "dyn"} |-> [n \in Names |-> Less(next[p][n])]]
    BY <2>1 DEF Tick
  <2> QED
    BY <2>1, <2>2, <2>3
<1>5. store' \in [Names -> Entries \cup {None}]
  <2>1. \A n \in Names : Aged(store[n]) \in Entries \cup {None}
    BY AgedType DEF TypeInv, TypeOK
  <2> QED
    BY <2>1 DEF Tick
<1>6. TypeOK'
  BY <1>1, <1>2, <1>3, <1>4, <1>5 DEF TypeInv, TypeOK, countVars, MaxDelay
<1>7. SweepShape'
  BY <1>1 DEF Tick, TypeInv, SweepShape
<1> QED
  BY <1>1, <1>6, <1>7, CountKept DEF TypeInv

(* Every step keeps the inductive invariant. *)
LEMMA TypeStep == TypeInv /\ [Next]_vars => TypeInv'
<1> SUFFICES ASSUME TypeInv, [Next]_vars PROVE TypeInv'
  OBVIOUS
<1>1. CASE UNCHANGED vars
  BY <1>1, CountKept DEF TypeInv, TypeOK, SweepShape, vars, countVars, sweepVars, clockVars
<1> QED
  BY <1>1, TypeCount, TypeHandled, TypeVisit, TypeRefresh, TypeSweepEnd, TypeTick DEF Next

(* Type correctness of the counter, the sweep and the cache: countCh and   *)
(* the batch of runCounter keep their bounds, and no refresh is put off    *)
(* for longer than the longest of the interval, the sweep and an hour.     *)
THEOREM TypeCorrect == Spec => []TypeOK
<1>1. TypeInv => TypeOK
  BY DEF TypeInv
<1> QED
  BY <1>1, TypeInit, TypeStep, PTL DEF Spec

-----------------------------------------------------------------------------
(* How long the cache keeps an answer.                                     *)

(* cache() replaces the entry of its name by one that lasts TTL(a), or     *)
(* leaves the cache alone.                                                 *)
LEMMA CachedEffect ==
  ASSUME TypeOK, NEW n \in Names, NEW a \in UNION Range(Answers), Cached(n, a)
  PROVE  /\ \A m \in Names : m # n => store'[m] = store[m]
         /\ \/ store'[n] = store[n]
            \/ /\ TTL(a) > 0 /\ store'[n] = [answer |-> a, left |-> TTL(a)]
               /\ store'[n] # None
<1>1. CASE TTL(a) > 0 /\ store' = [store EXCEPT ![n] = [answer |-> a, left |-> TTL(a)]]
  <2>1. TTL(a) \in Nat
    BY AnswerType, TTLBound
  <2>2. [answer |-> a, left |-> TTL(a)] # None
    BY <2>1, PrefetchAssumption
  <2>3. store \in [Names -> Entries \cup {None}]
    BY DEF TypeOK
  <2> QED
    BY <1>1, <2>2, <2>3
<1>2. CASE UNCHANGED store
  BY <1>2
<1> QED
  BY <1>1, <1>2 DEF Cached

(* What a step does to the cache. *)
LEMMA StoreStep ==
  ASSUME TypeInv, [Next]_vars
  PROVE  \/ UNCHANGED store
         \/ \E n \in Names : \E a \in UNION Range(Answers) : Cached(n, a)
         \/ Tick
<1>1. ASSUME NEW n \in Names, NEW a \in Answers[n], Handled(n, a)
      PROVE  a \in UNION Range(Answers) /\ Cached(n, a)
  BY <1>1, PrefetchAssumption DEF Handled, Range
<1>2. ASSUME NEW a \in UNION Range(Answers), Refresh(a)
      PROVE  job \in Names /\ Cached(job, a)
  BY <1>2 DEF Refresh, TypeInv, TypeOK
<1>3. ASSUME \/ UNCHANGED vars
             \/ \E n \in Names : CountQuery(n) \/ FixedVisit(n) \/ DynamicVisit(n)
             \/ CounterTake \/ CounterTick \/ SweepStart \/ DynamicStart \/ SweepEnd
             \/ RefreshFail \/ SweepPanic
      PROVE  UNCHANGED store
  BY <1>3 DEF vars, CountQuery, FixedVisit, DynamicVisit, CounterTake, CounterTick, SweepStart,
              DynamicStart, SweepEnd, RefreshFail, SweepPanic
<1> QED
  BY <1>1, <1>2, <1>3 DEF Next

(* An entry keeps within its limits. *)
Bounded(e) ==
  /\ e.left <= (IF e.answer.nx THEN NegTTL ELSE CacheTTL)
  /\ \A ttl \in Values(e.answer) \ {0} : e.left <= ttl

(* One that is stored does, *)
LEMMA StoredBounded ==
  ASSUME NEW a \in UNION Range(Answers), TTL(a) > 0
  PROVE  Bounded([answer |-> a, left |-> TTL(a)])
BY AnswerType, TTLBound DEF Bounded

(* and one that ages goes on to. *)
LEMMA AgedBounded ==
  ASSUME NEW e \in Entries \cup {None}, Aged(e) # None, Bounded(e)
  PROVE  Bounded(Aged(e))
<1>1. /\ e # None /\ e.left \in Nat /\ Aged(e).left = e.left - 1 /\ Aged(e).answer = e.answer
  BY AgedType
<1>2. e.answer \in Answer
  BY <1>1, AnswerType DEF Entries
<1>3. Values(e.answer) \subseteq Nat /\ (IF e.answer.nx THEN NegTTL ELSE CacheTTL) \in Nat
  BY <1>2, PrefetchAssumption DEF Values, Answer
<1> QED
  BY <1>1, <1>3 DEF Bounded

(* What cache() stores is never kept longer than the shortest-lived record *)
(* in it that has a TTL, nor than cacheTTL, or negTTL for NXDOMAIN: for    *)
(* every answer upstream may give, refreshed or resolved for a request.    *)
THEOREM CacheIsBounded == Spec => []CacheBounded
<1>1. CacheBounded <=> \A n \in Names : store[n] # None => Bounded(store[n])
  BY DEF CacheBounded, Bounded
<1>2. Init => CacheBounded
  BY <1>1 DEF Init
<1>3. ASSUME TypeInv, CacheBounded, [Next]_vars
      PROVE  CacheBounded'
  <2> SUFFICES ASSUME NEW m \in Names, store'[m] # None
               PROVE  Bounded(store'[m])
    BY DEF CacheBounded, Bounded
  <2>1. store[m] # None => Bounded(store[m])
    BY <1>1, <1>3
  <2>2. CASE UNCHANGED store
    BY <2>1, <2>2
  <2>3. ASSUME NEW n \in Names, NEW a \in UNION Range(Answers), Cached(n, a)
        PROVE  Bounded(store'[m])
    <3>1. \/ store'[m] = store[m]
          \/ TTL(a) > 0 /\ store'[m] = [answer |-> a, left |-> TTL(a)]
      BY <1>3, <2>3, CachedEffect DEF TypeInv
    <3> QED
      BY <2>1, <3>1, StoredBounded
  <2>4. CASE Tick
    <3>1. store'[m] = Aged(store[m]) /\ store[m] \in Entries \cup {None}
      BY <1>3, <2>4 DEF Tick, TypeInv, TypeOK
    <3>2. store[m] # None
      BY <3>1, AgedType
    <3> QED
      BY <2>1, <3>1, <3>2, AgedBounded
  <2> QED
    BY <1>3, <2>2, <2>3, <2>4, StoreStep
<1> QED
  BY <1>2, <1>3, TypeInit, TypeStep, PTL DEF Spec

-----------------------------------------------------------------------------
(* What earns a refresh.                                                   *)

(* The counts of a name are its queries, as long as there are less than    *)
(* two and no flush counted it too often.                                  *)
FewCounts ==
  \A n \in Names : asked[n] < 2 /\ n \notin recounted => Counts(n) <= asked[n]

(* What PrefetchEarned asks of a name. *)
Earned(n) == asked[n] = 2 \/ n \in recounted

(* No step counts a name more often than it was asked for, up to two. *)
LEMMA FewCountsStep ==
  ASSUME TypeInv, FewCounts, [Next]_vars
  PROVE  FewCounts' /\ \A n \in Names : Earned(n) => Earned(n)'
<1>1. \A n \in Names : asked[n] \in 0..2 /\ Counts(n) \in Nat
  BY CountsType DEF TypeInv, TypeOK
<1>2. ASSUME NEW n \in Names
      PROVE  Counts(n)' \in Nat /\ asked'[n] \in 0..2
  <2>1. TypeOK'
    BY TypeStep DEF TypeInv
  <2>2. score'[n] \in Nat /\ Times(n, queue') \in Nat /\ Times(n, batch') \in Nat /\ asked'[n] \in 0..2
    BY <2>1, PlacesFinite DEF TypeOK
  <2>3. Counts(n)' = score'[n] + Times(n, queue') + Times(n, batch')
    BY DEF Counts, Times
  <2> QED
    BY <2>2, <2>3
<1> SUFFICES ASSUME NEW n \in Names
             PROVE  /\ asked'[n] < 2 /\ n \notin recounted' => Counts(n)' <= asked'[n]
                    /\ Earned(n) => Earned(n)'
  BY DEF FewCounts
<1>3. asked[n] < 2 /\ n \notin recounted => Counts(n) <= asked[n]
  BY DEF FewCounts
<1>4. CASE CounterTake \/ CounterTick
  <2>1. /\ asked'[n] = asked[n] /\ recounted \subseteq recounted'
        /\ Counts(n)' <= Counts(n) \/ asked[n] = 2 \/ n \in recounted'
    BY <1>4, CounterEffect DEF TypeInv
  <2> QED
    BY <1>1, <1>2, <1>3, <2>1 DEF Earned
<1>5. ASSUME NEW m \in Names, CountQuery(m)
      PROVE  /\ asked'[n] < 2 /\ n \notin recounted' => Counts(n)' <= asked'[n]
             /\ Earned(n) => Earned(n)'
  <2>1. CASE n # m
    <3>1. /\ asked'[n] = asked[n] /\ Counts(n)' <= Counts(n)
          /\ recounted' \subseteq recounted
          /\ n \in recounted => n \in recounted' \/ asked'[n] = 2
      BY <1>5, <2>1, CountQueryEffect DEF TypeInv
    <3> QED
      BY <1>1, <1>2, <1>3, <3>1 DEF Earned
  <2>2. CASE n = m
    <3>1. /\ asked'[n] = (IF asked[n] < 2 THEN asked[n] + 1 ELSE asked[n])
          /\ Counts(n)' <= Counts(n) + 1
          /\ recounted' \subseteq recounted
          /\ n \in recounted => n \in recounted' \/ asked'[n] = 2
      BY <1>5, <2>2, CountQueryEffect DEF TypeInv
    <3> QED
      BY <1>1, <1>2, <1>3, <3>1 DEF Earned
  <2> QED
    BY <2>1, <2>2
<1>6. CASE SweepEnd
  <2>1. queue' = queue /\ batch' = batch /\ asked' = asked /\ recounted' = recounted /\ Decay
    BY <1>6 DEF SweepEnd
  <2>2. score'[n] \in Nat /\ score'[n] <= score[n]
    BY <2>1, DecayEffect DEF TypeInv
  <2>3. Counts(n)' = score'[n] + Times(n, queue) + Times(n, batch)
    BY <2>1 DEF Counts, Times
  <2>4. /\ score[n] \in Nat /\ Times(n, queue) \in Nat /\ Times(n, batch) \in Nat
        /\ Counts(n) = score[n] + Times(n, queue) + Times(n, batch)
    BY CountsType DEF TypeInv, Counts
  <2>5. Counts(n)' <= Counts(n)
    BY <2>2, <2>3, <2>4
  <2> QED
    BY <1>1, <1>2, <1>3, <2>1, <2>5 DEF Earned
<1>7. CASE UNCHANGED countVars
  BY <1>3, <1>7 DEF countVars, Counts, Times, Earned
<1>8. ASSUME \/ UNCHANGED vars
             \/ \E m \in Names : FixedVisit(m) \/ DynamicVisit(m)
             \/ \E m \in Names : \E a \in Answers[m] : Handled(m, a)
             \/ \E a \in UNION Range(Answers) : Refresh(a)
             \/ SweepStart \/ DynamicStart \/ RefreshFail \/ SweepPanic \/ Tick
      PROVE  UNCHANGED countVars
  BY <1>8 DEF vars, FixedVisit, DynamicVisit, Handled, Refresh, SweepStart, DynamicStart,
              RefreshFail, SweepPanic, Tick
<1> QED
  BY <1>4, <1>5, <1>6, <1>7, <1>8 DEF Next

(* A name whose score is as high as minPrefetchScore was asked for more    *)
(* than once or counted too often.                                         *)
LEMMA RankedEarned ==
  ASSUME TypeInv, FewCounts, NEW top \in Top, NEW n \in top
  PROVE  n \in Names /\ Earned(n)
<1>1. n \in Names /\ score[n] >= MinScore
  BY DEF Top, Highest
<1>2. /\ score[n] \in Nat /\ Times(n, queue) \in Nat /\ Times(n, batch) \in Nat
      /\ Counts(n) = score[n] + Times(n, queue) + Times(n, batch)
  BY <1>1, CountsType DEF TypeInv, Counts
<1>3. asked[n] \in 0..2
  BY <1>1 DEF TypeInv, TypeOK
<1>4. asked[n] < 2 /\ n \notin recounted => Counts(n) <= asked[n]
  BY <1>1 DEF FewCounts
<1> QED
  BY <1>1, <1>2, <1>3, <1>4, PrefetchAssumption DEF Earned

(* What the sweep has yet to refresh, or is refreshing, was earned.        *)
TodoEarned ==
  phase = "dyn" => \A n \in Names : n \in todo \/ n = job => Earned(n)

(* Only Top puts names there, and it takes those with two counts. *)
LEMMA TodoEarnedStep ==
  ASSUME TypeInv, FewCounts, TodoEarned, [Next]_vars
  PROVE  TodoEarned'
<1>1. \A n \in Names : Earned(n) => Earned(n)'
  BY FewCountsStep
<1> SUFFICES ASSUME phase' = "dyn", NEW n \in Names, n \in todo' \/ n = job'
             PROVE  Earned(n)
  BY <1>1 DEF TodoEarned
<1>2. CASE phase = "dyn" /\ (n \in todo \/ n = job)
  BY <1>2 DEF TodoEarned
<1>3. CASE DynamicStart
  <2>1. /\ job' = None /\ todo = {}
        /\ todo' = {} \/ \E top \in Top : todo' = Due(top)
    BY <1>3 DEF DynamicStart
  <2>2. n \in todo'
    BY <2>1, PrefetchAssumption
  <2>3. PICK top \in Top : n \in top
    BY <2>1, <2>2 DEF Due
  <2> QED
    BY <2>3, RankedEarned
<1>4. ASSUME NEW m \in Names, FixedVisit(m) \/ DynamicVisit(m)
      PROVE  phase = "dyn" /\ (n \in todo \/ n = job)
  BY <1>4 DEF FixedVisit, DynamicVisit
<1>5. ASSUME \/ RefreshFail
             \/ \E a \in UNION Range(Answers) : Refresh(a)
      PROVE  phase = "dyn" /\ n \in todo
  BY <1>5, PrefetchAssumption DEF RefreshFail, Refresh
<1>6. ASSUME SweepStart \/ SweepEnd \/ SweepPanic
      PROVE  FALSE
  BY <1>6 DEF SweepStart, SweepEnd, SweepPanic
<1>7. ASSUME \/ UNCHANGED vars
             \/ \E m \in Names : CountQuery(m)
             \/ \E m \in Names : \E a \in Answers[m] : Handled(m, a)
             \/ CounterTake \/ CounterTick \/ Tick
      PROVE  phase = "dyn" /\ (n \in todo \/ n = job)
  BY <1>7 DEF vars, sweepVars, CountQuery, Handled, CounterTake, CounterTick, Tick
<1> QED
  BY <1>2, <1>3, <1>4, <1>5, <1>6, <1>7 DEF Next

(* prefetchDynamic refreshes a name only if it was asked for more than     *)
(* once or a flush that was sent again (stats.go:180) counted it twice,    *)
(* however counts are queued, batched, lost, decayed and ranked meanwhile. *)
THEOREM RefreshIsEarned == Spec => []PrefetchEarned
<1>1. Init => FewCounts /\ TodoEarned
  <2> SUFFICES ASSUME Init, NEW n \in Names
               PROVE  Counts(n) <= asked[n]
    BY DEF Init, FewCounts, TodoEarned
  <2>1. queue \in Seq(Names) /\ Len(queue) = 0 /\ batch = queue /\ score[n] = 0 /\ asked[n] = 0
    BY DEF Init
  <2>2. \A i \in 1..Len(queue) : queue[i] # n
    BY <2>1
  <2>3. Times(n, queue) = 0
    BY <2>1, <2>2, TimesNone
  <2> QED
    BY <2>1, <2>3 DEF Counts
<1>2. TypeInv /\ FewCounts /\ TodoEarned /\ [Next]_vars => FewCounts' /\ TodoEarned'
  BY FewCountsStep, TodoEarnedStep
<1>3. TypeInv /\ TodoEarned => PrefetchEarned
  BY DEF TypeInv, TypeOK, TodoEarned, PrefetchEarned, Earned
<1> QED
  BY <1>1, <1>2, <1>3, TypeInit, TypeStep, PTL DEF Spec

-----------------------------------------------------------------------------
(* What is refreshed in time.                                              *)

(* The times of a steady name are numbers. *)
LEMMA TimeTypes ==
  ASSUME TypeInv, NEW n \in Names
  PROVE  /\ store[n] # None => store[n].left \in Nat \ {0}
         /\ next["dyn"][n] \in Nat
         /\ untilTick \in Nat \ {0} /\ untilTick <= Sweep
         /\ spent \in Nat /\ spent <= MaxSweep /\ MaxSweep \in Nat /\ Sweep \in Nat \ {0}
         /\ phase \in {"idle", "fixed", "dyn"} /\ n # None
<1>1. store[n] # None => store[n].left \in Nat \ {0}
  BY AgedType DEF TypeInv, TypeOK
<1>2. next["dyn"][n] \in 0..MaxDelay /\ MaxDelay \in Nat
  BY MaxDelayBound DEF TypeInv, TypeOK, MaxDelay
<1> QED
  BY <1>1, <1>2, PrefetchAssumption DEF TypeInv, TypeOK

(* A step that takes no time and neither schedules the name anew nor cuts  *)
(* its entry short, and leaves the sweep where it is for it.               *)
LEMMA InTimeKept ==
  ASSUME TypeInv, TypeInv', NEW n \in Names, InTime(n),
         UNCHANGED <<phase, spent, clockVars>>,
         next'["dyn"][n] = next["dyn"][n],
         InSweep(n)' <=> InSweep(n),
         store'[n] = store[n] \/ (store'[n] # None /\ store'[n].left >= store[n].left)
  PROVE  InTime(n)'
<1> DEFINE left == store[n].left
           later == store'[n].left
           delay == next["dyn"][n]
<1>1. /\ store[n] # None
      /\ delay > 0 => left >= delay + Slack
      /\ delay = 0 /\ InSweep(n) => left > MaxSweep - spent
      /\ delay = 0 /\ ~InSweep(n) =>
           /\ phase = "idle" => left > MaxSweep
           /\ phase = "dyn" => left > (MaxSweep - spent) + MaxSweep
           /\ ~tick => left > untilTick + MaxSweep
  BY DEF InTime
<1>2. store'[n] # None /\ later >= left
  BY <1>1, TimeTypes
<1>3. left \in Nat /\ delay \in Nat /\ untilTick \in Nat /\ spent \in Nat /\ MaxSweep \in Nat
  BY <1>1, TimeTypes
<1>4. later \in Nat
  <2>1. store'[n] \in Entries \cup {None}
    BY DEF TypeInv, TypeOK
  <2> QED
    BY <1>2, <2>1, AgedType
<1>5. phase' = phase /\ spent' = spent /\ untilTick' = untilTick /\ tick' = tick
  BY DEF clockVars
<1> HIDE DEF left, later
<1>6. /\ delay > 0 => later >= delay + Slack
      /\ delay = 0 /\ InSweep(n) => later > MaxSweep - spent
      /\ delay = 0 /\ ~InSweep(n) =>
           /\ phase = "idle" => later > MaxSweep
           /\ phase = "dyn" => later > (MaxSweep - spent) + MaxSweep
           /\ ~tick => later > untilTick + MaxSweep
  BY <1>1, <1>2, <1>3, <1>4, SlackBound
<1>7. Slack' = Slack
  BY DEF Slack
<1> HIDE DEF InSweep
<1> QED
  BY <1>2, <1>5, <1>6, <1>7 DEF InTime, later

(* The sweep starts on time: its ticker may have fired long ago. *)
LEMMA SteadySweepStart ==
  ASSUME TypeInv, SteadyInv, SweepStart
  PROVE  SteadyInv'
<1>1. /\ phase = "idle" /\ UNCHANGED <<spent, untilTick, next, store>>
      /\ steady' = {} \/ (phase' = "fixed" /\ steady' = steady)
  BY DEF SweepStart
<1> SUFFICES ASSUME NEW n \in steady'
             PROVE  InTime(n)'
  BY DEF SteadyInv
<1>2. n \in Names /\ InTime(n) /\ phase' = "fixed"
  BY <1>1 DEF SteadyInv, TypeInv, TypeOK
<1>3. /\ store[n] # None
      /\ next["dyn"][n] > 0 => store[n].left >= next["dyn"][n] + Slack
      /\ next["dyn"][n] = 0 => store[n].left > MaxSweep
  BY <1>1, <1>2 DEF InTime, InSweep
<1>4. next["dyn"][n] = 0 => store[n].left > MaxSweep - spent
  BY <1>2, <1>3, TimeTypes
<1> QED
  BY <1>1, <1>2, <1>3, <1>4 DEF InTime, InSweep, Slack

(* A steady name that is due is among those the sweep is to refresh. *)
LEMMA SteadyDynamicStart ==
  ASSUME TypeInv, SteadyInv, DynamicStart
  PROVE  SteadyInv'
<1>1. /\ phase = "fixed" /\ phase' = "dyn"
      /\ UNCHANGED <<spent, clockVars, next, store>>
  BY DEF DynamicStart
<1> SUFFICES ASSUME NEW n \in steady'
             PROVE  InTime(n)'
  BY DEF SteadyInv
<1>2. PICK top \in Top : todo' = Due(top) /\ steady' = steady \cap top
  BY DEF DynamicStart
<1>3. n \in Names /\ InTime(n) /\ n \in top
  BY <1>2 DEF SteadyInv, TypeInv, TypeOK
<1>4. next["dyn"][n] = 0 => InSweep(n)'
  BY <1>1, <1>2, <1>3 DEF Due, InSweep
<1>5. /\ store[n] # None
      /\ next["dyn"][n] > 0 => store[n].left >= next["dyn"][n] + Slack
      /\ next["dyn"][n] = 0 => store[n].left > MaxSweep - spent
  BY <1>1, <1>3 DEF InTime, InSweep
<1>6. Slack' = Slack
  BY DEF Slack
<1> QED
  BY <1>1, <1>4, <1>5, <1>6 DEF InTime

(* The names the sweep visits, and those it has visited. *)
LEMMA SteadyVisit ==
  ASSUME TypeInv, TypeInv', SteadyInv, NEW m \in Names, FixedVisit(m) \/ DynamicVisit(m)
  PROVE  SteadyInv'
<1>1. /\ UNCHANGED <<phase, spent, clockVars, next, store, steady>>
      /\ job = None /\ todo' = todo \ {m}
      /\ phase = "fixed" \/ (phase = "dyn" /\ m \in todo /\ job' = m)
  BY DEF FixedVisit, DynamicVisit
<1> SUFFICES ASSUME NEW n \in steady'
             PROVE  InTime(n)'
  BY DEF SteadyInv
<1>2. n \in Names /\ InTime(n) /\ n # None
  BY <1>1, PrefetchAssumption DEF SteadyInv, TypeInv, TypeOK
<1>3. InSweep(n)' <=> InSweep(n)
  BY <1>1, <1>2 DEF InSweep
<1>4. next'["dyn"][n] = next["dyn"][n] /\ store'[n] = store[n]
  BY <1>1
<1> QED
  BY <1>1, <1>2, <1>3, <1>4, InTimeKept

(* A request stores an answer, or the sweep refreshes a fixed name, or a   *)
(* ranked one: that has the slack from then on.                            *)
LEMMA SteadyStored ==
  ASSUME TypeInv, TypeInv', SteadyInv,
         \/ \E m \in Names : \E a \in Answers[m] : Handled(m, a)
         \/ \E a \in UNION Range(Answers) : Refresh(a)
  PROVE  SteadyInv'
<1> SUFFICES ASSUME NEW n \in steady'
             PROVE  InTime(n)'
  BY DEF SteadyInv
<1>1. n \in Names /\ n # None
  BY PrefetchAssumption DEF TypeInv, TypeOK
<1>2. ASSUME NEW m \in Names, NEW a \in UNION Range(Answers), Cached(m, a), steady' = Lasting
      PROVE  /\ n \in steady /\ InTime(n)
             /\ store'[n] = store[n] \/ (store'[n] # None /\ store'[n].left >= store[n].left)
  <2>1. n \in steady /\ InTime(n)
    BY <1>2 DEF Lasting, SteadyInv
  <2>2. store'[n] = store[n] \/ store'[n].left >= store[n].left
    BY <1>2 DEF Lasting
  <2>3. store'[n] = store[n] \/ store'[n] # None
    BY <1>1, <1>2, CachedEffect DEF TypeInv
  <2> QED
    BY <2>1, <2>2, <2>3
<1>3. ASSUME NEW m \in Names, NEW a \in Answers[m], Handled(m, a)
      PROVE  InTime(n)'
  <2>1. /\ UNCHANGED <<sweepVars, clockVars, next>>
        /\ Cached(m, a) /\ steady' = Lasting
    BY <1>3 DEF Handled
  <2>2. a \in UNION Range(Answers)
    BY PrefetchAssumption DEF Range
  <2>3. UNCHANGED <<phase, spent, clockVars>> /\ (InSweep(n)' <=> InSweep(n))
    BY <2>1 DEF sweepVars, InSweep
  <2>4. next'["dyn"][n] = next["dyn"][n]
    BY <2>1
  <2> QED
    BY <1>1, <1>2, <2>1, <2>2, <2>3, <2>4, InTimeKept
<1>4. ASSUME NEW a \in UNION Range(Answers), Refresh(a)
      PROVE  InTime(n)'
  <2>1. /\ UNCHANGED <<phase, todo, spent, clockVars>>
        /\ job # None /\ job' = None
        /\ Cached(job, a)
        /\ next' = [next EXCEPT ![phase][job] = Delay(a)]
    BY <1>4 DEF Refresh
  <2>2. job \in Names /\ phase \in {"fixed", "dyn"}
    BY <2>1 DEF TypeInv, TypeOK, SweepShape
  <2>3. next \in [{"fixed", "dyn"} -> [Names -> 0..MaxDelay]]
    BY DEF TypeInv, TypeOK, MaxDelay
  <2>4. CASE phase = "fixed"
    <3>1. steady' = Lasting
      BY <1>4, <2>4 DEF Refresh
    <3>2. next'["dyn"][n] = next["dyn"][n]
      BY <2>1, <2>3, <2>4
    <3>3. InSweep(n)' <=> InSweep(n)
      BY <2>1, <2>4 DEF InSweep
    <3> QED
      BY <1>1, <1>2, <2>1, <2>2, <3>1, <3>2, <3>3, InTimeKept
  <2>5. CASE phase = "dyn" /\ n # job
    <3>1. n \in steady /\ InTime(n)
      BY <1>4, <2>5 DEF Refresh, SteadyInv
    <3>2. next'["dyn"][n] = next["dyn"][n]
      BY <1>1, <2>1, <2>2, <2>3, <2>5
    <3>3. InSweep(n)' <=> InSweep(n)
      BY <1>1, <2>1, <2>5 DEF InSweep
    <3>4. store'[n] = store[n]
      BY <1>1, <2>1, <2>2, <2>5, CachedEffect DEF TypeInv
    <3> QED
      BY <1>1, <2>1, <3>1, <3>2, <3>3, <3>4, InTimeKept
  <2>6. CASE phase = "dyn" /\ n = job
    <3>1. TTL(a) >= 5 * Slack /\ store'[n] = [answer |-> a, left |-> TTL(a)]
      BY <1>4, <2>6 DEF Refresh
    <3>2. TTL(a) \in Nat
      BY AnswerType, TTLBound
    <3>3. next'["dyn"][n] = NextDelay(TTL(a))
      BY <2>1, <2>2, <2>3, <2>6 DEF Delay
    <3>4. NextDelay(TTL(a)) > 0 /\ TTL(a) >= NextDelay(TTL(a)) + Slack
      BY <3>1, <3>2, NextDelayBound, MaxDelayBound
    <3>5. store'[n] # None
      BY <3>1, <3>2, PrefetchAssumption
    <3>6. NextDelay(TTL(a)) # 0
      BY <3>2, <3>4, NextDelayBound, MaxDelayBound
    <3>7. store'[n].left = TTL(a) /\ Slack' = Slack
      BY <3>1 DEF Slack
    <3> QED
      BY <3>3, <3>4, <3>5, <3>6, <3>7 DEF InTime
  <2> QED
    BY <2>2, <2>4, <2>5, <2>6
<1> QED
  BY <1>3, <1>4

(* A ranked name that could not be refreshed is steady no longer. *)
LEMMA SteadyRefreshFail ==
  ASSUME TypeInv, TypeInv', SteadyInv, RefreshFail
  PROVE  SteadyInv'
<1>1. /\ UNCHANGED <<phase, todo, spent, clockVars, store>>
      /\ job # None /\ job' = None
      /\ steady' = (IF phase = "fixed" THEN steady ELSE steady \ {job})
      /\ \/ UNCHANGED next
         \/ phase = "dyn" /\ next' = [next EXCEPT !["dyn"][job] = Sweep]
  BY DEF RefreshFail
<1>2. job \in Names /\ phase \in {"fixed", "dyn"}
  BY <1>1 DEF TypeInv, TypeOK, SweepShape
<1>3. next \in [{"fixed", "dyn"} -> [Names -> 0..MaxDelay]]
  BY DEF TypeInv, TypeOK, MaxDelay
<1> SUFFICES ASSUME NEW n \in steady'
             PROVE  InTime(n)'
  BY DEF SteadyInv
<1>4. n \in Names /\ n # None /\ InTime(n) /\ (phase = "dyn" => n # job)
  BY <1>1, PrefetchAssumption DEF SteadyInv, TypeInv, TypeOK
<1>5. InSweep(n)' <=> InSweep(n)
  BY <1>1, <1>2, <1>4 DEF InSweep
<1>6. next'["dyn"][n] = next["dyn"][n] /\ store'[n] = store[n]
  BY <1>1, <1>2, <1>3, <1>4
<1> QED
  BY <1>1, <1>4, <1>5, <1>6, InTimeKept

(* The sweep ends: what it left due has the time of the next one. *)
LEMMA SteadySweepEnd ==
  ASSUME TypeInv, SteadyInv, SweepEnd
  PROVE  SteadyInv'
<1>1. /\ UNCHANGED <<todo, job, clockVars, next, store, steady>>
      /\ phase = "dyn" /\ phase' = "idle" /\ todo = {} /\ job = None /\ spent' = 0
  BY DEF SweepEnd
<1> SUFFICES ASSUME NEW n \in steady'
             PROVE  InTime(n)'
  BY DEF SteadyInv
<1>2. n \in Names /\ n # None /\ InTime(n)
  BY <1>1, PrefetchAssumption DEF SteadyInv, TypeInv, TypeOK
<1>3. ~InSweep(n) /\ ~InSweep(n)'
  BY <1>1, <1>2 DEF InSweep
<1>4. /\ store[n] # None
      /\ next["dyn"][n] > 0 => store[n].left >= next["dyn"][n] + Slack
      /\ next["dyn"][n] = 0 => store[n].left > (MaxSweep - spent) + MaxSweep
      /\ next["dyn"][n] = 0 /\ ~tick => store[n].left > untilTick + MaxSweep
  BY <1>1, <1>2, <1>3 DEF InTime
<1>5. next["dyn"][n] = 0 => store[n].left > MaxSweep
  BY <1>2, <1>4, TimeTypes
<1>6. Slack' = Slack
  BY DEF Slack
<1> QED
  BY <1>1, <1>3, <1>4, <1>5, <1>6 DEF InTime, clockVars

(* Time passes: a delay runs out and the slack begins, or the slack is     *)
(* used up, as fast as the time that the sweep has or the ticker takes.    *)
LEMMA SteadyTick ==
  ASSUME TypeInv, SteadyInv, Tick
  PROVE  SteadyInv'
<1> SUFFICES ASSUME NEW n \in steady'
             PROVE  InTime(n)'
  BY DEF SteadyInv
<1> DEFINE left == store[n].left
           delay == next["dyn"][n]
           left1 == store'[n].left
           delay1 == next'["dyn"][n]
<1>1. /\ UNCHANGED <<phase, todo, job, steady>>
      /\ \/ phase = "idle" /\ ~tick /\ spent' = spent
         \/ job # None /\ spent < MaxSweep /\ spent' = spent + 1
      /\ untilTick' = (IF untilTick = 1 THEN Sweep ELSE untilTick - 1)
      /\ tick' = (tick \/ untilTick = 1)
      /\ store' = [m \in Names |-> Aged(store[m])]
      /\ next' = [p \in DOMAIN next |-> [m \in Names |-> Less(next[p][m])]]
  BY DEF Tick
<1>2. n \in Names /\ InTime(n)
  BY <1>1 DEF SteadyInv, TypeInv, TypeOK
<1>3. (InSweep(n)' <=> InSweep(n)) /\ (phase = "idle" => ~InSweep(n) /\ job = None)
  BY <1>1 DEF InSweep, TypeInv, SweepShape
<1>4. /\ store[n] # None
      /\ delay > 0 => left >= delay + Slack
      /\ delay = 0 /\ InSweep(n) => left > MaxSweep - spent
      /\ delay = 0 /\ ~InSweep(n) =>
           /\ phase = "idle" => left > MaxSweep
           /\ phase = "dyn" => left > (MaxSweep - spent) + MaxSweep
           /\ ~tick => left > untilTick + MaxSweep
  BY <1>2 DEF InTime
<1>5. /\ left \in Nat \ {0} /\ delay \in Nat
      /\ untilTick \in Nat \ {0} /\ untilTick <= Sweep
      /\ spent \in Nat /\ spent <= MaxSweep /\ MaxSweep \in Nat /\ Sweep \in Nat \ {0}
      /\ phase \in {"idle", "fixed", "dyn"}
  BY <1>2, <1>4, TimeTypes
<1>6. phase = "fixed" => InSweep(n)
  BY DEF InSweep
<1>7. delay1 = IF delay > 0 THEN delay - 1 ELSE 0
  <2>1. "dyn" \in DOMAIN next
    BY DEF TypeInv, TypeOK
  <2> QED
    BY <1>1, <1>2, <2>1 DEF Less
<1>8. store'[n] = Aged(store[n]) /\ store[n] \in Entries \cup {None}
  BY <1>1, <1>2 DEF TypeInv, TypeOK
<1>9. left > 1 => store'[n] # None /\ left1 = left - 1
  BY <1>4, <1>8, AgedType
<1> HIDE DEF left, left1, delay, delay1, InSweep
<1>10. Slack \in Nat /\ Slack >= Sweep + MaxSweep /\ Slack >= 2 * MaxSweep
  BY SlackBound
<1>11. left > 1
  BY <1>1, <1>3, <1>4, <1>5, <1>6, <1>10
<1>12. ~tick' => ~tick /\ untilTick' = untilTick - 1
  BY <1>1
<1>13. /\ phase = "idle" => spent' = spent /\ ~tick
       /\ phase # "idle" => spent' = spent + 1 /\ spent < MaxSweep
  BY <1>1, <1>3
<1>14. delay1 > 0 => left1 >= delay1 + Slack
  BY <1>4, <1>5, <1>7, <1>9, <1>10, <1>11
<1>15. delay1 = 0 /\ InSweep(n) => left1 > MaxSweep - spent'
  BY <1>3, <1>4, <1>5, <1>7, <1>9, <1>10, <1>11, <1>13
<1>16. delay1 = 0 /\ ~InSweep(n) /\ phase = "idle" => left1 > MaxSweep
  BY <1>4, <1>5, <1>7, <1>9, <1>10, <1>11, <1>13
<1>17. delay1 = 0 /\ ~InSweep(n) /\ phase = "dyn" => left1 > (MaxSweep - spent') + MaxSweep
  BY <1>4, <1>5, <1>7, <1>9, <1>10, <1>11, <1>13
<1>18. delay1 = 0 /\ ~InSweep(n) /\ ~tick' => left1 > untilTick' + MaxSweep
  BY <1>4, <1>5, <1>7, <1>9, <1>10, <1>11, <1>12
<1>19. Slack' = Slack /\ phase' = phase
  BY <1>1 DEF Slack
<1> QED
  BY <1>3, <1>9, <1>11, <1>14, <1>15, <1>16, <1>17, <1>18, <1>19 DEF InTime, left1, delay1

(* Every step keeps steady names in time. *)
LEMMA SteadyStep == TypeInv /\ TypeInv' /\ SteadyInv /\ [Next]_vars => SteadyInv'
<1> SUFFICES ASSUME TypeInv, TypeInv', SteadyInv, [Next]_vars
             PROVE  SteadyInv'
  OBVIOUS
<1>1. ASSUME \/ UNCHANGED vars
             \/ \E m \in Names : CountQuery(m)
             \/ CounterTake \/ CounterTick
      PROVE  SteadyInv'
  <2>1. UNCHANGED <<sweepVars, clockVars, next, store, steady>>
    BY <1>1 DEF vars, CountQuery, CounterTake, CounterTick
  <2> QED
    BY <2>1 DEF SteadyInv, InTime, InSweep, Slack, sweepVars, clockVars
<1>2. CASE SweepPanic
  BY <1>2 DEF SweepPanic, SteadyInv
<1> QED
  BY <1>1, <1>2, SteadySweepStart, SteadyDynamicStart, SteadyVisit, SteadyStored,
     SteadyRefreshFail, SteadySweepEnd, SteadyTick DEF Next

(* prefetchDynamic is never late for a name that stays ranked and whose    *)
(* refreshes succeed, whatever the sweep interval, the cap of an hour, and *)
(* how long sweeps take, when a fifth of its TTL covers the latest sweep:  *)
(* its answer does not lapse from the Redis cache.                         *)
THEOREM SteadyNeverLapses == Spec => []NeverLapses
<1>1. Init => SteadyInv
  BY DEF Init, SteadyInv
<1>2. SteadyInv => NeverLapses
  BY DEF SteadyInv, InTime, NeverLapses
<1> QED
  BY <1>1, <1>2, SteadyStep, TypeInit, TypeStep, PTL DEF Spec

=============================================================================
