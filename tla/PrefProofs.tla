----------------------------- MODULE PrefProofs -----------------------------
(***************************************************************************)
(* Theorems about module Pref, for any number of concurrent resolutions,   *)
(* any addresses, any threshold of hits and any number of commands that    *)
(* are sent again.                                                         *)
(***************************************************************************)
EXTENDS Pref, FiniteSetTheorems, TLAPS

(* What a resolution on its way has settled: an answer it races over is    *)
(* not empty, and the address it is about to narrow to is part of it.      *)
PickAnswered ==
  \A r \in Resolvers :
    /\ rpc[r] # "idle" => answer[r] # {}
    /\ rpc[r] = "bump" => pick[r] \in answer[r]
    /\ rpc[r] \in {"hset", "expire"} => pick[r] \in answer[r] \cup {None}

(* The inductive invariant behind answers that are never broken. *)
BrokenInv == TypeOK /\ PickAnswered /\ NeverBroken

(* The initial state has nothing on its way. *)
LEMMA BrokenInit == Init => BrokenInv
BY PrefAssumption DEF Init, BrokenInv, TypeOK, PickAnswered, NeverBroken

(* Narrowing to an address of the answer leaves a non-empty part of it. *)
LEMMA NarrowSound ==
  ASSUME NEW ips, NEW ip \in ips
  PROVE  Narrow(ips, ip) \subseteq ips /\ Narrow(ips, ip) # {}
BY DEF Narrow

(* Every step of a resolution, and of time, keeps the invariant. *)
LEMMA BrokenStep == BrokenInv /\ [Next]_vars => BrokenInv'
<1> SUFFICES ASSUME BrokenInv, [Next]_vars PROVE BrokenInv'
  OBVIOUS
<1> USE PrefAssumption DEF BrokenInv, TypeOK, PickAnswered, NeverBroken, retryVars
<1>1. ASSUME NEW r \in Resolvers, NEW ips \in SUBSET IPs, Upstream(r, ips)
      PROVE  BrokenInv'
  <2>1. CASE Cardinality(ips) < 2
    BY <1>1, <2>1 DEF Upstream, Return, Goto
  <2>2. CASE ~(Cardinality(ips) < 2)
    <3>1. ips # {}
      <4>1. Cardinality({}) = 0
        BY FS_EmptySet
      <4>2. ips = {} => Cardinality(ips) = 0
        BY ONLY <4>1, Zenon
      <4>3. Cardinality(ips) = 0 => Cardinality(ips) < 2
        OBVIOUS
      <4> QED  BY ONLY <2>2, <4>2, <4>3
    <3> QED  BY <1>1, <2>2, <3>1 DEF Upstream, Goto
  <2> QED  BY <2>1, <2>2
<1>2. ASSUME NEW r \in Resolvers, LoadMiss(r)
      PROVE  BrokenInv'
  BY <1>2 DEF LoadMiss, Goto
<1>3. ASSUME NEW r \in Resolvers, LoadNegative(r)
      PROVE  BrokenInv'
  BY <1>3 DEF LoadNegative, Return, Goto
<1>4. ASSUME NEW r \in Resolvers, LoadHit(r)
      PROVE  BrokenInv'
  <2>1. entry.ip \in answer[r] /\ entry.ip \in IPs
    BY <1>4 DEF LoadHit, StillAnswered, Entry
  <2> QED  BY <1>4, <2>1 DEF LoadHit, Goto
<1>0. ASSUME entry' = Bumped
      PROVE  entry' \in Entry
  <2>1. CASE entry # None
    <3>1. entry \in Entry /\ entry.hits + 1 \in Nat
      BY <2>1 DEF Entry
    <3> QED  BY <1>0, <2>1, <3>1 DEF Bumped, Entry
  <2>2. CASE entry = None
    BY <1>0, <2>2 DEF Bumped, Entry
  <2> QED  BY <2>1, <2>2
<1>5. ASSUME NEW r \in Resolvers, Bump(r)
      PROVE  BrokenInv'
  <2>1. entry' \in Entry \cup {None}
    BY <1>0, <1>5 DEF Bump
  <2>2. /\ Narrow(answer[r], pick[r]) \subseteq answer[r]
        /\ Narrow(answer[r], pick[r]) # {}
    BY <1>5, NarrowSound DEF Bump
  <2> QED  BY <1>5, <2>1, <2>2 DEF Bump, Return, Goto
<1>6. ASSUME NEW r \in Resolvers, Race(r)
      PROVE  BrokenInv'
  <2>1. PICK ip \in answer[r] \cup {None} : pick' = [pick EXCEPT ![r] = ip]
    BY <1>6 DEF Race
  <2> QED  BY <1>6, <2>1 DEF Race, Goto
<1>7. ASSUME NEW r \in Resolvers, StoreHSet(r)
      PROVE  BrokenInv'
  <2>1. entry' \in Entry
    BY <1>7 DEF StoreHSet, Entry
  <2> QED  BY <1>7, <2>1 DEF StoreHSet, Goto
<1>8. ASSUME NEW r \in Resolvers, rpc[r] \in {"hset", "expire"}
      PROVE  Result(r) \subseteq answer[r] /\ Result(r) # {}
  BY <1>8, NarrowSound DEF Result
<1>9. ASSUME NEW r \in Resolvers, StoreExpire(r) \/ StoreFail(r)
      PROVE  BrokenInv'
  <2>1. entry' \in Entry \cup {None}
    BY <1>9 DEF StoreExpire, StoreFail, Entry
  <2>2. Result(r) \subseteq answer[r] /\ Result(r) # {}
    BY <1>8, <1>9 DEF StoreExpire, StoreFail
  <2> QED  BY <1>9, <2>1, <2>2 DEF StoreExpire, StoreFail, Return, Goto
<1>10. CASE Age \/ Expire
  <2>1. entry' \in Entry \cup {None}
    BY <1>10 DEF Age, Expire, Entry
  <2> QED  BY <1>10, <2>1 DEF Age, Expire
<1>11. CASE UNCHANGED vars
  BY <1>11 DEF vars
<1>12. ASSUME NEW r \in Resolvers, BumpAgain(r)
       PROVE  BrokenInv'
  BY <1>12 DEF BumpAgain
<1>13. CASE BumpLate
  <2>1. entry' \in Entry
    BY <1>0, <1>13 DEF BumpLate
  <2> QED  BY <1>13, <2>1 DEF BumpLate
<1>14. ASSUME NEW r \in Resolvers, StoreAgain(r)
       PROVE  BrokenInv'
  BY <1>14 DEF StoreAgain, Goto
<1> QED
  BY <1>1, <1>2, <1>3, <1>4, <1>5, <1>6, <1>7, <1>9, <1>10, <1>11, <1>12, <1>13, <1>14
  DEF Next, Load, Store

(* Racing and the preferred-IP cache never break an answer: what applyRace *)
(* returns is a non-empty part of what upstream answered, however many     *)
(* resolutions share the entry and whatever Redis operation fails.         *)
THEOREM AnswersNeverBroken == Spec => []NeverBroken
<1>1. BrokenInv => NeverBroken
  BY DEF BrokenInv
<1> QED  BY <1>1, BrokenInit, BrokenStep, PTL DEF Spec

(* The entry and the goroutines keep their types. *)
THEOREM PrefTypeCorrect == Spec => []TypeOK
<1>1. BrokenInv => TypeOK
  BY DEF BrokenInv
<1> QED  BY <1>1, BrokenInit, BrokenStep, PTL DEF Spec

-----------------------------------------------------------------------------
(* The hit counter.                                                        *)

(* Resolutions that judged the entry valid and have not bumped it yet. *)
Bumpers == {r \in Resolvers : rpc[r] = "bump"}

(* The inductive form of HitsBounded: bumps still to come are counted, of *)
(* the goroutines and of copies that Redis has yet to carry out.           *)
HitsInv ==
  entry # None =>
    entry.hits + Cardinality(Bumpers) + late
      <= RecheckHits - 1 + Cardinality(Resolvers) + resends

(* Bumpers are some of the resolutions. *)
LEMMA BumpersBound ==
  /\ IsFiniteSet(Bumpers)
  /\ Cardinality(Bumpers) \in Nat
  /\ Cardinality(Bumpers) <= Cardinality(Resolvers)
  /\ Cardinality(Resolvers) \in Nat
BY PrefAssumption, FS_Subset, FS_CardinalityType DEF Bumpers

(* While some resolution is elsewhere, not all of them are bumpers. *)
LEMMA BumpersStrict ==
  ASSUME NEW r \in Resolvers, rpc[r] # "bump"
  PROVE  Cardinality(Bumpers) <= Cardinality(Resolvers) - 1
<1>1. Bumpers \subseteq Resolvers \ {r}
  BY DEF Bumpers
<1>2. IsFiniteSet(Resolvers \ {r}) /\ Cardinality(Resolvers \ {r}) = Cardinality(Resolvers) - 1
  BY PrefAssumption, FS_RemoveElement
<1> QED  BY <1>1, <1>2, FS_Subset

(* Every step keeps the counter with its pending bumps within the bound. *)
LEMMA HitsStep == TypeOK /\ TypeOK' /\ HitsInv /\ [Next]_vars => HitsInv'
<1> DEFINE Bounded == entry'.hits + Cardinality(Bumpers') + late'
                        <= RecheckHits - 1 + Cardinality(Resolvers) + resends'
<1> SUFFICES ASSUME TypeOK, TypeOK', HitsInv, [Next]_vars, entry' # None
             PROVE  Bounded
  BY DEF HitsInv
<1>1. /\ Cardinality(Bumpers) \in Nat /\ Cardinality(Bumpers') \in Nat
      /\ IsFiniteSet(Bumpers)
      /\ Cardinality(Bumpers) <= Cardinality(Resolvers)
      /\ Cardinality(Bumpers') <= Cardinality(Resolvers)
      /\ Cardinality(Resolvers) \in Nat /\ RecheckHits \in Nat \ {0}
      /\ entry'.hits \in Nat
      /\ entry # None => entry.hits \in Nat
      /\ late \in Nat /\ resends \in Nat /\ late <= resends
      /\ late' \in Nat /\ resends' \in Nat /\ late' <= resends'
  <2>1. Cardinality(Bumpers') \in Nat /\ Cardinality(Bumpers') <= Cardinality(Resolvers)
    BY PrefAssumption, FS_Subset, FS_CardinalityType DEF Bumpers
  <2> QED  BY <2>1, BumpersBound, PrefAssumption DEF TypeOK, Entry
(* A step that adds no bumper and no hit. *)
<1>2. ASSUME Bumpers' \subseteq Bumpers, entry # None, entry'.hits = entry.hits,
             UNCHANGED retryVars
      PROVE  Bounded
  <2>1. Cardinality(Bumpers') <= Cardinality(Bumpers)
    BY <1>1, <1>2, FS_Subset
  <2> QED  BY <1>1, <1>2, <2>1 DEF HitsInv, retryVars
<1>3. ASSUME NEW r \in Resolvers,
             \/ \E ips \in SUBSET IPs : Upstream(r, ips)
             \/ LoadMiss(r) \/ LoadNegative(r) \/ Race(r) \/ StoreAgain(r) \/ StoreFail(r)
      PROVE  Bumpers' \subseteq Bumpers /\ entry' = entry /\ UNCHANGED retryVars
  BY <1>3 DEF Bumpers, Upstream, LoadMiss, LoadNegative, Race, StoreAgain, StoreFail,
              Return, Goto, TypeOK
<1>4. ASSUME NEW r \in Resolvers, LoadHit(r)
      PROVE  Bounded
  <2>1. entry # None /\ entry' = entry /\ ~(entry.hits >= RecheckHits)
    BY <1>4 DEF LoadHit, Due
  <2> QED  BY <1>1, <2>1
(* What an HINCRBY does to the counter. *)
<1>5. ASSUME entry' = Bumped
      PROVE  \/ entry # None /\ entry'.hits = entry.hits + 1
             \/ entry = None /\ entry'.hits = 1
  BY <1>5 DEF Bumped, TypeOK, Entry
<1>6. ASSUME NEW r \in Resolvers, Bump(r)
      PROVE  Bounded
  <2>1. r \in Bumpers /\ Bumpers' = Bumpers \ {r}
    BY <1>6 DEF Bumpers, Bump, Return, Goto, TypeOK
  <2>2. Cardinality(Bumpers') = Cardinality(Bumpers) - 1
    BY <1>1, <2>1, FS_RemoveElement
  <2>3. UNCHANGED retryVars
    BY <1>6 DEF Bump
  <2>4. CASE entry' = Bumped
    BY <1>1, <1>5, <2>2, <2>3, <2>4 DEF HitsInv, retryVars
  <2>5. CASE entry' = entry
    BY <1>2, <2>1, <2>3, <2>5
  <2> QED  BY <1>6, <2>4, <2>5 DEF Bump
<1>7. ASSUME NEW r \in Resolvers, BumpAgain(r)
      PROVE  Bounded
  <2>1. Bumpers' = Bumpers /\ entry' = entry /\ late' = late + 1 /\ resends' = resends + 1
    BY <1>7 DEF BumpAgain, Bumpers
  <2> QED  BY <1>1, <2>1 DEF HitsInv
<1>8. CASE BumpLate
  <2>1. Bumpers' = Bumpers /\ entry' = Bumped /\ late' = late - 1 /\ resends' = resends
    BY <1>8 DEF BumpLate, Bumpers
  <2> QED  BY <1>1, <1>5, <2>1 DEF HitsInv
<1>9. ASSUME NEW r \in Resolvers, StoreHSet(r)
      PROVE  Bounded
  <2>1. entry'.hits = 1 /\ Bumpers' = Bumpers /\ rpc[r] # "bump"
    BY <1>9 DEF StoreHSet, Goto, Bumpers, TypeOK
  <2>2. Cardinality(Bumpers') <= Cardinality(Resolvers) - 1
    BY <2>1, BumpersStrict
  <2> QED  BY <1>1, <2>1, <2>2
<1>10. ASSUME NEW r \in Resolvers, StoreExpire(r)
       PROVE  /\ Bumpers' \subseteq Bumpers /\ entry # None /\ entry'.hits = entry.hits
              /\ UNCHANGED retryVars
  BY <1>10 DEF StoreExpire, Return, Goto, Bumpers, TypeOK, Entry
<1>11. CASE Age
  <2>1. /\ Bumpers' \subseteq Bumpers /\ entry # None /\ entry'.hits = entry.hits
        /\ UNCHANGED retryVars
    BY <1>11 DEF Age, Bumpers, TypeOK, Entry
  <2> QED  BY <1>2, <2>1
<1>12. CASE Expire
  BY <1>12 DEF Expire
<1>13. CASE UNCHANGED vars
  <2>1. Bumpers' \subseteq Bumpers /\ entry' = entry /\ UNCHANGED retryVars
    BY <1>13 DEF vars, Bumpers
  <2> QED  BY <1>2, <2>1
<1> QED
  BY <1>2, <1>3, <1>4, <1>6, <1>7, <1>8, <1>9, <1>10, <1>11, <1>12, <1>13
  DEF Next, Load, Store

(* The hit counter that decides when a race is due (pref.go:100) is read   *)
(* and incremented in separate commands, and an increment may be carried   *)
(* out twice.  It overshoots its threshold by less than the number of      *)
(* resolutions running at once and of commands sent again.                 *)
THEOREM HitsStayBounded == Spec => []HitsBounded
<1>1. Init => HitsInv
  BY DEF Init, HitsInv
<1>2. HitsInv /\ TypeOK => HitsBounded
  <2>1. ASSUME HitsInv, TypeOK, entry # None
        PROVE  entry.hits <= RecheckHits - 1 + Cardinality(Resolvers) + resends
    <3>1. entry.hits \in Nat /\ late \in Nat /\ resends \in Nat
      BY <2>1, PrefAssumption DEF TypeOK, Entry
    <3> QED  BY <2>1, <3>1, BumpersBound, PrefAssumption DEF HitsInv
  <2> QED  BY <2>1 DEF HitsBounded
<1> QED  BY <1>1, <1>2, HitsStep, PrefTypeCorrect, PTL DEF Spec

=============================================================================
