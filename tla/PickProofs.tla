----------------------------- MODULE PickProofs -----------------------------
(***************************************************************************)
(* The race for any number of addresses and ports, all round trips and all *)
(* settings of the two timers.                                             *)
(***************************************************************************)
EXTENDS PickWinner, FiniteSetTheorems, TLAPS

(* A probe that runs has no report waiting: so the channels count. *)
ProbesInv ==
  /\ IsFiniteSet(dialing) /\ IsFiniteSet(pinging) /\ IsFiniteSet(tcpCh) /\ IsFiniteSet(icmpCh)
  /\ \A r \in tcpCh : r.idx >= 0 /\ <<r.ip, r.idx>> \notin dialing
  /\ \A r \in icmpCh : r.idx = -1 /\ r.ip \notin pinging

TypeInv == TypeOK /\ ProbesInv

(* held is the fastest of the successes in S, None if there is none. *)
Fastest(held, S) ==
  IF S = {} THEN held = None ELSE held \in S /\ \A r \in S : held.rtt <= r.rtt

OtherPorts(S) == {r \in S : r.idx > 0}
Echoes(S) == {r \in S : r.idx < 0}

(* What the loop holds is the best of what it heard, tier by tier; a first *)
(* port ends it at once; and it holds no TCP success once TCP is over.     *)
HeldInv ==
  /\ Fastest(bestICMP, Echoes(heard))
  /\ lpc # "done" =>
       /\ Fastest(fallback, OtherPorts(heard))
       /\ \A r \in heard : r.idx # 0
       /\ timerRead => ~tcpLive
       /\ ~tcpLive => fallback = None
       /\ ~tcpLive => tcpPending = 0 \/ now >= Deadline

RaceInv == HeldInv /\ BestWins /\ NotGivenUp

-----------------------------------------------------------------------------

(* The TCP window is part of the budget. *)
LEMMA DeadlineType == Deadline \in Nat /\ Deadline <= Timeout
<1>1. Timeout \div 2 \in Nat /\ Timeout \div 2 <= Timeout
  BY PickAssumption
<1> QED BY <1>1, PickAssumption DEF Deadline

(* A report is a value. *)
LEMMA ReportNotNone == None \notin Report
<1> SUFFICES ASSUME None \in Report PROVE FALSE
  OBVIOUS
<1>1. /\ None = [ip |-> None.ip, idx |-> None.idx, rtt |-> None.rtt, ok |-> None.ok]
      /\ None.ip \in IPs /\ None.idx \in -1..(Ports - 1) /\ None.rtt \in Rtts \cup {0}
      /\ None.ok \in BOOLEAN
  BY Zenon DEF Report
<1>2. None.idx \in Int /\ None.rtt \in Nat
  BY <1>1, PickAssumption
<1>3. None \in [ip : IPs, idx : Int, rtt : Nat, ok : BOOLEAN]
  BY <1>1, <1>2, Zenon
<1> QED BY <1>3, PickAssumption

(* Port index and round trip of a report are numbers. *)
LEMMA ReportFields ==
  ASSUME NEW r \in Report
  PROVE  r.idx \in Int /\ r.rtt \in Nat
<1>1. r.idx \in -1..(Ports - 1) /\ r.rtt \in Rtts \cup {0}
  BY Zenon DEF Report
<1>2. Ports \in Int /\ Rtts \subseteq Nat
  BY PickAssumption
<1> DEFINE i == r.idx  t == r.rtt
<1> HIDE DEF i, t
<1>3. i \in Int /\ t \in Nat
  <2>1. i \in -1..(Ports - 1) /\ t \in Rtts \cup {0}
    BY <1>1 DEF i, t
  <2> QED BY <1>2, <2>1
<1> QED BY <1>3 DEF i, t

(* The counters start with the number of probes. *)
LEMMA TypeInit == Init => TypeInv
<1> SUFFICES ASSUME Init PROVE TypeInv
  OBVIOUS
<1>1. PortIdx = 0..(Ports - 1) /\ IsFiniteSet(PortIdx) /\ Cardinality(PortIdx) = Ports
  BY FS_Interval, PickAssumption DEF PortIdx
<1>2. IsFiniteSet(IPs \X PortIdx) /\ Cardinality(IPs \X PortIdx) = Cardinality(IPs) * Cardinality(PortIdx)
  BY <1>1, FS_Product, PickAssumption
<1>3. IsFiniteSet({}) /\ Cardinality({}) = 0
  BY FS_EmptySet
<1>4. Cardinality(IPs) \in Nat /\ Cardinality(IPs \X PortIdx) \in Nat
  BY <1>2, FS_CardinalityType, PickAssumption
<1>5. IsFiniteSet(pinging) /\ icmpPending = Cardinality(pinging) + Cardinality(icmpCh) /\ pinging \subseteq IPs
  BY <1>3, <1>4, PickAssumption DEF Init
<1>6. IsFiniteSet(dialing) /\ tcpPending = Cardinality(dialing) + Cardinality(tcpCh)
  BY <1>1, <1>2, <1>3, <1>4 DEF Init
<1>7. tcpLive \in BOOLEAN /\ timerRead \in BOOLEAN /\ ping \in BOOLEAN
  BY DEF Init
<1> QED BY <1>3, <1>5, <1>6, <1>7 DEF Init, TypeInv, TypeOK, ProbesInv

(* A probe moves from running to reported. *)
LEMMA TypeProbe ==
  ASSUME TypeInv, NEW o \in Outcomes,
         (\E p \in dialing : Dial(p, o)) \/ (\E ip \in pinging : Echo(ip, o))
  PROVE  TypeInv'
<1> USE PickAssumption DEF TypeInv, TypeOK, ProbesInv, probeVars, loopVars, Deadline
<1>1. o.ok \in BOOLEAN /\ o.rtt \in Rtts \cup {0}
  BY DEF Outcomes
<1>2. ASSUME NEW p \in dialing, Dial(p, o) PROVE TypeInv'
  <2> DEFINE r == [ip |-> p[1], idx |-> p[2], rtt |-> o.rtt, ok |-> o.ok]
  <2>1. p = <<p[1], p[2]>> /\ p[1] \in IPs /\ p[2] \in PortIdx
    OBVIOUS
  <2>2. r \in Report /\ r.idx >= 0 /\ r.ip = p[1] /\ r.idx = p[2]
    BY <1>1, <2>1 DEF Report, PortIdx
  <2>3. dialing' = dialing \ {p} /\ tcpCh' = tcpCh \cup {r}
    BY <1>2 DEF Dial
  <2> HIDE DEF r
  <2>4. r \notin tcpCh
    BY <2>1, <2>2
  <2>5. IsFiniteSet(dialing') /\ Cardinality(dialing') = Cardinality(dialing) - 1
    BY <2>3, FS_RemoveElement
  <2>6. IsFiniteSet(tcpCh') /\ Cardinality(tcpCh') = Cardinality(tcpCh) + 1
    BY <2>3, <2>4, FS_AddElement
  <2>7. Cardinality(dialing) \in Nat /\ Cardinality(tcpCh) \in Nat
    BY FS_CardinalityType
  <2>8. tcpPending' = Cardinality(dialing') + Cardinality(tcpCh')
    BY <1>2, <2>5, <2>6, <2>7 DEF Dial
  <2>9. ProbesInv'
    BY <1>2, <2>1, <2>2, <2>3, <2>5, <2>6 DEF Dial
  <2> QED BY <1>2, <2>2, <2>3, <2>8, <2>9 DEF Dial
<1>3. ASSUME NEW ip \in pinging, Echo(ip, o) PROVE TypeInv'
  <2> DEFINE r == [ip |-> ip, idx |-> -1, rtt |-> o.rtt, ok |-> o.ok]
  <2>1. r \in Report /\ r.idx = -1 /\ r.ip = ip
    BY <1>1 DEF Report
  <2>2. pinging' = pinging \ {ip} /\ icmpCh' = icmpCh \cup {r}
    BY <1>3 DEF Echo
  <2> HIDE DEF r
  <2>3. r \notin icmpCh
    BY <2>1
  <2>4. IsFiniteSet(pinging') /\ Cardinality(pinging') = Cardinality(pinging) - 1
    BY <2>2, FS_RemoveElement
  <2>5. IsFiniteSet(icmpCh') /\ Cardinality(icmpCh') = Cardinality(icmpCh) + 1
    BY <2>2, <2>3, FS_AddElement
  <2>6. Cardinality(pinging) \in Nat /\ Cardinality(icmpCh) \in Nat
    BY FS_CardinalityType
  <2>7. icmpPending' = Cardinality(pinging') + Cardinality(icmpCh')
    BY <1>3, <2>4, <2>5, <2>6 DEF Echo
  <2>8. ProbesInv'
    BY <1>3, <2>1, <2>2, <2>4, <2>5 DEF Echo
  <2> QED BY <1>3, <2>1, <2>2, <2>7, <2>8 DEF Echo
<1> QED BY <1>2, <1>3

(* The loop takes reports out of the channels and counts them. *)
LEMMA TypeLoop ==
  ASSUME TypeInv, Check \/ Select \/ Time \/ UNCHANGED vars
  PROVE  TypeInv'
<1> USE PickAssumption DEF TypeInv, TypeOK, ProbesInv, probeVars, loopVars, Deadline, Return, Loop
<1>1. CASE Check
  BY <1>1 DEF Check
<1>2. CASE RecvTcp
  <2>1. PICK r \in tcpCh : /\ tcpCh' = tcpCh \ {r} /\ tcpPending' = tcpPending - 1
                          /\ heard' \in {heard, heard \cup {r}}
                          /\ fallback' \in {fallback, r}
                          /\ lpc' \in {"check", "done"} /\ winner' \in {winner, r}
    BY <1>2 DEF RecvTcp, Faster
  <2>2. UNCHANGED <<ping, now, dialing, pinging, icmpCh, icmpPending, bestICMP, timerRead>>
    BY <1>2 DEF RecvTcp
  <2>5. tcpLive' \in BOOLEAN
    BY <1>2 DEF RecvTcp
  <2>3. IsFiniteSet(tcpCh') /\ Cardinality(tcpCh') = Cardinality(tcpCh) - 1
    BY <2>1, FS_RemoveElement
  <2>4. tcpPending' = Cardinality(dialing') + Cardinality(tcpCh')
    BY <2>1, <2>2, <2>3, FS_CardinalityType
  <2> QED BY <2>1, <2>2, <2>3, <2>4, <2>5
<1>3. CASE RecvIcmp
  <2>1. PICK r \in icmpCh : /\ icmpCh' = icmpCh \ {r} /\ icmpPending' = icmpPending - 1
                           /\ heard' \in {heard, heard \cup {r}}
                           /\ bestICMP' \in {bestICMP, r}
    BY <1>3 DEF RecvIcmp, Faster
  <2>2. /\ UNCHANGED <<ping, now, dialing, pinging, tcpCh, tcpPending, tcpLive, fallback, timerRead, winner>>
        /\ lpc' = "check"
    BY <1>3 DEF RecvIcmp
  <2>3. IsFiniteSet(icmpCh') /\ Cardinality(icmpCh') = Cardinality(icmpCh) - 1
    BY <2>1, FS_RemoveElement
  <2>4. icmpPending' = Cardinality(pinging') + Cardinality(icmpCh')
    BY <2>1, <2>2, <2>3, FS_CardinalityType
  <2> QED BY <2>1, <2>2, <2>3, <2>4
<1>4. CASE RecvDeadline
  BY <1>4 DEF RecvDeadline
<1>5. CASE RecvDone
  BY <1>5 DEF RecvDone
<1>6. CASE Time
  BY <1>6 DEF Time, Advance
<1>7. CASE UNCHANGED vars
  BY <1>7 DEF vars
<1> QED BY <1>1, <1>2, <1>3, <1>4, <1>5, <1>6, <1>7 DEF Select

(* The types hold throughout a race. *)
THEOREM TypeInvariant == Spec => []TypeInv
<1>1. TypeInv /\ [Next]_vars => TypeInv'
  BY TypeProbe, TypeLoop DEF Next, Probe
<1> QED BY TypeInit, <1>1, PTL DEF Spec

(* pickWinner's two counters are right, for any number of addresses and    *)
(* ports: they count the probes running and the reports waiting.           *)
THEOREM RaceTypeCorrect == Spec => []TypeOK
<1>1. TypeInv => TypeOK
  BY DEF TypeInv
<1> QED BY <1>1, TypeInvariant, PTL

-----------------------------------------------------------------------------
(* The winner.                                                             *)

(* Faster keeps the fastest. *)
LEMMA FasterKeeps ==
  ASSUME NEW S \in SUBSET Report, NEW held, NEW r \in Report, Fastest(held, S)
  PROVE  Fastest(Faster(held, r), S \cup {r})
<1>1. \A x \in Report : x.rtt \in Nat
  BY ReportFields
<1>2. CASE S = {}
  BY <1>1, <1>2, ReportNotNone DEF Fastest, Faster
<1>3. CASE S # {}
  BY <1>1, <1>3, ReportNotNone DEF Fastest, Faster
<1> QED BY <1>2, <1>3

(* What a tier holds tells about the successes heard in it. *)
LEMMA Held ==
  ASSUME TypeOK, HeldInv
  PROVE  /\ bestICMP = None => \A r \in heard : r.idx >= 0
         /\ bestICMP # None => /\ bestICMP \in heard /\ bestICMP.idx < 0
                               /\ \A r \in heard : r.idx < 0 => bestICMP.rtt <= r.rtt
         /\ lpc # "done" =>
              /\ fallback = None => \A r \in heard : r.idx < 0
              /\ fallback # None => /\ fallback \in heard /\ fallback.idx > 0
                                    /\ \A r \in heard : r.idx > 0 => fallback.rtt <= r.rtt
<1>1. \A r \in heard : r \in Report /\ r.idx \in Int
  BY ReportFields DEF TypeOK
<1> QED BY <1>1, ReportNotNone DEF HeldInv, Fastest, OtherPorts, Echoes

(* Returning what is held in the best tier with a success. *)
LEMMA ReturnHeld ==
  ASSUME TypeOK, HeldInv, lpc # "done", UNCHANGED <<heard, now, timerRead>>, lpc' = "done",
         \/ fallback # None /\ winner' = fallback
         \/ fallback = None /\ bestICMP # None /\ winner' = bestICMP
         \/ fallback = None /\ bestICMP = None /\ winner' = None
  PROVE  BestWins'
<1>1. \A r \in heard : r.idx \in Int /\ r.idx # 0
  BY ReportFields DEF TypeOK, HeldInv
<1>2. CASE fallback # None /\ winner' = fallback
  BY <1>1, <1>2, Held DEF BestWins, Tier
<1>3. CASE fallback = None /\ bestICMP # None /\ winner' = bestICMP
  BY <1>1, <1>3, Held DEF BestWins, Tier
<1>4. CASE fallback = None /\ bestICMP = None /\ winner' = None
  <2>1. heard = {}
    BY <1>1, <1>4, Held
  <2> QED BY <1>4, <2>1 DEF BestWins
<1> QED BY <1>2, <1>3, <1>4

(* A race that goes on has nothing to show yet. *)
LEMMA GoesOn ==
  ASSUME lpc' # "done"
  PROVE  BestWins' /\ NotGivenUp'
BY DEF BestWins, NotGivenUp

(* The loop decides without waiting. *)
LEMMA RaceCheck ==
  ASSUME TypeInv, RaceInv, Check
  PROVE  RaceInv'
<1> USE DEF RaceInv, Return, loopVars
<1>1. /\ UNCHANGED <<ping, now, tcpPending, icmpPending, tcpLive, fallback, bestICMP, timerRead, heard>>
      /\ lpc = "check" /\ Deadline' = Deadline
  BY DEF Check, Deadline
<1>2. HeldInv'
  BY <1>1 DEF HeldInv, Fastest, OtherPorts, Echoes
<1>3. CASE lpc' = "select"
  BY <1>2, <1>3, GoesOn
<1>4. CASE tcpPending = 0 /\ fallback # None /\ lpc' = "done" /\ winner' = fallback
  <2>1. BestWins'
    BY <1>1, <1>4, ReturnHeld DEF TypeInv
  <2> QED BY <1>2, <1>4, <2>1 DEF NotGivenUp
<1>5. CASE /\ ~(tcpPending = 0 /\ fallback # None) /\ TcpOver /\ bestICMP # None
           /\ lpc' = "done" /\ winner' = bestICMP
  <2>1. fallback = None
    BY <1>1, <1>5 DEF TcpOver, HeldInv
  <2>2. BestWins'
    BY <1>1, <1>5, <2>1, ReturnHeld DEF TypeInv
  <2> QED BY <1>2, <1>5, <2>2 DEF NotGivenUp
<1>6. CASE /\ ~(tcpPending = 0 /\ fallback # None) /\ TcpOver /\ bestICMP = None /\ icmpPending = 0
           /\ lpc' = "done" /\ winner' = None
  <2>1. fallback = None /\ (tcpPending = 0 \/ now >= Deadline)
    BY <1>1, <1>6 DEF TcpOver, HeldInv
  <2>2. BestWins'
    BY <1>1, <1>6, <2>1, ReturnHeld DEF TypeInv
  <2> QED BY <1>1, <1>2, <1>6, <2>1, <2>2 DEF NotGivenUp
<1> QED BY <1>3, <1>4, <1>5, <1>6 DEF Check

(* A TCP report: first port, other port, failure, or too late. *)
LEMMA RaceTcp ==
  ASSUME TypeInv, RaceInv, RecvTcp
  PROVE  RaceInv'
<1> USE DEF RaceInv
<1>1. PICK r \in tcpCh :
        /\ tcpPending' = tcpPending - 1 /\ tcpCh' = tcpCh \ {r}
        /\ heard' = heard \cup {x \in {r} : tcpLive /\ x.ok}
        /\ fallback' = IF tcpLive /\ r.ok /\ r.idx > 0 THEN Faster(fallback, r) ELSE fallback
        /\ \/ tcpLive /\ r.ok /\ r.idx = 0 /\ lpc' = "done" /\ winner' = r /\ UNCHANGED tcpLive
           \/ /\ ~(tcpLive /\ r.ok /\ r.idx = 0) /\ lpc' = "check"
              /\ tcpLive' = (tcpLive /\ ~(/\ tcpPending' = 0 /\ fallback' = None
                                          /\ bestICMP = None /\ icmpPending > 0))
  BY DEF RecvTcp, Return, Loop
<1>2. UNCHANGED <<ping, now, bestICMP, icmpPending, timerRead>> /\ lpc = "select" /\ Deadline' = Deadline
  BY DEF RecvTcp, Deadline
<1>3. r \in Report /\ r.idx \in Nat /\ heard \subseteq Report
  <2>1. r \in Report /\ heard \subseteq Report /\ r.idx >= 0
    BY DEF TypeInv, TypeOK, ProbesInv
  <2> QED BY <2>1, ReportFields
<1>4. \A x \in heard : x.idx # 0
  BY <1>2 DEF HeldInv
<1>5. Echoes(heard') = Echoes(heard)
  BY <1>1, <1>3 DEF Echoes
<1>6. Fastest(bestICMP, Echoes(heard))'
  BY <1>2, <1>5 DEF HeldInv, Fastest
<1>7. CASE tcpLive /\ r.ok /\ r.idx = 0
  <2>1. heard' = heard \cup {r} /\ winner' = r /\ lpc' = "done"
    BY <1>1, <1>7
  <2>2. \A x \in heard' : Tier(r) < Tier(x) \/ (Tier(r) = Tier(x) /\ r.idx = 0)
    BY <1>4, <1>7, <2>1 DEF Tier
  <2>3. BestWins'
    BY <2>1, <2>2 DEF BestWins, Tier
  <2>4. NotGivenUp'
    BY <1>3, <2>1, ReportNotNone DEF NotGivenUp
  <2> QED BY <1>6, <2>1, <2>3, <2>4 DEF HeldInv
<1>8. CASE ~(tcpLive /\ r.ok /\ r.idx = 0)
  <2>1. lpc' = "check" /\ \A x \in heard' : x.idx # 0
    BY <1>1, <1>4, <1>8
  <2>2. Fastest(fallback, OtherPorts(heard))'
    <3>1. OtherPorts(heard) \in SUBSET Report /\ Fastest(fallback, OtherPorts(heard))
      BY <1>2, <1>3 DEF OtherPorts, HeldInv
    <3>2. CASE tcpLive /\ r.ok
      <4>1. OtherPorts(heard') = OtherPorts(heard) \cup {r} /\ fallback' = Faster(fallback, r)
        BY <1>1, <1>3, <1>8, <3>2 DEF OtherPorts
      <4> QED BY <1>3, <3>1, <4>1, FasterKeeps DEF Fastest
    <3>3. CASE ~(tcpLive /\ r.ok)
      <4>1. OtherPorts(heard') = OtherPorts(heard) /\ fallback' = fallback
        BY <1>1, <3>3 DEF OtherPorts
      <4> QED BY <3>1, <4>1 DEF Fastest
    <3> QED BY <3>2, <3>3
  <2>3. tcpPending # 0
    <3>1. Cardinality(tcpCh) \in Nat /\ Cardinality(tcpCh) # 0 /\ Cardinality(dialing) \in Nat
      BY FS_CardinalityType, FS_EmptySet DEF TypeInv, ProbesInv
    <3> QED BY <3>1 DEF TypeInv, TypeOK
  <2>4. CASE ~tcpLive
    <3>1. ~tcpLive' /\ fallback' = fallback /\ fallback = None /\ now >= Deadline
      BY <1>1, <1>2, <1>8, <2>3, <2>4 DEF HeldInv
    <3> QED BY <1>2, <1>6, <2>1, <2>2, <3>1, GoesOn DEF HeldInv
  <2>5. CASE tcpLive
    <3>1. ~timerRead' /\ (~tcpLive' => fallback' = None /\ tcpPending' = 0)
      BY <1>1, <1>2, <1>8, <2>5 DEF HeldInv
    <3> QED BY <1>2, <1>6, <2>1, <2>2, <3>1, GoesOn DEF HeldInv
  <2> QED BY <2>4, <2>5
<1> QED BY <1>7, <1>8

(* An ICMP report never ends the race by itself. *)
LEMMA RaceIcmp ==
  ASSUME TypeInv, RaceInv, RecvIcmp
  PROVE  RaceInv'
<1> USE DEF RaceInv
<1>1. PICK r \in icmpCh :
        /\ heard' = heard \cup {x \in {r} : x.ok}
        /\ bestICMP' = IF r.ok THEN Faster(bestICMP, r) ELSE bestICMP
  BY DEF RecvIcmp
<1>2. /\ UNCHANGED <<ping, now, tcpPending, tcpLive, fallback, timerRead>>
      /\ lpc = "select" /\ lpc' = "check" /\ Deadline' = Deadline
  BY DEF RecvIcmp, Loop, Deadline
<1>3. r \in Report /\ r.idx = -1 /\ heard \subseteq Report
  BY DEF TypeInv, TypeOK, ProbesInv
<1>4. OtherPorts(heard') = OtherPorts(heard) /\ \A x \in heard' : x.idx # 0
  BY <1>1, <1>2, <1>3 DEF OtherPorts, HeldInv
<1>5. Fastest(bestICMP, Echoes(heard))'
  <2>1. Echoes(heard) \in SUBSET Report /\ Fastest(bestICMP, Echoes(heard))
    BY <1>3 DEF Echoes, HeldInv
  <2>2. CASE r.ok
    <3>1. Echoes(heard') = Echoes(heard) \cup {r} /\ bestICMP' = Faster(bestICMP, r)
      BY <1>1, <1>3, <2>2 DEF Echoes
    <3> QED BY <1>3, <2>1, <3>1, FasterKeeps DEF Fastest
  <2>3. CASE ~r.ok
    <3>1. Echoes(heard') = Echoes(heard) /\ bestICMP' = bestICMP
      BY <1>1, <2>3 DEF Echoes
    <3> QED BY <2>1, <3>1 DEF Fastest
  <2> QED BY <2>2, <2>3
<1>6. HeldInv'
  BY <1>2, <1>4, <1>5 DEF HeldInv, Fastest
<1> QED BY <1>2, <1>6, GoesOn

(* The two timers. *)
LEMMA RaceTimers ==
  ASSUME TypeInv, RaceInv, RecvDeadline \/ RecvDone
  PROVE  RaceInv'
<1> USE DEF RaceInv, Return, Loop, loopVars
<1>1. /\ UNCHANGED <<ping, now, tcpPending, icmpPending, fallback, bestICMP, heard>>
      /\ lpc = "select" /\ Deadline' = Deadline
  BY DEF RecvDeadline, RecvDone, Deadline
<1>2. CASE RecvDeadline
  <2>1. timerRead' = TRUE /\ tcpLive' = FALSE /\ now >= Deadline /\ ~timerRead
    BY <1>2 DEF RecvDeadline
  <2>2. CASE lpc' = "check" /\ fallback = None
    <3>1. HeldInv'
      BY <1>1, <2>1, <2>2 DEF HeldInv, Fastest, OtherPorts, Echoes
    <3> QED BY <2>2, <3>1, GoesOn
  <2>3. CASE /\ lpc' = "done"
             /\ \/ fallback # None /\ winner' = fallback
                \/ fallback = None /\ bestICMP # None /\ winner' = bestICMP
                \/ fallback = None /\ bestICMP = None /\ icmpPending = 0 /\ winner' = None
    <3>1. \A r \in heard : r.idx \in Int /\ r.idx # 0
      BY <1>1, ReportFields DEF TypeInv, TypeOK, HeldInv
    <3>2. BestWins'
      <4>1. CASE fallback # None /\ winner' = fallback
        BY <1>1, <3>1, <4>1, Held DEF BestWins, Tier, TypeInv
      <4>2. CASE fallback = None /\ bestICMP # None /\ winner' = bestICMP
        BY <1>1, <3>1, <4>2, Held DEF BestWins, Tier, TypeInv
      <4>3. CASE fallback = None /\ bestICMP = None /\ winner' = None
        <5>1. heard = {}
          BY <1>1, <3>1, <4>3, Held DEF TypeInv
        <5> QED BY <1>1, <4>3, <5>1 DEF BestWins
      <4> QED BY <2>3, <4>1, <4>2, <4>3
    <3>3. NotGivenUp'
      BY <1>1, <2>1, <2>3 DEF NotGivenUp
    <3>4. HeldInv'
      BY <1>1, <2>3 DEF HeldInv, Fastest, Echoes
    <3> QED BY <3>2, <3>3, <3>4
  <2> QED BY <1>2, <2>2, <2>3 DEF RecvDeadline
<1>3. CASE RecvDone
  <2>1. UNCHANGED <<timerRead, tcpLive>> /\ lpc' = "done" /\ now = Timeout
    BY <1>3 DEF RecvDone, Cancelled
  <2>2. HeldInv'
    BY <1>1, <2>1 DEF HeldInv, Fastest, Echoes
  <2>3. NotGivenUp'
    BY <1>1, <2>1, DeadlineType, PickAssumption DEF NotGivenUp
  <2>4. BestWins'
    <3>1. \A r \in heard : r.idx \in Int /\ r.idx # 0
      BY <1>1, ReportFields DEF TypeInv, TypeOK, HeldInv
    <3>2. CASE bestICMP # None /\ winner' = bestICMP /\ fallback # None
      <4>1. ~timerRead
        BY <1>1, <3>2 DEF HeldInv
      <4>2. bestICMP \in heard /\ Tier(bestICMP) = 2
        BY <3>1, <3>2, Held DEF Tier, TypeInv
      <4> QED BY <1>1, <2>1, <3>2, <4>1, <4>2 DEF BestWins
    <3>3. CASE bestICMP # None /\ winner' = bestICMP /\ fallback = None
      BY <1>1, <2>1, <3>3, ReturnHeld DEF TypeInv
    <3>4. CASE bestICMP = None /\ winner' = fallback
      BY <1>1, <2>1, <3>4, ReturnHeld DEF TypeInv
    <3> QED BY <1>3, <3>2, <3>3, <3>4 DEF RecvDone
  <2> QED BY <2>2, <2>3, <2>4
<1> QED BY <1>2, <1>3

(* The invariant holds throughout a race. *)
LEMMA RaceInvariant == Spec => []RaceInv
<1>1. Init => RaceInv
  BY DEF Init, RaceInv, HeldInv, Fastest, OtherPorts, Echoes, BestWins, NotGivenUp
<1>2. TypeInv /\ RaceInv /\ [Next]_vars => RaceInv'
  <2> SUFFICES ASSUME TypeInv, RaceInv, [Next]_vars PROVE RaceInv'
    OBVIOUS
  <2>1. CASE Probe \/ UNCHANGED vars
    <3>1. UNCHANGED <<ping, now, loopVars, timerRead, lpc, winner, heard>>
      BY <2>1 DEF Probe, Dial, Echo, vars
    <3> QED BY <3>1 DEF RaceInv, HeldInv, Fastest, OtherPorts, Echoes, BestWins, NotGivenUp,
               loopVars, Deadline, Tier
  <2>2. CASE Time
    <3>1. /\ UNCHANGED <<ping, loopVars, timerRead, lpc, winner, heard>> /\ lpc # "done"
          /\ Deadline' = Deadline
      BY <2>2 DEF Time, Advance, Deadline
    <3>2. now >= Deadline => now' >= Deadline
      BY <2>2, DeadlineType, PickAssumption DEF Time, Advance, TypeInv, TypeOK
    <3>3. HeldInv'
      BY <3>1, <3>2 DEF RaceInv, HeldInv, Fastest, OtherPorts, Echoes, loopVars
    <3> QED BY <3>1, <3>3, GoesOn DEF RaceInv
  <2> QED BY <2>1, <2>2, RaceCheck, RaceTcp, RaceIcmp, RaceTimers DEF Next, Select
<1> QED BY <1>1, <1>2, TypeInvariant, PTL DEF Spec

(* The best tier wins and the fastest in it, with the one exception that   *)
(* BestWins states.                                                        *)
THEOREM BestAlwaysWins == Spec => []BestWins
<1>1. RaceInv => BestWins
  BY DEF RaceInv
<1> QED BY <1>1, RaceInvariant, PTL

(* No race ends without a winner while a probe could still have given one. *)
THEOREM NobodyGivenUp == Spec => []NotGivenUp
<1>1. RaceInv => NotGivenUp
  BY DEF RaceInv
<1> QED BY <1>1, RaceInvariant, PTL

=============================================================================
