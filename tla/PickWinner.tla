----------------------------- MODULE PickWinner -----------------------------
(***************************************************************************)
(* pickWinner (internal/resolver/race.go): TCP connects on every address   *)
(* and port and one ICMP echo per address run at once; a single loop       *)
(* collects their results against two timers and returns the winner.      *)
(*                                                                         *)
(* Every probe is a goroutine that reports once on a fully buffered        *)
(* channel.  The order of reports is free and a report does not depend on  *)
(* the others, so a channel is a set.  Time has three instants that        *)
(* matter: the start, the TCP deadline and the end of the budget.  A timer *)
(* that has fired stays ready until its select case is taken, and select   *)
(* takes any ready case.                                                   *)
(***************************************************************************)
EXTENDS Integers, FiniteSets

CONSTANTS IPs,          \* candidate addresses
          Ports,        \* number of ports; port index 0 has priority
          Rtts,         \* round-trip times a probe may measure
          Timeout,      \* overall budget
          TcpDeadline,  \* configured TCP window
          None

ASSUME PickAssumption ==
  /\ IsFiniteSet(IPs)
  /\ Ports \in Nat \ {0}
  /\ Rtts \subseteq Nat
  /\ Timeout \in Nat \ {0}
  /\ TcpDeadline \in Int
  /\ None \notin [ip : IPs, idx : Int, rtt : Nat, ok : BOOLEAN]

VARIABLES
  ping,        \* ICMP probing is enabled, never changed
  now,         \* 0, Deadline or Timeout
  dialing,     \* TCP probes that have not reported
  pinging,     \* ICMP probes that have not reported
  tcpCh,       \* reports waiting in tcpCh
  icmpCh,      \* reports waiting in icmpCh
  tcpPending, icmpPending, tcpLive, fallback, bestICMP,
  timerRead,   \* deadline.C has been received from
  lpc,         \* "check", "select" or "done"
  winner,      \* the result returned, None for nil
  heard        \* history: the successes the loop took into account

probeVars == <<dialing, pinging, tcpCh, icmpCh>>
loopVars == <<tcpPending, icmpPending, tcpLive, fallback, bestICMP>>
vars == <<ping, now, probeVars, loopVars, timerRead, lpc, winner, heard>>

(* The window TCP really gets. *)
Deadline ==
  IF TcpDeadline <= 0 \/ TcpDeadline >= Timeout
  THEN IF ping THEN Timeout \div 2 ELSE Timeout
  ELSE TcpDeadline

(* An ICMP report has port index -1. *)
Report == [ip : IPs, idx : -1..(Ports - 1), rtt : Rtts \cup {0}, ok : BOOLEAN]
PortIdx == 0..(Ports - 1)
(* What a probe says: success with its round trip, or failure. *)
Outcomes == [ok : {TRUE}, rtt : Rtts] \cup [ok : {FALSE}, rtt : {0}]

Init ==
  /\ ping \in BOOLEAN
  /\ now = 0
  /\ dialing = IPs \X PortIdx
  /\ pinging = IF ping THEN IPs ELSE {}
  /\ tcpCh = {}
  /\ icmpCh = {}
  /\ tcpPending = Cardinality(IPs) * Ports
  /\ icmpPending = IF ping THEN Cardinality(IPs) ELSE 0
  /\ tcpLive = TRUE
  /\ fallback = None
  /\ bestICMP = None
  /\ timerRead = FALSE
  /\ lpc = "check"
  /\ winner = None
  /\ heard = {}

-----------------------------------------------------------------------------
(* The probes.  A probe can succeed only while the budget lasts; when it   *)
(* ends the context makes every outstanding one fail.                      *)

Dial(p, o) ==
  /\ p \in dialing
  /\ o.ok => now < Timeout
  /\ dialing' = dialing \ {p}
  /\ tcpCh' = tcpCh \cup {[ip |-> p[1], idx |-> p[2], rtt |-> o.rtt, ok |-> o.ok]}
  /\ UNCHANGED <<ping, now, pinging, icmpCh, loopVars, timerRead, lpc, winner, heard>>

Echo(ip, o) ==
  /\ ip \in pinging
  /\ o.ok => now < Timeout
  /\ pinging' = pinging \ {ip}
  /\ icmpCh' = icmpCh \cup {[ip |-> ip, idx |-> -1, rtt |-> o.rtt, ok |-> o.ok]}
  /\ UNCHANGED <<ping, now, dialing, tcpCh, loopVars, timerRead, lpc, winner, heard>>

Advance ==
  /\ now < Timeout
  /\ now' = IF now < Deadline THEN Deadline ELSE Timeout
  /\ UNCHANGED <<ping, probeVars, loopVars, timerRead, lpc, winner, heard>>

-----------------------------------------------------------------------------
(* The loop.                                                               *)

Return(w) == lpc' = "done" /\ winner' = w
Loop == lpc' = "check" /\ UNCHANGED winner

(* Terminal states reachable without waiting for another event. *)
TcpOver == tcpPending = 0 \/ ~tcpLive

Check ==
  /\ lpc = "check"
  /\ IF tcpPending = 0 /\ fallback # None THEN Return(fallback)
     ELSE IF TcpOver /\ bestICMP # None THEN Return(bestICMP)
     ELSE IF TcpOver /\ icmpPending = 0 THEN Return(None)
     ELSE lpc' = "select" /\ UNCHANGED winner
  /\ UNCHANGED <<ping, now, probeVars, loopVars, timerRead, heard>>

(* The faster of what is held and what has come in. *)
Slower(held, r) == IF held = None \/ r.rtt > held.rtt THEN r ELSE held

Faster(held, r) == IF held = None \/ r.rtt < held.rtt THEN r ELSE held

RecvTcp ==
  /\ lpc = "select"
  /\ \E r \in tcpCh :
       /\ tcpCh' = tcpCh \ {r}
       /\ tcpPending' = tcpPending - 1
       /\ heard' = heard \cup {x \in {r} : tcpLive /\ x.ok}
       /\ fallback' = IF tcpLive /\ r.ok /\ r.idx > 0 THEN Faster(fallback, r) ELSE fallback
       /\ IF tcpLive /\ r.ok /\ r.idx = 0
          THEN Return(r) /\ UNCHANGED tcpLive
          ELSE /\ Loop
               /\ tcpLive' = (tcpLive /\ ~(/\ tcpPending' = 0 /\ fallback' = None
                                           /\ bestICMP = None /\ icmpPending > 0))
  /\ UNCHANGED <<ping, now, dialing, pinging, icmpCh, icmpPending, bestICMP, timerRead>>

RecvIcmpUncounted ==
  /\ lpc = "select"
  /\ \E r \in icmpCh :
       /\ icmpCh' = icmpCh \ {r}
       /\ heard' = heard \cup {x \in {r} : x.ok}
       /\ bestICMP' = IF r.ok THEN Faster(bestICMP, r) ELSE bestICMP
  /\ Loop
  /\ UNCHANGED <<ping, now, dialing, pinging, tcpCh, tcpPending, icmpPending, tcpLive, fallback, timerRead>>

RecvIcmp ==
  /\ lpc = "select"
  /\ \E r \in icmpCh :
       /\ icmpCh' = icmpCh \ {r}
       /\ icmpPending' = icmpPending - 1
       /\ heard' = heard \cup {x \in {r} : x.ok}
       /\ bestICMP' = IF r.ok THEN Faster(bestICMP, r) ELSE bestICMP
  /\ Loop
  /\ UNCHANGED <<ping, now, dialing, pinging, tcpCh, tcpPending, tcpLive, fallback, timerRead>>

(* case <-deadline.C *)
RecvDeadlineGivesUp ==
  /\ lpc = "select"
  /\ now >= Deadline /\ ~timerRead
  /\ timerRead' = TRUE
  /\ tcpLive' = FALSE
  /\ \/ fallback # None /\ Return(fallback)
     \/ fallback = None /\ Return(bestICMP)
  /\ UNCHANGED <<ping, now, probeVars, tcpPending, icmpPending, fallback, bestICMP, heard>>

RecvDeadline ==
  /\ lpc = "select"
  /\ now >= Deadline /\ ~timerRead
  /\ timerRead' = TRUE
  /\ tcpLive' = FALSE
  /\ \/ fallback # None /\ Return(fallback)
     \/ fallback = None /\ bestICMP # None /\ Return(bestICMP)
     \/ fallback = None /\ bestICMP = None /\ icmpPending = 0 /\ Return(None)
     \/ fallback = None /\ bestICMP = None /\ icmpPending # 0 /\ Loop
  /\ UNCHANGED <<ping, now, probeVars, tcpPending, icmpPending, fallback, bestICMP, heard>>

(* case <-ctx.Done() *)
NeverCancelled == FALSE

Cancelled == now = Timeout

RecvDone ==
  /\ lpc = "select"
  /\ Cancelled
  /\ \/ bestICMP # None /\ Return(bestICMP)
     \/ bestICMP = None /\ Return(fallback)
  /\ UNCHANGED <<ping, now, probeVars, loopVars, timerRead, heard>>

Select == RecvTcp \/ RecvIcmp \/ RecvDeadline \/ RecvDone

(* Once the caller has its answer, stragglers report into the buffered     *)
(* channels and nobody looks: the model stops there.                       *)
Probe ==
  /\ lpc # "done"
  /\ \E o \in Outcomes :
       \/ \E p \in dialing : Dial(p, o)
       \/ \E ip \in pinging : Echo(ip, o)

Time == lpc # "done" /\ Advance

Next == Probe \/ Time \/ Check \/ Select

Spec == Init /\ [][Next]_vars

(* The loop is scheduled and timers fire; no probe need ever report. *)
FairSpec == Spec /\ WF_vars(Time) /\ WF_vars(Check) /\ WF_vars(Select)

-----------------------------------------------------------------------------

(* Every variable keeps its shape, and the two counters count what is      *)
(* still to be received: probes running and reports waiting.               *)
TypeOK ==
  /\ ping \in BOOLEAN
  /\ now \in {0, Deadline, Timeout}
  /\ dialing \subseteq IPs \X PortIdx
  /\ pinging \subseteq IPs
  /\ tcpCh \subseteq Report
  /\ icmpCh \subseteq Report
  /\ tcpPending = Cardinality(dialing) + Cardinality(tcpCh)
  /\ icmpPending = Cardinality(pinging) + Cardinality(icmpCh)
  /\ tcpLive \in BOOLEAN
  /\ fallback \in Report \cup {None}
  /\ bestICMP \in Report \cup {None}
  /\ timerRead \in BOOLEAN
  /\ lpc \in {"check", "select", "done"}
  /\ winner \in Report \cup {None}
  /\ heard \subseteq Report

(* Priority of a success: first port, other ports, ICMP. *)
Tier(r) == IF r.idx = 0 THEN 0 ELSE IF r.idx > 0 THEN 1 ELSE 2

(* The race as its header states it: among the successes the loop heard    *)
(* (TCP ones while TCP counted), the best tier wins and within it, except  *)
(* on the first port where the first to come wins, the fastest; nil only   *)
(* when there was none.  One exception: a loop that was not scheduled      *)
(* between the deadline and the end of the budget may see ctx.Done first,  *)
(* and then ICMP is preferred to a held TCP success.                       *)
BestWins ==
  lpc = "done" =>
    \/ winner = None /\ heard = {}
    \/ /\ winner \in heard
       /\ \A r \in heard :
            \/ Tier(winner) < Tier(r)
            \/ Tier(winner) = Tier(r) /\ (winner.idx = 0 \/ winner.rtt <= r.rtt)
            \/ now = Timeout /\ ~timerRead /\ Tier(winner) = 2

(* Nobody is given up too early: the race ends without a winner only when  *)
(* TCP is finished or past its deadline and ICMP is finished or past the   *)
(* budget.                                                                 *)
NotGivenUp ==
  lpc = "done" /\ winner = None =>
    /\ tcpPending = 0 \/ now >= Deadline
    /\ icmpPending = 0 \/ now = Timeout

(* The race always ends, even if no probe ever reports. *)
RaceEnds == <>(lpc = "done")

=============================================================================
