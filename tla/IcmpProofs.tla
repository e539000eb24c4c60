----------------------------- MODULE IcmpProofs -----------------------------
(***************************************************************************)
(* The properties of icmpPing for every retry interval, budget, lag and    *)
(* buffer size.  One invariant carries them: how long a packet has been    *)
(* waiting, and how long ago the budget ended, is never more than the lag  *)
(* the scheduler has shown so far.                                         *)
(***************************************************************************)
EXTENDS IcmpPing, FiniteSetTheorems, TLAPS

(* The inbox is finite, so that packets can be counted. *)
TypeInv == TypeOK /\ IsFiniteSet(inbox)

(* No read goes on past the budget, and time past it is lag. *)
BudgetInv ==
  /\ until <= Deadline
  /\ pc # "done" /\ now >= Deadline => late >= now - Deadline

(* A packet waits no longer than the lag; our own are replies to echoes    *)
(* that were sent before, and only a raw socket has others.                *)
InboxInv ==
  pc # "done" => \A p \in inbox : /\ now - p.at <= late
                                  /\ p.own => p.seq <= seq
                                  /\ p.own /\ p.seq = seq => sent <= p.at
                                  /\ ~raw => p.own

(* A reply well within its window waits in the inbox until it is read. *)
WindowInv ==
  /\ inWindow /\ pc # "done" =>
       /\ pc = "read"
       /\ \E p \in inbox : p.own /\ p.seq = seq /\ p.at + MaxLag < until
  /\ result = "cancelled" => ~inWindow

Inv == TypeInv /\ BudgetInv /\ InboxInv /\ WindowInv /\ RealRtt

-----------------------------------------------------------------------------

(* The initial state satisfies the invariant. *)
LEMMA InvInit == Init => Inv
<1> SUFFICES ASSUME Init PROVE Inv
  OBVIOUS
<1> USE IcmpAssumption DEF Init
<1>1. IsFiniteSet(inbox) /\ Cardinality(inbox) = 0
  BY FS_EmptySet
<1>2. TypeInv
  <2>1. raw \in BOOLEAN /\ ctxDone \in BOOLEAN /\ inWindow \in BOOLEAN
    OBVIOUS
  <2>2. hit \in Packet \cup {None} /\ inbox \subseteq Packet
    OBVIOUS
  <2>3. /\ now \in Nat /\ late \in 0..MaxLag
        /\ seq \in 0..MaxSeq /\ sent \in 0..now /\ until \in Nat
        /\ Cardinality(inbox) <= MaxInbox
    BY <1>1
  <2> QED BY <1>1, <2>1, <2>2, <2>3 DEF TypeInv, TypeOK
<1>3. BudgetInv /\ InboxInv /\ WindowInv /\ RealRtt
  BY DEF BudgetInv, InboxInv, WindowInv, RealRtt
<1> QED BY <1>2, <1>3 DEF Inv

(* Types, as every step keeps them. *)
LEMMA TypeStep == TypeInv /\ [Next]_vars => TypeInv'
<1> SUFFICES ASSUME TypeInv, [Next]_vars PROVE TypeInv'
  OBVIOUS
<1> USE IcmpAssumption DEF TypeInv, TypeOK, Packet, timeVars, netVars, loopVars
<1>1. CASE Open
  BY <1>1 DEF Open, Return
<1>2. CASE Send
  <2>1. until' \in Nat
    BY <1>2 DEF Send, Window
  <2>2. seq' \in 0..MaxSeq /\ sent' \in 0..now'
    BY <1>2 DEF Send
  <2>3. inWindow' \in BOOLEAN
    BY <1>2 DEF Send
  <2> QED BY <1>2, <2>1, <2>2, <2>3 DEF Send
<1>3. CASE SendFail
  BY <1>3 DEF SendFail, Return
<1>4. CASE GiveUp
  BY <1>4 DEF GiveUp, Return
<1>5. CASE ReadTimeout
  BY <1>5 DEF ReadTimeout
<1>6. ASSUME NEW p \in inbox, Read(p) PROVE TypeInv'
  <2>1. IsFiniteSet(inbox') /\ Cardinality(inbox') <= MaxInbox
    <3>1. inbox' = inbox \ {p}
      BY <1>6 DEF Read
    <3>2. /\ IsFiniteSet(inbox \ {p})
          /\ Cardinality(inbox \ {p}) = Cardinality(inbox) - 1
      BY FS_RemoveElement
    <3>3. Cardinality(inbox) \in Nat
      BY FS_CardinalityType
    <3> QED BY <3>1, <3>2, <3>3
  <2> QED BY <1>6, <2>1 DEF Read, Return
<1>7. ASSUME NEW p \in [own : BOOLEAN, seq : 1..MaxSeq, at : 0..now], Deliver(p),
             inWindow' \in BOOLEAN
      PROVE  TypeInv'
  <2>1. IsFiniteSet(inbox') /\ Cardinality(inbox') <= MaxInbox
    <3>1. inbox' = inbox \cup {p} /\ Cardinality(inbox) < MaxInbox
      BY <1>7 DEF Deliver
    <3>2. /\ IsFiniteSet(inbox \cup {p})
          /\ \/ Cardinality(inbox \cup {p}) = Cardinality(inbox)
             \/ Cardinality(inbox \cup {p}) = Cardinality(inbox) + 1
      BY FS_AddElement
    <3>3. Cardinality(inbox) \in Nat
      BY FS_CardinalityType
    <3> QED BY <3>1, <3>2, <3>3
  <2> QED BY <1>7, <2>1 DEF Deliver
<1>8. ASSUME NEW s \in 1..seq, Arrive(s) PROVE TypeInv'
  <2>1. [own |-> TRUE, seq |-> s, at |-> now] \in [own : BOOLEAN, seq : 1..MaxSeq, at : 0..now]
    OBVIOUS
  <2>2. Deliver([own |-> TRUE, seq |-> s, at |-> now]) /\ inWindow' \in BOOLEAN
    BY <1>8 DEF Arrive
  <2> QED BY <1>7, <2>1, <2>2
<1>9. ASSUME NEW s \in 1..MaxSeq, Foreign(s) PROVE TypeInv'
  <2>1. [own |-> FALSE, seq |-> s, at |-> now] \in [own : BOOLEAN, seq : 1..MaxSeq, at : 0..now]
    OBVIOUS
  <2>2. Deliver([own |-> FALSE, seq |-> s, at |-> now]) /\ inWindow' \in BOOLEAN
    BY <1>9 DEF Foreign
  <2> QED BY <1>7, <2>1, <2>2
<1>10. CASE CtxEnd
  BY <1>10 DEF CtxEnd
<1>11. CASE Tick
  BY <1>11 DEF Tick
<1>12. CASE UNCHANGED vars
  BY <1>12 DEF vars
<1> QED
  BY <1>1, <1>2, <1>3, <1>4, <1>5, <1>6, <1>8, <1>9, <1>10, <1>11, <1>12 DEF Next

(* The lag covers what has passed of the time after the budget. *)
LEMMA BudgetStep == TypeInv /\ BudgetInv /\ [Next]_vars => BudgetInv'
<1> SUFFICES ASSUME TypeInv, BudgetInv, [Next]_vars PROVE BudgetInv'
  OBVIOUS
<1> USE IcmpAssumption DEF TypeInv, TypeOK, BudgetInv, timeVars, netVars, loopVars
<1>1. CASE Send
  BY <1>1 DEF Send, Window
<1>2. CASE Tick
  BY <1>2 DEF Tick, Ready
<1>3. CASE Open \/ SendFail \/ GiveUp \/ ReadTimeout \/ CtxEnd
  BY <1>3 DEF Open, SendFail, GiveUp, ReadTimeout, CtxEnd, Return
<1>4. ASSUME NEW p \in inbox, Read(p) PROVE BudgetInv'
  BY <1>4 DEF Read, Return
<1>5. ASSUME NEW s, Arrive(s) \/ Foreign(s) PROVE BudgetInv'
  BY <1>5 DEF Arrive, Foreign, Deliver
<1>6. CASE UNCHANGED vars
  BY <1>6 DEF vars
<1> QED BY <1>1, <1>2, <1>3, <1>4, <1>5, <1>6 DEF Next

(* So does it cover how long a packet has been waiting. *)
LEMMA InboxStep == TypeInv /\ InboxInv /\ [Next]_vars => InboxInv'
<1> SUFFICES ASSUME TypeInv, InboxInv, [Next]_vars PROVE InboxInv'
  OBVIOUS
<1> USE IcmpAssumption DEF TypeInv, TypeOK, Packet, InboxInv, timeVars, netVars, loopVars
<1>1. CASE Send
  BY <1>1 DEF Send
<1>2. CASE Tick
  BY <1>2 DEF Tick, Ready
<1>3. CASE Open \/ SendFail \/ GiveUp \/ ReadTimeout \/ CtxEnd
  BY <1>3 DEF Open, SendFail, GiveUp, ReadTimeout, CtxEnd, Return
<1>4. ASSUME NEW p \in inbox, Read(p) PROVE InboxInv'
  BY <1>4 DEF Read, Return
<1>5. ASSUME NEW s \in 1..seq, Arrive(s) PROVE InboxInv'
  BY <1>5 DEF Arrive, Deliver
<1>6. ASSUME NEW s \in 1..MaxSeq, Foreign(s) PROVE InboxInv'
  BY <1>6 DEF Foreign, Deliver
<1>7. CASE UNCHANGED vars
  BY <1>7 DEF vars
<1> QED BY <1>1, <1>2, <1>3, <1>4, <1>5, <1>6, <1>7 DEF Next

(* A reply within its window is read before the window closes. *)
LEMMA WindowStep == TypeInv /\ InboxInv /\ WindowInv /\ [Next]_vars => WindowInv'
<1> SUFFICES ASSUME TypeInv, InboxInv, WindowInv, [Next]_vars PROVE WindowInv'
  OBVIOUS
<1> USE IcmpAssumption DEF TypeInv, TypeOK, Packet, WindowInv, timeVars, netVars, loopVars
<1>1. CASE Send
  BY <1>1 DEF Send
<1>2. CASE ReadTimeout
  <2>1. ~inWindow
    <3> SUFFICES ASSUME inWindow PROVE FALSE
      OBVIOUS
    <3>1. PICK p \in inbox : p.own /\ p.seq = seq /\ p.at + MaxLag < until
      BY <1>2 DEF ReadTimeout
    <3>2. now - p.at <= late
      BY <1>2 DEF ReadTimeout, InboxInv
    <3> QED BY <1>2, <3>1, <3>2 DEF ReadTimeout
  <2> QED BY <1>2, <2>1 DEF ReadTimeout
<1>3. ASSUME NEW p \in inbox, Read(p) PROVE WindowInv'
  BY <1>3 DEF Read, Matches, Return
<1>4. ASSUME NEW s \in 1..seq, Arrive(s) PROVE WindowInv'
  <2> DEFINE q == [own |-> TRUE, seq |-> s, at |-> now]
  <2>1. inbox' = inbox \cup {q} /\ pc # "done" /\ UNCHANGED <<seq, until, pc, result>>
    BY <1>4 DEF Arrive, Deliver
  <2>2. q.own /\ q.seq = s /\ q.at = now
    OBVIOUS
  <2>3. result # "cancelled"
    BY <2>1
  <2>4. inWindow' => inWindow \/ (pc = "read" /\ s = seq /\ now + MaxLag < until)
    BY <1>4 DEF Arrive
  <2> HIDE DEF q
  <2> QED BY <2>1, <2>2, <2>3, <2>4
<1>5. ASSUME NEW s \in 1..MaxSeq, Foreign(s) PROVE WindowInv'
  BY <1>5 DEF Foreign, Deliver
<1>6. CASE Tick \/ CtxEnd
  BY <1>6 DEF Tick, CtxEnd
<1>7. CASE Open \/ SendFail \/ GiveUp
  BY <1>7 DEF Open, SendFail, GiveUp, Return
<1>8. CASE UNCHANGED vars
  BY <1>8 DEF vars
<1> QED BY <1>1, <1>2, <1>3, <1>4, <1>5, <1>6, <1>7, <1>8 DEF Next

(* What is read and matches is the reply to the last echo. *)
LEMMA RttStep == TypeInv /\ InboxInv /\ RealRtt /\ [Next]_vars => RealRtt'
<1> SUFFICES ASSUME TypeInv, InboxInv, RealRtt, [Next]_vars PROVE RealRtt'
  OBVIOUS
<1> USE IcmpAssumption DEF TypeInv, TypeOK, Packet, RealRtt, timeVars, netVars, loopVars
<1>1. CASE Open \/ Send \/ SendFail \/ GiveUp \/ ReadTimeout
  BY <1>1 DEF Open, Send, SendFail, GiveUp, ReadTimeout, Return
<1>2. ASSUME NEW p \in inbox, Read(p) PROVE RealRtt'
  <2>1. CASE Matches(p)
    <3>1. hit' = p /\ UNCHANGED <<now, sent, seq>>
      BY <1>2, <2>1 DEF Read
    <3>2. p.own /\ p.seq = seq
      BY <1>2, <2>1 DEF Read, Matches, InboxInv
    <3>3. sent <= p.at /\ now - p.at <= late
      BY <1>2, <3>2 DEF Read, InboxInv
    <3> QED BY <3>1, <3>2, <3>3
  <2>2. CASE ~Matches(p)
    BY <1>2, <2>2 DEF Read
  <2> QED BY <2>1, <2>2
<1>3. ASSUME NEW s, Arrive(s) \/ Foreign(s) PROVE RealRtt'
  BY <1>3 DEF Arrive, Foreign, Deliver
<1>4. CASE CtxEnd
  BY <1>4 DEF CtxEnd
<1>5. CASE Tick
  BY <1>5 DEF Tick
<1>6. CASE UNCHANGED vars
  BY <1>6 DEF vars
<1> QED BY <1>1, <1>2, <1>3, <1>4, <1>5, <1>6 DEF Next

(* The invariant holds throughout a probe. *)
LEMMA Invariant == Spec => []Inv
<1>1. Inv /\ [Next]_vars => Inv'
  BY TypeStep, BudgetStep, InboxStep, WindowStep, RttStep DEF Inv
<1> QED BY InvInit, <1>1, PTL DEF Spec

-----------------------------------------------------------------------------

(* icmpPing keeps its types: its buffer stays within its size, and it has  *)
(* a result exactly when it has returned.                                  *)
THEOREM IcmpTypeCorrect == Spec => []TypeOK
<1>1. Inv => TypeOK
  BY DEF Inv, TypeInv
<1> QED BY Invariant, <1>1, PTL

(* The time icmpPing returns is the round trip of the echo it matched, up  *)
(* to the lag of the goroutine.                                            *)
THEOREM RttIsReal == Spec => []RealRtt
<1>1. Inv => RealRtt
  BY DEF Inv
<1> QED BY Invariant, <1>1, PTL

(* A reply within the window of its echo ends the probe with success.      *)
THEOREM NobodyDisqualified == Spec => []NotDisqualified
<1>1. Inv => NotDisqualified
  BY DEF Inv, TypeInv, TypeOK, WindowInv, NotDisqualified
<1> QED BY Invariant, <1>1, PTL

(* icmpPing is over when the budget and the lag are.                       *)
THEOREM EndsWithBudget == Spec => []EndsInTime
<1>1. Inv => EndsInTime
  BY IcmpAssumption DEF Inv, TypeInv, TypeOK, BudgetInv, EndsInTime
<1> QED BY Invariant, <1>1, PTL

=============================================================================
