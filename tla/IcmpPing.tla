------------------------------ MODULE IcmpPing ------------------------------
(***************************************************************************)
(* icmpPing (internal/resolver/icmp.go): echoes to one address, re-sent    *)
(* every Retry until one is answered or the context ends.                  *)
(*                                                                         *)
(* Replies may be lost, late, doubled or out of order.  A raw socket also  *)
(* receives the replies to other probes; a ping socket only its own.  The  *)
(* goroutine and the context's timer run at most MaxLag after they are     *)
(* ready.                                                                  *)
(***************************************************************************)
EXTENDS Integers, FiniteSets

CONSTANTS Retry,     \* the read window of one echo (150 ms)
          Deadline,  \* of the context; the race budget
          MaxLag,    \* how late what is ready may run
          MaxInbox,  \* packets the socket buffers
          MaxSeq,    \* bound: echoes sent
          None       \* no packet

ASSUME IcmpAssumption ==
  /\ Retry \in Nat \ {0} /\ Deadline \in Nat \ {0}
  /\ MaxLag \in Nat /\ MaxInbox \in Nat /\ MaxSeq \in Nat \ {0}
  /\ None \notin [own : BOOLEAN, seq : Nat, at : Nat]

VARIABLES
  now, late,  \* the time, and for how much of it something has been ready
  ctxDone,    \* the context has ended
  raw,        \* the socket is a raw one
  pc,         \* "open", "loop", "read" or "done"
  seq, sent,  \* number of the last echo, and when it was sent
  until,      \* the read deadline
  inbox,      \* packets received and not read: whose, to which echo, when
  inWindow,   \* history: the last echo was answered well within its window
  hit,        \* history: the packet that ended the probe
  result      \* "none", "ok", "cancelled" or "error"

timeVars == <<now, late, ctxDone>>
netVars == <<inbox, inWindow>>
loopVars == <<raw, seq, sent, until>>
vars == <<timeVars, netVars, loopVars, pc, hit, result>>

Init ==
  /\ now = 0 /\ late = 0 /\ ctxDone = FALSE
  /\ raw \in BOOLEAN
  /\ pc = "open"
  /\ seq = 0 /\ sent = 0 /\ until = 0
  /\ inbox = {} /\ inWindow = FALSE
  /\ hit = None
  /\ result = "none"

Return(r) == pc' = "done" /\ result' = r

-----------------------------------------------------------------------------
(* The probe.                                                              *)

(* A raw or a ping socket; or neither can be opened. *)
Open ==
  /\ pc = "open"
  /\ \/ pc' = "loop" /\ UNCHANGED result
     \/ Return("error")
  /\ UNCHANGED <<timeVars, netVars, loopVars, hit>>

RetryWindow == Retry

(* The read window: Retry, or what is left of the budget, if anything is.  *)
Window == IF Deadline - now < Retry THEN Deadline - now ELSE Retry

Send ==
  /\ pc = "loop"
  /\ ~ctxDone
  /\ seq < MaxSeq
  /\ seq' = seq + 1 /\ sent' = now
  /\ until' = now + Window
  /\ inWindow' = FALSE
  /\ pc' = "read"
  /\ UNCHANGED <<timeVars, inbox, raw, hit, result>>

SendFail ==
  /\ pc = "loop"
  /\ ~ctxDone
  /\ Return("error")
  /\ UNCHANGED <<timeVars, netVars, loopVars, hit>>

GiveUpSilently ==
  /\ pc = "loop"
  /\ ctxDone
  /\ pc' = "done"
  /\ UNCHANGED <<timeVars, netVars, loopVars, hit, result>>

GiveUp ==
  /\ pc = "loop"
  /\ ctxDone
  /\ Return("cancelled")
  /\ UNCHANGED <<timeVars, netVars, loopVars, hit>>

MatchesAnySeq(p) == raw => p.own

(* The sequence number, and on a raw socket the identifier, are ours.      *)
Matches(p) == p.seq = seq /\ (raw => p.own)

ReadBreaks(p) ==
  /\ pc = "read"
  /\ p \in inbox
  /\ inbox' = inbox \ {p}
  /\ IF Matches(p)
     THEN Return("ok") /\ hit' = p
     ELSE pc' = "loop" /\ UNCHANGED <<hit, result>>
  /\ UNCHANGED <<timeVars, inWindow, loopVars>>

(* Reading goes on past the read deadline if the packet was there first.   *)
Read(p) ==
  /\ pc = "read"
  /\ p \in inbox
  /\ inbox' = inbox \ {p}
  /\ IF Matches(p)
     THEN Return("ok") /\ hit' = p
     ELSE UNCHANGED <<pc, hit, result>>
  /\ UNCHANGED <<timeVars, inWindow, loopVars>>

ReadTimeout ==
  /\ pc = "read"
  /\ now >= until
  /\ pc' = "loop"
  /\ UNCHANGED <<timeVars, netVars, loopVars, hit, result>>

-----------------------------------------------------------------------------
(* The network, the context and time.                                      *)

(* A packet is lost when the buffer is full. *)
Deliver(p) ==
  /\ pc \in {"loop", "read"}
  /\ Cardinality(inbox) < MaxInbox
  /\ inbox' = inbox \cup {p}
  /\ UNCHANGED <<timeVars, loopVars, pc, hit, result>>

(* A reply to echo s, perhaps not the first one. *)
Arrive(s) ==
  /\ Deliver([own |-> TRUE, seq |-> s, at |-> now])
  /\ inWindow' = (inWindow \/ (pc = "read" /\ s = seq /\ now + MaxLag < until))

(* A reply to somebody else's echo s. *)
Foreign(s) ==
  /\ raw
  /\ Deliver([own |-> FALSE, seq |-> s, at |-> now])
  /\ UNCHANGED inWindow

(* The context ends with the budget, or earlier when pickWinner has its    *)
(* winner and its deferred cancel runs.                                    *)
CtxEnd ==
  /\ ~ctxDone
  /\ ctxDone' = TRUE
  /\ UNCHANGED <<now, late, netVars, loopVars, pc, hit, result>>

Ready ==
  \/ pc \in {"open", "loop"}
  \/ pc = "read" /\ (inbox # {} \/ now >= until)
  \/ ~ctxDone /\ now >= Deadline

Tick ==
  /\ pc # "done"
  /\ Ready => late < MaxLag
  /\ now' = now + 1
  /\ late' = IF Ready THEN late + 1 ELSE 0
  /\ UNCHANGED <<ctxDone, netVars, loopVars, pc, hit, result>>

Next ==
  \/ Open \/ Send \/ SendFail \/ GiveUp \/ ReadTimeout
  \/ \E p \in inbox : Read(p)
  \/ \E s \in 1..seq : Arrive(s)
  \/ \E s \in 1..MaxSeq : Foreign(s)
  \/ CtxEnd
  \/ Tick

Spec == Init /\ [][Next]_vars

-----------------------------------------------------------------------------

Packet == [own : BOOLEAN, seq : 1..MaxSeq, at : 0..now]

(* Every variable keeps its type, and a probe that is over has a result. *)
TypeOK ==
  /\ now \in Nat /\ late \in 0..MaxLag /\ ctxDone \in BOOLEAN /\ raw \in BOOLEAN
  /\ pc \in {"open", "loop", "read", "done"}
  /\ result \in {"none", "ok", "cancelled", "error"}
  /\ (pc = "done") <=> (result # "none")
  /\ seq \in 0..MaxSeq /\ sent \in 0..now /\ until \in Nat
  /\ inbox \subseteq Packet /\ Cardinality(inbox) <= MaxInbox
  /\ inWindow \in BOOLEAN
  /\ hit \in Packet \cup {None}

(* The time icmpPing returns is the round trip of an echo it sent and the  *)
(* address answered, late by no more than the goroutine was: never a reply *)
(* to another probe, nor the reply to an earlier echo timed from a later   *)
(* one.                                                                    *)
RealRtt ==
  result = "ok" =>
    /\ hit.own /\ hit.seq = seq
    /\ hit.at \in sent..now /\ now - hit.at <= MaxLag

(* Lost or late replies do not disqualify an address: the probe runs into  *)
(* the end of its budget, or sends another echo, only if the last echo was *)
(* not answered within its own window.  (A reply that takes longer than    *)
(* the window is never counted, however often it comes.)                   *)
NotDisqualified == result = "cancelled" \/ pc = "loop" => ~inWindow

(* The probe is over when its budget is, however many foreign packets      *)
(* arrive.                                                                 *)
EndsInTime == now > Deadline + MaxLag => pc = "done"

=============================================================================
