---------------------------- MODULE EventDelivery ----------------------------
(***************************************************************************)
(* What the edge outbox promises of the events given to it, with no word   *)
(* of workers, leases, clocks or crashes: each accepted event is tried a   *)
(* number of times, a try reaches the broker any number of times (never,   *)
(* once, or again and again), possibly after the event was settled, and an *)
(* outcome is earned: "sent" by a copy that arrived, "dead_letter" by      *)
(* Budget tries.                                                           *)
(***************************************************************************)
EXTENDS Naturals

CONSTANTS
  Event,    \* every event there will ever be
  Budget    \* tries before an event may be given up

VARIABLES
  outcome,   \* per event: "none" until accepted, then "open" or settled
  tries,     \* per event: how often it was tried
  received   \* <<event, try>> pairs received at least once

vars == <<outcome, tries, received>>

Accepted == {e \in Event : outcome[e] # "none"}

Open == {e \in Event : outcome[e] = "open"}

Init ==
  /\ outcome = [e \in Event |-> "none"]
  /\ tries = [e \in Event |-> 0]
  /\ received = {}

Accept(e) ==
  /\ outcome[e] = "none"
  /\ outcome' = [outcome EXCEPT ![e] = "open"]
  /\ UNCHANGED <<tries, received>>

(* A batch of open events is taken up together, one more try for each *)
Try(batch) ==
  /\ batch \subseteq Open
  /\ tries' = [e \in Event |-> IF e \in batch THEN tries[e] + 1 ELSE tries[e]]
  /\ UNCHANGED <<outcome, received>>

(* A try arrives, for the first time or as a duplicate, however long after  *)
(* the event was settled: none arrives that was not made.                   *)
Receive(e, k) ==
  /\ k \in 1..tries[e]
  /\ received' = received \cup {<<e, k>>}
  /\ UNCHANGED <<outcome, tries>>

Confirm(e) ==
  /\ e \in Accepted
  /\ \E k \in 1..tries[e] : <<e, k>> \in received
  /\ outcome' = [outcome EXCEPT ![e] = "sent"]
  /\ UNCHANGED <<tries, received>>

GiveUp(e) ==
  /\ e \in Accepted
  /\ tries[e] >= Budget
  /\ outcome' = [outcome EXCEPT ![e] = "dead_letter"]
  /\ UNCHANGED <<tries, received>>

(* Tries that overlap may undo one another's outcome: that takes two tries *)
Reopen(e) ==
  /\ e \in Accepted
  /\ tries[e] >= 2
  /\ outcome' = [outcome EXCEPT ![e] = "open"]
  /\ UNCHANGED <<tries, received>>

Next ==
  \/ \E e \in Event : Accept(e) \/ Confirm(e) \/ GiveUp(e) \/ Reopen(e)
  \/ \E e \in Event : \E k \in 1..tries[e] : Receive(e, k)
  \/ \E batch \in SUBSET Event : Try(batch)

Spec == Init /\ [][Next]_vars
=============================================================================
