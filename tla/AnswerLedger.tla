---------------------------- MODULE AnswerLedger ----------------------------
(***************************************************************************)
(* What answer processing promises: an answer that reached RabbitMQ is     *)
(* pending until its points are on the leaderboard or it is in the dead    *)
(* letter queue; it does not leave in any other way, and never comes back. *)
(***************************************************************************)
CONSTANTS
  Answers,   \* published answer.submitted events
  Slots,     \* fields of the answers hashes: one per player and round
  SlotOf,    \* the field an answer is for
  Stray      \* answers to questions that do not exist

VARIABLES arrived, pending, scored, dead

ledgerVars == <<arrived, pending, scored, dead>>

Init ==
  /\ arrived = {} /\ pending = {} /\ scored = {} /\ dead = {}

Arrive(a) ==
  /\ a \notin arrived
  /\ arrived' = arrived \cup {a} /\ pending' = pending \cup {a}
  /\ UNCHANGED <<scored, dead>>

Score(a) ==
  /\ a \in pending /\ a \notin Stray
  /\ scored' = scored \cup {SlotOf[a]}
  /\ UNCHANGED <<arrived, pending, dead>>

\* Done with an answer: its slot has points, or there is nothing to score.
Settle(a) ==
  /\ a \in pending /\ (a \in Stray \/ SlotOf[a] \in scored)
  /\ pending' = pending \ {a}
  /\ UNCHANGED <<arrived, scored, dead>>

Bury(a) ==
  /\ a \in pending
  /\ pending' = pending \ {a} /\ dead' = dead \cup {a}
  /\ UNCHANGED <<arrived, scored>>

Next == \E a \in Answers : Arrive(a) \/ Score(a) \/ Settle(a) \/ Bury(a)

Spec == Init /\ [][Next]_ledgerVars

\* What a player may rely on at any moment: his answer is still to be judged, or
\* it has been, or it lies in the dead letter queue (consumer.go:148-166).
EveryAnswerAccounted ==
  \A a \in arrived : a \in pending \cup dead \cup Stray \/ SlotOf[a] \in scored
=============================================================================
