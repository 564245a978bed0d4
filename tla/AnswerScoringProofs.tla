------------------------ MODULE AnswerScoringProofs ------------------------
(***************************************************************************)
(* Proofs about AnswerScoring, for any calls, slots, limits and faults.    *)
(***************************************************************************)
EXTENDS AnswerScoring, SequenceTheorems, TLAPS

----------------------------------------------------------------------------
(* Types.  A delivery in process has a slot: hand is a call then.          *)

HandInv ==
  (at \in InAttempt \cup {"ack", "nack"}) => hand \in Answers

AttemptInv ==
  at \in InAttempt => attempt \in 1..MaxAttempts

TypeInv == TypeOK /\ HandInv /\ AttemptInv

LEMMA SlotType ==
  ASSUME TypeInv, at \in InAttempt \cup {"ack", "nack"}
  PROVE  Slot \in Slots
BY ScoringAssumption DEF TypeInv, HandInv, Slot

LEMMA RetryMoves ==
  ASSUME TypeInv, at \in InAttempt, Retry
  PROVE  /\ at' \in {"guard", "nack"} /\ attempt' \in 1..MaxAttempts
BY ScoringAssumption DEF Retry, TypeInv, TypeOK, AttemptInv

LEMMA BumpType ==
  ASSUME NEW f \in [Slots -> Nat], NEW s \in Slots
  PROVE  /\ Bump(f, s) \in [Slots -> Nat]
         /\ Bump(f, s)[s] = f[s] + 1
         /\ \A t \in Slots \ {s} : Bump(f, s)[t] = f[t]
BY DEF Bump

LEMMA BoundStep ==
  ASSUME TypeInv, Works \/ Fails
  PROVE  /\ faults' \in 0..MaxFaults /\ restarts' \in 0..MaxRestarts
         /\ drops' \in 0..MaxDrops
BY ScoringAssumption DEF TypeInv, TypeOK, Works, Fails, boundVars

LEMMA RequeueType ==
  ASSUME TypeInv
  PROVE  Requeue \in Seq(Answers)
BY DEF Requeue, TypeInv, TypeOK

LEMMA TypeInit == Init => TypeInv
BY ScoringAssumption
DEF Init, TypeInv, TypeOK, HandInv, AttemptInv, Calls, Places, InAttempt, Zero

\* The steps that stay in process or leave it for the acknowledgement: they
\* touch neither the broker nor the link.
ProcessStep == \/ Guard \/ FindQuestion \/ CountCorrect \/ TrackTime
               \/ UpdateScore \/ MarkAnswer

LEMMA ProcessMoves ==
  ASSUME TypeInv, ProcessStep
  PROVE  /\ at \in InAttempt /\ at' \in InAttempt \cup {"ack", "nack"}
         /\ attempt' \in 1..MaxAttempts
         /\ UNCHANGED <<call, submitted, queue, dead, hand, link>>
         /\ Works \/ Fails
<1> USE DEF InAttempt, Leave, ProcessOnly, callVars, brokerVars
<1>0. at \in InAttempt => attempt \in 1..MaxAttempts
  BY DEF TypeInv, AttemptInv
<1>1. CASE Guard
  BY <1>0, <1>1, RetryMoves DEF Guard
<1>2. CASE FindQuestion
  BY <1>0, <1>2, RetryMoves DEF FindQuestion
<1>3. CASE CountCorrect
  BY <1>0, <1>3 DEF CountCorrect
<1>4. CASE TrackTime
  BY <1>0, <1>4 DEF TrackTime
<1>5. CASE UpdateScore
  BY <1>0, <1>5, RetryMoves DEF UpdateScore
<1>6. CASE MarkAnswer
  BY <1>0, <1>6 DEF MarkAnswer
<1> QED
  BY <1>1, <1>2, <1>3, <1>4, <1>5, <1>6 DEF ProcessStep

BoardType ==
  /\ answers \in [Slots -> Answers \cup {None}]
  /\ score \in [Slots -> Nat] /\ correct \in [Slots -> Nat]
  /\ timed \in [Slots -> Nat] /\ slips \in [Slots -> Nat]

LEMMA ProcessBoard ==
  ASSUME TypeInv, ProcessStep
  PROVE  BoardType'
<1> USE DEF BoardType
<1>0. BoardType /\ Slot \in Slots /\ hand \in Answers
  BY ProcessMoves, SlotType DEF TypeInv, TypeOK, HandInv
<1>1. CASE Guard \/ FindQuestion
  BY <1>0, <1>1 DEF Guard, FindQuestion, boardVars
<1>2. CASE CountCorrect
  BY <1>0, <1>2, BumpType DEF CountCorrect
<1>3. CASE TrackTime
  BY <1>0, <1>3, BumpType DEF TrackTime
<1>4. CASE UpdateScore
  BY <1>0, <1>4, BumpType DEF UpdateScore
<1>5. CASE MarkAnswer
  <2>1. \/ slips' = Bump(slips, Slot) /\ UNCHANGED answers
        \/ UNCHANGED slips /\ answers' = [answers EXCEPT ![Slot] = hand]
    BY <1>5 DEF MarkAnswer
  <2>2. slips' \in [Slots -> Nat]
    BY <1>0, <2>1, BumpType
  <2>3. answers' \in [Slots -> Answers \cup {None}]
    BY <1>0, <2>1
  <2> QED
    BY <1>0, <1>5, <2>2, <2>3 DEF MarkAnswer
<1> QED
  BY <1>1, <1>2, <1>3, <1>4, <1>5 DEF ProcessStep

LEMMA TypeStep == TypeInv /\ [Next]_vars => TypeInv'
<1> SUFFICES ASSUME TypeInv, [Next]_vars
             PROVE  TypeInv'
  OBVIOUS
<1> USE ScoringAssumption DEF callVars, brokerVars, workVars, boardVars,
        boundVars
<1>1. ASSUME NEW c \in Answers, Record(c)
      PROVE  TypeInv'
  BY <1>1, BoundStep DEF Record, TypeInv, TypeOK, HandInv, AttemptInv, Calls
<1>2. ASSUME NEW c \in Answers, Publish(c)
      PROVE  TypeInv'
  <2>1. queue' \in Seq(Answers)
    <3>1. queue' = Append(queue, c) \/ queue' = queue
      BY <1>2 DEF Publish
    <3>2. queue \in Seq(Answers)
      BY DEF TypeInv, TypeOK
    <3>3. Append(queue, c) \in Seq(Answers)
      BY <3>2, AppendProperties
    <3> QED BY <3>1, <3>2, <3>3
  <2> QED
    BY <1>2, <2>1, BoundStep DEF Publish, TypeInv, TypeOK, HandInv,
       AttemptInv, Calls
<1>3. ASSUME Deliver
      PROVE  TypeInv'
  <2>1. hand' \in Answers /\ queue' \in Seq(Answers)
    BY <1>3, HeadTailProperties DEF Deliver, TypeInv, TypeOK
  <2> QED
    BY <1>3, <2>1 DEF Deliver, TypeInv, TypeOK, HandInv, AttemptInv, Places,
       InAttempt
<1>4. ASSUME ProcessStep
      PROVE  TypeInv'
  <2>1. hand \in Answers
    BY <1>4, ProcessMoves DEF TypeInv, HandInv
  <2>2. /\ faults' \in 0..MaxFaults /\ restarts' \in 0..MaxRestarts
        /\ drops' \in 0..MaxDrops
    BY <1>4, ProcessMoves, BoundStep
  <2>3. BoardType'
    BY <1>4, ProcessBoard
  <2>4. /\ at' \in InAttempt \cup {"ack", "nack"} /\ attempt' \in 1..MaxAttempts
        /\ UNCHANGED <<call, submitted, queue, dead, hand, link>>
    BY <1>4, ProcessMoves
  <2>5. HandInv' /\ AttemptInv'
    BY <2>1, <2>4 DEF HandInv, AttemptInv
  <2>6. at' \in Places /\ attempt' \in 0..MaxAttempts
    BY <2>4 DEF Places, InAttempt
  <2>7. TypeOK'
    BY <2>2, <2>3, <2>4, <2>6 DEF TypeInv, TypeOK, BoardType
  <2> QED
    BY <2>5, <2>7 DEF TypeInv
<1>5. ASSUME Ack \/ Nack
      PROVE  TypeInv'
  BY <1>5 DEF Ack, Nack, Finish, TypeInv, TypeOK, HandInv, AttemptInv, Places,
     InAttempt
<1>6. ASSUME QuizRestart
      PROVE  TypeInv'
  BY <1>6 DEF QuizRestart, TypeInv, TypeOK, HandInv, AttemptInv, Calls
<1>7. ASSUME DropLink
      PROVE  TypeInv'
  <2>1. /\ queue' \in Seq(Answers) /\ drops' \in 0..MaxDrops
        /\ link' = FALSE /\ UNCHANGED <<hand, attempt>>
        /\ at' = "stopped" \/ (at' = at /\ hand # None)
    BY <1>7, RequeueType DEF DropLink, TypeInv, TypeOK
  <2> QED
    BY <1>7, <2>1 DEF DropLink, TypeInv, TypeOK, HandInv, AttemptInv, Places,
       InAttempt
<1>8. ASSUME ScoringRestart
      PROVE  TypeInv'
  <2>1. slips' \in [Slots -> Nat]
    BY <1>8, SlotType, BumpType DEF ScoringRestart, TypeInv, TypeOK, InAttempt
  <2> QED
    BY <1>8, <2>1, RequeueType DEF ScoringRestart, TypeInv, TypeOK, HandInv,
       AttemptInv, Places, InAttempt
<1>9. ASSUME NEW s \in Slots, MarkExpires(s)
      PROVE  TypeInv'
  <2>1. slips' \in [Slots -> Nat]
    BY <1>9, BumpType DEF MarkExpires, TypeInv, TypeOK
  <2> QED
    BY <1>9, <2>1 DEF MarkExpires, TypeInv, TypeOK, HandInv, AttemptInv
<1>10. CASE UNCHANGED vars
  BY <1>10 DEF vars, TypeInv, TypeOK, HandInv, AttemptInv
<1> QED
  BY <1>1, <1>2, <1>3, <1>4, <1>5, <1>6, <1>7, <1>8, <1>9, <1>10
  DEF Next, Consume, ProcessStep

LEMMA TypeInvariant == Spec => []TypeInv
BY TypeInit, TypeStep, PTL DEF Spec

\* Every variable keeps its type; in particular no delivery gets more than
\* MaxAttempts attempts (consumer.go:148).
THEOREM TypeCorrect == Spec => []TypeOK
BY TypeInvariant, PTL DEF TypeInv

----------------------------------------------------------------------------
(* Double scoring.  The points of a slot may be one ahead of its slips only *)
(* while something is known of them: the mark in answers, or the consumer   *)
(* at the step that is to set it.  Past the guard there is no mark, because *)
(* no other delivery is in process.  A mark that expires makes a slip of    *)
(* what was known.                                                          *)

Known(s) == answers[s] # None \/ (at = "mark" /\ Slot = s)

PastGuard == {"question", "count", "time", "score", "mark"}

SlipInv ==
  /\ at \in PastGuard => answers[Slot] = None
  /\ \A s \in Slots : /\ score[s] <= slips[s] + 1
                      /\ ~Known(s) => score[s] <= slips[s]

LEMMA SlipInit == Init => SlipInv
BY ScoringAssumption DEF Init, SlipInv, PastGuard, Known, Zero

LEMMA SlipStep == TypeInv /\ SlipInv /\ [Next]_vars => SlipInv'
<1> SUFFICES ASSUME TypeInv, SlipInv, [Next]_vars
             PROVE  SlipInv'
  OBVIOUS
<1> USE DEF SlipInv, PastGuard, Known
<1>0. /\ score \in [Slots -> Nat] /\ slips \in [Slots -> Nat]
      /\ answers \in [Slots -> Answers \cup {None}]
  BY DEF TypeInv, TypeOK
<1>1. ASSUME UNCHANGED <<at, hand, answers, score, slips>>
      PROVE  SlipInv'
  BY <1>1 DEF Slot
<1>2. ASSUME \/ \E c \in Answers : Record(c) \/ Publish(c)
             \/ QuizRestart \/ UNCHANGED vars
      PROVE  SlipInv'
  BY <1>1, <1>2 DEF Record, Publish, QuizRestart, vars, workVars, boardVars
<1>3. ASSUME Deliver \/ Ack \/ Nack
      PROVE  SlipInv'
  <2>1. /\ UNCHANGED <<answers, score, slips>>
        /\ at \notin PastGuard /\ at' \notin PastGuard
    BY <1>3 DEF Deliver, Ack, Nack, Finish, boardVars
  <2> QED BY <2>1
<1>4. ASSUME DropLink
      PROVE  SlipInv'
  <2>1. /\ UNCHANGED <<hand, answers, score, slips>>
        /\ at' = at \/ (at' = "stopped" /\ hand = None)
    BY <1>4 DEF DropLink, boardVars
  <2>2. hand = None => at \notin PastGuard
    BY ScoringAssumption DEF TypeInv, HandInv, InAttempt
  <2> QED BY <2>1, <2>2 DEF Slot
<1>5. ASSUME ProcessStep
      PROVE  SlipInv'
  <2>0. Slot \in Slots /\ Slot' = Slot /\ hand \in Answers
    BY <1>5, ProcessMoves, SlotType DEF Slot, TypeInv, HandInv
  <2>1. CASE Guard \/ FindQuestion \/ CountCorrect \/ TrackTime
    <3>1. UNCHANGED <<answers, score, slips>>
      BY <2>1 DEF Guard, FindQuestion, CountCorrect, TrackTime, boardVars
    <3>2. /\ at # "mark" /\ at' # "mark"
          /\ at' \in PastGuard => answers[Slot] = None
      BY <2>1 DEF Guard, FindQuestion, CountCorrect, TrackTime, Leave, Retry
    <3> QED BY <2>0, <3>1, <3>2
  <2>2. CASE UpdateScore
    <3>1. /\ answers[Slot] = None /\ score[Slot] <= slips[Slot]
          /\ answers' = answers /\ at = "score"
      BY <2>0, <2>2 DEF UpdateScore
    <3>2. \/ /\ at' = "mark" /\ score' = Bump(score, Slot)
             /\ slips' = slips
          \/ /\ at' \in {"guard", "nack"}
             /\ \/ score' = score /\ slips' = slips
                \/ score' = Bump(score, Slot) /\ slips' = Bump(slips, Slot)
      BY <2>2, RetryMoves DEF UpdateScore, Leave, InAttempt
    <3> QED BY <1>0, <2>0, <3>1, <3>2, BumpType
  <2>3. CASE MarkAnswer
    <3>1. /\ at = "mark" /\ at' = "ack" /\ score' = score
          /\ \/ slips' = Bump(slips, Slot) /\ answers' = answers
             \/ slips' = slips /\ answers' = [answers EXCEPT ![Slot] = hand]
      BY <2>3 DEF MarkAnswer, Leave
    <3>2. hand # None
      BY <2>0, ScoringAssumption
    <3> QED BY <1>0, <2>0, <3>1, <3>2, BumpType
  <2> QED BY <1>5, <2>1, <2>2, <2>3 DEF ProcessStep
<1>6. ASSUME ScoringRestart
      PROVE  SlipInv'
  <2>1. /\ at' = "idle" /\ UNCHANGED <<answers, score>>
        /\ slips' = IF at = "mark" THEN Bump(slips, Slot) ELSE slips
    BY <1>6 DEF ScoringRestart
  <2>2. at = "mark" => Slot \in Slots
    BY SlotType DEF InAttempt
  <2> QED BY <1>0, <2>1, <2>2, BumpType
\* A mark that expires is of no slot in process; it leaves a slip instead.
<1>7. ASSUME NEW s \in Slots, MarkExpires(s)
      PROVE  SlipInv'
  <2>1. /\ answers[s] # None /\ answers' = [answers EXCEPT ![s] = None]
        /\ slips' = Bump(slips, s) /\ UNCHANGED <<at, hand, score>>
    BY <1>7 DEF MarkExpires, workVars
  <2>2. at \in PastGuard => Slot # s
    BY <2>1
  <2> QED BY <1>0, <2>1, <2>2, BumpType DEF Slot
<1> QED
  BY <1>2, <1>3, <1>5, <1>6, <1>4, <1>7 DEF Next, Consume, ProcessStep

LEMMA SlipInvariant == Spec => [](TypeInv /\ SlipInv)
BY TypeInit, SlipInit, TypeStep, SlipStep, PTL DEF Spec

\* However often an answer is published, redelivered or retried, its points
\* are added once, and once more for each slip: points added without a mark,
\* or a mark whose 30 minutes are over (consumer.go:31, 178-186, 246-253).
THEOREM NoDoubleScoring == Spec => []ScoredOncePerSlip
<1>1. TypeInv /\ SlipInv => ScoredOncePerSlip
  BY DEF TypeInv, TypeOK, SlipInv, ScoredOncePerSlip
<1> QED BY <1>1, SlipInvariant, PTL

----------------------------------------------------------------------------
(* The ledger.  A delivery is in one place: the queue, or the hands of a    *)
(* consumer whose link is up; after a lost link it is in the queue again.   *)

Elements(q) == {q[i] : i \in 1..Len(q)}
Unique(q)   == \A i, j \in 1..Len(q) : q[i] = q[j] => i = j

LEMMA AppendElements ==
  ASSUME NEW S, NEW q \in Seq(S), NEW e \in S
  PROVE  /\ Elements(Append(q, e)) = Elements(q) \cup {e}
         /\ Unique(q) /\ e \notin Elements(q) => Unique(Append(q, e))
<1>1. /\ Len(Append(q, e)) = Len(q) + 1 /\ Len(q) \in Nat
      /\ \A i \in 1..Len(q) : Append(q, e)[i] = q[i]
      /\ Append(q, e)[Len(q) + 1] = e
  BY AppendProperties
<1>2. 1..(Len(q) + 1) = 1..Len(q) \cup {Len(q) + 1}
  BY <1>1
<1> QED BY <1>1, <1>2 DEF Elements, Unique

LEMMA TailElements ==
  ASSUME NEW S, NEW q \in Seq(S), q # <<>>
  PROVE  /\ Elements(q) = Elements(Tail(q)) \cup {Head(q)}
         /\ Unique(q) => Unique(Tail(q)) /\ Head(q) \notin Elements(Tail(q))
<1>1. /\ Len(q) \in Nat \ {0} /\ Len(Tail(q)) = Len(q) - 1 /\ Head(q) = q[1]
      /\ \A i \in 1..Len(Tail(q)) : Tail(q)[i] = q[i + 1]
  BY HeadTailProperties, EmptySeq, LenProperties
<1>2. \A i \in 1..Len(q) : i = 1 \/ (i - 1 \in 1..Len(Tail(q))
                                       /\ q[i] = Tail(q)[i - 1])
  BY <1>1
<1>3. Elements(q) \subseteq Elements(Tail(q)) \cup {Head(q)}
  BY <1>1, <1>2 DEF Elements
<1>4. Elements(Tail(q)) \cup {Head(q)} \subseteq Elements(q)
  <2>1. \A i \in 1..Len(Tail(q)) : i + 1 \in 1..Len(q)
                                    /\ Tail(q)[i] = q[i + 1]
    BY <1>1
  <2>2. 1 \in 1..Len(q) /\ Head(q) = q[1]
    BY <1>1
  <2>3. Elements(Tail(q)) \subseteq Elements(q)
    BY <2>1 DEF Elements
  <2>4. Head(q) \in Elements(q)
    BY <2>2 DEF Elements
  <2> QED BY <2>3, <2>4
<1>5. ASSUME Unique(q)
      PROVE  Unique(Tail(q)) /\ Head(q) \notin Elements(Tail(q))
  BY <1>1, <1>5 DEF Elements, Unique
<1> QED BY <1>3, <1>4, <1>5

LEMMA ConsElements ==
  ASSUME NEW S, NEW q \in Seq(S), NEW e \in S
  PROVE  /\ Elements(<<e>> \o q) = Elements(q) \cup {e}
         /\ Unique(q) /\ e \notin Elements(q) => Unique(<<e>> \o q)
<1>1. /\ Len(<<e>> \o q) = Len(q) + 1 /\ Len(q) \in Nat
      /\ (<<e>> \o q)[1] = e
      /\ \A i \in 1..Len(q) : (<<e>> \o q)[i + 1] = q[i]
  BY ConcatProperties, LenProperties
<1>2. \A i \in 1..(Len(q) + 1) : i = 1 \/ i - 1 \in 1..Len(q)
  BY <1>1
<1>3. \A i \in 1..(Len(q) + 1) :
        i = 1 \/ (i - 1 \in 1..Len(q) /\ (<<e>> \o q)[i] = q[i - 1])
  BY <1>1, <1>2
<1>4. Elements(<<e>> \o q) \subseteq Elements(q) \cup {e}
  BY <1>1, <1>3 DEF Elements
<1>5. Elements(q) \cup {e} \subseteq Elements(<<e>> \o q)
  <2>1. \A i \in 1..Len(q) : /\ i + 1 \in 1..Len(<<e>> \o q)
                               /\ (<<e>> \o q)[i + 1] = q[i]
    BY <1>1
  <2>2. 1 \in 1..Len(<<e>> \o q) /\ (<<e>> \o q)[1] = e
    BY <1>1
  <2>3. Elements(q) \subseteq Elements(<<e>> \o q)
    BY <2>1 DEF Elements
  <2>4. e \in Elements(<<e>> \o q)
    BY <2>2 DEF Elements
  <2> QED BY <2>3, <2>4
<1>6. ASSUME Unique(q), e \notin Elements(q)
      PROVE  Unique(<<e>> \o q)
  BY <1>1, <1>3, <1>6 DEF Elements, Unique
<1> QED BY <1>4, <1>5, <1>6

Delivered == hand # None

DeliveryInv ==
  /\ Delivered <=> at \in InAttempt \cup {"ack", "nack"}
  /\ Unique(queue)
  /\ \A c \in Elements(queue) : call[c] = "queued"
  /\ Delivered => /\ call[hand] = "queued"
                  /\ link <=> hand \notin Elements(queue)

LEMMA RequeueElements ==
  ASSUME TypeInv, DeliveryInv
  PROVE  Elements(Requeue) = Pending /\ Unique(Requeue)
<1>1. queue \in Seq(Answers) /\ hand \in Answers \cup {None}
  BY DEF TypeInv, TypeOK
<1>2. Pending = Elements(queue) \cup (IF hand # None /\ link THEN {hand}
                                                             ELSE {})
  BY DEF Pending, Elements
<1>3. CASE hand # None /\ link
  BY <1>1, <1>2, <1>3, ConsElements DEF Requeue, DeliveryInv, Delivered
<1>4. CASE ~(hand # None /\ link)
  BY <1>1, <1>2, <1>4 DEF Requeue, DeliveryInv
<1> QED BY <1>3, <1>4

LEMMA DeliveryInit == Init => DeliveryInv
BY DEF Init, DeliveryInv, Delivered, InAttempt, Elements, Unique

LEMMA DeliveryStep == TypeInv /\ DeliveryInv /\ [Next]_vars => DeliveryInv'
<1> SUFFICES ASSUME TypeInv, DeliveryInv, [Next]_vars
             PROVE  DeliveryInv'
  OBVIOUS
<1> USE ScoringAssumption DEF DeliveryInv, Delivered
<1>0. /\ queue \in Seq(Answers) /\ call \in [Answers -> Calls]
      /\ hand \in Answers \cup {None} /\ link \in BOOLEAN
  BY DEF TypeInv, TypeOK
<1>1. ASSUME NEW c \in Answers, Record(c)
      PROVE  DeliveryInv'
  <2>1. /\ UNCHANGED <<queue, hand, at, link>>
        /\ call[c] = "idle" /\ call' = [call EXCEPT ![c] = "recorded"]
    BY <1>1 DEF Record, brokerVars, workVars
  <2>2. \A d \in Elements(queue) : d \in Answers
    BY <1>0, ElementOfSeq DEF Elements
  <2> QED BY <1>0, <2>1, <2>2
<1>2. ASSUME NEW c \in Answers, Publish(c)
      PROVE  DeliveryInv'
  <2>1. UNCHANGED <<hand, at, link>> /\ call[c] = "recorded"
    BY <1>2 DEF Publish, workVars
  <2>2. \A d \in Elements(queue) : d \in Answers /\ d # c
    BY <1>0, <2>1, ElementOfSeq DEF Elements
  <2>3. CASE call' = [call EXCEPT ![c] = "queued"] /\ queue' = Append(queue, c)
    BY <1>0, <2>1, <2>2, <2>3, AppendElements
  <2>4. CASE queue' = queue /\ \E r \in {"failed", "lost"} :
                                  call' = [call EXCEPT ![c] = r]
    BY <1>0, <2>1, <2>2, <2>4
  <2> QED BY <1>2, <2>3, <2>4 DEF Publish
<1>3. ASSUME QuizRestart
      PROVE  DeliveryInv'
  <2>1. /\ UNCHANGED <<queue, hand, at, link>>
        /\ \A c \in Answers : call[c] = "queued" => call'[c] = "queued"
    BY <1>0, <1>3 DEF QuizRestart, brokerVars, workVars
  <2>2. \A d \in Elements(queue) : d \in Answers
    BY <1>0, ElementOfSeq DEF Elements
  <2> QED BY <1>0, <2>1, <2>2
<1>4. ASSUME Deliver
      PROVE  DeliveryInv'
  <2>1. /\ at = "idle" /\ link /\ queue # <<>>
        /\ hand' = Head(queue) /\ queue' = Tail(queue)
        /\ at' = "guard" /\ UNCHANGED <<call, link>>
    BY <1>4 DEF Deliver, callVars
  <2>2. hand' \in Answers
    BY <1>0, <2>1, HeadTailProperties
  <2> QED
    BY <1>0, <2>1, <2>2, TailElements DEF InAttempt
<1>5. ASSUME ProcessStep
      PROVE  DeliveryInv'
  BY <1>5, ProcessMoves
<1>6. ASSUME Ack \/ Nack
      PROVE  DeliveryInv'
  BY <1>6 DEF Ack, Nack, Finish, callVars, InAttempt
<1>7. ASSUME DropLink
      PROVE  DeliveryInv'
  <2>1. /\ link /\ link' = FALSE /\ queue' = Requeue
        /\ UNCHANGED <<call, hand>>
        /\ at' = IF hand = None THEN "stopped" ELSE at
    BY <1>7 DEF DropLink, callVars
  <2> QED
    BY <1>0, <2>1, RequeueElements DEF Pending, Elements, InAttempt
<1>8. ASSUME ScoringRestart
      PROVE  DeliveryInv'
  <2>1. /\ queue' = Requeue /\ UNCHANGED call
        /\ hand' = None /\ at' = "idle"
    BY <1>8 DEF ScoringRestart, callVars
  <2>2. \A c \in Pending : call[c] = "queued"
    BY DEF Pending, Elements
  <2> QED BY <2>1, <2>2, RequeueElements DEF InAttempt
<1>9. ASSUME (\E s \in Slots : MarkExpires(s)) \/ UNCHANGED vars
      PROVE  DeliveryInv'
  BY <1>9 DEF MarkExpires, vars, callVars, brokerVars, workVars
<1> QED
  BY <1>1, <1>2, <1>3, <1>4, <1>5, <1>6, <1>7, <1>8, <1>9
  DEF Next, Consume, ProcessStep

\* A mark in answers, and an acknowledgement, come after the points.
ScoredInv ==
  /\ \A s \in Slots : answers[s] # None => score[s] > 0
  /\ at = "mark" => score[Slot] > 0
  /\ at \in {"count", "time", "score", "mark"} => hand \notin Stray
  /\ at = "ack" => hand \in Stray \/ score[Slot] > 0

LEMMA ScoredInit == Init => ScoredInv
BY DEF Init, ScoredInv

LEMMA ScoredStep == TypeInv /\ ScoredInv /\ [Next]_vars => ScoredInv'
<1> SUFFICES ASSUME TypeInv, ScoredInv, [Next]_vars
             PROVE  ScoredInv'
  OBVIOUS
<1> USE DEF ScoredInv
<1>0. score \in [Slots -> Nat] /\ answers \in [Slots -> Answers \cup {None}]
  BY DEF TypeInv, TypeOK
<1>1. ASSUME UNCHANGED <<at, hand, answers, score>>
      PROVE  ScoredInv'
  BY <1>1 DEF Slot
<1>2. ASSUME \/ \E c \in Answers : Record(c) \/ Publish(c)
             \/ QuizRestart \/ UNCHANGED vars
      PROVE  ScoredInv'
  BY <1>1, <1>2 DEF Record, Publish, QuizRestart, vars, workVars, boardVars
<1>3. ASSUME Deliver \/ Ack \/ Nack \/ ScoringRestart
      PROVE  ScoredInv'
  <2>1. UNCHANGED <<answers, score>> /\ at' \in {"guard", "idle", "stopped"}
    BY <1>3 DEF Deliver, Ack, Nack, Finish, ScoringRestart, boardVars
  <2> QED BY <2>1
<1>4. ASSUME DropLink
      PROVE  ScoredInv'
  BY <1>4 DEF DropLink, boardVars, Slot
<1>5. ASSUME ProcessStep
      PROVE  ScoredInv'
  <2>0. /\ Slot \in Slots /\ Slot' = Slot /\ hand' = hand
        /\ hand \in Answers /\ hand # None /\ at \in InAttempt
    BY <1>5, ProcessMoves, SlotType, ScoringAssumption
    DEF Slot, TypeInv, HandInv
  <2>1. CASE Guard \/ FindQuestion \/ CountCorrect \/ TrackTime
    <3>1. UNCHANGED <<answers, score>>
      BY <2>1 DEF Guard, FindQuestion, CountCorrect, TrackTime, boardVars
    <3>2. /\ at' # "mark"
          /\ at' \in {"count", "time", "score"} => hand \notin Stray
          /\ at' = "ack" => hand \in Stray \/ answers[Slot] # None
      BY <2>1 DEF Guard, FindQuestion, CountCorrect, TrackTime, Leave, Retry
    <3> QED BY <2>0, <3>1, <3>2
  <2>2. CASE UpdateScore
    <3>1. /\ answers' = answers /\ at = "score"
          /\ \/ at' = "mark" /\ score' = Bump(score, Slot)
             \/ /\ at' \in {"guard", "nack"}
                /\ score' \in {score, Bump(score, Slot)}
      BY <2>0, <2>2, RetryMoves DEF UpdateScore, Leave
    <3>2. \A s \in Slots : /\ Bump(score, Slot)[s] >= score[s]
                           /\ Bump(score, Slot)[s] \in Nat
      BY <1>0, <2>0, BumpType
    <3>3. Bump(score, Slot)[Slot] > 0
      BY <1>0, <2>0, BumpType
    <3> QED BY <1>0, <2>0, <3>1, <3>2, <3>3
  <2>3. CASE MarkAnswer
    <3>1. /\ at = "mark" /\ at' = "ack" /\ score' = score
          /\ \/ answers' = answers
             \/ answers' = [answers EXCEPT ![Slot] = hand]
      BY <2>3 DEF MarkAnswer, Leave
    <3> QED BY <1>0, <2>0, <3>1
  <2> QED BY <1>5, <2>1, <2>2, <2>3 DEF ProcessStep
<1>6. ASSUME NEW s \in Slots, MarkExpires(s)
      PROVE  ScoredInv'
  BY <1>0, <1>6 DEF MarkExpires, workVars, Slot
<1> QED
  BY <1>2, <1>3, <1>4, <1>5, <1>6 DEF Next, Consume, ProcessStep

----------------------------------------------------------------------------
(* AnswerScoring implements AnswerLedger: publishing is Arrive, the script  *)
(* that adds points is Score, an acknowledgement that reaches the broker is *)
(* Settle or Bury, and every other step changes nothing of the ledger.      *)

Arrived == {c \in Answers : call[c] = "queued"}
Scored  == {s \in Slots : score[s] > 0}

IInv == TypeInv /\ DeliveryInv /\ ScoredInv

LEMMA PendingElements ==
  Pending = Elements(queue) \cup (IF hand # None /\ link THEN {hand} ELSE {})
BY DEF Pending, Elements

LEMMA LedgerInit == Init => Ledger!Init
BY DEF Init, Ledger!Init, Pending, Zero

LEMMA LedgerStep == IInv /\ [Next]_vars => [Ledger!Next]_(Ledger!ledgerVars)
<1> SUFFICES ASSUME IInv, [Next]_vars
             PROVE  Ledger!Next \/ UNCHANGED <<Arrived, Pending, Scored, dead>>
  BY DEF Ledger!ledgerVars, Arrived, Scored
<1> USE ScoringAssumption
<1>0. /\ TypeInv /\ DeliveryInv /\ ScoredInv
      /\ queue \in Seq(Answers) /\ call \in [Answers -> Calls]
      /\ hand \in Answers \cup {None} /\ link \in BOOLEAN
      /\ score \in [Slots -> Nat]
  BY DEF IInv, TypeInv, TypeOK
<1>1. ASSUME NEW c \in Answers, Record(c)
      PROVE  UNCHANGED <<Arrived, Pending, Scored, dead>>
  <2>1. /\ UNCHANGED <<queue, hand, link, score, dead>>
        /\ call[c] = "idle" /\ call' = [call EXCEPT ![c] = "recorded"]
    BY <1>1 DEF Record, brokerVars, workVars, boardVars
  <2> QED BY <1>0, <2>1 DEF Arrived, Pending, Scored
<1>2. ASSUME NEW c \in Answers, Publish(c)
      PROVE  Ledger!Next \/ UNCHANGED <<Arrived, Pending, Scored, dead>>
  <2>1. UNCHANGED <<hand, link, score, dead>> /\ call[c] = "recorded"
    BY <1>2 DEF Publish, workVars, boardVars
  <2>2. CASE call' = [call EXCEPT ![c] = "queued"] /\ queue' = Append(queue, c)
    <3>1. Elements(queue') = Elements(queue) \cup {c}
      BY <1>0, <2>2, AppendElements
    <3>2. Pending' = Pending \cup {c} /\ Scored' = Scored
      BY <2>1, <3>1, PendingElements DEF Elements, Pending, Scored
    <3>3. c \notin Arrived /\ Arrived' = Arrived \cup {c}
      BY <1>0, <2>1, <2>2 DEF Arrived
    <3>4. Ledger!Arrive(c)
      BY <2>1, <3>2, <3>3 DEF Ledger!Arrive, Arrived, Scored
    <3> QED BY <3>4 DEF Ledger!Next
  <2>3. CASE queue' = queue /\ \E r \in {"failed", "lost"} :
                                  call' = [call EXCEPT ![c] = r]
    BY <1>0, <2>1, <2>3 DEF Arrived, Pending, Scored
  <2> QED BY <1>2, <2>2, <2>3 DEF Publish
<1>3. ASSUME QuizRestart
      PROVE  UNCHANGED <<Arrived, Pending, Scored, dead>>
  <2>1. /\ UNCHANGED <<queue, hand, link, score, dead>>
        /\ \A c \in Answers : call'[c] = "queued" <=> call[c] = "queued"
    BY <1>0, <1>3 DEF QuizRestart, brokerVars, workVars, boardVars
  <2> QED BY <2>1 DEF Arrived, Pending, Scored
<1>4. ASSUME Deliver
      PROVE  UNCHANGED <<Arrived, Pending, Scored, dead>>
  <2>1. /\ at = "idle" /\ link /\ queue # <<>>
        /\ hand' = Head(queue) /\ queue' = Tail(queue)
        /\ UNCHANGED <<call, link, score, dead>>
    BY <1>4 DEF Deliver, callVars, boardVars
  <2>2. hand = None /\ hand' # None
    BY <1>0, <2>1, HeadTailProperties DEF DeliveryInv, Delivered, InAttempt
  <2>3. Elements(queue) = Elements(queue') \cup {hand'}
    BY <1>0, <2>1, TailElements
  <2>4. Pending' = Elements(queue') \cup {hand'} /\ Pending = Elements(queue)
    BY <2>1, <2>2 DEF Pending, Elements
  <2> QED BY <2>1, <2>3, <2>4 DEF Arrived, Scored
<1>5. ASSUME Guard \/ FindQuestion \/ CountCorrect \/ TrackTime \/ MarkAnswer
      PROVE  UNCHANGED <<Arrived, Pending, Scored, dead>>
  <2>1. UNCHANGED <<call, queue, hand, link, dead>>
    BY <1>0, <1>5, ProcessMoves DEF ProcessStep
  <2>2. UNCHANGED score
    BY <1>5 DEF Guard, FindQuestion, CountCorrect, TrackTime, MarkAnswer,
       boardVars
  <2> QED BY <2>1, <2>2 DEF Arrived, Pending, Scored
<1>6. ASSUME UpdateScore
      PROVE  Ledger!Next \/ UNCHANGED <<Arrived, Pending, Scored, dead>>
  <2>1. /\ UNCHANGED <<call, queue, hand, link, dead>>
        /\ Slot \in Slots /\ hand \in Answers /\ hand # None
    BY <1>0, <1>6, ProcessMoves, SlotType DEF ProcessStep, TypeInv, HandInv
  <2>2. UNCHANGED <<Arrived, Pending>>
    BY <2>1 DEF Arrived, Pending
  <2>3. hand \in Pending /\ hand \notin Stray
    BY <1>0, <1>6, <2>1, PendingElements
    DEF DeliveryInv, Delivered, ScoredInv, UpdateScore
  <2>4. CASE score' = score
    BY <2>1, <2>2, <2>4 DEF Scored
  <2>5. CASE score' = Bump(score, Slot)
    <3>1. /\ score'[Slot] > 0
          /\ \A s \in Slots \ {Slot} : score'[s] = score[s]
      BY <1>0, <2>1, <2>5, BumpType
    <3>2. Scored' = Scored \cup {Slot}
      BY <2>1, <3>1 DEF Scored
    <3>3. \E a \in Answers : a = hand /\ Ledger!Score(a)
      BY <2>1, <2>2, <2>3, <3>2 DEF Ledger!Score, Arrived, Scored, Slot
    <3> QED BY <3>3 DEF Ledger!Next
  <2> QED BY <1>6, <2>4, <2>5 DEF UpdateScore
<1>7. ASSUME Ack \/ Nack
      PROVE  Ledger!Next \/ UNCHANGED <<Arrived, Pending, Scored, dead>>
  <2>1. /\ UNCHANGED <<call, queue, link, score>> /\ hand' = None
        /\ hand \in Answers /\ hand # None /\ at \in {"ack", "nack"}
        /\ ~link => dead' = dead
    BY <1>0, <1>7 DEF Ack, Nack, Finish, callVars, boardVars, TypeInv, HandInv
  <2>2. UNCHANGED <<Arrived, Scored>>
    BY <2>1 DEF Arrived, Scored
  <2>3. Pending = Elements(queue) \cup {hand} /\ Pending' = Elements(queue)
    BY <1>0, <2>1 DEF Pending, Elements, DeliveryInv, Delivered
  <2>4. CASE ~link
    BY <1>0, <2>1, <2>2, <2>3, <2>4 DEF DeliveryInv, Delivered
  <2>5. CASE link
    <3>1. Pending' = Pending \ {hand}
      BY <1>0, <2>1, <2>3, <2>5 DEF DeliveryInv, Delivered
    <3>2. CASE Ack
      <4>1. dead' = dead
        BY <3>2 DEF Ack, Finish
      <4>2. at = "ack" /\ Slot \in Slots
        BY <1>0, <2>1, <3>2, SlotType DEF Ack, Finish
      <4>3. hand \in Stray \/ Slot \in Scored
        BY <1>0, <4>2 DEF ScoredInv, Scored
      <4>4. Ledger!Settle(hand)
        BY <2>2, <2>3, <3>1, <4>1, <4>3
        DEF Ledger!Settle, Arrived, Scored, Slot
      <4> QED BY <2>1, <4>4 DEF Ledger!Next
    <3>3. CASE Nack
      <4>1. dead' = dead \cup {hand}
        BY <2>5, <3>3 DEF Nack, Finish
      <4>2. Ledger!Bury(hand)
        BY <2>2, <2>3, <3>1, <4>1 DEF Ledger!Bury, Arrived, Scored
      <4> QED BY <2>1, <4>2 DEF Ledger!Next
    <3> QED BY <1>7, <3>2, <3>3
  <2> QED BY <1>0, <2>4, <2>5
<1>8. ASSUME DropLink \/ ScoringRestart
      PROVE  UNCHANGED <<Arrived, Pending, Scored, dead>>
  <2>1. /\ queue' = Requeue /\ UNCHANGED <<call, score, dead>>
        /\ link' = FALSE \/ hand' = None
    BY <1>8 DEF DropLink, ScoringRestart, callVars, boardVars
  <2>2. Pending' = Elements(queue')
    BY <2>1 DEF Pending, Elements
  <2> QED BY <1>0, <2>1, <2>2, RequeueElements DEF Arrived, Scored
<1>9. ASSUME (\E s \in Slots : MarkExpires(s)) \/ UNCHANGED vars
      PROVE  UNCHANGED <<Arrived, Pending, Scored, dead>>
  BY <1>9 DEF MarkExpires, vars, callVars, brokerVars, workVars, boardVars,
     Arrived, Pending, Scored
<1> QED
  BY <1>1, <1>2, <1>3, <1>4, <1>5, <1>6, <1>7, <1>8, <1>9 DEF Next, Consume

\* No published answer is lost: it stays pending until its points are on the
\* leaderboard or it is in the dead letter queue, through every failed call,
\* retry, lost connection and restart (consumer.go:140-166 and 168-259).
THEOREM NoAnswerLost == Spec => LedgerSpec
<1>1. Init => IInv /\ Ledger!Init
  BY TypeInit, DeliveryInit, ScoredInit, LedgerInit DEF IInv
<1>2. IInv /\ [Next]_vars => IInv'
  BY TypeStep, DeliveryStep, ScoredStep DEF IInv
<1>3. IInv /\ [Next]_vars => [Ledger!Next]_(Ledger!ledgerVars)
  BY LedgerStep
<1> QED BY <1>1, <1>2, <1>3, PTL DEF Spec, LedgerSpec, Ledger!Spec

\* At any moment every published answer is in the queue or in the consumer's
\* hands, concerns no question, has points on the leaderboard for its player and
\* round, or is in the dead letter queue: proved of the ledger, whose steps are
\* few, and so true of the consumer (consumer.go:140-259).
THEOREM AnswersAccounted == Spec => []Ledger!EveryAnswerAccounted
<1>1. Ledger!Init => Ledger!EveryAnswerAccounted
  BY DEF Ledger!Init, Ledger!EveryAnswerAccounted
<1>2. Ledger!EveryAnswerAccounted /\ [Ledger!Next]_(Ledger!ledgerVars)
        => Ledger!EveryAnswerAccounted'
  <2> SUFFICES ASSUME Ledger!EveryAnswerAccounted, [Ledger!Next]_(Ledger!ledgerVars)
               PROVE  Ledger!EveryAnswerAccounted'
    OBVIOUS
  <2> USE DEF Ledger!EveryAnswerAccounted
  <2>1. ASSUME NEW a \in Answers, Ledger!Arrive(a)
        PROVE  Ledger!EveryAnswerAccounted'
    BY <2>1 DEF Ledger!Arrive
  <2>2. ASSUME NEW a \in Answers, Ledger!Score(a)
        PROVE  Ledger!EveryAnswerAccounted'
    BY <2>2 DEF Ledger!Score
  <2>3. ASSUME NEW a \in Answers, Ledger!Settle(a)
        PROVE  Ledger!EveryAnswerAccounted'
    BY <2>3 DEF Ledger!Settle
  <2>4. ASSUME NEW a \in Answers, Ledger!Bury(a)
        PROVE  Ledger!EveryAnswerAccounted'
    BY <2>4 DEF Ledger!Bury
  <2>5. CASE UNCHANGED Ledger!ledgerVars
    BY <2>5 DEF Ledger!ledgerVars
  <2> QED
    BY <2>1, <2>2, <2>3, <2>4, <2>5 DEF Ledger!Next
<1> QED
  BY <1>1, <1>2, NoAnswerLost, PTL DEF LedgerSpec, Ledger!Spec
=============================================================================
