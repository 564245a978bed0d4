---------------------------- MODULE AnswerScoring ----------------------------
(***************************************************************************)
(* The way of an answer: SubmitAnswer in quiz-service, the durable answer  *)
(* queue with its dead letter queue, the consumer of scoring-service and   *)
(* the counters it keeps in Redis.                                         *)
(*                                                                         *)
(* One Redis command, one publish, one query or one acknowledgement is one *)
(* step.  Points and response times are abstract: score counts how often   *)
(* the points of a slot were added, not how many they are, nor whether the *)
(* leaderboard, which is dropped after 30 minutes, is still there.         *)
(***************************************************************************)
EXTENDS Naturals, Sequences, FiniteSets

CONSTANTS
  Answers,       \* SubmitAnswer calls, each with its own answer
  Slots,         \* one per player and round
  SlotOf,        \* the slot each call is for
  Right,         \* the calls whose answer is the correct one
  Stray,         \* the calls whose question MongoDB does not know
  None,          \* no call
  MaxAttempts,   \* maxRetries
  MaxFaults,     \* bound: failed calls to Redis, MongoDB or RabbitMQ
  MaxRestarts,   \* bound: restarts of the two services
  MaxDrops       \* bound: lost AMQP connections of scoring-service

ASSUME ScoringAssumption ==
  /\ SlotOf \in [Answers -> Slots]
  /\ Right \subseteq Answers /\ Stray \subseteq Answers
  /\ None \notin Answers
  /\ MaxAttempts \in Nat \ {0}
  /\ MaxFaults \in Nat /\ MaxRestarts \in Nat /\ MaxDrops \in Nat

VARIABLES
  call,       \* how far each SubmitAnswer call is
  submitted,  \* room:{id}:submitted:{round}, the call that set each field
  queue,      \* answer-processing-queue, deliveries not taken by the consumer
  dead,       \* answer-processing-dlq
  hand,       \* the delivery in the consumer's handle, or None
  at,         \* its place in process
  attempt,    \* which attempt it is
  link,       \* is the consumer's AMQP channel open?
  answers,    \* room:{id}:answers:{round}, the call scored for each slot
  score,      \* room:{id}:leaderboard, times a slot's points were added
  correct,    \* room:{id}:correct_counts, times a slot was counted
  timed,      \* room:{id}:response_count, times a slot was counted
  slips,      \* times a slot's points were added without the consumer coming
              \* to know of it or leaving its mark in answers, or that mark
              \* has expired
  faults, restarts, drops

callVars   == <<call, submitted>>
brokerVars == <<queue, dead>>
workVars   == <<hand, at, attempt, link>>
boardVars  == <<answers, score, correct, timed, slips>>
boundVars  == <<faults, restarts, drops>>
vars == <<callVars, brokerVars, workVars, boardVars, boundVars>>

Calls    == {"idle", "recorded", "queued", "lost", "failed"}
InAttempt == {"guard", "question", "count", "time", "score", "mark"}
Places   == {"idle", "ack", "nack", "stopped"} \cup InAttempt

Slot == SlotOf[hand]   \* the slot in hand, when hand # None

TypeOK ==
  /\ call \in [Answers -> Calls]
  /\ submitted \in [Slots -> Answers \cup {None}]
  /\ queue \in Seq(Answers) /\ dead \subseteq Answers
  /\ hand \in Answers \cup {None} /\ at \in Places
  /\ attempt \in 0..MaxAttempts /\ link \in BOOLEAN
  /\ answers \in [Slots -> Answers \cup {None}]
  /\ score \in [Slots -> Nat] /\ correct \in [Slots -> Nat]
  /\ timed \in [Slots -> Nat] /\ slips \in [Slots -> Nat]
  /\ faults \in 0..MaxFaults /\ restarts \in 0..MaxRestarts
  /\ drops \in 0..MaxDrops

Zero == [s \in Slots |-> 0]

Init ==
  /\ call = [c \in Answers |-> "idle"] /\ submitted = [s \in Slots |-> None]
  /\ queue = <<>> /\ dead = {}
  /\ hand = None /\ at = "idle" /\ attempt = 0 /\ link = TRUE
  /\ answers = [s \in Slots |-> None]
  /\ score = Zero /\ correct = Zero /\ timed = Zero /\ slips = Zero
  /\ faults = 0 /\ restarts = 0 /\ drops = 0

\* A call to another system succeeds, or fails within the bound.
Works == UNCHANGED boundVars
Fails == faults < MaxFaults /\ faults' = faults + 1
         /\ UNCHANGED <<restarts, drops>>

Bump(f, s) == [f EXCEPT ![s] = @ + 1]

----------------------------------------------------------------------------
(* SubmitAnswer.                                                           *)

\* HSETNX submitted:{round}; its result and its error are only logged.
Record(c) ==
  /\ call[c] = "idle" /\ call' = [call EXCEPT ![c] = "recorded"]
  /\ \/ /\ Works
        /\ submitted' = IF submitted[SlotOf[c]] = None
                          THEN [submitted EXCEPT ![SlotOf[c]] = c]
                          ELSE submitted
     \/ Fails /\ UNCHANGED submitted
  /\ UNCHANGED <<brokerVars, workVars, boardVars>>

\* answer.submitted is published, to a channel without confirms: a failure
\* is an error for the client, or goes unnoticed.
Publish(c) ==
  /\ call[c] = "recorded"
  /\ \/ /\ Works /\ call' = [call EXCEPT ![c] = "queued"]
        /\ queue' = Append(queue, c)
     \/ /\ Fails /\ UNCHANGED queue
        /\ \E r \in {"failed", "lost"} : call' = [call EXCEPT ![c] = r]
  /\ UNCHANGED <<submitted, dead, workVars, boardVars>>

\* quiz-service restarts: handlers between the two commands are gone.
QuizRestart ==
  /\ restarts < MaxRestarts /\ restarts' = restarts + 1
  /\ \E c \in Answers : call[c] = "recorded"
  /\ call' = [c \in Answers |-> IF call[c] = "recorded" THEN "failed"
                                                        ELSE call[c]]
  /\ UNCHANGED <<submitted, brokerVars, workVars, boardVars, faults, drops>>

----------------------------------------------------------------------------
(* The consumer: one delivery at a time (Qos 1), manual acknowledgement.   *)

\* Wrong: the delivery counts as acknowledged when it is handed over.
Requeue_AutoAck == queue

\* What the broker does with an unacknowledged delivery of a lost channel.
Requeue == IF hand # None /\ link THEN <<hand>> \o queue ELSE queue

Deliver ==
  /\ at = "idle" /\ link /\ queue # <<>>
  /\ hand' = Head(queue) /\ queue' = Tail(queue)
  /\ attempt' = 1 /\ at' = "guard"
  /\ UNCHANGED <<callVars, dead, link, boardVars, boundVars>>

\* A failed attempt: the next one, or the dead letter queue.
Retry ==
  IF attempt < MaxAttempts THEN at' = "guard" /\ attempt' = attempt + 1
                           ELSE at' = "nack" /\ UNCHANGED attempt

\* The attempt goes on at place q.
Leave(q) == at' = q /\ UNCHANGED attempt

ProcessOnly == UNCHANGED <<callVars, brokerVars, hand, link>>

\* Wrong: an answer found scored is scored again.
Guard_Ignored ==
  /\ at = "guard"
  /\ \/ Works /\ Leave("question")
     \/ Fails /\ Retry
  /\ ProcessOnly /\ UNCHANGED boardVars

\* HEXISTS answers:{round}
Guard ==
  /\ at = "guard"
  /\ \/ Works /\ Leave(IF answers[Slot] = None THEN "question" ELSE "ack")
     \/ Fails /\ Retry
  /\ ProcessOnly /\ UNCHANGED boardVars

\* FindOne of the question; an unknown one is not an error.
FindQuestion ==
  /\ at = "question"
  /\ \/ Works /\ Leave(IF hand \in Stray THEN "ack"
                       ELSE IF hand \in Right THEN "count" ELSE "time")
     \/ Fails /\ Retry
  /\ ProcessOnly /\ UNCHANGED boardVars

\* IncrCorrectAnswers; its error is ignored.
CountCorrect ==
  /\ at = "count" /\ Leave("time")
  /\ \/ Works /\ correct' = Bump(correct, Slot)
     \/ Fails /\ UNCHANGED correct
  /\ ProcessOnly /\ UNCHANGED <<answers, score, timed, slips>>

\* TrackResponseTime and round_time; their errors are ignored.
TrackTime ==
  /\ at = "time" /\ Leave("score")
  /\ \/ Works /\ timed' = Bump(timed, Slot)
     \/ Fails /\ UNCHANGED timed
  /\ ProcessOnly /\ UNCHANGED <<answers, score, correct, slips>>

\* UpdateScore, a script in Redis.  An error may mean that it did not run,
\* or that its reply was lost.
UpdateScore ==
  /\ at = "score"
  /\ \/ /\ Works /\ Leave("mark")
        /\ score' = Bump(score, Slot) /\ UNCHANGED slips
     \/ Fails /\ Retry /\ UNCHANGED <<score, slips>>
     \/ /\ Fails /\ Retry
        /\ score' = Bump(score, Slot) /\ slips' = Bump(slips, Slot)
  /\ ProcessOnly /\ UNCHANGED <<answers, correct, timed>>

\* HSET answers:{round}, for 30 minutes; its error is ignored.
MarkAnswer ==
  /\ at = "mark" /\ Leave("ack")
  /\ \/ /\ Works /\ answers' = [answers EXCEPT ![Slot] = hand]
        /\ UNCHANGED slips
     \/ Fails /\ slips' = Bump(slips, Slot) /\ UNCHANGED answers
  /\ ProcessOnly /\ UNCHANGED <<score, correct, timed>>

\* The end of handle.  On a channel that is gone the acknowledgement has no
\* effect, and Start returns: the service goes on without a consumer.
Finish(place, buried) ==
  /\ at = place /\ at' = IF link THEN "idle" ELSE "stopped"
  /\ hand' = None /\ attempt' = 0
  /\ dead' = IF link THEN dead \cup buried ELSE dead
  /\ UNCHANGED <<callVars, queue, link, boardVars, boundVars>>

Ack  == Finish("ack", {})

\* Wrong: the last failed attempt is only logged; with a prefetch of one no
\* further delivery comes.
Nack_Forgotten ==
  /\ at = "nack" /\ at' = "stopped"
  /\ UNCHANGED <<callVars, brokerVars, hand, attempt, link, boardVars,
                 boundVars>>

\* Without requeue: the broker moves it to the dead letter queue.
Nack == Finish("nack", {hand})

\* The AMQP connection is lost: the broker queues the delivery again, at its
\* old place, while the consumer goes on with it.
DropLink ==
  /\ link /\ drops < MaxDrops /\ drops' = drops + 1
  /\ link' = FALSE /\ queue' = Requeue
  /\ at' = IF hand = None THEN "stopped" ELSE at
  /\ UNCHANGED <<callVars, dead, hand, attempt, boardVars, faults, restarts>>

\* scoring-service restarts.  Points added but not marked in answers are a
\* slip: nothing is left of them but the leaderboard.
ScoringRestart ==
  /\ restarts < MaxRestarts /\ restarts' = restarts + 1
  /\ queue' = Requeue
  /\ hand' = None /\ at' = "idle" /\ attempt' = 0 /\ link' = TRUE
  /\ slips' = IF at = "mark" THEN Bump(slips, Slot) ELSE slips
  /\ UNCHANGED <<callVars, dead, answers, score, correct, timed, faults, drops>>

\* The 30 minutes of a mark are over, wherever the consumer, the queue or the
\* service is by then: nothing tells any more that the slot has its points.
MarkExpires(s) ==
  /\ answers[s] # None /\ answers' = [answers EXCEPT ![s] = None]
  /\ slips' = Bump(slips, s)
  /\ UNCHANGED <<callVars, brokerVars, workVars, score, correct, timed,
                 boundVars>>

----------------------------------------------------------------------------
Consume == \/ Deliver \/ Guard \/ FindQuestion \/ CountCorrect \/ TrackTime
           \/ UpdateScore \/ MarkAnswer \/ Ack \/ Nack

Next ==
  \/ \E c \in Answers : Record(c) \/ Publish(c)
  \/ Consume
  \/ QuizRestart \/ DropLink \/ ScoringRestart
  \/ \E s \in Slots : MarkExpires(s)

Spec == Init /\ [][Next]_vars

\* The consumer's goroutine runs as long as it has a delivery.
FairSpec == Spec /\ WF_vars(Consume)

----------------------------------------------------------------------------
(* What holds.                                                             *)

\* The answers a broker without a fault still has to see settled.
Pending == {queue[i] : i \in 1..Len(queue)}
             \cup (IF hand # None /\ link THEN {hand} ELSE {})

Ledger == INSTANCE AnswerLedger WITH
  arrived <- {c \in Answers : call[c] = "queued"},
  pending <- Pending,
  scored  <- {s \in Slots : score[s] > 0}

\* No published answer is lost: whatever fails or restarts, it leaves the
\* queue only when its points are on the leaderboard or into the dead letter
\* queue (consumer.go:140-166 and 168-259).
LedgerSpec == Ledger!Spec

\* The points of a slot are added once, and once more only for each time that
\* they were added without a mark or their mark has expired: two calls of one
\* player, redeliveries and retries alone never double them (consumer.go:31,
\* 178-186, 246-253).
ScoredOncePerSlip ==
  \A s \in Slots : score[s] <= 1 + slips[s]

\* While the AMQP connection lasts, every published answer leaves the queue:
\* neither a failing call nor a restart keeps it there.
EveryAnswerSettles ==
  \A c \in Answers :
    call[c] = "queued" ~> (c \notin Pending \/ ~link)

----------------------------------------------------------------------------
(* What the documents say, and the code does not do.                       *)

\* "Two independent idempotency guards prevent double-scoring"
\* (DEMO_QA.md:103).
ScoredOnce == \A s \in Slots : score[s] <= 1
=============================================================================
