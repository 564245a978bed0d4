---------------------------- MODULE QuestionBank ----------------------------
(***************************************************************************)
(* The questions of a match: the consumer of match.created draws them by   *)
(* difficulty, leaving out what the players were asked in recorded matches *)
(* (match_consumer.go, selection.go), and stores the list in Redis; the    *)
(* game loop pops one per round and records those it has asked.            *)
(*                                                                         *)
(* One MongoDB or Redis command is one step.  DEL and RPUSH go in one      *)
(* flush, but not in a transaction.  RabbitMQ hands over one message at a  *)
(* time (Qos 1) and puts one that is refused, or whose consumer dies, back *)
(* at the head of the queue.  The hub and the rounds are in GameRoom.      *)
(***************************************************************************)
EXTENDS Integers, Sequences, FiniteSets, Functions

CONSTANTS
  Players,
  Rooms,
  PlayersOf,   \* the players of each room
  Questions,   \* the documents of questions
  Difficulty,  \* of each
  Count,       \* total_rounds of match.created
  Earlier,     \* the documents of match_history from before
  MaxCounts,   \* bound: different counts of a list that its streams hold
  MaxFaults    \* bound: failed commands and restarts

\* The buckets in the order they are filled.
Levels == <<"easy", "medium", "hard">>

\* What match_history keeps of a match.
Documents == [players : SUBSET Players, questionIds : SUBSET Questions]

ASSUME BankAssumption ==
  /\ PlayersOf \in [Rooms -> SUBSET Players] /\ Earlier \subseteq Documents
  /\ IsFiniteSet(Questions) /\ Difficulty \in [Questions -> Range(Levels)]
  /\ Count \in Nat /\ MaxCounts \in Nat /\ MaxFaults \in Nat

Lesser(m, n) == IF m < n THEN m ELSE n

\* 40 % of the rounds, rounded; no count gives a half.
TwoFifths == (4 * Count + 5) \div 10

\* The size of each bucket.
Share == <<TwoFifths, TwoFifths, Count - 2 * TwoFifths>>

VARIABLES
  unsent,    \* rooms whose match.created is still to come
  queue,     \* quiz-match-created-queue
  job,       \* the message in the consumer's hands, and how far it is
  list,      \* room:{id}:questions
  counts,    \* what streams that found no room have read as LLEN of the list
  running,   \* rooms with a game loop
  left,      \* the rounds each has still to start
  hand,      \* the question each has popped and not yet put to the players
  played,    \* playedQuestionIDs
  records,   \* match_history: the players and the questions of each match
  \* what happened, for the properties only
  known,     \* what the players had on record when the job looked
  asked,     \* the questions put to each room
  reselected,\* rooms that got a list after a question had been popped
  lacking,   \* rooms whose list was deleted, has expired or was not filled up
  overtaken, \* rooms opened on a count after which another loop has popped
  faults

jobVars  == <<queue, job, known>>
loopVars == <<counts, running, overtaken, left, hand, played, asked>>
listVars == <<list, lacking>>
vars == <<unsent, jobVars, listVars, loopVars, records, reselected, faults>>

Idle == [at |-> "idle"]

\* The places of a job, and the buckets it has filled.
Stages == {"history", "draw", "fill", "delete", "push"}

Jobs ==
  {Idle} \cup [at : Stages, room : Rooms, seen : SUBSET Questions, drawn : 0..3,
               picked : Seq(Questions), filled : BOOLEAN]

\* A count, and whether a question has been popped since.
Counts == [rounds : 0..Count, stale : BOOLEAN]

TypeOK ==
  /\ unsent \subseteq Rooms /\ queue \in Seq(Rooms) /\ job \in Jobs
  /\ list \in [Rooms -> Seq(Questions)] /\ asked \in [Rooms -> Seq(Questions)]
  /\ running \subseteq Rooms /\ left \in [Rooms -> 0..Count]
  /\ counts \in [Rooms -> SUBSET Counts] /\ overtaken \subseteq Rooms
  /\ played \in [Rooms -> SUBSET Questions] /\ hand \in [Rooms -> SUBSET Questions]
  /\ records \subseteq Documents
  /\ known \subseteq Questions
  /\ reselected \subseteq Rooms /\ lacking \subseteq Rooms
  /\ faults \in 0..MaxFaults

Init ==
  /\ unsent = Rooms /\ queue = << >> /\ job = Idle
  /\ list = [r \in Rooms |-> << >>] /\ asked = [r \in Rooms |-> << >>]
  /\ running = {} /\ left = [r \in Rooms |-> 0]
  /\ counts = [r \in Rooms |-> {}] /\ overtaken = {}
  /\ played = [r \in Rooms |-> {}] /\ hand = [r \in Rooms |-> {}]
  /\ records = Earlier /\ known = {} /\ reselected = {} /\ lacking = {}
  /\ faults = 0

\* A command succeeds, or fails within the bound, having had its effect or
\* not.
Works == UNCHANGED faults
Fails == faults < MaxFaults /\ faults' = faults + 1

----------------------------------------------------------------------------
(* The consumer of match.created.                                          *)

\* matchmaking-service publishes the event of a room.
Publish(r) ==
  /\ r \in unsent /\ unsent' = unsent \ {r} /\ queue' = Append(queue, r)
  /\ UNCHANGED <<job, known, listVars, loopVars, records, reselected, faults>>

Elsewhere == UNCHANGED <<unsent, loopVars, records>>
Unstored  == UNCHANGED <<listVars, reselected>> /\ Elsewhere

Deliver ==
  /\ job = Idle /\ queue # << >> /\ queue' = Tail(queue)
  /\ job' = [at |-> "history", room |-> Head(queue), seen |-> {},
             drawn |-> 0, picked |-> << >>, filled |-> TRUE]
  /\ UNCHANGED <<known, faults>> /\ Unstored

\* Nack with requeue, or the broker's own redelivery.
Requeue == job' = Idle /\ queue' = <<job.room>> \o queue /\ known' = {}

\* The documents with one of these players in it.
RecordsOf(P) == {h \in records : h.players \cap P # {}}

QuestionsIn(H) == UNION {h.questionIds : h \in H}

\* Wrong: the matches these players have all played together.
FetchSeen_Together ==
  LET P == PlayersOf[job.room]
  IN  /\ job.at = "history" /\ Works /\ UNCHANGED queue
      /\ job' = [job EXCEPT !.at = "draw",
                   !.seen = QuestionsIn({h \in records : P \subseteq h.players})]
      /\ known' = QuestionsIn(RecordsOf(P))
      /\ Unstored

\* fetchSeenQuestionIDs.
FetchSeen ==
  LET S == QuestionsIn(RecordsOf(PlayersOf[job.room]))
  IN  /\ job.at = "history"
      /\ \/ /\ Works /\ known' = S /\ UNCHANGED queue
            /\ job' = [job EXCEPT !.at = "draw", !.seen = S]
         \/ Fails /\ Requeue
      /\ Unstored

\* The questions of a bucket.
Bucket(i) == {q \in Questions : Difficulty[q] = Levels[i]}

\* sampleQuestions: the first n of the eligible questions, shuffled.
Samples(eligible, n) ==
  {s \in [1..Lesser(n, Cardinality(eligible)) -> eligible] : IsInjective(s)}

\* One bucket; deduplicate, after the last, finds nothing.
Draw(i) ==
  /\ job.at = "draw" /\ job.drawn = i - 1
  /\ \/ /\ Works /\ UNCHANGED <<queue, known>>
        /\ \E s \in Samples(Bucket(i) \ (job.seen \cup Range(job.picked)), Share[i]) :
             job' = [job EXCEPT !.at = IF i = 3 THEN "fill" ELSE "draw",
                                !.drawn = i, !.picked = @ \o s]
     \/ Fails /\ Requeue
  /\ Unstored

\* The free places, from any bucket, seen or not; an error is ignored, but
\* nothing picked at all is one.
Fill ==
  /\ job.at = "fill"
  /\ \/ /\ Works
        /\ \E s \in Samples(Questions \ Range(job.picked), Count - Len(job.picked)) :
             IF job.picked \o s = << >>
               THEN Requeue
               ELSE /\ job' = [job EXCEPT !.at = "delete", !.picked = @ \o s]
                    /\ UNCHANGED <<queue, known>>
     \/ /\ Fails /\ Len(job.picked) < Count
        /\ IF job.picked = << >>
             THEN Requeue
             ELSE /\ job' = [job EXCEPT !.at = "delete", !.filled = FALSE]
                  /\ UNCHANGED <<queue, known>>
  /\ Unstored

EmptyList(r) == list' = [list EXCEPT ![r] = << >>] /\ lacking' = lacking \cup {r}

\* storeInRedis: DEL ...
DeleteList ==
  /\ job.at = "delete"
  /\ \/ /\ Works /\ EmptyList(job.room)
        /\ job' = [job EXCEPT !.at = "push"] /\ UNCHANGED <<queue, known>>
     \/ Fails /\ Requeue /\ (EmptyList(job.room) \/ UNCHANGED listVars)
  /\ UNCHANGED reselected /\ Elsewhere

StoreList ==
  LET r == job.room
  IN  /\ list' = [list EXCEPT ![r] = @ \o job.picked]
      /\ lacking' = IF job.filled THEN lacking \ {r} ELSE lacking \cup {r}
      /\ reselected' = IF asked[r] = << >> /\ hand[r] = {} THEN reselected
                                                          ELSE reselected \cup {r}

\* ... and RPUSH with EXPIRE, and Ack.
PushList ==
  /\ job.at = "push"
  /\ \/ Works /\ StoreList /\ job' = Idle /\ known' = {} /\ UNCHANGED queue
     \/ Fails /\ Requeue /\ (StoreList \/ UNCHANGED <<listVars, reselected>>)
  /\ Elsewhere

----------------------------------------------------------------------------
(* The game loop.                                                          *)

LoopOnly == UNCHANGED <<unsent, jobVars, reselected>>

Uncounted ==
  UNCHANGED <<running, overtaken, left, hand, played, asked, listVars, records, faults>>

\* Wrong: as many rounds as the match was made for.
CountQuestions_Event(r) ==
  /\ list[r] # << >> /\ Cardinality(counts[r]) < MaxCounts
  /\ counts' = [counts EXCEPT ![r] = @ \cup {[rounds |-> Count, stale |-> FALSE]}]
  /\ Uncounted /\ LoopOnly

\* A stream that has found no room in the hub reads LLEN; on 0 it is refused.
\* There is no guard on the room: one may have been opened since the look-up,
\* and every loop starts in a room that was not in the hub.
CountQuestions(r) ==
  /\ list[r] # << >> /\ Cardinality(counts[r]) < MaxCounts
  /\ counts' = [counts EXCEPT ![r] = @ \cup {[rounds |-> Len(list[r]), stale |-> FALSE]}]
  /\ Uncounted /\ LoopOnly

\* getOrCreate finds a room that another stream has opened.
Join(r) ==
  /\ r \in running
  /\ \E c \in counts[r] : counts' = [counts EXCEPT ![r] = @ \ {c}]
  /\ Uncounted /\ LoopOnly

\* getOrCreate makes the room, with as many rounds as were counted, and
\* startOnce starts its loop; nothing happens to the room between the two
\* (StartersHoldHub of GameRoom).  Other streams may have counted the same.
Open(r) ==
  /\ r \notin running /\ running' = running \cup {r}
  /\ \E c \in counts[r] :
       /\ \/ UNCHANGED counts
          \/ counts' = [counts EXCEPT ![r] = @ \ {c}]
       /\ left' = [left EXCEPT ![r] = c.rounds]
       /\ overtaken' = IF c.stale THEN overtaken \cup {r} ELSE overtaken \ {r}
  /\ UNCHANGED <<hand, played, asked, listVars, records, faults>> /\ LoopOnly

\* The loop ends, and the room leaves the hub.
Stops(r) ==
  /\ running' = running \ {r} /\ overtaken' = overtaken \ {r}
  /\ left' = [left EXCEPT ![r] = 0] /\ hand' = [hand EXCEPT ![r] = {}]
  /\ played' = [played EXCEPT ![r] = {}]

PopList(r) ==
  /\ list' = [list EXCEPT ![r] = Tail(@)]
  /\ counts' = [counts EXCEPT ![r] = {[c EXCEPT !.stale = TRUE] : c \in @}]

InHand(r) ==
  /\ hand' = [hand EXCEPT ![r] = {Head(list[r])}]
  /\ left' = [left EXCEPT ![r] = @ - 1]
  /\ UNCHANGED <<running, overtaken, played>>

\* Wrong: the question stays in the list.
Pop_Index(r) ==
  /\ r \in running /\ left[r] > 0 /\ hand[r] = {} /\ list[r] # << >>
  /\ Works /\ InHand(r) /\ UNCHANGED <<list, counts>>
  /\ UNCHANGED <<asked, lacking, records>> /\ LoopOnly

\* LPOP: the next round has its question; an error ends the loop.
Pop(r) ==
  /\ r \in running /\ left[r] > 0 /\ hand[r] = {} /\ list[r] # << >>
  /\ \/ Works /\ PopList(r) /\ InHand(r)
     \/ Fails /\ Stops(r) /\ (PopList(r) \/ UNCHANGED <<list, counts>>)
  /\ UNCHANGED <<asked, lacking, records>> /\ LoopOnly

\* FindOne, and the question goes to the players; an error ends the loop
\* without a record.
Ask(r) ==
  /\ r \in running
  /\ \/ /\ Works /\ \E q \in hand[r] :
             /\ asked' = [asked EXCEPT ![r] = Append(@, q)]
             /\ played' = [played EXCEPT ![r] = @ \cup {q}]
        /\ hand' = [hand EXCEPT ![r] = {}]
        /\ UNCHANGED <<counts, running, overtaken, left>>
     \/ Fails /\ hand[r] # {} /\ Stops(r) /\ UNCHANGED <<counts, asked>>
  /\ UNCHANGED <<listVars, records>> /\ LoopOnly

\* LPOP of an empty list is an error, too.
RunDry(r) ==
  /\ r \in running /\ left[r] > 0 /\ hand[r] = {} /\ list[r] = << >> /\ Stops(r)
  /\ UNCHANGED <<counts, asked, listVars, records, faults>> /\ LoopOnly

\* The match ends, after its last round or early, and is saved with those
\* players who are in its final scores, or is not.  A record without questions
\* tells nothing, and is left out.
End(r) ==
  /\ r \in running /\ hand[r] = {} /\ Stops(r)
  /\ \/ /\ (Works \/ Fails) /\ played[r] # {}
        /\ \E P \in SUBSET PlayersOf[r] \ {{}} :
             records' = records \cup {[players |-> P, questionIds |-> played[r]]}
     \/ (Fails \/ (Works /\ played[r] = {})) /\ UNCHANGED records
  /\ UNCHANGED <<counts, asked, listVars>> /\ LoopOnly

----------------------------------------------------------------------------
(* What else befalls them.                                                 *)

\* The TTL of the list.
Expire(r) ==
  /\ list[r] # << >> /\ EmptyList(r)
  /\ UNCHANGED <<unsent, jobVars, loopVars, records, reselected, faults>>

\* trimMatchHistory, as MatchAftermath has it.
Forget(h) ==
  /\ records' = records \ {h}
  /\ UNCHANGED <<unsent, jobVars, listVars, loopVars, reselected, faults>>

\* quiz-service: the message in hand goes back; streams and loops are lost.
Restart ==
  /\ Fails
  /\ IF job = Idle THEN UNCHANGED jobVars ELSE Requeue
  /\ counts' = [r \in Rooms |-> {}]
  /\ running' = {} /\ overtaken' = {} /\ left' = [r \in Rooms |-> 0]
  /\ hand' = [r \in Rooms |-> {}] /\ played' = [r \in Rooms |-> {}]
  /\ UNCHANGED <<unsent, asked, listVars, records, reselected>>

ConsumerStep ==
  \/ Deliver \/ FetchSeen \/ \E i \in 1..3 : Draw(i)
  \/ Fill \/ DeleteList \/ PushList

StreamStep(r) == CountQuestions(r) \/ Join(r) \/ Open(r)

LoopStep(r) == Pop(r) \/ Ask(r) \/ RunDry(r) \/ End(r)

Next ==
  \/ \E r \in Rooms : Publish(r) \/ StreamStep(r) \/ LoopStep(r) \/ Expire(r)
  \/ ConsumerStep
  \/ \E h \in records : Forget(h)
  \/ Restart

Spec == Init /\ [][Next]_vars

----------------------------------------------------------------------------
(* What holds.                                                             *)

\* The bucket has fewer questions than its share that are new to the players.
Short(i) == Cardinality(Bucket(i) \ known) < Share[i]

\* A question that one of the players was asked in a recorded match comes
\* again only if some bucket is short of new ones (selection.go:23-32).
SeenOnlyAsFiller ==
  (job.at \in {"delete", "push"} /\ Range(job.picked) \cap known # {})
    => \E i \in 1..3 : Short(i)

\* No question is put to a room twice, over restarts and over all its loops,
\* unless its questions were selected again after the first was popped
\* (selection.go:21, 29-31, quiz.go:81-127).
NoRepeatUnlessReselected ==
  \A r \in Rooms \ reselected : IsInjective(asked[r])

\* No loop runs out of questions, which would end it without MatchEnd, unless
\* the list was deleted, expired or could not be filled up, or the stream that
\* opened the room had counted them before another loop took some
\* (quiz_handler.go:365-383, 479-482).
QuestionsSuffice ==
  \A r \in running \ (lacking \cup overtaken) : left[r] <= Len(list[r])
=============================================================================
