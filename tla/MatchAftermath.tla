--------------------------- MODULE MatchAftermath ---------------------------
(***************************************************************************)
(* What a match leaves behind: its event match.finished, which quiz-service*)
(* publishes in the last round; its document of match_history, saved some  *)
(* seconds later and trimmed to the last matches of every player           *)
(* (quiz_handler.go); and the notification worker, which takes the event,  *)
(* looks for the document and tells the referrer of a player about his     *)
(* first match (consumer.go, db.go).                                       *)
(*                                                                         *)
(* One MongoDB command is one step.  RabbitMQ hands the worker one message *)
(* at a time (Qos 1) and puts one it refuses, or dies with, back to the    *)
(* head of the queue.                                                      *)
(***************************************************************************)
EXTENDS Integers, Sequences, FiniteSets

CONSTANTS
  Users,
  LastRoom,   \* bound: matches; they are numbered in the order they start
  PlayersOf,  \* the players of each
  Keep,       \* documents that trimMatchHistory leaves a player
  Referees,   \* the users who may apply a referral code
  Referrer,   \* whose code each applies
  MaxFaults   \* bound: failed commands and restarts

Rooms == 1..LastRoom

ASSUME AftermathAssumption ==
  /\ LastRoom \in Nat /\ Keep \in Nat /\ MaxFaults \in Nat
  /\ PlayersOf \in [Rooms -> SUBSET Users]
  /\ Referees \subseteq Users /\ Referrer \in [Referees -> Users]

VARIABLES
  loop,      \* the place of each room's game loop
  standing,  \* the players in the final scores of each match
  todo,      \* those whose history the loop has still to trim
  doomed,    \* the documents it has found for deletion
  history,   \* the matches with a document in match_history
  queue,     \* notification-match-queue
  job,       \* the message in the worker's hands, and how far it is
  token,     \* users with a device token
  referred,  \* users with referred_by
  flagged,   \* users with referee_first_match_notified
  \* what happened, for the properties only
  saved,     \* matches that ever had a document
  owed,      \* documents of a player saved since a trim last looked, and
             \*    those it found too old and has not deleted
  sends,     \* pushes sent about each user
  missed,    \* flagged users about whom no push was sent
  faults

loopVars   == <<loop, standing, todo, doomed, history, saved, owed>>
workerVars == <<job, flagged, sends, missed>>
userVars   == <<token, referred>>
vars == <<loopVars, workerVars, userVars, queue, faults>>

Idle == [at |-> "idle"]

\* The worker's places with a player in hand.
Midway == {"mark", "token", "send"}

Jobs ==
  {Idle}
    \cup [at : {"find"}, room : Rooms]
    \cup [at : {"players"}, room : Rooms, left : SUBSET Users]
    \cup [at : Midway, room : Rooms, left : SUBSET Users, user : Referees]

TypeOK ==
  /\ loop \in [Rooms -> {"playing", "scores", "save", "trim", "delete", "over"}]
  /\ standing \in [Rooms -> SUBSET Users] /\ todo \in [Rooms -> SUBSET Users]
  /\ \A r \in Rooms : standing[r] \cup todo[r] \subseteq PlayersOf[r]
  /\ history \subseteq saved /\ saved \subseteq Rooms
  /\ doomed \in [Rooms -> SUBSET saved]
  /\ queue \in Seq(Rooms) /\ job \in Jobs
  /\ token \subseteq Users /\ referred \subseteq Referees
  /\ flagged \subseteq referred /\ missed \subseteq flagged
  /\ owed \in [Users -> SUBSET saved] /\ sends \in [Users -> Nat]
  /\ faults \in 0..MaxFaults

Init ==
  /\ loop = [r \in Rooms |-> "playing"]
  /\ standing = [r \in Rooms |-> {}] /\ todo = [r \in Rooms |-> {}]
  /\ doomed = [r \in Rooms |-> {}]
  /\ history = {} /\ saved = {} /\ owed = [u \in Users |-> {}]
  /\ queue = << >> /\ job = Idle
  /\ token = {} /\ referred = {} /\ flagged = {} /\ missed = {}
  /\ sends = [u \in Users |-> 0] /\ faults = 0

\* A command succeeds, or fails within the bound, having had its effect or
\* not.
Works == UNCHANGED faults
Fails == faults < MaxFaults /\ faults' = faults + 1

LoopTo(r, place) == loop' = [loop EXCEPT ![r] = place]

----------------------------------------------------------------------------
(* quiz-service, when a match ends.                                        *)

\* The documents of u, and those with Keep newer ones.
HistoryOf(u) == {r \in history : u \in standing[r]}
Newer(u, r)  == {s \in HistoryOf(u) : s > r}
Older(u)     == {r \in HistoryOf(u) : Cardinality(Newer(u, r)) >= Keep}

\* The match ends: with its last question, and then match.finished is
\* published, or without it, as in a match that ends early, or is lost.
Finish(r) ==
  /\ loop[r] = "playing" /\ LoopTo(r, "scores")
  /\ queue' = Append(queue, r) \/ UNCHANGED queue
  /\ UNCHANGED <<standing, todo, doomed, history, saved, owed, workerVars, userVars,
                 faults>>

\* buildMatchEndEvent: the players in the leaderboard, who are those that had
\* an answer scored, or all if there is none; none if the keys cannot be
\* read, and if the leaderboard cannot, that is the end.
Scores(r) ==
  /\ loop[r] = "scores"
  /\ \/ /\ \/ Works /\ \E S \in SUBSET PlayersOf[r] \ {{}} :
                         standing' = [standing EXCEPT ![r] = S]
           \/ Fails /\ standing' = [standing EXCEPT ![r] = {}]
        /\ LoopTo(r, "save")
     \/ Fails /\ LoopTo(r, "over") /\ UNCHANGED standing
  /\ UNCHANGED <<todo, doomed, history, saved, owed, queue, workerVars, userVars>>

\* saveMatchHistory; an error is logged, and the trimming follows anyway.
Save(r) ==
  /\ loop[r] = "save" /\ LoopTo(r, "trim")
  /\ todo' = [todo EXCEPT ![r] = standing[r]]
  /\ \/ /\ Works \/ Fails
        /\ history' = history \cup {r} /\ saved' = saved \cup {r}
        /\ owed' = [u \in Users |-> IF u \in standing[r] THEN owed[u] \cup {r}
                                                         ELSE owed[u]]
     \/ Fails /\ UNCHANGED <<history, saved, owed>>
  /\ UNCHANGED <<standing, doomed, queue, workerVars, userVars>>

\* Wrong: one document more is skipped.
TrimFind_OffByOne(r, u) ==
  LET found == {s \in HistoryOf(u) : Cardinality(Newer(u, s)) > Keep}
  IN  /\ loop[r] = "trim" /\ u \in todo[r] /\ Works /\ LoopTo(r, "delete")
      /\ todo' = [todo EXCEPT ![r] = @ \ {u}]
      /\ doomed' = [doomed EXCEPT ![r] = found]
      /\ owed' = [owed EXCEPT ![u] = found]
      /\ UNCHANGED <<standing, history, saved, queue, workerVars, userVars>>

\* Wrong: oldest first.
TrimFind_Ascending(r, u) ==
  LET found == {s \in HistoryOf(u) :
                  Cardinality(HistoryOf(u) \ Newer(u, s)) > Keep}
  IN  /\ loop[r] = "trim" /\ u \in todo[r] /\ Works /\ LoopTo(r, "delete")
      /\ todo' = [todo EXCEPT ![r] = @ \ {u}]
      /\ doomed' = [doomed EXCEPT ![r] = found]
      /\ owed' = [owed EXCEPT ![u] = found]
      /\ UNCHANGED <<standing, history, saved, queue, workerVars, userVars>>

\* trimMatchHistory for one player: the documents past the Keep newest; an
\* error skips him.
TrimFind(r, u) ==
  /\ loop[r] = "trim" /\ u \in todo[r]
  /\ todo' = [todo EXCEPT ![r] = @ \ {u}]
  /\ \/ /\ Works /\ LoopTo(r, IF Older(u) = {} THEN "trim" ELSE "delete")
        /\ doomed' = [doomed EXCEPT ![r] = Older(u)]
        /\ owed' = [owed EXCEPT ![u] = Older(u)]
     \/ Fails /\ UNCHANGED <<loop, doomed, owed>>
  /\ UNCHANGED <<standing, history, saved, queue, workerVars, userVars>>

\* They are deleted, for whoever else is in them, too.
TrimDelete(r) ==
  /\ loop[r] = "delete" /\ LoopTo(r, "trim")
  /\ doomed' = [doomed EXCEPT ![r] = {}]
  /\ \/ /\ Works \/ Fails
        /\ history' = history \ doomed[r]
        /\ owed' = [u \in Users |-> owed[u] \ doomed[r]]
     \/ Fails /\ UNCHANGED <<history, owed>>
  /\ UNCHANGED <<standing, todo, saved, queue, workerVars, userVars>>

\* The loops of ended matches are lost; a match in play goes on when its
\* players come back.
QuizRestart ==
  /\ Fails
  /\ loop' = [r \in Rooms |-> IF loop[r] = "playing" THEN "playing" ELSE "over"]
  /\ doomed' = [r \in Rooms |-> {}]
  /\ UNCHANGED <<standing, todo, history, saved, owed, queue, workerVars, userVars>>

----------------------------------------------------------------------------
(* The notification worker.                                                *)

WorkerOnly == UNCHANGED <<loopVars, userVars>>

Deliver ==
  /\ job.at = "idle" /\ queue # << >>
  /\ job' = [at |-> "find", room |-> Head(queue)] /\ queue' = Tail(queue)
  /\ UNCHANGED <<flagged, sends, missed, faults>> /\ WorkerOnly

\* Wrong: neither Ack nor Nack, and Qos lets nothing else through.
Requeue_Forgotten == job' = [at |-> "held", room |-> job.room] /\ UNCHANGED queue

\* Nack with requeue, or the broker's own redelivery.
Requeue == job' = Idle /\ queue' = <<job.room>> \o queue

\* GetMatchPlayers.
Find ==
  LET r == job.room
      found == r \in history /\ standing[r] # {}
  IN  /\ job.at = "find"
      /\ \/ /\ Works /\ found /\ UNCHANGED queue
            /\ job' = [at |-> "players", room |-> r, left |-> standing[r]]
         \/ Works /\ ~found /\ Requeue
         \/ Fails /\ Requeue
      /\ UNCHANGED <<flagged, sends, missed>> /\ WorkerOnly

\* Back to the players that are left.
Resume == job' = [at |-> "players", room |-> job.room, left |-> job.left]

\* Wrong: the flag is not looked at.
Look_FlagIgnored(u) ==
  /\ job.at = "players" /\ u \in job.left /\ Works
  /\ job' = IF u \in referred
              THEN [at |-> "mark", room |-> job.room, left |-> job.left \ {u}, user |-> u]
              ELSE [job EXCEPT !.left = @ \ {u}]
  /\ UNCHANGED <<queue, flagged, sends, missed>> /\ WorkerOnly

\* GetUserInfo of the next player; an error skips him.
Look(u) ==
  LET first == u \in referred \ flagged
  IN  /\ job.at = "players" /\ u \in job.left
      /\ \/ /\ Works /\ first
            /\ job' = [at |-> "mark", room |-> job.room, left |-> job.left \ {u},
                       user |-> u]
         \/ /\ (Works /\ ~first) \/ Fails
            /\ job' = [job EXCEPT !.left = @ \ {u}]
      /\ UNCHANGED <<queue, flagged, sends, missed>> /\ WorkerOnly

\* MarkFirstMatchNotified.
Mark ==
  /\ job.at = "mark"
  /\ \/ /\ Works /\ job' = [job EXCEPT !.at = "token"]
        /\ flagged' = flagged \cup {job.user} /\ UNCHANGED missed
     \/ /\ Fails /\ Resume
        /\ flagged' = flagged \cup {job.user} /\ missed' = missed \cup {job.user}
     \/ Fails /\ Resume /\ UNCHANGED <<flagged, missed>>
  /\ UNCHANGED <<queue, sends>> /\ WorkerOnly

\* GetToken of the referrer.
FindToken ==
  /\ job.at = "token"
  /\ \/ /\ Works /\ Referrer[job.user] \in token
        /\ job' = [job EXCEPT !.at = "send"] /\ UNCHANGED missed
     \/ /\ (Works /\ Referrer[job.user] \notin token) \/ Fails
        /\ Resume /\ missed' = missed \cup {job.user}
  /\ UNCHANGED <<queue, flagged, sends>> /\ WorkerOnly

\* The push; an error is logged.
Send ==
  /\ job.at = "send" /\ Resume
  /\ \/ /\ Works \/ Fails
        /\ sends' = [sends EXCEPT ![job.user] = @ + 1] /\ UNCHANGED missed
     \/ Fails /\ missed' = missed \cup {job.user} /\ UNCHANGED sends
  /\ UNCHANGED <<queue, flagged>> /\ WorkerOnly

Ack ==
  /\ job.at = "players" /\ job.left = {} /\ job' = Idle
  /\ UNCHANGED <<queue, flagged, sends, missed, faults>> /\ WorkerOnly

\* The message in hand goes back; of a player between flag and push nothing
\* is known any more.
WorkerRestart ==
  /\ job # Idle /\ Fails /\ Requeue
  /\ missed' = IF job.at \in {"token", "send"} THEN missed \cup {job.user} ELSE missed
  /\ UNCHANGED <<flagged, sends>> /\ WorkerOnly

----------------------------------------------------------------------------
(* The users.                                                              *)

UserOnly == UNCHANGED <<loopVars, workerVars, queue, faults>>

\* POST /device/token.
Register(u) == token' = token \cup {u} /\ UNCHANGED referred /\ UserOnly

\* ApplyCode, as Referral has it.
Refer(u) == referred' = referred \cup {u} /\ UNCHANGED token /\ UserOnly

LoopStep(r) ==
  \/ Finish(r) \/ Scores(r) \/ Save(r) \/ TrimDelete(r)
  \/ \E u \in Users : TrimFind(r, u)

WorkerStep ==
  \/ Deliver \/ Find \/ Mark \/ FindToken \/ Send \/ Ack
  \/ \E u \in Users : Look(u)

Next ==
  \/ \E r \in Rooms : LoopStep(r)
  \/ QuizRestart
  \/ WorkerStep
  \/ WorkerRestart
  \/ \E u \in Users : Register(u)
  \/ \E u \in Referees : Refer(u)

Spec == Init /\ [][Next]_vars

\* The worker's loop runs, and the container is started again when it has
\* died (restart: unless-stopped). What it cannot do is outlive the loss of its
\* AMQP channel: main.go:92-96 starts no second consumer. That is left out.
FairSpec == Spec /\ WF_vars(WorkerStep)

----------------------------------------------------------------------------
(* What holds.                                                             *)

\* About a flagged user one push was sent, and about no one else, whatever is
\* requeued, redelivered or restarted: but for the user in hand, and for
\* those whose referrer had no device or whose push a failure or a restart
\* swallowed (consumer.go:259-291).
OnePushPerFlag ==
  \A u \in Users :
    LET inHand == job.at \in {"token", "send"} /\ job.user = u
    IN  sends[u] = IF u \in flagged \ missed /\ ~inHand THEN 1 ELSE 0

\* A player has no more than Keep documents, those saved since a trim last
\* looked at his, and those it found too old and that are not deleted yet, or
\* that a failure has left (quiz_handler.go:858-905).
HistoryBounded ==
  \A u \in Users : Cardinality(HistoryOf(u)) <= Keep + Cardinality(owed[u])

\* Keep newer documents had been saved for one of the players of a match.
IsOld(r) ==
  \E u \in standing[r] :
    Cardinality({s \in saved : s > r /\ u \in standing[s]}) >= Keep

\* Only such a document is ever deleted, however the trims of several loops
\* and the saving of other matches overlap (quiz_handler.go:858-905).
DeletedIsOld == \A r \in saved \ history : IsOld(r)

\* The matches whose events are under way.
Pending ==
  {queue[i] : i \in DOMAIN queue} \cup IF job = Idle THEN {} ELSE {job.room}

\* The queue empties once no event is left in it whose document is not saved,
\* or is without players, or has been trimmed: such a one is refused and
\* delivered for ever, ahead of all others (consumer.go:235-247).
QueueDrains ==
  <>[](\A r \in Pending : r \in history /\ standing[r] # {})
    => <>[](queue = << >> /\ job = Idle)
=============================================================================
