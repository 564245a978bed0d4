------------------------------ MODULE GameRoom ------------------------------
(***************************************************************************)
(* One room of quiz-service: the hub entry, the room objects it points to, *)
(* the StreamGameEvents handlers, SubmitAnswer, the game loop goroutine    *)
(* with RunRound, and the room's keys in Redis, which outlive the process. *)
(*                                                                         *)
(* A critical section of hub.mu or room.mu, one Redis command, one publish *)
(* or one database write is one step: the handlers interleave between them.*)
(* A reconnect is a further connection of the same player.  Time is not    *)
(* modelled: sleeps and the 30 s timer elapse at any moment, and so do the *)
(* 30 minutes after which Redis drops a key of the room.                   *)
(***************************************************************************)
EXTENDS Naturals, FiniteSets

CONSTANTS
  Players,        \* the userIDs of the room
  Conns,          \* StreamGameEvents calls that may be made
  Owner,          \* the player making each call
  NoPlayer,       \* the empty userID
  Total,          \* questions SelectForRoom stores for the room
  Forfeiters,     \* the players that may press the forfeit button
  MaxRooms,       \* bound: gameRoom objects ever allocated for the roomID
  MaxSelections,  \* bound: deliveries of match.created
  Perishable,     \* the keys of the room that may run into their TTL
  MaxDrops,       \* bound: no stream breaks once as many are gone
  MaxCrashes,     \* bound: restarts of quiz-service
  MaxExpiries,    \* bound: keys of the room that Redis drops after their TTL
  Faults          \* TRUE: Redis, MongoDB and RabbitMQ calls may fail

ASSUME ConstantsAssumption ==
  /\ IsFiniteSet(Players)
  /\ NoPlayer \notin Players
  /\ Owner \in [Conns -> Players]
  /\ Forfeiters \subseteq Players
  /\ Perishable \subseteq {"closed", "questions", "submitted"}
  /\ Total \in Nat /\ MaxRooms \in Nat /\ MaxDrops \in Nat
  /\ MaxSelections \in Nat /\ MaxCrashes \in Nat /\ MaxExpiries \in Nat
  /\ Faults \in BOOLEAN

Rooms  == 1..MaxRooms
NoRoom == 0
Rounds == 1..Total

VARIABLES
  \* roomHub and the gameRoom objects, numbered in order of allocation
  hub, nrooms, total, active, subs,
  \* runGameLoop and RunRound, one loop per room object
  loop, round, seen, winner, final,
  \* StreamGameEvents, one handler per connection
  stream, ref, want,
  \* SubmitAnswer(-1) between getOrCreate and markForfeited
  forfeit, forfeitRef,
  \* Redis: questions list length, submitted:{round}, round:{n}:closed, and
  \* the players who have answered at all, whom the leaderboard may list
  left, submitted, closed, entrants,
  \* published round.completed and match.finished; MongoDB counters
  completed, finished, rated, saved,
  \* clients: rounds a player has been asked and not yet answered;
  \* per connection, the rounds and the MatchEnd put on its channel
  asked, got, gotEnd,
  \* how often the closed mark of a round has expired; budgets
  lapses, selections, crashes, expiries

hubVars    == <<hub, nrooms, total>>
roomVars   == <<active, subs>>
loopVars   == <<loop, round, seen, winner, final>>
streamVars == <<stream, ref, want>>
giveUpVars == <<forfeit, forfeitRef>>
redisVars  == <<left, submitted, closed, entrants>>
outVars    == <<completed, finished, rated, saved>>
clientVars == <<asked, got, gotEnd>>
budgetVars == <<lapses, selections, crashes, expiries>>
vars == <<hubVars, roomVars, loopVars, streamVars, giveUpVars, redisVars,
          outVars, clientVars, budgetVars>>

(* The places of runGameLoop.  "sole" and "soleAfter" lie between a call of *)
(* activeCount that returned 1 and the call of lastActiveUserID; "lost" is  *)
(* a loop killed by a restart of the process.                               *)
Finishing  == {"final", "rate", "save", "linger", "closing", "delete"}
InRound    == {"pop", "ask", "open", "tick", "close", "publish", "remaining"}
InMatch    == {"lobby", "check", "sole", "after", "afterOne", "soleAfter",
               "result"} \cup InRound
Running    == InMatch \cup Finishing
LoopPlaces == Running \cup {"none", "done", "lost"}

StreamPlaces == {"idle", "absent", "counted", "resolved", "joined",
                 "streaming", "rejected", "ended", "gone"}
InHandler    == {"absent", "counted", "resolved", "joined", "streaming"}

HubType    == /\ hub \in Rooms \cup {NoRoom} /\ nrooms \in 0..MaxRooms
              /\ total \in [Rooms -> 0..Total]
RoomType   == /\ active \in [Rooms -> SUBSET Players]
              /\ subs \in [Rooms -> SUBSET Conns]
LoopType   == /\ loop \in [Rooms -> LoopPlaces]
              /\ round \in [Rooms -> 1..(Total + 1)]
              /\ seen \in [Rooms -> Nat]
              /\ winner \in [Rooms -> Players \cup {NoPlayer}]
              /\ final \in [Rooms -> SUBSET Players]
StreamType == /\ stream \in [Conns -> StreamPlaces]
              /\ ref \in [Conns -> Rooms \cup {NoRoom}]
              /\ want \in [Conns -> 0..Total]
GiveUpType == /\ forfeit \in [Players -> {"no", "marking", "done"}]
              /\ forfeitRef \in [Players -> Rooms \cup {NoRoom}]
RedisType  == /\ left \in 0..Total
              /\ submitted \in [Rounds -> SUBSET Players]
              /\ closed \subseteq Rounds /\ entrants \subseteq Players
OutType    == /\ completed \in [Rounds -> Nat] /\ finished \in Nat
              /\ rated \in Nat /\ saved \in Nat
ClientType == /\ asked \in [Players -> SUBSET Rounds]
              /\ got \in [Conns -> SUBSET Rounds] /\ gotEnd \subseteq Conns
BudgetType == /\ lapses \in [Rounds -> Nat] /\ expiries \in 0..MaxExpiries
              /\ selections \in 0..MaxSelections /\ crashes \in 0..MaxCrashes

TypeOK == /\ HubType /\ RoomType /\ LoopType /\ StreamType /\ GiveUpType
          /\ RedisType /\ OutType /\ ClientType /\ BudgetType

Init ==
  /\ hub = NoRoom /\ nrooms = 0
  /\ total = [o \in Rooms |-> 0]
  /\ active = [o \in Rooms |-> {}] /\ subs = [o \in Rooms |-> {}]
  /\ loop = [o \in Rooms |-> "none"] /\ round = [o \in Rooms |-> 1]
  /\ seen = [o \in Rooms |-> 0]
  /\ winner = [o \in Rooms |-> NoPlayer] /\ final = [o \in Rooms |-> {}]
  /\ stream = [c \in Conns |-> "idle"] /\ ref = [c \in Conns |-> NoRoom]
  /\ want = [c \in Conns |-> 0]
  /\ forfeit = [p \in Players |-> "no"]
  /\ forfeitRef = [p \in Players |-> NoRoom]
  /\ left = 0 /\ submitted = [r \in Rounds |-> {}] /\ closed = {}
  /\ entrants = {}
  /\ completed = [r \in Rounds |-> 0] /\ finished = 0
  /\ rated = 0 /\ saved = 0
  /\ asked = [p \in Players |-> {}]
  /\ got = [c \in Conns |-> {}] /\ gotEnd = {}
  /\ lapses = [r \in Rounds |-> 0]
  /\ selections = 0 /\ crashes = 0 /\ expiries = 0

----------------------------------------------------------------------------
(* The hub and the room objects.                                           *)

\* Wrong: the look-up and the insertion are not one critical section, so a
\* second caller replaces the entry.
GetOrCreate_Unlocked(o, t) ==
  /\ o = nrooms + 1 /\ hub' = o /\ nrooms' = o
  /\ total' = [total EXCEPT ![o] = t]

\* getOrCreate: the entry of the roomID, or a fresh gameRoom of t rounds.
GetOrCreate(o, t) ==
  \/ /\ hub = o /\ UNCHANGED hubVars
  \/ /\ hub = NoRoom /\ o = nrooms + 1
     /\ hub' = o /\ nrooms' = o
     /\ total' = [total EXCEPT ![o] = t]

\* Wrong: players who forfeited are not sent events any more.
Audience_ActiveOnly(o) == {c \in subs[o] : Owner[c] \in active[o]}

\* broadcast: every channel of the room.  Each has room for all events of a
\* match, so that the critical ones are not dropped.
Audience(o) == subs[o]

\* activeCount
ActiveCount(o) == Cardinality(active[o])

\* lastActiveUserID: some key of the active map, "" when it is empty.
LastActive(o) == IF active[o] = {} THEN {NoPlayer} ELSE active[o]

----------------------------------------------------------------------------
(* StreamGameEvents.                                                       *)

\* The look-up under hub.mu.
StreamLookup(c) ==
  /\ stream[c] = "idle"
  /\ ref' = [ref EXCEPT ![c] = hub]
  /\ stream' = [stream EXCEPT ![c] = IF hub = NoRoom THEN "absent"
                                                     ELSE "resolved"]
  /\ UNCHANGED <<hubVars, roomVars, loopVars, want, giveUpVars, redisVars,
                 outVars, clientVars, budgetVars>>

\* LLEN of the questions list; an empty list (or an error, read as 0) is
\* FailedPrecondition.
StreamCount(c) ==
  /\ stream[c] = "absent"
  /\ \E n \in {left} \cup (IF Faults THEN {0} ELSE {}) :
       /\ want' = [want EXCEPT ![c] = n]
       /\ stream' = [stream EXCEPT ![c] = IF n = 0 THEN "rejected"
                                                   ELSE "counted"]
  /\ UNCHANGED <<hubVars, roomVars, loopVars, ref, giveUpVars, redisVars,
                 outVars, clientVars, budgetVars>>

StreamCreate(c) ==
  /\ stream[c] = "counted"
  /\ \E o \in Rooms :
       /\ GetOrCreate(o, want[c])
       /\ ref' = [ref EXCEPT ![c] = o]
  /\ want' = [want EXCEPT ![c] = 0]
  /\ stream' = [stream EXCEPT ![c] = "resolved"]
  /\ UNCHANGED <<roomVars, loopVars, giveUpVars, redisVars, outVars,
                 clientVars, budgetVars>>

\* addSub: the channel is appended and the player becomes active.
StreamSubscribe(c) ==
  /\ stream[c] = "resolved"
  /\ subs' = [subs EXCEPT ![ref[c]] = @ \cup {c}]
  /\ active' = [active EXCEPT ![ref[c]] = @ \cup {Owner[c]}]
  /\ stream' = [stream EXCEPT ![c] = "joined"]
  /\ UNCHANGED <<hubVars, loopVars, ref, want, giveUpVars, redisVars, outVars,
                 clientVars, budgetVars>>

\* startOnce.Do: the first subscriber of this room object starts its loop.
StreamStart(c) ==
  /\ stream[c] = "joined"
  /\ loop' = IF loop[ref[c]] = "none"
               THEN [loop EXCEPT ![ref[c]] = "lobby"] ELSE loop
  /\ stream' = [stream EXCEPT ![c] = "streaming"]
  /\ UNCHANGED <<hubVars, roomVars, round, seen, winner, final, ref, want,
                 giveUpVars, redisVars, outVars, clientVars, budgetVars>>

\* Wrong: a disconnect counts as a forfeit.
Disconnect_Forfeits(c) ==
  /\ stream[c] = "streaming"
  /\ Cardinality({d \in Conns : stream[d] = "gone"}) < MaxDrops
  /\ subs' = [subs EXCEPT ![ref[c]] = @ \ {c}]
  /\ active' = [active EXCEPT ![ref[c]] = @ \ {Owner[c]}]
  /\ stream' = [stream EXCEPT ![c] = "gone"]
  /\ UNCHANGED <<hubVars, loopVars, ref, want, giveUpVars, redisVars, outVars,
                 clientVars, budgetVars>>

\* ctx.Done: removeSub drops the channel and leaves active alone.
Disconnect(c) ==
  /\ stream[c] = "streaming"
  /\ Cardinality({d \in Conns : stream[d] = "gone"}) < MaxDrops
  /\ subs' = [subs EXCEPT ![ref[c]] = @ \ {c}]
  /\ stream' = [stream EXCEPT ![c] = "gone"]
  /\ UNCHANGED <<hubVars, active, loopVars, ref, want, giveUpVars, redisVars,
                 outVars, clientVars, budgetVars>>

----------------------------------------------------------------------------
(* SubmitAnswer.                                                           *)

\* An answer of round r: HSETNX submitted:{r}.  What is published is left to
\* AnswerScoring.  A client answers a question it was shown, once.
SubmitAnswer(p, r) ==
  /\ r \in asked[p]
  /\ \/ submitted' = [submitted EXCEPT ![r] = @ \cup {p}]
     \/ Faults /\ UNCHANGED submitted
  /\ entrants' = entrants \cup {p}
  /\ asked' = [asked EXCEPT ![p] = @ \ {r}]
  /\ UNCHANGED <<hubVars, roomVars, loopVars, streamVars, giveUpVars, left,
                 closed, outVars, got, gotEnd, budgetVars>>

\* answer_index = -1: getOrCreate(roomID, 0), which may allocate a room ...
Forfeit(p) ==
  /\ p \in Forfeiters /\ forfeit[p] = "no"
  /\ \E o \in Rooms :
       /\ GetOrCreate(o, 0)
       /\ forfeitRef' = [forfeitRef EXCEPT ![p] = o]
  /\ forfeit' = [forfeit EXCEPT ![p] = "marking"]
  /\ UNCHANGED <<roomVars, loopVars, streamVars, redisVars, outVars,
                 clientVars, budgetVars>>

\* ... then markForfeited on the room it returned.
MarkForfeited(p) ==
  /\ forfeit[p] = "marking"
  /\ active' = [active EXCEPT ![forfeitRef[p]] = @ \ {p}]
  /\ forfeit' = [forfeit EXCEPT ![p] = "done"]
  /\ UNCHANGED <<hubVars, subs, loopVars, streamVars, forfeitRef, redisVars,
                 outVars, clientVars, budgetVars>>

----------------------------------------------------------------------------
(* runGameLoop up to the rounds.                                           *)

Goto(o, place) == loop' = [loop EXCEPT ![o] = place]

\* A step of the loop of room o that touches nothing but its own variables.
LoopOnly == UNCHANGED <<hubVars, roomVars, streamVars, giveUpVars, redisVars,
                        outVars, clientVars, budgetVars>>

LobbyOver(o) ==
  /\ loop[o] = "lobby" /\ Goto(o, "check")
  /\ LoopOnly /\ UNCHANGED <<round, seen, winner, final>>

\* Head of the for statement and the check before each round.
CheckActive(o) ==
  /\ loop[o] = "check"
  /\ Goto(o, IF round[o] > total[o] \/ ActiveCount(o) = 0 THEN "final"
             ELSE IF ActiveCount(o) = 1 THEN "sole" ELSE "pop")
  /\ LoopOnly /\ UNCHANGED <<round, seen, winner, final>>

NameSole(o) ==
  /\ loop[o] = "sole" /\ Goto(o, "final")
  /\ \E p \in LastActive(o) : winner' = [winner EXCEPT ![o] = p]
  /\ LoopOnly /\ UNCHANGED <<round, seen, final>>

----------------------------------------------------------------------------
(* RunRound.                                                               *)

\* LPOP and the fetch of the question; an error ends the loop.
PopQuestion(o) ==
  /\ loop[o] = "pop"
  /\ \/ left > 0 /\ left' = left - 1 /\ Goto(o, "ask")
     \/ left > 0 /\ Faults /\ left' = left - 1 /\ Goto(o, "closing")
     \/ (left = 0 \/ Faults) /\ UNCHANGED left /\ Goto(o, "closing")
  /\ UNCHANGED <<hubVars, roomVars, round, seen, winner, final, streamVars,
                 giveUpVars, submitted, closed, entrants, outVars, clientVars,
                 budgetVars>>

\* The question is put on every subscriber's channel.
AskQuestion(o) ==
  /\ loop[o] = "ask" /\ Goto(o, "open")
  /\ got' = [c \in Conns |->
               IF c \in Audience(o) THEN got[c] \cup {round[o]} ELSE got[c]]
  /\ asked' = [p \in Players |->
                 IF \E c \in Audience(o) : Owner[c] = p
                   THEN asked[p] \cup {round[o]} ELSE asked[p]]
  /\ UNCHANGED <<hubVars, roomVars, round, seen, winner, final, streamVars,
                 giveUpVars, redisVars, outVars, gotEnd, budgetVars>>

\* A tick reads activeCount first ...
TickCount(o) ==
  /\ loop[o] = "open"
  /\ seen' = [seen EXCEPT ![o] = ActiveCount(o)]
  /\ Goto(o, IF ActiveCount(o) = 0 THEN "close" ELSE "tick")
  /\ LoopOnly /\ UNCHANGED <<round, winner, final>>

\* ... and then HLEN submitted and HLEN answers, the larger of which counts.
\* answers, which scoring-service writes later for the same players, is ahead
\* of submitted only when SubmitAnswer's HSETNX or this HLEN failed.
TickCompare(o) ==
  /\ loop[o] = "tick"
  /\ \/ Goto(o, IF Cardinality(submitted[round[o]]) >= seen[o] THEN "close"
                                                               ELSE "open")
     \/ Faults /\ \E place \in {"open", "close"} : Goto(o, place)
  /\ seen' = [seen EXCEPT ![o] = 0]
  /\ LoopOnly /\ UNCHANGED <<round, winner, final>>

\* Wrong: the timer is not armed; only an abandoned round ends by itself.
TimerExpires_NotArmed(o) ==
  /\ loop[o] = "open" /\ ActiveCount(o) = 0 /\ Goto(o, "close")
  /\ LoopOnly /\ UNCHANGED <<round, seen, winner, final>>

\* The 30 s timer.
TimerExpires(o) ==
  /\ loop[o] = "open" /\ Goto(o, "close")
  /\ LoopOnly /\ UNCHANGED <<round, seen, winner, final>>

\* Wrong: SET instead of SETNX.
CloseRound_NoGuard(o) ==
  /\ loop[o] = "close" /\ Goto(o, "publish")
  /\ closed' = closed \cup {round[o]}
  /\ UNCHANGED <<hubVars, roomVars, round, seen, winner, final, streamVars,
                 giveUpVars, left, submitted, entrants, outVars, clientVars,
                 budgetVars>>

\* SETNX round:{n}:closed, for 30 minutes; a round already closed is not
\* completed again, nor one whose SETNX failed, with or without effect.
CloseRound(o) ==
  /\ loop[o] = "close"
  /\ \/ /\ Goto(o, IF round[o] \in closed THEN "after" ELSE "publish")
        /\ closed' = closed \cup {round[o]}
     \/ /\ Faults /\ Goto(o, "after")
        /\ closed' \in {closed, closed \cup {round[o]}}
  /\ UNCHANGED <<hubVars, roomVars, round, seen, winner, final, streamVars,
                 giveUpVars, left, submitted, entrants, outVars, clientVars,
                 budgetVars>>

PublishCompleted(o) ==
  /\ loop[o] = "publish" /\ Goto(o, "remaining")
  /\ \/ completed' = [completed EXCEPT ![round[o]] = @ + 1]
     \/ Faults /\ UNCHANGED completed
  /\ UNCHANGED <<hubVars, roomVars, round, seen, winner, final, streamVars,
                 giveUpVars, redisVars, finished, rated, saved,
                 clientVars, budgetVars>>

\* Wrong: the list is read before the last question is popped.
CheckRemaining_OffByOne(o) ==
  /\ loop[o] = "remaining" /\ Goto(o, "after")
  /\ \/ left <= 1 /\ finished' = finished + 1
     \/ left > 1 /\ UNCHANGED finished
  /\ UNCHANGED <<hubVars, roomVars, round, seen, winner, final, streamVars,
                 giveUpVars, redisVars, completed, rated, saved,
                 clientVars, budgetVars>>

\* LLEN of the questions list; match.finished when none remain, or when the
\* error of a failed LLEN is read as 0.
CheckRemaining(o) ==
  /\ loop[o] = "remaining" /\ Goto(o, "after")
  /\ \/ (left = 0 \/ Faults) /\ finished' = finished + 1
     \/ (left > 0 \/ Faults) /\ UNCHANGED finished
  /\ UNCHANGED <<hubVars, roomVars, round, seen, winner, final, streamVars,
                 giveUpVars, redisVars, completed, rated, saved,
                 clientVars, budgetVars>>

----------------------------------------------------------------------------
(* runGameLoop after a round.                                              *)

AfterRound(o) ==
  /\ loop[o] = "after"
  /\ Goto(o, IF ActiveCount(o) = 0 THEN "final" ELSE "afterOne")
  /\ LoopOnly /\ UNCHANGED <<round, seen, winner, final>>

AfterRoundOne(o) ==
  /\ loop[o] = "afterOne"
  /\ Goto(o, IF ActiveCount(o) = 1 THEN "soleAfter" ELSE "result")
  /\ LoopOnly /\ UNCHANGED <<round, seen, winner, final>>

NameSoleAfter(o) ==
  /\ loop[o] = "soleAfter" /\ Goto(o, "result")
  /\ \E p \in LastActive(o) : winner' = [winner EXCEPT ![o] = p]
  /\ LoopOnly /\ UNCHANGED <<round, seen, final>>

\* RoundResult and Leaderboard go out; an auto-winner ends the match.
RoundResult(o) ==
  /\ loop[o] = "result"
  /\ IF winner[o] # NoPlayer
       THEN Goto(o, "final") /\ UNCHANGED round
       ELSE Goto(o, "check") /\ round' = [round EXCEPT ![o] = @ + 1]
  /\ LoopOnly /\ UNCHANGED <<seen, winner, final>>

\* buildMatchEndEvent and the broadcast of MatchEnd.  The leaderboard holds
\* those submitters scoring-service has got to by now, and everybody when it
\* is empty; its first entry wins unless there is an auto-winner.
MatchEnd(o) ==
  /\ loop[o] = "final"
  /\ \/ /\ Goto(o, "rate")
        /\ \E board \in SUBSET entrants :
             final' = [final EXCEPT ![o] = IF board = {} THEN Players
                                                         ELSE board]
        /\ \/ winner[o] # NoPlayer /\ UNCHANGED winner
           \/ /\ winner[o] = NoPlayer
              /\ \E p \in final'[o] : winner' = [winner EXCEPT ![o] = p]
        /\ gotEnd' = gotEnd \cup Audience(o)
     \/ Faults /\ Goto(o, "closing") /\ UNCHANGED <<final, winner, gotEnd>>
  /\ UNCHANGED <<hubVars, roomVars, round, seen, streamVars, giveUpVars,
                 redisVars, outVars, asked, got, budgetVars>>

\* updatePlayerRatings: every final score's $inc of matches_played and rating,
\* and of matches_won if it is the winner's; counted here, not per player.
UpdateRatings(o) ==
  /\ loop[o] = "rate" /\ Goto(o, "save")
  /\ rated' = rated + 1
  /\ final' = [final EXCEPT ![o] = {}]
  /\ UNCHANGED <<hubVars, roomVars, round, seen, winner, streamVars,
                 giveUpVars, redisVars, completed, finished, saved,
                 clientVars, budgetVars>>

\* saveMatchHistory (trimMatchHistory concerns other matches).
SaveHistory(o) ==
  /\ loop[o] = "save" /\ Goto(o, "linger")
  /\ \/ saved' = saved + 1
     \/ Faults /\ UNCHANGED saved
  /\ UNCHANGED <<hubVars, roomVars, round, seen, winner, final, streamVars,
                 giveUpVars, redisVars, completed, finished, rated,
                 clientVars, budgetVars>>

\* Wrong: hub.delete runs before closeAll.
CloseAll_DeletesFirst(o) ==
  /\ loop[o] \in {"linger", "closing"} /\ Goto(o, "delete")
  /\ hub' = NoRoom
  /\ stream' = [c \in Conns |-> IF c \in subs[o] THEN "ended" ELSE stream[c]]
  /\ subs' = [subs EXCEPT ![o] = {}]
  /\ UNCHANGED <<nrooms, total, active, round, seen, winner, final, ref, want,
                 giveUpVars, redisVars, outVars, clientVars, budgetVars>>

\* The deferred closeAll, after the last 3 s or an error: the handlers reading
\* the closed channels drain them and return (one that has yet to reach its
\* select does so there; its startOnce has nothing left to do).
CloseAll(o) ==
  /\ loop[o] \in {"linger", "closing"} /\ Goto(o, "delete")
  /\ stream' = [c \in Conns |-> IF c \in subs[o] THEN "ended" ELSE stream[c]]
  /\ got' = [c \in Conns |-> IF c \in subs[o] THEN {} ELSE got[c]]
  /\ subs' = [subs EXCEPT ![o] = {}]
  /\ UNCHANGED <<hubVars, active, round, seen, winner, final, ref, want,
                 giveUpVars, redisVars, outVars, asked, gotEnd, budgetVars>>

\* The deferred hub.delete(roomID): whatever the entry points to.  The loop's
\* local variables are gone with it.
HubDelete(o) ==
  /\ loop[o] = "delete" /\ Goto(o, "done")
  /\ hub' = NoRoom
  /\ round' = [round EXCEPT ![o] = 1]
  /\ winner' = [winner EXCEPT ![o] = NoPlayer]
  /\ UNCHANGED <<nrooms, total, roomVars, seen, final, streamVars, giveUpVars,
                 redisVars, outVars, clientVars, budgetVars>>

----------------------------------------------------------------------------
(* The environment.                                                        *)

\* A delivery of match.created: SelectForRoom rewrites the questions list.
SelectQuestions ==
  /\ selections < MaxSelections
  /\ selections' = selections + 1 /\ left' = Total
  /\ UNCHANGED <<hubVars, roomVars, loopVars, streamVars, giveUpVars,
                 submitted, closed, entrants, outVars, clientVars, lapses,
                 crashes, expiries>>

\* quiz-service restarts: the hub, loops and streams are lost, Redis is not.
Crash ==
  /\ crashes < MaxCrashes /\ crashes' = crashes + 1
  /\ hub' = NoRoom
  /\ active' = [o \in Rooms |-> {}] /\ subs' = [o \in Rooms |-> {}]
  /\ loop' = [o \in Rooms |-> IF o <= nrooms THEN "lost" ELSE "none"]
  /\ stream' = [c \in Conns |-> IF stream[c] \in InHandler THEN "gone"
                                                           ELSE stream[c]]
  /\ forfeit' = [p \in Players |-> IF forfeit[p] = "marking" THEN "done"
                                                             ELSE forfeit[p]]
  /\ round' = [o \in Rooms |-> 1] /\ seen' = [o \in Rooms |-> 0]
  /\ winner' = [o \in Rooms |-> NoPlayer] /\ final' = [o \in Rooms |-> {}]
  /\ ref' = [c \in Conns |-> NoRoom] /\ want' = [c \in Conns |-> 0]
  /\ got' = [c \in Conns |-> {}]
  /\ UNCHANGED <<nrooms, total, forfeitRef, redisVars, outVars, asked, gotEnd,
                 lapses, selections, expiries>>

\* The 30 minutes of a key are over, whoever may still count on it: the mark
\* of a closed round ...
ExpireMark(r) ==
  /\ "closed" \in Perishable /\ r \in closed /\ closed' = closed \ {r}
  /\ lapses' = [lapses EXCEPT ![r] = @ + 1]
  /\ expiries < MaxExpiries /\ expiries' = expiries + 1
  /\ UNCHANGED <<hubVars, roomVars, loopVars, streamVars, giveUpVars, left,
                 submitted, entrants, outVars, clientVars, selections, crashes>>

\* ... what the list of questions still holds ...
ExpireList ==
  /\ "questions" \in Perishable /\ left > 0 /\ left' = 0
  /\ expiries < MaxExpiries /\ expiries' = expiries + 1
  /\ UNCHANGED <<hubVars, roomVars, loopVars, streamVars, giveUpVars, submitted,
                 closed, entrants, outVars, clientVars, lapses, selections,
                 crashes>>

\* ... or the submissions of a round (of the two hashes that TickCompare
\* reads, the one that is dropped last).
ExpireSubmitted(r) ==
  /\ "submitted" \in Perishable
  /\ submitted[r] # {} /\ submitted' = [submitted EXCEPT ![r] = {}]
  /\ expiries < MaxExpiries /\ expiries' = expiries + 1
  /\ UNCHANGED <<hubVars, roomVars, loopVars, streamVars, giveUpVars, left,
                 closed, entrants, outVars, clientVars, lapses, selections,
                 crashes>>

Expire ==
  \/ ExpireList
  \/ \E r \in Rounds : ExpireMark(r) \/ ExpireSubmitted(r)

----------------------------------------------------------------------------
LoopStep(o) ==
  \/ LobbyOver(o) \/ CheckActive(o) \/ NameSole(o)
  \/ PopQuestion(o) \/ AskQuestion(o)
  \/ TickCount(o) \/ TickCompare(o) \/ TimerExpires(o)
  \/ CloseRound(o) \/ PublishCompleted(o) \/ CheckRemaining(o)
  \/ AfterRound(o) \/ AfterRoundOne(o) \/ NameSoleAfter(o) \/ RoundResult(o)
  \/ MatchEnd(o) \/ UpdateRatings(o) \/ SaveHistory(o)
  \/ CloseAll(o) \/ HubDelete(o)

StreamStep(c) ==
  \/ StreamLookup(c) \/ StreamCount(c) \/ StreamCreate(c)
  \/ StreamSubscribe(c) \/ StreamStart(c) \/ Disconnect(c)

PlayerStep(p) ==
  \/ \E r \in Rounds : SubmitAnswer(p, r)
  \/ Forfeit(p) \/ MarkForfeited(p)

Next ==
  \/ \E o \in Rooms : LoopStep(o)
  \/ \E c \in Conns : StreamStep(c)
  \/ \E p \in Players : PlayerStep(p)
  \/ SelectQuestions
  \/ Crash
  \/ Expire

Spec == Init /\ [][Next]_vars

\* A goroutine that can run does; a timer channel that stays ready is picked
\* by select sooner or later.  Clients owe nothing.
FairSpec ==
  /\ Spec
  /\ \A o \in Rooms : WF_vars(LoopStep(o)) /\ SF_vars(TimerExpires(o))

----------------------------------------------------------------------------
(* What holds.                                                             *)

\* A game loop that runs is the loop of the room in the hub, so that its
\* deferred hub.delete(roomID) removes its own room and never a successor,
\* whatever streams, forfeits and restarts do (quiz_handler.go:172, 442).
LoopOwnsHub == \A o \in Rooms : loop[o] \in Running => hub = o

\* At no moment do two game loops of a roomID run, although each room object
\* has a sync.Once of its own (quiz_handler.go:31-32, 410).
OneLoopAtATime ==
  \A o1, o2 \in Rooms :
    loop[o1] \in Running /\ loop[o2] \in Running => o1 = o2

Phase(place) == CASE place \in InMatch \cup {"final", "rate"} -> "playing"
                  [] place = "save" -> "rated"
                  [] OTHER -> "over"

Contract == INSTANCE RoomContract WITH
  Loops     <- Rooms,
  Reliable  <- ~Faults,
  run       <- [o \in {q \in Rooms : loop[q] \in Running} |-> Phase(loop[o])],
  published <- completed,
  stored    <- selections

\* Whatever streams, forfeits and restarts do, the loops of the roomID keep to
\* the contract: one at a time; each round completed once, and once more only
\* for each time that its mark expired; the rounds in order across restarts
\* while nothing fails and no mark expires; no result after the ratings, which
\* each loop updates once and before the history (quiz_handler.go:445-565,
\* quiz.go:187-228).
ContractSpec == Contract!Spec

\* round.completed is published at most once for a round of the roomID, by
\* all loops of all incarnations of the service together, and again only after
\* the 30 minutes of its mark are over: a loop that is between SETNX and the
\* publish when they are does not count twice (quiz.go:187-217).
RoundCompletedOnce == \A r \in Rounds : completed[r] <= 1 + lapses[r]

\* As long as LLEN does not fail, match.finished is published at most once
\* for each time questions were stored (quiz.go:219-228).
FinishedOncePerSelection == ~Faults => finished <= selections

\* The players to whom the loop of room o put its present round, connected or
\* not, and who have not pressed the forfeit button.
Waiting(o) ==
  {p \in Players :
     /\ forfeit[p] = "no"
     /\ \E c \in Conns : Owner[c] = p /\ ref[c] = o /\ round[o] \in got[c]}

\* A tick that ends a round early leaves no more of them without a submission
\* than there are submissions of others: of players who have forfeited, and,
\* in a second loop, of players it has not asked, for submitted:{n} outlives
\* the first.  Without such others it waits for everybody (quiz.go:160-183).
\* The property is about ticks whose HLEN does not fail.
EarlyExitWaitsForAsked ==
  [][\A o \in Rooms :
       ~Faults /\ loop[o] = "tick" /\ loop'[o] = "close" =>
         Cardinality(Waiting(o) \ submitted[round[o]])
           <= Cardinality(submitted[round[o]] \ Waiting(o))]_vars

\* Once started, a loop runs to its end and the hub entry is removed: no
\* state of streams, forfeits or Redis keeps it in a round for ever.
LoopTerminates ==
  \A o \in Rooms : loop[o] = "lobby" ~> loop[o] \in {"done", "lost"}

\* A player streaming while the match is in progress gets MatchEnd, unless
\* he disconnects first or a failed RunRound or an unreadable leaderboard
\* ends the loop without one (quiz_handler.go:480-483, 533-538).
MatchEndReachesPlayers ==
  \A c \in Conns, o \in Rooms :
    (c \in subs[o] /\ loop[o] \in InMatch)
      ~> (c \in gotEnd \/ stream[c] = "gone" \/ loop[o] = "closing")

----------------------------------------------------------------------------
(* What the documents and comments say, and the code does not do.          *)

\* "Called exactly once per room via sync.Once" (quiz_handler.go:438).
LoopStartedOnce == Cardinality({o \in Rooms : loop[o] # "none"}) <= 1

\* "early-exit when all CONNECTED players answered" (quiz.go:130).
EarlyExitMeansAllAnswered ==
  [][\A o \in Rooms :
       loop[o] = "tick" /\ loop'[o] = "close" =>
         \A c \in subs[o] : Owner[c] \in active[o] =>
           Owner[c] \in submitted[round[o]]]_vars
=============================================================================
