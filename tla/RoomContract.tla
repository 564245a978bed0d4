---------------------------- MODULE RoomContract ----------------------------
(***************************************************************************)
(* What the game loops of a roomID promise to the consumers of             *)
(* round.completed and match.finished and to the players' records, however *)
(* often a loop is started and whatever ends it: one loop runs at a time;  *)
(* a round is completed once by all loops together, and again only after   *)
(* the mark that it is has expired; each loop publishes while its match is *)
(* played, then rates it, then saves it, or gives up.                      *)
(***************************************************************************)
EXTENDS Naturals

CONSTANTS
  Loops,     \* game loops
  Rounds,    \* numbers of rounds
  Reliable   \* TRUE: no command of a loop fails

VARIABLES
  run,        \* the phase of each loop that runs
  published,  \* times round.completed was published for each round
  lapses,     \* times the mark of each round expired
  stored,     \* times questions were stored for the room
  finished,   \* times match.finished was published
  rated, saved  \* matches counted in the ratings and kept in the history

resultVars   == <<published, finished, rated, saved>>
contractVars == <<run, stored, lapses, resultVars>>

Init ==
  /\ DOMAIN run = {}
  /\ published = [r \in Rounds |-> 0] /\ lapses = [r \in Rounds |-> 0]
  /\ stored = 0 /\ finished = 0 /\ rated = 0 /\ saved = 0

Playing(o) == o \in DOMAIN run /\ run[o] = "playing"

Begin(o) ==
  /\ DOMAIN run = {} /\ run' = [q \in {o} |-> "playing"]
  /\ UNCHANGED <<stored, lapses, resultVars>>

\* Across restarts the rounds come in order, as long as nothing fails and no
\* mark has expired.
Publish(o, r) ==
  /\ Playing(o) /\ published[r] <= lapses[r]
  /\ Reliable /\ (\A q \in Rounds : lapses[q] = 0) =>
       \A q \in Rounds : published[q] > 0 => q < r
  /\ published' = [published EXCEPT ![r] = @ + 1]
  /\ UNCHANGED <<run, stored, lapses, finished, rated, saved>>

Finish(o) ==
  /\ Playing(o) /\ (Reliable => finished < stored)
  /\ finished' = finished + 1
  /\ UNCHANGED <<run, stored, lapses, published, rated, saved>>

Rate(o) ==
  /\ Playing(o) /\ run' = [run EXCEPT ![o] = "rated"]
  /\ rated' = rated + 1
  /\ UNCHANGED <<stored, lapses, published, finished, saved>>

Save(o) ==
  /\ o \in DOMAIN run /\ run[o] = "rated" /\ run' = [run EXCEPT ![o] = "over"]
  /\ saved' = saved + 1 \/ (~Reliable /\ saved' = saved)
  /\ UNCHANGED <<stored, lapses, published, finished, rated>>

\* A round or a leaderboard cannot be had.
GiveUp(o) ==
  /\ Playing(o) /\ run' = [run EXCEPT ![o] = "over"]
  /\ UNCHANGED <<stored, lapses, resultVars>>

\* The loop ends, or the process does.
Cease ==
  /\ DOMAIN run # {} /\ DOMAIN run' = {}
  /\ UNCHANGED <<stored, lapses, resultVars>>

Store ==
  /\ stored' = stored + 1
  /\ UNCHANGED <<run, lapses, resultVars>>

\* The 30 minutes for which a round is marked as completed are over.
Lapse(r) ==
  /\ lapses' = [lapses EXCEPT ![r] = @ + 1]
  /\ UNCHANGED <<run, stored, resultVars>>

Next ==
  \/ \E o \in Loops :
       \/ Begin(o) \/ Finish(o) \/ Rate(o) \/ Save(o) \/ GiveUp(o)
       \/ \E r \in Rounds : Publish(o, r)
  \/ Cease \/ Store
  \/ \E r \in Rounds : Lapse(r)

Spec == Init /\ [][Next]_contractVars

\* One loop runs at a time, and no match is in the history that is not in the
\* ratings: a loop that is lost in between leaves the history behind, and no
\* later loop makes up for it (quiz_handler.go:531-551).
RecordsInOrder ==
  /\ \A o, q \in DOMAIN run : o = q
  /\ saved <= rated
  /\ \A o \in DOMAIN run : run[o] = "rated" => saved < rated
=============================================================================
