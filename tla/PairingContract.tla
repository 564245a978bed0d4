--------------------------- MODULE PairingContract ---------------------------
(***************************************************************************)
(* What matchmaking promises to players and to quiz-service, whatever      *)
(* becomes of its lock, its attempts and its streams: a room has the right *)
(* number of players and keeps them; nobody is in more rooms than he has   *)
(* asked for; only rooms that are stored are announced; and whoever is     *)
(* told of a room is in it, is told once, and after match.created.         *)
(***************************************************************************)
EXTENDS Naturals, FiniteSets

CONSTANTS
  Calls, Caller,       \* calls of JoinMatchmaking and the player of each
  RoomIDs,
  Streams, Listener,   \* streams of SubscribeToMatch and the player of each
  NoRoom,
  Least, Most,         \* the number of players of a room
  Reliable             \* TRUE: no command fails

VARIABLES
  asked,      \* the calls that were made
  room,       \* the players of each room that is stored
  announced,  \* the rooms for which match.created was published
  told        \* the room each stream has been told of

pairingVars == <<asked, room, announced, told>>

Init ==
  /\ asked = {} /\ DOMAIN room = {} /\ announced = {}
  /\ told = [s \in Streams |-> NoRoom]

CallsOf(p) == {c \in asked : Caller[c] = p}
RoomsOf(p) == {r \in DOMAIN room : p \in room[r]}

Ask(c) ==
  /\ asked' = asked \cup {c}
  /\ UNCHANGED <<room, announced, told>>

\* Every player of a room gives a call of his for it.  Nobody knows of a room
\* that was stored while the reply was lost.
Form(r, S) ==
  /\ r \notin DOMAIN room
  /\ \/ /\ Cardinality(S) \in Least..Most
        /\ \A p \in S : Cardinality(RoomsOf(p)) < Cardinality(CallsOf(p))
     \/ ~Reliable /\ S = {}
  /\ room' = [q \in DOMAIN room \cup {r} |-> IF q = r THEN S ELSE room[q]]
  /\ UNCHANGED <<asked, announced, told>>

Announce(r) ==
  /\ r \in DOMAIN room /\ room[r] # {}
  /\ announced' = announced \cup {r}
  /\ UNCHANGED <<asked, room, told>>

Tell(s, r) ==
  /\ told[s] = NoRoom /\ told' = [told EXCEPT ![s] = r]
  /\ r \in DOMAIN room /\ Listener[s] \in room[r]
  /\ Reliable => r \in announced
  /\ UNCHANGED <<asked, room, announced>>

Next ==
  \/ \E c \in Calls : Ask(c)
  \/ \E r \in RoomIDs : \/ \E S \in SUBSET {Caller[c] : c \in asked} : Form(r, S)
                        \/ Announce(r)
                        \/ \E s \in Streams : Tell(s, r)

Spec == Init /\ [][Next]_pairingVars
=============================================================================
