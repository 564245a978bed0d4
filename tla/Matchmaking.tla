----------------------------- MODULE Matchmaking -----------------------------
(***************************************************************************)
(* Matchmaking: the pool and the player hashes in Redis, the lock of       *)
(* tryCreateRoom, the channels of SubscribeToMatch, and the handlers and   *)
(* goroutines of matchmaking-service that share them.                      *)
(*                                                                         *)
(* One Redis command, one publish, one critical section of h.mu or one     *)
(* channel operation is one step.  Ratings are abstract: ZPOPMIN takes any *)
(* players of the pool.  The attempt that a JoinMatchmaking call schedules *)
(* is named by the call, and so is the room it may create.                 *)
(***************************************************************************)
EXTENDS Naturals, Sequences, FiniteSets

CONSTANTS
  Players,      \* userIDs
  Joins,        \* JoinMatchmaking calls that may be made
  JoinOwner,    \* the player making each
  Subs,         \* SubscribeToMatch calls that may be made
  SubOwner,     \* the player making each
  Leavers,      \* the players that may call LeaveMatchmaking
  NoJoin, NoSub,
  Update,       \* a WaitingUpdate event
  MinPlayers,   \* minPlayersToStart
  RoomSize,     \* maxPlayersPerRoom
  Cap,          \* capacity of a subscription's channel
  MaxExpiries,  \* bound: locks that outlive their TTL
  MaxRestarts,  \* bound: restarts of matchmaking-service
  Faults        \* TRUE: calls to Redis and RabbitMQ may fail

ASSUME MatchmakingAssumption ==
  /\ IsFiniteSet(Joins)
  /\ JoinOwner \in [Joins -> Players] /\ SubOwner \in [Subs -> Players]
  /\ Leavers \subseteq Players
  /\ NoJoin \notin Joins /\ NoSub \notin Subs /\ Update \notin Joins
  /\ MinPlayers \in Nat \ {0} /\ RoomSize \in Nat /\ Cap \in Nat
  /\ MaxExpiries \in Nat /\ MaxRestarts \in Nat /\ Faults \in BOOLEAN

VARIABLES
  \* Redis: matchmaking:pool, the player:{id} hashes, the lock's owner token,
  \* and the rooms that CreateRoom stored
  pool, details, lock, rooms,
  \* the published match.created events
  announced,
  \* JoinMatchmaking: how far each call is
  join,
  \* tryCreateRoom: how far each attempt is, the players it has yet to look
  \* up and those it has found; the lock's owner when the call joined the pool
  attempt, popped, roster, before,
  \* SubscribeToMatch: each stream, its channel, the room it was told of; and
  \* playerChans
  stream, box, told, chans,
  \* LeaveMatchmaking
  leave,
  \* the attempts whose lock ran out, and the budgets
  expired, restarts

redisVars   == <<pool, details, lock, rooms>>
attemptVars == <<attempt, popped, roster>>
streamVars  == <<stream, box, told, chans>>
boundVars   == <<expired, restarts>>
vars == <<redisVars, announced, join, attemptVars, before, streamVars, leave,
          boundVars>>

Holding  == {"pop", "readd", "lookup", "publish", "deliver", "release"}
Attempts == {"none", "asleep", "done", "lost"} \cup Holding

TypeOK ==
  /\ pool \subseteq Players /\ details \subseteq Players
  /\ lock \in Joins \cup {NoJoin}
  /\ rooms \subseteq Joins /\ announced \subseteq Joins
  /\ join \in [Joins -> {"idle", "added", "detailed", "done", "failed"}]
  /\ attempt \in [Joins -> Attempts]
  /\ popped \in [Joins -> SUBSET Players]
  /\ roster \in [Joins -> SUBSET Players]
  /\ before \in [Joins -> Joins \cup {NoJoin}]
  /\ stream \in [Subs -> {"idle", "open", "ending", "closed"}]
  /\ box \in [Subs -> Seq(Joins \cup {Update})]
  /\ \A s \in Subs : Len(box[s]) <= Cap
  /\ told \in [Subs -> Joins \cup {NoJoin}]
  /\ chans \in [Players -> Subs \cup {NoSub}]
  /\ leave \in [Players -> {"no", "removed", "forgotten", "left"}]
  /\ expired \subseteq Joins /\ restarts \in 0..MaxRestarts

Init ==
  /\ pool = {} /\ details = {} /\ lock = NoJoin /\ rooms = {}
  /\ announced = {}
  /\ join = [j \in Joins |-> "idle"]
  /\ attempt = [j \in Joins |-> "none"]
  /\ popped = [j \in Joins |-> {}] /\ roster = [j \in Joins |-> {}]
  /\ before = [j \in Joins |-> NoJoin]
  /\ stream = [s \in Subs |-> "idle"] /\ box = [s \in Subs |-> <<>>]
  /\ told = [s \in Subs |-> NoJoin] /\ chans = [p \in Players |-> NoSub]
  /\ leave = [p \in Players |-> "no"]
  /\ expired = {} /\ restarts = 0

----------------------------------------------------------------------------
(* JoinMatchmaking, past the quota check.                                  *)

\* ZADD.  An error may mean that the command did not run, or that its reply
\* was lost.
JoinAdd(j) ==
  /\ join[j] = "idle"
  /\ \/ /\ pool' = pool \cup {JoinOwner[j]}
        /\ join' = [join EXCEPT ![j] = "added"]
     \/ /\ Faults /\ pool' \in {pool, pool \cup {JoinOwner[j]}}
        /\ join' = [join EXCEPT ![j] = "failed"]
  /\ before' = [before EXCEPT ![j] = lock]
  /\ UNCHANGED <<details, lock, rooms, announced, attemptVars, streamVars,
                 leave, boundVars>>

\* HSET and EXPIRE of player:{id}
JoinDetails(j) ==
  /\ join[j] = "added"
  /\ \/ /\ details' = details \cup {JoinOwner[j]}
        /\ join' = [join EXCEPT ![j] = "detailed"]
     \/ /\ Faults /\ details' \in {details, details \cup {JoinOwner[j]}}
        /\ join' = [join EXCEPT ![j] = "failed"]
  /\ UNCHANGED <<pool, lock, rooms, announced, attemptVars, before,
                 streamVars, leave, boundVars>>

\* Wrong: only the first player of a pool schedules an attempt.
JoinSchedule_FirstOnly(j) ==
  /\ join[j] = "detailed" /\ join' = [join EXCEPT ![j] = "done"]
  /\ attempt' = IF Cardinality(pool) = 1
                  THEN [attempt EXCEPT ![j] = "asleep"] ELSE attempt
  /\ UNCHANGED <<redisVars, announced, popped, roster, before, streamVars,
                 leave, boundVars>>

\* ZCARD; the first player of the pool, and every one that finds enough for a
\* match there, schedules an attempt after lobbyWait.
JoinSchedule(j) ==
  /\ join[j] = "detailed"
  /\ \/ /\ join' = [join EXCEPT ![j] = "done"]
        /\ attempt' = IF Cardinality(pool) = 1 \/ Cardinality(pool) >= MinPlayers
                        THEN [attempt EXCEPT ![j] = "asleep"] ELSE attempt
     \/ /\ Faults /\ join' = [join EXCEPT ![j] = "failed"]
        /\ UNCHANGED attempt
  /\ UNCHANGED <<redisVars, announced, popped, roster, before, streamVars,
                 leave, boundVars>>

----------------------------------------------------------------------------
(* tryCreateRoom.                                                          *)

Goto(j, place) == attempt' = [attempt EXCEPT ![j] = place]

\* Wrong: lobbyWait is shorter than the lock's TTL.
TryLock_Early(j) ==
  /\ attempt[j] = "asleep"
  /\ \/ lock = NoJoin /\ lock' = j /\ Goto(j, "pop")
     \/ lock # NoJoin /\ UNCHANGED lock /\ Goto(j, "done")
  /\ UNCHANGED <<pool, details, rooms, announced, join, popped, roster,
                 before, streamVars, leave, boundVars>>

\* SET NX EX of the lock, lobbyWait after the join.  lobbyWait is as long as
\* the lock's TTL: a lock held when the player joined is gone by now.  A lock
\* that was set but whose reply was lost stays until it expires.
TryLock(j) ==
  /\ attempt[j] = "asleep" /\ (before[j] = NoJoin \/ lock # before[j])
  /\ \/ lock = NoJoin /\ lock' = j /\ Goto(j, "pop")
     \/ lock # NoJoin /\ UNCHANGED lock /\ Goto(j, "done")
     \/ /\ Faults /\ Goto(j, "done")
        /\ UNCHANGED lock \/ (lock = NoJoin /\ lock' = j)
  /\ UNCHANGED <<pool, details, rooms, announced, join, popped, roster,
                 before, streamVars, leave, boundVars>>

\* What ZPOPMIN may take: as many players as a room holds, or all there are.
Poppable == {S \in SUBSET pool : \/ Cardinality(S) = RoomSize
                                 \/ S = pool /\ Cardinality(S) < RoomSize}

\* Wrong: ZRANGE instead of ZPOPMIN.
TryPop_Range(j) ==
  /\ attempt[j] = "pop"
  /\ \E S \in Poppable :
       /\ popped' = [popped EXCEPT ![j] = S]
       /\ Goto(j, IF Cardinality(S) < MinPlayers THEN "readd" ELSE "lookup")
  /\ UNCHANGED <<redisVars, announced, join, roster, before, streamVars,
                 leave, boundVars>>

\* ZPOPMIN.  After a lost reply the players it took are gone.
TryPop(j) ==
  /\ attempt[j] = "pop"
  /\ \/ \E S \in Poppable :
          /\ pool' = pool \ S /\ popped' = [popped EXCEPT ![j] = S]
          /\ Goto(j, IF Cardinality(S) < MinPlayers THEN "readd" ELSE "lookup")
     \/ /\ Faults /\ \E S \in Poppable : pool' \in {pool, pool \ S}
        /\ UNCHANGED popped /\ Goto(j, "release")
  /\ UNCHANGED <<details, lock, rooms, announced, join, roster, before,
                 streamVars, leave, boundVars>>

\* Too few to start: they are added to the pool again, but for those whose
\* ZADD fails.
TryReadd(j) ==
  /\ attempt[j] = "readd" /\ Goto(j, "release")
  /\ \E S \in SUBSET popped[j] : /\ S = popped[j] \/ Faults
                                 /\ pool' = pool \cup S
  /\ popped' = [popped EXCEPT ![j] = {}]
  /\ UNCHANGED <<details, lock, rooms, announced, join, roster, before,
                 streamVars, leave, boundVars>>

\* HMGET of player:{id}; a player without details is left out.
TryLookup(j, p) ==
  /\ attempt[j] = "lookup" /\ p \in popped[j]
  /\ popped' = [popped EXCEPT ![j] = @ \ {p}]
  /\ \/ p \in details /\ roster' = [roster EXCEPT ![j] = @ \cup {p}]
     \/ (p \notin details \/ Faults) /\ UNCHANGED roster
  /\ UNCHANGED <<redisVars, announced, join, attempt, before, streamVars,
                 leave, boundVars>>

\* Wrong: the players that were found are not counted again.
TryCreate_Uncounted(j) ==
  /\ attempt[j] = "lookup" /\ popped[j] = {}
  /\ rooms' = rooms \cup {j} /\ Goto(j, "publish")
  /\ UNCHANGED <<pool, details, lock, announced, join, popped, roster, before,
                 streamVars, leave, boundVars>>

\* CreateRoom.  With too few players left, and after an error, those that
\* were found are dropped; an error may come after the room was stored.
TryCreate(j) ==
  /\ attempt[j] = "lookup" /\ popped[j] = {}
  /\ \/ /\ Cardinality(roster[j]) >= MinPlayers
        /\ rooms' = rooms \cup {j} /\ UNCHANGED roster /\ Goto(j, "publish")
     \/ /\ \/ Cardinality(roster[j]) < MinPlayers /\ UNCHANGED rooms
           \/ /\ Cardinality(roster[j]) >= MinPlayers /\ Faults
              /\ rooms' \in {rooms, rooms \cup {j}}
        /\ roster' = [roster EXCEPT ![j] = {}] /\ Goto(j, "release")
  /\ UNCHANGED <<pool, details, lock, announced, join, popped, before,
                 streamVars, leave, boundVars>>

\* match.created; an error is only logged.
TryPublish(j) ==
  /\ attempt[j] = "publish" /\ Goto(j, "deliver")
  /\ \/ announced' = announced \cup {j}
     \/ Faults /\ UNCHANGED announced
  /\ UNCHANGED <<redisVars, join, popped, roster, before, streamVars, leave,
                 boundVars>>

\* Wrong: everybody who is waiting is sent MatchFound.
Audience_All(j) == {s \in Subs : \E p \in Players : chans[p] = s}

\* The streams that MatchFound is meant for.
Audience(j) == {s \in Subs : \E p \in roster[j] : chans[p] = s}

\* MatchFound is put on the channels that are not full.
TryDeliver(j) ==
  /\ attempt[j] = "deliver" /\ Goto(j, "release")
  /\ box' = [s \in Subs |-> IF s \in Audience(j) /\ Len(box[s]) < Cap
                              THEN Append(box[s], j) ELSE box[s]]
  /\ UNCHANGED <<redisVars, announced, join, popped, roster, before, stream,
                 told, chans, leave, boundVars>>

\* Wrong: a plain DEL.
TryRelease_Blind(j) ==
  /\ attempt[j] = "release" /\ Goto(j, "done")
  /\ lock' = NoJoin
  /\ UNCHANGED <<pool, details, rooms, announced, join, popped, roster,
                 before, streamVars, leave, boundVars>>

\* The deferred ReleaseLock: a script deletes the lock if it is still ours.
TryRelease(j) ==
  /\ attempt[j] = "release" /\ Goto(j, "done")
  /\ \/ lock' = IF lock = j THEN NoJoin ELSE lock
     \/ Faults /\ UNCHANGED lock
  /\ UNCHANGED <<pool, details, rooms, announced, join, popped, roster,
                 before, streamVars, leave, boundVars>>

----------------------------------------------------------------------------
(* SubscribeToMatch.                                                       *)

\* The channel takes the place of one of an earlier stream.
Subscribe(s) ==
  /\ stream[s] = "idle" /\ stream' = [stream EXCEPT ![s] = "open"]
  /\ chans' = [chans EXCEPT ![SubOwner[s]] = s]
  /\ UNCHANGED <<redisVars, announced, join, attemptVars, before, box, told,
                 leave, boundVars>>

\* A WaitingUpdate: of the ticker, the first half second or a broadcast.
Refresh(s) ==
  /\ stream[s] = "open" /\ Len(box[s]) < Cap
  /\ box' = [box EXCEPT ![s] = Append(@, Update)]
  /\ UNCHANGED <<redisVars, announced, join, attemptVars, before, stream,
                 told, chans, leave, boundVars>>

\* An event goes to the client; MatchFound is the last one.
Receive(s) ==
  /\ stream[s] = "open" /\ box[s] # <<>>
  /\ box' = [box EXCEPT ![s] = Tail(@)]
  /\ IF Head(box[s]) = Update
       THEN UNCHANGED <<stream, told>>
       ELSE /\ told' = [told EXCEPT ![s] = Head(box[s])]
            /\ stream' = [stream EXCEPT ![s] = "ending"]
  /\ UNCHANGED <<redisVars, announced, join, attemptVars, before, chans,
                 leave, boundVars>>

\* The client is gone, a send fails, or matchmakingTimeout has passed and
\* the client is sent MatchCancelled.  The pool keeps the player.
EndStream(s) ==
  /\ stream[s] = "open" /\ stream' = [stream EXCEPT ![s] = "ending"]
  /\ UNCHANGED <<redisVars, announced, join, attemptVars, before, box, told,
                 chans, leave, boundVars>>

\* The deferred deletion of the stream's own channel.
Unregister(s) ==
  /\ stream[s] = "ending" /\ stream' = [stream EXCEPT ![s] = "closed"]
  /\ chans' = IF chans[SubOwner[s]] = s
                THEN [chans EXCEPT ![SubOwner[s]] = NoSub] ELSE chans
  /\ box' = [box EXCEPT ![s] = <<>>]
  /\ UNCHANGED <<redisVars, announced, join, attemptVars, before, told, leave,
                 boundVars>>

----------------------------------------------------------------------------
(* LeaveMatchmaking: ZREM, DEL and the deletion of the channel.            *)

LeaveRemove(p) ==
  /\ p \in Leavers /\ leave[p] = "no"
  /\ \/ pool' = pool \ {p} /\ leave' = [leave EXCEPT ![p] = "removed"]
     \/ /\ Faults /\ pool' \in {pool, pool \ {p}}
        /\ leave' = [leave EXCEPT ![p] = "left"]
  /\ UNCHANGED <<details, lock, rooms, announced, join, attemptVars, before,
                 streamVars, boundVars>>

LeaveForget(p) ==
  /\ leave[p] = "removed" /\ leave' = [leave EXCEPT ![p] = "forgotten"]
  /\ details' = details \ {p} \/ (Faults /\ UNCHANGED details)
  /\ UNCHANGED <<pool, lock, rooms, announced, join, attemptVars, before,
                 streamVars, boundVars>>

LeaveUnsubscribe(p) ==
  /\ leave[p] = "forgotten" /\ leave' = [leave EXCEPT ![p] = "left"]
  /\ chans' = [chans EXCEPT ![p] = NoSub]
  /\ UNCHANGED <<redisVars, announced, join, attemptVars, before, stream, box,
                 told, boundVars>>

----------------------------------------------------------------------------
(* Time and restarts.                                                      *)

\* The TTL of the player:{id} hash.
DetailsExpire(p) ==
  /\ p \in details /\ details' = details \ {p}
  /\ UNCHANGED <<pool, lock, rooms, announced, join, attemptVars, before,
                 streamVars, leave, boundVars>>

\* The TTL of a lock runs out: after its owner went without releasing it, or
\* on an owner that is late.
LockExpires ==
  /\ lock # NoJoin /\ lock' = NoJoin
  /\ \/ attempt[lock] \notin Holding /\ UNCHANGED expired
     \/ /\ attempt[lock] \in Holding /\ Cardinality(expired) < MaxExpiries
        /\ expired' = expired \cup {lock}
  /\ UNCHANGED <<pool, details, rooms, announced, join, attemptVars, before,
                 streamVars, leave, restarts>>

\* matchmaking-service restarts: handlers, attempts and streams are gone.
Restart ==
  /\ restarts < MaxRestarts /\ restarts' = restarts + 1
  /\ join' = [j \in Joins |-> IF join[j] \in {"added", "detailed"}
                                THEN "failed" ELSE join[j]]
  /\ attempt' = [j \in Joins |->
                   IF attempt[j] \in Holding \cup {"asleep"} THEN "lost"
                                                             ELSE attempt[j]]
  /\ popped' = [j \in Joins |-> {}]
  /\ roster' = [j \in Joins |-> IF j \in rooms THEN roster[j] ELSE {}]
  /\ stream' = [s \in Subs |-> IF stream[s] = "idle" THEN "idle" ELSE "closed"]
  /\ box' = [s \in Subs |-> <<>>] /\ chans' = [p \in Players |-> NoSub]
  /\ leave' = [p \in Players |-> IF leave[p] = "no" THEN "no" ELSE "left"]
  /\ UNCHANGED <<redisVars, announced, before, told, expired>>

----------------------------------------------------------------------------
JoinStep(j) == JoinAdd(j) \/ JoinDetails(j) \/ JoinSchedule(j)

TryStep(j) ==
  \/ TryLock(j) \/ TryPop(j) \/ TryReadd(j)
  \/ \E p \in Players : TryLookup(j, p)
  \/ TryCreate(j) \/ TryPublish(j) \/ TryDeliver(j) \/ TryRelease(j)

StreamStep(s) ==
  Subscribe(s) \/ Refresh(s) \/ Receive(s) \/ EndStream(s) \/ Unregister(s)

LeaveStep(p) == LeaveRemove(p) \/ LeaveForget(p) \/ LeaveUnsubscribe(p)

Next ==
  \/ \E j \in Joins : JoinStep(j) \/ TryStep(j)
  \/ \E s \in Subs : StreamStep(s)
  \/ \E p \in Players : LeaveStep(p) \/ DetailsExpire(p)
  \/ LockExpires \/ Restart

Spec == Init /\ [][Next]_vars

\* Handlers that have begun, and goroutines, go on; a lock expires.
FairSpec ==
  /\ Spec
  /\ \A j \in Joins : /\ WF_vars(JoinDetails(j) \/ JoinSchedule(j))
                      /\ WF_vars(TryStep(j))
  /\ WF_vars(LockExpires)

----------------------------------------------------------------------------
(* What holds.                                                             *)

InPool(p)    == IF p \in pool THEN 1 ELSE 0
SeatsOf(p)   == {j \in Joins : p \in popped[j] \cup roster[j]}
JoinsOf(p)   == {j \in Joins : JoinOwner[j] = p /\ join[j] # "idle"}

\* A call of JoinMatchmaking gets its player one seat at most: the rooms he is
\* put in, the attempts that have popped him and his place in the pool are
\* together no more than his calls.  This needs only that ZPOPMIN is atomic:
\* it holds with locks that run out, lost replies and restarts
\* (matchmaking.go:352-361).
OneSeatPerJoin ==
  \A p \in Players :
    Cardinality(SeatsOf(p)) + InPool(p) <= Cardinality(JoinsOf(p))

\* An attempt between acquiring and releasing holds the lock unless it ran
\* out on it; so that two attempts overlap only after an expiry, and an
\* attempt that is late never frees the lock of another (lock.go:20-28).
LockHeldUnlessExpired ==
  \A j \in Joins : attempt[j] \in Holding => lock = j \/ j \in expired

\* Whoever is told of a room is a player of that room, the room is in Redis,
\* and match.created has been published unless that failed
\* (matchmaking.go:396-437).
MatchFoundIsForMember ==
  \A s \in Subs : told[s] # NoJoin =>
    /\ SubOwner[s] \in roster[told[s]] /\ told[s] \in rooms
    /\ ~Faults => told[s] \in announced

Contract == INSTANCE PairingContract WITH
  Calls <- Joins, Caller <- JoinOwner, RoomIDs <- Joins,
  Streams <- Subs, Listener <- SubOwner, NoRoom <- NoJoin,
  Least <- MinPlayers, Most <- RoomSize, Reliable <- ~Faults,
  asked <- {j \in Joins : join[j] # "idle"},
  room <- [j \in rooms |-> roster[j]]

\* Rooms are formed, announced and told of as PairingContract says, through
\* every lookup, overlap of attempts, failed command and restart
\* (matchmaking.go:339-437, room.go:35-104).
ContractSpec == Contract!Spec

\* A call that will schedule an attempt if it finds enough players, or has.
Coming(j) == join[j] \in {"added", "detailed"} \/ attempt[j] = "asleep"

\* The safety half of PoolDrains: while there are enough players for a match in
\* the pool, an attempt is about to pop them or yet to come, although those that
\* find the lock taken give up (matchmaking.go:118-133, 339-352).
PoolWatched ==
  Cardinality(pool) >= MinPlayers =>
    \E j \in Joins : Coming(j) \/ attempt[j] = "pop"

\* Enough players for a match, and no more than a room holds, do not stay in
\* the pool: whichever attempts lose the race for the lock, one that pops them
\* all is still to come (matchmaking.go:118-133, 339-361).
PoolDrains ==
  Cardinality(pool) >= MinPlayers ~> Cardinality(pool) < MinPlayers
=============================================================================
