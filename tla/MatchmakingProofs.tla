------------------------- MODULE MatchmakingProofs -------------------------
(***************************************************************************)
(* Proofs about Matchmaking, for any players, calls, capacities and bounds.*)
(***************************************************************************)
EXTENDS Matchmaking, FiniteSetTheorems, SequenceTheorems, TLAPS

----------------------------------------------------------------------------
(* Types, one variable group at a time.                                    *)

RedisType == /\ pool \subseteq Players /\ details \subseteq Players
             /\ lock \in Joins \cup {NoJoin} /\ rooms \subseteq Joins

CallType == /\ announced \subseteq Joins
            /\ join \in [Joins -> {"idle", "added", "detailed", "done",
                                   "failed"}]
            /\ before \in [Joins -> Joins \cup {NoJoin}]
            /\ leave \in [Players -> {"no", "removed", "forgotten", "left"}]
            /\ expired \subseteq Joins /\ restarts \in 0..MaxRestarts

AttemptType == /\ attempt \in [Joins -> Attempts]
               /\ popped \in [Joins -> SUBSET Players]
               /\ roster \in [Joins -> SUBSET Players]

StreamType == /\ stream \in [Subs -> {"idle", "open", "ending", "closed"}]
              /\ told \in [Subs -> Joins \cup {NoJoin}]
              /\ chans \in [Players -> Subs \cup {NoSub}]

BoxType == /\ box \in [Subs -> Seq(Joins \cup {Update})]
           /\ \A s \in Subs : Len(box[s]) <= Cap

LEMMA TypeParts ==
  TypeOK <=> RedisType /\ CallType /\ AttemptType /\ StreamType /\ BoxType
BY DEF TypeOK, RedisType, CallType, AttemptType, StreamType, BoxType

LEMMA TypeInit == Init => TypeOK
<1> SUFFICES ASSUME Init
             PROVE  TypeOK
  OBVIOUS
<1>1. BoxType
  <2>1. <<>> \in Seq(Joins \cup {Update}) /\ Len(<<>>) = 0
    OBVIOUS
  <2> QED BY <2>1, MatchmakingAssumption DEF Init, BoxType
<1>2. RedisType /\ CallType /\ AttemptType /\ StreamType
  BY MatchmakingAssumption
  DEF Init, RedisType, CallType, AttemptType, StreamType, Attempts
<1> QED BY <1>1, <1>2, TypeParts

LEMMA RedisStep ==
  ASSUME TypeOK, [Next]_vars
  PROVE  RedisType'
<1> USE MatchmakingAssumption
     DEF RedisType, redisVars, attemptVars, streamVars, boundVars
<1>0. RedisType
  BY TypeParts
<1>1. ASSUME NEW j \in Joins, JoinStep(j)
      PROVE  RedisType'
  BY <1>0, <1>1 DEF JoinStep, JoinAdd, JoinDetails, JoinSchedule
<1>2. ASSUME NEW j \in Joins, TryLock(j) \/ TryRelease(j)
      PROVE  RedisType'
  BY <1>0, <1>2 DEF TryLock, TryRelease
<1>3. ASSUME NEW j \in Joins, TryPop(j)
      PROVE  RedisType'
  BY <1>0, <1>3 DEF TryPop
<1>4. ASSUME NEW j \in Joins, TryReadd(j)
      PROVE  RedisType'
  BY <1>0, <1>4, TypeParts DEF TryReadd, AttemptType
<1>5. ASSUME NEW j \in Joins, TryCreate(j)
      PROVE  RedisType'
  BY <1>0, <1>5 DEF TryCreate
<1>6. ASSUME NEW j \in Joins, \/ \E p \in Players : TryLookup(j, p)
                              \/ TryPublish(j) \/ TryDeliver(j)
      PROVE  RedisType'
  BY <1>0, <1>6 DEF TryLookup, TryPublish, TryDeliver
<1>7. ASSUME NEW s \in Subs, StreamStep(s)
      PROVE  RedisType'
  BY <1>0, <1>7
  DEF StreamStep, Subscribe, Refresh, Receive, EndStream, Unregister
<1>8. ASSUME NEW p \in Players, LeaveStep(p) \/ DetailsExpire(p)
      PROVE  RedisType'
  BY <1>0, <1>8
  DEF LeaveStep, LeaveRemove, LeaveForget, LeaveUnsubscribe, DetailsExpire
<1>9. ASSUME LockExpires \/ Restart \/ UNCHANGED vars
      PROVE  RedisType'
  BY <1>0, <1>9 DEF LockExpires, Restart, vars
<1> QED
  BY <1>1, <1>2, <1>3, <1>4, <1>5, <1>6, <1>7, <1>8, <1>9 DEF Next, TryStep

LEMMA CallStep ==
  ASSUME TypeOK, [Next]_vars
  PROVE  CallType'
<1> USE MatchmakingAssumption
     DEF CallType, redisVars, attemptVars, streamVars, boundVars
<1>0. CallType /\ lock \in Joins \cup {NoJoin}
  BY TypeParts DEF RedisType
<1>1. ASSUME NEW j \in Joins, JoinStep(j)
      PROVE  CallType'
  BY <1>0, <1>1 DEF JoinStep, JoinAdd, JoinDetails, JoinSchedule
<1>2. ASSUME NEW j \in Joins, TryStep(j)
      PROVE  CallType'
  BY <1>0, <1>2
  DEF TryStep, TryLock, TryPop, TryReadd, TryLookup, TryCreate, TryPublish,
      TryDeliver, TryRelease
<1>3. ASSUME NEW s \in Subs, StreamStep(s)
      PROVE  CallType'
  BY <1>0, <1>3
  DEF StreamStep, Subscribe, Refresh, Receive, EndStream, Unregister
<1>4. ASSUME NEW p \in Players, LeaveStep(p) \/ DetailsExpire(p)
      PROVE  CallType'
  BY <1>0, <1>4
  DEF LeaveStep, LeaveRemove, LeaveForget, LeaveUnsubscribe, DetailsExpire
<1>5. ASSUME LockExpires \/ UNCHANGED vars
      PROVE  CallType'
  BY <1>0, <1>5 DEF LockExpires, vars
<1>6. ASSUME Restart
      PROVE  CallType'
  <2>1. join' \in [Joins -> {"idle", "added", "detailed", "done", "failed"}]
    BY <1>0, <1>6 DEF Restart
  <2>2. leave' \in [Players -> {"no", "removed", "forgotten", "left"}]
    BY <1>0, <1>6 DEF Restart
  <2> QED BY <1>0, <1>6, <2>1, <2>2 DEF Restart
<1> QED BY <1>1, <1>2, <1>3, <1>4, <1>5, <1>6 DEF Next

LEMMA AttemptStep ==
  ASSUME TypeOK, [Next]_vars
  PROVE  AttemptType'
<1> USE MatchmakingAssumption
     DEF AttemptType, redisVars, attemptVars, streamVars, boundVars, Attempts,
         Holding, Goto
<1>0. AttemptType /\ pool \subseteq Players
  BY TypeParts DEF RedisType
<1>1. ASSUME NEW j \in Joins, JoinStep(j)
      PROVE  AttemptType'
  BY <1>0, <1>1 DEF JoinStep, JoinAdd, JoinDetails, JoinSchedule
<1>2. ASSUME NEW j \in Joins, TryLock(j) \/ TryPublish(j) \/ TryDeliver(j)
                              \/ TryRelease(j) \/ TryReadd(j)
      PROVE  AttemptType'
  BY <1>0, <1>2 DEF TryLock, TryPublish, TryDeliver, TryRelease, TryReadd
<1>3. ASSUME NEW j \in Joins, TryPop(j)
      PROVE  AttemptType'
  BY <1>0, <1>3 DEF TryPop, Poppable
<1>4. ASSUME NEW j \in Joins, TryCreate(j) \/ \E p \in Players : TryLookup(j, p)
      PROVE  AttemptType'
  BY <1>0, <1>4 DEF TryCreate, TryLookup
<1>5. ASSUME NEW s \in Subs, StreamStep(s)
      PROVE  AttemptType'
  BY <1>0, <1>5
  DEF StreamStep, Subscribe, Refresh, Receive, EndStream, Unregister
<1>6. ASSUME NEW p \in Players, LeaveStep(p) \/ DetailsExpire(p)
      PROVE  AttemptType'
  BY <1>0, <1>6
  DEF LeaveStep, LeaveRemove, LeaveForget, LeaveUnsubscribe, DetailsExpire
<1>7. ASSUME LockExpires \/ UNCHANGED vars
      PROVE  AttemptType'
  BY <1>0, <1>7 DEF LockExpires, vars
<1>8. ASSUME Restart
      PROVE  AttemptType'
  BY <1>0, <1>8 DEF Restart
<1> QED
  BY <1>1, <1>2, <1>3, <1>4, <1>5, <1>6, <1>7, <1>8 DEF Next, TryStep

LEMMA StreamTypeStep ==
  ASSUME TypeOK, [Next]_vars
  PROVE  StreamType'
<1> USE MatchmakingAssumption
     DEF StreamType, redisVars, attemptVars, streamVars, boundVars
<1>0. StreamType /\ BoxType
  BY TypeParts
<1>1. ASSUME NEW j \in Joins, JoinStep(j) \/ TryStep(j)
      PROVE  StreamType'
  BY <1>0, <1>1
  DEF JoinStep, JoinAdd, JoinDetails, JoinSchedule, TryStep, TryLock, TryPop,
      TryReadd, TryLookup, TryCreate, TryPublish, TryDeliver, TryRelease
<1>2. ASSUME NEW s \in Subs, Subscribe(s) \/ Refresh(s) \/ EndStream(s)
                              \/ Unregister(s)
      PROVE  StreamType'
  BY <1>0, <1>2 DEF Subscribe, Refresh, EndStream, Unregister
<1>3. ASSUME NEW s \in Subs, Receive(s)
      PROVE  StreamType'
  <2>1. Head(box[s]) \in Joins \cup {Update}
    BY <1>0, <1>3, HeadTailProperties DEF BoxType, Receive
  <2> QED BY <1>0, <1>3, <2>1 DEF Receive
<1>4. ASSUME NEW p \in Players, LeaveStep(p) \/ DetailsExpire(p)
      PROVE  StreamType'
  BY <1>0, <1>4
  DEF LeaveStep, LeaveRemove, LeaveForget, LeaveUnsubscribe, DetailsExpire
<1>5. ASSUME LockExpires \/ Restart \/ UNCHANGED vars
      PROVE  StreamType'
  BY <1>0, <1>5 DEF LockExpires, Restart, vars
<1> QED BY <1>1, <1>2, <1>3, <1>4, <1>5 DEF Next, StreamStep

\* The steps that touch no channel.
BoxIdle(j) == \/ JoinStep(j) \/ TryLock(j) \/ TryPop(j) \/ TryReadd(j)
              \/ \E p \in Players : TryLookup(j, p)
              \/ TryCreate(j) \/ TryPublish(j) \/ TryRelease(j)

LEMMA BoxStep ==
  ASSUME TypeOK, [Next]_vars
  PROVE  BoxType'
<1> USE MatchmakingAssumption
     DEF BoxType, redisVars, attemptVars, streamVars, boundVars
<1>0. BoxType
  BY TypeParts
<1>a. \A s \in Subs, e \in Joins \cup {Update} :
        /\ box[s] \in Seq(Joins \cup {Update}) /\ Len(box[s]) \in Nat
        /\ Append(box[s], e) \in Seq(Joins \cup {Update})
        /\ Len(Append(box[s], e)) = Len(box[s]) + 1
  BY <1>0, AppendProperties, LenProperties
<1>b. <<>> \in Seq(Joins \cup {Update}) /\ Len(<<>>) = 0
  OBVIOUS
<1>1. ASSUME NEW j \in Joins, BoxIdle(j)
      PROVE  BoxType'
  BY <1>0, <1>1
  DEF BoxIdle, JoinStep, JoinAdd, JoinDetails, JoinSchedule, TryLock, TryPop,
      TryReadd, TryLookup, TryCreate, TryPublish, TryRelease
<1>2. ASSUME NEW j \in Joins, TryDeliver(j)
      PROVE  BoxType'
  <2>1. box' = [s \in Subs |-> IF s \in Audience(j) /\ Len(box[s]) < Cap
                                 THEN Append(box[s], j) ELSE box[s]]
    BY <1>2 DEF TryDeliver
  <2>2. ASSUME NEW s \in Subs
        PROVE  /\ box'[s] \in Seq(Joins \cup {Update})
               /\ Len(box'[s]) <= Cap
    <3>1. CASE Len(box[s]) < Cap /\ box'[s] = Append(box[s], j)
      BY <1>a, <3>1
    <3>2. CASE box'[s] = box[s]
      BY <1>0, <3>2
    <3> QED BY <2>1, <3>1, <3>2
  <2> QED BY <2>1, <2>2
<1>3. ASSUME NEW s \in Subs, Refresh(s)
      PROVE  BoxType'
  <2>1. box' = [box EXCEPT ![s] = Append(box[s], Update)] /\ Len(box[s]) < Cap
    BY <1>3 DEF Refresh
  <2> QED BY <1>0, <1>a, <2>1
<1>4. ASSUME NEW s \in Subs, Receive(s)
      PROVE  BoxType'
  <2>1. box' = [box EXCEPT ![s] = Tail(box[s])] /\ box[s] # <<>>
    BY <1>4 DEF Receive
  <2>2. /\ Tail(box[s]) \in Seq(Joins \cup {Update})
        /\ Len(Tail(box[s])) = Len(box[s]) - 1
    BY <1>a, <2>1, HeadTailProperties
  <2> QED BY <1>0, <1>a, <2>1, <2>2
<1>5. ASSUME NEW s \in Subs, Unregister(s)
      PROVE  BoxType'
  <2>1. box' = [box EXCEPT ![s] = <<>>]
    BY <1>5 DEF Unregister
  <2> QED BY <1>0, <1>b, <2>1
<1>6. ASSUME NEW s \in Subs, Subscribe(s) \/ EndStream(s)
      PROVE  BoxType'
  BY <1>0, <1>6 DEF Subscribe, EndStream
<1>7. ASSUME NEW p \in Players, LeaveStep(p) \/ DetailsExpire(p)
      PROVE  BoxType'
  BY <1>0, <1>7
  DEF LeaveStep, LeaveRemove, LeaveForget, LeaveUnsubscribe, DetailsExpire
<1>8. ASSUME Restart
      PROVE  BoxType'
  <2>1. box' = [s \in Subs |-> <<>>]
    BY <1>8 DEF Restart
  <2> QED BY <1>b, <2>1
<1>9. ASSUME LockExpires \/ UNCHANGED vars
      PROVE  BoxType'
  BY <1>0, <1>9 DEF LockExpires, vars
<1> QED
  BY <1>1, <1>2, <1>3, <1>4, <1>5, <1>6, <1>7, <1>8, <1>9
  DEF Next, TryStep, StreamStep, BoxIdle

LEMMA TypeStep == TypeOK /\ [Next]_vars => TypeOK'
<1> SUFFICES ASSUME TypeOK, [Next]_vars
             PROVE  TypeOK'
  OBVIOUS
<1>1. RedisType' /\ CallType' /\ AttemptType' /\ StreamType' /\ BoxType'
  BY RedisStep, CallStep, AttemptStep, StreamTypeStep, BoxStep
<1> QED
  BY <1>1 DEF TypeOK, RedisType, CallType, AttemptType, StreamType, BoxType

\* Every variable keeps its type; in particular no channel of a subscription
\* holds more events than its capacity (matchmaking.go:270).
THEOREM TypeCorrect == Spec => []TypeOK
BY TypeInit, TypeStep, PTL DEF Spec

----------------------------------------------------------------------------
(* The lock.                                                               *)

LEMMA LockInit == Init => LockHeldUnlessExpired
BY DEF Init, LockHeldUnlessExpired, Holding

LEMMA LockStep ==
  TypeOK /\ LockHeldUnlessExpired /\ [Next]_vars => LockHeldUnlessExpired'
<1> SUFFICES ASSUME TypeOK, LockHeldUnlessExpired, [Next]_vars
             PROVE  LockHeldUnlessExpired'
  OBVIOUS
<1> USE MatchmakingAssumption
     DEF LockHeldUnlessExpired, redisVars, attemptVars, streamVars, boundVars
<1>0. attempt \in [Joins -> Attempts] /\ lock \in Joins \cup {NoJoin}
  BY DEF TypeOK
<1>1. ASSUME NEW j \in Joins, JoinStep(j)
      PROVE  LockHeldUnlessExpired'
  <2>1. /\ UNCHANGED <<lock, expired>>
        /\ attempt' \in {attempt, [attempt EXCEPT ![j] = "asleep"]}
    BY <1>1 DEF JoinStep, JoinAdd, JoinDetails, JoinSchedule
  <2> QED BY <1>0, <2>1 DEF Holding
<1>2. ASSUME NEW j \in Joins, TryLock(j)
      PROVE  LockHeldUnlessExpired'
  <2>1. /\ expired' = expired
        /\ \/ lock = NoJoin /\ lock' = j /\ attempt' = [attempt EXCEPT ![j] = "pop"]
           \/ /\ lock' = lock \/ lock = NoJoin
              /\ attempt' = [attempt EXCEPT ![j] = "done"]
    BY <1>2 DEF TryLock, Goto
  <2> QED BY <1>0, <2>1 DEF Holding
<1>3. ASSUME NEW j \in Joins,
             \/ TryPop(j) \/ TryReadd(j) \/ \E p \in Players : TryLookup(j, p)
             \/ TryCreate(j) \/ TryPublish(j) \/ TryDeliver(j)
      PROVE  LockHeldUnlessExpired'
  <2>1. /\ UNCHANGED <<lock, expired>> /\ attempt[j] \in Holding
        /\ \E q \in Holding : attempt' = [attempt EXCEPT ![j] = q]
    BY <1>0, <1>3
    DEF TryPop, TryReadd, TryLookup, TryCreate, TryPublish, TryDeliver, Goto,
        Holding
  <2> QED BY <1>0, <2>1
<1>4. ASSUME NEW j \in Joins, TryRelease(j)
      PROVE  LockHeldUnlessExpired'
  <2>1. /\ expired' = expired /\ attempt' = [attempt EXCEPT ![j] = "done"]
        /\ lock = j \/ lock' = lock
    BY <1>4 DEF TryRelease, Goto
  <2> QED BY <1>0, <2>1 DEF Holding
<1>5. ASSUME NEW s \in Subs, StreamStep(s)
      PROVE  LockHeldUnlessExpired'
  BY <1>5 DEF StreamStep, Subscribe, Refresh, Receive, EndStream, Unregister
<1>6. ASSUME NEW p \in Players, LeaveStep(p) \/ DetailsExpire(p)
      PROVE  LockHeldUnlessExpired'
  BY <1>6
  DEF LeaveStep, LeaveRemove, LeaveForget, LeaveUnsubscribe, DetailsExpire
<1>7. ASSUME LockExpires
      PROVE  LockHeldUnlessExpired'
  <2>1. /\ attempt' = attempt /\ expired \subseteq expired'
        /\ attempt[lock] \in Holding => lock \in expired'
    BY <1>7 DEF LockExpires
  <2> QED BY <2>1
<1>8. ASSUME Restart
      PROVE  LockHeldUnlessExpired'
  <2>1. \A j \in Joins : attempt'[j] \notin Holding
    BY <1>0, <1>8 DEF Restart, Holding
  <2> QED BY <2>1
<1>9. CASE UNCHANGED vars
  BY <1>9 DEF vars
<1> QED
  BY <1>1, <1>2, <1>3, <1>4, <1>5, <1>6, <1>7, <1>8, <1>9 DEF Next, TryStep

\* An attempt in its critical section holds the lock unless it ran out on it
\* (lock.go:20-72, matchmaking.go:339-346).
THEOREM LockHolds == Spec => []LockHeldUnlessExpired
BY TypeInit, TypeStep, LockInit, LockStep, PTL DEF Spec

----------------------------------------------------------------------------
(* Seats.  Every step leaves the seats of a player and his place in the     *)
(* pool alone or lessens them, or it is one of three: a new call, a pop     *)
(* that moves him from the pool to an attempt, and the way back.  The way   *)
(* back is a move only because an attempt that re-adds has no roster.       *)

NoRosterYet ==
  \A j \in Joins :
    /\ join[j] # "done" => attempt[j] = "none"
    /\ attempt[j] \in {"none", "asleep", "pop", "readd"} => roster[j] = {}

Kept(p) ==
  /\ SeatsOf(p)' \subseteq SeatsOf(p) /\ (p \in pool' => p \in pool)
  /\ JoinsOf(p)' = JoinsOf(p)
Called(p) ==
  /\ SeatsOf(p)' \subseteq SeatsOf(p)
  /\ \E j \in Joins : j \notin JoinsOf(p) /\ JoinsOf(p)' = JoinsOf(p) \cup {j}
Taken(p) ==
  /\ p \in pool /\ p \notin pool' /\ JoinsOf(p)' = JoinsOf(p)
  /\ \E j \in Joins : SeatsOf(p)' \subseteq SeatsOf(p) \cup {j}
Returned(p) ==
  /\ JoinsOf(p)' = JoinsOf(p)
  /\ \E j \in SeatsOf(p) : SeatsOf(p)' \subseteq SeatsOf(p) \ {j}

Seated(p) == Cardinality(SeatsOf(p)) + InPool(p) <= Cardinality(JoinsOf(p))

LEMMA SeatsFinite ==
  ASSUME NEW p
  PROVE  /\ IsFiniteSet(SeatsOf(p)) /\ IsFiniteSet(JoinsOf(p))
         /\ IsFiniteSet(SeatsOf(p)') /\ IsFiniteSet(JoinsOf(p)')
         /\ Cardinality(SeatsOf(p)) \in Nat /\ Cardinality(JoinsOf(p)) \in Nat
         /\ Cardinality(SeatsOf(p)') \in Nat /\ Cardinality(JoinsOf(p)') \in Nat
<1>1. /\ SeatsOf(p) \in SUBSET Joins /\ JoinsOf(p) \in SUBSET Joins
      /\ SeatsOf(p)' \in SUBSET Joins /\ JoinsOf(p)' \in SUBSET Joins
  BY DEF SeatsOf, JoinsOf
<1> QED
  BY <1>1, MatchmakingAssumption, FS_Subset, FS_CardinalityType

LEMMA SeatArithmetic ==
  ASSUME NEW p \in Players, Seated(p),
         Kept(p) \/ Called(p) \/ Taken(p) \/ Returned(p)
  PROVE  Seated(p)'
<1> DEFINE S == Cardinality(SeatsOf(p))
           J == Cardinality(JoinsOf(p))
<1>0. /\ S \in Nat /\ J \in Nat /\ S' \in Nat /\ J' \in Nat
      /\ InPool(p) \in {0, 1} /\ InPool(p)' \in {0, 1}
      /\ S + InPool(p) <= J
  BY SeatsFinite DEF Seated, InPool
<1>1. CASE Kept(p)
  <2>1. S' <= S /\ J' = J
    BY <1>1, SeatsFinite, FS_Subset DEF Kept
  <2>2. InPool(p)' <= InPool(p)
    BY <1>1 DEF Kept, InPool
  <2> HIDE DEF S, J
  <2>3. S' + InPool(p)' <= J'
    BY <1>0, <2>1, <2>2
  <2> QED BY <2>3 DEF S, J, Seated
<1>2. CASE Called(p)
  <2>1. S' <= S
    BY <1>2, SeatsFinite, FS_Subset DEF Called
  <2>2. PICK j \in Joins : /\ j \notin JoinsOf(p)
                            /\ JoinsOf(p)' = JoinsOf(p) \cup {j}
    BY <1>2 DEF Called
  <2>3. J' = J + 1
    BY <2>2, SeatsFinite, FS_AddElement
  <2> HIDE DEF S, J
  <2>4. S' + InPool(p)' <= J'
    BY <1>0, <2>1, <2>3
  <2> QED BY <2>4 DEF S, J, Seated
<1>3. CASE Taken(p)
  <2>1. PICK j \in Joins : SeatsOf(p)' \subseteq SeatsOf(p) \cup {j}
    BY <1>3 DEF Taken
  <2>2. /\ IsFiniteSet(SeatsOf(p) \cup {j})
        /\ Cardinality(SeatsOf(p) \cup {j}) \in {S, S + 1}
    BY SeatsFinite, FS_AddElement
  <2>3. S' <= Cardinality(SeatsOf(p) \cup {j})
    BY <2>1, <2>2, FS_Subset
  <2>4. InPool(p) >= 1 /\ InPool(p)' <= 0 /\ J' = J
    BY <1>3 DEF Taken, InPool
  <2> HIDE DEF S, J
  <2>5. S' <= S + 1
    BY <1>0, <2>2, <2>3
  <2>6. S' + InPool(p)' <= J'
    BY <1>0, <2>4, <2>5
  <2> QED BY <2>6 DEF S, J, Seated
<1>4. CASE Returned(p)
  <2>1. PICK j \in SeatsOf(p) : SeatsOf(p)' \subseteq SeatsOf(p) \ {j}
    BY <1>4 DEF Returned
  <2>2. /\ IsFiniteSet(SeatsOf(p) \ {j})
        /\ Cardinality(SeatsOf(p) \ {j}) = S - 1
    BY <2>1, SeatsFinite, FS_RemoveElement
  <2>3. S' <= Cardinality(SeatsOf(p) \ {j}) /\ J' = J
    BY <1>4, <2>1, <2>2, FS_Subset DEF Returned
  <2> HIDE DEF S, J
  <2>4. S' + InPool(p)' <= J'
    BY <1>0, <2>2, <2>3
  <2> QED BY <2>4 DEF S, J, Seated
<1> QED BY <1>1, <1>2, <1>3, <1>4

LEMMA RosterStep == TypeOK /\ NoRosterYet /\ [Next]_vars => NoRosterYet'
<1> SUFFICES ASSUME TypeOK, NoRosterYet, [Next]_vars
             PROVE  NoRosterYet'
  OBVIOUS
<1> USE MatchmakingAssumption
     DEF NoRosterYet, redisVars, attemptVars, streamVars, boundVars, Goto
<1>0. /\ attempt \in [Joins -> Attempts] /\ roster \in [Joins -> SUBSET Players]
      /\ join \in [Joins -> {"idle", "added", "detailed", "done", "failed"}]
  BY DEF TypeOK
<1>1. ASSUME NEW j \in Joins, JoinStep(j)
      PROVE  NoRosterYet'
  <2>1. /\ join[j] # "done" /\ roster' = roster
        /\ \/ /\ attempt' = attempt
              /\ \E q \in {"added", "detailed", "done", "failed"} :
                   join' = [join EXCEPT ![j] = q]
           \/ /\ attempt' = [attempt EXCEPT ![j] = "asleep"]
              /\ join' = [join EXCEPT ![j] = "done"]
    BY <1>1 DEF JoinStep, JoinAdd, JoinDetails, JoinSchedule
  <2> QED BY <1>0, <2>1
<1>2. ASSUME NEW j \in Joins, TryStep(j)
      PROVE  NoRosterYet'
  <2>1. /\ join' = join /\ attempt[j] # "none"
        /\ \A k \in Joins \ {j} : attempt'[k] = attempt[k] /\ roster'[k] = roster[k]
        /\ attempt'[j] \in {"asleep", "pop", "readd"} =>
             attempt[j] \in {"asleep", "pop"} /\ roster'[j] = roster[j]
        /\ attempt'[j] # "none"
    BY <1>0, <1>2
    DEF TryStep, TryLock, TryPop, TryReadd, TryLookup, TryCreate, TryPublish,
        TryDeliver, TryRelease
  <2> QED BY <1>0, <2>1
<1>3. ASSUME NEW s \in Subs, StreamStep(s)
      PROVE  NoRosterYet'
  BY <1>3 DEF StreamStep, Subscribe, Refresh, Receive, EndStream, Unregister
<1>4. ASSUME NEW p \in Players, LeaveStep(p) \/ DetailsExpire(p)
      PROVE  NoRosterYet'
  BY <1>4
  DEF LeaveStep, LeaveRemove, LeaveForget, LeaveUnsubscribe, DetailsExpire
<1>5. ASSUME LockExpires \/ UNCHANGED vars
      PROVE  NoRosterYet'
  BY <1>5 DEF LockExpires, vars
<1>6. ASSUME Restart
      PROVE  NoRosterYet'
  <2>1. \A j \in Joins :
          /\ join'[j] = "done" <=> join[j] = "done"
          /\ attempt[j] = "none" => attempt'[j] = "none"
          /\ attempt'[j] \in {"none", "asleep", "pop", "readd"}
               => attempt[j] = "none"
          /\ roster[j] = {} => roster'[j] = {}
    BY <1>0, <1>6 DEF Restart, Holding
  <2> QED BY <2>1
<1> QED BY <1>1, <1>2, <1>3, <1>4, <1>5, <1>6 DEF Next

SeatMoves(p) == Kept(p) \/ Called(p) \/ Taken(p) \/ Returned(p)

LEMMA SeatStep ==
  ASSUME TypeOK, NoRosterYet, [Next]_vars, NEW p \in Players
  PROVE  SeatMoves(p)
<1> USE MatchmakingAssumption
     DEF redisVars, attemptVars, streamVars, boundVars, Goto
<1>0. /\ attempt \in [Joins -> Attempts] /\ roster \in [Joins -> SUBSET Players]
      /\ popped \in [Joins -> SUBSET Players] /\ pool \subseteq Players
      /\ join \in [Joins -> {"idle", "added", "detailed", "done", "failed"}]
  BY DEF TypeOK
<1>a. ASSUME UNCHANGED <<popped, roster, join>>, p \in pool' => p \in pool
      PROVE  SeatMoves(p)
  BY <1>a DEF SeatMoves, Kept, SeatsOf, JoinsOf
<1>1. ASSUME NEW j \in Joins, JoinAdd(j)
      PROVE  SeatMoves(p)
  <2>1. /\ UNCHANGED <<popped, roster>> /\ join[j] = "idle"
        /\ pool' = pool \/ pool' = pool \cup {JoinOwner[j]}
        /\ \E q \in {"added", "failed"} : join' = [join EXCEPT ![j] = q]
    BY <1>1 DEF JoinAdd
  <2>2. SeatsOf(p)' = SeatsOf(p)
    BY <2>1 DEF SeatsOf
  <2>3. CASE JoinOwner[j] = p
    <3>1. j \notin JoinsOf(p) /\ JoinsOf(p)' = JoinsOf(p) \cup {j}
      BY <1>0, <2>1, <2>3 DEF JoinsOf
    <3> QED BY <2>2, <3>1 DEF SeatMoves, Called
  <2>4. CASE JoinOwner[j] # p
    <3>1. JoinsOf(p)' = JoinsOf(p) /\ (p \in pool' => p \in pool)
      BY <1>0, <2>1, <2>4 DEF JoinsOf
    <3> QED BY <2>2, <3>1 DEF SeatMoves, Kept
  <2> QED BY <2>3, <2>4
<1>2. ASSUME NEW j \in Joins, JoinDetails(j) \/ JoinSchedule(j)
      PROVE  SeatMoves(p)
  <2>1. /\ UNCHANGED <<popped, roster, pool>> /\ join[j] # "idle"
        /\ \E q \in {"detailed", "done", "failed"} :
             join' = [join EXCEPT ![j] = q]
    BY <1>2 DEF JoinDetails, JoinSchedule
  <2>2. SeatsOf(p)' = SeatsOf(p) /\ JoinsOf(p)' = JoinsOf(p)
    BY <1>0, <2>1 DEF SeatsOf, JoinsOf
  <2> QED BY <2>1, <2>2 DEF SeatMoves, Kept
<1>3. ASSUME NEW j \in Joins, TryLock(j) \/ TryPublish(j) \/ TryDeliver(j)
                              \/ TryRelease(j)
      PROVE  SeatMoves(p)
  BY <1>a, <1>3 DEF TryLock, TryPublish, TryDeliver, TryRelease
<1>4. ASSUME NEW j \in Joins, TryPop(j)
      PROVE  SeatMoves(p)
  <2>1. UNCHANGED <<roster, join>>
    BY <1>4 DEF TryPop
  <2>2. JoinsOf(p)' = JoinsOf(p)
    BY <2>1 DEF JoinsOf
  <2>3. ASSUME NEW S \in SUBSET pool, pool' = pool \ S,
               popped' = [popped EXCEPT ![j] = S]
        PROVE  SeatMoves(p)
    <3>1. CASE p \in S
      <4>1. SeatsOf(p)' \subseteq SeatsOf(p) \cup {j}
        BY <1>0, <2>1, <2>3 DEF SeatsOf
      <4> QED BY <2>2, <2>3, <3>1, <4>1 DEF SeatMoves, Taken
    <3>2. CASE p \notin S
      <4>1. SeatsOf(p)' \subseteq SeatsOf(p)
        BY <1>0, <2>1, <2>3, <3>2 DEF SeatsOf
      <4> QED BY <2>2, <2>3, <4>1 DEF SeatMoves, Kept
    <3> QED BY <3>1, <3>2
  <2>4. ASSUME popped' = popped, pool' \subseteq pool
        PROVE  SeatMoves(p)
    BY <1>a, <2>1, <2>4
  <2>5. \/ popped' = popped /\ pool' \subseteq pool
        \/ \E S \in SUBSET pool : /\ pool' = pool \ S
                                  /\ popped' = [popped EXCEPT ![j] = S]
    BY <1>4 DEF TryPop, Poppable
  <2> QED BY <2>3, <2>4, <2>5
<1>5. ASSUME NEW j \in Joins, TryReadd(j)
      PROVE  SeatMoves(p)
  <2>1. /\ UNCHANGED <<roster, join>> /\ roster[j] = {}
        /\ popped' = [popped EXCEPT ![j] = {}]
        /\ \E S \in SUBSET popped[j] : pool' = pool \cup S
    BY <1>5 DEF TryReadd, NoRosterYet
  <2>2. JoinsOf(p)' = JoinsOf(p)
    BY <2>1 DEF JoinsOf
  <2>3. SeatsOf(p)' \subseteq SeatsOf(p) \ {j}
    BY <1>0, <2>1 DEF SeatsOf
  <2>4. CASE p \in popped[j]
    <3>1. j \in SeatsOf(p)
      BY <2>4 DEF SeatsOf
    <3> QED BY <2>2, <2>3, <3>1 DEF SeatMoves, Returned
  <2>5. CASE p \notin popped[j]
    BY <2>1, <2>2, <2>3, <2>5 DEF SeatMoves, Kept
  <2> QED BY <2>4, <2>5
<1>6. ASSUME NEW j \in Joins, NEW q \in Players, TryLookup(j, q)
      PROVE  SeatMoves(p)
  <2>1. /\ UNCHANGED <<pool, join>> /\ q \in popped[j]
        /\ popped' = [popped EXCEPT ![j] = popped[j] \ {q}]
        /\ roster' = roster \/ roster' = [roster EXCEPT ![j] = roster[j] \cup {q}]
    BY <1>6 DEF TryLookup
  <2>2. SeatsOf(p)' \subseteq SeatsOf(p) /\ JoinsOf(p)' = JoinsOf(p)
    BY <1>0, <2>1 DEF SeatsOf, JoinsOf
  <2> QED BY <2>1, <2>2 DEF SeatMoves, Kept
<1>7. ASSUME NEW j \in Joins, TryCreate(j)
      PROVE  SeatMoves(p)
  <2>1. /\ UNCHANGED <<pool, popped, join>>
        /\ roster' = roster \/ roster' = [roster EXCEPT ![j] = {}]
    BY <1>7 DEF TryCreate
  <2>2. SeatsOf(p)' \subseteq SeatsOf(p) /\ JoinsOf(p)' = JoinsOf(p)
    BY <1>0, <2>1 DEF SeatsOf, JoinsOf
  <2> QED BY <2>1, <2>2 DEF SeatMoves, Kept
<1>8. ASSUME \/ \E s \in Subs : StreamStep(s)
             \/ \E q \in Players : LeaveStep(q) \/ DetailsExpire(q)
             \/ LockExpires \/ UNCHANGED vars
      PROVE  SeatMoves(p)
  <2>1. UNCHANGED <<popped, roster, join>> /\ pool' \subseteq pool
    BY <1>8
    DEF StreamStep, Subscribe, Refresh, Receive, EndStream, Unregister,
        LeaveStep, LeaveRemove, LeaveForget, LeaveUnsubscribe, DetailsExpire,
        LockExpires, vars
  <2> QED BY <1>a, <2>1
<1>9. ASSUME Restart
      PROVE  SeatMoves(p)
  <2>1. /\ pool' = pool
        /\ \A j \in Joins : /\ popped'[j] = {} /\ roster'[j] \subseteq roster[j]
                            /\ join'[j] = "idle" <=> join[j] = "idle"
    BY <1>0, <1>9 DEF Restart
  <2>2. SeatsOf(p)' \subseteq SeatsOf(p) /\ JoinsOf(p)' = JoinsOf(p)
    BY <2>1 DEF SeatsOf, JoinsOf
  <2> QED BY <2>1, <2>2 DEF SeatMoves, Kept
<1> QED
  BY <1>1, <1>2, <1>3, <1>4, <1>5, <1>6, <1>7, <1>8, <1>9
  DEF Next, JoinStep, TryStep

LEMMA SeatInit == Init => NoRosterYet /\ OneSeatPerJoin
<1> SUFFICES ASSUME Init
             PROVE  NoRosterYet /\ OneSeatPerJoin
  OBVIOUS
<1>1. ASSUME NEW p \in Players
      PROVE  SeatsOf(p) = {} /\ InPool(p) = 0 /\ JoinsOf(p) = {}
  BY <1>1 DEF Init, SeatsOf, InPool, JoinsOf
<1>2. Cardinality({}) = 0
  BY FS_EmptySet
<1>3. OneSeatPerJoin
  BY <1>1, <1>2 DEF OneSeatPerJoin
<1>4. NoRosterYet
  BY DEF Init, NoRosterYet
<1> QED BY <1>3, <1>4

LEMMA SeatsStep ==
  TypeOK /\ NoRosterYet /\ OneSeatPerJoin /\ [Next]_vars => OneSeatPerJoin'
<1> SUFFICES ASSUME TypeOK, NoRosterYet, OneSeatPerJoin, [Next]_vars,
                    NEW p \in Players
             PROVE  Seated(p)'
  BY DEF OneSeatPerJoin, Seated
<1>1. Seated(p)
  BY DEF OneSeatPerJoin, Seated
<1> QED BY <1>1, SeatStep, SeatArithmetic DEF SeatMoves

\* One call, one seat (matchmaking.go:352-361), whatever happens to the lock.
THEOREM SeatsBounded == Spec => []OneSeatPerJoin
BY SeatsStep, TypeInit, TypeStep, RosterStep, SeatInit, PTL DEF Spec

----------------------------------------------------------------------------
(* MatchFound.  What is on a channel, or has been received from one, is an *)
(* invitation to a room that is stored and announced and that the stream's *)
(* player is in.  It stays good because the roster of an attempt no longer *)
(* changes once its room is stored.                                        *)

Invited(s, j) ==
  /\ SubOwner[s] \in roster[j] /\ j \in rooms
  /\ ~Faults => j \in announced

RoomLater ==
  \A j \in Joins :
    /\ attempt[j] \in {"none", "asleep", "pop", "readd", "lookup"}
         => j \notin rooms
    /\ attempt[j] \in {"publish", "deliver"} => j \in rooms
    /\ attempt[j] = "deliver" => (~Faults => j \in announced)

OwnChannel == \A p \in Players, s \in Subs : chans[p] = s => SubOwner[s] = p

BoxInvites ==
  \A s \in Subs, j \in Joins :
    \A i \in 1..Len(box[s]) : box[s][i] = j => Invited(s, j)

MemberInv == RoomLater /\ OwnChannel /\ BoxInvites /\ MatchFoundIsForMember

LEMMA MemberInit == Init => MemberInv
BY MatchmakingAssumption
DEF Init, MemberInv, RoomLater, OwnChannel, BoxInvites, MatchFoundIsForMember

LEMMA RoomLaterStep ==
  TypeOK /\ NoRosterYet /\ RoomLater /\ [Next]_vars => RoomLater'
<1> SUFFICES ASSUME TypeOK, NoRosterYet, RoomLater, [Next]_vars
             PROVE  RoomLater'
  OBVIOUS
<1> USE DEF RoomLater, redisVars, attemptVars, streamVars, boundVars
<1>0. attempt \in [Joins -> Attempts]
  BY DEF TypeOK
<1>1. ASSUME NEW j \in Joins, JoinStep(j)
      PROVE  RoomLater'
  <2>1. /\ UNCHANGED <<rooms, announced>>
        /\ \/ attempt' = attempt
           \/ /\ attempt' = [attempt EXCEPT ![j] = "asleep"]
              /\ attempt[j] = "none"
    BY <1>1 DEF JoinStep, JoinAdd, JoinDetails, JoinSchedule, NoRosterYet
  <2> QED BY <1>0, <2>1
<1>2. ASSUME NEW j \in Joins, TryLock(j) \/ TryPop(j) \/ TryReadd(j)
      PROVE  RoomLater'
  <2>1. /\ UNCHANGED <<rooms, announced>>
        /\ attempt[j] \in {"asleep", "pop", "readd"}
        /\ \E q \in {"pop", "readd", "lookup", "release", "done"} :
             attempt' = [attempt EXCEPT ![j] = q]
    BY <1>2 DEF TryLock, TryPop, TryReadd, Goto
  <2> QED BY <1>0, <2>1
<1>3. ASSUME NEW j \in Joins, NEW q \in Players, TryLookup(j, q)
      PROVE  RoomLater'
  BY <1>3 DEF TryLookup
<1>4. ASSUME NEW j \in Joins, TryCreate(j)
      PROVE  RoomLater'
  <2>1. /\ announced' = announced /\ attempt[j] = "lookup"
        /\ \/ /\ attempt' = [attempt EXCEPT ![j] = "publish"]
              /\ rooms' = rooms \cup {j}
           \/ /\ attempt' = [attempt EXCEPT ![j] = "release"]
              /\ rooms' \in {rooms, rooms \cup {j}}
    BY <1>4 DEF TryCreate, Goto
  <2> QED BY <1>0, <2>1
<1>5. ASSUME NEW j \in Joins, TryPublish(j)
      PROVE  RoomLater'
  <2>1. /\ rooms' = rooms /\ attempt[j] = "publish"
        /\ attempt' = [attempt EXCEPT ![j] = "deliver"]
        /\ announced \subseteq announced' /\ (~Faults => j \in announced')
    BY <1>5 DEF TryPublish, Goto
  <2> QED BY <1>0, <2>1
<1>6. ASSUME NEW j \in Joins, TryDeliver(j) \/ TryRelease(j)
      PROVE  RoomLater'
  <2>1. /\ UNCHANGED <<rooms, announced>>
        /\ \E q \in {"release", "done"} : attempt' = [attempt EXCEPT ![j] = q]
    BY <1>6 DEF TryDeliver, TryRelease, Goto
  <2> QED BY <1>0, <2>1
<1>7. ASSUME \/ \E s \in Subs : StreamStep(s)
             \/ \E q \in Players : LeaveStep(q) \/ DetailsExpire(q)
             \/ LockExpires \/ UNCHANGED vars
      PROVE  RoomLater'
  <2>1. UNCHANGED <<rooms, announced, attempt>>
    BY <1>7
    DEF StreamStep, Subscribe, Refresh, Receive, EndStream, Unregister,
        LeaveStep, LeaveRemove, LeaveForget, LeaveUnsubscribe, DetailsExpire,
        LockExpires, vars
  <2> QED BY <2>1
<1>8. ASSUME Restart
      PROVE  RoomLater'
  <2>1. /\ UNCHANGED <<rooms, announced>>
        /\ \A j \in Joins : attempt'[j] \in {"lost", attempt[j]}
    BY <1>8 DEF Restart
  <2> QED BY <2>1
<1> QED
  BY <1>1, <1>2, <1>3, <1>4, <1>5, <1>6, <1>7, <1>8 DEF Next, JoinStep, TryStep

LEMMA InvitedStays ==
  ASSUME TypeOK, RoomLater, [Next]_vars, NEW s \in Subs, NEW j \in Joins,
         Invited(s, j)
  PROVE  Invited(s, j)'
<1> USE DEF redisVars, attemptVars, streamVars, boundVars
<1>0. roster \in [Joins -> SUBSET Players]
  BY DEF TypeOK
<1>1. rooms \subseteq rooms' /\ announced \subseteq announced'
  BY DEF Next, JoinStep, JoinAdd, JoinDetails, JoinSchedule, TryStep, TryLock,
     TryPop, TryReadd, TryLookup, TryCreate, TryPublish, TryDeliver,
     TryRelease, StreamStep, Subscribe, Refresh, Receive, EndStream,
     Unregister, LeaveStep, LeaveRemove, LeaveForget, LeaveUnsubscribe,
     DetailsExpire, LockExpires, Restart, vars
<1>2. roster[j] \subseteq roster'[j]
  <2>1. CASE \E k \in Joins, q \in Players : TryLookup(k, q)
    BY <1>0, <2>1 DEF TryLookup
  <2>2. ASSUME NEW k \in Joins, TryCreate(k)
        PROVE  roster[j] \subseteq roster'[j]
    <3>1. k # j
      BY <2>2 DEF TryCreate, RoomLater, Invited
    <3> QED BY <1>0, <2>2, <3>1 DEF TryCreate
  <2>3. CASE Restart
    BY <1>0, <2>3 DEF Restart, Invited
  <2>4. CASE UNCHANGED roster
    BY <2>4
  <2> QED
    BY <2>1, <2>2, <2>3, <2>4
    DEF Next, JoinStep, JoinAdd, JoinDetails, JoinSchedule, TryStep, TryLock,
        TryPop, TryReadd, TryPublish, TryDeliver, TryRelease, StreamStep,
        Subscribe, Refresh, Receive, EndStream, Unregister, LeaveStep,
        LeaveRemove, LeaveForget, LeaveUnsubscribe, DetailsExpire,
        LockExpires, vars
<1> QED BY <1>1, <1>2 DEF Invited

LEMMA OwnChannelStep ==
  TypeOK /\ OwnChannel /\ [Next]_vars => OwnChannel'
<1> SUFFICES ASSUME TypeOK, OwnChannel, [Next]_vars
             PROVE  OwnChannel'
  OBVIOUS
<1> USE MatchmakingAssumption
     DEF OwnChannel, redisVars, attemptVars, streamVars, boundVars
<1>0. chans \in [Players -> Subs \cup {NoSub}] /\ NoSub \notin Subs
  BY DEF TypeOK
<1>1. ASSUME NEW s \in Subs, Subscribe(s)
      PROVE  OwnChannel'
  <2>1. chans' = [chans EXCEPT ![SubOwner[s]] = s]
    BY <1>1 DEF Subscribe
  <2> QED BY <1>0, <2>1
<1>2. CASE \E s \in Subs : Unregister(s)
  BY <1>0, <1>2 DEF Unregister
<1>3. CASE \E p \in Players : LeaveUnsubscribe(p)
  BY <1>0, <1>3 DEF LeaveUnsubscribe
<1>4. CASE Restart
  BY <1>0, <1>4 DEF Restart
<1>5. CASE UNCHANGED chans
  BY <1>5
<1> QED
  BY <1>1, <1>2, <1>3, <1>4, <1>5
  DEF Next, JoinStep, JoinAdd, JoinDetails, JoinSchedule, TryStep, TryLock,
      TryPop, TryReadd, TryLookup, TryCreate, TryPublish, TryDeliver,
      TryRelease, StreamStep, Refresh, Receive, EndStream, LeaveStep,
      LeaveRemove, LeaveForget, DetailsExpire, LockExpires, vars

\* Only TryDeliver puts an invitation on a channel.
LEMMA BoxInvitesStep ==
  TypeOK /\ MemberInv /\ [Next]_vars => BoxInvites'
<1> SUFFICES ASSUME TypeOK, MemberInv, [Next]_vars,
                    NEW s \in Subs, NEW j \in Joins,
                    NEW i \in 1..Len(box'[s]), box'[s][i] = j
             PROVE  Invited(s, j)'
  BY DEF BoxInvites
<1> USE MatchmakingAssumption DEF redisVars, attemptVars, streamVars, boundVars
<1>0. /\ box \in [Subs -> Seq(Joins \cup {Update})]
      /\ box[s] \in Seq(Joins \cup {Update})
  BY DEF TypeOK
<1>a. Invited(s, j) => Invited(s, j)'
  BY InvitedStays DEF MemberInv
<1>1. ASSUME NEW k \in 1..Len(box[s]), box[s][k] = j
      PROVE  Invited(s, j)'
  BY <1>a, <1>1 DEF MemberInv, BoxInvites
<1>2. CASE box'[s] = box[s]
  BY <1>1, <1>2
<1>3. CASE box'[s] = <<>>
  BY <1>3
<1>4. ASSUME NEW t \in Subs, Refresh(t), t = s
      PROVE  Invited(s, j)'
  <2>1. box'[s] = Append(box[s], Update)
    BY <1>0, <1>4 DEF Refresh
  <2>2. i \in 1..Len(box[s]) /\ box[s][i] = j
    BY <1>0, <2>1
  <2> QED BY <1>1, <2>2
<1>5. ASSUME NEW t \in Subs, Receive(t), t = s
      PROVE  Invited(s, j)'
  <2>1. box'[s] = Tail(box[s]) /\ box[s] # <<>>
    BY <1>0, <1>5 DEF Receive
  <2>2. i + 1 \in 1..Len(box[s]) /\ box[s][i + 1] = j
    BY <1>0, <2>1
  <2> QED BY <1>1, <2>2
<1>6. ASSUME NEW k \in Joins, TryDeliver(k), box'[s] # box[s]
      PROVE  Invited(s, j)'
  <2>1. box'[s] = Append(box[s], k) /\ s \in Audience(k)
    BY <1>6 DEF TryDeliver
  <2>2. CASE i \in 1..Len(box[s])
    <3>1. box[s][i] = j
      BY <1>0, <2>1, <2>2
    <3> QED BY <1>1, <2>2, <3>1
  <2>3. CASE i \notin 1..Len(box[s])
    <3>1. j = k
      BY <1>0, <2>1, <2>3
    <3>2. SubOwner[s] \in roster[j]
      BY <2>1, <3>1 DEF Audience, MemberInv, OwnChannel, TypeOK
    <3>3. j \in rooms /\ (~Faults => j \in announced)
      BY <1>6, <3>1 DEF TryDeliver, MemberInv, RoomLater
    <3> QED BY <1>a, <3>2, <3>3 DEF Invited
  <2> QED BY <2>2, <2>3
<1>7. ASSUME NEW t \in Subs, StreamStep(t)
      PROVE  Invited(s, j)'
  <2>1. CASE t = s
    BY <1>0, <1>2, <1>3, <1>4, <1>5, <1>7, <2>1
    DEF StreamStep, Subscribe, EndStream, Unregister
  <2>2. CASE t # s
    <3>1. box'[s] = box[s]
      BY <1>0, <1>7, <2>2
      DEF StreamStep, Subscribe, Refresh, Receive, EndStream, Unregister
    <3> QED BY <1>2, <3>1
  <2> QED BY <2>1, <2>2
<1>8. CASE Restart
  BY <1>3, <1>8 DEF Restart
<1>9. CASE UNCHANGED box
  BY <1>2, <1>9
<1> QED
  BY <1>2, <1>6, <1>7, <1>8, <1>9
  DEF Next, JoinStep, JoinAdd, JoinDetails, JoinSchedule, TryStep, TryLock,
      TryPop, TryReadd, TryLookup, TryCreate, TryPublish, TryRelease,
      LeaveStep, LeaveRemove, LeaveForget, LeaveUnsubscribe, DetailsExpire,
      LockExpires, vars

LEMMA ToldStep ==
  TypeOK /\ MemberInv /\ [Next]_vars => MatchFoundIsForMember'
<1> SUFFICES ASSUME TypeOK, MemberInv, [Next]_vars, TypeOK',
                    NEW s \in Subs, NEW j \in Joins, told'[s] = j
             PROVE  Invited(s, j)'
  BY TypeStep DEF MatchFoundIsForMember, Invited, TypeOK
<1> USE MatchmakingAssumption DEF redisVars, attemptVars, streamVars, boundVars
<1>0. /\ told \in [Subs -> Joins \cup {NoJoin}]
      /\ box[s] \in Seq(Joins \cup {Update})
  BY DEF TypeOK
<1>1. CASE told[s] = j
  <2>1. Invited(s, j)
    BY <1>1 DEF MemberInv, MatchFoundIsForMember, Invited
  <2> QED BY <2>1, InvitedStays DEF MemberInv
<1>2. ASSUME NEW t \in Subs, Receive(t), told[s] # j
      PROVE  Invited(s, j)'
  <2>1. box[s] # <<>> /\ j = Head(box[s])
    BY <1>0, <1>2 DEF Receive
  <2>2. 1 \in 1..Len(box[s]) /\ box[s][1] = j
    BY <1>0, <2>1
  <2>3. Invited(s, j)
    BY <2>2 DEF MemberInv, BoxInvites
  <2> QED BY <2>3, InvitedStays DEF MemberInv
<1>3. CASE UNCHANGED told
  BY <1>1, <1>3
<1> QED
  BY <1>1, <1>2, <1>3
  DEF Next, JoinStep, JoinAdd, JoinDetails, JoinSchedule, TryStep, TryLock,
      TryPop, TryReadd, TryLookup, TryCreate, TryPublish, TryDeliver,
      TryRelease, StreamStep, Subscribe, Refresh, EndStream, Unregister,
      LeaveStep, LeaveRemove, LeaveForget, LeaveUnsubscribe, DetailsExpire,
      LockExpires, Restart, vars

LEMMA MemberStep == TypeOK /\ NoRosterYet /\ MemberInv /\ [Next]_vars => MemberInv'
BY RoomLaterStep, OwnChannelStep, BoxInvitesStep, ToldStep DEF MemberInv

\* Nobody is told of a room that is not his, or not there, or not announced
\* (matchmaking.go:392-437).
THEOREM MatchFoundSound == Spec => []MatchFoundIsForMember
<1>1. MemberInv => MatchFoundIsForMember
  BY DEF MemberInv
<1> QED
  BY <1>1, MemberStep, TypeInit, TypeStep, RosterStep, SeatInit, MemberInit, PTL
  DEF Spec

----------------------------------------------------------------------------
(* The contract of pairing.  Its room is the roster of an attempt from the  *)
(* moment the room is stored.  The size of a room is bounded because an     *)
(* attempt pops no more players than a room holds, and finds no others;     *)
(* that every player gives a call for it is OneSeatPerJoin.                 *)

Asked  == {j \in Joins : join[j] # "idle"}
Stored == [j \in rooms |-> roster[j]]

\* The players that have called JoinMatchmaking.
Callers == {JoinOwner[j] : j \in Asked}

SizeInv ==
  \A j \in Joins :
    /\ attempt[j] = "lookup" => Cardinality(popped[j] \cup roster[j]) <= RoomSize
    /\ attempt[j] = "publish" => roster[j] # {}

ToldLast ==
  \A s \in Subs : stream[s] \in {"idle", "open"} => told[s] = NoJoin

LEMMA CallersFinite == IsFiniteSet(Callers)
<1>1. IsFiniteSet(Asked)
  BY MatchmakingAssumption, FS_Subset DEF Asked
<1> QED
  <2> DEFINE f == [j \in Asked |-> JoinOwner[j]]
  <2>1. f \in Surjection(Asked, Callers)
    BY DEF Surjection, Callers
  <2> HIDE DEF f
  <2>2. QED
    BY <1>1, <2>1, FS_Surjection

\* A player in the pool or with a seat has called.
LEMMA SeatedCalled ==
  ASSUME TypeOK, OneSeatPerJoin
  PROVE  /\ pool \subseteq Callers
         /\ \A j \in Joins : popped[j] \cup roster[j] \subseteq Callers
<1> SUFFICES ASSUME NEW p \in Players,
                    p \in pool \/ \E j \in Joins : p \in popped[j] \cup roster[j]
             PROVE  p \in Callers
  BY DEF TypeOK
<1>1. Cardinality(SeatsOf(p)) + InPool(p) <= Cardinality(JoinsOf(p))
  BY DEF OneSeatPerJoin
<1>2. Cardinality(SeatsOf(p)) + InPool(p) >= 1
  <2>1. SeatsOf(p) # {} => Cardinality(SeatsOf(p)) # 0
    BY SeatsFinite, FS_EmptySet
  <2>2. SeatsOf(p) # {} \/ InPool(p) = 1
    BY DEF SeatsOf, InPool
  <2>3. Cardinality(SeatsOf(p)) \in Nat /\ InPool(p) \in {0, 1}
    BY SeatsFinite DEF InPool
  <2> QED
    BY <2>1, <2>2, <2>3
<1>3. JoinsOf(p) # {}
  <2>1. Cardinality(JoinsOf(p)) # 0
    BY <1>1, <1>2, SeatsFinite DEF InPool
  <2> QED
    BY <2>1, FS_EmptySet
<1> QED
  BY <1>3 DEF JoinsOf, Callers, Asked

\* What any set of callers of an attempt has.
LEMMA CallersCount ==
  ASSUME NEW S, NEW T, S \subseteq T, T \subseteq Callers
  PROVE  /\ IsFiniteSet(S) /\ Cardinality(S) \in Nat /\ Cardinality(T) \in Nat
         /\ Cardinality(S) <= Cardinality(T)
BY CallersFinite, FS_Subset, FS_CardinalityType

LEMMA SizeStep ==
  ASSUME TypeOK, TypeOK', NoRosterYet, OneSeatPerJoin, OneSeatPerJoin', SizeInv,
         [Next]_vars
  PROVE  SizeInv'
<1> USE MatchmakingAssumption
     DEF redisVars, attemptVars, streamVars, boundVars, Goto
<1>0. /\ attempt \in [Joins -> Attempts] /\ roster \in [Joins -> SUBSET Players]
      /\ popped \in [Joins -> SUBSET Players]
  BY DEF TypeOK
<1>1. ASSUME NEW j \in Joins,
             JoinStep(j) \/ TryLock(j) \/ TryReadd(j) \/ TryPublish(j)
             \/ TryDeliver(j) \/ TryRelease(j)
      PROVE  SizeInv'
  <2>1. /\ roster' = roster /\ \A k \in Joins \ {j} : popped'[k] = popped[k]
        /\ \A k \in Joins \ {j} : attempt'[k] = attempt[k]
        /\ attempt'[j] \in {"lookup", "publish"} =>
             attempt'[j] = attempt[j] /\ popped'[j] = popped[j]
    BY <1>0, <1>1
    DEF JoinStep, JoinAdd, JoinDetails, JoinSchedule, TryLock, TryReadd,
        TryPublish, TryDeliver, TryRelease
  <2> QED
    BY <2>1 DEF SizeInv
<1>2. ASSUME NEW j \in Joins, TryPop(j)
      PROVE  SizeInv'
  <2>1. /\ roster' = roster /\ roster[j] = {}
        /\ \A k \in Joins \ {j} : popped'[k] = popped[k] /\ attempt'[k] = attempt[k]
        /\ attempt'[j] # "publish"
    BY <1>0, <1>2 DEF TryPop, NoRosterYet
  <2>2. attempt'[j] = "lookup" => popped'[j] \in Poppable
    BY <1>0, <1>2 DEF TryPop
  <2>3. \A S \in Poppable : Cardinality(S) <= RoomSize
    <3>1. \A S \in Poppable : Cardinality(S) \in Nat
      BY SeatedCalled, CallersCount DEF Poppable
    <3> QED
      BY <3>1 DEF Poppable
  <2>4. popped'[j] \cup roster'[j] = popped'[j]
    BY <2>1
  <2> QED
    BY <2>1, <2>2, <2>3, <2>4 DEF SizeInv
<1>3. ASSUME NEW j \in Joins, NEW q \in Players, TryLookup(j, q)
      PROVE  SizeInv'
  <2>1. /\ attempt' = attempt /\ attempt[j] = "lookup"
        /\ popped'[j] \cup roster'[j] \subseteq popped[j] \cup roster[j]
        /\ \A k \in Joins \ {j} : popped'[k] = popped[k] /\ roster'[k] = roster[k]
    BY <1>0, <1>3 DEF TryLookup
  <2>2. Cardinality(popped'[j] \cup roster'[j])
          <= Cardinality(popped[j] \cup roster[j])
        /\ Cardinality(popped'[j] \cup roster'[j]) \in Nat
        /\ Cardinality(popped[j] \cup roster[j]) \in Nat
    BY <2>1, SeatedCalled, CallersCount
  <2>3. ASSUME NEW k \in Joins
        PROVE  /\ attempt'[k] = "lookup" =>
                    Cardinality(popped'[k] \cup roster'[k]) <= RoomSize
               /\ attempt'[k] = "publish" => roster'[k] # {}
    <3>1. CASE k = j
      BY <2>1, <2>2, <3>1 DEF SizeInv
    <3>2. CASE k # j
      BY <2>1, <3>2 DEF SizeInv
    <3> QED
      BY <3>1, <3>2
  <2> QED
    BY <2>3 DEF SizeInv
<1>4. ASSUME NEW j \in Joins, TryCreate(j)
      PROVE  SizeInv'
  <2>1. /\ popped' = popped
        /\ \A k \in Joins \ {j} : attempt'[k] = attempt[k] /\ roster'[k] = roster[k]
        /\ attempt'[j] \in {"publish", "release"}
        /\ attempt'[j] = "publish" =>
             roster'[j] = roster[j] /\ Cardinality(roster[j]) >= MinPlayers
    BY <1>0, <1>4 DEF TryCreate
  <2>2. Cardinality(roster[j]) >= MinPlayers => roster[j] # {}
    BY FS_EmptySet
  <2> QED
    BY <2>1, <2>2 DEF SizeInv
<1>5. CASE Restart
  <2>1. \A k \in Joins : attempt'[k] \notin {"lookup", "publish"}
    BY <1>0, <1>5 DEF Restart, Holding
  <2> QED
    BY <2>1 DEF SizeInv
<1>6. CASE UNCHANGED <<attempt, popped, roster>>
  BY <1>6 DEF SizeInv
<1> QED
  BY <1>1, <1>2, <1>3, <1>4, <1>5, <1>6
  DEF Next, TryStep, StreamStep, Subscribe, Refresh, Receive, EndStream,
      Unregister, LeaveStep, LeaveRemove, LeaveForget, LeaveUnsubscribe,
      DetailsExpire, LockExpires, vars

LEMMA ToldLastStep ==
  ASSUME TypeOK, ToldLast, [Next]_vars
  PROVE  ToldLast'
<1> USE DEF ToldLast, redisVars, attemptVars, streamVars, boundVars
<1>0. /\ stream \in [Subs -> {"idle", "open", "ending", "closed"}]
      /\ told \in [Subs -> Joins \cup {NoJoin}]
  BY DEF TypeOK
<1>1. ASSUME NEW s \in Subs, StreamStep(s)
      PROVE  ToldLast'
  BY <1>0, <1>1
  DEF StreamStep, Subscribe, Refresh, Receive, EndStream, Unregister
<1>2. CASE Restart
  BY <1>0, <1>2 DEF Restart
<1>3. CASE UNCHANGED <<stream, told>>
  BY <1>3
<1> QED
  BY <1>1, <1>2, <1>3
  DEF Next, JoinStep, JoinAdd, JoinDetails, JoinSchedule, TryStep, TryLock,
      TryPop, TryReadd, TryLookup, TryCreate, TryPublish, TryDeliver,
      TryRelease, LeaveStep, LeaveRemove, LeaveForget, LeaveUnsubscribe,
      DetailsExpire, LockExpires, vars

PairInv ==
  TypeOK /\ NoRosterYet /\ OneSeatPerJoin /\ MemberInv /\ SizeInv /\ ToldLast

\* A step that no room, announcement, call or client sees.
Unseen == Asked' = Asked /\ Stored' = Stored /\ UNCHANGED <<announced, told>>

LEMMA UnseenStutters ==
  ASSUME Unseen
  PROVE  UNCHANGED Contract!pairingVars
BY DEF Unseen, Asked, Stored, Contract!pairingVars

LEMMA StoredKept ==
  ASSUME rooms' = rooms, \A j \in rooms : roster'[j] = roster[j]
  PROVE  Stored' = Stored
BY DEF Stored

\* The contract counts as this module does.
LEMMA SameCount ==
  ASSUME NEW S
  PROVE  Contract!Cardinality(S) = Cardinality(S)
BY DEF Contract!Cardinality, Cardinality, Contract!IsFiniteSet, IsFiniteSet

\* CreateRoom: a room of the attempt's own, with what it has found.
LEMMA CreateForms ==
  ASSUME PairInv, NEW j \in Joins, TryCreate(j)
  PROVE  Unseen \/ \E S \in SUBSET Callers : Contract!Form(j, S)
<1> USE MatchmakingAssumption DEF redisVars, attemptVars, streamVars, boundVars
<1>0. /\ TypeOK /\ roster \in [Joins -> SUBSET Players]
      /\ attempt[j] = "lookup" /\ popped[j] = {}
      /\ rooms \subseteq Joins /\ j \notin rooms
  BY DEF PairInv, MemberInv, RoomLater, TypeOK, TryCreate
<1>1. /\ Asked' = Asked /\ UNCHANGED <<announced, told>>
      /\ \A k \in Joins \ {j} : roster'[k] = roster[k]
  BY <1>0 DEF TryCreate, Asked
<1>2. CASE rooms' = rooms
  BY <1>0, <1>1, <1>2, StoredKept DEF Unseen
<1>3. CASE rooms' # rooms
  <2>1. /\ rooms' = rooms \cup {j}
        /\ \/ roster'[j] = roster[j] /\ Cardinality(roster[j]) >= MinPlayers
           \/ roster'[j] = {} /\ Faults
    BY <1>0, <1>3 DEF TryCreate
  <2>2. Stored' = [q \in rooms \cup {j} |-> IF q = j THEN roster'[j] ELSE Stored[q]]
    BY <1>0, <1>1, <2>1 DEF Stored
  <2>3. DOMAIN Stored = rooms
    BY DEF Stored
  <2>4. roster[j] \subseteq Callers /\ Cardinality(roster[j]) <= RoomSize
        /\ Cardinality(roster[j]) \in Nat
    <3>1. popped[j] \cup roster[j] = roster[j]
      BY <1>0
    <3> QED
      BY <1>0, <3>1, SeatedCalled, CallersCount DEF PairInv, SizeInv
  <2>5. ASSUME NEW p \in roster[j]
        PROVE  Cardinality(Contract!RoomsOf(p)) < Cardinality(Contract!CallsOf(p))
    <3>1. p \in Players /\ j \in SeatsOf(p)
      BY <1>0 DEF SeatsOf
    <3>2. Contract!CallsOf(p) = JoinsOf(p)
      BY DEF Contract!CallsOf, JoinsOf
    <3>3. Contract!RoomsOf(p) \subseteq SeatsOf(p) \ {j}
      BY <1>0 DEF Contract!RoomsOf, SeatsOf
    <3>4. /\ IsFiniteSet(SeatsOf(p) \ {j})
          /\ Cardinality(SeatsOf(p) \ {j}) = Cardinality(SeatsOf(p)) - 1
      BY <3>1, SeatsFinite, FS_RemoveElement
    <3>5. /\ Cardinality(Contract!RoomsOf(p)) <= Cardinality(SeatsOf(p) \ {j})
          /\ Cardinality(Contract!RoomsOf(p)) \in Nat
      BY <3>3, <3>4, FS_Subset, FS_CardinalityType
    <3>6. Cardinality(SeatsOf(p)) + InPool(p) <= Cardinality(JoinsOf(p))
          /\ InPool(p) \in {0, 1}
      BY <3>1 DEF PairInv, OneSeatPerJoin, InPool
    <3> QED
      BY <3>2, <3>4, <3>5, <3>6, SeatsFinite
  <2>6. CASE roster'[j] = roster[j] /\ Cardinality(roster[j]) >= MinPlayers
    <3>1. PICK S \in SUBSET Callers : S = roster[j]
      BY <2>4
    <3>2. j \notin DOMAIN Stored
      BY <1>0, <2>3
    <3>3. Stored' = [q \in DOMAIN Stored \cup {j} |-> IF q = j THEN S ELSE Stored[q]]
      BY <2>2, <2>3, <2>6, <3>1
    <3>4. /\ Cardinality(S) \in MinPlayers..RoomSize
          /\ \A p \in S :
               Cardinality(Contract!RoomsOf(p)) < Cardinality(Contract!CallsOf(p))
      BY <2>4, <2>5, <2>6, <3>1
    <3>5. Contract!Form(j, S)
      BY <1>1, <3>2, <3>3, <3>4, SameCount DEF Contract!Form, Stored, Asked
    <3> QED
      BY <3>5
  <2>7. CASE roster'[j] = {} /\ Faults
    <3>1. Contract!Form(j, {})
      BY <1>0, <1>1, <2>2, <2>3, <2>7 DEF Contract!Form, Stored, Asked
    <3> QED
      BY <3>1
  <2> QED
    BY <2>1, <2>6, <2>7
<1> QED
  BY <1>2, <1>3

LEMMA PairingStep ==
  ASSUME PairInv, [Next]_vars
  PROVE  [Contract!Next]_(Contract!pairingVars)
<1> USE MatchmakingAssumption DEF redisVars, attemptVars, streamVars, boundVars
<1>0. /\ TypeOK /\ rooms \subseteq Joins
      /\ roster \in [Joins -> SUBSET Players]
      /\ join \in [Joins -> {"idle", "added", "detailed", "done", "failed"}]
  BY DEF PairInv, TypeOK
<1> SUFFICES Unseen \/ Contract!Next
  BY UnseenStutters
<1>1. ASSUME NEW j \in Joins, JoinAdd(j)
      PROVE  Contract!Next
  <2>1. /\ UNCHANGED <<rooms, roster, announced, told>>
        /\ join'[j] # "idle" /\ \A k \in Joins \ {j} : join'[k] = join[k]
    BY <1>0, <1>1 DEF JoinAdd
  <2>2. Contract!Ask(j)
    BY <2>1 DEF Contract!Ask
  <2> QED
    BY <2>2 DEF Contract!Next
<1>2. ASSUME NEW j \in Joins, JoinDetails(j) \/ JoinSchedule(j)
      PROVE  Unseen
  <2>1. /\ UNCHANGED <<rooms, roster, announced, told>>
        /\ \A k \in Joins : join'[k] = "idle" <=> join[k] = "idle"
    BY <1>0, <1>2 DEF JoinDetails, JoinSchedule
  <2> QED
    BY <2>1, StoredKept DEF Unseen, Asked
<1>3. ASSUME NEW j \in Joins, NEW q \in Players, TryLookup(j, q)
      PROVE  Unseen
  <2>1. /\ UNCHANGED <<rooms, announced, told, join>> /\ j \notin rooms
        /\ \A k \in Joins \ {j} : roster'[k] = roster[k]
    BY <1>0, <1>3 DEF TryLookup, PairInv, MemberInv, RoomLater
  <2> QED
    BY <1>0, <2>1, StoredKept DEF Unseen, Asked
<1>4. ASSUME NEW j \in Joins, TryCreate(j)
      PROVE  Unseen \/ Contract!Next
  BY <1>4, CreateForms DEF Contract!Next, Callers, Asked
<1>5. ASSUME NEW j \in Joins, TryPublish(j)
      PROVE  Unseen \/ Contract!Next
  <2>1. UNCHANGED <<rooms, roster, join, told>> /\ j \in rooms /\ roster[j] # {}
        /\ (announced' = announced \/ announced' = announced \cup {j})
    BY <1>5 DEF TryPublish, PairInv, MemberInv, RoomLater, SizeInv
  <2>2. CASE announced' = announced
    BY <2>1, <2>2, StoredKept DEF Unseen, Asked
  <2>3. CASE announced' = announced \cup {j}
    <3>1. Contract!Announce(j)
      BY <2>1, <2>3 DEF Contract!Announce
    <3> QED
      BY <3>1 DEF Contract!Next
  <2> QED
    BY <2>1, <2>2, <2>3
<1>6. ASSUME NEW s \in Subs, Receive(s)
      PROVE  Unseen \/ Contract!Next
  <2>1. /\ UNCHANGED <<rooms, roster, join, announced>>
        /\ stream[s] = "open" /\ box[s] # <<>>
        /\ \/ told' = told
           \/ /\ Head(box[s]) # Update
              /\ told' = [told EXCEPT ![s] = Head(box[s])]
    BY <1>6 DEF Receive
  <2>2. CASE told' = told
    BY <2>1, <2>2, StoredKept DEF Unseen, Asked
  <2>3. ASSUME Head(box[s]) # Update, told' = [told EXCEPT ![s] = Head(box[s])]
        PROVE  Contract!Next
    <3>1. box[s] \in Seq(Joins \cup {Update})
      BY <1>0 DEF TypeOK
    <3>2. Head(box[s]) \in Joins /\ 1 \in 1..Len(box[s]) /\ box[s][1] = Head(box[s])
      BY <2>1, <2>3, <3>1
    <3>3. Invited(s, Head(box[s]))
      BY <3>2 DEF PairInv, MemberInv, BoxInvites
    <3>4. told[s] = NoJoin
      BY <2>1 DEF PairInv, ToldLast
    <3>5. Contract!Tell(s, Head(box[s]))
      BY <2>1, <2>3, <3>3, <3>4 DEF Contract!Tell, Invited
    <3> QED
      BY <3>2, <3>5 DEF Contract!Next
  <2> QED
    BY <2>1, <2>2, <2>3
<1>7. CASE Restart
  <2>1. /\ UNCHANGED <<rooms, announced, told>>
        /\ \A k \in rooms : roster'[k] = roster[k]
        /\ \A k \in Joins : join'[k] = "idle" <=> join[k] = "idle"
    BY <1>0, <1>7 DEF Restart
  <2> QED
    BY <2>1, StoredKept DEF Unseen, Asked
<1>8. CASE UNCHANGED <<rooms, roster, join, announced, told>>
  BY <1>8, StoredKept DEF Unseen, Asked
<1> QED
  BY <1>1, <1>2, <1>3, <1>4, <1>5, <1>6, <1>7, <1>8
  DEF Next, JoinStep, TryStep, TryLock, TryPop, TryReadd, TryDeliver,
      TryRelease, StreamStep, Subscribe, Refresh, EndStream, Unregister,
      LeaveStep, LeaveRemove, LeaveForget, LeaveUnsubscribe, DetailsExpire,
      LockExpires, vars

LEMMA PairInit == Init => PairInv /\ Contract!Init
<1> SUFFICES ASSUME Init
             PROVE  PairInv /\ Contract!Init
  OBVIOUS
<1>1. PairInv
  BY TypeInit, SeatInit, MemberInit DEF PairInv, Init, SizeInv, ToldLast
<1>2. Contract!Init
  BY DEF Init, Contract!Init
<1> QED
  BY <1>1, <1>2

\* Rooms have the right size and keep their players, nobody is in more of
\* them than he has asked for, and whoever is told of one is in it and is
\* told once: the code keeps the contract (matchmaking.go:339-437).
THEOREM ContractKept == Spec => ContractSpec
<1>1. PairInv /\ [Next]_vars => PairInv'
  <2> SUFFICES ASSUME PairInv, [Next]_vars
               PROVE  PairInv'
    OBVIOUS
  <2>1. TypeOK' /\ NoRosterYet' /\ OneSeatPerJoin'
    BY TypeStep, RosterStep, SeatsStep DEF PairInv
  <2>2. MemberInv'
    BY MemberStep DEF PairInv
  <2>3. SizeInv' /\ ToldLast'
    BY <2>1, SizeStep, ToldLastStep DEF PairInv
  <2> QED
    BY <2>1, <2>2, <2>3 DEF PairInv
<1>2. PairInv /\ [Next]_vars => [Contract!Next]_(Contract!pairingVars)
  BY PairingStep
<1> QED
  BY <1>1, <1>2, PairInit, PTL DEF Spec, ContractSpec, Contract!Spec

----------------------------------------------------------------------------
(* The pool is watched.  An attempt that finds the lock taken gives up, so  *)
(* what has to be shown is that the holder still pops the players, or that  *)
(* somebody who joined under the holder's lock comes later: he waits until  *)
(* that lock is gone and so cannot lose to it.  The players that the holder *)
(* will add again count as if they were in the pool.                        *)

\* Calls do not fail, no lock outlives its TTL, the service does not restart,
\* two are enough for a match, and a room holds all the players there are.
Quiet ==
  /\ ~Faults /\ MaxRestarts = 0 /\ MaxExpiries = 0 /\ MinPlayers <= 2
  /\ IsFiniteSet(Players) /\ Cardinality(Players) <= RoomSize

Returning(k) == IF attempt[k] = "readd" THEN popped[k] ELSE {}

\* The lock's holder has popped, and there are again enough players.
Refilled ==
  /\ lock # NoJoin /\ attempt[lock] # "pop"
  /\ Cardinality(pool \cup Returning(lock)) >= MinPlayers

HolderAtWork == expired = {} /\ (lock # NoJoin => attempt[lock] \in Holding)
FewReturn    == \A j \in Joins :
                  attempt[j] = "readd" => Cardinality(popped[j]) < MinPlayers
LaterComes   == Refilled => \E m \in Joins : Coming(m) /\ before[m] = lock

WatchInv == HolderAtWork /\ FewReturn /\ PoolWatched /\ LaterComes

WatchTypes == TypeOK /\ NoRosterYet /\ LockHeldUnlessExpired

LEMMA CountsGrow ==
  ASSUME Quiet, NEW S \in SUBSET Players, NEW T \in SUBSET S
  PROVE  /\ Cardinality(S) \in Nat /\ Cardinality(T) \in Nat
         /\ Cardinality(T) <= Cardinality(S)
<1>1. IsFiniteSet(S)
  BY FS_Subset DEF Quiet
<1>2. IsFiniteSet(T) /\ Cardinality(T) <= Cardinality(S)
  BY <1>1, FS_Subset
<1> QED BY <1>1, <1>2, FS_CardinalityType

\* ZPOPMIN takes the whole pool.
LEMMA PopsAll ==
  ASSUME Quiet, TypeOK, NEW S \in Poppable
  PROVE  S = pool
<1>1. IsFiniteSet(pool) /\ pool \in SUBSET Players /\ S \in SUBSET pool
  BY FS_Subset DEF Quiet, TypeOK, Poppable
<1>2. CASE Cardinality(S) = RoomSize
  <2>1. Cardinality(pool) <= Cardinality(Players)
    BY <1>1, CountsGrow
  <2>2. Cardinality(S) <= Cardinality(pool) /\ Cardinality(pool) \in Nat
        /\ Cardinality(S) \in Nat /\ Cardinality(Players) \in Nat
    BY <1>1, CountsGrow
  <2>3. Cardinality(pool) = Cardinality(S)
    BY <1>2, <2>1, <2>2, MatchmakingAssumption DEF Quiet
  <2> QED BY <1>1, <2>3, FS_Subset
<1> QED BY <1>2 DEF Poppable

LEMMA WatchInit == Init => WatchInv
<1> SUFFICES ASSUME Init
             PROVE  WatchInv
  OBVIOUS
<1>1. Cardinality(pool) = 0
  BY FS_EmptySet DEF Init
<1> QED
  BY <1>1, MatchmakingAssumption
  DEF Init, WatchInv, HolderAtWork, FewReturn, PoolWatched, LaterComes, Refilled

\* What changes neither the pool nor the attempts that are to come.
Unwatched ==
  /\ UNCHANGED <<lock, join, attempt, popped, before, expired>>
  /\ pool' \subseteq pool

LEMMA UnwatchedStep ==
  ASSUME Quiet, WatchTypes, WatchInv, Unwatched
  PROVE  WatchInv'
<1>1. UNCHANGED <<HolderAtWork, FewReturn>>
  BY DEF Unwatched, HolderAtWork, FewReturn
<1>2. pool \in SUBSET Players /\ pool' \in SUBSET pool
  BY DEF Unwatched, WatchTypes, TypeOK
<1>3. PoolWatched'
  <2>1. Cardinality(pool') >= MinPlayers => Cardinality(pool) >= MinPlayers
    BY <1>2, CountsGrow, MatchmakingAssumption
  <2> QED BY <2>1 DEF Unwatched, WatchInv, PoolWatched, Coming
<1>4. LaterComes'
  <2>1. CASE lock # NoJoin
    <3>1. Returning(lock)' = Returning(lock) /\ Returning(lock) \subseteq Players
      BY <2>1 DEF Unwatched, Returning, WatchTypes, TypeOK
    <3>2. Cardinality((pool \cup Returning(lock))') >= MinPlayers
            => Cardinality(pool \cup Returning(lock)) >= MinPlayers
      BY <1>2, <3>1, CountsGrow, MatchmakingAssumption
    <3> QED
      BY <2>1, <3>2 DEF Unwatched, WatchInv, LaterComes, Refilled, Coming
  <2> QED BY <2>1 DEF Unwatched, LaterComes, Refilled
<1> QED BY <1>1, <1>3, <1>4 DEF WatchInv

LEMMA JoinWatched ==
  ASSUME Quiet, WatchTypes, WatchInv, NEW j \in Joins, JoinStep(j)
  PROVE  WatchInv'
<1> USE DEF redisVars, attemptVars, streamVars, boundVars
<1>0. /\ join \in [Joins -> {"idle", "added", "detailed", "done", "failed"}]
      /\ attempt \in [Joins -> Attempts] /\ before \in [Joins -> Joins \cup {NoJoin}]
      /\ popped \in [Joins -> SUBSET Players] /\ pool \in SUBSET Players
      /\ lock \in Joins \cup {NoJoin} /\ attempt[j] = "none"
  BY DEF WatchTypes, TypeOK, NoRosterYet, JoinStep, JoinAdd, JoinDetails,
         JoinSchedule
<1>1. CASE JoinAdd(j) \/ JoinDetails(j)
  <2>1. /\ UNCHANGED <<lock, attempt, popped, expired>>
        /\ \/ join[j] = "idle" /\ before' = [before EXCEPT ![j] = lock]
              /\ join' = [join EXCEPT ![j] = "added"]
           \/ UNCHANGED <<before, pool>> /\ join' = [join EXCEPT ![j] = "detailed"]
              /\ join[j] = "added"
    BY <1>1 DEF JoinAdd, JoinDetails, Quiet
  <2>2. HolderAtWork' /\ FewReturn'
    BY <2>1 DEF WatchInv, HolderAtWork, FewReturn
  <2>3. Coming(j)'
    BY <1>0, <2>1 DEF Coming
  <2>4. PoolWatched'
    BY <2>3 DEF PoolWatched
  <2>5. LaterComes'
    <3>1. CASE before' = [before EXCEPT ![j] = lock]
      BY <1>0, <2>1, <2>3, <3>1 DEF LaterComes
    <3>2. CASE UNCHANGED <<before, pool>> /\ join' = [join EXCEPT ![j] = "detailed"]
      <4>1. \A m \in Joins : Coming(m) => Coming(m)'
        BY <1>0, <2>1, <3>2 DEF Coming
      <4>2. Refilled' => Refilled
        BY <2>1, <3>2 DEF Refilled, Returning
      <4> QED BY <2>1, <3>2, <4>1, <4>2 DEF WatchInv, LaterComes
    <3> QED BY <2>1, <3>1, <3>2
  <2> QED BY <2>2, <2>4, <2>5 DEF WatchInv
<1>2. CASE JoinSchedule(j)
  <2>1. /\ UNCHANGED <<pool, lock, popped, before, expired>>
        /\ join' = [join EXCEPT ![j] = "done"]
        /\ attempt' = IF Cardinality(pool) = 1 \/ Cardinality(pool) >= MinPlayers
                        THEN [attempt EXCEPT ![j] = "asleep"] ELSE attempt
    BY <1>2 DEF JoinSchedule, Quiet
  <2>2. lock # j
    BY <1>0, MatchmakingAssumption DEF WatchInv, HolderAtWork, Holding
  <2>3. HolderAtWork' /\ FewReturn'
    BY <1>0, <2>1, <2>2 DEF WatchInv, HolderAtWork, FewReturn
  <2>4. CASE attempt' = [attempt EXCEPT ![j] = "asleep"]
    <3>1. Coming(j)' /\ \A m \in Joins : Coming(m) => Coming(m)'
      BY <1>0, <2>1, <2>4 DEF Coming
    <3>2. Refilled' => Refilled
      BY <1>0, <2>1, <2>2, <2>4 DEF Refilled, Returning
    <3>3. PoolWatched' /\ LaterComes'
      BY <2>1, <3>1, <3>2 DEF WatchInv, PoolWatched, LaterComes
    <3> QED BY <2>3, <3>3 DEF WatchInv
  <2>5. CASE ~(Cardinality(pool) = 1 \/ Cardinality(pool) >= MinPlayers)
    <3>1. pool = {}
      <4>1. IsFiniteSet(pool) /\ Cardinality(pool) \in Nat
        BY <1>0, CountsGrow, FS_Subset DEF Quiet
      <4>2. Cardinality(pool) = 0
        BY <2>5, <4>1, MatchmakingAssumption DEF Quiet
      <4> QED BY <4>1, <4>2, FS_EmptySet
    <3>2. ~Refilled'
      <4>0. Refilled' => /\ lock # NoJoin
                         /\ Cardinality((pool \cup Returning(lock))') >= MinPlayers
        BY <2>1 DEF Refilled
      <4>1. CASE lock \in Joins /\ attempt[lock] = "readd"
        <5>1. Returning(lock)' = popped[lock] /\ pool' = {}
          BY <1>0, <2>1, <2>5, <3>1, <4>1 DEF Returning
        <5>2. Cardinality(popped[lock]) < MinPlayers
          BY <4>1 DEF WatchInv, FewReturn
        <5>3. Cardinality(popped[lock]) \in Nat
          BY <1>0, <4>1, CountsGrow
        <5>4. (pool \cup Returning(lock))' = popped[lock]
          BY <2>1, <5>1
        <5>5. Cardinality((pool \cup Returning(lock))') < MinPlayers
          BY <5>2, <5>4
        <5> QED BY <4>0, <5>3, <5>4, <5>5, MatchmakingAssumption
      <4>2. CASE ~(lock \in Joins /\ attempt[lock] = "readd")
        <5>1. lock \in Joins => (pool \cup Returning(lock))' = {}
          BY <2>1, <2>5, <3>1, <4>2 DEF Returning
        <5>2. lock \in Joins => Cardinality((pool \cup Returning(lock))') = 0
          BY <5>1, FS_EmptySet
        <5> QED BY <1>0, <2>1, <4>0, <5>2, MatchmakingAssumption
      <4> QED BY <4>1, <4>2
    <3>3. PoolWatched'
      BY <2>1, <3>1, FS_EmptySet, MatchmakingAssumption DEF PoolWatched
    <3> QED BY <2>3, <3>2, <3>3 DEF WatchInv, LaterComes
  <2> QED BY <2>1, <2>4, <2>5
<1> QED BY <1>1, <1>2 DEF JoinStep

LEMMA LockWatched ==
  ASSUME Quiet, WatchTypes, WatchInv, NEW j \in Joins, TryLock(j)
  PROVE  WatchInv'
<1> USE DEF redisVars, attemptVars, streamVars, boundVars
<1>0. /\ attempt \in [Joins -> Attempts] /\ popped \in [Joins -> SUBSET Players]
      /\ pool \in SUBSET Players /\ lock \in Joins \cup {NoJoin}
  BY DEF WatchTypes, TypeOK
<1>1. /\ UNCHANGED <<pool, join, popped, before, expired>> /\ attempt[j] = "asleep"
      /\ before[j] = NoJoin \/ lock # before[j]
      /\ \/ lock = NoJoin /\ lock' = j /\ attempt' = [attempt EXCEPT ![j] = "pop"]
         \/ lock # NoJoin /\ lock' = lock /\ attempt' = [attempt EXCEPT ![j] = "done"]
  BY DEF TryLock, Quiet, Goto
<1>2. FewReturn'
  BY <1>0, <1>1 DEF WatchInv, FewReturn
<1>3. CASE lock = NoJoin
  <2>1. lock' = j /\ attempt'[j] = "pop"
    BY <1>0, <1>1, <1>3
  <2>2. HolderAtWork'
    BY <1>1, <2>1 DEF WatchInv, HolderAtWork, Holding
  <2>3. PoolWatched' /\ LaterComes'
    BY <2>1 DEF PoolWatched, LaterComes, Refilled
  <2> QED BY <1>2, <2>2, <2>3 DEF WatchInv
<1>4. CASE lock # NoJoin
  <2>1. lock \in Joins /\ lock # j /\ attempt[lock] \in Holding
    BY <1>0, <1>1, <1>4 DEF WatchInv, HolderAtWork, Holding
  <2>2. lock' = lock /\ \A k \in Joins \ {j} : attempt'[k] = attempt[k]
    BY <1>0, <1>1, <1>4
  <2>3. HolderAtWork'
    BY <1>1, <2>1, <2>2 DEF WatchInv, HolderAtWork
  <2>4. Returning(lock)' = Returning(lock)
    BY <1>1, <2>1, <2>2 DEF Returning
  <2>5. Refilled' => Refilled
    BY <1>1, <2>1, <2>2, <2>4 DEF Refilled
  <2>6. ASSUME Refilled
        PROVE  \E m \in Joins : Coming(m)' /\ before'[m] = lock
    <3>1. PICK m \in Joins : Coming(m) /\ before[m] = lock
      BY <2>6 DEF WatchInv, LaterComes
    <3>2. m # j
      BY <1>1, <1>4, <3>1
    <3> QED BY <1>1, <2>2, <3>1, <3>2 DEF Coming
  <2>7. LaterComes'
    BY <2>2, <2>5, <2>6 DEF LaterComes
  <2>8. PoolWatched'
    <3> SUFFICES ASSUME Cardinality(pool) >= MinPlayers, attempt[lock] # "pop"
                 PROVE  \E m \in Joins : Coming(m)'
      BY <1>1, <2>1, <2>2 DEF PoolWatched
    <3>1. Returning(lock) \subseteq Players
      BY <1>0, <2>1 DEF Returning
    <3>2. Cardinality(pool \cup Returning(lock)) >= MinPlayers
      <4>1. /\ pool \cup Returning(lock) \in SUBSET Players
            /\ pool \in SUBSET (pool \cup Returning(lock))
        BY <1>0, <3>1
      <4>2. /\ Cardinality(pool) \in Nat
            /\ Cardinality(pool \cup Returning(lock)) \in Nat
            /\ Cardinality(pool) <= Cardinality(pool \cup Returning(lock))
        BY <4>1, CountsGrow
      <4> QED BY <4>2, MatchmakingAssumption
    <3> QED BY <1>4, <2>6, <3>2 DEF Refilled
  <2> QED BY <1>2, <2>3, <2>7, <2>8 DEF WatchInv
<1> QED BY <1>3, <1>4

LEMMA PopWatched ==
  ASSUME Quiet, WatchTypes, WatchInv, NEW j \in Joins, TryPop(j)
  PROVE  WatchInv'
<1> USE DEF redisVars, attemptVars, streamVars, boundVars
<1>0. /\ attempt \in [Joins -> Attempts] /\ popped \in [Joins -> SUBSET Players]
      /\ pool \in SUBSET Players /\ lock \in Joins \cup {NoJoin}
  BY DEF WatchTypes, TypeOK
<1>1. PICK S \in Poppable :
        /\ pool' = pool \ S /\ popped' = [popped EXCEPT ![j] = S]
        /\ attempt' = [attempt EXCEPT ![j] =
                         IF Cardinality(S) < MinPlayers THEN "readd" ELSE "lookup"]
        /\ attempt[j] = "pop" /\ UNCHANGED <<lock, join, before, expired>>
  BY DEF TryPop, Quiet, Goto
<1>2. pool' = {}
  BY <1>1, PopsAll DEF WatchTypes
<1>3. lock = j
  BY <1>1 DEF WatchTypes, LockHeldUnlessExpired, WatchInv, HolderAtWork, Holding
<1>4. HolderAtWork'
  BY <1>0, <1>1, <1>3 DEF WatchInv, HolderAtWork, Holding
<1>5. FewReturn'
  BY <1>0, <1>1 DEF WatchInv, FewReturn
<1>6. PoolWatched'
  BY <1>2, FS_EmptySet, MatchmakingAssumption DEF PoolWatched
<1>7. LaterComes'
  <2>1. CASE Cardinality(S) < MinPlayers
    <3>1. attempt'[j] = "readd" /\ popped'[j] = S /\ lock' = j
      BY <1>0, <1>1, <1>3, <2>1
    <3>2. (pool \cup Returning(lock))' = S
      BY <1>2, <3>1 DEF Returning
    <3>3. Cardinality(S) \in Nat
      BY <1>0, CountsGrow DEF Poppable
    <3>4. Cardinality((pool \cup Returning(lock))') < MinPlayers
      BY <2>1, <3>2
    <3>5. Refilled' => Cardinality((pool \cup Returning(lock))') >= MinPlayers
      BY DEF Refilled
    <3>6. ~Refilled'
      BY <3>2, <3>3, <3>4, <3>5, MatchmakingAssumption
    <3> QED BY <3>6 DEF LaterComes
  <2>2. CASE ~(Cardinality(S) < MinPlayers)
    <3>1. attempt'[j] = "lookup" /\ lock' = j
      BY <1>0, <1>1, <1>3, <2>2
    <3>2. (pool \cup Returning(lock))' = {}
      BY <1>2, <3>1 DEF Returning
    <3>3. Cardinality((pool \cup Returning(lock))') = 0
      BY <3>2, FS_EmptySet
    <3>4. Refilled' => Cardinality((pool \cup Returning(lock))') >= MinPlayers
      BY DEF Refilled
    <3>5. ~Refilled'
      BY <3>3, <3>4, MatchmakingAssumption
    <3> QED BY <3>5 DEF LaterComes
  <2> QED BY <2>1, <2>2
<1> QED BY <1>4, <1>5, <1>6, <1>7 DEF WatchInv

\* The way back makes no difference to what is in the pool or on its way to
\* it: if there are enough players now, somebody who joined meanwhile comes.
LEMMA ReaddWatched ==
  ASSUME Quiet, WatchTypes, WatchInv, NEW j \in Joins, TryReadd(j)
  PROVE  WatchInv'
<1> USE DEF redisVars, attemptVars, streamVars, boundVars
<1>0. /\ attempt \in [Joins -> Attempts] /\ popped \in [Joins -> SUBSET Players]
      /\ pool \in SUBSET Players /\ lock \in Joins \cup {NoJoin}
  BY DEF WatchTypes, TypeOK
<1>1. /\ pool' = pool \cup popped[j] /\ popped' = [popped EXCEPT ![j] = {}]
      /\ attempt' = [attempt EXCEPT ![j] = "release"]
      /\ attempt[j] = "readd" /\ UNCHANGED <<lock, join, before, expired>>
  BY DEF TryReadd, Quiet, Goto
<1>2. lock = j /\ lock # NoJoin
  BY <1>1, MatchmakingAssumption
  DEF WatchTypes, LockHeldUnlessExpired, WatchInv, HolderAtWork, Holding
<1>3. HolderAtWork'
  BY <1>0, <1>1, <1>2 DEF WatchInv, HolderAtWork, Holding
<1>4. FewReturn'
  BY <1>0, <1>1 DEF WatchInv, FewReturn
<1>5. \A m \in Joins : Coming(m) => Coming(m)'
  BY <1>0, <1>1 DEF Coming
<1>6. Cardinality(pool') >= MinPlayers => Refilled
  BY <1>1, <1>2 DEF Refilled, Returning
<1>7. PoolWatched'
  BY <1>5, <1>6 DEF WatchInv, LaterComes, PoolWatched
<1>8. LaterComes'
  <2>1. (pool \cup Returning(lock))' = pool'
    BY <1>0, <1>1, <1>2 DEF Returning
  <2>2. Refilled' => Cardinality((pool \cup Returning(lock))') >= MinPlayers
    BY DEF Refilled
  <2>3. Refilled' => Refilled
    BY <1>6, <2>1, <2>2
  <2> QED BY <1>1, <1>5, <2>3 DEF WatchInv, LaterComes
<1> QED BY <1>3, <1>4, <1>7, <1>8 DEF WatchInv

\* Past the pop and the way back, up to the release.
LEMMA LateWatched ==
  ASSUME Quiet, WatchTypes, WatchInv, NEW j \in Joins,
         \/ \E p \in Players : TryLookup(j, p)
         \/ TryCreate(j) \/ TryPublish(j) \/ TryDeliver(j)
  PROVE  WatchInv'
<1> USE DEF redisVars, attemptVars, streamVars, boundVars
<1> DEFINE Late == {"lookup", "publish", "deliver", "release"}
<1>0. /\ attempt \in [Joins -> Attempts] /\ popped \in [Joins -> SUBSET Players]
      /\ lock \in Joins \cup {NoJoin}
  BY DEF WatchTypes, TypeOK
<1>1. /\ UNCHANGED <<pool, lock, join, before, expired>>
      /\ attempt[j] \in Late
      /\ \E q \in Late : attempt' = [attempt EXCEPT ![j] = q]
      /\ \A k \in Joins \ {j} : popped'[k] = popped[k]
  BY <1>0 DEF TryLookup, TryCreate, TryPublish, TryDeliver, Goto
<1>2. \A k \in Joins : /\ attempt'[k] # attempt[k] => {attempt[k], attempt'[k]} \subseteq Late
                       /\ attempt[k] \notin Late => popped'[k] = popped[k]
  BY <1>0, <1>1
<1>3. HolderAtWork' /\ FewReturn'
  BY <1>0, <1>1, <1>2 DEF WatchInv, HolderAtWork, FewReturn, Holding
<1>4. \A m \in Joins : /\ Coming(m) => Coming(m)'
                       /\ attempt[m] = "pop" => attempt'[m] = "pop"
  BY <1>1, <1>2 DEF Coming
<1>5. PoolWatched'
  BY <1>1, <1>4 DEF WatchInv, PoolWatched
<1>6. LaterComes'
  <2>1. CASE lock \in Joins
    <3>1. Returning(lock)' = Returning(lock)
      BY <1>1, <1>2, <2>1 DEF Returning
    <3>2. Refilled' => Refilled
      BY <1>1, <1>2, <2>1, <3>1 DEF Refilled
    <3> QED BY <1>1, <1>4, <3>2 DEF WatchInv, LaterComes
  <2>2. CASE lock = NoJoin
    BY <1>1, <2>2 DEF LaterComes, Refilled
  <2> QED BY <1>0, <2>1, <2>2
<1> QED BY <1>3, <1>5, <1>6 DEF WatchInv

LEMMA ReleaseWatched ==
  ASSUME Quiet, WatchTypes, WatchInv, NEW j \in Joins, TryRelease(j)
  PROVE  WatchInv'
<1> USE DEF redisVars, attemptVars, streamVars, boundVars
<1>0. attempt \in [Joins -> Attempts] /\ lock \in Joins \cup {NoJoin}
  BY DEF WatchTypes, TypeOK
<1>1. lock = j
  BY DEF TryRelease, WatchTypes, LockHeldUnlessExpired, WatchInv, HolderAtWork,
         Holding
<1>2. /\ UNCHANGED <<pool, join, popped, before, expired>> /\ lock' = NoJoin
      /\ attempt[j] = "release" /\ attempt' = [attempt EXCEPT ![j] = "done"]
  BY <1>1 DEF TryRelease, Quiet, Goto
<1>3. HolderAtWork' /\ FewReturn' /\ LaterComes'
  BY <1>0, <1>2 DEF WatchInv, HolderAtWork, FewReturn, LaterComes, Refilled
<1>4. PoolWatched'
  BY <1>0, <1>2 DEF WatchInv, PoolWatched, Coming
<1> QED BY <1>3, <1>4 DEF WatchInv

LEMMA WatchStep ==
  Quiet /\ WatchTypes /\ WatchInv /\ [Next]_vars => WatchInv'
<1> SUFFICES ASSUME Quiet, WatchTypes, WatchInv, [Next]_vars
             PROVE  WatchInv'
  OBVIOUS
<1> USE DEF redisVars, attemptVars, streamVars, boundVars
<1>1. ASSUME NEW j \in Joins, JoinStep(j) \/ TryStep(j)
      PROVE  WatchInv'
  BY <1>1, JoinWatched, LockWatched, PopWatched, ReaddWatched, LateWatched,
     ReleaseWatched
  DEF TryStep
<1>2. ASSUME NEW s \in Subs, StreamStep(s)
      PROVE  WatchInv'
  <2>1. Unwatched
    BY <1>2 DEF Unwatched, StreamStep, Subscribe, Refresh, Receive, EndStream,
                Unregister
  <2> QED BY <2>1, UnwatchedStep
<1>3. ASSUME NEW p \in Players, LeaveStep(p) \/ DetailsExpire(p)
      PROVE  WatchInv'
  <2>1. Unwatched
    BY <1>3 DEF Unwatched, Quiet, LeaveStep, LeaveRemove, LeaveForget,
                LeaveUnsubscribe, DetailsExpire
  <2> QED BY <2>1, UnwatchedStep
<1>4. ~LockExpires
  BY FS_EmptySet DEF LockExpires, WatchInv, HolderAtWork, Quiet
<1>5. ~Restart
  BY DEF Restart, WatchTypes, TypeOK, Quiet
<1>6. ASSUME UNCHANGED vars
      PROVE  WatchInv'
  <2>1. Unwatched
    BY <1>6 DEF Unwatched, vars
  <2> QED BY <2>1, UnwatchedStep
<1> QED BY <1>1, <1>2, <1>3, <1>4, <1>5, <1>6 DEF Next

\* When nothing fails, no pair is left waiting in the pool without an attempt
\* that will pop it, whichever attempts have found the lock taken and given
\* up (matchmaking.go:118-133, 339-361).
THEOREM PoolIsWatched == Quiet => (Spec => []PoolWatched)
<1> SUFFICES ASSUME Quiet
             PROVE  Spec => []PoolWatched
  OBVIOUS
<1>1. Init => WatchTypes
  BY TypeInit, SeatInit, LockInit DEF WatchTypes
<1>2. WatchTypes /\ [Next]_vars => WatchTypes'
  BY TypeStep, RosterStep, LockStep DEF WatchTypes
<1>3. WatchTypes /\ WatchInv /\ [Next]_vars => WatchInv'
  BY WatchStep
<1>4. WatchInv => PoolWatched
  BY DEF WatchInv
<1> QED
  BY <1>1, <1>2, <1>3, <1>4, WatchInit, PTL DEF Spec
=============================================================================
